SPECIFICATION Spec
CONSTANTS
    Cli <- Classes
    Class <- ClassNames
    Roaming <- RoamingNames
    Satellite = {"target", "other"}
    Home = "target"
    MaxSteps = 3
INVARIANTS
    CallsAreAsWritten
    OrgIsDeclared
    CommandsGoWhereMeant
    ContextsUnwind
    CredentialsAsAsked
CHECK_DEADLOCK FALSE
