SPECIFICATION Spec
CONSTANTS
    Worker = {w1, w2, w3}
    NoWorker = NoWorker
    NoFile = NoFile
    Torn = Torn
    Recoverable = {w1, w2}
    MaxActionErrors = 1
    MaxBodyErrors = 1
INVARIANTS
    LockProtectsFile
    NoSuccessWithoutAction
PROPERTIES
    NoLostRegistration
CHECK_DEADLOCK FALSE
