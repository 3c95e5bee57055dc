SPECIFICATION FairSpec
CONSTANTS
    Process = {p1, p2}
    NoProcess = NoProcess
    Orphan = Orphan
    NoValue = NoValue
    Torn = Torn
    Retries = 2
    ShareTimeout = 1
    MaxClock = 3
    MaxCalls = 2
    MaxCrashes = 1
INVARIANTS OneMaker SharedWhileValid ResultsAreShared
PROPERTIES EveryCallEnds
CHECK_DEADLOCK FALSE
