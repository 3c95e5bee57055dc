SPECIFICATION Spec
CONSTANTS
    Worker = {w1}
    Test = {t1}
    NoWorker = NoWorker
    NoTest = NoTest
    NoFile = NoFile
    Torn = Torn
    Mixed = Mixed
    MaxCrashes = 0
INVARIANTS DependentsFail
CHECK_DEADLOCK FALSE
