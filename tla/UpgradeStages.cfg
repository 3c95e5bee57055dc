SPECIFICATION FairSpec
CONSTANTS
    Worker = {w1, w2}
    Test = {t1, t2}
    NoWorker = NoWorker
    NoTest = NoTest
    NoFile = NoFile
    Torn = Torn
    Mixed = Mixed
    MaxCrashes = 2
INVARIANTS NothingSavedIsLost NoStaleData RunsOnlyAfterItsPre
PROPERTIES BothRunsEnd
CHECK_DEADLOCK FALSE
