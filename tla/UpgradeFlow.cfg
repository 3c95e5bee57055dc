SPECIFICATION FairSpec
CONSTANTS
    Worker = {w1, w2}
    Tests = 1
    MaxFailures = 1
    NoFile = NoFile
    NoSat = NoSat
INVARIANTS TestAfterUpgrade OneUpgradeAtATime Punctual NothingLeftBehind
PROPERTIES EveryTestEnds
\* The tests may end, and around an orphaned file they may all wait (EveryTestEnds).
CHECK_DEADLOCK FALSE
