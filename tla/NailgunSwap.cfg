SPECIFICATION SwapSpec
CONSTANTS
    Process = {w1, w2, w3}
    Version = {from, to}
    Base = base
    NoProcess = NoProcess
    NoVersion = NoVersion
    MaxSwaps = 4
    MaxPipFailures = 1
SYMMETRY Symmetry
INVARIANTS AskedIsGiven
PROPERTIES SameVersionIsShared
CHECK_DEADLOCK FALSE
