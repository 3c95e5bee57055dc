SPECIFICATION FairSpec
CONSTANTS
    Process = {p1, p2}
    PidSpace = {p1, p2, p3}
    Function = {f, g}
    CommonScope = TRUE
    MaxCalls = 4
    MaxErrors = 1
    MaxKills = 1
    None = None
INVARIANTS OneInFunction UpdatesSurvive
PROPERTIES RecursionIsSeen WaitingEnds
CHECK_DEADLOCK FALSE
