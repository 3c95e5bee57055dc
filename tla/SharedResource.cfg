SPECIFICATION FairSpec
CONSTANTS
    Worker = {w1, w2, w3}
    NoWorker = NoWorker
    NoFile = NoFile
    Torn = Torn
    Recoverable = {}
    MaxActionErrors = 1
    MaxBodyErrors = 0
INVARIANTS
    ReleaseAfterAction
PROPERTIES
    PerformedOnce
    IsRendezvous
    EveryoneLeaves
