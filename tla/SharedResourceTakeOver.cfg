SPECIFICATION Spec
CONSTANTS
    Worker = {w1, w2}
    NoWorker = NoWorker
    NoFile = NoFile
    Torn = Torn
    Recoverable = {w1, w2}
    MaxActionErrors = 1
    MaxBodyErrors = 0
PROPERTIES
    FailureAwaitsTakeOver
