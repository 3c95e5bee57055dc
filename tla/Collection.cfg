SPECIFICATION Spec
CONSTANTS
    Worker = {w1, w2}
    Issue = {i1, i2}
    Component = {c1, c2}
    NoIssue = NoIssue
    i1 = i1
    i2 = i2
    c1 = c1
    c2 = c2
    Test <- Tests
    About <- AboutTests
    Suite <- CollectedTests
    Session <- Sessions
    File <- Files
    Jira <- Jiras
    MaxReplacements = 1
    MaxTroubles = 1
SYMMETRY Symmetry
INVARIANTS WorkersAgree OutcomesAreReported
PROPERTY CollectionAsAsked
CHECK_DEADLOCK FALSE
