SPECIFICATION Spec
CONSTANTS
    Nodes = {n1, n2, n3}
    Writes = {w1}
    Noop = Noop
    NoNode = NoNode
    MaxTerm = 2
    RetryOn500 = TRUE
    MaxLog = 3
    MaxReads = 1
    MaxCrashes = 1
CHECK_DEADLOCK FALSE
SYMMETRY Symmetry
INVARIANTS
    TypeOK
    ReadsCommitted
    SettledReadFresh
    AckedCommitted
PROPERTIES
    NeverTakenBack
