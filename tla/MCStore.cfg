SPECIFICATION Spec
CONSTANTS
    Nodes = {n1, n2, n3}
    Writes = {w1, w2}
    Noop = Noop
    NoNode = NoNode
    MaxTerm = 2
    RetryOn500 = FALSE
    MaxLog = 4
    MaxReads = 0
    MaxCrashes = 0
CHECK_DEADLOCK FALSE
SYMMETRY Symmetry
PROPERTIES
    ImplementsService
