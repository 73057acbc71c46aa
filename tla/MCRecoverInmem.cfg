SPECIFICATION Spec
CONSTANTS
    Nodes = {n1, n2, n3}
    Writes = {w1}
    Noop = Noop
    NoNode = NoNode
    MaxTerm = 2
    FileStore = FALSE
    SnapInDataDir = TRUE
    CheckPeers = TRUE
    MaxLog = 3
    MaxCrashes = 0
    MaxResets = 0
    MaxRecoveries = 1
CHECK_DEADLOCK FALSE
SYMMETRY Symmetry
INVARIANTS
    RecoverServesHeld
