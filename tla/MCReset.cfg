SPECIFICATION Spec
CONSTANTS
    Nodes = {n1, n2, n3}
    Writes = {w1}
    Noop = Noop
    NoNode = NoNode
    MaxTerm = 2
    FileStore = TRUE
    SnapInDataDir = TRUE
    CheckPeers = TRUE
    MaxLog = 3
    MaxCrashes = 1
    MaxResets = 2
    MaxRecoveries = 0
CHECK_DEADLOCK FALSE
SYMMETRY Symmetry
INVARIANTS
    TypeOK
    CommittedSurvive
    OneLeaderPerTerm
    ForgetfulHoldCommitted
PROPERTIES
    ServedStays
