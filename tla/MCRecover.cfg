SPECIFICATION FairSpec
CONSTANTS
    Nodes = {n1, n2}
    Writes = {w1}
    Noop = Noop
    NoNode = NoNode
    MaxTerm = 3
    FileStore = TRUE
    SnapInDataDir = TRUE
    CheckPeers = TRUE
    MaxLog = 4
    MaxCrashes = 1
    MaxResets = 1
    MaxRecoveries = 1
CHECK_DEADLOCK FALSE
INVARIANTS
    RecoverServesHeld
PROPERTIES
    RecoveredLeads
