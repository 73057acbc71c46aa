SPECIFICATION FairSpec
CONSTANTS
    k1 = k1
    bad = bad
    subst = subst
    v1 = v1
    v2 = v2
    p1 = p1
    i1 = i1
    Keys = {bad, subst}
    JSONText <- MCJSONText
    Values = {v1}
    PeerIDs = {p1}
    PeerInfo = {i1}
    NoID = NoID
    Absent = Absent
    Garbage = Garbage
    Retain = 2
    FileStore = TRUE
    TrailingLogs = 0
    MaxLog = 3
    MaxSnapshots = 3
    MaxCrashes = 1
CHECK_DEADLOCK FALSE
INVARIANTS
    TypeOK
    LastWriterWins
    SnapshotFaithful
    NeverGap
PROPERTIES
    CatchesUp
