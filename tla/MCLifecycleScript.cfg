SPECIFICATION Spec
CONSTANTS
    n1 = n1
    n2 = n2
    p1 = p1
    p2 = p2
    p3 = p3
    Nodes = {n1, n2}
    Procs = {p1, p2, p3}
    Host <- MCHost
    Peers <- MCPeers
    LogStore <- MCLogStore
    Scripted = TRUE
    Seed = n1
    NoProc = NoProc
    MaxLaunches = 4
    MaxWrites = 1
CHECK_DEADLOCK FALSE
INVARIANTS
    SkipsOnlyBootstrapped
