SPECIFICATION FairSpec
CONSTANTS
    n1 = n1
    n2 = n2
    n3 = n3
    r1 = r1
    r2 = r2
    Nodes = {n1, n2}
    Listed = {n1, n2, n3}
    Requests = {r1, r2}
    Workloads <- MCWorkloads
    MaxTerm = 2
    MaxFaults = 2
CHECK_DEADLOCK FALSE
INVARIANTS
    TypeOK
    ReportedLeaderLed
    FanOutComplete
    CountersAgree
PROPERTIES
    FullStatusAnswered
