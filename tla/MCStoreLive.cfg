SPECIFICATION FairSpec
CONSTANTS
    Nodes = {n1, n2}
    Writes = {w1}
    Noop = Noop
    NoNode = NoNode
    MaxTerm = 2
    RetryOn500 = TRUE
    MaxLog = 4
    MaxReads = 0
    MaxCrashes = 2
CHECK_DEADLOCK FALSE
PROPERTIES
    AnsweredEventually
