SPECIFICATION Spec
CONSTANTS
    n1 = n1
    n2 = n2
    n3 = n3
    a1 = a1
    a2 = a2
    a3 = a3
    h1 = h1
    h2 = h2
    h3 = h3
    h4 = h4
    Nodes <- MCNodes
    Boot <- MCBoot
    Static <- MCStatic
    Joins <- MCJoinsPlain
    Removes = {n3}
    Handlers = {r1}
    NoAddr = NoAddr
    NoHTTP = NoHTTP
    NoPeer = NoPeer
    NoNode = NoNode
    NoRequest = NoRequest
    MaxRequests = 1
    MaxElections = 2
CHECK_DEADLOCK FALSE
INVARIANTS
    RedirectIsHTTP
