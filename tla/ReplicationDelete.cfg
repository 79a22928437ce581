\* A DELETE received by n1 followed by a quorum GET, N = 3, R = W = 2.
CONSTANTS
    n1 = n1
    n2 = n2
    n3 = n3
    Nodes = {n1, n2, n3}
    Coordinators = {n1}
    PrefList <- MCPrefList
    Puts = {}
    Gets = {g1}
    Deletes = {d1}
    InitWrite = w0
    Levels = {"quorum"}
    ReadQuorum <- MCReadQuorum
    WriteQuorum <- MCWriteQuorum
SPECIFICATION Spec
INVARIANT DeleteHidesKey
CHECK_DEADLOCK FALSE
