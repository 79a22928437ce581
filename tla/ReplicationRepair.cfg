\* Quorum reads and writes, N = 3, R = W = 2; one PUT and two GETs, each
\* received by n1 or n2, so that one GET's read repair is a remote write.
CONSTANTS
    n1 = n1
    n2 = n2
    n3 = n3
    Nodes = {n1, n2, n3}
    Coordinators = {n1, n2}
    PrefList <- MCPrefList
    Puts = {p1}
    Gets = {g1, g2}
    Deletes = {}
    InitWrite = w0
    Levels = {"quorum"}
    ReadQuorum <- MCReadQuorum
    WriteQuorum <- MCWriteQuorum
SPECIFICATION Spec



INVARIANT QuorumMonotonicity
CHECK_DEADLOCK FALSE
