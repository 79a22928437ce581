\* Quorum reads and writes, N = 3, R = W = 2, received by n1 or n2: one PUT,
\* one GET and a concurrent local DELETE.  The read
\* seeing an acknowledged write, and every PUT and GET returning with every
\* read repair walking the whole preference list.
CONSTANTS
    n1 = n1
    n2 = n2
    n3 = n3
    Nodes = {n1, n2, n3}
    Coordinators = {n1, n2}
    PrefList <- MCPrefList
    Puts = {p1}
    Gets = {g1}
    Deletes = {d1}
    InitWrite = w0
    Levels = {"quorum"}
    ReadQuorum <- MCReadQuorum
    WriteQuorum <- MCWriteQuorum
SPECIFICATION Spec
INVARIANT TypeOK
INVARIANT QuorumReadSeesAckedWrite
PROPERTY OperationsTerminate
CHECK_DEADLOCK FALSE
