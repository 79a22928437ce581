\* Self and two other nodes, so that one member's gossip reports on the
\* other; suspect after one silent tick, dead after two.  Two virtual nodes
\* per node on a ring of eight hashes.
CONSTANTS
    Self = n1
    Others = {n2, n3}
    SuspectAfter = 0
    DeadAfter = 1
    Known = {n2}
    Crashable = {n2}
    MaxInFlight = 1
    n1 = n1  n2 = n2  n3 = n3  k1 = k1  k2 = k2
    VirtualCount = 2
    RingKeys = {k1, k2}
    HashSpace = 8
    VHash <- MCVHash
    KHash <- MCKHash
SPECIFICATION Spec
INVARIANT TypeOK RingLookupsAgree
PROPERTY CrashedEventuallyDead
