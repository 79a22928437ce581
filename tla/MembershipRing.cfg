\* A member declared dead and removed from the ring sends a datagram
\* again: it is alive in the list but never put back on the ring.
CONSTANTS
    Self = n1
    Others = {n2, n3}
    SuspectAfter = 0
    DeadAfter = 1
    Known = {n2, n3}
    Crashable = {n2}
    MaxInFlight = 1
    n1 = n1  n2 = n2  n3 = n3  k1 = k1  k2 = k2
    VirtualCount = 2
    RingKeys = {k1, k2}
    HashSpace = 8
    VHash <- MCVHash
    KHash <- MCKHash
SPECIFICATION Spec
INVARIANT RingFollowsMembership

