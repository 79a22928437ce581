\* A suspect member's own datagram is recorded while checkMembers, which
\* read it as suspect past the dead timeout, is about to call transitionTo:
\* the member goes from alive to dead without passing through suspect.
CONSTANTS
    Self = n1
    Others = {n2, n3}
    SuspectAfter = 0
    DeadAfter = 1
    Known = {n2}
    Crashable = {n2}
    MaxInFlight = 1
    n1 = n1  n2 = n2  n3 = n3  k1 = k1  k2 = k2
    VirtualCount = 2
    RingKeys = {k1, k2}
    HashSpace = 8
    VHash <- MCVHash
    KHash <- MCKHash
SPECIFICATION Spec
PROPERTY LifecycleRefinement
