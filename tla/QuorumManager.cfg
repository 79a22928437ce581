\* Three operations, N = 3, R = W = 2, entries with two timestamps; calls at
\* every consistency level, one after another.
CONSTANTS
    Ops = {n1, n2, n3}
    ReplicationFactor <- MCReplicationFactor
    ReadQuorum <- MCReadQuorum
    WriteQuorum <- MCWriteQuorum
    Ts = {1, 2}
SPECIFICATION Spec
INVARIANT TypeOK NoDoubleClose FailureOnlyWhenExhausted ReadReturnsNewest
PROPERTY CallReturns
