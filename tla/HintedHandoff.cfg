\* One target, two keys, three hints, queues of two, give-up after the
\* second failure: delivery passes,
\* eviction, expiry, give-up, and timed-out requests that
\* are applied late.
CONSTANTS
    Targets = {t1}
    Keys = {k1, k2}
    MaxSize = 2
    GiveUpAfter = 0
    MaxStores = 3
    NoTarget = NoTarget
SPECIFICATION Spec
INVARIANT TypeOK
PROPERTY HintsEventuallyRetired
