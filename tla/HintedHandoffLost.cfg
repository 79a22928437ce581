\* One target and one key: a newer hint for the key is dropped by the
\* RemoveHint that follows the delivery of an older one.
CONSTANTS
    Targets = {t1}
    Keys = {k1}
    MaxSize = 2
    GiveUpAfter = 1
    MaxStores = 2
    NoTarget = NoTarget
SPECIFICATION Spec
INVARIANT NoHintLost
