\* A crash with a half-written record at the end of data.db, then a restart.
CONSTANTS
    Keys = {k1, k2}
    Readers = {r1}
    SyncWrite = FALSE
    MaxWrites = 1
    MaxCrashes = 1
    Garbage = Garbage
    NotFound = NotFound
    ReadErr = ReadErr
SPECIFICATION Spec
INVARIANT RecoveryOpens
CHECK_DEADLOCK FALSE
