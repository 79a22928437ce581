\* Two goroutines in Bitcask.Get at once, sharing the writer and the file offset.
CONSTANTS
    Keys = {k1, k2}
    Readers = {r1, r2}
    SyncWrite = FALSE
    MaxWrites = 2
    MaxCrashes = 0
    Garbage = Garbage
    NotFound = NotFound
    ReadErr = ReadErr
SPECIFICATION Spec
INVARIANT GetReturnsLatest
CHECK_DEADLOCK FALSE
