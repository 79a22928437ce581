\* One storage engine, two keys, one reader goroutine, up to three writes
\* and two crashes; SyncWrites at its default (false).
CONSTANTS
    Keys = {k1, k2}
    Readers = {r1}
    SyncWrite = FALSE
    MaxWrites = 3
    MaxCrashes = 2
    Garbage = Garbage
    NotFound = NotFound
    ReadErr = ReadErr
SPECIFICATION Spec
INVARIANT TypeOK
INVARIANT IndexMatchesLog
PROPERTY KVRefinement
CHECK_DEADLOCK FALSE
