------------------------------- MODULE Bitcask -------------------------------
(***************************************************************************)
(* One node's storage engine: internal/storage/bitcask.go and index.go.    *)
(*                                                                         *)
(* The data file data.db is a sequence of records (disk); the bufio.Writer *)
(* in front of it holds records not yet written to the file (buf).  The    *)
(* in-memory Index maps a key to the offset, timestamp and tombstone flag  *)
(* of its latest record and keeps the active/deleted counters.  Offsets    *)
(* count records from 0 (the byte offset when records have one size).     *)
(*                                                                         *)
(* Writers (Put, Delete, Sync, Compact, Close) hold bc.mu exclusively and  *)
(* are single steps.  Get holds bc.mu only shared, so the Gets of several  *)
(* goroutines interleave: each flushes the shared bufio.Writer, seeks the  *)
(* shared *os.File and reads from it as separate steps.                    *)
(*                                                                         *)
(* A crash kills the process: the buffer is lost, what was written to the  *)
(* file stays (the OS keeps it), and the last record may be half written.  *)
(* A restart is NewBitcask: rebuildIndex replays the file.                  *)
(***************************************************************************)
EXTENDS Integers, Sequences, FiniteSets, SequencesExt

CONSTANTS
    Keys,         \* the keys written
    Readers,      \* goroutines calling Bitcask.Get concurrently
    SyncWrite,    \* config.SyncWrites: flush and fsync in every write
    MaxWrites,    \* bound on the Put/Delete calls (and timestamps)
    MaxCrashes,   \* bound on process crashes
    Garbage,      \* the bytes of a half-written record
    NotFound,     \* ErrKeyNotFound / ErrKeyDeleted
    ReadErr       \* an error from Flush, Seek or readEntry

ASSUME SyncWrite \in BOOLEAN /\ MaxWrites \in Nat /\ MaxCrashes \in Nat

(* A record of the data file: key, timestamp, tombstone flag.  Values are *)
(* left out: a write is identified by its timestamp.                       *)
Rec == [key : Keys, ts : 1..MaxWrites, del : BOOLEAN]
Absent == [absent |-> TRUE]
IdxEntry == [off : Nat, ts : 1..MaxWrites, del : BOOLEAN]

VARIABLES
    status,    \* "open", "closed" (Close ran), "down" (crashed), "failed"
    disk,      \* the contents of data.db
    buf,       \* records in bc.writer not yet written to the file
    ix,        \* bc.index: [idx, active, deleted]
    position,  \* bc.position: offset of the next record
    handle,    \* bc.dataFile: "open", or "closed" after a failed Compact
    werr,      \* the bufio.Writer's sticky error after a failed Flush
    fileOff,   \* the file offset of bc.dataFile, shared by all Gets
    rd,        \* rd[r]: the Get in progress in goroutine r
    clock,     \* timestamps handed out to writes
    crashes,   \* crashes so far
    hist,      \* history: the writes the engine acknowledged, in order
    nflushed   \* history: how many of them Sync/Close/SyncWrite reported durable

vars == <<status, disk, buf, ix, position, handle, werr, fileOff, rd, clock,
          crashes, hist, nflushed>>

-----------------------------------------------------------------------------
(* NewIndex.                                                               *)
EmptyIndex == [idx |-> [k \in Keys |-> Absent], active |-> 0, deleted |-> 0]

(* Index.Put: replaces the entry.  A key that was a tombstone leaves the   *)
(* deleted count, but is not added to the active count.                    *)
IndexPut(x, k, off, ts) ==
    [idx     |-> [x.idx EXCEPT ![k] = [off |-> off, ts |-> ts, del |-> FALSE]],
     active  |-> IF x.idx[k] = Absent THEN x.active + 1 ELSE x.active,
     deleted |-> IF x.idx[k] # Absent /\ x.idx[k].del THEN x.deleted - 1
                 ELSE x.deleted]

(* Index.Delete: a new tombstone at offset 0 for an unknown key; a live    *)
(* entry is flipped (keeping its offset); a tombstone is left as it is.    *)
IndexDelete(x, k, ts) ==
    CASE x.idx[k] = Absent ->
            [x EXCEPT !.idx[k] = [off |-> 0, ts |-> ts, del |-> TRUE],
                      !.deleted = @ + 1]
      [] ~x.idx[k].del ->
            [x EXCEPT !.idx[k].del = TRUE, !.idx[k].ts = ts,
                      !.active = @ - 1, !.deleted = @ + 1]
      [] OTHER -> x

(* The index update of Put and Delete for the record written at off.       *)
IndexApply(x, r, off) ==
    IF r.del THEN IndexDelete(x, r.key, r.ts) ELSE IndexPut(x, r.key, off, r.ts)

(* Faulty variant: the offset advanced before the index update.          *)
ReplayStepSwapped(x, i, f) == IndexApply(x, f[i], i)

(* One iteration of rebuildIndex's loop: the record at item i of file f    *)
(* starts at offset i - 1.                                                 *)
ReplayStep(x, i, f) == IndexApply(x, f[i], i - 1)

(* rebuildIndex on a file of whole records.                                *)
Replay(f) == FoldLeftDomain(LAMBDA x, i : ReplayStep(x, i, f), EmptyIndex, f)

(* What Get returns for each key, by timestamp (0: not found).             *)
IxView(x) ==
    [k \in Keys |-> IF x.idx[k] = Absent \/ x.idx[k].del THEN 0
                    ELSE x.idx[k].ts]

(* The same, computed from a sequence of writes applied in order.          *)
LogicalView(h) ==
    [k \in Keys |->
        LET w == {i \in DOMAIN h : h[i].key = k}
        IN  IF w = {} \/ h[Max(w)].del THEN 0 ELSE h[Max(w)].ts]

(* The first j acknowledged writes.                                        *)
SubHist(j) == SubSeq(hist, 1, j)

(* Holding bc.mu exclusively: the store is open and no Get holds it.       *)
Writable ==
    /\ status = "open"
    /\ \A r \in Readers : rd[r].pc \in {"idle", "done"}
-----------------------------------------------------------------------------
(* writeEntry followed by the index update of Put or Delete.  A sticky     *)
(* writer error fails the buffered write at once (no step is taken).  With *)
(* SyncWrite the record is flushed and fsynced before returning; if that   *)
(* Flush fails, position has moved and the record stays buffered, but the  *)
(* index is not updated and the caller gets the error.                    *)
WriteRecord(rec) ==
    /\ ~werr
    /\ position' = position + 1
    /\ IF SyncWrite /\ handle # "open"
       THEN /\ buf' = Append(buf, rec)
            /\ werr' = TRUE
            /\ UNCHANGED <<disk, ix, fileOff, hist, nflushed>>
       ELSE /\ ix' = IndexApply(ix, rec, position)
            /\ hist' = Append(hist, rec)
            /\ UNCHANGED werr
            /\ IF SyncWrite
               THEN /\ disk' = disk \o Append(buf, rec)
                    /\ buf' = <<>>
                    /\ fileOff' = Len(disk')
                    /\ nflushed' = Len(hist')
               ELSE /\ buf' = Append(buf, rec)
                    /\ UNCHANGED <<disk, fileOff, nflushed>>

(* Faulty variant: the tombstone written without its timestamp.          *)
DeleteNoTimestamp(k) ==
    /\ Writable
    /\ clock < MaxWrites
    /\ clock' = clock + 1
    /\ WriteRecord([key |-> k, ts |-> 0, del |-> TRUE])
    /\ UNCHANGED <<status, handle, rd, crashes>>

(* Bitcask.Put and Bitcask.Delete (a tombstone record).                    *)
Put(k) ==
    /\ Writable
    /\ clock < MaxWrites
    /\ clock' = clock + 1
    /\ WriteRecord([key |-> k, ts |-> clock + 1, del |-> FALSE])
    /\ UNCHANGED <<status, handle, rd, crashes>>

Delete(k) ==
    /\ Writable
    /\ clock < MaxWrites
    /\ clock' = clock + 1
    /\ WriteRecord([key |-> k, ts |-> clock + 1, del |-> TRUE])
    /\ UNCHANGED <<status, handle, rd, crashes>>

-----------------------------------------------------------------------------
(* Bitcask.Get, under the read lock.  First the index lookup: a missing    *)
(* key or a tombstone returns at once.                                     *)
Done(r, out) == [rd EXCEPT ![r] = [pc |-> "done", key |-> rd[r].key,
                                   off |-> rd[r].off, ts |-> rd[r].ts,
                                   out |-> out]]

GetStart(r, k) ==
    /\ status = "open"
    /\ rd[r].pc \in {"idle", "done"}
    /\ rd' = [rd EXCEPT ![r] =
                IF ix.idx[k] = Absent \/ ix.idx[k].del
                THEN [pc |-> "done", key |-> k, off |-> 0, ts |-> 0,
                      out |-> NotFound]
                ELSE [pc |-> "flush", key |-> k, off |-> ix.idx[k].off,
                      ts |-> ix.idx[k].ts, out |-> NotFound]]
    /\ UNCHANGED <<status, disk, buf, ix, position, handle, werr, fileOff,
                   clock, crashes, hist, nflushed>>

(* bc.writer.Flush(): the buffered bytes are written to the file (which   *)
(* is opened O_APPEND: the shared offset moves to the end).  The buffer is *)
(* emptied only in the next step, unsynchronised with other Gets.          *)
GetFlush(r) ==
    /\ rd[r].pc = "flush"
    /\ CASE werr ->
              /\ rd' = Done(r, ReadErr)
              /\ UNCHANGED <<disk, werr, fileOff>>
         [] buf = <<>> ->
              /\ rd' = [rd EXCEPT ![r].pc = "seek"]
              /\ UNCHANGED <<disk, werr, fileOff>>
         [] handle # "open" ->
              /\ rd' = Done(r, ReadErr)
              /\ werr' = TRUE
              /\ UNCHANGED <<disk, fileOff>>
         [] OTHER ->
              /\ disk' = disk \o buf
              /\ fileOff' = Len(disk')
              /\ rd' = [rd EXCEPT ![r].pc = "reset"]
              /\ UNCHANGED werr
    /\ UNCHANGED <<status, buf, ix, position, handle, clock, crashes, hist,
                   nflushed>>

(* Flush's b.n = 0 after its Write returned.                               *)
GetFlushReset(r) ==
    /\ rd[r].pc = "reset"
    /\ buf' = <<>>
    /\ rd' = [rd EXCEPT ![r].pc = "seek"]
    /\ UNCHANGED <<status, disk, ix, position, handle, werr, fileOff, clock,
                   crashes, hist, nflushed>>

(* bc.dataFile.Seek(entry.Offset, io.SeekStart).                           *)
GetSeek(r) ==
    /\ rd[r].pc = "seek"
    /\ IF handle # "open"
       THEN rd' = Done(r, ReadErr) /\ UNCHANGED fileOff
       ELSE rd' = [rd EXCEPT ![r].pc = "read"] /\ fileOff' = rd[r].off
    /\ UNCHANGED <<status, disk, buf, ix, position, handle, werr, clock,
                   crashes, hist, nflushed>>

(* readEntry through a fresh bufio.Reader at the file's current offset:    *)
(* the record found there is returned (its key is not compared), and the  *)
(* reader's read-ahead leaves the offset anywhere up to the end.           *)
GetRead(r) ==
    /\ rd[r].pc = "read"
    /\ IF fileOff >= Len(disk) \/ disk[fileOff + 1] = Garbage
       THEN rd' = Done(r, ReadErr) /\ UNCHANGED fileOff
       ELSE /\ rd' = Done(r, disk[fileOff + 1])
            /\ fileOff' \in fileOff + 1..Len(disk)
    /\ UNCHANGED <<status, disk, buf, ix, position, handle, werr, clock,
                   crashes, hist, nflushed>>
-----------------------------------------------------------------------------
(* Faulty variant: fsync without flushing the bufio.Writer first.         *)
SyncWithoutFlush ==
    /\ Writable
    /\ ~werr
    /\ nflushed' = IF handle = "open" THEN Len(hist) ELSE nflushed
    /\ UNCHANGED <<status, disk, buf, ix, position, handle, werr, fileOff, rd,
                   clock, crashes, hist>>

(* Bitcask.Sync: Flush, then fsync.  Success tells the caller that every  *)
(* acknowledged write is in the file.                                      *)
Sync ==
    /\ Writable
    /\ ~werr
    /\ IF buf # <<>> /\ handle # "open"
       THEN /\ werr' = TRUE
            /\ UNCHANGED <<disk, buf, fileOff, nflushed>>
       ELSE /\ disk' = disk \o buf
            /\ buf' = <<>>
            /\ fileOff' = IF buf = <<>> THEN fileOff ELSE Len(disk')
            /\ nflushed' = IF handle = "open" THEN Len(hist) ELSE nflushed
            /\ UNCHANGED werr
    /\ UNCHANGED <<status, ix, position, handle, rd, clock, crashes, hist>>

(* Bitcask.Close: closed is set first, then Flush and fsync; the process  *)
(* exits afterwards.                                                       *)
Close ==
    /\ Writable
    /\ status' = "closed"
    /\ IF werr \/ (buf # <<>> /\ handle # "open")
       THEN UNCHANGED <<disk, buf, nflushed>>
       ELSE /\ disk' = disk \o buf
            /\ buf' = <<>>
            /\ nflushed' = IF handle = "open" THEN Len(hist) ELSE nflushed
    /\ UNCHANGED <<ix, position, handle, werr, fileOff, rd, clock, crashes,
                   hist>>

-----------------------------------------------------------------------------
(* Bitcask.Compact.  The keys that are not tombstones, in the iteration    *)
(* order of the index map (any order: offsets are assigned consistently).  *)
LiveKeys == {k \in Keys : ix.idx[k] # Absent /\ ~ix.idx[k].del}
CompactOrder == SetToSeq(LiveKeys)

(* data.db.tmp: for each live key, the record read at the key's offset in *)
(* the flushed file f, rewritten under the key of the index.               *)
CompactFile(f) ==
    [i \in 1..Len(CompactOrder) |->
        [key |-> CompactOrder[i], ts |-> f[ix.idx[CompactOrder[i]].off + 1].ts,
         del |-> FALSE]]

CompactOutcomes == {"ok", "tempfail", "renamefail", "reopenfail"}

(* Compact's initial Flush fails on a closed data file.                    *)
CompactFlushFails ==
    /\ Writable
    /\ ~werr
    /\ handle # "open"
    /\ buf # <<>>
    /\ werr' = TRUE
    /\ UNCHANGED <<status, disk, buf, ix, position, handle, fileOff, rd, clock,
                   crashes, hist, nflushed>>

(* After the Flush: rewrite into data.db.tmp (an I/O error, or a read past *)
(* the end, aborts with the old file in place), close the data file,       *)
(* rename, reopen, swap index and position.  A failed rename leaves the    *)
(* old file closed; a failed reopen leaves the new file on disk, the old   *)
(* index in memory and no usable file.                                     *)
Compact(o) ==
    LET f == disk \o buf
        readFails == \E k \in LiveKeys : ix.idx[k].off >= Len(f)
    IN
    /\ Writable
    /\ ~werr
    /\ handle = "open" \/ (buf = <<>> /\ LiveKeys = {})
    /\ buf' = <<>>
    /\ IF readFails \/ o = "tempfail"
       THEN /\ disk' = f
            /\ UNCHANGED <<ix, position, handle>>
       ELSE CASE o = "ok" ->
                   /\ disk' = CompactFile(f)
                   /\ ix' = Replay(CompactFile(f))
                   /\ position' = Len(CompactOrder)
                   /\ handle' = "open"
              [] o = "renamefail" ->
                   /\ disk' = f
                   /\ handle' = "closed"
                   /\ UNCHANGED <<ix, position>>
              [] o = "reopenfail" ->
                   /\ disk' = CompactFile(f)
                   /\ handle' = "closed"
                   /\ UNCHANGED <<ix, position>>
    /\ UNCHANGED <<status, werr, fileOff, rd, clock, crashes, hist, nflushed>>

-----------------------------------------------------------------------------
(* The buffered records not yet in the file (a Get's Flush may have       *)
(* written them without emptying the buffer yet).                          *)
Unwritten == IF \E r \in Readers : rd[r].pc = "reset" THEN <<>> ELSE buf

(* The process is killed.  The buffer is lost, except a prefix of it that  *)
(* bufio spilled to the file when it filled up, possibly ending in a       *)
(* record only partly written (a spill, or a write in progress, cut off).  *)
Crash ==
    /\ status = "open"
    /\ crashes < MaxCrashes
    /\ \E j \in 0..Len(Unwritten), torn \in BOOLEAN :
          /\ (j > 0 \/ torn) => handle = "open" /\ ~werr
          /\ torn => j < Len(Unwritten) \/ Writable
          /\ disk' = disk \o SubSeq(Unwritten, 1, j)
                          \o (IF torn THEN <<Garbage>> ELSE <<>>)
    /\ status' = "down"
    /\ crashes' = crashes + 1
    /\ buf' = <<>>
    /\ ix' = EmptyIndex
    /\ position' = 0
    /\ handle' = "open"
    /\ werr' = FALSE
    /\ fileOff' = 0
    /\ rd' = [r \in Readers |-> [pc |-> "idle"]]
    /\ UNCHANGED <<clock, hist, nflushed>>

(* The shortest prefix of the acknowledged writes, at least as long as     *)
(* what was reported durable, whose effect the index x shows.              *)
Recovered(x) ==
    LET J == {j \in nflushed..Len(hist) :
                LogicalView(SubHist(j)) = IxView(x)}
    IN  IF J = {} THEN Len(hist) ELSE Min(J)

(* NewBitcask: open, seek to the end, rebuildIndex.  A partial record at  *)
(* the end is an ErrUnexpectedEOF from readEntry: NewBitcask returns the  *)
(* error and the node does not start.                                      *)
Restart ==
    /\ status \in {"down", "closed"}
    /\ IF Garbage \in Range(disk)
       THEN /\ status' = "failed"
            /\ UNCHANGED <<ix, position, fileOff, hist, nflushed>>
       ELSE /\ status' = "open"
            /\ ix' = Replay(disk)
            /\ position' = Len(disk)
            /\ fileOff' = Len(disk)
            /\ hist' = SubHist(Recovered(ix'))
            /\ nflushed' = Recovered(ix')
    /\ buf' = <<>>
    /\ handle' = "open"
    /\ werr' = FALSE
    /\ rd' = [r \in Readers |-> [pc |-> "idle"]]
    /\ UNCHANGED <<disk, clock, crashes>>
-----------------------------------------------------------------------------
Init ==
    /\ status = "open"
    /\ disk = <<>>
    /\ buf = <<>>
    /\ ix = EmptyIndex
    /\ position = 0
    /\ handle = "open"
    /\ werr = FALSE
    /\ fileOff = 0
    /\ rd = [r \in Readers |-> [pc |-> "idle"]]
    /\ clock = 0
    /\ crashes = 0
    /\ hist = <<>>
    /\ nflushed = 0

Next ==
    \/ \E k \in Keys : Put(k) \/ Delete(k)
    \/ \E r \in Readers, k \in Keys : GetStart(r, k)
    \/ \E r \in Readers : \/ GetFlush(r) \/ GetFlushReset(r)
                         \/ GetSeek(r) \/ GetRead(r)
    \/ Sync
    \/ Close
    \/ CompactFlushFails
    \/ \E o \in CompactOutcomes : Compact(o)
    \/ Crash
    \/ Restart

Spec == Init /\ [][Next]_vars

-----------------------------------------------------------------------------
TypeOK ==
    /\ status \in {"open", "closed", "down", "failed"}
    /\ disk \in Seq(Rec \cup {Garbage})
    /\ buf \in Seq(Rec)
    /\ ix.idx \in [Keys -> IdxEntry \cup {Absent}]
    /\ ix.active \in Int /\ ix.deleted \in Int
    /\ position \in Nat
    /\ handle \in {"open", "closed"}
    /\ werr \in BOOLEAN
    /\ fileOff \in Nat
    /\ \A r \in Readers :
         \/ rd[r] = [pc |-> "idle"]
         \/ rd[r] \in [pc : {"flush", "reset", "seek", "read", "done"},
                       key : Keys, off : Nat, ts : 0..MaxWrites,
                       out : Rec \cup {NotFound, ReadErr}]
    /\ clock \in 0..MaxWrites
    /\ crashes \in 0..MaxCrashes
    /\ hist \in Seq(Rec)
    /\ nflushed \in 0..Len(hist)

(* The log as the engine addresses it: the file followed by the buffer,   *)
(* except while a Get's Flush has written the buffer and not yet reset it. *)
Log == disk \o Unwritten

(* Spec section 4.1, invariants (i) and (ii): while the store is usable,   *)
(* position is the end of the log and every live index entry points at    *)
(* the record of its key and timestamp, across Puts, Deletes, Gets'       *)
(* flushes, compaction and rebuildIndex after a restart.                  *)
IndexMatchesLog ==
    status = "open" /\ handle = "open" =>
        /\ position = Len(Log)
        /\ \A k \in Keys :
             ix.idx[k] # Absent /\ ~ix.idx[k].del =>
                /\ ix.idx[k].off < Len(Log)
                /\ Log[ix.idx[k].off + 1] =
                      [key |-> k, ts |-> ix.idx[k].ts, del |-> FALSE]

(* A Get that returns a record returns the record of the key it asked for *)
(* with the timestamp the index held when it looked the key up (writers   *)
(* are excluded while it runs), whatever the flush, seek and read of other *)
(* Gets did to the shared writer and file offset in between.               *)
GetReturnsLatest ==
    \A r \in Readers :
        rd[r].pc = "done" /\ rd[r].out \in Rec =>
            rd[r].out.key = rd[r].key /\ rd[r].out.ts = rd[r].ts

(* The refinement mapping to DurableKV: while the store is open the map   *)
(* is what the index answers; the acknowledged writes and how many were    *)
(* reported durable are the history variables; a finished Get's answer is *)
(* the timestamp of the record it read (NotFound: 0).                      *)
KVAnswer(r) ==
    IF status = "open" /\ rd[r].pc = "done"
    THEN {[key |-> rd[r].key,
           ok  |-> rd[r].out # ReadErr,
           val |-> IF rd[r].out \in Rec THEN rd[r].out.ts ELSE 0]}
    ELSE {}

KV == INSTANCE DurableKV WITH
        kv      <- IF status = "open" THEN IxView(ix) ELSE [k \in Keys |-> 0],
        writes  <- hist,
        durable <- nflushed,
        up      <- status = "open",
        ans     <- [r \in Readers |-> KVAnswer(r)]

(* Spec sections 4.1 and 8 (property 4, scenario S6): the engine behaves   *)
(* as DurableKV.  Every Put and Delete changes the answer of its key as    *)
(* the write says; every Get, through its interleaved flush, seek and read *)
(* of the shared writer and file, returns the latest write of its key; a   *)
(* restart after Close or a crash (torn tail truncated by replay) shows a  *)
(* prefix of the acknowledged writes containing every write a Sync, Close  *)
(* or synchronous write reported durable; compaction changes nothing.      *)
KVRefinement == KV!Spec

(* Spec section 4.1, Recovery: a torn last record is truncated and the     *)
(* store opens; a restart after a crash never leaves the node unable to   *)
(* open its store.                                                         *)
RecoveryOpens == status # "failed"
====
