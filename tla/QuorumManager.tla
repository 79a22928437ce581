---------------------------- MODULE QuorumManager ----------------------------
(***************************************************************************)
(* QuorumManager.ExecuteWrite and ExecuteRead (internal/replication/       *)
(* quorum.go): one goroutine per operation runs the caller's Execute, then *)
(* counts its outcome under mu and closes done once the required count is  *)
(* reached; a waiter goroutine closes done after wg.Wait if nobody did.    *)
(* The call returns when done is closed, while the other goroutines may    *)
(* still be running.                                                       *)
(*                                                                         *)
(* Execute is the caller's: its outcome is a nondeterministic error (a     *)
(* failure or the context deadline), success, or for a read an entry      *)
(* (its timestamp) or nil.  Calls follow one another; the goroutines of a  *)
(* call are finished before the next call starts (they share nothing).     *)
(***************************************************************************)
EXTENDS Integers, Sequences, SequencesExt, Configuration

CONSTANTS
    Ops,                \* the nodes of the operations passed in
    ReplicationFactor,  \* qm.replicationFactor
    ReadQuorum,         \* qm.readQuorum
    WriteQuorum,        \* qm.writeQuorum
    Ts                  \* timestamps a replica's entry may carry

ASSUME /\ {ReplicationFactor, ReadQuorum, WriteQuorum} \subseteq Nat \ {0}
       /\ Ts \subseteq Nat \ {0}

ASSUME Validate(ReplicationFactor, ReadQuorum, WriteQuorum)

Levels == {"one", "quorum", "all"}
(* What Execute returns: an error, success (a write), or an entry or nil *)
(* (a read); ts is the entry's timestamp.                                  *)
Result(r, t) == [r |-> r, ts |-> t]
Outcome(kind) ==
    IF kind = "write" THEN {Result("err", 0), Result("ok", 0)}
    ELSE {Result("err", 0), Result("nil", 0)} \cup {Result("entry", t) : t \in Ts}

VARIABLES
    call,     \* [kind, req, pc]: the current call and its required count
    g,        \* g[n]: where the goroutine of operation n is
    out,      \* out[n]: what its Execute returned
    succ,     \* result.SuccessCount
    errs,     \* result.ErrorCount
    entries,  \* the entries appended by a read, in order
    closes,   \* how many times done was closed (a second close panics)
    atClose,  \* len(entries) when done was closed
    waiter,   \* the wg.Wait goroutine
    res       \* what the call returned: Success, Timestamp, all ops finished

vars == <<call, g, out, succ, errs, entries, closes, atClose, waiter, res>>

Closed == closes > 0
Finished == \A n \in Ops : g[n] \in {"idle", "done"}
-----------------------------------------------------------------------------
(* getWriteRequirement / getReadRequirement.                               *)
Requirement(kind, lvl) ==
    CASE lvl = "one" -> 1
      [] lvl = "all" -> ReplicationFactor
      [] OTHER       -> IF kind = "write" THEN WriteQuorum ELSE ReadQuorum

(* ExecuteWrite / ExecuteRead: start one goroutine per operation and the   *)
(* waiter, then block on done.                                             *)
Call(kind, lvl) ==
    /\ call.pc # "blocked" /\ Finished /\ waiter \in {"idle", "exit"}
    /\ call' = [kind |-> kind, req |-> Requirement(kind, lvl), pc |-> "blocked"]
    /\ g' = [n \in Ops |-> "exec"]
    /\ succ' = 0 /\ errs' = 0 /\ entries' = <<>>
    /\ closes' = 0 /\ atClose' = 0
    /\ waiter' = "wait"
    /\ UNCHANGED <<out, res>>

(* operation.Execute(ctx) returns.                                         *)
Exec(n) ==
    /\ g[n] = "exec"
    /\ \E o \in Outcome(call.kind) : out' = [out EXCEPT ![n] = o]
    /\ g' = [g EXCEPT ![n] = "crit"]
    /\ UNCHANGED <<call, succ, errs, entries, closes, atClose, waiter, res>>

(* Faulty variant: errors counted towards the quorum check.               *)
CritCountsErrors(n) ==
    LET o == out[n]
        ok == o.r \in {"ok", "entry"}
    IN
    /\ g[n] = "crit"
    /\ \A m \in Ops : g[m] # "closing"
    /\ succ' = IF ok THEN succ + 1 ELSE succ
    /\ errs' = IF o.r = "err" THEN errs + 1 ELSE errs
    /\ entries' = IF o.r = "entry" THEN Append(entries, o.ts) ELSE entries
    /\ g' = [g EXCEPT ![n] = IF succ' + errs' >= call.req /\ ~Closed
                               THEN "closing" ELSE "done"]
    /\ UNCHANGED <<call, out, closes, atClose, waiter, res>>

(* Faulty variant: the entry != nil check dropped.                        *)
CritAppendsNil(n) ==
    LET o == out[n]
    IN
    /\ g[n] = "crit"
    /\ \A m \in Ops : g[m] # "closing"
    /\ succ' = IF o.r # "err" THEN succ + 1 ELSE succ
    /\ errs' = IF o.r = "err" THEN errs + 1 ELSE errs
    /\ entries' = IF o.r # "err" /\ call.kind = "read"
                  THEN Append(entries, o.ts) ELSE entries
    /\ g' = [g EXCEPT ![n] = IF succ' >= call.req /\ ~Closed
                               THEN "closing" ELSE "done"]
    /\ UNCHANGED <<call, out, closes, atClose, waiter, res>>

(* Holding mu: count the outcome (a read's nil entry counts as neither),  *)
(* append the entry, and if the quorum is met and done not yet closed go  *)
(* on to close it, still holding mu; then unlock and wg.Done.              *)
Crit(n) ==
    LET o == out[n]
        ok == o.r \in {"ok", "entry"}
    IN
    /\ g[n] = "crit"
    /\ \A m \in Ops : g[m] # "closing"
    /\ succ' = IF ok THEN succ + 1 ELSE succ
    /\ errs' = IF o.r = "err" THEN errs + 1 ELSE errs
    /\ entries' = IF o.r = "entry" THEN Append(entries, o.ts) ELSE entries
    /\ g' = [g EXCEPT ![n] = IF succ' >= call.req /\ ~Closed
                               THEN "closing" ELSE "done"]
    /\ UNCHANGED <<call, out, closes, atClose, waiter, res>>

CloseDone(n) ==
    /\ g[n] = "closing"
    /\ closes' = closes + 1
    /\ atClose' = Len(entries)
    /\ g' = [g EXCEPT ![n] = "done"]
    /\ UNCHANGED <<call, out, succ, errs, entries, waiter, res>>

(* Faulty variant: the waiter returns after wg.Wait without closing.      *)
WaiterExitsWithoutClose ==
    /\ waiter = "wait"
    /\ \A n \in Ops : g[n] = "done"
    /\ waiter' = "exit"
    /\ UNCHANGED <<call, g, out, succ, errs, entries, closes, atClose, res>>

(* Faulty variant: the waiter closes done without the select.             *)
WaiterClosesUnconditionally ==
    /\ waiter = "wait"
    /\ \A n \in Ops : g[n] = "done"
    /\ waiter' = "close"
    /\ UNCHANGED <<call, g, out, succ, errs, entries, closes, atClose, res>>

(* The waiter: after wg.Wait, select on done; close it if still open.      *)
WaiterCheck ==
    /\ waiter = "wait"
    /\ \A n \in Ops : g[n] = "done"
    /\ waiter' = IF Closed THEN "exit" ELSE "close"
    /\ UNCHANGED <<call, g, out, succ, errs, entries, closes, atClose, res>>

WaiterClose ==
    /\ waiter = "close"
    /\ closes' = closes + 1
    /\ atClose' = Len(entries)
    /\ waiter' = "exit"
    /\ UNCHANGED <<call, g, out, succ, errs, entries, res>>

(* <-done returns.  Success and the latest entry are read without mu      *)
(* while late goroutines may still append: the length of entries read is  *)
(* anything from its length at the close to its current length.           *)
(* Faulty variant: the first entry taken without the loop.               *)
LatestFirst(s) == IF s = <<>> THEN 0 ELSE s[1]

Latest(s) == IF s = <<>> THEN 0 ELSE Max(Range(s))

Return ==
    /\ call.pc = "blocked"
    /\ Closed
    /\ \E j \in atClose..Len(entries) :
          res' = [success |-> succ >= call.req,
                  ts      |-> Latest(SubSeq(entries, 1, j)),
                  allDone |-> \A n \in Ops : g[n] = "done"]
    /\ call' = [call EXCEPT !.pc = "returned"]
    /\ UNCHANGED <<g, out, succ, errs, entries, closes, atClose, waiter>>
-----------------------------------------------------------------------------
Init ==
    /\ call = [kind |-> "write", req |-> 1, pc |-> "idle"]
    /\ g = [n \in Ops |-> "idle"]
    /\ out = [n \in Ops |-> Result("err", 0)]
    /\ succ = 0 /\ errs = 0 /\ entries = <<>>
    /\ closes = 0 /\ atClose = 0
    /\ waiter = "idle"
    /\ res = [success |-> FALSE, ts |-> 0, allDone |-> TRUE]

Next ==
    \/ \E kind \in {"write", "read"}, lvl \in Levels : Call(kind, lvl)
    \/ \E n \in Ops : Exec(n) \/ Crit(n) \/ CloseDone(n)
    \/ WaiterCheck \/ WaiterClose
    \/ Return

(* Every Execute returns (the context deadline bounds it), and the Go      *)
(* scheduler runs every runnable goroutine.                                *)
Fairness ==
    /\ \A n \in Ops : WF_vars(Exec(n)) /\ WF_vars(Crit(n)) /\ WF_vars(CloseDone(n))
    /\ WF_vars(WaiterCheck) /\ WF_vars(WaiterClose) /\ WF_vars(Return)

Spec == Init /\ [][Next]_vars /\ Fairness
-----------------------------------------------------------------------------
TypeOK ==
    /\ call.kind \in {"write", "read"} /\ call.req \in Nat
    /\ call.pc \in {"idle", "blocked", "returned"}
    /\ g \in [Ops -> {"idle", "exec", "crit", "closing", "done"}]
    /\ out \in [Ops -> Outcome("write") \cup Outcome("read")]
    /\ succ \in 0..Cardinality(Ops) /\ errs \in 0..Cardinality(Ops)
    /\ entries \in BoundedSeq(Ts, Cardinality(Ops))
    /\ closes \in Nat /\ atClose \in 0..Len(entries)
    /\ waiter \in {"idle", "wait", "close", "exit"}
    /\ res \in [success : BOOLEAN, ts : {0} \cup Ts, allDone : BOOLEAN]

(* done is closed at most once, whichever of the operation goroutines     *)
(* (checking under mu) and the waiter (checking after wg.Wait, without mu) *)
(* gets there first: a second close(done) would panic the process.         *)
NoDoubleClose == closes <= 1

(* A call reports failure only when no further acknowledgement can come:   *)
(* every operation had finished when it returned (spec 4.4 step 7: fail at *)
(* the deadline, which bounds every Execute), however the acknowledgements *)
(* and errors interleave.                                                  *)
FailureOnlyWhenExhausted ==
    call.pc = "returned" /\ ~res.success => res.allDone

(* A successful read returns the newest timestamp among the entries that   *)
(* made up its quorum, although it walks entries without mu after <-done   *)
(* while late goroutines still append: the value is one of the entries,    *)
(* and none appended before done was closed is newer.                      *)
ReadReturnsNewest ==
    call.pc = "returned" /\ call.kind = "read" /\ res.success =>
        /\ res.ts \in Range(entries)
        /\ \A i \in 1..atClose : entries[i] <= res.ts

(* Every call returns: done is eventually closed by the goroutine that     *)
(* completes the quorum or by the waiter.                                  *)
CallReturns == call.pc = "blocked" ~> call.pc = "returned"
====
