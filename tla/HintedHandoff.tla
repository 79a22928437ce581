---------------------------- MODULE HintedHandoff ----------------------------
(***************************************************************************)
(* The hinted-handoff buffer of internal/replication/handoff.go: the       *)
(* HintedHandoffStore (Store, GetHints, RemoveHint, IncrementAttempts,     *)
(* GetAllTargets, cleanup) and the HandoffManager's delivery pass          *)
(* (deliverPendingHandoffs), together with the target's replica handler    *)
(* that applies a delivered entry as-is (handleReplication).               *)
(*                                                                         *)
(* A hint is identified by its creation order, which is also the timestamp *)
(* of the entry it carries: the writes that produce hints come from one    *)
(* increasing clock.  Time is the watermark expiredBelow: every hint with  *)
(* an id up to it is older than maxAge (hints are created in id order).    *)
(* Whether a target is NodeAlive in the coordinator's node list is the     *)
(* variable alive, changed by the environment.                             *)
(*                                                                         *)
(* One delivery pass runs at a time (deliveryLoop is one goroutine).       *)
(* Store and cleanup run concurrently with it; the pass works on the copy *)
(* GetHints returned and takes the store's lock again for every            *)
(* RemoveHint and IncrementAttempts.  A request that timed out may still  *)
(* reach the target later (inflight).                                      *)
(***************************************************************************)
EXTENDS Integers, Sequences, FiniteSets, SequencesExt

CONSTANTS
    Targets,       \* node ids hints are stored for
    Keys,          \* keys of the hinted entries
    MaxSize,       \* maxSize, hints kept per target (1000 in main)
    GiveUpAfter,   \* the literal 10 of "hint.Attempts > 10"
    MaxStores,     \* bound on the number of Store calls
    NoTarget       \* model value: the pass is between targets

ASSUME /\ MaxSize \in Nat \ {0}
       /\ GiveUpAfter \in Nat
       /\ MaxStores \in Nat \ {0}

Ids == 1..MaxStores
MaxAttempts == GiveUpAfter + MaxStores + 1

(* types.HintedHandoff: the entry's key and timestamp, and Attempts.      *)
Hint == [id : Ids, key : Keys, att : 0..MaxAttempts]

VARIABLES
    hints,        \* HintedHandoffStore.hints: target -> queue of hints
    alive,        \* node.State == NodeAlive in Coordinator.nodes
    target,       \* timestamp of the entry each target holds per key (0: none)
    inflight,     \* replication requests sent and not yet handled
    mgr,          \* the delivery pass: pc, targets left, current target, copy
    nstored,      \* Store calls so far
    expiredBelow, \* hints with id <= expiredBelow are older than maxAge
    meta,         \* history: target and key of every hint stored
    retired       \* history: ids retired by eviction, expiry or giving up

vars == <<hints, alive, target, inflight, mgr, nstored, expiredBelow, meta,
          retired>>

Queued(i) == \E t \in Targets : \E j \in 1..Len(hints[t]) : hints[t][j].id = i
-----------------------------------------------------------------------------
(* Store: append a fresh hint; at maxSize the oldest is dropped first.    *)
StoreEvictsPastLimit(t, k) ==
    LET q == hints[t]
        kept == IF Len(q) > MaxSize THEN Tail(q) ELSE q
    IN /\ nstored < MaxStores
       /\ hints' = [hints EXCEPT ![t] =
                      Append(kept, [id |-> nstored + 1, key |-> k, att |-> 0])]
       /\ retired' = IF Len(q) > MaxSize THEN retired \cup {Head(q).id}
                                          ELSE retired
       /\ nstored' = nstored + 1
       /\ meta' = [meta EXCEPT ![nstored + 1] = [t |-> t, k |-> k]]
       /\ UNCHANGED <<alive, target, inflight, mgr, expiredBelow>>

Store(t, k) ==
    LET q == hints[t]
        kept == IF Len(q) >= MaxSize THEN Tail(q) ELSE q
    IN /\ nstored < MaxStores
       /\ hints' = [hints EXCEPT ![t] =
                      Append(kept, [id |-> nstored + 1, key |-> k, att |-> 0])]
       /\ retired' = IF Len(q) >= MaxSize THEN retired \cup {Head(q).id}
                                           ELSE retired
       /\ nstored' = nstored + 1
       /\ meta' = [meta EXCEPT ![nstored + 1] = [t |-> t, k |-> k]]
       /\ UNCHANGED <<alive, target, inflight, mgr, expiredBelow>>

(* RemoveHint(t, k): drop every hint of t whose entry has key k.          *)
RemoveHint(h, t, k) == [h EXCEPT ![t] = SelectSeq(@, LAMBDA x : x.key # k)]

(* IncrementAttempts(t, k): the first hint with key k, and only that one. *)
IncrementAttempts(h, t, k) ==
    LET i == SelectInSeq(h[t], LAMBDA x : x.key = k)
    IN IF i = 0 THEN h ELSE [h EXCEPT ![t][i].att = @ + 1]

(* Time passes: the next oldest hint becomes older than maxAge.            *)
Age ==
    /\ expiredBelow < nstored
    /\ expiredBelow' = expiredBelow + 1
    /\ UNCHANGED <<hints, alive, target, inflight, mgr, nstored, meta,
                   retired>>

(* cleanup: keep the hints younger than maxAge.                           *)
CleanupKeepsExpired ==
    /\ hints' = [t \in Targets |-> SelectSeq(hints[t],
                                      LAMBDA x : x.id <= expiredBelow)]
    /\ hints' # hints
    /\ UNCHANGED <<alive, target, inflight, mgr, nstored, expiredBelow,
                   meta, retired>>

Cleanup ==
    /\ hints' = [t \in Targets |-> SelectSeq(hints[t],
                                      LAMBDA x : x.id > expiredBelow)]
    /\ hints' # hints
    /\ retired' = retired \cup {i \in 1..expiredBelow : Queued(i)}
    /\ UNCHANGED <<alive, target, inflight, mgr, nstored, expiredBelow,
                   meta>>

(* The membership view of a target changes.                               *)
SetAlive(t) ==
    /\ alive' = [alive EXCEPT ![t] = ~@]
    /\ UNCHANGED <<hints, target, inflight, mgr, nstored, expiredBelow,
                   meta, retired>>
-----------------------------------------------------------------------------
(* GetAllTargets: the keys of the map; RemoveHint and cleanup delete a     *)
(* target whose queue becomes empty, and Store never leaves one empty.     *)
GetAllTargets == {t \in Targets : hints[t] # <<>>}

(* GetHints: a copy of the target's queue.                                *)
GetHints(t) == hints[t]

(* A ticker fire: GetAllTargets, in Go's random map order.                *)
Tick ==
    /\ mgr.pc = "idle"
    /\ \E order \in SetToSeqs(GetAllTargets) :
          mgr' = [mgr EXCEPT !.pc = "next", !.todo = order]
    /\ UNCHANGED <<hints, alive, target, inflight, nstored, expiredBelow,
                   meta, retired>>

(* Next target of the pass: skip it unless alive, else copy its hints.    *)
NextTarget ==
    /\ mgr.pc = "next"
    /\ mgr' = IF mgr.todo = <<>>
                 THEN [pc |-> "idle", todo |-> <<>>, cur |-> NoTarget,
                       snap |-> <<>>]
              ELSE IF ~alive[Head(mgr.todo)]
                 THEN [mgr EXCEPT !.todo = Tail(@)]
              ELSE [pc |-> "send", todo |-> Tail(mgr.todo),
                    cur |-> Head(mgr.todo), snap |-> GetHints(Head(mgr.todo))]
    /\ UNCHANGED <<hints, alive, target, inflight, nstored, expiredBelow,
                   meta, retired>>

SendOrFinish == mgr.pc = "send"

(* The copy is exhausted: go on with the next target.                     *)
TargetDone ==
    /\ SendOrFinish /\ mgr.snap = <<>>
    /\ mgr' = [mgr EXCEPT !.pc = "next", !.cur = NoTarget]
    /\ UNCHANGED <<hints, alive, target, inflight, nstored, expiredBelow,
                   meta, retired>>

(* sendReplication succeeded: the target applied the entry; RemoveHint.   *)
DeliverOk ==
    LET t == mgr.cur
        h == Head(mgr.snap)
    IN /\ SendOrFinish /\ mgr.snap # <<>>
       /\ target' = [target EXCEPT ![t][h.key] = h.id]
       /\ hints' = RemoveHint(hints, t, h.key)
       /\ mgr' = [mgr EXCEPT !.snap = Tail(@)]
       /\ UNCHANGED <<alive, inflight, nstored, expiredBelow, meta, retired>>

(* sendReplication failed (refused, lost, or timed out with the request    *)
(* still on its way): IncrementAttempts, and give up when the attempts of *)
(* the copy exceed the limit.                                              *)
DeliverFail ==
    LET t == mgr.cur
        h == Head(mgr.snap)
        bumped == IncrementAttempts(hints, t, h.key)
        giveUp == h.att > GiveUpAfter
    IN /\ SendOrFinish /\ mgr.snap # <<>>
       /\ \E late \in BOOLEAN :
             inflight' = IF late THEN inflight \cup {[t |-> t, id |-> h.id,
                                                       key |-> h.key]}
                                 ELSE inflight
       /\ hints' = IF giveUp THEN RemoveHint(bumped, t, h.key) ELSE bumped
       /\ retired' = IF giveUp THEN retired \cup {h.id} ELSE retired
       /\ mgr' = [mgr EXCEPT !.snap = Tail(@)]
       /\ UNCHANGED <<alive, target, nstored, expiredBelow, meta>>

(* handleReplication runs for a request whose sender gave up on it.       *)
LateApply ==
    \E m \in inflight :
       /\ target' = [target EXCEPT ![m.t][m.key] = m.id]
       /\ inflight' = inflight \ {m}
       /\ UNCHANGED <<hints, alive, mgr, nstored, expiredBelow, meta, retired>>
-----------------------------------------------------------------------------
Init ==
    /\ hints = [t \in Targets |-> <<>>]
    /\ alive \in [Targets -> BOOLEAN]
    /\ target = [t \in Targets |-> [k \in Keys |-> 0]]
    /\ inflight = {}
    /\ mgr = [pc |-> "idle", todo |-> <<>>, cur |-> NoTarget, snap |-> <<>>]
    /\ nstored = 0
    /\ expiredBelow = 0
    /\ meta = [i \in Ids |-> [t |-> NoTarget, k |-> NoTarget]]
    /\ retired = {}

Next ==
    \/ \E t \in Targets, k \in Keys : Store(t, k)
    \/ Age \/ Cleanup
    \/ \E t \in Targets : SetAlive(t)
    \/ Tick \/ NextTarget \/ TargetDone \/ DeliverOk \/ DeliverFail
    \/ LateApply

(* The ticker of deliveryLoop and of cleanupLoop keep firing, every step  *)
(* of a pass runs once started, and time passes.  The membership view and *)
(* the network get no fairness.                                            *)
Fairness ==
    /\ WF_vars(Tick) /\ WF_vars(NextTarget) /\ WF_vars(TargetDone)
    /\ WF_vars(DeliverOk \/ DeliverFail)
    /\ WF_vars(Cleanup) /\ WF_vars(Age)

Spec == Init /\ [][Next]_vars /\ Fairness
-----------------------------------------------------------------------------
TypeOK ==
    /\ hints \in [Targets -> BoundedSeq(Hint, MaxSize)]
    /\ alive \in [Targets -> BOOLEAN]
    /\ target \in [Targets -> [Keys -> 0..MaxStores]]
    /\ inflight \subseteq [t : Targets, id : Ids, key : Keys]
    /\ mgr.pc \in {"idle", "next", "send"}
    /\ mgr.todo \in Seq(Targets) /\ mgr.cur \in Targets \cup {NoTarget}
    /\ mgr.snap \in BoundedSeq(Hint, MaxSize)
    /\ nstored \in 0..MaxStores /\ expiredBelow \in 0..nstored
    /\ retired \subseteq 1..nstored

(* Every hint stored eventually leaves the buffer, delivered, given up or *)
(* expired by cleanup, whatever the target's membership state does.        *)
HintsEventuallyRetired == \A i \in Ids : Queued(i) ~> ~Queued(i)

(* spec.md 4.4: a hint is retired only by its delivery, by age, by the    *)
(* attempt cap or by eviction at maxSize.  So every hint stored is still   *)
(* queued or in the copy of the running pass, was retired so, or its      *)
(* target holds an entry at least as new.                                  *)
NoHintLost ==
    \A i \in 1..nstored :
       \/ Queued(i)
       \/ \E j \in 1..Len(mgr.snap) : mgr.snap[j].id = i
       \/ i \in retired
       \/ target[meta[i].t][meta[i].k] >= i
=============================================================================
