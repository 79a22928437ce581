------------------------------ MODULE DurableKV ------------------------------
(***************************************************************************)
(* What a node's storage engine promises (spec sections 4.1 and 8): a map *)
(* from keys to their latest write, fed by a sequence of acknowledged      *)
(* writes.  Writes can be made durable; a crash or a close forgets the map,*)
(* and reopening shows the effect of a prefix of the acknowledged writes   *)
(* that contains every durable one.  A Get answers, for the key it asked,  *)
(* the timestamp of the key's latest write (0: not found), or an error.   *)
(*                                                                         *)
(* Bitcask implements it: see KVRefinement in Bitcask.tla.                 *)
(***************************************************************************)
EXTENDS Naturals, Sequences, SequencesExt

CONSTANTS Keys, Readers, MaxWrites

Write == [key : Keys, ts : 1..MaxWrites, del : BOOLEAN]
(* An answer is a set: empty while there is none, else one key, whether  *)
(* the Get succeeded, and the value it returned.                          *)
NoAnswer == {}
Answer == [key : Keys, ok : BOOLEAN, val : 0..MaxWrites]

VARIABLES
    kv,        \* kv[k]: what a Get of k answers while the store is up
    writes,    \* the acknowledged writes, in order
    durable,   \* how many of them were reported durable
    up,        \* the store is open
    ans        \* ans[r]: the answer of the last Get of reader r

vars == <<kv, writes, durable, up, ans>>

Forgotten == [k \in Keys |-> 0]
NoAnswers == [r \in Readers |-> NoAnswer]

(* The map a sequence of writes leaves behind, applied in order.           *)
Apply(m, w) == [m EXCEPT ![w.key] = IF w.del THEN 0 ELSE w.ts]
ViewOf(h) == FoldLeft(Apply, Forgotten, h)

Init ==
    /\ kv = Forgotten
    /\ writes = <<>>
    /\ durable = 0
    /\ up = TRUE
    /\ ans = NoAnswers

(* A Put or Delete, with a timestamp newer than every earlier write; it   *)
(* may be made durable at once.                                            *)
DoWrite(w) ==
    /\ up
    /\ \A i \in DOMAIN writes : writes[i].ts < w.ts
    /\ writes' = Append(writes, w)
    /\ kv' = Apply(kv, w)
    /\ durable' \in {durable, Len(writes')}
    /\ UNCHANGED <<up, ans>>

(* Every acknowledged write becomes durable.                               *)
Persist ==
    /\ up
    /\ durable' = Len(writes)
    /\ UNCHANGED <<kv, writes, up, ans>>

(* A reader starts a new Get, forgetting its last answer.                 *)
Invoke(r) ==
    /\ up
    /\ ans' = [ans EXCEPT ![r] = NoAnswer]
    /\ UNCHANGED <<kv, writes, durable, up>>

(* A Get of k returns the key's latest write, or fails.                    *)
Return(r, k) ==
    /\ up
    /\ \E ok \in BOOLEAN :
          ans' = [ans EXCEPT ![r] =
                    {[key |-> k, ok |-> ok, val |-> IF ok THEN kv[k] ELSE 0]}]
    /\ UNCHANGED <<kv, writes, durable, up>>

(* Close (which may make every write durable) or a crash.                 *)
Stop ==
    /\ up
    /\ up' = FALSE
    /\ durable' \in {durable, Len(writes)}
    /\ kv' = Forgotten
    /\ ans' = NoAnswers
    /\ UNCHANGED writes

(* Reopening: some prefix of the writes, at least the durable ones,        *)
(* survives and is what the map shows.                                     *)
Recover ==
    /\ ~up
    /\ \E j \in durable..Len(writes) :
          /\ writes' = SubSeq(writes, 1, j)
          /\ durable' = j
          /\ kv' = ViewOf(writes')
    /\ up' = TRUE
    /\ ans' = NoAnswers

Next ==
    \/ \E w \in Write : DoWrite(w)
    \/ Persist
    \/ \E r \in Readers : Invoke(r) \/ \E k \in Keys : Return(r, k)
    \/ Stop
    \/ Recover

Spec == Init /\ [][Next]_vars
====
