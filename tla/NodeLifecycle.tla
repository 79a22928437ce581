---------------------------- MODULE NodeLifecycle ----------------------------
(***************************************************************************)
(* What one node's failure detector promises about the members of its     *)
(* list (spec.md 4.3): the state diagram                                   *)
(*                                                                         *)
(*     alive --(silence)--> suspect --(silence)--> dead                    *)
(*     any   --(heartbeat from the member itself)--> alive                 *)
(*                                                                         *)
(* and the receive path's merge, which inserts a member not in the list   *)
(* with the state a peer reported (spec.md 4.3, "Receive path").  A state *)
(* never moves otherwise: no member is dropped, nothing skips suspect on  *)
(* the way to dead, and gossip about a member never revives it.           *)
(*                                                                         *)
(* "hearing" is the sender of the datagram being handled, while its       *)
(* heartbeat is being recorded.  Membership implements this module: see    *)
(* LifecycleRefinement in Membership.tla.                                  *)
(***************************************************************************)
EXTENDS TLC

CONSTANTS Members

VARIABLES
    state,     \* state[m]: m's state in the list, "none" while not in it
    hearing    \* {m} while a datagram of m is being recorded, else {}

vars == <<state, hearing>>

States == {"alive", "suspect", "dead"}

Init ==
    /\ state \in [Members -> {"alive", "none"}]
    /\ hearing = {}

(* A datagram of a member in the list arrives.                            *)
Receive(m) ==
    /\ hearing = {} /\ state[m] # "none"
    /\ hearing' = {m}
    /\ UNCHANGED state

(* Its heartbeat is recorded: the member is alive, whatever it was.  The   *)
(* handling of the datagram may go on or end with the same step.          *)
Heartbeat(m) ==
    /\ m \in hearing
    /\ state' = [state EXCEPT ![m] = "alive"]
    /\ hearing' \in {hearing, {}}

(* The handling ends with the merge of the datagram's list: members not in *)
(* the list join it, with any state; no other state changes.              *)
Merge ==
    /\ \E joined \in SUBSET {m \in Members : state[m] = "none"} :
          \E new \in [joined -> States] : state' = new @@ state
    /\ hearing' = {}

Suspect(m) ==
    /\ state[m] = "alive"
    /\ state' = [state EXCEPT ![m] = "suspect"]
    /\ UNCHANGED hearing

Die(m) ==
    /\ state[m] = "suspect"
    /\ state' = [state EXCEPT ![m] = "dead"]
    /\ UNCHANGED hearing

Next ==
    \/ Merge
    \/ \E m \in Members : Receive(m) \/ Heartbeat(m) \/ Suspect(m) \/ Die(m)

Spec == Init /\ [][Next]_vars
=============================================================================
