---------------------------- MODULE Configuration ----------------------------
(***************************************************************************)
(* internal/config/config.go, on the fields the other modules use: the    *)
(* replication factor N and the read and write quorums R and W.           *)
(***************************************************************************)
EXTENDS Naturals

(* config.DefaultConfig: N = 3, R = W = 2.                                 *)
DefaultConfig == [replicationFactor |-> 3, readQuorum |-> 2, writeQuorum |-> 2]

(* config.Validate on these fields: N at least 1 and R, W between 1 and N. *)
(* W + R <= N is only a warning: the eventual-consistency mode the spec    *)
(* allows (section 4.5).                                                    *)
Validate(n, r, w) == n >= 1 /\ r \in 1..n /\ w \in 1..n
=============================================================================
