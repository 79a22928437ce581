----------------------------- MODULE MCMembership -----------------------------
(* Instantiates Membership for TLC; the node and key model values and the  *)
(* hashes standing for murmur3 are fixed here.  Virtual nodes of one node   *)
(* are adjacent on the ring (the walk must skip a repeat), k1 hashes onto a *)
(* virtual node of Self, always on the ring, followed by one of n2        *)
(* (sort.Search's >=), and k2 past the last one (the wrap).               *)
EXTENDS Membership

CONSTANTS n1, n2, n3, k1, k2

MCVHash == (<<n1, 0>> :> 1) @@ (<<n1, 1>> :> 2) @@ (<<n2, 0>> :> 4)
        @@ (<<n2, 1>> :> 6) @@ (<<n3, 0>> :> 0) @@ (<<n3, 1>> :> 5)

MCKHash == (k1 :> 2) @@ (k2 :> 7)
=============================================================================
