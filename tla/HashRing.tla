------------------------------ MODULE HashRing ------------------------------
(***************************************************************************)
(* The consistent hash ring of internal/ring/hash_ring.go, as operators on *)
(* a ring value [vnodes, nodeVNodes]: the sorted virtual nodes and, per    *)
(* physical node, the hashes of its virtual nodes.  The mutex makes every  *)
(* method one step, so a method is a function from ring to ring, used by   *)
(* the module that owns the ring (Membership, through main's callback).    *)
(*                                                                         *)
(* murmur3 is abstracted to fixed hashes: VHash[<<n, i>>] is the hash of   *)
(* the string "n#vnode<i>", KHash[k] that of key k, both in 0..HashSpace-1.*)
(* Virtual-node hashes are distinct (64-bit hashes of distinct strings);   *)
(* a key's hash may equal a virtual node's.                                *)
(***************************************************************************)
EXTENDS Integers, Sequences, SequencesExt

CONSTANTS
    RingNodes,     \* the node ids that may join the ring
    VirtualCount,  \* cfg.VirtualNodes (after NewHashRing's default)
    RingKeys,      \* keys looked up
    HashSpace,     \* hashes are 0..HashSpace-1
    VHash,         \* hash of each virtual node key
    KHash          \* hash of each key

VIdx == 0..VirtualCount - 1

ASSUME /\ VirtualCount \in Nat \ {0} /\ HashSpace \in Nat \ {0}
       /\ VHash \in [RingNodes \X VIdx -> 0..HashSpace - 1]
       /\ KHash \in [RingKeys -> 0..HashSpace - 1]
       /\ \A a, b \in DOMAIN VHash : a # b => VHash[a] # VHash[b]

VNode == [hash : 0..HashSpace - 1, node : RingNodes, idx : VIdx]

(* NewHashRing.                                                            *)
NewHashRing == [vnodes |-> <<>>, nodeVNodes |-> [n \in {} |-> <<>>]]

(* AddNode: a node already present is left alone; otherwise its virtual   *)
(* nodes are appended and the slice is sorted by hash.                     *)
AddNodeUnsorted(r, id) ==
    IF id \in DOMAIN r.nodeVNodes THEN r
    ELSE LET new == [i \in 1..VirtualCount |->
                       [hash |-> VHash[<<id, i - 1>>], node |-> id, idx |-> i - 1]]
         IN  [vnodes     |-> r.vnodes \o new,
              nodeVNodes |-> (id :> [i \in 1..VirtualCount |-> new[i].hash])
                               @@ r.nodeVNodes]

AddNode(r, id) ==
    IF id \in DOMAIN r.nodeVNodes THEN r
    ELSE LET new == [i \in 1..VirtualCount |->
                       [hash |-> VHash[<<id, i - 1>>], node |-> id, idx |-> i - 1]]
         IN  [vnodes     |-> SortSeq(r.vnodes \o new,
                                     LAMBDA a, b : a.hash < b.hash),
              nodeVNodes |-> (id :> [i \in 1..VirtualCount |-> new[i].hash])
                               @@ r.nodeVNodes]

(* RemoveNode: an unknown node is left alone; otherwise its virtual nodes  *)
(* are filtered out (the order of the rest is kept) and its entry deleted. *)
RemoveNode(r, id) ==
    IF id \notin DOMAIN r.nodeVNodes THEN r
    ELSE [vnodes     |-> SelectSeq(r.vnodes, LAMBDA v : v.node # id),
          nodeVNodes |-> [n \in DOMAIN r.nodeVNodes \ {id} |-> r.nodeVNodes[n]]]

HasNode(r, id) == id \in DOMAIN r.nodeVNodes

(* sort.Search for the first virtual node with hash >= the key's hash,    *)
(* wrapped to 0 past the end (0-based).                                    *)
StartIdxStrict(r, k) ==
    LET J == {i \in 0..Len(r.vnodes) - 1 : r.vnodes[i + 1].hash > KHash[k]}
    IN  IF J = {} THEN 0 ELSE Min(J)

StartIdx(r, k) ==
    LET J == {i \in 0..Len(r.vnodes) - 1 : r.vnodes[i + 1].hash >= KHash[k]}
    IN  IF J = {} THEN 0 ELSE Min(J)

(* GetNodes: walk at most once round the ring from the start, collecting   *)
(* distinct physical nodes until n are found.  An empty ring is the error  *)
(* "no nodes in ring" (no nodes).                                          *)
GetNodes(r, k, n) ==
    LET L == Len(r.vnodes)
        RECURSIVE Walk(_, _)
        Walk(i, nodes) ==
            IF i < L /\ Len(nodes) < n
            THEN LET id == r.vnodes[((StartIdx(r, k) + i) % L) + 1].node
                 IN  Walk(i + 1, IF id \in Range(nodes) THEN nodes
                                 ELSE Append(nodes, id))
            ELSE nodes
    IN  IF L = 0 THEN <<>> ELSE Walk(0, <<>>)

(* GetNode: the node of the first virtual node at or after the key.        *)
GetNode(r, k) == r.vnodes[StartIdx(r, k) + 1].node

-----------------------------------------------------------------------------
(* Reference definition of the preference list, independent of the sorted *)
(* slice: order the ring's nodes by the clockwise distance from the key to *)
(* their nearest virtual node, and take the first n.                      *)
Distance(k, id) ==
    Min({(VHash[<<id, i>>] - KHash[k]) % HashSpace : i \in VIdx})

ClockwisePreference(nodes, k, n) ==
    LET s == SortSeq(SetToSeq(nodes),
                     LAMBDA a, b : Distance(k, a) < Distance(k, b))
    IN  SubSeq(s, 1, IF n < Len(s) THEN n ELSE Len(s))

(* The sorted slice always answers as the reference does, for every key    *)
(* and every replication factor up to one more than the nodes.             *)
RingAgreesWithClockwise(r) ==
    \A k \in RingKeys, n \in 1..Cardinality(RingNodes) + 1 :
        /\ GetNodes(r, k, n) = ClockwisePreference(DOMAIN r.nodeVNodes, k, n)
        /\ r.vnodes # <<>> => GetNode(r, k) = Head(GetNodes(r, k, n))
====
