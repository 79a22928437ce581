----------------------------- MODULE Replication -----------------------------
(***************************************************************************)
(* The Coordinator of internal/replication/coordinator.go for one key, the *)
(* replica side of it (handleReplication, handleInternalRead and           *)
(* handleDelete in the API server) and the asynchronous read repair.       *)
(*                                                                         *)
(* Keys are independent in the code (no operation touches two keys), so a  *)
(* single key is modelled; its preference list is the fixed sequence      *)
(* PrefList that HashRing.GetNodes returns while the ring is stable.  A    *)
(* value is identified by the operation that wrote it.  Every node's local *)
(* Bitcask is abstracted to the one index entry of the key (Put and Delete *)
(* replace it unconditionally, Get refuses a tombstone).                   *)
(*                                                                         *)
(* Each fan-out sub-request is a goroutine that either runs against the    *)
(* local store or sends an HTTP request; in-flight HTTP requests are the   *)
(* set net.  A request is delivered (the replica applies it), or never    *)
(* delivered (lost: it stays in net), and may be outlived by the client's  *)
(* timeout: the coordinator then counts it as a failure although the       *)
(* replica may still apply it later.                                       *)
(***************************************************************************)
EXTENDS Integers, Sequences, FiniteSets, FiniteSetsExt, Functions,
        Configuration

CONSTANTS
    Nodes,          \* node ids of the cluster
    Coordinators,   \* nodes that receive the client requests
    PrefList,       \* HashRing.GetNodes(key, ReplicationFactor)
    Puts,           \* identities of the client PUT requests
    Gets,           \* identities of the client GET requests
    Deletes,        \* identities of the client DELETE requests
    InitWrite,      \* the write every replica holds initially
    Levels,         \* consistency levels the clients ask for
    ReadQuorum,     \* config.ReadQuorum
    WriteQuorum     \* config.WriteQuorum

ReplicationFactor == Len(PrefList)
Replicas == Range(PrefList)

ASSUME /\ Replicas \subseteq Nodes
       /\ Coordinators \subseteq Nodes
       /\ Cardinality(Replicas) = ReplicationFactor
       /\ Validate(ReplicationFactor, ReadQuorum, WriteQuorum)
       /\ Levels \subseteq {"one", "quorum", "all"}
       /\ InitWrite \notin Puts \cup Gets \cup Deletes

Writes == Puts \cup Deletes \cup {InitWrite}
MaxTs == Cardinality(Puts) + Cardinality(Deletes)

(* A KeyValueEntry: timestamp, the write that produced it, tombstone flag. *)
Entry == [ts : 0..MaxTs, op : Writes, del : BOOLEAN]
NoEntry == [none |-> TRUE]
InitEntry == [ts |-> 0, op |-> InitWrite, del |-> FALSE]

(* Outcome of one sub-request of a fan-out, as the coordinator sees it.    *)
Pending == [r |-> "pending"]
Nil == [r |-> "nil"]        \* false / nil: error, timeout, not found
Ack == [r |-> "ack"]        \* replicateToNodes: success
Data(e) == [r |-> "data", e |-> e]
Result == {Pending, Nil, Ack} \cup {Data(e) : e \in Entry}

VARIABLES
    store,    \* store[n]: the key's entry in node n's storage engine
    clock,    \* time.Now().UnixNano(): strictly increasing across writes
    put,      \* put[p]: state of Coordinator.Put for request p
    get,      \* get[g]: state of Coordinator.Get for request g
    del,      \* del[d]: state of handleDelete for request d
    repair,   \* repair[g]: the readRepair goroutine spawned by get g
    net,      \* HTTP requests sent and not yet handled by their target
    lowered   \* history: timestamps t some replica went from >= t to < t

vars == <<store, clock, put, get, del, repair, net, lowered>>

(* The writes that have returned to their clients.                        *)
Done == {p \in Puts : put[p].st \in {"ok", "failed"}}
          \cup {d \in Deletes : del[d].st = "ok"}

(* getWriteQuorum and getReadQuorum: identical switches in the code.       *)
getWriteQuorum(level) ==
    CASE level = "one" -> 1
      [] level = "all" -> ReplicationFactor
      [] OTHER         -> WriteQuorum

getReadQuorum(level) ==
    CASE level = "one" -> 1
      [] level = "all" -> ReplicationFactor
      [] OTHER         -> ReadQuorum

(* Bitcask.Get seen from the coordinator: an error for a missing key or a  *)
(* tombstone, the entry otherwise.                                         *)
LocalGet(n) ==
    IF store[n] = NoEntry \/ store[n].del THEN Nil ELSE Data(store[n])

(* Every write that reaches a storage engine goes through here: the entry  *)
(* replaces whatever the key held, with no timestamp comparison.           *)
Apply(n, e) ==
    /\ store' = [store EXCEPT ![n] = e]
    /\ lowered' = lowered \cup
                    IF store[n] = NoEntry THEN {}
                    ELSE {t \in 0..MaxTs : e.ts < t /\ t <= store[n].ts}

-----------------------------------------------------------------------------
(* Coordinator.Put: timestamp, preference list, required acks, then one    *)
(* goroutine per replica (replicateToNodes).                               *)
PutStart(p, c, level) ==
    /\ put[p].st = "idle"
    /\ clock' = clock + 1
    /\ put' = [put EXCEPT ![p] =
                 [st |-> "wait", at |-> c, req |-> getWriteQuorum(level),
                  e |-> [ts |-> clock + 1, op |-> p, del |-> FALSE],
                  res |-> [n \in Replicas |-> Pending], prior |-> Done]]
    /\ net' = net \cup {[op |-> p, to |-> n, kind |-> "write",
                         e |-> [ts |-> clock + 1, op |-> p, del |-> FALSE]] :
                        n \in Replicas \ {c}}
    /\ UNCHANGED <<store, get, del, repair, lowered>>

(* The goroutine for nodeID == c.config.NodeID: storage.Put.               *)
PutLocal(p) ==
    LET c == put[p].at IN
    /\ put[p].st = "wait"
    /\ c \in Replicas
    /\ put[p].res[c] = Pending
    /\ Apply(c, put[p].e)
    /\ put' = [put EXCEPT ![p].res[c] = Ack]
    /\ UNCHANGED <<clock, get, del, repair, net>>

(* Faulty variant of PutFinish: waiting for acknowledgements with no     *)
(* client timeout.                                                         *)
PutFinishWaitsForAcks(p) ==
    /\ put[p].st = "wait"
    /\ \A n \in Replicas : put[p].res[n] = Ack
    /\ put' = [put EXCEPT ![p].st = "ok", ![p].res = [n \in Replicas |-> Nil]]
    /\ UNCHANGED <<store, clock, get, del, repair, net, lowered>>

(* wg.Wait() returned: count the successes against the required acks.     *)
(* The per-replica results are not looked at again and are cleared.       *)
PutFinish(p) ==
    /\ put[p].st = "wait"
    /\ \A n \in Replicas : put[p].res[n] # Pending
    /\ put' = [put EXCEPT ![p].st =
                 IF Cardinality({n \in Replicas : put[p].res[n] = Ack})
                      >= put[p].req
                 THEN "ok" ELSE "failed",
                 ![p].res = [n \in Replicas |-> Nil]]
    /\ UNCHANGED <<store, clock, get, del, repair, net, lowered>>

-----------------------------------------------------------------------------
(* Coordinator.Get: preference list, required reads, readFromNodes.        *)
GetStart(g, c, level) ==
    /\ get[g].st = "idle"
    /\ get' = [get EXCEPT ![g] =
                 [st |-> "wait", at |-> c, req |-> getReadQuorum(level),
                  res |-> [n \in Replicas |-> Pending], out |-> Nil,
                  prior |-> Done]]
    /\ net' = net \cup {[op |-> g, to |-> n, kind |-> "read", e |-> InitEntry] :
                        n \in Replicas \ {c}}
    /\ UNCHANGED <<store, clock, put, del, repair, lowered>>

(* The goroutine for the local node: storage.Get.                          *)
GetLocal(g) ==
    LET c == get[g].at IN
    /\ get[g].st = "wait"
    /\ c \in Replicas
    /\ get[g].res[c] = Pending
    /\ get' = [get EXCEPT ![g].res[c] = LocalGet(c)]
    /\ UNCHANGED <<store, clock, put, del, repair, net, lowered>>

(* Faulty variant: the sort comparator reversed (oldest first).          *)
LatestOldest(es) == CHOOSE e \in es : \A f \in es : e.ts <= f.ts

(* The newest of the successful responses (sort.Slice by descending        *)
(* Timestamp, take the first).                                             *)
Latest(es) == CHOOSE e \in es : \A f \in es : e.ts >= f.ts

(* wg.Wait() returned: fewer successes than required is "key not found";  *)
(* otherwise return the newest and start readRepair in a new goroutine.    *)
GetFinish(g) ==
    LET got == {get[g].res[n].e : n \in {m \in Replicas : get[g].res[m] # Nil
                                            /\ get[g].res[m] # Ack}}
    IN
    /\ get[g].st = "wait"
    /\ \A n \in Replicas : get[g].res[n] # Pending
    /\ IF Cardinality({n \in Replicas : get[g].res[n] \notin {Nil, Ack}})
            < get[g].req
       THEN /\ get' = [get EXCEPT ![g].st = "failed",
                                  ![g].res = [n \in Replicas |-> Nil]]
            /\ UNCHANGED repair
       ELSE /\ get' = [get EXCEPT ![g].st = "ok", ![g].out = Data(Latest(got)),
                                  ![g].res = [n \in Replicas |-> Nil]]
            /\ repair' = [repair EXCEPT ![g] =
                            [st |-> "run", i |-> 1, e |-> Latest(got),
                             ph |-> "next"]]
    /\ UNCHANGED <<store, clock, put, del, net, lowered>>

-----------------------------------------------------------------------------
(* readRepair walks the preference list in order, one node at a time.      *)
RepairNode(g) == PrefList[repair[g].i]

(* Faulty variant: the walk stops one node too late.                      *)
RepairAdvancePastEnd(r) ==
    [r EXCEPT !.ph = "next", !.i = @ + 1,
              !.st = IF r.i > ReplicationFactor THEN "done" ELSE "run"]

(* The next node of the walk.                                              *)
RepairAdvance(r) ==
    [r EXCEPT !.ph = "next", !.i = @ + 1,
              !.st = IF r.i = ReplicationFactor THEN "done" ELSE "run"]

(* Local node: storage.Get, then storage.Put if the local copy is missing, *)
(* older, or as old with another value.  Get and Put are two separate      *)
(* lock acquisitions of the storage engine.                                *)
RepairLocalRead(g) ==
    LET n == RepairNode(g)
        cur == store[n]
        e == repair[g].e
    IN
    /\ repair[g].st = "run" /\ repair[g].ph = "next"
    /\ n = get[g].at
    /\ repair' = [repair EXCEPT ![g] =
                    IF \/ LocalGet(n) = Nil
                       \/ cur.ts < e.ts
                       \/ cur.ts = e.ts /\ cur.op # e.op
                    THEN [@ EXCEPT !.ph = "write"]
                    ELSE RepairAdvance(repair[g])]
    /\ UNCHANGED <<store, clock, put, get, del, net, lowered>>

RepairLocalWrite(g) ==
    /\ repair[g].st = "run" /\ repair[g].ph = "write"
    /\ Apply(RepairNode(g), repair[g].e)
    /\ repair' = [repair EXCEPT ![g] = RepairAdvance(@)]
    /\ UNCHANGED <<clock, put, get, del, net>>

(* Remote node: sendReplication of the winning entry, whatever the node    *)
(* returned to the read.                                                   *)
RepairSend(g) ==
    /\ repair[g].st = "run" /\ repair[g].ph = "next"
    /\ RepairNode(g) # get[g].at
    /\ net' = net \cup {[op |-> g, to |-> RepairNode(g), kind |-> "write",
                         e |-> repair[g].e]}
    /\ repair' = [repair EXCEPT ![g].ph = "wait"]
    /\ UNCHANGED <<store, clock, put, get, del, lowered>>

-----------------------------------------------------------------------------
(* The target's handler runs: handleReplication applies the entry as it is *)
(* (Delete for a tombstone, Put otherwise); handleInternalRead answers     *)
(* with Bitcask.Get.  The response reaches a caller still waiting for it.  *)
Deliver(m) ==
    /\ m \in net
    /\ net' = net \ {m}
    /\ IF m.kind = "write"
       THEN /\ Apply(m.to, m.e)
            /\ put' = IF m.op \in Puts /\ put[m.op].res[m.to] = Pending
                      THEN [put EXCEPT ![m.op].res[m.to] = Ack]
                      ELSE put
            /\ repair' = IF m.op \in Gets /\ repair[m.op].st = "run"
                            /\ repair[m.op].ph = "wait"
                            /\ RepairNode(m.op) = m.to
                         THEN [repair EXCEPT ![m.op] = RepairAdvance(@)]
                         ELSE repair
            /\ UNCHANGED get
       ELSE /\ get' = IF get[m.op].res[m.to] = Pending
                      THEN [get EXCEPT ![m.op].res[m.to] = LocalGet(m.to)]
                      ELSE get
            /\ UNCHANGED <<store, put, repair, lowered>>
    /\ UNCHANGED <<clock, del>>

(* httpClient.Timeout expires: sendReplication returns false,              *)
(* fetchFromNode returns nil.  The request itself may still be in flight.  *)
PutTimeout(p, n) ==
    /\ put[p].st = "wait"
    /\ n # put[p].at
    /\ put[p].res[n] = Pending
    /\ put' = [put EXCEPT ![p].res[n] = Nil]
    /\ UNCHANGED <<store, clock, get, del, repair, net, lowered>>

(* A read that is answered after its timeout changes nothing: its request *)
(* is dropped with the timeout.                                            *)
GetTimeout(g, n) ==
    /\ get[g].st = "wait"
    /\ n # get[g].at
    /\ get[g].res[n] = Pending
    /\ get' = [get EXCEPT ![g].res[n] = Nil]
    /\ net' = net \ {[op |-> g, to |-> n, kind |-> "read", e |-> InitEntry]}
    /\ UNCHANGED <<store, clock, put, del, repair, lowered>>

RepairTimeout(g) ==
    /\ repair[g].st = "run" /\ repair[g].ph = "wait"
    /\ repair' = [repair EXCEPT ![g] = RepairAdvance(@)]
    /\ UNCHANGED <<store, clock, put, get, del, net, lowered>>

-----------------------------------------------------------------------------
(* handleDelete: a tombstone in the local storage engine of the node that  *)
(* received the DELETE, and nothing else.                                  *)
Delete(d, c) ==
    /\ del[d].st = "idle"
    /\ clock' = clock + 1
    /\ Apply(c, [ts |-> clock + 1, op |-> d, del |-> TRUE])
    /\ del' = [del EXCEPT ![d] = [st |-> "ok", at |-> c, ts |-> clock + 1,
                                  prior |-> Done]]
    /\ UNCHANGED <<put, get, repair, net>>

-----------------------------------------------------------------------------
Init ==
    /\ store = [n \in Nodes |-> IF n \in Replicas THEN InitEntry ELSE NoEntry]
    /\ clock = 0
    /\ put = [p \in Puts |-> [st |-> "idle"]]
    /\ get = [g \in Gets |-> [st |-> "idle"]]
    /\ del = [d \in Deletes |-> [st |-> "idle"]]
    /\ repair = [g \in Gets |-> [st |-> "none"]]
    /\ net = {}
    /\ lowered = {}

Next ==
    \/ \E p \in Puts, c \in Coordinators, l \in Levels : PutStart(p, c, l)
    \/ \E p \in Puts : PutLocal(p) \/ PutFinish(p)
    \/ \E g \in Gets, c \in Coordinators, l \in Levels : GetStart(g, c, l)
    \/ \E g \in Gets : GetLocal(g) \/ GetFinish(g)
    \/ \E g \in Gets : \/ RepairLocalRead(g) \/ RepairLocalWrite(g)
                       \/ RepairSend(g) \/ RepairTimeout(g)
    \/ \E m \in net : Deliver(m)
    \/ \E p \in Puts, n \in Replicas : PutTimeout(p, n)
    \/ \E g \in Gets, n \in Replicas : GetTimeout(g, n)
    \/ \E d \in Deletes, c \in Coordinators : Delete(d, c)

(* The coordinator's own steps are goroutines that run whenever they can; *)
(* the HTTP client's timeout fires whenever a request is outstanding.      *)
(* Delivery is not fair: a request may be lost.                            *)
Fairness ==
    /\ \A p \in Puts : WF_vars(PutLocal(p)) /\ WF_vars(PutFinish(p))
    /\ \A g \in Gets : WF_vars(GetLocal(g)) /\ WF_vars(GetFinish(g))
    /\ \A g \in Gets : /\ WF_vars(RepairLocalRead(g))
                       /\ WF_vars(RepairLocalWrite(g))
                       /\ WF_vars(RepairSend(g)) /\ WF_vars(RepairTimeout(g))
    /\ \A p \in Puts, n \in Replicas : WF_vars(PutTimeout(p, n))
    /\ \A g \in Gets, n \in Replicas : WF_vars(GetTimeout(g, n))

Spec == Init /\ [][Next]_vars /\ Fairness

-----------------------------------------------------------------------------
TypeOK ==
    /\ store \in [Nodes -> Entry \cup {NoEntry}]
    /\ clock \in 0..MaxTs
    /\ \A p \in Puts : put[p].st = "idle" \/
         put[p] \in [st : {"wait", "ok", "failed"}, at : Nodes,
                     req : 1..ReplicationFactor, e : Entry,
                     res : [Replicas -> Result], prior : SUBSET (Puts \cup Gets \cup Deletes)]
    /\ \A g \in Gets : get[g].st = "idle" \/
         get[g] \in [st : {"wait", "ok", "failed"}, at : Nodes,
                     req : 1..ReplicationFactor, res : [Replicas -> Result],
                     out : Result, prior : SUBSET (Puts \cup Gets \cup Deletes)]
    /\ \A g \in Gets : repair[g].st = "none" \/
         repair[g] \in [st : {"run"}, i : 1..ReplicationFactor, e : Entry,
                        ph : {"next", "write", "wait"}]
                      \cup [st : {"done"}, i : {ReplicationFactor + 1},
                           e : Entry, ph : {"next"}]
    /\ \A m \in net : m.to \in Nodes /\ m.kind \in {"write", "read"}
    /\ lowered \subseteq 0..MaxTs

(* Tunable consistency (W + R > N): a GET started after a PUT succeeded    *)
(* returns that write or a newer one, unless some replica was meanwhile    *)
(* overwritten by an older entry (the only way the quorums can miss).      *)
QuorumReadSeesAckedWrite ==
    \A p \in Puts, g \in Gets :
        /\ put[p].st = "ok"
        /\ get[g].st = "ok"
        /\ p \in get[g].prior
        /\ put[p].req + get[g].req > ReplicationFactor
        /\ put[p].e.ts \notin lowered
        => get[g].out.e.ts >= put[p].e.ts

(* Every PUT and GET returns to its client and every read repair finishes: *)
(* no goroutine of a fan-out waits forever, whatever the network does.     *)
OperationsTerminate ==
    /\ \A p \in Puts : put[p].st = "wait" ~> put[p].st \in {"ok", "failed"}
    /\ \A g \in Gets : get[g].st = "wait" ~> get[g].st \in {"ok", "failed"}
    /\ \A g \in Gets : repair[g].st = "run" ~> repair[g].st = "done"

(* Spec section 8, property 8: with W + R > N, a GET that follows a        *)
(* successful PUT under quorum, with no further write issued, and returns  *)
(* a value, returns that write or a newer one.                             *)
QuorumMonotonicity ==
    \A p \in Puts, g \in Gets :
        /\ put[p].st = "ok"
        /\ get[g].st = "ok"
        /\ p \in get[g].prior
        /\ put[p].req + get[g].req > ReplicationFactor
        /\ \A q \in Puts \ {p} : put[q].st # "idle" => p \notin put[q].prior
        /\ \A d \in Deletes : del[d].st # "idle" => p \notin del[d].prior
        => get[g].out.e.ts >= put[p].e.ts

(* Spec section 4.5: delete is put with a tombstone, under the same        *)
(* quorum; a GET after a DELETE, with no later PUT, finds no value.        *)
DeleteHidesKey ==
    \A d \in Deletes, g \in Gets :
        /\ del[d].st = "ok"
        /\ get[g].st \in {"ok", "failed"}
        /\ d \in get[g].prior
        /\ \A p \in Puts : put[p].st # "idle" => d \notin put[p].prior
        => get[g].st # "ok"
=============================================================================
