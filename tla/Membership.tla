------------------------------ MODULE Membership ------------------------------
(***************************************************************************)
(* One node's membership list and failure detector (package gossip in     *)
(* internal/replication/coordinator.go), its gossip receive path           *)
(* (Protocol.handleMessage, unnamed/part_004) and the state-change         *)
(* callback main installs (unnamed/part_000), which removes a dead node    *)
(* from the hash ring and adds it back when it goes from dead to alive.    *)
(* The ring is a HashRing value, so the lookups the coordinator makes on   *)
(* it are checked after every change the callback makes.                   *)
(*                                                                         *)
(* The observing node is Self; the other nodes are processes that crash,  *)
(* restart and send gossip datagrams to Self.  Time is discrete: age[m] is *)
(* now - LastHeartbeat of m in Self's list, in ticks and capped at Cap,   *)
(* which keeps every comparison with the two timeouts.  A datagram carries *)
(* the sender's view of each member: its state and its LastSeen as an     *)
(* age, or nothing for a member the sender does not know.  A sender cannot *)
(* have heard from m more recently than m last could send (silent[m]); its *)
(* entry is alive with the LastHeartbeat its list was created with.        *)
(*                                                                         *)
(* Self's list starts with the members Known (NewMembershipList holds only *)
(* Self; Known stands for members already learned), and the ring with Self *)
(* and Known, as when the cluster is wired as spec.md describes; in this   *)
(* repository main only adds Self to the ring.  The other members join     *)
(* through Merge, with state "none" until then.                            *)
(***************************************************************************)
EXTENDS Integers, FiniteSets, SequencesExt

CONSTANTS
    Self,          \* the observing node (membership.selfID)
    Others,        \* the other nodes of the cluster
    SuspectAfter,  \* config.SuspectTimeout, in ticks
    DeadAfter,     \* config.DeadTimeout, in ticks
    Known,         \* the members in Self's list (and on the ring) at the start
    Crashable,     \* the nodes whose process may stop
    MaxInFlight,   \* bound on gossip datagrams in flight to Self
    VirtualCount, RingKeys, HashSpace, VHash, KHash  \* the hash ring's

ASSUME /\ Self \notin Others /\ Known \subseteq Others
       /\ Crashable \subseteq Others
       /\ SuspectAfter \in Nat /\ DeadAfter \in Nat
       /\ SuspectAfter < DeadAfter
       /\ MaxInFlight \in Nat \ {0}

Nodes == Others \cup {Self}

INSTANCE HashRing WITH RingNodes <- Nodes

Cap == DeadAfter + 1
Age == 0..Cap
States == {"alive", "suspect", "dead"}
Older(a) == IF a < Cap THEN a + 1 ELSE Cap

(* types.GossipMessage: FromNode and, per member of the sender's list,    *)
(* its State and LastSeen as an age ("none": not in the list).            *)
Message == [from : Others, view : [Others -> States \cup {"none"}],
            seen : [Others -> Age]]

VARIABLES
    st,      \* member.Node.State in Self's MembershipList
    age,     \* now - member.LastHeartbeat in Self's MembershipList
    ring,    \* main's hashRing: [vnodes, nodeVNodes]
    up,      \* whether the process of a node runs
    silent,  \* ticks since a node last could send: 0 while it runs, since
             \* it may have sent to another peer just now
    net,     \* datagrams in flight to Self
    scan,    \* checkMembers: pc, copy of the ages, members left, the member
             \* at hand with the state read and the state decided
    rcv      \* handleMessage: pc, the datagram, state read by RecordHeartbeat

vars == <<st, age, ring, up, silent, net, scan, rcv>>

(* m is in Self's MembershipList.                                          *)
Member(m) == st[m] # "none"
-----------------------------------------------------------------------------
Crash(m) ==
    /\ m \in Crashable /\ up[m]
    /\ up' = [up EXCEPT ![m] = FALSE]
    /\ UNCHANGED <<st, age, ring, silent, net, scan, rcv>>

Restart(m) ==
    /\ ~up[m]
    /\ up' = [up EXCEPT ![m] = TRUE]
    /\ silent' = [silent EXCEPT ![m] = 0]
    /\ UNCHANGED <<st, age, ring, net, scan, rcv>>

(* MembershipList.ToGossipFormat of node m's list, as far as Self can     *)
(* tell it apart: m itself alive, seen as of the creation of m's list; any *)
(* other member in any state, seen no more recently than it could last    *)
(* send, or absent.  Members never leave Self's list (RemoveMember has no  *)
(* caller), so for a member Self already knows only a newer LastSeen       *)
(* matters, now or later (both ages grow with each tick, and Self's only   *)
(* shrinks): its state is written "alive", and absence or an older         *)
(* LastSeen as the oldest age.  The sender's own entry is older than       *)
(* Self's heartbeat of it, so it is the oldest age too once m is known.   *)
ToGossipFormat(m) ==
    {f \in [view : [Others -> States \cup {"none"}], seen : [Others -> Age]] :
       /\ f.view[m] = "alive"
       /\ Member(m) => f.seen[m] = Cap
       /\ \A x \in Others \ {m} :
             CASE Member(x) ->
                    /\ f.view[x] = "alive"
                    /\ f.seen[x] >= silent[x]
                    /\ f.seen[x] < age[x] \/ f.seen[x] = Cap
               [] f.view[x] = "none" -> f.seen[x] = Cap
               [] OTHER -> f.seen[x] >= silent[x]}

(* gossipToRandomPeer of node m, with Self as the peer.                   *)
GossipSend(m) ==
    /\ up[m]
    /\ Cardinality(net) < MaxInFlight
    /\ \E f \in ToGossipFormat(m) :
          net' = net \cup {[from |-> m, view |-> f.view, seen |-> f.seen]}
    /\ UNCHANGED <<st, age, ring, up, silent, scan, rcv>>

(* A datagram is lost (UDP, not retransmitted).                           *)
Lose ==
    \E msg \in net :
       /\ net' = net \ {msg}
       /\ UNCHANGED <<st, age, ring, up, silent, scan, rcv>>
-----------------------------------------------------------------------------
(* main's onStateChange: ring.RemoveNode on death, AddNode on dead->alive. *)
OnStateChange(m, old, new) ==
    CASE new = "dead" -> RemoveNode(ring, m)
      [] new = "alive" /\ old = "dead" -> AddNode(ring, m)
      [] OTHER -> ring
-----------------------------------------------------------------------------
(* detectionLoop between two checks; the copy checkMembers took is gone.  *)
ScanIdle == [pc |-> "idle", snap |-> [m \in Others |-> Cap], todo |-> {},
             cur |-> CHOOSE m \in Others : TRUE, old |-> "none",
             new |-> "none"]

(* checkMembers starting: it copies the members (GetAllMembers) and takes *)
(* time.Now(), whose ages are a; Self is skipped.  An entry of the copy    *)
(* that will not be read again (not a member, or already checked) is kept *)
(* as Cap, so that states differing only in dead data coincide.            *)
ScanStartIncludesSelf(a) ==
    [ScanIdle EXCEPT !.pc = "check", !.snap = a, !.todo = Nodes]

ScanStart(a) ==
    [ScanIdle EXCEPT !.pc = "check",
                     !.snap = [m \in Others |-> IF Member(m) THEN a[m] ELSE Cap],
                     !.todo = {m \in Others : Member(m)}]

(* MembershipList.UpdateState, under the list's lock: the new state, and  *)
(* for alive a fresh LastHeartbeat.                                        *)
UpdateState(m, s) ==
    /\ st' = [st EXCEPT ![m] = s]
    /\ age' = IF s = "alive" THEN [age EXCEPT ![m] = 0] ELSE age

(* FailureDetector.transitionTo.                                           *)
transitionTo(m, s) == UpdateState(m, s)

(* Faulty variant: an alive member's silence is judged, a suspect's not.  *)
CheckMemberSkipsSuspect ==
    /\ scan.pc = "check"
    /\ \E m \in scan.todo :
          LET new == IF st[m] = "alive" /\ scan.snap[m] > SuspectAfter
                        THEN "suspect" ELSE st[m]
          IN scan' = [scan EXCEPT !.pc = IF new # st[m] THEN "transition"
                                                       ELSE "notify",
                                   !.todo = @ \ {m}, !.cur = m,
                                   !.snap[m] = Cap, !.old = st[m],
                                   !.new = new]
    /\ UNCHANGED <<st, age, ring, up, silent, net, rcv>>

(* One member of the copy: the elapsed time comes from the copy, oldState  *)
(* and the switch from the shared *types.Node, read without the list's    *)
(* lock (the two reads are adjacent and taken as one).  A transition is    *)
(* decided here and made by the next step.                                 *)
CheckMember ==
    /\ scan.pc = "check"
    /\ \E m \in scan.todo :
          LET new == CASE st[m] = "alive" /\ scan.snap[m] > SuspectAfter
                             -> "suspect"
                       [] st[m] = "suspect" /\ scan.snap[m] > DeadAfter
                             -> "dead"
                       [] OTHER -> st[m]
          IN scan' = [scan EXCEPT !.pc = IF new # st[m] THEN "transition"
                                                       ELSE "notify",
                                   !.todo = @ \ {m}, !.cur = m,
                                   !.snap[m] = Cap, !.old = st[m],
                                   !.new = new]
    /\ UNCHANGED <<st, age, ring, up, silent, net, rcv>>

(* transitionTo, which takes the list's lock in UpdateState: the state     *)
(* decided is written whatever the receive loop did since the read.        *)
Transition ==
    /\ scan.pc = "transition"
    /\ transitionTo(scan.cur, scan.new)
    /\ scan' = [scan EXCEPT !.pc = "notify", !.new = "none"]
    /\ UNCHANGED <<ring, up, silent, net, rcv>>

(* The callback check that follows: member.Node.State is read again,      *)
(* without the lock, and compared with oldState; the callback gets the     *)
(* state read now, which the receive loop may have changed meanwhile.     *)
Notify ==
    LET m == scan.cur
    IN /\ scan.pc = "notify"
       /\ ring' = IF st[m] # scan.old THEN OnStateChange(m, scan.old, st[m])
                                      ELSE ring
       /\ scan' = [scan EXCEPT !.pc = "check", !.cur = ScanIdle.cur,
                                !.old = "none"]
       /\ UNCHANGED <<st, age, up, silent, net, rcv>>

ScanDone ==
    /\ scan.pc = "check" /\ scan.todo = {}
    /\ scan' = ScanIdle
    /\ UNCHANGED <<st, age, ring, up, silent, net, rcv>>

(* One tick of the detector's time.Ticker: every clock-derived age grows, *)
(* those in datagrams included, and detectionLoop runs checkMembers with   *)
(* the new time.  A tick (one second) is taken to be longer than one pass  *)
(* of checkMembers or one handleMessage, which only touch memory, so it    *)
(* falls between them; the two loops interleave freely with each other.   *)
Tick ==
    /\ scan.pc = "idle" /\ rcv.pc = "idle"
    /\ age' = [m \in Others |-> Older(age[m])]
    /\ silent' = [m \in Others |-> IF up[m] THEN 0 ELSE Older(silent[m])]
    /\ net' = {[msg EXCEPT !.seen = [m \in Others |-> Older(msg.seen[m])]] :
                 msg \in net}
    /\ scan' = ScanStart(age')
    /\ UNCHANGED <<st, ring, up, rcv>>
-----------------------------------------------------------------------------
(* receiveLoop reads a datagram; FailureDetector.RecordHeartbeat reads the *)
(* sender's state (GetMember) and returns at once for an unknown sender.   *)
RecvStart ==
    /\ rcv.pc = "idle"
    /\ \E msg \in net :
          /\ net' = net \ {msg}
          /\ rcv' = [pc |-> IF Member(msg.from) THEN "hb" ELSE "merge",
                     msg |-> msg, old |-> st[msg.from]]
    /\ UNCHANGED <<st, age, ring, up, silent, scan>>

(* FailureDetector.RecordHeartbeat, after MembershipList.RecordHeartbeat:  *)
(* Revive follows when the state read before it was not alive.            *)
AfterHeartbeat(old) == IF old # "alive" THEN "revive" ELSE "merge"

(* MembershipList.RecordHeartbeat: fresh LastHeartbeat, state alive.      *)
RecvHeartbeat ==
    LET m == rcv.msg.from
    IN /\ rcv.pc = "hb"
       /\ age' = [age EXCEPT ![m] = 0]
       /\ st' = [st EXCEPT ![m] = "alive"]
       /\ rcv' = [rcv EXCEPT !.pc = AfterHeartbeat(rcv.old),
                             !.old = "none"]
       /\ UNCHANGED <<ring, up, silent, net, scan>>

(* FailureDetector.Revive, called when the state read before was not      *)
(* alive: it reads the state again and fires the callback only if that is *)
(* still dead or suspect.                                                  *)
RecvRevive ==
    LET m == rcv.msg.from
    IN /\ rcv.pc = "revive"
       /\ IF st[m] \in {"dead", "suspect"}
             THEN /\ UpdateState(m, "alive")
                  /\ ring' = OnStateChange(m, st[m], "alive")
             ELSE UNCHANGED <<st, age, ring>>
       /\ rcv' = [rcv EXCEPT !.pc = "merge"]
       /\ UNCHANGED <<up, silent, net, scan>>

(* The receive loop between datagrams: the datagram and the state read    *)
(* for it are locals of handleMessage, dead once it returns.               *)
RcvIdle == [pc |-> "idle", msg |-> [from |-> CHOOSE m \in Others : TRUE,
                                    view |-> [m \in Others |-> "none"],
                                    seen |-> [m \in Others |-> Cap]],
            old |-> "none"]

(* MembershipList.Merge, per member of the datagram: an unknown one is     *)
(* inserted with the state and LastSeen reported (no callback, so not put  *)
(* on the ring); a known one takes a newer LastSeen only.                  *)
Merged(x) ==
    LET v == rcv.msg.view[x]
        seen == rcv.msg.seen[x]
    IN  CASE v = "none"   -> [st |-> st[x], age |-> age[x]]
          [] ~Member(x)   -> [st |-> v, age |-> seen]
          [] seen < age[x] -> [st |-> st[x], age |-> seen]
          [] OTHER        -> [st |-> st[x], age |-> age[x]]

RecvMerge ==
    /\ rcv.pc = "merge"
    /\ age' = [x \in Others |-> Merged(x).age]
    /\ st' = [x \in Others |-> Merged(x).st]
    /\ rcv' = RcvIdle
    /\ UNCHANGED <<ring, up, silent, net, scan>>
-----------------------------------------------------------------------------
Init ==
    /\ st = [m \in Others |-> IF m \in Known THEN "alive" ELSE "none"]
    /\ age = [m \in Others |-> IF m \in Known THEN 0 ELSE Cap]
    /\ ring = FoldLeft(AddNode, NewHashRing, SetToSeq(Known \cup {Self}))
    /\ up = [m \in Others |-> TRUE]
    /\ silent = [m \in Others |-> 0]
    /\ net = {}
    /\ scan = ScanIdle
    /\ rcv = RcvIdle

Next ==
    \/ Tick \/ Lose
    \/ \E m \in Others : Crash(m) \/ Restart(m) \/ GossipSend(m)
    \/ CheckMember \/ Transition \/ Notify \/ ScanDone
    \/ RecvStart \/ RecvHeartbeat \/ RecvRevive \/ RecvMerge

(* Time passes: a tick can only fall between handlers, and since both      *)
(* loops return to idle again and again, it does fall (strong fairness).  *)
(* The detector loop and the receive loop finish what they started.       *)
(* Delivery, gossip sends, crashes and restarts are not fair: datagrams    *)
(* may be lost and nodes may stay down.                                    *)
Fairness ==
    /\ SF_vars(Tick)
    /\ WF_vars(CheckMember) /\ WF_vars(Transition) /\ WF_vars(Notify)
    /\ WF_vars(ScanDone)
    /\ WF_vars(RecvHeartbeat) /\ WF_vars(RecvRevive) /\ WF_vars(RecvMerge)

Spec == Init /\ [][Next]_vars /\ Fairness
-----------------------------------------------------------------------------
TypeOK ==
    /\ st \in [Others -> States \cup {"none"}] /\ age \in [Others -> Age]
    /\ ring.vnodes \in Seq(VNode) /\ DOMAIN ring.nodeVNodes \subseteq Nodes
    /\ HasNode(ring, Self)
    /\ up \in [Others -> BOOLEAN] /\ silent \in [Others -> Age]
    /\ net \subseteq Message /\ Cardinality(net) <= MaxInFlight
    /\ scan.pc \in {"idle", "check", "transition", "notify"}
    /\ scan.snap \in [Others -> Age]
    /\ scan.todo \subseteq Others /\ scan.cur \in Others
    /\ scan.old \in States \cup {"none"} /\ scan.new \in States \cup {"none"}
    /\ rcv.pc \in {"idle", "hb", "revive", "merge"} /\ rcv.msg \in Message
    /\ rcv.old \in States \cup {"none"}

(* The sender whose heartbeat the receive loop is recording.              *)
Hearing == IF rcv.pc \in {"hb", "revive"} THEN {rcv.msg.from} ELSE {}

Lifecycle == INSTANCE NodeLifecycle WITH Members <- Others, state <- st,
                                         hearing <- Hearing

(* spec.md 4.3: every change checkMembers, RecordHeartbeat, Revive and     *)
(* Merge make to Self's list, in any interleaving of the detector loop     *)
(* with the receive loop, follows the lifecycle: alive to suspect to dead  *)
(* on silence, back to alive only while the member's own datagram is being *)
(* recorded (never on a peer's report), and a member joins only by Merge.  *)
(* checkMembers decides a transition from an unlocked read of the state    *)
(* and writes it later under the lock, so this fails: see                  *)
(* MembershipLifecycle.cfg.                                                *)
LifecycleRefinement == Lifecycle!Spec

(* A member of Self's list whose process has stopped is eventually        *)
(* declared dead by checkMembers, however the gossip of the other members  *)
(* that heard from it before is delayed.                                   *)
CrashedEventuallyDead ==
    \A m \in Crashable : ~up[m] /\ Member(m) ~> (st[m] = "dead" \/ up[m])

(* spec.md 4.1: after every RemoveNode and AddNode main's callback makes,  *)
(* the coordinator's GetNodes (the preference list) and GetNode answer, for *)
(* every key and replication factor, the ring's nodes in the clockwise      *)
(* order of their nearest virtual node: the sorted slice, the binary search *)
(* with its wrap-around and the distinct-node walk agree with the reference.*)
RingLookupsAgree == RingAgreesWithClockwise(ring)

(* spec.md 4.3: the ring follows the state machine: a dead member is not  *)
(* on the ring, and an alive one (revived or joined) is, whenever the     *)
(* receive loop is between datagrams and no callback of checkMembers is    *)
(* pending.                                                                *)
RingFollowsMembership ==
    rcv.pc = "idle" /\ scan.pc # "notify" =>
       \A m \in Others : /\ st[m] = "dead" => ~HasNode(ring, m)
                         /\ st[m] = "alive" => HasNode(ring, m)
=============================================================================
