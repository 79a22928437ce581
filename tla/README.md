# TLA+ models of the Distributed Key-Value Store

This directory holds TLC-checkable TLA+ models of the Go key-value store in
`src/`. The store is Dynamo-style: consistent hashing, N/R/W quorums,
last-write-wins by timestamp, read repair, gossip membership and hinted
handoff. `PROJECT.json` lists the components, the runs, the mutants, the map
from every TLA+ definition to the Go lines it translates, the findings and the
hazards.

## 1. The system (inventory)

| Part | Source | State | Operations |
|---|---|---|---|
| Coordinator | `internal/replication/coordinator.go` 1-336 | node map, http client | `Put`, `Get`, `replicateToNodes`, `readFromNodes`, `sendReplication`, `fetchFromNode`, `readRepair`, `getWriteQuorum`, `getReadQuorum` |
| Replica handlers (API server) | `unnamed/part_005` | none (use the local engine) | `handleReplication`, `handleInternalRead`, `handleDelete`; `handleGet` and `handlePut` forward to the coordinator |
| Bitcask engine | `internal/storage/bitcask.go` | append-only data file, write buffer, index, `closed` | `NewBitcask`/`rebuildIndex`, `Get`, `Put`, `Delete`, `Sync`, `Compact`, `Close` |
| Index | `internal/storage/index.go` | key -> (offset, size, ts, deleted); active/deleted counters | `Put`, `Delete`, `Get`, `Keys` |
| Hash ring | `internal/ring/hash_ring.go` | sorted virtual-node tokens | `AddNode`, `RemoveNode`, `GetNode`, `GetNodes` |
| Membership list + failure detector | `coordinator.go` 542-968 | member -> (state, LastHeartbeat) | `checkMembers`, `Revive`, `RecordHeartbeat`, `Merge`, `UpdateState` |
| Gossip protocol | `unnamed/part_004` | peers | `gossipToRandomPeer`, `handleMessage` (heartbeat, then merge) |
| Hinted handoff | `internal/replication/handoff.go` | target -> list of hints | `Store`, `RemoveHint`, `IncrementAttempts`, `cleanup`, `deliverPendingHandoffs` |
| QuorumManager | `internal/replication/quorum.go` | none | `ExecuteWrite`, `ExecuteRead` (return early at quorum; no caller) |
| Vector clocks, Resolver | `coordinator.go` 337-541, `unnamed/part_007` | per-key clocks | `Compare`, `Merge`, `resolveByTimestamp`, `resolveByVectorClock` (no caller on the data path) |
| Configuration | `internal/config/config.go` | N, R, W, timeouts | `DefaultConfig`, `Validate` (W + R <= N only warns), `LoadFromFile` |
| Wiring | `unnamed/part_000` (main) | | start-up; `onStateChange` removes Dead nodes from the ring and re-adds revived ones |

### How the parts interact

A client PUT reaches `handlePut` on any node, which becomes the coordinator.
The coordinator takes `time.Now().UnixNano()` as the timestamp, asks the ring
for the key's preference list and starts one goroutine per replica:

- for itself, a goroutine calls `storage.Put` directly;
- for each other replica, a goroutine POSTs to `/internal/replicate`, and that
  node's `handleReplication` applies the entry with no timestamp comparison.

The coordinator waits for **all** goroutines. Each HTTP call is bounded by the
client timeout. It then counts successes against W.

A GET works the same way through `/internal/read`. It fails when fewer than R
replicas answer. Otherwise it returns the entry with the largest timestamp and
starts `readRepair` in a new goroutine. That goroutine walks the preference
list:

- on the local node it reads, compares and writes, under two separate locks;
- on every remote replica it sends the winning entry, unconditionally.

`handleDelete` writes a tombstone to the local engine only.

The failure detector and gossip change node states. The wiring in main turns
those changes into ring changes, and hinted handoff redelivers writes to nodes
that come back.

### Hard behaviours

- Fan-out goroutines that interleave with other requests' goroutines.
- A lost or late HTTP request that is applied after the coordinator gave up on
  it.
- The asynchronous read repair racing later writes.
- A tombstone that is never replicated.
- Crashes in the middle of a log append, and partial failure of compaction.
- Concurrent `Get`s sharing one file offset.
- Heartbeats racing the failure detector's scan.
- Hint lists at their size limit.

The hazards list of `PROJECT.json` gives each one at the line where it bites.

## 2. Modules

### `Replication.tla` (with `MCReplication.tla`)

This module models the coordinator and the replica handlers for **one key**.
No operation touches two keys. The preference list is fixed: the sequence
`PrefList` that `GetNodes` returns while the ring is stable. A value is
identified by the request that wrote it. A node's engine is reduced to the
key's index entry (`store[n]`):

- Put and Delete replace the entry;
- Get refuses a missing key or a tombstone (`LocalGet`).

| Variable | Code |
|---|---|
| `store[n]` | the key's entry in node n's Bitcask |
| `clock` | `time.Now().UnixNano()`, strictly increasing |
| `put[p]`, `get[g]` | one `Coordinator.Put` / `Get` call: coordinator, required acks, per-replica goroutine result |
| `del[d]` | one `handleDelete` call |
| `repair[g]` | the `readRepair` goroutine started by GET g: position in the list, phase |
| `net` | HTTP requests sent and not yet handled |
| `lowered` | history: the timestamps some replica went from at or above to below |

| Action | Code |
|---|---|
| `PutStart` | `Put` up to `replicateToNodes`; HTTP requests sent to the remote replicas |
| `PutLocal` | the local goroutine's `storage.Put` |
| `PutFinish` | `wg.Wait` returned; count acks |
| `GetStart` / `GetLocal` / `GetFinish` | the same for `Get`; `GetFinish` also sorts by timestamp and starts `readRepair` |
| `RepairLocalRead` / `RepairLocalWrite` | `readRepair`'s local branch, with the Get and the Put as separate steps |
| `RepairSend` / `RepairTimeout` | `readRepair`'s remote branch (`sendReplication`, synchronous) |
| `Deliver` | `handleReplication` or `handleInternalRead` runs on the target; the response reaches a caller still waiting |
| `PutTimeout` / `GetTimeout` | the http client's timeout fires: `sendReplication` returns false, `fetchFromNode` returns nil |
| `Delete` | `handleDelete` |

Lost messages are modelled by `Deliver` not being fair: a request can stay in
`net` forever. The same mechanism covers late delivery, because `Deliver` can
fire after the timeout. Duplicate delivery cannot occur: the http client does
not retry.

**Fairness.**

- Weak fairness on every coordinator and repair step. These are goroutines that
  run when enabled.
- Weak fairness on the timeouts. `http.Client.Timeout` is always set from
  `RequestTimeout`.
- No fairness on `Deliver`.

### Runs

| Run | Config | Expect | Shows |
|---|---|---|---|
| `replication_safety` | `Replication.cfg` | pass | N=3, R=W=2, one PUT, one GET and a concurrent local DELETE, two coordinators (~135 k states, ~25 s). `QuorumReadSeesAckedWrite`: a quorum GET after an acked PUT returns it or a newer write, unless some replica was lowered to an older entry. `OperationsTerminate`: every PUT and GET returns and every repair walk finishes, with lossy delivery. |
| `read_repair_regression` | `ReplicationRepair.cfg` | violation | `QuorumMonotonicity` (spec.md section 8, property 8) fails; see below. |
| `delete_is_local` | `ReplicationDelete.cfg` | violation | `DeleteHidesKey` fails because DELETE is local only. |

**The read repair regression** takes 17 steps (TLC's trace):

1. PUT p1 arrives at n1, which applies it locally (timestamp 1).
2. GET g1 arrives at n2 and reads n2's local copy, still the initial entry.
3. p1 reaches n2, which acks it; g1's read of n3 returns the initial entry.
4. p1's request to n3 times out, still in flight. p1 has two acks and
   returns success.
5. GET g2 arrives at n1, after p1 returned. n3 answers it with the initial
   entry, and its read of n2 times out.
6. g1's read of n1 times out. g1 returns the initial entry from its two
   answers and starts `readRepair`.
7. The repair walks the preference list from n1, which is remote for n2,
   and sends it the initial entry. `handleReplication` applies it without a
   timestamp check, so n1 goes back to timestamp 0.
8. g2 reads n1 locally and returns the initial entry from n1 and n3,
   although p1 succeeded before g2 started.

**Bounds.**

- Three nodes are the smallest cluster where quorums of 2 out of 3 overlap
  without coinciding.
- Two coordinators let a remote read repair reach a replica that already holds
  the newer value. With one coordinator, the local branch's check protects the
  coordinator's own copy.
- Two GETs are needed for a repair to overlap a later GET; the regression
  run has them. The passing run has one GET and a DELETE instead: a second
  GET there adds no new case for its properties and multiplies the states.
- One PUT is enough to give a newer and an older value, because the replicas
  start with an initial write.

**Mutants.** Each property of a passing run is broken by a plausible code bug
(see `PROJECT.json`):

- PutFinish counting failed goroutines as acks;
- the sort comparator reversed;
- the repair walk running one node too far;
- PutFinish waiting for acks with no timeout.

### `Bitcask.tla` (with `MCBitcask.tla`)

This module models one node's storage engine (`bitcask.go`, `index.go`). The
data file is a sequence of records `[key, ts, del]`. Values are left out: a
record is told apart by its key and timestamp, and every record has the same
size, so a record's offset is its position in the sequence. The `bufio.Writer`
is a second sequence, `buf`, appended to the file by a flush.

| Variable | Code |
|---|---|
| `status` | `closed`, plus `down` (process killed) and `failed` (`NewBitcask` returned an error) |
| `disk`, `buf` | the bytes in `data.db` and in the 64 KiB write buffer |
| `ix` | `Index`: key -> entry (offset, timestamp, deleted), `activeKeys`, `deletedKeys` |
| `position` | `bc.position`, the offset of the next append |
| `handle` | whether `bc.dataFile` is an open file (compaction can leave it closed) |
| `werr` | the sticky error of the `bufio.Writer` |
| `fileOff` | the offset of the shared `*os.File` that every `Get` seeks |
| `rd[r]` | one reader goroutine inside `Get`: program counter, key, offset, result |
| `hist`, `nflushed` | history: the writes in order, and how many were reported durable |

| Action | Code |
|---|---|
| `Put(k)`, `Delete(k)` | `Put` / `Delete` under the write lock, with `writeEntry` (append, flush when `SyncWrites`) and the index update |
| `GetStart`, `GetFlush`, `GetFlushReset`, `GetSeek`, `GetRead` | `Get` under the **read** lock, split at each access to shared state: index lookup, `writer.Flush` (write the buffer, then reset it), `Seek`, `readEntry` |
| `Sync`, `Close` | `Sync` and `Close` (which sets `closed` before flushing) |
| `Compact(o)` | `Compact` as one step under the write lock, with outcome `ok`, `tempfail` (an error while writing the temporary file), `renamefail` (the data file already closed), `reopenfail`; `CompactFlushFails` is its early flush error |
| `Crash` | the process is killed: the buffer is lost except a prefix the `bufio.Writer` had spilled, and the last record may be half written (`Garbage`) |
| `Restart` | `NewBitcask` and `rebuildIndex`: replay the file, fail on a torn record |

`Replay` is `rebuildIndex` as a fold (`FoldLeftDomain`) of `IndexPut` and
`IndexDelete` over the file, the same operators `Put` and `Delete` use.

**Runs.**

| Run | Config | Expect | Shows |
|---|---|---|---|
| `bitcask_safety` | `Bitcask.cfg` | pass | Two keys, one reader, three writes, two crashes (~470 k states, ~25 s). `IndexMatchesLog`: each live index entry points at its own latest record and `position` is the log length. `KVRefinement`: the engine implements `DurableKV` (below): every Get answers the latest write of its key, compaction changes no answer, and a restart shows a prefix of the writes that contains every write reported durable. |
| `bitcask_get_race` | `BitcaskGetRace.cfg` | violation | Two readers: Get r1 seeks to k1's record, Get r2 seeks to k2's, r1 reads k2's record. `readEntry` does not compare keys. |
| `bitcask_torn_tail` | `BitcaskTornTail.cfg` | violation | A crash that leaves half a record makes `NewBitcask` fail for good; spec.md section 4.1 says the tail is truncated. |

With two readers `IndexMatchesLog` fails as well: two `Get`s flush the shared
buffer at the same time, and the records are written twice. The passing run
therefore has one reader.

**The index counters.** `Index.Put` on a tombstoned key decrements `deleted`
without incrementing `active` (`index.go` 57-61). A `Delete` of an unknown
key followed by a `Put` leaves `activeKeys` at 0 with one live key, and one
more `Delete` makes it negative, so `Keys()` panics in `make`. An earlier
version of this project checked this with a run of its own. That run was
given up for `membership_stale_transition`, because only twelve runs are
kept and a two-call unit test reaches this bug too. It stays listed as a
hazard. The reader races are the subject of
`bitcask_get_race`.

**Refinement.** `DurableKV.tla` is what the engine promises (spec.md
sections 4.1 and 8). Its state is a map `kv`, the acknowledged `writes`, how
many are `durable`, whether the store is `up`, and each reader's last answer
`ans`. Its actions are `DoWrite`, `Persist`, `Invoke` and `Return` (a Get),
`Stop` (Close or a crash) and `Recover` (reopen on any prefix that keeps the
durable writes). `Bitcask.tla` instantiates it as `KV` with this mapping:

| DurableKV | Bitcask |
|---|---|
| `kv` | `IxView(ix)` while `status = "open"`, otherwise all 0 |
| `writes`, `durable` | the history variables `hist`, `nflushed` |
| `up` | `status = "open"` |
| `ans[r]` | for a finished Get: its key, whether it failed, the timestamp of the record read (0 for not found) |

`KVRefinement == KV!Spec` is checked as a PROPERTY. Gets, flushes, seeks,
`Compact` and failed restarts are stuttering steps of `DurableKV`. A write is
`DoWrite`, and `Sync` is `Persist`. `Close` and `Crash` are `Stop`, and a
successful `Restart` is `Recover`. A Get whose answer does not match the
latest write of its key, a compaction that changes the view, and a restart
that drops a durable write all break it.

**Bounds.** Two keys are needed for a read to return the wrong key, and for
compaction to drop one key while keeping another. Three writes let a key be
written, deleted and written again. Two crashes let a restart replay a file
that an earlier restart already replayed. `SyncWrite` is `FALSE`, the default
in `config.go`; with `TRUE` every write is flushed, and the crash cases
disappear.

**Fairness.** None is assumed: the properties are all safety properties.

**Mutants.** The three properties are broken by these code changes:

- a delete written with no timestamp (`TypeOK`);
- the replay recording the wrong offset (`IndexMatchesLog`);
- `Sync` reporting success without flushing (`KVRefinement`).

`Get` without its tombstone check, and compaction copying tombstones, break
`KVRefinement` too.

### `Membership.tla`, `HashRing.tla` and `NodeLifecycle.tla` (with `MCMembership.tla`)

`Membership.tla` models one node's view of the cluster. The node is `Self`,
and the other nodes are `Others`. It covers these parts:

- `MembershipList` and `FailureDetector` in `coordinator.go` 542-968;
- the gossip receive path, `Protocol.handleMessage` (`part_004`);
- the callback main installs (`part_000` 214-222), which calls
  `hashRing.RemoveNode` on death and `AddNode` on dead-to-alive.

Time is discrete: one tick is one period of the detector's `time.Ticker`.
`age[m]` is `now - LastHeartbeat` in ticks, capped at `DeadAfter + 1`. That
cap keeps every comparison with the two timeouts. A datagram carries the
sender's view of each member: its state and `LastSeen` as an age, which grows
with `Tick`, or nothing for a member the sender does not know. Self's list
starts with the members `Known`, who are also on the ring. The other members
are `"none"` until a datagram's `Merge` inserts them (`Member(m)`).

Two abstractions keep the model small, and both only add behaviours:

- `silent[m]` counts ticks only while m's process is down. A running node may
  have gossiped to another peer a moment ago, so hearsay about it may be as
  fresh as now.
- For a member Self already knows, an entry that is not newer than Self's
  own can never matter later. Both ages grow with each tick, and Self's only
  shrinks. Such an entry is sent as the oldest age.
- An entry of `checkMembers`' copy that is not read again (a non-member, or
  a member already checked) is kept as the oldest age, so states that differ
  only in such dead data coincide.

A tick (one second) is taken to be longer than one pass of `checkMembers` or
one `handleMessage`, which only touch memory. So `Tick` falls between
handlers, and it starts the next `checkMembers` with the new time. The two
loops still interleave freely with each other.

| Variable | Code |
|---|---|
| `st`, `age` | `Node.State` and `LastHeartbeat` in Self's list |
| `ring` | main's `hashRing`, a `HashRing` value `[vnodes, nodeVNodes]` |
| `up`, `silent` | whether a node's process runs; ticks since it stopped |
| `net` | UDP datagrams in flight to Self |
| `scan` | `checkMembers`: the copy `GetAllMembers` returned (ages), members left, and the member at hand with its `oldState` and the state decided for it |
| `rcv` | `handleMessage`: the datagram, and the state `RecordHeartbeat` read first |

| Action | Code |
|---|---|
| `Crash`, `Restart`, `GossipSend`, `Lose` | environment: process crashes of the nodes in `Crashable`, `gossipToRandomPeer` of a node (Self as the peer, `ToGossipFormat` of its list), a lost datagram |
| `Tick` (with `ScanStart`), `CheckMember`, `Transition`, `Notify`, `ScanDone` | `detectionLoop`'s ticker and `checkMembers` over Self's members. The elapsed time comes from the copy taken at the tick, but the state comes from the shared `*types.Node`, read without the lock. `CheckMember` is that read (`oldState` and the switch, adjacent reads taken as one) and the decision. `Transition` is `transitionTo`, which takes the lock in `UpdateState` and writes the decided state (and a fresh `LastHeartbeat` for alive, which `Revive` relies on) whatever the state is by then. `Notify` is the unlocked re-read of `Node.State` that follows: if it differs from `oldState`, `OnStateChange(oldState, state now)` runs. The receive loop may run in between |
| `RecvStart`, `RecvHeartbeat`, `RecvRevive`, `RecvMerge` | `FailureDetector.RecordHeartbeat`: return at once for an unknown sender, else read the state, then `MembershipList.RecordHeartbeat` (state alive). If the state read was not alive, `Revive` follows (`AfterHeartbeat`). Then `Merge` (`Merged`): an unknown member is inserted with the reported state and `LastSeen`, without a callback; a known one takes only a newer `LastSeen` |

`HashRing.tla` models `hash_ring.go` as operators on a ring value:
`NewHashRing`, `AddNode` (append, then sort), `RemoveNode` (filter),
`HasNode`, `GetNode`, and `GetNodes`, which is `sort.Search`, the wrap to 0
and the walk collecting distinct nodes, written as a RECURSIVE operator.
The ring's mutex makes each method one step, so each is a function from ring
to ring. murmur3 is replaced by fixed hashes (`VHash`, `KHash` in
`MCMembership.tla`). They are chosen so that:

- the two virtual nodes of n1 are adjacent, so the walk must skip a repeat;
- k1 hashes exactly onto a virtual node of Self, which is always on the
  ring, and the next virtual node is n2's: the `>=` case;
- k2 hashes past the last virtual node, the wrap.

Virtual-node hashes are distinct, as 64-bit hashes of distinct strings are.
The reference `ClockwisePreference` orders the ring's nodes by the clockwise
distance from the key to their nearest virtual node. It does not use the
sorted slice.

| Run | Config | Expect | Shows |
|---|---|---|---|
| `membership_safety` | `Membership.cfg` | pass | Self and two others, n2 known and on the ring, n3 joining through gossip, n2 may crash and restart, suspect after 1 silent tick, dead after 2, one datagram in flight (~710 k states, ~100 s). `RingLookupsAgree`: after every ring change the callback makes, `GetNodes` for every key and replication factor 1..4, and `GetNode`, equal the clockwise reference. `CrashedEventuallyDead`: a member whose process stopped is eventually dead. |
| `membership_revival_ring` | `MembershipRing.cfg` | violation | Every member known from the start. `RingFollowsMembership` (checked between datagrams, with no callback of `checkMembers` pending): a dead member is removed from the ring. Its next datagram makes it alive, but `RecordHeartbeat` has already set alive, so `Revive` fires no callback and the node is never re-added. |
| `membership_stale_transition` | `MembershipLifecycle.cfg` | violation | `LifecycleRefinement` fails in 12 steps: n2 is suspect, a tick starts a scan, `CheckMember` reads n2 as suspect past the dead timeout, n2's own datagram is recorded (alive), and `Transition` writes dead. n2 goes from alive to dead while it is sending. |

**Refinement.** `NodeLifecycle.tla` is the state diagram of spec.md 4.3 for
one node's list: `state[m]` ("none" while m is not in it) and `hearing`, the
sender whose own datagram is being recorded. Its actions are `Receive(m)`,
`Heartbeat(m)` (any state to alive, only for the member heard),
`Suspect(m)` (alive to suspect), `Die(m)` (suspect to dead) and `Merge`
(members not in the list join with any state; nothing else changes).
`Membership.tla` instantiates it as `Lifecycle` with `state <- st` and
`hearing <- Hearing`, the sender of the datagram while `rcv.pc` is "hb" or
"revive". `RecvStart` of a member's datagram is `Receive`; `RecvHeartbeat`
and `RecvRevive` are `Heartbeat`; `RecvMerge` is `Merge`; `Transition` is
`Suspect` or `Die`; all other steps stutter. `LifecycleRefinement ==
Lifecycle!Spec` is checked as a PROPERTY. It is broken by any interleaving of
the two loops that skips suspect, revives a member on a peer's report, or
changes a known member's state in `Merge`.

It is broken, in `membership_stale_transition`. `checkMembers` decides from
an unlocked read (`coordinator.go` 620-622) and writes through
`transitionTo` under the lock (847-857) later. A `RecordHeartbeat` in
between makes the member alive, and the scan's write makes it dead: alive
to dead, with the member sending all along. Right after, `Revive` reads dead
and makes it alive again with a callback, so the ring recovers, but for that
moment the member is dead and off the ring. An earlier version of the model
took the read and the write as one step and wrongly let this property pass.

**Fairness.** Time passes. `Tick` is only enabled between handlers, so it is
strongly fair: both loops return to idle again and again, and a clock does not
stop. `detectionLoop` and `receiveLoop` are goroutines that finish what they
started, so their steps are weakly fair.
Sends, delivery, crashes and restarts have no fairness: datagrams may be lost
and nodes may stay down.

**Mutants:**

- a scan that includes Self (`TypeOK`);
- `sort.Search` with `>` instead of `>=` (`RingLookupsAgree`);
- `checkMembers` without the suspect-to-dead case (`CrashedEventuallyDead`);

`AddNode` without the sort also breaks `RingLookupsAgree`.

**Stale copy.** `checkMembers` judges the elapsed time from the copy it took
at the tick, but switches on the live state. Suppose a suspect member's
`LastHeartbeat` is advanced by `Merge` during the scan, because a peer heard
from it just now. The scan still declares that member dead and removes it
from the ring. spec.md 4.3 says a member goes dead after "no heartbeat for
T_dead". With the action property "a known member turns dead only when
`age > SuspectAfter`" added to `Membership.cfg`, TLC finds this in ten
steps. It is recorded as a hazard (`coordinator.go:619`) and has no run of
its own. The member's own datagram is the case `membership_stale_transition`
finds (`coordinator.go:622`).

**Join path.** With `Known = {n2}`, `RingFollowsMembership` also fails in four
steps. n2 gossips about n3, and `Merge` inserts n3 as alive without a
callback. `main` only puts Self on the ring (`part_000` 217), so a node
learned through gossip never receives a key. This is listed as a hazard. The
violation run starts with every member known, so that its counterexample is
the revival bug its finding describes.

### `HintedHandoff.tla` (with `MCHintedHandoff.tla`)

This module models `handoff.go`:

- the `HintedHandoffStore` operations `Store` (evicting the oldest hint at
  `maxSize`), `GetHints`, `RemoveHint`, `IncrementAttempts`, `GetAllTargets`
  and `cleanup`;
- the `HandoffManager` delivery pass, with the target's `handleReplication`,
  which applies a delivered entry without comparing timestamps.

A hint's id is its creation order, which is also the timestamp of its entry.
Time is the watermark `expiredBelow`: hints with an id up to it are older than
`maxAge`.

| Variable | Code |
|---|---|
| `hints` | `HintedHandoffStore.hints` |
| `alive` | whether the target is `NodeAlive` in the coordinator's node map (environment) |
| `target` | the timestamp of the entry each target holds per key |
| `mgr` | the delivery pass: the targets left (map order), the current target and the copy `GetHints` returned |
| `inflight` | timed-out requests that may still reach the target |
| `nstored`, `meta`, `retired` | history: hints created, their target and key, hints legitimately removed |

| Action | Code |
|---|---|
| `Store`, `Cleanup`, `Age`, `SetAlive` | `Store`; `cleanup`; time passing; the target's membership state |
| `Tick`, `NextTarget`, `TargetDone` | `deliveryLoop`'s ticker; `deliverPendingHandoffs` iterating `GetAllTargets`, skipping targets that are not alive, copying `GetHints` |
| `DeliverOk`, `DeliverFail` | one hint sent: on success `RemoveHint(target, key)`; on failure `IncrementAttempts` and, when the copy's `Attempts > 10`, `RemoveHint` |
| `LateApply` | a timed-out request applied by the target later |

| Run | Config | Expect | Shows |
|---|---|---|---|
| `handoff_safety` | `HintedHandoff.cfg` | pass | One target, two keys, three hints, queues of two, give-up after the second failure (~156 k states, ~25 s). `HintsEventuallyRetired`: every hint eventually leaves the buffer. |
| `handoff_drops_hint` | `HintedHandoffLost.cfg` | violation | `NoHintLost`: a hint stored while the pass is sending an older hint of the same key is removed by the `RemoveHint(target, key)` that follows that delivery, and never reaches the target. |

**Fairness.** Weak fairness on the ticker steps, the pass's steps, `cleanup`
and `Age`. All are goroutines on tickers, and time passes. There is none on
`Store`, `SetAlive` or `LateApply`.

**Wiring.** `Store` has no caller in this repository, and the coordinator
registers only itself, so no target is ever alive. The model takes the
callers spec.md section 4.5 describes.

**Attempts.** The attempt counting is modelled as the code does it but no
property is checked about it. The give-up test reads the copy's `Attempts`,
taken before `IncrementAttempts` (`handoff.go` 243), so a hint is given up
after `GiveUpAfter + 2` failures, not the `GiveUpAfter + 1` of spec.md 4.4.
`IncrementAttempts` bumps the first hint with the key (`handoff.go` 102), so
with two hints of one key the older can be given up before it failed that
often itself, and `RemoveHint` takes the newer one with it. Each is a
per-hint disagreement with spec.md 4.4 that would need a violation run of
its own, and all twelve runs are in use. Both are listed as hazards.

**Mutants:**

- eviction only past `maxSize` (`TypeOK`);
- `cleanup` keeping expired hints (`HintsEventuallyRetired`).

### `QuorumManager.tla` (with `MCQuorumManager.tla`)

This module models `ExecuteWrite` and `ExecuteRead` of `quorum.go`. There is
one goroutine per operation. Each runs the caller's `Execute`, whose outcome
is nondeterministic: an error (a failure or the context deadline), success,
or for a read an entry or nil. The goroutine then counts the outcome under
`mu`, and if the quorum is met and `done` is open it closes `done` while still
holding `mu`. The deferred `Unlock` and `wg.Done` run after that.

A waiter goroutine runs after `wg.Wait`. It selects on `done` and closes it
if it is still open. The call returns on `<-done`. It then reads
`SuccessCount`, and for a read walks `entries`, without `mu` while late
goroutines append. The model lets it see any length between the one at the
close and the current one.

| Variable | Code |
|---|---|
| `call`, `res` | the current call (kind, required count from `getWrite/ReadRequirement`) and what it returned |
| `g`, `out` | each operation goroutine's position and its `Execute` outcome |
| `succ`, `errs`, `entries` | `result.SuccessCount`, `ErrorCount`, the read's entries |
| `closes`, `atClose` | how often `done` was closed; `len(entries)` then |
| `waiter` | the `wg.Wait` goroutine |

| Run | Config | Expect | Shows |
|---|---|---|---|
| `quorum_manager` | `QuorumManager.cfg` | pass | Three operations, N=3, R=W=2, writes and reads at levels one, quorum and all, calls one after another (~66 k states, ~6 s). `NoDoubleClose`: `done` is closed once, whoever gets there first. `FailureOnlyWhenExhausted`: a failure is returned only after every operation finished. `ReadReturnsNewest`: a successful read returns an entry of its quorum that is at least as new as every entry there when `done` was closed, although the walk over `entries` runs without `mu`. `CallReturns`: every call returns. |

**Fairness.** Weak fairness on every goroutine step. Every `Execute` returns,
because the context deadline bounds it.

**Mutants:**

- a nil entry appended (`TypeOK`);
- the waiter closing without the select (`NoDoubleClose`);
- errors counted towards the quorum (`FailureOnlyWhenExhausted`);
- the waiter exiting without closing (`CallReturns`);
- the first entry taken instead of the newest (`ReadReturnsNewest`).

### `Configuration.tla`

`Validate(n, r, w)` is `Config.Validate` on N, R and W: N at least 1, and R
and W between 1 and N. W + R <= N only prints a warning in the code, so it is
allowed here too. `Replication` and `QuorumManager` assume it of their
constants. `DefaultConfig` holds `DefaultConfig`'s N = 3, R = W = 2.
`MCReplication` and `MCQuorumManager` take the quorums they check from it,
so the runs check the configuration a node starts with when none is given.

## 3. Plan (what remains, and why it is not done)

1. **Vector clocks and the conflict resolver** (`coordinator.go` 337-541,
   `part_007`). `Compare` and `Merge` would be operators, checked against the
   componentwise order over small clocks (spec.md section 8, property 7).
   The code has no caller for them (spec.md section 9), and the check would
   need a run of its own. All twelve runs are in use by the data path.
2. **Composition**. The coordinator's preference list would come from the
   Membership ring instead of the fixed `PrefList`, and hinted handoff would
   be fed by the coordinator's failed writes. `Replication` alone already
   exceeds five minutes with a second PUT (tried with and without the
   DELETE), so the composed model would need a smaller instance than the one
   it would be meant to extend.

## 4. Not modelled

- HTTP formatting, JSON, logging and metrics.
- The status, ring, keys, stats and health handlers: they are read-only.
- The load generator, the scripts and the Makefile.
- `Coordinator.RegisterNode`: every replica is assumed registered. In the code
  (main, `part_000`) only the node itself is ever registered, so remote
  replication fails until other registration exists. The model assumes the
  intended wiring.
- Clock skew between nodes: timestamps come from each coordinator's wall clock.
  The model uses one increasing clock, which is the favourable case.
- Membership: the other nodes' lists are abstracted to the states and ages
  their datagrams report. These parts are not modelled:
  - `AddMember` and `RemoveMember`, which have no caller;
  - the peer table, `SendDirectMessage` and `BroadcastToAll`;
  - `Start` and `Stop` of the detector and the protocol.
- Hinted handoff: `HandoffManager.Start` and `Stop`.
- Hash ring: `GetAllNodes`, `Size`, `IsEmpty`, `GetRingTokens` and
  `GetKeyHash` only read. murmur3 is a fixed table.
- Configuration: `LoadFromFile`, `SaveToFile` and the address helpers are
  I/O and formatting. The timeouts and `VirtualNodes` appear, scaled to
  ticks and small rings, as constants of `Membership` and `HashRing`.
- Vector clocks and the `Resolver`: the data path never calls them (see the plan).
- QuorumManager: `ValidateQuorum` only reads. No property is stated about the
  result changing after the call returned, because nothing in the repository
  calls `QuorumManager`.
- Wiring: in `main` only the node itself is added to the ring (line 246),
  and no other node is ever added, because neither a join through `Merge`
  nor a revival fires the callback. `Membership` starts with the `Known`
  members on the ring, as in the cluster spec.md describes.
