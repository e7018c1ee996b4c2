# A verification of kyria

kyria is a distributed in-memory key-value cache. This directory holds TLA+
models of its parts, TLC runs that check them on small instances, and TLAPS
proofs of the central results for every value of the constants. `PROJECT.json`
maps every definition to the lines it models and lists runs, mutants, findings,
hazards and theorems.

## 1. The system

A node is one process (`cmd/kyria/main.go`) that runs a TCP server and these
concurrent loops over shared state:

| part | state | operations | shares state with |
|---|---|---|---|
| store (`internal/store`) | per shard a map of entries with expiry and access hint; a sketch for TinyLFU | Get, Set, SetWithTTL, UpdateReplica, Delete, DeleteIf, reapExpired | everything below |
| versions (`internal/version`, `vclock`) | none: a stored value is an encoded set of sibling versions | Increment, Compare, Reconcile, Tombstone, Frontier, Encode | coordinator, handlers, repair loops |
| coordinator (`server/coordinator.go`) | one goroutine per peer and request | write, delete, read, gather, readRepair | store, peer client, hints |
| replica verbs (`server/handler.go`) | none | RSET, RGET, RTREE, RBUCKET | store |
| peer client (`server/peer.go`) | pool of idle connections | do: one retry on a fresh connection, a deadline; Close | network |
| hinted handoff (`server/handoff.go`) | hints per target and key | add, snapshot, remove, replayOnce | coordinator, peer client |
| anti-entropy (`server/antientropy.go`, `merkle`) | a Merkle tree per round | syncWith | store, peer client |
| tombstone collector (`server/tombstonegc.go`) | none | sweep | store |
| gossip (`cluster/membership.go`, `gossip.go`) | roster of (state, incarnation) | Bump, DetectFailures, Merge, send, receive | UDP, router |
| ring and router (`cluster/ring.go`, `router.go`) | an atomically published ring | rebuild, IsLocal, Owner, Owners | roster, handler, coordinator |
| server (`server/server.go`) | tracked connections, slots, a wait group | Serve, handleConn, Close | handler, TCP |
| telemetry (`internal/telemetry`) | counters and histograms | RecordCommand, Observe, Quantile | handler |
| protocol, configuration | byte buffers, flags | Decode, Encode; parseFlags | server; main |

What is hard here is what happens between these parts: requests that time out
and are served later, retries, hints parked and replayed while newer writes go
on, several nodes that take themselves for the primary, sweeps and syncs that
act on what they read a while ago, lost and reordered gossip, restarts that
empty a store, connections that fail with an answer on its way, and shutdowns
that race all of it. `hazards` in `PROJECT.json` lists these at their lines, each with
the property that would catch it or the reason why none does yet.

## 2. The modules

**Versions** has clocks, `Reconcile`, `Frontier`, tombstones and `Equal` as
operators. A clock is a total function on nodes, with 0 for the entries the
code's map leaves out. `ReconcileAll` is the closed form of the loops that fold
one sibling set into another; **VersionFold** is such a loop, one iteration per
step in any order.

**Replication** is one key on its replica set `Node`. The code treats keys
independently: each store access is one read-modify-write of one key under its
shard's lock, and hints are kept per target and key.

- A client write `o` is minted and stored in one step (`write`, `delete`: the
  `UpdateReplica` callback). `fan[o][p]` is the RSET call of its goroutine for
  peer `p`: sent, served by the replica, retried once (`redial`), then
  acknowledged or failed. A failing goroutine parks a hint (`park`).
- A request abandoned by its sender moves to `late`, from where the replica may
  serve it at any later time or never. Pushes of read repair, whose outcome
  nobody reads, go there too.
- `gatherMet` and `gatherShort` end the write. `read`, `rgetServed`, `receive`,
  `readMet`, `repairSelf`, `repairPeer` are a quorum read with its repair.
- `replayOnce` takes a snapshot of the hints; `rsetReplay`, `replayed` and
  `replayFailed` are the calls of a round.
- `syncStart` .. `syncApply` are the steps of one anti-entropy round.
- `before` and `seen` are history: what was acknowledged when an operation began.

`Coordinator` is the set of nodes that hold themselves to be primary: one with a
stable ring, several while ring views differ.

**ReplicationCollect** adds the collector's sweep (scan, then a conditional
delete), so that a primary's counter for the key can go away with its entry.

**Merkle** has the tree's `New`, `Bucket`, `Add`, `Root` and `Diff` as operators.
A digest stands for what was hashed; the XOR of a leaf is the set of its entries;
an empty leaf is no bytes at all in its parent's digest, as in the code. Tree and
walk are recursive functions, as is `nextPowerOfTwo`, which doubles like the loop.
**AntiEntropy** is a sync round over several keys: `rangeLocal`, `rtree`, `diff`,
`rbucket`, `apply`. Every `Range` is one step per shard, so writes, RSETs, the
collector's sweep and restarts come between any two shards. Equal sets with
several encodings get one of two.

**Link** is a TCP connection as its two ends see it. **Server** is the accept
loop, a goroutine per connection from `acquire` to the deferred `release` and
`wg.Done`, and `Close`. **Pool** is `Peer.do` with its warm connections, deadline
and single retry. **PeerLink** composes the two: callers of one node (its loops,
which `main` stops, and its connection goroutines, which still run when the pool
is closed), the server they call, clients from outside that send what is no
command, and an exit of the calling process at any time. A message is its kind
and the number of its call; a reply carries the number of the command it answers.

**Membership** is gossip: the tick's steps (`Bump`, `DetectFailures`,
`pickCandidates`, then one `send` per target) interleave with `receive`. Packets are lost, duplicated
and reordered; nodes crash and start again from a fresh roster.

**Ring** has the ring's construction and walks as operators over sequences of
points; hashing is any injective placement, and a `for` over a slice is `Loop`, a
fold over its indices. **Router** is the rebuild loop (the
snapshot of `Alive()` and the atomic store are two steps) next to requests that
load the ring separately for `IsLocal`, `Owner` and `Owners`.

**Store** is the sharded store with the policies none, LRU, LFU and TinyLFU,
lazy expiry, eviction from a sample, the janitor's shard-by-shard sweep and
readers that record an access after finding the entry. **Cache** is what it
promises: a view of key to value that changes by writes to one key or by
forgetting. **Sketch** is the count-min sketch at the grain of single atomic
loads and adds. **Telemetry** is one command's counters and histogram with the
goroutines that record in `Handle` and the walk of `Quantile`, at the same grain;
the command is a GET or any other, whose successes are no outcome that is counted.
**LockFree** puts the two side by side, and **MCLockFree** runs them; they share
no state, so a behaviour exercises one of them.

The other `MC*` modules only add symmetry, bounds and the values of functional constants.

## 3. The runs

| run | instance | shows |
|---|---|---|
| repl_repair | 2 nodes, both coordinate; 2 ops; anti-entropy at one; at most 1 abandoned RSET at a time | stored sets stay siblings, clocks are unique, `+OK` stands for W copies, no replica forgets a version, no hint is dropped before its target covers it |
| repl_quorum | 2 nodes, both coordinate, 2 ops, 1 read, R = 2, W = 1 | a read covers all that was acknowledged before it, and sees the last write if that was acknowledged |
| repl_live | 2 nodes, 2 ops, fairness | every write is answered; hints drain |
| anti_entropy | 2 nodes, 2 keys in neighbouring leaves of 4 (3 rounded up), 2 writes, collector at the syncing node, restart of the peer, 2 seconds | `Diff` is exact; a finished round covers what the peer's tree was built from; only tombstones past their grace are collected |
| gossip | 1 seed, 2 followers, incarnations to 3, 1 packet in flight, 1 crash | merging packets commutes and is idempotent, views only advance, a node never holds itself dead, only the owner raises an incarnation |
| router_rings | 3 nodes with 2 interleaved points each, 7 positions, 2 view changes, 1 request, N = 2 | published rings are whole; walks return the nearest distinct nodes, also for n = 0 and n beyond the cluster; a rebuild moves only keys of changed nodes; rings catch up; redirects end |
| store_shards | 3 keys on 2 shards, cap 1, 2 writes, all policies | refinement of Cache, the cap, a full shard always has an entry to give up for a replica's write and never drops the write, the janitor and eviction lose nothing needlessly |
| lock_free | sketch: 3 adders, 2 rows of 2 counters, counterMax 2, sample 3, 5 adds; telemetry: 2 recorders, 3 commands, 2 bounds and the overflow, P50 and P99 | saturation is overshot by a bounded amount, no underestimates before the first aging, no missed aging; a quantile brackets the truth; the counters agree between commands, for a GET and for another command |
| peer_link | 2 connections, a server of 1 slot, 2 callers (one a loop), a pool of 1, 2 calls, 1 outside client | replies match their calls, warm connections are quiet, slots are accounted for, nothing is served after Close, and shutdown completes |
| repl_hint_order | violation | finding 1 |
| repl_collected | violation; no call fails, one client waits for every answer | finding 2 |
| gossip_return | violation | finding 3 |

Bounds. Conflicts between versions need two writes, and two nodes are enough for
each to be both coordinator and replica; quorums that overlap without being
everything need three nodes and are left to the proofs, which are for any number.
ReplQuorum has no hint replay, which ReplRepair explores; ReplRepair has no reads,
so that read repair keeps siblings and forgets nothing is shown by the proofs only.
One abandoned request at a time is enough for an old RSET to be served after a
newer one. In the sketch the bound on adds lets all adders
overlap at the sample size and start anew after an aging. In the store a shard of
one place makes every second key an eviction. In anti-entropy two writes and a
lost RSET are enough for stores that differ either way and for a sibling set with
two encodings. In PeerLink one slot makes callers, the outside client and the
accept loop contend, two calls let one be answered after its caller gave up while
the other follows, and Close may fall anywhere in between. `CHECK_DEADLOCK FALSE` is set where
a bounded number of client operations or incarnations ends a behaviour.

Fairness. `CallFairness`: every RPC carries a deadline (`peer.go`), so each
call's goroutine reports in the end, and the gathering loop is run by the
scheduler. `HandoffFairness`: the replayer ticks for ever; the strong fairness
of a delivery and its reply says that no target stays unreachable for ever,
without which hints rightly stay. Router: the rebuild loop ticks for ever and
clients follow a redirect they got; `RingsFollowViews` holds because the bound
`MaxChanges` lets views settle, and `RedirectsEnd` assumes that in the end every
node agrees with the nodes it holds alive, as gossip arranges. PeerLink: the
accept loop, every connection goroutine and a waiting Close are run by the
scheduler, and Handle returns since the calls it makes have deadlines; callers,
clients and the read deadline (which may be off) get no fairness, so that
`ShutdownCompletes` does not lean on them.

## 4. Findings

1. `hintStore.add` overwrites in the order in which calls fail, not in the order
   of writes, so an older write can replace the parked newer one
   (`FailedWriteIsParked`), against the comment "the latest write wins".
2. A primary that collected a tombstone mints clocks it has used before. A peer
   that still holds the tombstone drops the new write as known and acknowledges
   it, and a quorum read misses it (`ReadsLatestAckedWrite` with the collector),
   against `docs/REPLICATION.md:23-25`. A restart empties the store and has the
   same effect.
3. Gossip goes to alive members and seeds only. A follower that restarts below
   the incarnation its seed holds for it, and is marked dead there, is told so by
   nobody (`MarkedDeadComesBack`), against `docs/CLUSTERING.md:89-90`. It comes back
   all the same, later and by other means: `Bump` raises its incarnation each round,
   and the seed takes its heartbeats once they have counted past the record. The
   same property fails while the only seed is down and two followers have marked
   each other dead, against `docs/CLUSTERING.md:83-85`.

Seen on the way, and harmless as far as the models go: a goroutine accepted
before Close may start after Close has returned, since `wg.Add` is outside the
lock (`server.go:112`), but it serves nothing (`ClosedServesNothing`); calls of
connection goroutines may put connections back after the pool is closed
(`main.go:163`), and the process exits next; a quantile at the largest bound need
not be the overflow bucket answering (`telemetry.go:103-105`) while an Observe is
between its count and its bucket, which is why `QuantileIsBracketed` asks less
there; warm connections take slots of the peer's connection limit.

## 5. The proofs

All are for arbitrary finite sets of nodes, keys, operations, reads, connections,
callers and goroutines and any quorums, caps, buckets and sizes, from the named
ASSUMEs of the modules only. These say that such sets are finite, that numbers
are numbers of the right sign, that `None` is no value, and what construction
guarantees (bounds of a histogram ascend, every key has a cell in every row).

- **VersionTheorems**: `Compare` through the order `Leq`; `Reconcile` and
  `ReconcileAll` keep siblings and lose nothing; the folding loop computes
  `ReconcileAll` in any order (`FoldComputesReconcileAll`). Its invariant is that
  the accumulator is `ReconcileAll` of what has been folded.
- **ReplicationProofs**, in four parts.
  - `TypeCorrect`, `StoresStaySiblings`, `NothingIsForgotten`. `TypeInv`
    strengthens `TypeOK` by what the types alone leave open: every set on its way
    (snapshots, answers, merged sets, entries) is a sibling set too, for otherwise
    folding it in would not keep siblings.
  - `ClocksAreDistinct`. `DistinctClocks` is not inductive: a new clock is new
    only because its node's own counter is. `Provenance` says every version
    anywhere was minted by some operation; `Counters`, that no clock exceeds what
    the owner's own store has reached for the owner's counter.
  - `AckedWritesAreDurable`, `HintsAreKept`. `Delivery` links every call's state
    to its target's store: served implies covered.
  - `ReadsCoverAckedWrites`, `ReadsSeeLatestWrite`. `Reading` says that for each
    write acknowledged before the read there are W replicas that each still
    inform it: an answer yet to be given will cover the write, one already given
    does. Any R answers include one of these when R + W > N. For the latest write
    itself `Ordered` adds that a write begun after another was acknowledged has a
    clock that is not below the other's, and above it at the same coordinator: so
    nothing supersedes the latest write, and a sibling set that covers it holds it.
- **AntiEntropyProofs**, in three parts.
  - `DiffFindsAll`: `Diff` names the differing buckets and no others, for any
    leaf count and any spread of keys. The tree is first brought into closed form
    (`TreeShape`: after any order of `Add`s a leaf holds the entries of its
    bucket), then its digests (`IsNodes`, `NodesAt`: the leaf of bucket b is at
    position L + b of the heap). Equal inner digests mean equal children
    (`InnerEqual`). What makes this delicate is that an empty leaf adds no bytes:
    the digest over one leaf could be that of the left or of the right one, and
    only the bucket of the keys in it tells (`LeavesApart`). The walk from the
    root then loses no leaf (`DiffsSound`, `DiffsComplete`).
  - `OnlyAgedGo`: a step other than a restart makes a stored set only grow in what
    it covers (`Grows`), or takes away a set of aged tombstones (`Aged`).
  - `RoundsCatchUp`. `RoundCatchesUp` speaks of the last state of a round only.
    `CatchUpInv` says for every state of a round where each key's versions are:
    what a Range read is still covered by the store it was read from; once the
    trees are compared, what the peer's tree had is covered by the local store or,
    in a wanted bucket, by what was fetched; and a fetched entry stays on the list
    until it is applied. Keys outside the differing buckets are fine because
    `DiffExact`, the lemma behind `DiffFindsAll`, says their bytes were equal.
- **StoreProofs**: `TypesHold`, `CapIsKept`, `StoreRefinesCache`,
  `LossesAreNeeded`, `ReplicaWritesAreKept`. `IInv` adds to the types that a reader
  about to record an access still holds the entry it found, and that the janitor's
  time is not ahead of the clock. The refinement has a step per operation;
  eviction, admission and expiry are the abstract `Forget`. `ReplicaWritesAreKept` is about every map that
  `UpdateReplica` may leave behind: the new key is in all of them
  (`BypassKeepsNewKey`), and there is one, because a shard over its cap has another
  key, a sample of it is not empty and has a least hint (`SampleFindsVictim`): the
  early return of `evictIfNeeded` for an empty sample, which the model leaves out,
  is never taken.
- **RouterProofs**: `RouterTypes`, `RingsStayWhole`, `OwnersAreTheNearest`,
  `RebuildsMoveFewKeys`, for any nodes, number of virtual points, placement and
  order in which members are added. `RouterInv` adds to the types what a rebuild
  needs to keep them: every view and every snapshot of one has the node itself, and
  every published ring is the sorted set of all points of its members (`RingOf`).
  - From a list of members to a ring: `AddsPlace` (after the loop of `Add`s the
    slice has the points of the members and no others, each once, in any order),
    `SortMakesRing` (sorting them by rank gives strictly ascending hashes).
  - From a ring to replica sets: starting at `findIndex`, points come by ascending
    clockwise distance (`RingWalk`, with the arithmetic of the wrap in
    `ClockwiseOrders`); so the first point met of a node is its nearest, and nodes
    are met in the order of their distance (`TakesOrder`, `DistanceIs`). Two nodes
    are never equally far, since no two points collide (`WalkTellsApart`), and a
    list in that order is the ranking `Nearest` describes (`OrderedRanks`,
    `GetNIsNearest`), which says nothing of points or of a ring.
  - Whether one node comes before another among the replicas then depends on their
    two distances alone and not on who else is on the ring (`BeforeIs`), which is
    why a rebuild moves so few keys.
- **LockFreeProofs**, in two parts.
  - The telemetry: `TelemetryAgrees`, `QuantileBrackets`. `CountInv` balances the
    counters with the commands that stand between two of them, exactly for a GET; of
    other commands it says that hits and misses stay zero and that no more fail than
    are served; `WalkInv` bounds
    what a walk has summed from below by the observations finished when it began
    and from above by those finished by now. Both need that the fold behind a sum
    does not depend on the order of `CHOOSE` (`TotalRemove`).
  - The sketch: `AgingHappens` (a sketch that is due has an add on its way to
    notice), `OvershootStaysBounded`, `EstimateIsNoLower`. `OvershootInv` counts
    for each cell the adds that have passed its check: count and waiting adds
    together stay within the bound, and so does a count a reset has loaded.
    `EstimateInv` counts for each row the adds of a key that are done with it.
- **MembershipProofs**: types, `SelfStaysAlive`, `OnlyOwnersRaise`,
  `ViewsOnlyAdvance`, `MergeAlgebra`, `MergesCommute`.
- **PeerLinkProofs**: `RepliesAlwaysMatch`, `WarmConnectionsAreQuiet`,
  `ClosedMeansUnserved`, `SlotsStayAccounted`, `LinkTypeCorrect`, for any number
  of connections, callers and slots. `LinkInv` says that a connection has one user
  (a call, the pool or an outside client) and that what is under way on it, in
  either direction or in its goroutine, is the command or reply of the call that
  holds it. `CountInv` says that the wait group counts the started goroutines, so
  that a Close that saw zero leaves only goroutines that `trackConn` turns away.

Induction over data takes an operator as parameter and is out of the prover's
reach. Where the proofs need it (the tree's nodes, the walk, sums over finite
sets, the existence of the recursive functions) they use it as a fact about sets:
a non-empty set of naturals has a least element (`LeastNatural`, from the
well-foundedness of `<`), applied to the set of counterexamples (`LastNode`,
`SmallestSet`). What the loops over slices compute is stated through their
prefixes for the same reason. Many leaves name Zenon: what needs no arithmetic
goes through it faster than through SMT.

What the proofs changed. The bound of `OvershootIsBounded` was first cap plus
adders less one. Its proof failed at `storeHalf`: a reset may store half of a
count that is no longer there, over a cell others have halved and passed the check
of meanwhile. With four adders, a cap of 1 and a sample of 1 TLC shows a counter of
5. The property now has the bound that holds, and which the second disjunct only
widens when adders outnumber the cap. The code's counters have 32 bits and a cap of
15, so nothing wraps.

Some definitions were rewritten, with the same meaning, into a form that can be
reasoned about. A sorted ring and the reference `Nearest` give each place to the
element with that many before it, where they first used the library's sort. The
loops of the ring are the one fold `Loop`. And `ReplicaWriteIsKept`, once a
statement with ENABLED, ranges over the maps `UpdateReplica` may leave behind, and
says in addition that there are any.

Only model-checked:

- liveness, as fairness and ENABLED are out of the prover's reach:
  `WritesAreAnswered`, `HintsDrain`, `RingsFollowViews`, `RedirectsEnd`,
  `ShutdownCompletes`;
- the findings, which are counterexamples.

## 6. Simplifications

- One wall clock for all nodes, in whole seconds. `deletedAt` is truncated to
  seconds and the collector's time is not, so `reapable` uses `>=` where the code
  has `>` on finer time. A tombstone may thus go up to a second early, in the model
  as in the code, and `OnlyAgedTombstonesReaped` does not measure that. A delete's time may be older than the step that stores it.
- The `:1`/`:0` of DEL, the one sibling a GET picks and all wording of replies
  are left out. A local size refusal ends an operation (`refuse`); size refusals
  at replicas count as failed calls.
- In Replication, anti-entropy of one key: trees differ if the sets do, and may differ for equal
  sets too when these have several encodings (`Encode` iterates over a map).
- In AntiEntropy a write's RSETs reach a set of peers chosen at the write; the
  rest of the fan-out is Replication's. The `lost` of a round and `observed`,
  `moved` and `before` in Telemetry are history.
- A quantile's rank is an exact fraction, a float64 in the code; Observe's count
  and its sum, which nothing reads, are added in one step.
- A digest is injective: sha256 collisions and XOR cancellation of different
  entries are left out.
- TinyLFU's admission is a free choice in Store.
- The ring under construction is private to its goroutine until stored, so its
  Adds and the store are one step.
- RouterRings uses one interleaved placement of points.

## 7. Not modelled, and the plan

Not modelled: flag parsing, byte formats (RESP, versions, trees, gossip packets),
the argument parsing of the standalone SET/GET/DEL verbs with the overflow of
large TTLs, gauges and event counters, the panic of a WaitGroup whose Add meets a
Wait at zero, and the size of values: a sibling set that outgrows the value limit
makes every later RSET of its key fail. That stores converge under repeated
rounds is not checked as liveness: the state space with fairness is out of TLC's
reach at a size where rounds overlap; `RoundCatchesUp` is its safety half.

What is next:

1. Router composed with Replication (a coordinator outside its replica set, need
   computed from diverging rings) and with Membership.
2. Liveness of reads and of failure detection; convergence of anti-entropy on a
   coarser model.
3. Sibling sets that outgrow the value limit; restarts in Replication.
