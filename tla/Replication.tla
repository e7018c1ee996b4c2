----------------------------- MODULE Replication -----------------------------
(***************************************************************************)
(* Quorum replication of one key: the coordinator's SET, DEL and GET       *)
(* (internal/server/coordinator.go), the RSET and RGET handlers of the     *)
(* replicas (handler.go), the peer client's retry (peer.go), hinted handoff*)
(* (handoff.go) and anti-entropy (antientropy.go).                         *)
(*                                                                         *)
(* The code treats keys independently: every store access is one atomic    *)
(* read-modify-write of one key, and hints are kept per (target, key).     *)
(* Node is the key's replica set.  Coordinator is the set of nodes that    *)
(* take themselves for the key's primary: one when the ring is stable, more*)
(* while ring views differ or after the primary has moved.                 *)
(*                                                                         *)
(* A request whose sender has given up on it may still reach the replica:  *)
(* it then sits in "late".  Nothing here loses stored data; tombstone      *)
(* collection is added by ReplicationCollect.                              *)
(***************************************************************************)
EXTENDS Versions

CONSTANTS Coordinator,  \* nodes whose router answers IsLocal for the key
          R, W,         \* read and write quorum
          Op,           \* client writes and deletes
          Read,         \* client reads
          SyncNode,     \* nodes that run the anti-entropy loop
          MaxTime,      \* bound on the wall clock, in seconds
          None          \* absent hint, version or node

ASSUME ReplicationAssumption ==
  /\ IsFiniteSet(Node) /\ Node # {}
  /\ Coordinator \subseteq Node
  /\ SyncNode \subseteq Node
  /\ R \in Nat \ {0}
  /\ W \in Nat \ {0}
  /\ MaxTime \in Nat
  /\ None \notin Version
  /\ None \notin Node

VARIABLES
  store,    \* store[n]: the sibling set node n holds for the key
  phase,    \* phase[o]: where the client op stands
  coord,    \* coord[o]: the node coordinating op o
  ver,      \* ver[o]: the version op o minted (its fan-out blob)
  fan,      \* fan[o][p]: the RSET call of op o's goroutine for peer p
  before,   \* history: the ops acknowledged when op o started
  late,     \* RSETs given up by their sender and not yet served
  hints,    \* hints[c][p]: the blob node c has parked for p
  replay,   \* replay[c][p]: the replayer's RSET call for p
  blob,     \* blob[c][p]: the hint the replayer took in its snapshot
  rphase, rcoord,  \* the same as phase and coord, for reads
  rget,     \* rget[r][p]: the RGET call of read r for peer p
  got,      \* got[r][p]: the set p answered with
  merged,   \* merged[r]: the sets received so far, reconciled
  repair,   \* repair[r]: responders readRepair still has to push to
  seen,     \* history: the ops acknowledged when read r started
  sync,     \* sync[n]: where node n's anti-entropy round stands
  peer,     \* peer[n]: the peer of that round
  entries,  \* entries[n]: the local tree's content, then the peer's entries
  now       \* wall-clock seconds

opVars   == <<phase, coord, ver, fan, before>>
hintVars == <<hints, replay, blob>>
readVars == <<rphase, rcoord, rget, got, merged, repair, seen>>
syncVars == <<sync, peer, entries>>
vars     == <<store, opVars, late, hintVars, readVars, syncVars, now>>

(* The states of one RSET call of Peer.do: "sent" and "resent" are the     *)
(* first and the second attempt before the replica serves it, "served" and *)
(* "reserved" after that and before the reply is read.                     *)
InFlight  == {"sent", "served", "resent", "reserved"}
CallState == InFlight \cup {"none", "acked", "failed"}
Unserved  == {"sent", "resent"}
Served    == {"served", "reserved"}

serve(s) == IF s = "sent" THEN "served" ELSE "reserved"

peersExcept(c) == Node \ {c}

(* need = min(quorum, len(replicas)) *)
need(quorum) == IF quorum <= Cardinality(Node) THEN quorum ELSE Cardinality(Node)

Request == [to : Node, ver : Version]

TypeOK ==
  /\ store \in [Node -> SUBSET Version]
  /\ phase \in [Op -> {"idle", "wait", "ok", "err"}]
  /\ coord \in [Op -> Coordinator \cup {None}]
  /\ ver \in [Op -> Version \cup {None}]
  /\ fan \in [Op -> [Node -> CallState]]
  /\ before \in [Op -> SUBSET Op]
  /\ late \in SUBSET Request
  /\ hints \in [Node -> [Node -> Version \cup {None}]]
  /\ replay \in [Node -> [Node -> InFlight \cup {"none"}]]
  /\ blob \in [Node -> [Node -> Version \cup {None}]]
  /\ rphase \in [Read -> {"idle", "wait", "ok", "err"}]
  /\ rcoord \in [Read -> Coordinator \cup {None}]
  /\ rget \in [Read -> [Node -> {"none", "sent", "replied", "failed", "used"}]]
  /\ got \in [Read -> [Node -> SUBSET Version]]
  /\ merged \in [Read -> SUBSET Version]
  /\ repair \in [Read -> SUBSET Node]
  /\ seen \in [Read -> SUBSET Op]
  /\ sync \in [Node -> {"idle", "tree", "fetch", "apply"}]
  /\ peer \in [Node -> Node \cup {None}]
  /\ entries \in [Node -> SUBSET Version]
  /\ now \in 0 .. MaxTime

Init ==
  /\ store = [n \in Node |-> {}]
  /\ phase = [o \in Op |-> "idle"]
  /\ coord = [o \in Op |-> None]
  /\ ver = [o \in Op |-> None]
  /\ fan = [o \in Op |-> [p \in Node |-> "none"]]
  /\ before = [o \in Op |-> {}]
  /\ late = {}
  /\ hints = [c \in Node |-> [p \in Node |-> None]]
  /\ replay = [c \in Node |-> [p \in Node |-> "none"]]
  /\ blob = [c \in Node |-> [p \in Node |-> None]]
  /\ rphase = [r \in Read |-> "idle"]
  /\ rcoord = [r \in Read |-> None]
  /\ rget = [r \in Read |-> [p \in Node |-> "none"]]
  /\ got = [r \in Read |-> [p \in Node |-> {}]]
  /\ merged = [r \in Read |-> {}]
  /\ repair = [r \in Read |-> {}]
  /\ seen = [r \in Read |-> {}]
  /\ sync = [n \in Node |-> "idle"]
  /\ peer = [n \in Node |-> None]
  /\ entries = [n \in Node |-> {}]
  /\ now = 0

Acknowledged == {o \in Op : phase[o] = "ok"}

-----------------------------------------------------------------------------
(* Coordinator.write and Coordinator.delete *)

(* The local UpdateReplica mints the clock and reconciles the version in   *)
(* one step; the fan-out goroutines start with their RSETs outstanding.    *)
launch(o, c, v) ==
  /\ store' = [store EXCEPT ![c] = Reconcile(@, v)]
  /\ phase' = [phase EXCEPT ![o] = "wait"]
  /\ coord' = [coord EXCEPT ![o] = c]
  /\ ver' = [ver EXCEPT ![o] = v]
  /\ fan' = [fan EXCEPT ![o] =
               [p \in Node |-> IF p \in peersExcept(c) THEN "sent" ELSE "none"]]
  /\ before' = [before EXCEPT ![o] = Acknowledged]
  /\ UNCHANGED <<late, hintVars, readVars, syncVars, now>>

(* Mutant: the clock is not advanced past the stored frontier. *)
mintNoIncrement(c) == Frontier(store[c])

mint(c) == Increment(Frontier(store[c]), c)

write(o, c, x) ==
  /\ phase[o] = "idle"
  /\ launch(o, c, [value |-> x, clock |-> mint(c),
                   deleted |-> FALSE, deletedAt |-> 0])

(* The deletion time is read before the store's lock is taken. *)
delete(o, c) ==
  /\ phase[o] = "idle"
  /\ \E at \in 0 .. now : launch(o, c, Tombstone(mint(c), at))

(* UpdateReplica refuses the value (size limits): the client gets ERR and  *)
(* nothing is fanned out.                                                  *)
refuse(o) ==
  /\ phase[o] = "idle"
  /\ phase' = [phase EXCEPT ![o] = "err"]
  /\ UNCHANGED <<store, coord, ver, fan, before, late, hintVars, readVars,
                 syncVars, now>>

(* Handler.rset at peer p for op o's request. *)
rset(o, p) ==
  /\ fan[o][p] \in Unserved
  /\ store' = [store EXCEPT ![p] = Reconcile(@, ver[o])]
  /\ fan' = [fan EXCEPT ![o][p] = serve(@)]
  /\ UNCHANGED <<phase, coord, ver, before, late, hintVars, readVars,
                 syncVars, now>>

(* A request that was not served when its sender gave up may be served     *)
(* later.                                                                  *)
abandoned(state, p, v) ==
  IF state \in Unserved THEN late \cup {[to |-> p, ver |-> v]} ELSE late

(* Peer.do: the pooled connection failed, before or after the replica      *)
(* served the request; one retry on a fresh connection.                    *)
redial(o, p) ==
  /\ fan[o][p] \in {"sent", "served"}
  /\ late' = abandoned(fan[o][p], p, ver[o])
  /\ fan' = [fan EXCEPT ![o][p] = "resent"]
  /\ UNCHANGED <<store, phase, coord, ver, before, hintVars, readVars,
                 syncVars, now>>

ack(o, p) ==
  /\ fan[o][p] \in Served
  /\ fan' = [fan EXCEPT ![o][p] = "acked"]
  /\ UNCHANGED <<store, phase, coord, ver, before, late, hintVars, readVars,
                 syncVars, now>>

(* hintStore.add overwrites whatever is parked. *)
add(c, p, v) == [hints EXCEPT ![c][p] = v]

(* Replicate returned an error: the write is parked for the peer.  The     *)
(* goroutine outlives the reply to the client.                             *)
park(o, p) ==
  /\ fan[o][p] \in InFlight
  /\ late' = abandoned(fan[o][p], p, ver[o])
  /\ fan' = [fan EXCEPT ![o][p] = "failed"]
  /\ hints' = add(coord[o], p, ver[o])
  /\ UNCHANGED <<store, phase, coord, ver, before, replay, blob, readVars,
                 syncVars, now>>

(* Mutant: gather counts every finished goroutine, failed ones too. *)
acksCountingFailures(o) ==
  1 + Cardinality({p \in Node : fan[o][p] \in {"acked", "failed"}})

(* The local apply is the first ack. *)
acks(o) == 1 + Cardinality({p \in Node : fan[o][p] = "acked"})

gatherMet(o) ==
  /\ phase[o] = "wait"
  /\ acks(o) >= need(W)
  /\ phase' = [phase EXCEPT ![o] = "ok"]
  /\ UNCHANGED <<store, coord, ver, fan, before, late, hintVars, readVars,
                 syncVars, now>>

(* Mutant: a goroutine whose RSET failed never sends its result. *)
gatherShortUnreported(o) ==
  /\ phase[o] = "wait"
  /\ acks(o) < need(W)
  /\ \A p \in Node : fan[o][p] \notin InFlight \cup {"failed"}
  /\ phase' = [phase EXCEPT ![o] = "err"]
  /\ UNCHANGED <<store, coord, ver, fan, before, late, hintVars, readVars,
                 syncVars, now>>

gatherShort(o) ==
  /\ phase[o] = "wait"
  /\ acks(o) < need(W)
  /\ \A p \in Node : fan[o][p] \notin InFlight
  /\ phase' = [phase EXCEPT ![o] = "err"]
  /\ UNCHANGED <<store, coord, ver, fan, before, late, hintVars, readVars,
                 syncVars, now>>

(* Handler.rset for a request nobody waits for any more, or a read-repair  *)
(* push, whose result is ignored.                                          *)
rsetLate(m) ==
  /\ m \in late
  /\ store' = [store EXCEPT ![m.to] = Reconcile(@, m.ver)]
  /\ late' = late \ {m}
  /\ UNCHANGED <<opVars, hintVars, readVars, syncVars, now>>

-----------------------------------------------------------------------------
(* HintReplayer *)

(* hintStore.snapshot: a copy, so that no lock is held during the calls.   *)
snapshot(c) == hints[c]

(* replayOnce: snapshot, then one goroutine per hint.  The next round      *)
(* starts only after wg.Wait.                                              *)
replayOnce(c) ==
  /\ \A p \in Node : replay[c][p] = "none"
  /\ \E p \in Node : hints[c][p] # None
  /\ blob' = [blob EXCEPT ![c] = snapshot(c)]
  /\ replay' = [replay EXCEPT ![c] =
                  [p \in Node |-> IF snapshot(c)[p] # None THEN "sent" ELSE "none"]]
  /\ UNCHANGED <<store, opVars, late, hints, readVars, syncVars, now>>

rsetReplay(c, p) ==
  /\ replay[c][p] \in Unserved
  /\ store' = [store EXCEPT ![p] = Reconcile(@, blob[c][p])]
  /\ replay' = [replay EXCEPT ![c][p] = serve(@)]
  /\ UNCHANGED <<opVars, late, hints, blob, readVars, syncVars, now>>

redialReplay(c, p) ==
  /\ replay[c][p] \in {"sent", "served"}
  /\ late' = abandoned(replay[c][p], p, blob[c][p])
  /\ replay' = [replay EXCEPT ![c][p] = "resent"]
  /\ UNCHANGED <<store, opVars, hints, blob, readVars, syncVars, now>>

(* Mutant: the hint is dropped whatever is parked now. *)
removeAnyway(c, p, delivered) == [hints EXCEPT ![c][p] = None]

(* Mutant: the comparison with the delivered blob is inverted. *)
removeIfChanged(c, p, delivered) ==
  IF hints[c][p] # delivered THEN [hints EXCEPT ![c][p] = None] ELSE hints

(* hintStore.remove: only if the delivered blob is still the parked one. *)
remove(c, p, delivered) ==
  IF hints[c][p] = delivered THEN [hints EXCEPT ![c][p] = None] ELSE hints

replayed(c, p) ==
  /\ replay[c][p] \in Served
  /\ hints' = remove(c, p, blob[c][p])
  /\ replay' = [replay EXCEPT ![c][p] = "none"]
  /\ blob' = [blob EXCEPT ![c][p] = None]
  /\ UNCHANGED <<store, opVars, late, readVars, syncVars, now>>

replayFailed(c, p) ==
  /\ replay[c][p] \in InFlight
  /\ late' = abandoned(replay[c][p], p, blob[c][p])
  /\ replay' = [replay EXCEPT ![c][p] = "none"]
  /\ blob' = [blob EXCEPT ![c][p] = None]
  /\ UNCHANGED <<store, opVars, hints, readVars, syncVars, now>>

-----------------------------------------------------------------------------
(* Coordinator.read *)

responses(r) == Cardinality({p \in Node : rget[r][p] = "used"})

(* The local set is response number one; peers are asked only when the     *)
(* quorum wants more than that.                                            *)
read(r, c) ==
  /\ rphase[r] = "idle"
  /\ rphase' = [rphase EXCEPT ![r] = "wait"]
  /\ rcoord' = [rcoord EXCEPT ![r] = c]
  /\ rget' = [rget EXCEPT ![r] =
                [p \in Node |-> IF p = c THEN "used"
                                ELSE IF need(R) > 1 THEN "sent" ELSE "none"]]
  /\ got' = [got EXCEPT ![r][c] = store[c]]
  /\ merged' = [merged EXCEPT ![r] = store[c]]
  /\ seen' = [seen EXCEPT ![r] = Acknowledged]
  /\ UNCHANGED <<store, opVars, late, hintVars, repair, syncVars, now>>

(* Handler.get (RGET) at peer p. *)
rgetServed(r, p) ==
  /\ rget[r][p] = "sent"
  /\ rget' = [rget EXCEPT ![r][p] = "replied"]
  /\ got' = [got EXCEPT ![r][p] = store[p]]
  /\ UNCHANGED <<store, opVars, late, hintVars, rphase, rcoord, merged, repair,
                 seen, syncVars, now>>

rgetFailed(r, p) ==
  /\ rget[r][p] \in {"sent", "replied"}
  /\ rget' = [rget EXCEPT ![r][p] = "failed"]
  /\ got' = [got EXCEPT ![r][p] = {}]
  /\ UNCHANGED <<store, opVars, late, hintVars, rphase, rcoord, merged, repair,
                 seen, syncVars, now>>

(* One turn of the collecting loop. *)
receive(r, p) ==
  /\ rphase[r] = "wait"
  /\ rget[r][p] = "replied"
  /\ responses(r) < need(R)
  /\ rget' = [rget EXCEPT ![r][p] = "used"]
  /\ merged' = [merged EXCEPT ![r] = ReconcileAll(@, got[r][p])]
  /\ UNCHANGED <<store, opVars, late, hintVars, rphase, rcoord, got, repair,
                 seen, syncVars, now>>

(* Mutant: one response short of the quorum is enough. *)
quorumReadShort(r) == responses(r) + 1 >= need(R)

quorumRead(r) == responses(r) >= need(R)

(* The reply, and the start of readRepair for the responders that lag.     *)
(* Answers still outstanding go to a buffered channel nobody reads.        *)
readMet(r) ==
  /\ rphase[r] = "wait"
  /\ quorumRead(r)
  /\ rphase' = [rphase EXCEPT ![r] = "ok"]
  /\ repair' = [repair EXCEPT ![r] =
                  {p \in Node : /\ responses(r) > 1
                                /\ rget[r][p] = "used"
                                /\ ~Equal(got[r][p], merged[r])}]
  /\ rget' = [rget EXCEPT ![r] = [p \in Node |-> "none"]]
  /\ got' = [got EXCEPT ![r] = [p \in Node |-> {}]]
  /\ UNCHANGED <<store, opVars, late, hintVars, rcoord, merged, seen, syncVars,
                 now>>

(* Every peer has been heard and the quorum was not met. *)
readShort(r) ==
  /\ rphase[r] = "wait"
  /\ ~quorumRead(r)
  /\ \A p \in Node : rget[r][p] \notin {"sent", "replied"}
  /\ rphase' = [rphase EXCEPT ![r] = "err"]
  /\ UNCHANGED <<store, opVars, late, hintVars, rcoord, rget, got, merged,
                 repair, seen, syncVars, now>>

(* readRepair of the coordinator's own store, one UpdateReplica. *)
repairSelf(r) ==
  /\ rcoord[r] \in repair[r]
  /\ store' = [store EXCEPT ![rcoord[r]] = ReconcileAll(@, merged[r])]
  /\ repair' = [repair EXCEPT ![r] = @ \ {rcoord[r]}]
  /\ UNCHANGED <<opVars, late, hintVars, rphase, rcoord, rget, got, merged,
                 seen, syncVars, now>>

(* readRepair of a peer: one best-effort RSET per version, no hint. *)
repairPeer(r, p) ==
  /\ p \in repair[r] \ {rcoord[r]}
  /\ late' = late \cup {[to |-> p, ver |-> v] : v \in merged[r]}
  /\ repair' = [repair EXCEPT ![r] = @ \ {p}]
  /\ UNCHANGED <<store, opVars, hintVars, rphase, rcoord, rget, got, merged,
                 seen, syncVars, now>>

-----------------------------------------------------------------------------
(* AntiEntropy.syncWith *)

(* The tick picks a peer and hashes the local store. *)
syncStart(n, p) ==
  /\ sync[n] = "idle"
  /\ p # n
  /\ sync' = [sync EXCEPT ![n] = "tree"]
  /\ peer' = [peer EXCEPT ![n] = p]
  /\ entries' = [entries EXCEPT ![n] = store[n]]
  /\ UNCHANGED <<store, opVars, late, hintVars, readVars, now>>

(* RTREE at the peer, and the Diff: no difference ends the round. *)
syncTree(n, p) ==
  /\ sync[n] = "tree"
  /\ peer[n] = p
  /\ \/ /\ store[p] = entries[n]
        /\ sync' = [sync EXCEPT ![n] = "idle"]
        /\ peer' = [peer EXCEPT ![n] = None]
     \/ /\ store[p] # entries[n] \/ manyEncodings(store[p])
        /\ sync' = [sync EXCEPT ![n] = "fetch"]
        /\ peer' = peer
  /\ entries' = [entries EXCEPT ![n] = {}]
  /\ UNCHANGED <<store, opVars, late, hintVars, readVars, now>>

(* RBUCKET at the peer. *)
syncFetch(n, p) ==
  /\ sync[n] = "fetch"
  /\ peer[n] = p
  /\ sync' = [sync EXCEPT ![n] = "apply"]
  /\ entries' = [entries EXCEPT ![n] = store[p]]
  /\ UNCHANGED <<store, opVars, late, hintVars, readVars, peer, now>>

(* Mutant: the fetched entry replaces the local one. *)
syncApplyOverwrite(n) ==
  /\ sync[n] = "apply"
  /\ store' = [store EXCEPT ![n] = entries[n]]
  /\ sync' = [sync EXCEPT ![n] = "idle"]
  /\ peer' = [peer EXCEPT ![n] = None]
  /\ entries' = [entries EXCEPT ![n] = {}]
  /\ UNCHANGED <<opVars, late, hintVars, readVars, now>>

(* The fetched versions are folded into the store as it is now. *)
syncApply(n) ==
  /\ sync[n] = "apply"
  /\ store' = [store EXCEPT ![n] = ReconcileAll(@, entries[n])]
  /\ sync' = [sync EXCEPT ![n] = "idle"]
  /\ peer' = [peer EXCEPT ![n] = None]
  /\ entries' = [entries EXCEPT ![n] = {}]
  /\ UNCHANGED <<opVars, late, hintVars, readVars, now>>

(* A peer error, or a set the store refuses, ends the round. *)
syncFailed(n) ==
  /\ sync[n] # "idle"
  /\ sync' = [sync EXCEPT ![n] = "idle"]
  /\ peer' = [peer EXCEPT ![n] = None]
  /\ entries' = [entries EXCEPT ![n] = {}]
  /\ UNCHANGED <<store, opVars, late, hintVars, readVars, now>>

-----------------------------------------------------------------------------
Tick ==
  /\ now < MaxTime
  /\ now' = now + 1
  /\ UNCHANGED <<store, opVars, late, hintVars, readVars, syncVars>>

OpStep(o) ==
  \/ \E c \in Coordinator, x \in Value : write(o, c, x)
  \/ \E c \in Coordinator : delete(o, c)
  \/ refuse(o)
  \/ \E p \in Node : rset(o, p) \/ redial(o, p) \/ ack(o, p) \/ park(o, p)
  \/ gatherMet(o)
  \/ gatherShort(o)

HandoffStep(c) ==
  \/ replayOnce(c)
  \/ \E p \in Node : \/ rsetReplay(c, p)
                     \/ redialReplay(c, p)
                     \/ replayed(c, p)
                     \/ replayFailed(c, p)

ReadStep(r) ==
  \/ \E c \in Coordinator : read(r, c)
  \/ \E p \in Node : \/ rgetServed(r, p)
                     \/ rgetFailed(r, p)
                     \/ receive(r, p)
                     \/ repairPeer(r, p)
  \/ readMet(r)
  \/ readShort(r)
  \/ repairSelf(r)

SyncStep(n) ==
  \/ \E p \in Node : syncStart(n, p) \/ syncTree(n, p) \/ syncFetch(n, p)
  \/ syncApply(n)
  \/ syncFailed(n)

Next ==
  \/ \E o \in Op : OpStep(o)
  \/ \E m \in late : rsetLate(m)
  \/ \E c \in Coordinator : HandoffStep(c)
  \/ \E r \in Read : ReadStep(r)
  \/ \E n \in SyncNode : SyncStep(n)
  \/ Tick

Spec == Init /\ [][Next]_vars

(* Every peer call has a deadline, so a goroutine that waits on one gets a *)
(* reply or an error; the collecting loop of gather runs on its own.       *)
CallFairness ==
  \A o \in Op :
    /\ \A p \in Node : WF_vars(ack(o, p) \/ park(o, p))
    /\ WF_vars(gatherMet(o) \/ gatherShort(o))

(* The replayer ticks for ever, and no target is unreachable for ever: a   *)
(* delivery tried again and again succeeds again and again.                *)
HandoffFairness ==
  \A c \in Coordinator :
    /\ WF_vars(replayOnce(c))
    /\ \A p \in Node : /\ WF_vars(replayed(c, p) \/ replayFailed(c, p))
                      /\ SF_vars(rsetReplay(c, p))
                      /\ SF_vars(replayed(c, p))

FairSpec == Spec /\ CallFairness /\ HandoffFairness

-----------------------------------------------------------------------------
(* Properties *)

(* Every stored blob is a set of pairwise concurrent versions: whatever    *)
(* order RSETs, replays, repairs and syncs arrive in, a replica never keeps*)
(* a version next to one that supersedes it (version.Reconcile).           *)
StoresAreSiblings == \A n \in Node : Siblings(store[n])

(* No two client writes ever carry the same clock.  Reconcile drops an     *)
(* incoming version whose clock equals a stored one, so two writes with one*)
(* clock would lose one of them; the code relies on the coordinator's own  *)
(* store to keep its counter fresh (Coordinator.write).                    *)
DistinctClocks ==
  \A o, q \in Op :
    (o # q /\ ver[o] # None /\ ver[q] # None) => ver[o].clock # ver[q].clock

(* A write answered +OK is held, itself or by a version that descends it,  *)
(* by at least need(W) replicas, then and ever after (gather).             *)
AckedWriteIsDurable ==
  \A o \in Op : phase[o] = "ok" =>
    Cardinality({p \in Node : Covers(store[p], ver[o])}) >= need(W)

(* No step makes a replica forget: what it holds is replaced only by a     *)
(* version that descends it.  Concurrent writes become siblings and are    *)
(* never silently lost.                                                    *)
NothingForgotten ==
  [][\A n \in Node : \A v \in store[n] : Covers(store'[n], v)]_vars

(* A parked hint disappears only when its target holds the hinted write:   *)
(* a hint parked between the replayer's snapshot and its remove survives.  *)
HintsOutliveDelivery ==
  [][\A c, p \in Node :
       (hints[c][p] # None /\ hints'[c][p] = None)
         => Covers(store'[p], hints[c][p])]_vars

(* With R + W > N a read that meets its quorum takes into account every    *)
(* write acknowledged before it started, at whichever node either of them  *)
(* was coordinated (Coordinator.read).                                     *)
ReadCoversAckedWrites ==
  R + W > Cardinality(Node) =>
    \A r \in Read : rphase[r] = "ok" =>
      \A o \in seen[r] : Covers(merged[r], ver[o])

(* o is the last write: every other one was acknowledged before o began.   *)
Latest(o) == \A q \in Op \ {o} : ver[q] # None => q \in before[o]

(* The node that coordinates the delete o coordinated every write. *)
SoleWriter(o) == \A q \in Op : ver[q] # None => coord[q] = coord[o]

(* With R + W > N a read that starts after the last write was acknowledged *)
(* sees that write, at whichever node it is read: a set key's read includes*)
(* the value, and a key deleted by the node that wrote it reads as a miss. *)
(* With a single coordinator that is read-your-writes; next to concurrent  *)
(* writes of others, a GET answers with one of the siblings.               *)
ReadsLatestAckedWrite ==
  R + W > Cardinality(Node) =>
    \A r \in Read : rphase[r] = "ok" =>
      \A o \in seen[r] : Latest(o) =>
        IF ver[o].deleted
        THEN SoleWriter(o) => Live(merged[r]) = {}
        ELSE ver[o] \in merged[r]

(* A write that could not be delivered to a peer is held there after all,  *)
(* or a hint that covers it is parked for that peer (hintStore).           *)
FailedWriteIsParked ==
  \A o \in Op, p \in Node : fan[o][p] = "failed" =>
    \/ Covers(store[p], ver[o])
    \/ /\ hints[coord[o]][p] # None
       /\ Leq(ver[o].clock, hints[coord[o]][p].clock)

(* Every SET and DEL is answered, with +OK or with a quorum error, however *)
(* many peers are unreachable (gather takes one result per peer).          *)
WritesAreAnswered ==
  \A o \in Op : phase[o] = "wait" ~> phase[o] \in {"ok", "err"}

(* The handoff backlog drains: every parked hint is eventually delivered   *)
(* or superseded by one that is (HintReplayer).                            *)
HintsDrain ==
  \A c, p \in Node : hints[c][p] # None ~> hints[c][p] = None
=============================================================================
