----------------------------- MODULE AntiEntropy -----------------------------
(***************************************************************************)
(* Anti-entropy over several keys (internal/server/antientropy.go, with the*)
(* RTREE and RBUCKET verbs of handler.go) next to client writes, RSETs, the*)
(* tombstone collector (tombstonegc.go) and restarts.                      *)
(*                                                                         *)
(* Range visits one shard after the other and locks only the one it is in, *)
(* so a key is the number of its shard: one key per shard is the finest    *)
(* interleaving.  A stored blob is an encoded sibling set; sets that have  *)
(* several encodings get one of two.                                       *)
(***************************************************************************)
EXTENDS Versions, Merkle

CONSTANTS Key,           \* keys, in the order of their shards
          leaves,        \* Merkle leaf count of the cluster
          SyncNode,      \* nodes that run the anti-entropy loop
          CollectNode,   \* nodes that run the tombstone collector
          Grace,         \* tombstone grace period, in seconds
          MaxWrites,     \* bound on client writes and deletes
          RestartNode,   \* nodes that may restart
          MaxRestarts,   \* bound on restarts
          MaxTime,       \* bound on the wall clock, in seconds
          None           \* no entry

Blob == [versions : SUBSET Version, encoding : {1, 2}]

ASSUME AntiEntropyAssumption ==
  /\ IsFiniteSet(Node)
  /\ Key \in SUBSET Nat /\ Key # {} /\ IsFiniteSet(Key)
  /\ keyHash \in [Key -> Nat]
  /\ leaves \in Nat
  /\ SyncNode \subseteq Node /\ CollectNode \subseteq Node
  /\ RestartNode \subseteq Node
  /\ Grace \in Nat
  /\ None \notin Blob /\ None \notin Nat /\ None \notin Node

VARIABLES
  store,    \* store[n][k]: the blob n holds for k
  rsets,    \* RSETs that will reach their replica
  round,    \* round[n]: the state of n's syncWith
  sweep,    \* sweep[n]: the state of n's sweep
  writes, restarts, now

vars == <<store, rsets, round, sweep, writes, restarts, now>>

(* A round is idle or at "local", "rtree", "diff", "rbucket" or "apply".   *)
(* "left" is what the current loop has still to visit; "local" and "remote"*)
(* are what the two trees were built from; "diffs" are the buckets that    *)
(* differ and "entries" what the peer sent of them; "lost", a history, has *)
(* the keys that went away at either node during the round.                *)
noEntries == [k \in Key |-> None]

idleRound == [at |-> "idle", peer |-> None, left |-> {}, local |-> noEntries,
              remote |-> noEntries, diffs |-> {}, entries |-> noEntries,
              lost |-> {}]

idleSweep == [at |-> None, left |-> {}, expired |-> {}]

Init ==
  /\ store = [n \in Node |-> noEntries]
  /\ rsets = {}
  /\ round = [n \in Node |-> idleRound]
  /\ sweep = [n \in Node |-> idleSweep]
  /\ writes = 0 /\ restarts = 0 /\ now = 0

(* Decode of what is stored; nothing is the empty set. *)
stored(n, k) == IF store[n][k] = None THEN {} ELSE store[n][k].versions

Encode(S) ==
  {[versions |-> S, encoding |-> e] : e \in IF manyEncodings(S) THEN {1, 2} ELSE {1}}

UpdateReplica(n, k, S) ==
  \E b \in Encode(S) : store' = [store EXCEPT ![n][k] = b]

-----------------------------------------------------------------------------
(* Clients *)

(* The coordinator stores a version and replicates it; some of the peers   *)
(* are never reached, and the hints for them are lost in a crash.          *)
put(n, k, v) ==
  /\ writes < MaxWrites
  /\ writes' = writes + 1
  /\ UpdateReplica(n, k, Reconcile(stored(n, k), v))
  /\ \E P \in SUBSET (Node \ {n}) :
       rsets' = rsets \cup {[to |-> p, key |-> k, ver |-> v] : p \in P}
  /\ UNCHANGED <<round, sweep, restarts, now>>

mint(n, k) == Increment(Frontier(stored(n, k)), n)

write(n, k, x) ==
  put(n, k, [value |-> x, clock |-> mint(n, k), deleted |-> FALSE, deletedAt |-> 0])

(* The deletion time is read before the store's lock is taken. *)
delete(n, k) == \E at \in 0 .. now : put(n, k, Tombstone(mint(n, k), at))

rset(m) ==
  /\ m \in rsets
  /\ rsets' = rsets \ {m}
  /\ UpdateReplica(m.to, m.key, Reconcile(stored(m.to, m.key), m.ver))
  /\ UNCHANGED <<round, sweep, writes, restarts, now>>

-----------------------------------------------------------------------------
(* syncWith *)

goto(n, r) == round' = [round EXCEPT ![n] = r]

(* The tick picks a peer. *)
syncStart(n, p) ==
  /\ round[n].at = "idle"
  /\ p # n
  /\ goto(n, [idleRound EXCEPT !.at = "local", !.peer = p, !.left = Key])
  /\ UNCHANGED <<store, rsets, sweep, writes, restarts, now>>

(* Range over the local store: one shard. *)
rangeLocal(n) ==
  /\ round[n].at = "local"
  /\ LET k    == Min(round[n].left)
         rest == round[n].left \ {k}
     IN  goto(n, [round[n] EXCEPT !.local[k] = store[n][k],
                                  !.at = IF rest = {} THEN "rtree" ELSE @,
                                  !.left = IF rest = {} THEN Key ELSE rest])
  /\ UNCHANGED <<store, rsets, sweep, writes, restarts, now>>

(* RTREE at the peer: one shard of its Range. *)
rtree(n) ==
  /\ round[n].at = "rtree"
  /\ LET k    == Min(round[n].left)
         rest == round[n].left \ {k}
     IN  goto(n, [round[n] EXCEPT !.remote[k] = store[round[n].peer][k],
                                  !.at = IF rest = {} THEN "diff" ELSE @,
                                  !.left = rest])
  /\ UNCHANGED <<store, rsets, sweep, writes, restarts, now>>

(* The tree of what a Range visited; Add commutes. *)
treeOf(m) ==
  FoldSet(LAMBDA k, t : Add(t, k, m[k]), New(leaves), {k \in Key : m[k] # None})

(* Equal trees end the round; otherwise the peer is asked for the buckets. *)
diff(n) ==
  /\ round[n].at = "diff"
  /\ LET D == Diff(treeOf(round[n].local), treeOf(round[n].remote))
     IN  goto(n, [round[n] EXCEPT !.diffs = D, !.local = noEntries,
                                  !.at = IF D = {} THEN "apply" ELSE "rbucket",
                                  !.left = IF D = {} THEN {} ELSE Key])
  /\ UNCHANGED <<store, rsets, sweep, writes, restarts, now>>

(* Mutant: the wanted bucket is looked up in a tree of another size. *)
wantedUnrounded(n, k) == keyHash[k] % leaves \in round[n].diffs

wanted(n, k) == Bucket(New(leaves), k) \in round[n].diffs

(* RBUCKET at the peer: one shard of its Range. *)
rbucket(n) ==
  /\ round[n].at = "rbucket"
  /\ LET k    == Min(round[n].left)
         rest == round[n].left \ {k}
         new  == [round[n].entries EXCEPT ![k] =
                    IF wanted(n, k) THEN store[round[n].peer][k] ELSE None]
     IN  goto(n, [round[n] EXCEPT !.entries = new,
                    !.at = IF rest = {} THEN "apply" ELSE @,
                    !.diffs = IF rest = {} THEN {} ELSE @,
                    !.left = IF rest = {} THEN {j \in Key : new[j] # None} ELSE rest])
  /\ UNCHANGED <<store, rsets, sweep, writes, restarts, now>>

(* One fetched entry is folded into what is stored by now. *)
apply(n, k) ==
  /\ round[n].at = "apply"
  /\ k \in round[n].left
  /\ UpdateReplica(n, k, ReconcileAll(stored(n, k), round[n].entries[k].versions))
  /\ goto(n, [round[n] EXCEPT !.left = @ \ {k}, !.entries[k] = None])
  /\ UNCHANGED <<rsets, sweep, writes, restarts, now>>

syncEnd(n) ==
  /\ round[n].at = "apply"
  /\ round[n].left = {}
  /\ goto(n, idleRound)
  /\ UNCHANGED <<store, rsets, sweep, writes, restarts, now>>

(* A peer error ends the round. *)
syncFailed(n) ==
  /\ round[n].at \in {"rtree", "rbucket"}
  /\ goto(n, idleRound)
  /\ UNCHANGED <<store, rsets, sweep, writes, restarts, now>>

-----------------------------------------------------------------------------
(* TombstoneGC.sweep *)

(* Rounds in progress at n or with n take note of what n loses. *)
noteLoss(n, keys) ==
  [m \in Node |-> IF m = n \/ round[m].peer = n
                  THEN [round[m] EXCEPT !.lost = IF round[m].at = "idle"
                                                 THEN {} ELSE @ \cup keys]
                  ELSE round[m]]

(* Nothing left to visit and nothing listed: the sweep is over. *)
swept(s) == IF s.left = {} /\ s.expired = {} THEN idleSweep ELSE s

sweepStart(n) ==
  /\ sweep[n] = idleSweep
  /\ sweep' = [sweep EXCEPT ![n] = [at |-> now, left |-> Key, expired |-> {}]]
  /\ UNCHANGED <<store, rsets, round, writes, restarts, now>>

(* Range: one shard. *)
sweepScan(n) ==
  /\ sweep[n].left # {}
  /\ LET k   == Min(sweep[n].left)
         hit == reapable(stored(n, k), sweep[n].at, Grace)
     IN  sweep' = [sweep EXCEPT ![n] =
                     swept([sweep[n] EXCEPT !.left = @ \ {k},
                                            !.expired = IF hit THEN @ \cup {k} ELSE @])]
  /\ UNCHANGED <<store, rsets, round, writes, restarts, now>>

(* Mutant: the listed key is deleted without looking again. *)
sweepReapUnchecked(n) ==
  /\ sweep[n].left = {} /\ sweep[n].expired # {}
  /\ LET k == Min(sweep[n].expired)
     IN  /\ store' = [store EXCEPT ![n][k] = None]
         /\ round' = noteLoss(n, {k})
         /\ sweep' = [sweep EXCEPT ![n] = swept([sweep[n] EXCEPT !.expired = @ \ {k}])]
  /\ UNCHANGED <<rsets, writes, restarts, now>>

(* DeleteIf of the next listed key. *)
sweepReap(n) ==
  /\ sweep[n].left = {} /\ sweep[n].expired # {}
  /\ LET k == Min(sweep[n].expired)
     IN  /\ IF reapable(stored(n, k), sweep[n].at, Grace)
            THEN /\ store' = [store EXCEPT ![n][k] = None]
                 /\ round' = noteLoss(n, {k})
            ELSE UNCHANGED <<store, round>>
         /\ sweep' = [sweep EXCEPT ![n] = swept([sweep[n] EXCEPT !.expired = @ \ {k}])]
  /\ UNCHANGED <<rsets, writes, restarts, now>>

-----------------------------------------------------------------------------
(* The process dies and comes back empty; requests to it are gone, rounds  *)
(* with it go on with the new process or fail.                             *)
restart(n) ==
  /\ restarts < MaxRestarts
  /\ restarts' = restarts + 1
  /\ store' = [store EXCEPT ![n] = noEntries]
  /\ rsets' = {m \in rsets : m.to # n}
  /\ round' = [noteLoss(n, Key) EXCEPT ![n] = idleRound]
  /\ sweep' = [sweep EXCEPT ![n] = idleSweep]
  /\ UNCHANGED <<writes, now>>

Tick ==
  /\ now < MaxTime
  /\ now' = now + 1
  /\ UNCHANGED <<store, rsets, round, sweep, writes, restarts>>

SyncStep(n) ==
  \/ \E p \in Node : syncStart(n, p)
  \/ rangeLocal(n) \/ rtree(n) \/ diff(n) \/ rbucket(n)
  \/ \E k \in Key : apply(n, k)
  \/ syncEnd(n)

Next ==
  \/ \E n \in Node, k \in Key : delete(n, k) \/ \E x \in Value : write(n, k, x)
  \/ \E m \in rsets : rset(m)
  \/ \E n \in SyncNode : SyncStep(n) \/ syncFailed(n)
  \/ \E n \in CollectNode : sweepStart(n) \/ sweepScan(n) \/ sweepReap(n)
  \/ \E n \in RestartNode : restart(n)
  \/ Tick

Spec == Init /\ [][Next]_vars

-----------------------------------------------------------------------------
(* Properties *)

(* Diff names exactly the buckets in which some key's bytes differ between *)
(* what the two Ranges visited, wherever the keys fall in the tree: a nil  *)
(* leaf hashed next to its sibling hides nothing (Add, Root, collect).     *)
DiffIsExact ==
  \A n \in Node : round[n].at = "diff" =>
    LET r == round[n]
    IN  Diff(treeOf(r.local), treeOf(r.remote))
          = {Bucket(New(leaves), k) : k \in {j \in Key : r.local[j] # r.remote[j]}}

(* A round that runs to its end has caught up with its peer: for every key,*)
(* the node covers what the peer's tree was built from, though both stores *)
(* changed between the two Ranges, the Diff, RBUCKET and the updates;      *)
(* unless the key was collected or lost at one of the two meanwhile        *)
(* (syncWith).                                                             *)
RoundCatchesUp ==
  \A n \in Node :
    (round[n].at = "apply" /\ round[n].left = {}) =>
      \A k \in Key \ round[n].lost :
        round[n].remote[k] # None =>
          \A v \in round[n].remote[k].versions : Covers(stored(n, k), v)

(* The collector never races a write: short of a restart, a node stops     *)
(* covering a version only when all it held for the key were tombstones as *)
(* old as the grace period, in whole seconds (sweep and DeleteIf).         *)
OnlyAgedTombstonesReaped ==
  [][\A n \in Node, k \in Key :
       (restarts' = restarts /\ \E v \in stored(n, k) : ~Covers(stored(n, k)', v))
         => /\ Live(stored(n, k)) = {}
            /\ \A v \in stored(n, k) : now - v.deletedAt >= Grace]_vars
=============================================================================
