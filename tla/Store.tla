-------------------------------- MODULE Store --------------------------------
(***************************************************************************)
(* The sharded store (internal/store): map_store.go, sharded_store.go,     *)
(* policy.go and janitor.go.                                               *)
(*                                                                         *)
(* A shard's lock makes every write one step.  Readers share the lock, so  *)
(* Gets of one shard overlap: the LRU stamp of a Get is taken in one step  *)
(* and stored in another, with no write of that shard in between.  A value *)
(* is the set of writes it was made of: Set stores one, the function given *)
(* to UpdateReplica adds one to what it is handed.  TinyLFU's estimates    *)
(* (module Sketch) are free choices.                                       *)
(***************************************************************************)
EXTENDS Naturals, FiniteSets

CONSTANTS Key, Write, Reader,
          Shards,           \* number of shards
          shardFor,         \* shardFor[k]: the shard of k
          Policies,         \* the policies to consider
          MaxEntries,       \* per-shard cap; 0 is unbounded
          MaxValueSize,
          SampleSize,       \* evictionSampleSize
          lfuBaseCount,
          TTL,              \* the times to live asked for
          MaxTime, MaxStamp,  \* bounds on the time and on hints
          None

ASSUME StoreAssumption ==
  /\ IsFiniteSet(Key)
  /\ Shards \in Nat \ {0}
  /\ shardFor \in [Key -> 1 .. Shards]
  /\ Policies \subseteq {"none", "lru", "lfu", "tinylfu"}
  /\ MaxEntries \in Nat
  /\ MaxValueSize \in Nat
  /\ SampleSize \in Nat \ {0}
  /\ lfuBaseCount \in Nat
  /\ TTL \subseteq Nat \ {0}
  /\ MaxTime \in Nat /\ MaxStamp \in Nat

Entry == [value : SUBSET Write, expiresAt : Nat, hint : Nat]

ASSUME NoEntryAssumption == None \notin Entry /\ \A S \in SUBSET Write : None # S

VARIABLES
  policy,   \* the eviction policy, fixed at construction
  data,     \* data[k]: the entry of k
  clock,    \* clock[s]: the LRU clock of a shard
  reading,  \* reading[g]: the Get in progress of a reader, under the read lock
  now,
  sweep     \* the janitor's pass: its time and the next shard, or None

vars == <<policy, data, clock, reading, now, sweep>>

TypeOK ==
  /\ policy \in Policies
  /\ data \in [Key -> Entry \cup {None}]
  /\ clock \in [1 .. Shards -> Nat]
  /\ reading \in [Reader -> [key : Key, stamp : Nat] \cup {None}]
  /\ now \in Nat
  /\ sweep \in [at : Nat, shard : 1 .. Shards] \cup {None}

Init ==
  /\ policy \in Policies
  /\ data = [k \in Key |-> None]
  /\ clock = [s \in 1 .. Shards |-> 0]
  /\ reading = [g \in Reader |-> None]
  /\ now = 1
  /\ sweep = None

-----------------------------------------------------------------------------

expired(e, t) == e.expiresAt # 0 /\ t > e.expiresAt

(* What Get finds. *)
Found(k) == data[k] # None /\ ~expired(data[k], now)

(* The write lock of k's shard is free of readers. *)
Lock(k) == \A g \in Reader : reading[g] # None => shardFor[reading[g].key] # shardFor[k]

Size(map, s) == Cardinality({k \in Key : shardFor[k] = s /\ map[k] # None})

(* The hint after recordAccess or recordInsert, the n-th of this step.     *)
accessHint(k, n) ==
  CASE policy = "lru" -> clock[shardFor[k]] + n
    [] policy = "lfu" -> data[k].hint + 1
    [] OTHER -> 0

insertHint(k, n) ==
  CASE policy = "lru" -> clock[shardFor[k]] + n
    [] policy = "lfu" -> lfuBaseCount
    [] OTHER -> 0

advance(k, n) == clock' = [clock EXCEPT ![shardFor[k]] = IF policy = "lru" THEN @ + n ELSE @]

(* The entries a random sample of the shard may single out.                *)
sampleVictim(map, newKey) ==
  LET incumbents == {k \in Key \ {newKey} : /\ shardFor[k] = shardFor[newKey]
                                            /\ map[k] # None}
      least(k, S) == policy = "tinylfu" \/ \A l \in S : map[k].hint <= map[l].hint
  IN  {k \in incumbents :
         \E S \in SUBSET incumbents :
           /\ k \in S
           /\ \/ Cardinality(S) = SampleSize
              \/ Cardinality(S) < SampleSize /\ S = incumbents
           /\ least(k, S)}

(* admit: TinyLFU may refuse, the others never do. *)
admit(bypassAdmission) ==
  IF bypassAdmission \/ policy # "tinylfu" THEN {TRUE} ELSE BOOLEAN

(* Mutant: the cap is noticed one entry late. *)
evictIfNeededLate(map, newKey, bypassAdmission) ==
  IF MaxEntries = 0 \/ Size(map, shardFor[newKey]) <= MaxEntries + 1
  THEN {map}
  ELSE {[map EXCEPT ![IF admitted THEN k ELSE newKey] = None] :
          k \in sampleVictim(map, newKey), admitted \in admit(bypassAdmission)}

(* What may be left of map, to which newKey was just added.                *)
evictIfNeeded(map, newKey, bypassAdmission) ==
  IF MaxEntries = 0 \/ Size(map, shardFor[newKey]) <= MaxEntries
  THEN {map}
  ELSE {[map EXCEPT ![IF admitted THEN k ELSE newKey] = None] :
          k \in sampleVictim(map, newKey), admitted \in admit(bypassAdmission)}

(* The maps a set may leave behind; touches counts the stamps taken before *)
(* the one of this insert.                                                 *)
outcomes(k, value, expiresAt, touches, bypassAdmission) ==
  LET e   == [value |-> value, expiresAt |-> expiresAt,
              hint |-> insertHint(k, touches + 1)]
      map == [data EXCEPT ![k] = e]
  IN  IF policy = "none" \/ data[k] # None THEN {map}
      ELSE evictIfNeeded(map, k, bypassAdmission)

(* Under the write lock, the limits are checked and one of them is left. *)
leave(k, value, touches, maps) ==
  /\ Lock(k)
  /\ Cardinality(value) <= MaxValueSize
  /\ clock[shardFor[k]] + touches < MaxStamp
  /\ data' \in maps
  /\ advance(k, touches + 1)
  /\ UNCHANGED <<policy, reading, now, sweep>>

set(k, value, expiresAt, touches, bypassAdmission) ==
  leave(k, value, touches, outcomes(k, value, expiresAt, touches, bypassAdmission))

Set(k, w) == set(k, {w}, 0, 0, FALSE)

SetWithTTL(k, w, ttl) == set(k, {w}, now + ttl, 0, FALSE)

(* Mutant: the old value is taken from the map, expired or not. *)
UpdateReplicaRaw(k, w) ==
  set(k, (IF data[k] # None THEN data[k].value ELSE {}) \cup {w}, 0,
      IF data[k] # None THEN 1 ELSE 0, TRUE)

(* What the caller's function makes of what Get finds, and Get's stamp.    *)
fn(k, w) == (IF Found(k) THEN data[k].value ELSE {}) \cup {w}

stamps(k) == IF Found(k) THEN 1 ELSE 0

(* Mutant: a replica's write is subject to the admission filter. *)
replicaOutcomesFiltered(k, w) == outcomes(k, fn(k, w), 0, stamps(k), FALSE)

(* The set of UpdateReplica bypasses admission. *)
replicaOutcomes(k, w) == outcomes(k, fn(k, w), 0, stamps(k), TRUE)

(* Get, the caller's function, set: one step under the write lock.         *)
UpdateReplica(k, w) == leave(k, fn(k, w), stamps(k), replicaOutcomes(k, w))

(* A Get that finds something, up to the store of an LRU stamp.            *)
Get(g, k) ==
  /\ reading[g] = None
  /\ Found(k)
  /\ policy \in {"lru", "lfu"}
  /\ accessHint(k, 1) <= MaxStamp
  /\ advance(k, 1)
  /\ IF policy = "lru"
     THEN /\ reading' = [reading EXCEPT ![g] = [key |-> k, stamp |-> accessHint(k, 1)]]
          /\ UNCHANGED data
     ELSE /\ data' = [data EXCEPT ![k].hint = accessHint(k, 1)]
          /\ UNCHANGED reading
  /\ UNCHANGED <<policy, now, sweep>>

(* lru.recordAccess stores the stamp; Get returns. *)
recordAccess(g) ==
  /\ reading[g] # None
  /\ data' = [data EXCEPT ![reading[g].key].hint = reading[g].stamp]
  /\ reading' = [reading EXCEPT ![g] = None]
  /\ UNCHANGED <<policy, clock, now, sweep>>

Delete(k) ==
  /\ Lock(k)
  /\ data' = [data EXCEPT ![k] = None]
  /\ UNCHANGED <<policy, clock, reading, now, sweep>>

(* The predicate holds of the value and the key goes, or its Get counts.   *)
DeleteIf(k) ==
  /\ Lock(k)
  /\ Found(k)
  /\ accessHint(k, 1) <= MaxStamp
  /\ advance(k, 1)
  /\ data' \in {[data EXCEPT ![k] = None], [data EXCEPT ![k].hint = accessHint(k, 1)]}
  /\ UNCHANGED <<policy, reading, now, sweep>>

-----------------------------------------------------------------------------
(* The janitor reads the time once and takes the shards' locks in turn.    *)

reapStart ==
  /\ sweep = None
  /\ sweep' = [at |-> now, shard |-> 1]
  /\ UNCHANGED <<policy, data, clock, reading, now>>

(* Mutant: an entry with a TTL is taken for expired. *)
reapExpiredAny ==
  /\ sweep # None
  /\ \A g \in Reader : reading[g] # None => shardFor[reading[g].key] # sweep.shard
  /\ data' = [k \in Key |->
                IF /\ shardFor[k] = sweep.shard
                   /\ data[k] # None
                   /\ data[k].expiresAt # 0
                THEN None ELSE data[k]]
  /\ sweep' = IF sweep.shard = Shards THEN None ELSE [sweep EXCEPT !.shard = @ + 1]
  /\ UNCHANGED <<policy, clock, reading, now>>

(* Mutant: the pass runs one shard too far. *)
reapExpiredPast ==
  /\ sweep # None
  /\ data' = [k \in Key |->
                IF /\ shardFor[k] = sweep.shard
                   /\ data[k] # None
                   /\ expired(data[k], sweep.at)
                THEN None ELSE data[k]]
  /\ sweep' = IF sweep.shard > Shards THEN None ELSE [sweep EXCEPT !.shard = @ + 1]
  /\ UNCHANGED <<policy, clock, reading, now>>

reapExpired ==
  /\ sweep # None
  /\ \A g \in Reader : reading[g] # None => shardFor[reading[g].key] # sweep.shard
  /\ data' = [k \in Key |->
                IF /\ shardFor[k] = sweep.shard
                   /\ data[k] # None
                   /\ expired(data[k], sweep.at)
                THEN None ELSE data[k]]
  /\ sweep' = IF sweep.shard = Shards THEN None ELSE [sweep EXCEPT !.shard = @ + 1]
  /\ UNCHANGED <<policy, clock, reading, now>>

Tick ==
  /\ now < MaxTime
  /\ now' = now + 1
  /\ UNCHANGED <<policy, data, clock, reading, sweep>>

Next ==
  \/ \E k \in Key, w \in Write :
       \/ Set(k, w)
       \/ UpdateReplica(k, w)
       \/ \E ttl \in TTL : SetWithTTL(k, w, ttl)
  \/ \E k \in Key : Delete(k) \/ DeleteIf(k)
  \/ \E g \in Reader : recordAccess(g) \/ \E k \in Key : Get(g, k)
  \/ reapStart
  \/ reapExpired
  \/ Tick

Spec == Init /\ [][Next]_vars

-----------------------------------------------------------------------------
(* Properties *)

(* A shard with an eviction policy never holds more than its cap, whatever *)
(* mix of sets, replica writes and passes of the janitor (evictIfNeeded).  *)
CapHolds ==
  policy # "none" /\ MaxEntries # 0 =>
    \A s \in 1 .. Shards : Size(data, s) <= MaxEntries

(* The store implements the abstract cache: a Get shows the latest write,  *)
(* extended by the replica writes since, or nothing; what expired or was   *)
(* deleted does not come back, not even through UpdateReplica.             *)
Abstract == INSTANCE Cache
  WITH view <- [k \in Key |-> IF Found(k) THEN data[k].value ELSE None]

RefinesCache == Abstract!Spec

(* A replica's write is never the one a full store drops: whatever is     *)
(* evicted for it, the key shows it afterwards (UpdateReplica bypasses     *)
(* admission).  A refused write would change nothing, so this is about     *)
(* what UpdateReplica may leave behind in a state and not about its steps. *)
(* There is always something: sampleVictim comes back empty-handed from no *)
(* shard over its cap.                                                     *)
ReplicaWriteIsKept ==
  \A k \in Key, w \in Write :
    /\ replicaOutcomes(k, w) # {}
    /\ \A map \in replicaOutcomes(k, w) :
         /\ map[k] # None
         /\ ~expired(map[k], now)
         /\ w \in map[k].value

(* A key that showed a value stops showing it only because its time came,  *)
(* it was deleted, or a new key needed its place in a full shard.  So the  *)
(* janitor, whose time is older than its locks, takes nothing that shows.  *)
NothingLostNeedlessly ==
  [][\A k \in Key :
       Found(k) /\ ~Found(k)' =>
         \/ now' # now
         \/ Delete(k)
         \/ DeleteIf(k)
         \/ /\ policy # "none"
            /\ Size(data, shardFor[k]) = MaxEntries
            /\ \E l \in Key \ {k} : /\ shardFor[l] = shardFor[k]
                                   /\ data[l] = None
                                   /\ data'[l] # None]_vars
=============================================================================
