----------------------------- MODULE StoreProofs -----------------------------
(***************************************************************************)
(* The sharded store for any keys, shards, cap, policies and readers: its  *)
(* types, its cap, that it implements the abstract cache, and what may     *)
(* make a key go away.                                                     *)
(***************************************************************************)
EXTENDS Store, FiniteSetTheorems, TLAPS

(* A Get under way keeps its entry in the map: every action that could     *)
(* remove it takes the shard's write lock.                                 *)
ReadersHoldEntries ==
  \A g \in Reader : reading[g] # None => data[reading[g].key] # None

(* The janitor's time is never ahead of the clock. *)
SweepIsPast == sweep # None => sweep.at <= now

IInv == TypeOK /\ ReadersHoldEntries /\ SweepIsPast

(* The keys a shard holds. *)
Held(map, s) == {k \in Key : shardFor[k] = s /\ map[k] # None}

-----------------------------------------------------------------------------
LEMMA HeldFinite ==
  ASSUME NEW map, NEW s
  PROVE  IsFiniteSet(Held(map, s)) /\ Size(map, s) = Cardinality(Held(map, s))
         /\ Size(map, s) \in Nat
<1>1. Held(map, s) \in SUBSET Key
  BY Zenon DEF Held
<1>2. IsFiniteSet(Held(map, s))
  BY <1>1, FS_Subset, StoreAssumption, Zenon
<1>3. Size(map, s) = Cardinality(Held(map, s))
  BY Zenon DEF Size, Held
<1>4. QED
  BY <1>2, <1>3, FS_CardinalityType, Zenon

LEMMA SameHeldSameSize ==
  ASSUME NEW map, NEW other, NEW s, Held(map, s) = Held(other, s)
  PROVE  Size(map, s) = Size(other, s)
BY HeldFinite, Zenon

(* A shard that loses keys does not grow. *)
LEMMA FewerHeldSmallerSize ==
  ASSUME NEW map, NEW other, NEW s, Held(map, s) \subseteq Held(other, s)
  PROVE  Size(map, s) <= Size(other, s)
<1>1. Cardinality(Held(map, s)) <= Cardinality(Held(other, s))
  BY HeldFinite, FS_Subset, Zenon
<1>2. QED
  BY <1>1, HeldFinite, Zenon

(* A new key makes its shard one larger. *)
LEMMA OneMoreHeld ==
  ASSUME NEW map, NEW other, NEW s, NEW k,
         k \notin Held(other, s), Held(map, s) = Held(other, s) \cup {k}
  PROVE  Size(map, s) = Size(other, s) + 1
<1>1. Cardinality(Held(map, s)) = Cardinality(Held(other, s)) + 1
  BY HeldFinite, FS_AddElement, Zenon
<1>2. QED
  BY <1>1, HeldFinite, Zenon

-----------------------------------------------------------------------------
(* What a set does to the map: the entry is stored, or stored in the place *)
(* of another key of a full shard, or refused by TinyLFU's admission.      *)
Stored(k, e) == data' = [data EXCEPT ![k] = e]

StoredFor(k, e, victim) ==
  /\ policy # "none" /\ MaxEntries # 0 /\ data[k] = None
  /\ Size([data EXCEPT ![k] = e], shardFor[k]) > MaxEntries
  /\ victim # k /\ shardFor[victim] = shardFor[k] /\ data[victim] # None
  /\ data' = [data EXCEPT ![k] = e, ![victim] = None]

Fits(k, e) ==
  \/ policy = "none"
  \/ data[k] # None
  \/ MaxEntries = 0
  \/ Size([data EXCEPT ![k] = e], shardFor[k]) <= MaxEntries

LEMMA SetOutcome ==
  ASSUME TypeOK, NEW k \in Key, NEW value \in SUBSET Write, NEW expiresAt \in Nat,
         NEW touches \in Nat, NEW bypass \in BOOLEAN,
         set(k, value, expiresAt, touches, bypass)
  PROVE  \E e \in Entry :
           /\ e.value = value /\ e.expiresAt = expiresAt
           /\ \/ Stored(k, e) /\ Fits(k, e)
              \/ \E victim \in Key : StoredFor(k, e, victim)
              \/ data' = data /\ data[k] = None /\ ~bypass
<1> DEFINE e   == [value |-> value, expiresAt |-> expiresAt,
                   hint |-> insertHint(k, touches + 1)]
           map == [data EXCEPT ![k] = e]
<1>1. insertHint(k, touches + 1) \in Nat
  <2>1. shardFor[k] \in 1 .. Shards
    BY StoreAssumption, Zenon
  <2>2. clock[shardFor[k]] \in Nat
    BY <2>1, Zenon DEF TypeOK
  <2>3. QED
    BY <2>2, StoreAssumption DEF insertHint
<1>2. e \in Entry
  BY <1>1, Zenon DEF Entry
<1>3. CASE policy = "none" \/ data[k] # None
  <2>1. data' = map
    BY <1>3, Zenon DEF set, leave, outcomes
  <2>2. QED
    BY <1>2, <1>3, <2>1, Zenon DEF Stored, Fits
<1>4. CASE ~(policy = "none" \/ data[k] # None)
  <2>1. data' \in evictIfNeeded(map, k, bypass)
    BY <1>4, Zenon DEF set, leave, outcomes
  <2>2. CASE MaxEntries = 0 \/ Size(map, shardFor[k]) <= MaxEntries
    <3>1. data' = map
      BY <2>1, <2>2 DEF evictIfNeeded
    <3>2. QED
      BY <1>2, <2>2, <3>1, Zenon DEF Stored, Fits
  <2>3. CASE ~(MaxEntries = 0 \/ Size(map, shardFor[k]) <= MaxEntries)
    <3>1. PICK l \in sampleVictim(map, k), admitted \in admit(bypass) :
            data' = [map EXCEPT ![IF admitted THEN l ELSE k] = None]
      <4> HIDE DEF map
      <4>1. evictIfNeeded(map, k, bypass)
              = {[map EXCEPT ![IF admitted THEN l ELSE k] = None] :
                   l \in sampleVictim(map, k), admitted \in admit(bypass)}
        BY <2>3 DEF evictIfNeeded
      <4>2. QED
        BY <2>1, <4>1
    <3>2. l \in Key /\ l # k /\ shardFor[l] = shardFor[k] /\ map[l] # None
      BY Zenon DEF sampleVictim
    <3>3. admitted \in BOOLEAN /\ (bypass => admitted)
      BY Zenon DEF admit
    <3>4. Size(map, shardFor[k]) > MaxEntries
      BY <2>3, HeldFinite, StoreAssumption
    <3>5. CASE admitted
      <4>1. StoredFor(k, e, l)
        BY <1>4, <2>3, <3>1, <3>2, <3>4, <3>5, Zenon DEF StoredFor, TypeOK
      <4>2. QED
        BY <1>2, <3>2, <4>1, Zenon
    <3>6. CASE ~admitted
      <4>1. data' = [map EXCEPT ![k] = None]
        BY <3>1, <3>6, Zenon
      <4>2. data' = data
        BY <1>4, <4>1, Zenon DEF TypeOK
      <4>3. QED
        BY <1>2, <1>4, <3>3, <3>6, <4>2, Zenon
    <3>7. QED
      BY <3>3, <3>5, <3>6, Zenon
  <2>4. QED
    BY <2>2, <2>3, Zenon
<1>5. QED
  BY <1>3, <1>4, Zenon

(* A set touches no key of another shard: a Get under way keeps its entry. *)
LEMMA SetStaysInShard ==
  ASSUME TypeOK, NEW k \in Key, NEW value \in SUBSET Write, NEW expiresAt \in Nat,
         NEW touches \in Nat, NEW bypass \in BOOLEAN,
         set(k, value, expiresAt, touches, bypass)
  PROVE  /\ data' \in [Key -> Entry \cup {None}]
         /\ \A l \in Key : shardFor[l] # shardFor[k] => data'[l] = data[l]
<1>1. PICK e \in Entry :
        \/ Stored(k, e)
        \/ \E victim \in Key : StoredFor(k, e, victim)
        \/ data' = data
  BY SetOutcome
<1>2. data \in [Key -> Entry \cup {None}]
  BY Zenon DEF TypeOK
<1>3. CASE Stored(k, e)
  BY <1>2, <1>3, Zenon DEF Stored
<1>4. CASE \E victim \in Key : StoredFor(k, e, victim)
  BY <1>2, <1>4, Zenon DEF StoredFor
<1>5. QED
  BY <1>1, <1>2, <1>3, <1>4, Zenon

LEMMA AdvanceType ==
  ASSUME clock \in [1 .. Shards -> Nat], NEW k \in Key, NEW n \in Nat, advance(k, n)
  PROVE  clock' \in [1 .. Shards -> Nat]
<1>1. shardFor[k] \in 1 .. Shards
  BY StoreAssumption, Zenon
<1>2. QED
  BY <1>1 DEF advance

LEMMA AccessHintType ==
  ASSUME TypeOK, NEW k \in Key, data[k] # None
  PROVE  accessHint(k, 1) \in Nat
<1>1. shardFor[k] \in 1 .. Shards
  BY StoreAssumption, Zenon
<1>2. clock[shardFor[k]] \in Nat /\ data[k].hint \in Nat
  BY <1>1, Zenon DEF TypeOK, Entry
<1>3. QED
  BY <1>2 DEF accessHint

(* A new hint leaves an entry an entry. *)
LEMMA HintType ==
  ASSUME data \in [Key -> Entry \cup {None}], NEW k \in Key, data[k] # None,
         NEW h \in Nat
  PROVE  /\ [data EXCEPT ![k].hint = h] \in [Key -> Entry \cup {None}]
         /\ [data EXCEPT ![k].hint = h][k] \in Entry
<1>1. data[k] \in Entry
  BY Zenon
<1>2. [data[k] EXCEPT !.hint = h] \in Entry
  BY <1>1, Zenon DEF Entry
<1>3. QED
  BY <1>2, Zenon

LEMMA SetKeepsIInv ==
  ASSUME IInv, NEW k \in Key, NEW value \in SUBSET Write, NEW expiresAt \in Nat,
         NEW touches \in Nat, NEW bypass \in BOOLEAN,
         set(k, value, expiresAt, touches, bypass)
  PROVE  IInv'
<1>1. /\ data' \in [Key -> Entry \cup {None}]
      /\ \A l \in Key : shardFor[l] # shardFor[k] => data'[l] = data[l]
  BY SetStaysInShard, Zenon DEF IInv
<1>2. clock' \in [1 .. Shards -> Nat]
  BY AdvanceType DEF set, leave, IInv, TypeOK
<1>3. UNCHANGED <<policy, reading, now, sweep>>
  BY Zenon DEF set, leave
<1>4. TypeOK'
  BY <1>1, <1>2, <1>3, Zenon DEF IInv, TypeOK
<1>5. ReadersHoldEntries'
  <2> SUFFICES ASSUME NEW g \in Reader, reading[g] # None
               PROVE  data'[reading[g].key] # None
    BY <1>3, Zenon DEF ReadersHoldEntries
  <2>1. reading[g].key \in Key
    BY Zenon DEF IInv, TypeOK
  <2>2. shardFor[reading[g].key] # shardFor[k]
    BY Zenon DEF set, leave, Lock
  <2>3. QED
    BY <1>1, <2>1, <2>2, Zenon DEF IInv, ReadersHoldEntries
<1>6. QED
  BY <1>3, <1>4, <1>5, Zenon DEF IInv, SweepIsPast

-----------------------------------------------------------------------------
LEMMA InitIInv == Init => IInv
BY StoreAssumption DEF Init, IInv, TypeOK, ReadersHoldEntries, SweepIsPast

(* The deadline of SetWithTTL, and what UpdateReplica stores. *)
LEMMA SetWithTTLSets ==
  ASSUME IInv, NEW k \in Key, NEW w \in Write, NEW ttl \in TTL, SetWithTTL(k, w, ttl)
  PROVE  \E t \in Nat : t >= now /\ set(k, {w}, t, 0, FALSE)
<1>1. now + ttl \in Nat /\ now + ttl >= now
  BY StoreAssumption DEF IInv, TypeOK
<1>2. set(k, {w}, now + ttl, 0, FALSE)
  BY Zenon DEF SetWithTTL
<1>3. QED
  BY <1>1, <1>2, Zenon

LEMMA UpdateReplicaSets ==
  ASSUME IInv, NEW k \in Key, NEW w \in Write, UpdateReplica(k, w)
  PROVE  /\ fn(k, w) \in SUBSET Write
         /\ \E touches \in Nat : set(k, fn(k, w), 0, touches, TRUE)
<1>1. fn(k, w) \in SUBSET Write
  BY Zenon DEF fn, Found, IInv, TypeOK, Entry
<1>2. (IF Found(k) THEN 1 ELSE 0) \in Nat
  BY Zenon
<1>3. set(k, fn(k, w), 0, IF Found(k) THEN 1 ELSE 0, TRUE)
  BY Zenon DEF UpdateReplica, set, replicaOutcomes, stamps
<1>4. QED
  BY <1>1, <1>2, <1>3, Zenon

LEMMA NextIInv == IInv /\ [Next]_vars => IInv'
<1> SUFFICES ASSUME IInv, [Next]_vars
             PROVE  IInv'
  BY Zenon
<1>1. ASSUME NEW k \in Key, NEW w \in Write, Set(k, w)
      PROVE  IInv'
  <2>1. set(k, {w}, 0, 0, FALSE)
    BY <1>1, Zenon DEF Set
  <2>2. QED
    BY <2>1, SetKeepsIInv, Zenon
<1>2. ASSUME NEW k \in Key, NEW w \in Write, UpdateReplica(k, w)
      PROVE  IInv'
  <2>1. fn(k, w) \in SUBSET Write
    BY <1>2, UpdateReplicaSets, Zenon
  <2>2. PICK touches \in Nat : set(k, fn(k, w), 0, touches, TRUE)
    BY <1>2, UpdateReplicaSets, Zenon
  <2>3. QED
    BY <2>1, <2>2, SetKeepsIInv, Zenon
<1>3. ASSUME NEW k \in Key, NEW w \in Write, NEW ttl \in TTL, SetWithTTL(k, w, ttl)
      PROVE  IInv'
  <2>1. PICK t \in Nat : set(k, {w}, t, 0, FALSE)
    BY <1>3, SetWithTTLSets, Zenon
  <2>2. QED
    BY <2>1, SetKeepsIInv, Zenon
<1>4. ASSUME NEW k \in Key, Delete(k)
      PROVE  IInv'
  BY <1>4, Zenon DEF Delete, Lock, IInv, TypeOK, ReadersHoldEntries, SweepIsPast
<1>5. ASSUME NEW k \in Key, DeleteIf(k)
      PROVE  IInv'
  <2>1. data[k] # None
    BY <1>5, Zenon DEF DeleteIf, Found
  <2>2. accessHint(k, 1) \in Nat
    BY <2>1, AccessHintType, Zenon DEF IInv
  <2>3. data' \in [Key -> Entry \cup {None}]
    BY <1>5, <2>1, <2>2, HintType, Zenon DEF DeleteIf, IInv, TypeOK
  <2>4. clock' \in [1 .. Shards -> Nat]
    BY <1>5, AdvanceType, Zenon DEF DeleteIf, IInv, TypeOK
  <2>5. \A l \in Key : l # k => data'[l] = data[l]
    BY <1>5, Zenon DEF DeleteIf, IInv, TypeOK
  <2>6. ReadersHoldEntries'
    BY <1>5, <2>5, Zenon DEF DeleteIf, Lock, IInv, TypeOK, ReadersHoldEntries
  <2>7. QED
    BY <1>5, <2>3, <2>4, <2>6, Zenon DEF DeleteIf, IInv, TypeOK, SweepIsPast
<1>6. ASSUME NEW g \in Reader, recordAccess(g)
      PROVE  IInv'
  <2>1. /\ reading[g].key \in Key /\ reading[g].stamp \in Nat
        /\ data[reading[g].key] # None
    BY <1>6, Zenon DEF recordAccess, IInv, TypeOK, ReadersHoldEntries
  <2>2. /\ data' \in [Key -> Entry \cup {None}]
        /\ data'[reading[g].key] \in Entry
    BY <1>6, <2>1, HintType, Zenon DEF recordAccess, IInv, TypeOK
  <2>3. \A l \in Key : l # reading[g].key => data'[l] = data[l]
    BY <1>6, Zenon DEF recordAccess, IInv, TypeOK
  <2>4. ReadersHoldEntries'
    BY <1>6, <2>2, <2>3, NoEntryAssumption, Zenon
       DEF recordAccess, IInv, TypeOK, ReadersHoldEntries
  <2>5. QED
    BY <1>6, <2>2, <2>4, Zenon DEF recordAccess, IInv, TypeOK, SweepIsPast
<1>7. ASSUME NEW g \in Reader, NEW k \in Key, Get(g, k)
      PROVE  IInv'
  <2>1. data[k] # None
    BY <1>7, Zenon DEF Get, Found
  <2>2. accessHint(k, 1) \in Nat
    BY <2>1, AccessHintType, Zenon DEF IInv
  <2>3. clock' \in [1 .. Shards -> Nat]
    BY <1>7, AdvanceType, Zenon DEF Get, IInv, TypeOK
  <2>4. CASE policy = "lru"
    <3>1. /\ reading' = [reading EXCEPT ![g] = [key |-> k, stamp |-> accessHint(k, 1)]]
          /\ UNCHANGED <<data, policy, now, sweep>>
      BY <1>7, <2>4, Zenon DEF Get
    <3>2. TypeOK'
      BY <2>2, <2>3, <3>1, Zenon DEF IInv, TypeOK
    <3>3. ReadersHoldEntries'
      BY <2>1, <3>1, Zenon DEF IInv, TypeOK, ReadersHoldEntries
    <3>4. QED
      BY <3>1, <3>2, <3>3, Zenon DEF IInv, SweepIsPast
  <2>5. CASE policy # "lru"
    <3>1. /\ data' = [data EXCEPT ![k].hint = accessHint(k, 1)]
          /\ UNCHANGED <<reading, policy, now, sweep>>
      BY <1>7, <2>5, Zenon DEF Get
    <3>2. data' \in [Key -> Entry \cup {None}] /\ data'[k] \in Entry
      BY <2>1, <2>2, <3>1, HintType, Zenon DEF IInv, TypeOK
    <3>3. \A l \in Key : l # k => data'[l] = data[l]
      BY <3>1, Zenon DEF IInv, TypeOK
    <3>4. ReadersHoldEntries'
      BY <3>1, <3>2, <3>3, NoEntryAssumption, Zenon DEF IInv, TypeOK, ReadersHoldEntries
    <3>5. QED
      BY <2>3, <3>1, <3>2, <3>4, Zenon DEF IInv, TypeOK, SweepIsPast
  <2>6. QED
    BY <2>4, <2>5, Zenon
<1>8. CASE reapStart
  BY <1>8, StoreAssumption DEF reapStart, IInv, TypeOK, ReadersHoldEntries, SweepIsPast
<1>9. CASE reapExpired
  <2>1. /\ data' \in [Key -> Entry \cup {None}]
        /\ \A l \in Key : shardFor[l] # sweep.shard => data'[l] = data[l]
    BY <1>9, Zenon DEF reapExpired, IInv, TypeOK
  <2>2. ReadersHoldEntries'
    BY <1>9, <2>1, Zenon DEF reapExpired, IInv, TypeOK, ReadersHoldEntries
  <2>3. sweep \in [at : Nat, shard : 1 .. Shards] /\ Shards \in Nat
    BY <1>9, StoreAssumption, Zenon DEF reapExpired, IInv, TypeOK
  <2>4. sweep' \in [at : Nat, shard : 1 .. Shards] \cup {None}
    BY <1>9, <2>3 DEF reapExpired
  <2>5. SweepIsPast'
    BY <1>9, <2>3, Zenon DEF reapExpired, IInv, SweepIsPast
  <2>6. QED
    BY <1>9, <2>1, <2>2, <2>4, <2>5, Zenon DEF reapExpired, IInv, TypeOK
<1>10. CASE Tick
  BY <1>10 DEF Tick, IInv, TypeOK, ReadersHoldEntries, SweepIsPast
<1>11. CASE UNCHANGED vars
  BY <1>11, Zenon DEF vars, IInv, TypeOK, ReadersHoldEntries, SweepIsPast
<1>12. QED
  BY <1>1, <1>2, <1>3, <1>4, <1>5, <1>6, <1>7, <1>8, <1>9, <1>10, <1>11, Zenon DEF Next

LEMMA StoreInvariant == Spec => []IInv
BY InitIInv, NextIInv, PTL DEF Spec

(* Stored entries, stamps, readers and the janitor keep their types; in    *)
(* particular recordAccess never stamps an entry that is gone, though the  *)
(* stamp is stored in a later step than the one that found the entry.      *)
THEOREM TypesHold == Spec => []TypeOK
BY StoreInvariant, PTL DEF IInv

-----------------------------------------------------------------------------
(* The cap *)

LEMMA ShrinkKeepsCap ==
  ASSUME CapHolds, policy' = policy,
         \A k \in Key : data'[k] # None => data[k] # None
  PROVE  CapHolds'
<1> SUFFICES ASSUME policy # "none", MaxEntries # 0, NEW s \in 1 .. Shards
             PROVE  Size(data', s) <= MaxEntries
  BY Zenon DEF CapHolds
<1>1. Held(data', s) \subseteq Held(data, s)
  BY Zenon DEF Held
<1>2. Size(data', s) <= Size(data, s)
  BY <1>1, FewerHeldSmallerSize, Zenon
<1>3. Size(data, s) <= MaxEntries
  BY Zenon DEF CapHolds
<1>4. QED
  BY <1>2, <1>3, HeldFinite, StoreAssumption

LEMMA SetKeepsCap ==
  ASSUME TypeOK, CapHolds, NEW k \in Key, NEW value \in SUBSET Write,
         NEW expiresAt \in Nat, NEW touches \in Nat, NEW bypass \in BOOLEAN,
         set(k, value, expiresAt, touches, bypass)
  PROVE  CapHolds'
<1> SUFFICES ASSUME policy # "none", MaxEntries # 0, NEW s \in 1 .. Shards
             PROVE  Size(data', s) <= MaxEntries
  BY Zenon DEF CapHolds, set, leave
<1>1. Size(data, s) <= MaxEntries
  BY Zenon DEF CapHolds
<1>2. PICK e \in Entry :
        \/ Stored(k, e) /\ Fits(k, e)
        \/ \E victim \in Key : StoredFor(k, e, victim)
        \/ data' = data
  BY SetOutcome
<1>3. data \in [Key -> Entry \cup {None}] /\ e # None
  BY NoEntryAssumption, Zenon DEF TypeOK
<1>4. CASE Stored(k, e) /\ data[k] # None
  <2>1. Held(data', s) = Held(data, s)
    BY <1>3, <1>4, Zenon DEF Stored, Held
  <2>2. QED
    BY <1>1, <2>1, SameHeldSameSize, Zenon
<1>5. CASE Stored(k, e) /\ s # shardFor[k]
  <2>1. Held(data', s) = Held(data, s)
    BY <1>3, <1>5, Zenon DEF Stored, Held
  <2>2. QED
    BY <1>1, <2>1, SameHeldSameSize, Zenon
<1>6. CASE Stored(k, e) /\ Fits(k, e) /\ data[k] = None /\ s = shardFor[k]
  BY <1>6, Zenon DEF Stored, Fits
<1>7. ASSUME NEW victim \in Key, StoredFor(k, e, victim)
      PROVE  Size(data', s) <= MaxEntries
  <2>1. CASE s # shardFor[k]
    <3>1. Held(data', s) = Held(data, s)
      BY <1>3, <1>7, <2>1, Zenon DEF StoredFor, Held
    <3>2. QED
      BY <1>1, <3>1, SameHeldSameSize, Zenon
  <2>2. CASE s = shardFor[k]
    <3> DEFINE rest == [data EXCEPT ![victim] = None]
    <3>1. /\ k \notin Held(rest, s) /\ victim \notin Held(rest, s)
          /\ Held(data', s) = Held(rest, s) \cup {k}
          /\ Held(data, s) = Held(rest, s) \cup {victim}
      BY <1>3, <1>7, <2>2 DEF StoredFor, Held
    <3> HIDE DEF rest
    <3>2. Size(data', s) = Size(rest, s) + 1 /\ Size(data, s) = Size(rest, s) + 1
      BY <3>1, OneMoreHeld
    <3>3. QED
      BY <1>1, <3>2, Zenon
  <2>3. QED
    BY <2>1, <2>2, Zenon
<1>8. QED
  BY <1>1, <1>2, <1>4, <1>5, <1>6, <1>7, Zenon

LEMMA NextCap == IInv /\ CapHolds /\ [Next]_vars => CapHolds'
<1> SUFFICES ASSUME IInv, CapHolds, [Next]_vars
             PROVE  CapHolds'
  BY Zenon
<1> USE DEF IInv
<1>1. ASSUME NEW k \in Key, NEW w \in Write, Set(k, w)
      PROVE  CapHolds'
  <2>1. set(k, {w}, 0, 0, FALSE)
    BY <1>1, Zenon DEF Set
  <2>2. QED
    BY <2>1, SetKeepsCap, Zenon
<1>2. ASSUME NEW k \in Key, NEW w \in Write, UpdateReplica(k, w)
      PROVE  CapHolds'
  <2>1. fn(k, w) \in SUBSET Write
    BY <1>2, UpdateReplicaSets, Zenon
  <2>2. PICK touches \in Nat : set(k, fn(k, w), 0, touches, TRUE)
    BY <1>2, UpdateReplicaSets, Zenon
  <2>3. QED
    BY <2>1, <2>2, SetKeepsCap, Zenon
<1>3. ASSUME NEW k \in Key, NEW w \in Write, NEW ttl \in TTL, SetWithTTL(k, w, ttl)
      PROVE  CapHolds'
  <2>1. PICK t \in Nat : set(k, {w}, t, 0, FALSE)
    BY <1>3, SetWithTTLSets, Zenon
  <2>2. QED
    BY <2>1, SetKeepsCap, Zenon
<1>4. ASSUME NEW k \in Key, Delete(k)
      PROVE  CapHolds'
  BY <1>4, ShrinkKeepsCap, Zenon DEF Delete, TypeOK
<1>5. ASSUME NEW k \in Key, DeleteIf(k)
      PROVE  CapHolds'
  <2>1. data[k] # None /\ \A l \in Key : l # k => data'[l] = data[l]
    BY <1>5, Zenon DEF DeleteIf, Found, TypeOK
  <2>2. QED
    BY <1>5, <2>1, ShrinkKeepsCap, Zenon DEF DeleteIf
<1>6. ASSUME NEW g \in Reader, recordAccess(g)
      PROVE  CapHolds'
  <2>1. data[reading[g].key] # None
    BY <1>6, Zenon DEF recordAccess, ReadersHoldEntries
  <2>2. \A l \in Key : l # reading[g].key => data'[l] = data[l]
    BY <1>6, Zenon DEF recordAccess, TypeOK
  <2>3. QED
    BY <1>6, <2>1, <2>2, ShrinkKeepsCap, Zenon DEF recordAccess
<1>7. ASSUME NEW g \in Reader, NEW k \in Key, Get(g, k)
      PROVE  CapHolds'
  <2>1. data[k] # None /\ \A l \in Key : l # k => data'[l] = data[l]
    BY <1>7, Zenon DEF Get, Found, TypeOK
  <2>2. QED
    BY <1>7, <2>1, ShrinkKeepsCap, Zenon DEF Get
<1>8. CASE reapExpired
  BY <1>8, ShrinkKeepsCap, Zenon DEF reapExpired
<1>9. CASE reapStart \/ Tick \/ UNCHANGED vars
  BY <1>9, Zenon DEF reapStart, Tick, vars, CapHolds
<1>10. QED
  BY <1>1, <1>2, <1>3, <1>4, <1>5, <1>6, <1>7, <1>8, <1>9, Zenon DEF Next

(* For any keys, shards, cap and eviction policy: no mix of sets, replica  *)
(* writes, refusals, reads and passes of the janitor takes a shard beyond  *)
(* its cap.                                                                *)
THEOREM CapIsKept == Spec => []CapHolds
<1>1. Init => CapHolds
  <2> SUFFICES ASSUME Init, NEW s \in 1 .. Shards
               PROVE  Size(data, s) <= MaxEntries
    BY Zenon DEF CapHolds
  <2>1. Held(data, s) = {}
    BY Zenon DEF Init, Held
  <2>2. Size(data, s) = 0
    BY <2>1, HeldFinite, FS_EmptySet, Zenon
  <2>3. QED
    BY <2>2, StoreAssumption
<1>2. QED
  BY <1>1, NextCap, StoreInvariant, PTL DEF Spec

-----------------------------------------------------------------------------
(* The store implements the abstract cache *)

View == [k \in Key |-> IF Found(k) THEN data[k].value ELSE None]

(* A key shows something exactly when Get finds it. *)
LEMMA ShowsWhatIsFound ==
  ASSUME TypeOK, NEW k \in Key
  PROVE  /\ View[k] = None <=> ~Found(k)
         /\ Found(k) => View[k] = data[k].value
<1>1. ASSUME Found(k)
      PROVE  data[k].value # None
  <2>1. data[k].value \in SUBSET Write
    BY <1>1, Zenon DEF Found, TypeOK, Entry
  <2>2. QED
    BY <2>1, NoEntryAssumption, Zenon
<1>2. QED
  BY <1>1, Zenon DEF View

(* Equal entries at equal times show alike. *)
LEMMA SameEntrySameView ==
  ASSUME NEW k \in Key, data'[k] = data[k], now' = now
  PROVE  View'[k] = View[k] /\ (Found(k)' <=> Found(k))
BY Zenon DEF View, Found

(* What a set shows: the value, with at most one other key gone for it, or *)
(* no change.  A replica's write, which bypasses admission, always shows.  *)
LEMMA SetShows ==
  ASSUME TypeOK, NEW k \in Key, NEW value \in SUBSET Write, NEW expiresAt \in Nat,
         NEW touches \in Nat, NEW bypass \in BOOLEAN,
         expiresAt = 0 \/ expiresAt >= now,
         set(k, value, expiresAt, touches, bypass)
  PROVE  \/ View' = [View EXCEPT ![k] = value]
         \/ \E victim \in Key \ {k} :
              View' = [View EXCEPT ![k] = value, ![victim] = None]
         \/ View' = View /\ ~bypass
<1>1. PICK e \in Entry :
        /\ e.value = value /\ e.expiresAt = expiresAt
        /\ \/ Stored(k, e) /\ Fits(k, e)
           \/ \E victim \in Key : StoredFor(k, e, victim)
           \/ data' = data /\ data[k] = None /\ ~bypass
  BY SetOutcome
<1>2. /\ data \in [Key -> Entry \cup {None}] /\ now \in Nat
      /\ e # None /\ now' = now
  BY NoEntryAssumption, Zenon DEF TypeOK, set, leave
<1>3. ASSUME data'[k] = e
      PROVE  View'[k] = value
  <2>1. ~expired(e, now)
    BY <1>1, <1>2 DEF expired
  <2>2. QED
    BY <1>1, <1>2, <1>3, <2>1, Zenon DEF View, Found
<1>4. \A l \in Key : data'[l] = data[l] => View'[l] = View[l]
  BY <1>2, SameEntrySameView, Zenon
<1>5. CASE Stored(k, e)
  <2>1. data'[k] = e /\ \A l \in Key \ {k} : data'[l] = data[l]
    BY <1>2, <1>5, Zenon DEF Stored
  <2>2. View' = [View EXCEPT ![k] = value]
    BY <1>3, <1>4, <2>1, Zenon DEF View
  <2>3. QED
    BY <2>2, Zenon
<1>6. ASSUME NEW victim \in Key, StoredFor(k, e, victim)
      PROVE  \E v \in Key \ {k} : View' = [View EXCEPT ![k] = value, ![v] = None]
  <2>1. /\ victim # k /\ data'[k] = e /\ data'[victim] = None
        /\ \A l \in Key \ {k, victim} : data'[l] = data[l]
    BY <1>2, <1>6, Zenon DEF StoredFor
  <2>2. View'[victim] = None
    BY <2>1, Zenon DEF View, Found
  <2>3. View' = [View EXCEPT ![k] = value, ![victim] = None]
    BY <1>3, <1>4, <2>1, <2>2, Zenon DEF View
  <2>4. QED
    BY <2>1, <2>3, Zenon
<1>7. CASE data' = data /\ ~bypass
  <2>1. View' = View
    BY <1>4, <1>7, Zenon DEF View
  <2>2. QED
    BY <1>7, <2>1, Zenon
<1>8. QED
  BY <1>1, <1>5, <1>6, <1>7, Zenon

(* Keys that stop showing, and nothing else, is what Forget allows. *)
LEMMA OnlyForgets ==
  ASSUME \A k \in Key : View'[k] \in {View[k], None}
  PROVE  Abstract!Forget
<1> DEFINE S == {k \in Key : View'[k] = None}
<1>1. View' = [k \in Key |-> IF k \in S THEN None ELSE View[k]]
  BY Zenon DEF View
<1>2. S \in SUBSET Key
  BY Zenon
<1> HIDE DEF S
<1>3. QED
  BY <1>1, <1>2, Zenon DEF View, Abstract!Forget

(* A changed hint shows nothing. *)
LEMMA HintShowsNothing ==
  ASSUME TypeOK, NEW k \in Key, data[k] # None, NEW h \in Nat,
         data' = [data EXCEPT ![k].hint = h], now' = now
  PROVE  \A l \in Key : View'[l] = View[l] /\ (Found(l)' <=> Found(l))
<1>1. data[k] \in Entry
  BY Zenon DEF TypeOK
<1>2. /\ data'[k] # None
      /\ data'[k].value = data[k].value /\ data'[k].expiresAt = data[k].expiresAt
  <2>1. data'[k] = [data[k] EXCEPT !.hint = h]
    BY Zenon DEF TypeOK
  <2>2. data'[k] \in Entry
    BY <1>1, <2>1 DEF Entry
  <2>3. QED
    BY <1>1, <2>1, <2>2, NoEntryAssumption DEF Entry
<1>3. View'[k] = View[k] /\ (Found(k)' <=> Found(k))
  BY <1>2, Zenon DEF View, Found, expired
<1>4. \A l \in Key \ {k} : data'[l] = data[l]
  BY Zenon DEF TypeOK
<1>5. QED
  BY <1>3, <1>4, SameEntrySameView, Zenon

(* The janitor only removes what no longer shows: its time is in the past. *)
LEMMA ReapShowsNothing ==
  ASSUME IInv, reapExpired
  PROVE  \A k \in Key : View'[k] = View[k] /\ (Found(k)' <=> Found(k))
<1> SUFFICES ASSUME NEW k \in Key
             PROVE  View'[k] = View[k] /\ (Found(k)' <=> Found(k))
  BY Zenon
<1>1. /\ now' = now /\ now \in Nat /\ sweep.at \in Nat /\ sweep.at <= now
      /\ data[k] # None => data[k].expiresAt \in Nat
  BY Zenon DEF reapExpired, IInv, TypeOK, SweepIsPast, Entry
<1>2. CASE data[k] # None /\ expired(data[k], sweep.at) /\ data'[k] = None
  <2>1. expired(data[k], now)
    BY <1>1, <1>2 DEF expired
  <2>2. QED
    BY <1>2, <2>1, Zenon DEF View, Found
<1>3. CASE data'[k] = data[k]
  BY <1>1, <1>3, SameEntrySameView, Zenon
<1>4. QED
  BY <1>2, <1>3, Zenon DEF reapExpired

(* Time only makes entries expire. *)
LEMMA TickForgets ==
  ASSUME IInv, Tick
  PROVE  \A k \in Key : View'[k] \in {View[k], None}
<1> SUFFICES ASSUME NEW k \in Key
             PROVE  View'[k] \in {View[k], None}
  BY Zenon
<1>1. /\ now \in Nat /\ now' = now + 1 /\ data' = data
      /\ data[k] # None => data[k].expiresAt \in Nat
  BY Zenon DEF Tick, IInv, TypeOK, Entry
<1>2. Found(k)' => Found(k)
  BY <1>1 DEF Found, expired
<1>3. QED
  BY <1>1, <1>2, Zenon DEF View

LEMMA NextRefines ==
  ASSUME IInv, [Next]_vars
  PROVE  Abstract!Next \/ View' = View
<1>1. ASSUME NEW k \in Key, NEW value \in SUBSET Write,
             \/ View' = [View EXCEPT ![k] = value]
             \/ \E victim \in Key \ {k} :
                  View' = [View EXCEPT ![k] = value, ![victim] = None]
      PROVE  Abstract!Show(k, value)
  BY <1>1, Zenon DEF View, Abstract!Show
<1>2. ASSUME \A k \in Key : View'[k] = View[k]
      PROVE  View' = View
  BY <1>2, Zenon DEF View
<1>3. ASSUME NEW k \in Key, NEW w \in Write, NEW t \in Nat, t = 0 \/ t >= now,
             set(k, {w}, t, 0, FALSE)
      PROVE  Abstract!Next \/ View' = View
  <2>1. \/ View' = [View EXCEPT ![k] = {w}]
        \/ \E victim \in Key \ {k} :
             View' = [View EXCEPT ![k] = {w}, ![victim] = None]
        \/ View' = View
    BY <1>3, SetShows, Zenon DEF IInv
  <2>2. {w} \in SUBSET Write
    BY Zenon
  <2>3. Abstract!Show(k, {w}) \/ View' = View
    BY <1>1, <2>1, <2>2, Zenon
  <2>4. QED
    BY <2>3, Zenon DEF Abstract!Next, Abstract!Replace
<1>4. ASSUME NEW k \in Key, NEW w \in Write, Set(k, w)
      PROVE  Abstract!Next \/ View' = View
  BY <1>3, <1>4, Zenon DEF Set
<1>5. ASSUME NEW k \in Key, NEW w \in Write, NEW ttl \in TTL, SetWithTTL(k, w, ttl)
      PROVE  Abstract!Next \/ View' = View
  <2>1. PICK t \in Nat : t >= now /\ set(k, {w}, t, 0, FALSE)
    BY <1>5, SetWithTTLSets, Zenon
  <2>2. QED
    BY <1>3, <2>1, Zenon
<1>6. ASSUME NEW k \in Key, NEW w \in Write, UpdateReplica(k, w)
      PROVE  Abstract!Next \/ View' = View
  <2>1. fn(k, w) \in SUBSET Write
    BY <1>6, UpdateReplicaSets, Zenon
  <2>2. PICK touches \in Nat : set(k, fn(k, w), 0, touches, TRUE)
    BY <1>6, UpdateReplicaSets, Zenon
  <2>3. \/ View' = [View EXCEPT ![k] = fn(k, w)]
        \/ \E victim \in Key \ {k} :
             View' = [View EXCEPT ![k] = fn(k, w), ![victim] = None]
    BY <2>1, <2>2, SetShows, Zenon DEF IInv
  <2> DEFINE shown == (IF View[k] = None THEN {} ELSE View[k]) \cup {w}
  <2>4. fn(k, w) = shown
    BY ShowsWhatIsFound, Zenon DEF fn, IInv
  <2>5. Abstract!Extend(k)
    <3>1. Abstract!Show(k, shown)
      BY <2>3, <2>4, Zenon DEF Abstract!Show, View
    <3>2. QED
      BY <3>1, Zenon DEF Abstract!Extend, View
  <2>6. QED
    BY <2>5, Zenon DEF Abstract!Next
<1>7. ASSUME NEW k \in Key, Delete(k)
      PROVE  Abstract!Next
  <2>1. \A l \in Key \ {k} : View'[l] = View[l]
    BY <1>7, SameEntrySameView, Zenon DEF Delete, IInv, TypeOK
  <2>2. View'[k] = None
    BY <1>7, Zenon DEF Delete, IInv, TypeOK, View, Found
  <2>3. QED
    BY <2>1, <2>2, OnlyForgets, Zenon DEF Abstract!Next
<1>8. ASSUME NEW k \in Key, DeleteIf(k)
      PROVE  Abstract!Next
  <2>1. data[k] # None /\ accessHint(k, 1) \in Nat /\ now' = now
    BY <1>8, AccessHintType, Zenon DEF DeleteIf, Found, IInv
  <2>2. CASE data' = [data EXCEPT ![k] = None]
    <3>1. \A l \in Key \ {k} : View'[l] = View[l]
      BY <2>1, <2>2, SameEntrySameView, Zenon DEF IInv, TypeOK
    <3>2. View'[k] = None
      BY <2>2, Zenon DEF IInv, TypeOK, View, Found
    <3>3. QED
      BY <3>1, <3>2, OnlyForgets, Zenon DEF Abstract!Next
  <2>3. CASE data' = [data EXCEPT ![k].hint = accessHint(k, 1)]
    BY <2>1, <2>3, HintShowsNothing, OnlyForgets, Zenon DEF Abstract!Next, IInv
  <2>4. QED
    BY <1>8, <2>2, <2>3, Zenon DEF DeleteIf
<1>9. ASSUME NEW g \in Reader, recordAccess(g)
      PROVE  View' = View
  <2>1. /\ reading[g].key \in Key /\ reading[g].stamp \in Nat
        /\ data[reading[g].key] # None
    BY <1>9, Zenon DEF recordAccess, IInv, TypeOK, ReadersHoldEntries
  <2>2. QED
    BY <1>2, <1>9, <2>1, HintShowsNothing, Zenon DEF recordAccess, IInv
<1>10. ASSUME NEW g \in Reader, NEW k \in Key, Get(g, k)
       PROVE  View' = View
  <2>1. data[k] # None /\ accessHint(k, 1) \in Nat /\ now' = now
    BY <1>10, AccessHintType, Zenon DEF Get, Found, IInv
  <2>2. CASE data' = data
    BY <1>2, <2>1, <2>2, SameEntrySameView, Zenon
  <2>3. CASE data' = [data EXCEPT ![k].hint = accessHint(k, 1)]
    BY <1>2, <2>1, <2>3, HintShowsNothing, Zenon DEF IInv
  <2>4. QED
    BY <1>10, <2>2, <2>3, Zenon DEF Get
<1>11. CASE reapExpired
  BY <1>2, <1>11, ReapShowsNothing, Zenon
<1>12. CASE Tick
  BY <1>12, TickForgets, OnlyForgets, Zenon DEF Abstract!Next
<1>13. CASE reapStart \/ UNCHANGED vars
  <2>1. data' = data /\ now' = now
    BY <1>13, Zenon DEF reapStart, vars
  <2>2. QED
    BY <1>2, <2>1, SameEntrySameView, Zenon
<1>14. QED
  BY <1>4, <1>5, <1>6, <1>7, <1>8, <1>9, <1>10, <1>11, <1>12, <1>13, Zenon DEF Next

(* What the Store interface promises, for any keys and any constants: a    *)
(* Get shows the latest write, extended by the replica writes since, or    *)
(* nothing, whatever policy evicts and whenever the janitor runs.          *)
THEOREM StoreRefinesCache == Spec => RefinesCache
<1>1. Init => Abstract!Init
  BY Zenon DEF Init, Abstract!Init, Found
<1>2. IInv /\ [Next]_vars => [Abstract!Next]_View
  BY NextRefines, Zenon
<1>3. QED
  BY <1>1, <1>2, StoreInvariant, PTL DEF Spec, RefinesCache, Abstract!Spec, View

-----------------------------------------------------------------------------
(* A full shard has someone to give up *)

LessThan == {p \in Nat \X Nat : p[1] < p[2]}

(* A non-empty set of naturals has a least element. *)
LEMMA LeastNatural ==
  ASSUME NEW S \in SUBSET Nat, S # {}
  PROVE  \E m \in S : \A n \in S : m <= n
<1>1. IsWellFoundedOn(LessThan, Nat)
  BY NatLessThanWellFounded, Zenon DEF OpToRel, LessThan
<1>2. PICK m \in S : \A n \in S : <<n, m>> \notin LessThan
  BY <1>1, WFMin, Zenon
<1>3. ASSUME NEW n \in S
      PROVE  m <= n
  <2>1. m \in Nat /\ n \in Nat /\ <<n, m>> \notin LessThan
    BY <1>2, Zenon
  <2>2. QED
    BY <2>1 DEF LessThan
<1>4. QED
  BY <1>3, Zenon

LEMMA SmallerSet ==
  ASSUME NEW S, IsFiniteSet(S), NEW n \in Nat, n <= Cardinality(S)
  PROVE  \E T \in SUBSET S : IsFiniteSet(T) /\ Cardinality(T) = n
<1> DEFINE c == Cardinality(S)
<1>1. c \in Nat /\ ExistsBijection(1 .. c, S)
  BY FS_CardinalityType, Zenon
<1>2. PICK f : f \in Bijection(1 .. c, S)
  BY <1>1, Zenon DEF ExistsBijection
<1> DEFINE T == {f[i] : i \in 1 .. n}
           g == [i \in 1 .. n |-> f[i]]
<1>3. 1 .. n \subseteq 1 .. c
  BY <1>1
<1>4. f \in [1 .. c -> S] /\ \A i, j \in 1 .. c : f[i] = f[j] => i = j
  BY <1>2, Zenon DEF Bijection, Injection, IsInjective
<1>5. T \in SUBSET S
  BY <1>3, <1>4, Zenon
<1>6. g \in Bijection(1 .. n, T)
  <2>1. g \in [1 .. n -> T]
    BY Zenon
  <2>2. \A i, j \in 1 .. n : g[i] = g[j] => i = j
    BY <1>3, <1>4, Zenon
  <2>3. \A t \in T : \E i \in 1 .. n : g[i] = t
    BY Zenon
  <2>4. QED
    BY <2>1, <2>2, <2>3, Zenon DEF Bijection, Injection, IsInjective, Surjection
<1>7. IsFiniteSet(1 .. n) /\ Cardinality(1 .. n) = n
  BY FS_Interval
<1>8. IsFiniteSet(T) /\ Cardinality(T) = n
  <2> HIDE DEF T, g
  <2>1. ExistsBijection(1 .. n, T)
    BY <1>6, Zenon DEF ExistsBijection
  <2>2. QED
    BY <1>7, <2>1, FS_Bijection, Zenon
<1>9. QED
  BY <1>5, <1>8, Zenon

(* The rest of the shard, among which sampleVictim looks. *)
Incumbents(map, newKey) ==
  {k \in Key \ {newKey} : shardFor[k] = shardFor[newKey] /\ map[k] # None}

(* Over the cap sampleVictim finds someone: its sample is never empty. *)
LEMMA SampleFindsVictim ==
  ASSUME NEW map \in [Key -> Entry \cup {None}], NEW k \in Key,
         MaxEntries # 0, ~(Size(map, shardFor[k]) <= MaxEntries)
  PROVE  sampleVictim(map, k) # {}
<1> DEFINE s == shardFor[k]
           I == Incumbents(map, k)
<1>1. I = Held(map, s) \ {k}
  BY Zenon DEF Incumbents, Held
<1>2. IsFiniteSet(I) /\ I # {}
  <2>1. Cardinality(Held(map, s)) \in Nat /\ Cardinality(Held(map, s)) > 1
    BY HeldFinite, StoreAssumption
  <2>2. IsFiniteSet(I) /\ Cardinality(I) = IF k \in Held(map, s)
                                           THEN Cardinality(Held(map, s)) - 1
                                           ELSE Cardinality(Held(map, s))
    BY <1>1, HeldFinite, FS_RemoveElement
  <2>3. Cardinality(I) # 0
    BY <2>1, <2>2
  <2>4. QED
    BY <2>2, <2>3, FS_EmptySet, Zenon
<1>3. PICK S \in SUBSET I : /\ S # {}
                            /\ \/ Cardinality(S) = SampleSize
                               \/ Cardinality(S) < SampleSize /\ S = I
  <2>1. Cardinality(I) \in Nat /\ SampleSize \in Nat /\ SampleSize # 0
    BY <1>2, FS_CardinalityType, StoreAssumption, Zenon
  <2>2. CASE Cardinality(I) < SampleSize
    BY <1>2, <2>2, Zenon
  <2>3. CASE SampleSize <= Cardinality(I)
    <3>1. PICK T \in SUBSET I : IsFiniteSet(T) /\ Cardinality(T) = SampleSize
      BY <1>2, <2>1, <2>3, SmallerSet, Zenon
    <3>2. T # {}
      BY <2>1, <3>1, FS_EmptySet, Zenon
    <3>3. QED
      BY <3>1, <3>2, Zenon
  <2>4. Cardinality(I) < SampleSize \/ SampleSize <= Cardinality(I)
    BY <2>1
  <2>5. QED
    BY <2>2, <2>3, <2>4, Zenon
<1>4. PICK l \in S : \A m \in S : map[l].hint <= map[m].hint
  <2> DEFINE H == {map[m].hint : m \in S}
  <2>1. H \in SUBSET Nat
    BY <1>3, Zenon DEF Incumbents, Entry
  <2>2. H # {}
    BY <1>3, Zenon
  <2>3. PICK h \in H : \A i \in H : h <= i
    BY <2>1, <2>2, LeastNatural, Zenon
  <2>4. PICK l \in S : h = map[l].hint
    BY <2>3, Zenon
  <2>5. QED
    BY <2>3, <2>4, Zenon
<1>5. l \in sampleVictim(map, k)
  BY <1>3, <1>4, Zenon DEF sampleVictim, Incumbents
<1>6. QED
  BY <1>5, Zenon

(* Within the cap nothing is given up. *)
LEMMA WithinCapAllIsLeft ==
  ASSUME NEW map, NEW k, NEW bypass,
         MaxEntries = 0 \/ Size(map, shardFor[k]) <= MaxEntries
  PROVE  evictIfNeeded(map, k, bypass) = {map}
BY SMT DEF evictIfNeeded

(* One of the sampled is given up, so something is always left. *)
LEMMA SomethingIsLeft ==
  ASSUME NEW map, NEW k, NEW bypass, NEW l, l \in sampleVictim(map, k),
         NEW admitted, admitted \in admit(bypass),
         ~(MaxEntries = 0 \/ Size(map, shardFor[k]) <= MaxEntries)
  PROVE  [map EXCEPT ![IF admitted THEN l ELSE k] = None] \in evictIfNeeded(map, k, bypass)
<1>1. evictIfNeeded(map, k, bypass)
        = {[map EXCEPT ![IF b THEN v ELSE k] = None] :
             v \in sampleVictim(map, k), b \in admit(bypass)}
  BY SMT DEF evictIfNeeded
<1>2. QED
  BY <1>1, SMT

-----------------------------------------------------------------------------
(* What a step may make of a key that shows *)

(* The shard gave up one key: a sampled victim, or the new key itself.     *)
OneDropped(map, k, bypass, left) ==
  \E l \in sampleVictim(map, k), admitted \in admit(bypass) :
    left = [map EXCEPT ![IF admitted THEN l ELSE k] = None]

LEMMA LeftOverCap ==
  ASSUME NEW map, NEW k, NEW bypass, NEW left, left \in evictIfNeeded(map, k, bypass),
         ~(MaxEntries = 0 \/ Size(map, shardFor[k]) <= MaxEntries)
  PROVE  OneDropped(map, k, bypass, left)
BY DEF evictIfNeeded, OneDropped

(* Admission is bypassed, so a full shard makes room for the new key.      *)
LEMMA BypassKeepsNewKey ==
  ASSUME NEW map, NEW k \in Key, k \in DOMAIN map,
         NEW bypass, bypass = TRUE,
         NEW left, left \in evictIfNeeded(map, k, bypass)
  PROVE  left[k] = map[k]
<1>1. CASE MaxEntries = 0 \/ Size(map, shardFor[k]) <= MaxEntries
  <2>1. left = map
    BY <1>1, WithinCapAllIsLeft, Zenon
  <2>2. QED
    BY <2>1, Zenon
<1>2. CASE ~(MaxEntries = 0 \/ Size(map, shardFor[k]) <= MaxEntries)
  <2>0. OneDropped(map, k, bypass, left)
    BY <1>2, LeftOverCap, Zenon
  <2>1. PICK l \in sampleVictim(map, k), admitted \in admit(bypass) :
          left = [map EXCEPT ![IF admitted THEN l ELSE k] = None]
    BY <2>0, Zenon DEF OneDropped
  <2>2. l # k /\ admitted = TRUE
    BY Zenon DEF sampleVictim, admit
  <2>3. left = [map EXCEPT ![l] = None]
    BY <2>1, <2>2, Zenon
  <2>4. QED
    BY <2>2, <2>3, Zenon
<1>3. QED
  BY <1>1, <1>2, Zenon

(* The entry UpdateReplica stores. *)
LEMMA ReplicaEntryType ==
  ASSUME IInv, NEW k \in Key, NEW w \in Write
  PROVE  [value |-> fn(k, w), expiresAt |-> 0,
          hint |-> insertHint(k, stamps(k) + 1)] \in Entry
<1>1. fn(k, w) \in SUBSET Write
  BY Zenon DEF fn, Found, IInv, TypeOK, Entry
<1>2. stamps(k) \in Nat
  BY Zenon DEF stamps
<1>3. clock[shardFor[k]] \in Nat
  BY StoreAssumption, Zenon DEF IInv, TypeOK
<1>4. insertHint(k, stamps(k) + 1) \in Nat
  BY <1>2, <1>3, StoreAssumption DEF insertHint
<1>5. QED
  BY <1>1, <1>4, Zenon DEF Entry

(* Whatever state UpdateReplica finds the store in and whatever it evicts, *)
(* the key shows the write it was called with, and a full shard always has *)
(* an entry to give up for it: no store drops a write that a coordinator   *)
(* is about to count as an ack.                                            *)
THEOREM ReplicaWritesAreKept == Spec => []ReplicaWriteIsKept
<1>1. ASSUME IInv, NEW k \in Key, NEW w \in Write, NEW left \in replicaOutcomes(k, w)
      PROVE  left[k] # None /\ ~expired(left[k], now) /\ w \in left[k].value
  <2> DEFINE e   == [value |-> fn(k, w), expiresAt |-> 0,
                     hint |-> insertHint(k, stamps(k) + 1)]
             map == [data EXCEPT ![k] = e]
  <2>1. data \in [Key -> Entry \cup {None}]
    BY <1>1, Zenon DEF IInv, TypeOK
  <2>2. k \in DOMAIN map /\ map[k] = e
    BY <2>1, Zenon
  <2>3. left = map \/ left \in evictIfNeeded(map, k, TRUE)
    BY Zenon DEF replicaOutcomes, outcomes
  <2>4. left[k] = e
    <3> HIDE DEF e, map
    <3>1. CASE left = map
      BY <2>2, <3>1, Zenon
    <3>2. CASE left \in evictIfNeeded(map, k, TRUE)
      BY <2>2, <3>2, BypassKeepsNewKey, Zenon
    <3>3. QED
      BY <2>3, <3>1, <3>2, Zenon
  <2>5. e \in Entry
    BY <1>1, ReplicaEntryType, Zenon
  <2>6. e # None
    BY <2>5, NoEntryAssumption, Zenon
  <2>7. ~expired(e, now) /\ w \in e.value
    BY Zenon DEF expired, fn
  <2>8. QED
    BY <2>4, <2>6, <2>7, Zenon
<1>2. ASSUME IInv, NEW k \in Key, NEW w \in Write
      PROVE  replicaOutcomes(k, w) # {}
  <2> DEFINE e   == [value |-> fn(k, w), expiresAt |-> 0,
                     hint |-> insertHint(k, stamps(k) + 1)]
             map == [data EXCEPT ![k] = e]
  <2>1. map \in [Key -> Entry \cup {None}]
    BY <1>2, ReplicaEntryType, Zenon DEF IInv, TypeOK
  <2>2. replicaOutcomes(k, w) = {map} \/ replicaOutcomes(k, w) = evictIfNeeded(map, k, TRUE)
    BY Zenon DEF replicaOutcomes, outcomes
  <2>3. evictIfNeeded(map, k, TRUE) # {}
    <3> HIDE DEF map
    <3>1. CASE MaxEntries = 0 \/ Size(map, shardFor[k]) <= MaxEntries
      <4>1. evictIfNeeded(map, k, TRUE) = {map}
        BY <3>1, WithinCapAllIsLeft, Zenon
      <4>2. QED
        BY <4>1, Zenon
    <3>2. CASE ~(MaxEntries = 0 \/ Size(map, shardFor[k]) <= MaxEntries)
      <4>1. PICK l : l \in sampleVictim(map, k)
        BY <2>1, <3>2, SampleFindsVictim, Zenon
      <4>2. TRUE \in admit(TRUE)
        BY Zenon DEF admit
      <4>3. QED
        BY <3>2, <4>1, <4>2, SomethingIsLeft, Zenon
    <3>3. QED
      BY <3>1, <3>2, Zenon
  <2>4. QED
    BY <2>2, <2>3, Zenon
<1>3. IInv => ReplicaWriteIsKept
  BY <1>1, <1>2, Zenon DEF ReplicaWriteIsKept
<1>4. QED
  BY <1>3, StoreInvariant, PTL

(* A full shard took in a new key. *)
MadeRoom(k) ==
  /\ policy # "none"
  /\ Size(data, shardFor[k]) = MaxEntries
  /\ \E l \in Key \ {k} : /\ shardFor[l] = shardFor[k]
                         /\ data[l] = None
                         /\ data'[l] # None

LEMMA SetLosesForRoom ==
  ASSUME TypeOK, CapHolds, NEW j \in Key, NEW value \in SUBSET Write,
         NEW expiresAt \in Nat, NEW touches \in Nat, NEW bypass \in BOOLEAN,
         expiresAt = 0 \/ expiresAt >= now,
         set(j, value, expiresAt, touches, bypass),
         NEW k \in Key, Found(k), ~Found(k)'
  PROVE  MadeRoom(k)
<1>1. PICK e \in Entry :
        /\ e.value = value /\ e.expiresAt = expiresAt
        /\ \/ Stored(j, e) /\ Fits(j, e)
           \/ \E victim \in Key : StoredFor(j, e, victim)
           \/ data' = data /\ data[j] = None /\ ~bypass
  BY SetOutcome
<1>2. /\ data \in [Key -> Entry \cup {None}] /\ now \in Nat
      /\ e # None /\ now' = now
  BY NoEntryAssumption, Zenon DEF TypeOK, set, leave
<1>3. data'[k] # data[k]
  BY <1>2, SameEntrySameView, Zenon
<1>4. data'[k] # e
  <2>1. ~expired(e, now)
    BY <1>1, <1>2 DEF expired
  <2>2. QED
    BY <1>2, <2>1, Zenon DEF Found
<1>5. PICK victim \in Key : StoredFor(j, e, victim)
  BY <1>1, <1>2, <1>3, <1>4, Zenon DEF Stored
<1>6. /\ k = victim /\ k # j /\ shardFor[k] = shardFor[j]
      /\ policy # "none" /\ MaxEntries # 0
      /\ data[j] = None /\ data'[j] = e
  BY <1>2, <1>3, <1>4, <1>5, Zenon DEF StoredFor
<1>7. Size(data, shardFor[k]) = MaxEntries
  <2> DEFINE map == [data EXCEPT ![j] = e]
  <2>1. Size(map, shardFor[j]) > MaxEntries
    BY <1>5, Zenon DEF StoredFor
  <2>2. /\ j \notin Held(data, shardFor[j])
        /\ Held(map, shardFor[j]) = Held(data, shardFor[j]) \cup {j}
    BY <1>2, <1>6, Zenon DEF Held
  <2> HIDE DEF map
  <2>3. Size(map, shardFor[j]) = Size(data, shardFor[j]) + 1
    BY <2>2, OneMoreHeld
  <2>4. Size(data, shardFor[j]) <= MaxEntries
    BY <1>6, StoreAssumption, Zenon DEF CapHolds
  <2>5. QED
    BY <1>6, <2>1, <2>3, <2>4, HeldFinite, StoreAssumption
<1>8. QED
  BY <1>2, <1>6, <1>7, Zenon DEF MadeRoom

LEMMA NextLoses ==
  ASSUME IInv, CapHolds, [Next]_vars, NEW k \in Key, Found(k), ~Found(k)'
  PROVE  now' # now \/ Delete(k) \/ DeleteIf(k) \/ MadeRoom(k)
<1> USE DEF IInv
<1>1. ASSUME NEW j \in Key, NEW w \in Write, Set(j, w)
      PROVE  MadeRoom(k)
  <2>1. set(j, {w}, 0, 0, FALSE)
    BY <1>1, Zenon DEF Set
  <2>2. QED
    BY <2>1, SetLosesForRoom, Zenon
<1>2. ASSUME NEW j \in Key, NEW w \in Write, UpdateReplica(j, w)
      PROVE  MadeRoom(k)
  <2>1. fn(j, w) \in SUBSET Write
    BY <1>2, UpdateReplicaSets, Zenon
  <2>2. PICK touches \in Nat : set(j, fn(j, w), 0, touches, TRUE)
    BY <1>2, UpdateReplicaSets, Zenon
  <2>3. QED
    BY <2>1, <2>2, SetLosesForRoom, Zenon
<1>3. ASSUME NEW j \in Key, NEW w \in Write, NEW ttl \in TTL, SetWithTTL(j, w, ttl)
      PROVE  MadeRoom(k)
  <2>1. PICK t \in Nat : t >= now /\ set(j, {w}, t, 0, FALSE)
    BY <1>3, SetWithTTLSets, Zenon
  <2>2. QED
    BY <2>1, SetLosesForRoom, Zenon
<1>4. ASSUME NEW j \in Key, Delete(j) \/ DeleteIf(j)
      PROVE  Delete(k) \/ DeleteIf(k)
  <2>1. ASSUME j # k
        PROVE  FALSE
    BY <1>4, <2>1, SameEntrySameView, Zenon DEF Delete, DeleteIf, TypeOK
  <2>2. QED
    BY <1>4, <2>1, Zenon
<1>5. ASSUME NEW g \in Reader, recordAccess(g)
      PROVE  FALSE
  <2>1. /\ reading[g].key \in Key /\ reading[g].stamp \in Nat
        /\ data[reading[g].key] # None
    BY <1>5, Zenon DEF recordAccess, TypeOK, ReadersHoldEntries
  <2>2. QED
    BY <1>5, <2>1, HintShowsNothing, Zenon DEF recordAccess
<1>6. ASSUME NEW g \in Reader, NEW j \in Key, Get(g, j)
      PROVE  FALSE
  <2>1. data[j] # None /\ accessHint(j, 1) \in Nat /\ now' = now
    BY <1>6, AccessHintType, Zenon DEF Get, Found
  <2>2. CASE data' = data
    BY <2>1, <2>2, SameEntrySameView, Zenon
  <2>3. CASE data' = [data EXCEPT ![j].hint = accessHint(j, 1)]
    BY <2>1, <2>3, HintShowsNothing, Zenon
  <2>4. QED
    BY <1>6, <2>2, <2>3, Zenon DEF Get
<1>7. CASE reapExpired
  BY <1>7, ReapShowsNothing, Zenon
<1>8. CASE Tick
  BY <1>8 DEF Tick, TypeOK
<1>9. CASE reapStart \/ UNCHANGED vars
  BY <1>9, SameEntrySameView, Zenon DEF reapStart, vars
<1>10. QED
  BY <1>1, <1>2, <1>3, <1>4, <1>5, <1>6, <1>7, <1>8, <1>9, Zenon DEF Next

(* For any keys and any constants, a key that showed stops showing only    *)
(* because its time came, it was deleted, or a new key needed its place in *)
(* a full shard: neither readers nor the janitor, whose time is older than *)
(* the locks it takes, lose what Get would still find.                     *)
THEOREM LossesAreNeeded == Spec => NothingLostNeedlessly
<1>1. IInv /\ CapHolds /\ [Next]_vars =>
        [\A k \in Key :
           Found(k) /\ ~Found(k)' =>
             \/ now' # now
             \/ Delete(k)
             \/ DeleteIf(k)
             \/ /\ policy # "none"
                /\ Size(data, shardFor[k]) = MaxEntries
                /\ \E l \in Key \ {k} : /\ shardFor[l] = shardFor[k]
                                       /\ data[l] = None
                                       /\ data'[l] # None]_vars
  BY NextLoses, Zenon DEF MadeRoom
<1>2. QED
  BY <1>1, StoreInvariant, CapIsKept, PTL DEF Spec, NothingLostNeedlessly
=============================================================================
