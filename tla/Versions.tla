------------------------------ MODULE Versions ------------------------------
(***************************************************************************)
(* Vector clocks (internal/vclock) and versioned sibling sets              *)
(* (internal/version).                                                     *)
(*                                                                         *)
(* A clock is a total function: the code reads a node missing from the map *)
(* as 0, so a missing entry and a zero entry are the same clock.  A sibling*)
(* set is a TLA+ set: Reconcile never puts two versions with equal clocks  *)
(* in one slice, and the order of the slice only decides which live sibling*)
(* a GET returns.  Counters are unbounded; the code's uint64 would need    *)
(* 2^64 writes of one key to wrap.                                         *)
(***************************************************************************)
EXTENDS Integers, FiniteSets, FiniteSetsExt

CONSTANTS Node,     \* node IDs, the keys of a clock
          Value,    \* payloads a client may write
          NoValue   \* the nil payload of a tombstone

ASSUME NoValueAssumption == NoValue \notin Value

Clock == [Node -> Nat]

Version == [value : Value \cup {NoValue}, clock : Clock,
            deleted : BOOLEAN, deletedAt : Nat]

Increment(c, node) == [c EXCEPT ![node] = @ + 1]

aheadOf(c, d) == \E n \in Node : c[n] > d[n]

Compare(c, d) ==
  IF aheadOf(c, d)
  THEN IF aheadOf(d, c) THEN "Concurrent" ELSE "After"
  ELSE IF aheadOf(d, c) THEN "Before" ELSE "Equal"

(* Mutant: superseded versions stay next to the one that supersedes them. *)
ReconcileKeepsAll(existing, incoming) ==
  IF \E v \in existing : Compare(v.clock, incoming.clock) \in {"After", "Equal"}
  THEN existing
  ELSE existing \cup {incoming}

(* Fold one version into a sibling set.  Existing versions the incoming    *)
(* one supersedes go; the incoming one is added unless it is covered.      *)
Reconcile(existing, incoming) ==
  LET covered == \E v \in existing :
                   Compare(v.clock, incoming.clock) \in {"After", "Equal"}
      kept    == {v \in existing : Compare(v.clock, incoming.clock) # "Before"}
  IN  IF covered THEN kept ELSE kept \cup {incoming}

(* The loop "for v in incoming: existing = Reconcile(existing, v)" in      *)
(* closed form.  VersionFold shows that the loop computes it in any order. *)
ReconcileAll(existing, incoming) ==
  {v \in existing : \A w \in incoming : Compare(v.clock, w.clock) # "Before"}
    \cup
  {w \in incoming : \A v \in existing :
                      Compare(v.clock, w.clock) \notin {"After", "Equal"}}

(* Clock.Merge over the whole set: the pointwise maximum. *)
Frontier(versions) ==
  [n \in Node |-> Max({0} \cup {v.clock[n] : v \in versions})]

(* Mutant: the deletion time is left at the zero time, before the epoch. *)
TombstoneZeroTime(clock, at) ==
  [value |-> NoValue, clock |-> clock, deleted |-> TRUE, deletedAt |-> -1]

Tombstone(clock, at) ==
  [value |-> NoValue, clock |-> clock, deleted |-> TRUE, deletedAt |-> at]

Live(versions) == {v \in versions : ~v.deleted}

(* version.Equal: DeletedAt is not compared. *)
Equal(a, b) ==
  /\ Cardinality(a) = Cardinality(b)
  /\ \A va \in a : \E vb \in b :
       /\ va.value = vb.value
       /\ Compare(va.clock, vb.clock) = "Equal"
       /\ va.deleted = vb.deleted

(* Encode writes a clock in map order and siblings in arrival order, so    *)
(* equal sets need not be equal bytes.                                     *)
manyEncodings(S) ==
  \/ Cardinality(S) > 1
  \/ \E v \in S : Cardinality({n \in Node : v.clock[n] > 0}) > 1

(* The tombstone collector's test: nothing but tombstones, every one past  *)
(* the grace period.  deletedAt is cut to seconds and the collector's time *)
(* is not: in whole seconds, more than the grace period is the grace       *)
(* period.                                                                 *)
reapable(versions, at, grace) ==
  /\ versions # {}
  /\ Live(versions) = {}
  /\ \A v \in versions : at - v.deletedAt >= grace

-----------------------------------------------------------------------------
(* Vocabulary for stating properties; not code. *)

Leq(c, d) == ~aheadOf(c, d)

(* A sibling set covers a version when the version, or one that descends   *)
(* it, is in the set.                                                      *)
Covers(versions, v) == \E w \in versions : Leq(v.clock, w.clock)

(* No member supersedes or duplicates another. *)
Siblings(versions) ==
  \A v, w \in versions : v # w => Compare(v.clock, w.clock) = "Concurrent"
=============================================================================
