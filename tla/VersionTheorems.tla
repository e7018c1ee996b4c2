--------------------------- MODULE VersionTheorems ---------------------------
(***************************************************************************)
(* Facts about clocks and sibling sets, for every set of nodes and every   *)
(* counter value.  The proofs of the protocol modules rest on them.        *)
(***************************************************************************)
EXTENDS VersionFold, TLAPS

(* The four verdicts of Clock.Compare in terms of Leq. *)
LEMMA CompareVerdicts ==
  ASSUME NEW c, NEW d
  PROVE  /\ Compare(c, d) = "Before" <=> (Leq(c, d) /\ ~Leq(d, c))
         /\ Compare(c, d) = "After" <=> (Leq(d, c) /\ ~Leq(c, d))
         /\ Compare(c, d) = "Equal" <=> (Leq(c, d) /\ Leq(d, c))
         /\ Compare(c, d) = "Concurrent" <=> (~Leq(c, d) /\ ~Leq(d, c))
<1>1. aheadOf(c, d) \in BOOLEAN /\ aheadOf(d, c) \in BOOLEAN
  BY DEF aheadOf
<1>2. QED
  BY <1>1 DEF Compare, Leq

(* Leq on clocks is pointwise. *)
LEMMA LeqPointwise ==
  ASSUME NEW c \in Clock, NEW d \in Clock
  PROVE  Leq(c, d) <=> \A n \in Node : c[n] <= d[n]
BY DEF Leq, aheadOf, Clock

LEMMA LeqReflexive ==
  ASSUME NEW c \in Clock
  PROVE  Leq(c, c)
BY LeqPointwise DEF Clock

LEMMA LeqTransitive ==
  ASSUME NEW c \in Clock, NEW d \in Clock, NEW e \in Clock,
         Leq(c, d), Leq(d, e)
  PROVE  Leq(c, e)
<1>1. \A n \in Node : c[n] <= d[n] /\ d[n] <= e[n]
  BY LeqPointwise
<1>2. \A n \in Node : c[n] <= e[n]
  BY <1>1 DEF Clock
<1>3. QED
  BY <1>2, LeqPointwise

LEMMA LeqAntisymmetric ==
  ASSUME NEW c \in Clock, NEW d \in Clock, Leq(c, d), Leq(d, c)
  PROVE  c = d
<1>1. \A n \in Node : c[n] = d[n]
  BY LeqPointwise DEF Clock
<1>2. QED
  BY <1>1 DEF Clock

-----------------------------------------------------------------------------
(* Reconcile returns nothing but the versions it was given. *)
LEMMA ReconcileSubset ==
  ASSUME NEW S, NEW v
  PROVE  Reconcile(S, v) \subseteq S \cup {v}
BY DEF Reconcile

(* version.Reconcile loses nothing: every version it was given is in the   *)
(* result or superseded by one that is.                                    *)
THEOREM ReconcileCovers ==
  ASSUME NEW S \in SUBSET Version, NEW v \in Version, NEW w \in S \cup {v}
  PROVE  Covers(Reconcile(S, v), w)
<1> DEFINE kept == Reconcile(S, v)
<1>1. \A u \in S \cup {v} : u.clock \in Clock
  BY DEF Version
<1>2. CASE \E u \in S : Leq(v.clock, u.clock)
  <2>1. PICK u \in S : Leq(v.clock, u.clock)
    BY <1>2
  <2>2. u \in kept
    BY <2>1, CompareVerdicts DEF Reconcile
  <2>3. CASE Leq(w.clock, v.clock)
    <3>1. Leq(w.clock, u.clock)
      BY <1>1, <2>1, <2>3, LeqTransitive
    <3>2. QED
      BY <2>2, <3>1 DEF Covers
  <2>4. CASE ~Leq(w.clock, v.clock)
    <3>1. w \in S /\ Compare(w.clock, v.clock) # "Before"
      BY <1>1, <2>4, LeqReflexive, CompareVerdicts
    <3>2. w \in kept
      BY <3>1 DEF Reconcile
    <3>3. QED
      BY <1>1, <3>2, LeqReflexive DEF Covers
  <2>5. QED
    BY <2>3, <2>4
<1>3. CASE ~\E u \in S : Leq(v.clock, u.clock)
  <2>1. v \in kept
    BY <1>3, CompareVerdicts DEF Reconcile
  <2>2. CASE Leq(w.clock, v.clock)
    BY <2>1, <2>2 DEF Covers
  <2>3. CASE ~Leq(w.clock, v.clock)
    <3>1. w \in S /\ Compare(w.clock, v.clock) # "Before"
      BY <1>1, <2>3, LeqReflexive, CompareVerdicts
    <3>2. w \in kept
      BY <3>1 DEF Reconcile
    <3>3. QED
      BY <1>1, <3>2, LeqReflexive DEF Covers
  <2>4. QED
    BY <2>2, <2>3
<1>4. QED
  BY <1>2, <1>3

(* version.Reconcile keeps a sibling set a sibling set. *)
LEMMA ReconcileSiblings ==
  ASSUME NEW S \in SUBSET Version, NEW v \in Version, Siblings(S)
  PROVE  Siblings(Reconcile(S, v))
<1> SUFFICES ASSUME NEW u \in Reconcile(S, v), NEW w \in Reconcile(S, v), u # w
             PROVE  Compare(u.clock, w.clock) = "Concurrent"
  BY DEF Siblings
<1>1. CASE u \in S /\ w \in S
  BY <1>1 DEF Siblings
<1>2. CASE u \notin S \/ w \notin S
  <2>1. \A x \in S : Compare(x.clock, v.clock) \notin {"After", "Equal"}
    BY <1>2 DEF Reconcile
  <2>2. \A x \in Reconcile(S, v) \cap S : Compare(x.clock, v.clock) = "Concurrent"
    <3> SUFFICES ASSUME NEW x \in Reconcile(S, v) \cap S
                 PROVE  Compare(x.clock, v.clock) = "Concurrent"
      OBVIOUS
    <3>1. CASE x = v
      BY <2>1, <3>1, LeqReflexive, CompareVerdicts DEF Version
    <3>2. CASE x # v
      BY <2>1, <3>2, CompareVerdicts DEF Reconcile
    <3>3. QED
      BY <3>1, <3>2
  <2>3. QED
    BY <1>2, <2>2, ReconcileSubset, CompareVerdicts
<1>3. QED
  BY <1>1, <1>2

-----------------------------------------------------------------------------
(* Folding a sibling set into another one loses nothing either. *)
THEOREM ReconcileAllCovers ==
  ASSUME NEW S \in SUBSET Version, NEW T \in SUBSET Version,
         Siblings(S), Siblings(T), NEW w \in S \cup T
  PROVE  Covers(ReconcileAll(S, T), w)
<1>1. \A u \in S \cup T : u.clock \in Clock
  BY DEF Version
<1>2. CASE w \in ReconcileAll(S, T)
  BY <1>1, <1>2, LeqReflexive DEF Covers
<1>3. CASE w \in S /\ w \notin ReconcileAll(S, T)
  <2>1. PICK t \in T : Leq(w.clock, t.clock) /\ ~Leq(t.clock, w.clock)
    BY <1>3, CompareVerdicts DEF ReconcileAll
  <2>2. \A s \in S : ~Leq(t.clock, s.clock)
    <3> SUFFICES ASSUME NEW s \in S, Leq(t.clock, s.clock)
                 PROVE  FALSE
      OBVIOUS
    <3>1. Leq(w.clock, s.clock)
      BY <1>1, <1>3, <2>1, LeqTransitive
    <3>2. s # w
      BY <2>1
    <3>3. QED
      BY <1>3, <3>1, <3>2, CompareVerdicts DEF Siblings
  <2>3. t \in ReconcileAll(S, T)
    BY <2>2, CompareVerdicts DEF ReconcileAll
  <2>4. QED
    BY <2>1, <2>3 DEF Covers
<1>4. CASE w \in T /\ w \notin ReconcileAll(S, T)
  <2>1. PICK s \in S : Leq(w.clock, s.clock)
    BY <1>4, CompareVerdicts DEF ReconcileAll
  <2>2. \A t \in T : ~(Leq(s.clock, t.clock) /\ ~Leq(t.clock, s.clock))
    <3> SUFFICES ASSUME NEW t \in T, Leq(s.clock, t.clock), ~Leq(t.clock, s.clock)
                 PROVE  FALSE
      OBVIOUS
    <3>1. Leq(w.clock, t.clock)
      BY <1>1, <1>4, <2>1, LeqTransitive
    <3>2. t # w
      BY <2>1
    <3>3. QED
      BY <1>4, <3>1, <3>2, CompareVerdicts DEF Siblings
  <2>3. s \in ReconcileAll(S, T)
    BY <2>2, CompareVerdicts DEF ReconcileAll
  <2>4. QED
    BY <2>1, <2>3 DEF Covers
<1>5. QED
  BY <1>2, <1>3, <1>4

LEMMA ReconcileAllSubset ==
  ASSUME NEW S, NEW T
  PROVE  ReconcileAll(S, T) \subseteq S \cup T
BY DEF ReconcileAll

LEMMA ReconcileAllSiblings ==
  ASSUME NEW S \in SUBSET Version, NEW T \in SUBSET Version,
         Siblings(S), Siblings(T)
  PROVE  Siblings(ReconcileAll(S, T))
<1> SUFFICES ASSUME NEW u \in ReconcileAll(S, T), NEW w \in ReconcileAll(S, T),
                    u # w
             PROVE  Compare(u.clock, w.clock) = "Concurrent"
  BY DEF Siblings
<1>1. CASE (u \in S /\ w \in S) \/ (u \in T /\ w \in T)
  BY <1>1 DEF Siblings
<1>2. \A x \in S : Compare(x.clock, x.clock) = "Equal"
  BY LeqReflexive, CompareVerdicts DEF Version
<1>3. ASSUME NEW x \in ReconcileAll(S, T) \cap S, NEW y \in ReconcileAll(S, T) \ S
      PROVE  Compare(x.clock, y.clock) = "Concurrent"
  <2>1. y \in T /\ Compare(x.clock, y.clock) \notin {"After", "Equal"}
    BY DEF ReconcileAll
  <2>2. Compare(x.clock, y.clock) # "Before"
    BY <1>2, <2>1 DEF ReconcileAll
  <2>3. QED
    BY <2>1, <2>2, CompareVerdicts
<1>4. QED
  BY <1>1, <1>3, ReconcileAllSubset, CompareVerdicts

-----------------------------------------------------------------------------
(* The frontier.  Max is a CHOOSE, so it means something only where the    *)
(* maximum exists: HasFrontier says it does, and every set a node can hold *)
(* keeps it.                                                               *)

IsTop(S, n, m) ==
  /\ m = 0 \/ \E w \in S : w.clock[n] = m
  /\ \A w \in S : w.clock[n] <= m

HasFrontier(S) == \A n \in Node : \E m \in Nat : IsTop(S, n, m)

LEMMA FrontierIsTop ==
  ASSUME NEW S \in SUBSET Version, HasFrontier(S), NEW n \in Node
  PROVE  Frontier(S)[n] \in Nat /\ IsTop(S, n, Frontier(S)[n])
<1> DEFINE V == {0} \cup {v.clock[n] : v \in S}
<1>1. V \subseteq Nat
  BY DEF Version, Clock
<1>2. PICK m \in Nat : IsTop(S, n, m)
  BY DEF HasFrontier
<1>3. m \in V /\ \A y \in V : m >= y
  BY <1>1, <1>2 DEF IsTop, Version, Clock
<1>4. Max(V) \in V /\ \A y \in V : Max(V) >= y
  BY <1>3 DEF Max
<1>5. Frontier(S)[n] = Max(V)
  BY DEF Frontier
<1>6. \A w \in S : w.clock[n] \in V
  OBVIOUS
<1>7. QED
  BY <1>1, <1>4, <1>5, <1>6 DEF IsTop

LEMMA FrontierType ==
  ASSUME NEW S \in SUBSET Version, HasFrontier(S)
  PROVE  Frontier(S) \in Clock
<1>1. \A n \in Node : Frontier(S)[n] \in Nat
  BY FrontierIsTop
<1>2. Frontier(S) = [n \in Node |-> Frontier(S)[n]]
  BY DEF Frontier
<1>3. QED
  BY <1>1, <1>2 DEF Clock

(* A set that is drawn from S and covers all of S has S's frontier. *)
LEMMA CoveringHasFrontier ==
  ASSUME NEW S \in SUBSET Version, NEW T \in SUBSET S, HasFrontier(S),
         \A w \in S : Covers(T, w)
  PROVE  HasFrontier(T)
<1> SUFFICES ASSUME NEW n \in Node
             PROVE  \E m \in Nat : IsTop(T, n, m)
  BY DEF HasFrontier
<1>1. PICK m \in Nat : IsTop(S, n, m)
  BY DEF HasFrontier
<1>2. \A w \in T : w.clock[n] <= m
  BY <1>1 DEF IsTop
<1>3. CASE m = 0
  BY <1>2, <1>3 DEF IsTop
<1>4. CASE m # 0
  <2>1. PICK w \in S : w.clock[n] = m
    BY <1>1, <1>4 DEF IsTop
  <2>2. PICK t \in T : Leq(w.clock, t.clock)
    BY DEF Covers
  <2>3. w.clock \in Clock /\ t.clock \in Clock
    BY DEF Version
  <2>4. m <= t.clock[n] /\ t.clock[n] \in Nat
    BY <2>1, <2>2, <2>3, LeqPointwise DEF Clock
  <2>5. t.clock[n] = m
    BY <1>2, <2>4
  <2>6. QED
    BY <1>2, <2>5 DEF IsTop
<1>5. QED
  BY <1>3, <1>4

LEMMA UnionHasFrontier ==
  ASSUME NEW S \in SUBSET Version, NEW T \in SUBSET Version,
         HasFrontier(S), HasFrontier(T)
  PROVE  HasFrontier(S \cup T)
<1> SUFFICES ASSUME NEW n \in Node
             PROVE  \E m \in Nat : IsTop(S \cup T, n, m)
  BY DEF HasFrontier
<1>1. PICK i \in Nat : IsTop(S, n, i)
  BY DEF HasFrontier
<1>2. PICK j \in Nat : IsTop(T, n, j)
  BY DEF HasFrontier
<1>3. \A w \in S \cup T : w.clock[n] \in Nat
  BY DEF Version, Clock
<1>4. CASE i <= j
  <2>1. IsTop(S \cup T, n, j)
    BY <1>1, <1>2, <1>3, <1>4 DEF IsTop
  <2>2. QED
    BY <2>1
<1>5. CASE j <= i
  <2>1. IsTop(S \cup T, n, i)
    BY <1>1, <1>2, <1>3, <1>5 DEF IsTop
  <2>2. QED
    BY <2>1
<1>6. QED
  BY <1>4, <1>5

LEMMA SingletonHasFrontier ==
  ASSUME NEW v \in Version
  PROVE  HasFrontier({v})
<1> SUFFICES ASSUME NEW n \in Node
             PROVE  \E m \in Nat : IsTop({v}, n, m)
  BY DEF HasFrontier
<1>1. v.clock[n] \in Nat /\ IsTop({v}, n, v.clock[n])
  BY DEF IsTop, Version, Clock
<1>2. QED
  BY <1>1

-----------------------------------------------------------------------------
(* The sets a node can hold or send for a key. *)
SibSet == {S \in SUBSET Version : Siblings(S) /\ HasFrontier(S)}

LEMMA SibSetVersions == \A S \in SibSet : S \in SUBSET Version
BY DEF SibSet

LEMMA SibSetEmpty == {} \in SibSet
<1>1. HasFrontier({})
  BY DEF HasFrontier, IsTop
<1>2. QED
  BY <1>1 DEF SibSet, Siblings

LEMMA SibSetReconcile ==
  ASSUME NEW S \in SibSet, NEW v \in Version
  PROVE  Reconcile(S, v) \in SibSet
<1>1. S \in SUBSET Version /\ Siblings(S) /\ HasFrontier(S)
  BY DEF SibSet
<1>2. Siblings(Reconcile(S, v))
  BY <1>1, ReconcileSiblings
<1>3. HasFrontier(S \cup {v})
  BY <1>1, UnionHasFrontier, SingletonHasFrontier
<1>4. /\ Reconcile(S, v) \in SUBSET (S \cup {v})
      /\ \A w \in S \cup {v} : Covers(Reconcile(S, v), w)
  BY <1>1, ReconcileSubset, ReconcileCovers
<1>5. HasFrontier(Reconcile(S, v))
  BY <1>1, <1>3, <1>4, CoveringHasFrontier
<1>6. QED
  BY <1>1, <1>2, <1>4, <1>5 DEF SibSet

LEMMA SibSetReconcileAll ==
  ASSUME NEW S \in SibSet, NEW T \in SibSet
  PROVE  ReconcileAll(S, T) \in SibSet
<1>1. /\ S \in SUBSET Version /\ Siblings(S) /\ HasFrontier(S)
      /\ T \in SUBSET Version /\ Siblings(T) /\ HasFrontier(T)
  BY DEF SibSet
<1>2. Siblings(ReconcileAll(S, T))
  BY <1>1, ReconcileAllSiblings
<1>3. HasFrontier(S \cup T)
  BY <1>1, UnionHasFrontier
<1>4. /\ ReconcileAll(S, T) \in SUBSET (S \cup T)
      /\ \A w \in S \cup T : Covers(ReconcileAll(S, T), w)
  BY <1>1, ReconcileAllSubset, ReconcileAllCovers
<1>5. HasFrontier(ReconcileAll(S, T))
  BY <1>1, <1>3, <1>4, CoveringHasFrontier
<1>6. QED
  BY <1>1, <1>2, <1>4, <1>5 DEF SibSet

(* The clock a write mints is a clock, and exceeds every stored clock in   *)
(* the coordinator's own entry.                                            *)
LEMMA MintedClock ==
  ASSUME NEW S \in SibSet, NEW c \in Node
  PROVE  /\ Increment(Frontier(S), c) \in Clock
         /\ \A w \in S : w.clock[c] < Increment(Frontier(S), c)[c]
         /\ 0 < Increment(Frontier(S), c)[c]
         /\ \A n \in Node \ {c} : Increment(Frontier(S), c)[n] = Frontier(S)[n]
<1>1. S \in SUBSET Version /\ HasFrontier(S)
  BY DEF SibSet
<1>2. Frontier(S) \in Clock
  BY <1>1, FrontierType
<1>3. \A w \in S : w.clock[c] <= Frontier(S)[c] /\ w.clock[c] \in Nat
  BY <1>1, FrontierIsTop DEF IsTop, Version, Clock
<1>4. QED
  BY <1>2, <1>3 DEF Increment, Clock

-----------------------------------------------------------------------------
(* The loop that folds a fetched sibling set into a local one. *)

(* One turn of the loop, on the closed form: v is the next version, done   *)
(* the ones already visited.                                               *)
LEMMA FoldOne ==
  ASSUME NEW S \in SUBSET Version, NEW done \in SUBSET Version,
         NEW v \in Version, v \notin done,
         Siblings(S), Siblings(done \cup {v})
  PROVE  Reconcile(ReconcileAll(S, done), v) = ReconcileAll(S, done \cup {v})
<1> DEFINE acc == ReconcileAll(S, done)
<1>1. \A u \in S \cup done \cup {v} : u.clock \in Clock
  BY DEF Version
<1>2. \A d \in done : ~Leq(v.clock, d.clock) /\ ~Leq(d.clock, v.clock)
  BY CompareVerdicts DEF Siblings
(* A stored version that covers v survived the versions visited before v. *)
<1>3. ASSUME NEW s \in S, Leq(v.clock, s.clock)
      PROVE  s \in acc
  <2>1. \A d \in done : Compare(s.clock, d.clock) # "Before"
    <3> SUFFICES ASSUME NEW d \in done, Leq(s.clock, d.clock)
                 PROVE  FALSE
      BY CompareVerdicts
    <3>1. Leq(v.clock, d.clock)
      BY <1>1, <1>3, LeqTransitive
    <3>2. QED
      BY <1>2, <3>1
  <2>2. QED
    BY <2>1 DEF ReconcileAll
<1>4. (\E u \in acc : Compare(u.clock, v.clock) \in {"After", "Equal"})
        <=> (\E s \in S : Compare(s.clock, v.clock) \in {"After", "Equal"})
  <2>1. ASSUME NEW u \in acc, Compare(u.clock, v.clock) \in {"After", "Equal"}
        PROVE  u \in S
    BY <1>2, <2>1, CompareVerdicts DEF ReconcileAll
  <2>2. ASSUME NEW s \in S, Compare(s.clock, v.clock) \in {"After", "Equal"}
        PROVE  s \in acc
    BY <1>3, <2>2, CompareVerdicts
  <2>3. QED
    BY <2>1, <2>2
<1>5. {u \in acc : Compare(u.clock, v.clock) # "Before"}
        = {s \in S : \A w \in done \cup {v} : Compare(s.clock, w.clock) # "Before"}
            \cup
          {d \in done : \A s \in S : Compare(s.clock, d.clock) \notin {"After", "Equal"}}
  <2>1. \A d \in done : Compare(d.clock, v.clock) # "Before"
    BY <1>2, CompareVerdicts
  <2>2. QED
    BY <2>1 DEF ReconcileAll
<1>6. QED
  BY <1>4, <1>5 DEF Reconcile, ReconcileAll

LEMMA FoldTypesHold == FoldSpec => []FoldTypeOK
<1>1. FoldInit => FoldTypeOK
  BY DEF FoldInit, FoldTypeOK, SiblingSets
<1>2. FoldTypeOK /\ [FoldNext]_foldVars => FoldTypeOK'
  <2> SUFFICES ASSUME FoldTypeOK, [FoldNext]_foldVars
               PROVE  FoldTypeOK'
    OBVIOUS
  <2>1. ASSUME NEW v \in todo, FoldStep(v)
        PROVE  FoldTypeOK'
    <3>1. v \in Version
      BY DEF FoldTypeOK, SiblingSets
    <3>2. result' \subseteq Version
      BY <2>1, <3>1, ReconcileSubset DEF FoldStep, FoldTypeOK
    <3>3. QED
      BY <2>1, <3>2 DEF FoldStep, FoldTypeOK
  <2>2. CASE UNCHANGED foldVars
    BY <2>2 DEF foldVars, FoldTypeOK
  <2>3. QED
    BY <2>1, <2>2 DEF FoldNext
<1>3. QED
  BY <1>1, <1>2, PTL DEF FoldSpec

(* For all sibling sets over any nodes and counters: whatever order the    *)
(* peer returned its siblings in, the loops of Coordinator.read, readRepair*)
(* and syncWith compute ReconcileAll.                                      *)
THEOREM FoldComputesReconcileAll == FoldSpec => []FoldIsReconcileAll
<1>1. FoldInit => FoldIsReconcileAll
  <2> SUFFICES ASSUME FoldInit
               PROVE  result = ReconcileAll(existing, incoming \ todo)
    BY DEF FoldIsReconcileAll
  <2>1. incoming \ todo = {} /\ result = existing
    BY DEF FoldInit
  <2>2. ReconcileAll(existing, {}) = existing
    BY DEF ReconcileAll
  <2>3. QED
    BY <2>1, <2>2
<1>2. FoldTypeOK /\ FoldIsReconcileAll /\ [FoldNext]_foldVars => FoldIsReconcileAll'
  <2> SUFFICES ASSUME FoldTypeOK, FoldIsReconcileAll, [FoldNext]_foldVars
               PROVE  FoldIsReconcileAll'
    OBVIOUS
  <2>1. ASSUME NEW v \in todo, FoldStep(v)
        PROVE  FoldIsReconcileAll'
    <3> DEFINE done == incoming \ todo
    <3>1. /\ existing \in SUBSET Version
          /\ done \in SUBSET Version
          /\ v \in Version
      BY DEF FoldTypeOK, SiblingSets
    <3>2. v \notin done /\ Siblings(existing) /\ Siblings(done \cup {v})
      BY DEF FoldTypeOK, SiblingSets, Siblings
    <3>3. Reconcile(ReconcileAll(existing, done), v)
            = ReconcileAll(existing, done \cup {v})
      BY <3>1, <3>2, FoldOne
    <3>4. incoming' \ todo' = done \cup {v}
      BY <2>1 DEF FoldStep, FoldTypeOK
    <3>5. QED
      BY <2>1, <3>3, <3>4 DEF FoldStep, FoldIsReconcileAll
  <2>2. CASE UNCHANGED foldVars
    BY <2>2 DEF foldVars, FoldIsReconcileAll
  <2>3. QED
    BY <2>1, <2>2 DEF FoldNext
<1>3. QED
  BY <1>1, <1>2, FoldTypesHold, PTL DEF FoldSpec

(* The accumulator of those loops is a sibling set at every turn, so what  *)
(* is stored or answered never holds a superseded version.                 *)
THEOREM FoldIsSiblings == FoldSpec => []FoldKeepsSiblings
<1>1. FoldTypeOK /\ FoldIsReconcileAll => FoldKeepsSiblings
  <2> SUFFICES ASSUME FoldTypeOK, FoldIsReconcileAll
               PROVE  Siblings(result)
    BY DEF FoldKeepsSiblings
  <2>1. /\ existing \in SUBSET Version
        /\ incoming \ todo \in SUBSET Version
    BY DEF FoldTypeOK, SiblingSets
  <2>2. Siblings(existing) /\ Siblings(incoming \ todo)
    BY DEF FoldTypeOK, SiblingSets, Siblings
  <2>3. QED
    BY <2>1, <2>2, ReconcileAllSiblings DEF FoldIsReconcileAll
<1>2. QED
  BY <1>1, FoldTypesHold, FoldComputesReconcileAll, PTL
=============================================================================
