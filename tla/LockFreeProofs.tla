--------------------------- MODULE LockFreeProofs ---------------------------
(***************************************************************************)
(* The telemetry and the sketch for any number of goroutines, buckets,     *)
(* durations, rows, columns and collisions between keys.                   *)
(***************************************************************************)
EXTENDS LockFree, FiniteSetTheorems, TLAPS

(* Every non-empty set of naturals has a least element.  This is induction *)
(* in a form without an operator parameter.                                *)
LessThan == {p \in Nat \X Nat : p[1] < p[2]}

LEMMA LeastNatural ==
  ASSUME NEW S \in SUBSET Nat, S # {}
  PROVE  \E m \in S : \A n \in S : m <= n
<1>1. IsWellFoundedOn(LessThan, Nat)
  BY NatLessThanWellFounded, Zenon DEF OpToRel, LessThan
<1>2. PICK m \in S : \A n \in S : <<n, m>> \notin LessThan
  BY <1>1, WFMin, Zenon
<1>3. ASSUME NEW n \in S
      PROVE  m <= n
  <2>1. m \in Nat /\ n \in Nat /\ <<n, m>> \notin LessThan
    BY <1>2, Zenon
  <2>2. QED
    BY <2>1 DEF LessThan
<1>4. QED
  BY <1>3, Zenon

LEMMA LeastIsMin ==
  ASSUME NEW S \in SUBSET Nat, S # {}
  PROVE  Min(S) \in S /\ \A n \in S : Min(S) <= n
<1>1. \E m \in S : \A n \in S : m <= n
  BY LeastNatural, Zenon
<1>2. QED
  BY <1>1, Zenon DEF Min

-----------------------------------------------------------------------------
(* Sums over finite sets.  The fold behind Total takes the elements in the *)
(* order of CHOOSE; for naturals the order is immaterial.                  *)

Pick(s) == CHOOSE x \in s : TRUE

SumStep(f, g, s) == IF s = {} THEN 0 ELSE f[Pick(s)] + g[s \ {Pick(s)}]

IsSum(f, S, iter) == iter = [s \in SUBSET S |-> SumStep(f, iter, s)]

LEMMA TotalIsSum ==
  ASSUME NEW f, NEW S
  PROVE  T!Total(f, S) = (CHOOSE iter : IsSum(f, S, iter))[S]
BY Zenon DEF T!Total, T!MapThenSumSet, T!MapThenFoldSet, IsSum, SumStep, Pick

LEMMA PickShrinks ==
  ASSUME NEW S, IsFiniteSet(S), S # {}
  PROVE  /\ Pick(S) \in S /\ IsFiniteSet(S \ {Pick(S)})
         /\ Cardinality(S) \in Nat /\ Cardinality(S \ {Pick(S)}) \in Nat
         /\ Cardinality(S \ {Pick(S)}) = Cardinality(S) - 1
<1>1. Pick(S) \in S
  BY Zenon DEF Pick
<1>2. IsFiniteSet(S \ {Pick(S)}) /\ Cardinality(S \ {Pick(S)}) = Cardinality(S) - 1
  BY <1>1, FS_RemoveElement, Zenon
<1>3. QED
  BY <1>1, <1>2, FS_CardinalityType, Zenon

(* The recursion behind the fold has a solution: by induction on the size  *)
(* of the subsets it is defined for.                                       *)
LEMMA SumExists ==
  ASSUME NEW S, IsFiniteSet(S), NEW f
  PROVE  \E iter : IsSum(f, S, iter)
<1> DEFINE Low(n)      == {s \in SUBSET S : Cardinality(s) <= n}
           Solves(g, n) == g = [s \in Low(n) |-> SumStep(f, g, s)]
           bad         == {n \in Nat : ~\E g : Solves(g, n)}
<1>1. \A s \in SUBSET S : IsFiniteSet(s) /\ Cardinality(s) \in Nat
  BY FS_Subset, FS_CardinalityType, Zenon
<1>2. \E g : Solves(g, 0)
  <2> DEFINE g == [s \in Low(0) |-> 0]
  <2>1. ASSUME NEW s \in Low(0)
        PROVE  SumStep(f, g, s) = 0
    <3>1. Cardinality(s) = 0 /\ IsFiniteSet(s)
      BY <1>1
    <3>2. s = {}
      BY <3>1, FS_EmptySet, Zenon
    <3>3. QED
      BY <3>2, Zenon DEF SumStep
  <2>2. Solves(g, 0)
    BY <2>1, Zenon
  <2>3. QED
    BY <2>2, Zenon
<1>3. ASSUME NEW n \in Nat, NEW h, Solves(h, n)
      PROVE  \E g : Solves(g, n + 1)
  <2> DEFINE g == [s \in Low(n + 1) |-> SumStep(f, h, s)]
  <2>1. ASSUME NEW s \in Low(n)
        PROVE  s \in Low(n + 1) /\ g[s] = h[s]
    <3>1. s \in Low(n + 1)
      BY <1>1
    <3>2. g[s] = SumStep(f, h, s) /\ h[s] = SumStep(f, h, s)
      BY <1>3, <2>1, <3>1, Zenon
    <3>3. QED
      BY <3>1, <3>2, Zenon
  <2>2. ASSUME NEW s \in Low(n + 1)
        PROVE  SumStep(f, h, s) = SumStep(f, g, s)
    <3>1. CASE s = {}
      BY <3>1, Zenon DEF SumStep
    <3>2. CASE s # {}
      <4>1. IsFiniteSet(s) /\ s \in SUBSET S /\ Cardinality(s) <= n + 1
        BY <1>1, Zenon
      <4>2. s \ {Pick(s)} \in Low(n)
        <5>1. /\ Cardinality(s \ {Pick(s)}) = Cardinality(s) - 1
              /\ Cardinality(s) \in Nat
          BY <3>2, <4>1, PickShrinks, Zenon
        <5>2. QED
          BY <4>1, <5>1
      <4>3. g[s \ {Pick(s)}] = h[s \ {Pick(s)}]
        BY <2>1, <4>2, Zenon
      <4> HIDE DEF g
      <4>4. QED
        BY <3>2, <4>3, Zenon DEF SumStep
    <3>3. QED
      BY <3>1, <3>2, Zenon
  <2>3. Solves(g, n + 1)
    BY <2>2, Zenon
  <2>4. QED
    BY <2>3, Zenon
<1> HIDE DEF Solves
<1>4. bad = {}
  <2> SUFFICES ASSUME bad # {}
               PROVE  FALSE
    BY Zenon
  <2>1. PICK m \in bad : \A n \in bad : m <= n
    BY LeastNatural, Zenon
  <2>2. m # 0
    BY <1>2, Zenon
  <2>3. m - 1 \in Nat /\ m - 1 \notin bad
    BY <2>1, <2>2
  <2>4. PICK h : Solves(h, m - 1)
    BY <2>3, Zenon
  <2>5. \E g : Solves(g, m - 1 + 1)
    BY <1>3, <2>3, <2>4, Zenon
  <2>6. m - 1 + 1 = m
    OBVIOUS
  <2>7. \E g : Solves(g, m)
    BY <2>5, <2>6, Zenon
  <2>8. QED
    BY <2>7, Zenon
<1>5. PICK g : Solves(g, Cardinality(S))
  BY <1>1, <1>4, Zenon
<1>6. Low(Cardinality(S)) = SUBSET S
  BY FS_Subset, Zenon
<1>7. QED
  BY <1>5, <1>6, Zenon DEF IsSum, Solves

(* Among subsets of a finite set there is one that is in X while no set    *)
(* one element smaller is: induction over finite sets.                     *)
LEMMA SmallestSet ==
  ASSUME NEW S, IsFiniteSet(S), NEW X \in SUBSET SUBSET S, X # {}
  PROVE  \E s \in X : IsFiniteSet(s) /\ \A x \in s : s \ {x} \notin X
<1> DEFINE sizes == {Cardinality(s) : s \in X}
<1>1. \A s \in X : IsFiniteSet(s) /\ Cardinality(s) \in Nat
  BY FS_Subset, FS_CardinalityType, Zenon
<1>2. sizes \in SUBSET Nat /\ sizes # {}
  BY <1>1, Zenon
<1>3. PICK m \in sizes : \A n \in sizes : m <= n
  BY <1>2, LeastNatural, Zenon
<1>4. PICK s \in X : Cardinality(s) = m
  BY <1>3, Zenon
<1>5. ASSUME NEW x \in s, s \ {x} \in X
      PROVE  FALSE
  <2>1. Cardinality(s \ {x}) = Cardinality(s) - 1
    BY <1>1, <1>4, <1>5, FS_RemoveElement, Zenon
  <2>2. Cardinality(s) <= Cardinality(s \ {x})
    BY <1>3, <1>4, <1>5, Zenon
  <2>3. QED
    BY <1>1, <1>4, <2>1, <2>2
<1>6. QED
  BY <1>1, <1>4, <1>5, Zenon

(* Two folds agree on a set where their functions do, whatever larger sets *)
(* they were started on.                                                   *)
LEMMA SumsAgree ==
  ASSUME NEW S, IsFiniteSet(S), NEW U, NEW f, NEW g, NEW iter, NEW jter,
         IsSum(f, S, iter), IsSum(g, U, jter),
         S \subseteq U, \A x \in S : f[x] = g[x]
  PROVE  iter[S] = jter[S]
<1> DEFINE differ == {s \in SUBSET S : iter[s] # jter[s]}
<1>1. \A s \in SUBSET S : iter[s] = SumStep(f, iter, s) /\ jter[s] = SumStep(g, jter, s)
  BY Zenon DEF IsSum
<1>2. differ = {}
  <2> SUFFICES ASSUME differ # {}
               PROVE  FALSE
    BY Zenon
  <2>1. PICK s \in differ : IsFiniteSet(s) /\ \A x \in s : s \ {x} \notin differ
    BY SmallestSet, Zenon
  <2>2. s # {}
    BY <1>1, <2>1, Zenon DEF SumStep
  <2>3. Pick(s) \in s
    BY <2>2, Zenon DEF Pick
  <2> DEFINE r == s \ {Pick(s)}
  <2>4. iter[r] = jter[r] /\ f[Pick(s)] = g[Pick(s)]
    BY <2>1, <2>3, SMTT(30)
  <2>5. iter[s] = f[Pick(s)] + iter[r] /\ jter[s] = g[Pick(s)] + jter[r]
    BY <1>1, <2>1, <2>2, Zenon DEF SumStep
  <2>6. QED
    BY <2>1, <2>4, <2>5, Zenon
<1>3. QED
  BY <1>2, Zenon

LEMMA TotalUnfold ==
  ASSUME NEW S, IsFiniteSet(S), NEW f
  PROVE  /\ S = {} => T!Total(f, S) = 0
         /\ S # {} => T!Total(f, S) = f[Pick(S)] + T!Total(f, S \ {Pick(S)})
<1>1. PICK iter : IsSum(f, S, iter) /\ T!Total(f, S) = iter[S]
  BY SumExists, TotalIsSum, Zenon
<1>2. iter[S] = SumStep(f, iter, S)
  BY <1>1, Zenon DEF IsSum
<1>3. ASSUME S # {}
      PROVE  T!Total(f, S \ {Pick(S)}) = iter[S \ {Pick(S)}]
  <2> DEFINE R == S \ {Pick(S)}
  <2>1. IsFiniteSet(R) /\ R \subseteq S
    BY <1>3, PickShrinks, Zenon
  <2> HIDE DEF R
  <2>2. PICK jter : IsSum(f, R, jter) /\ T!Total(f, R) = jter[R]
    BY <2>1, SumExists, TotalIsSum, Zenon
  <2>3. jter[R] = iter[R]
    BY <1>1, <2>1, <2>2, SumsAgree
  <2>4. QED
    BY <2>2, <2>3, Zenon DEF R
<1>4. QED
  BY <1>1, <1>2, <1>3, Zenon DEF SumStep

LEMMA TotalEqual ==
  ASSUME NEW S, IsFiniteSet(S), NEW f, NEW g, \A x \in S : f[x] = g[x]
  PROVE  T!Total(f, S) = T!Total(g, S)
<1>1. PICK iter : IsSum(f, S, iter) /\ T!Total(f, S) = iter[S]
  BY SumExists, TotalIsSum, Zenon
<1>2. PICK jter : IsSum(g, S, jter) /\ T!Total(g, S) = jter[S]
  BY SumExists, TotalIsSum, Zenon
<1>3. iter[S] = jter[S]
  BY <1>1, <1>2, SumsAgree
<1>4. QED
  BY <1>1, <1>2, <1>3, Zenon

LEMMA TotalNat ==
  ASSUME NEW S, IsFiniteSet(S), NEW f, \A x \in S : f[x] \in Nat
  PROVE  T!Total(f, S) \in Nat
<1> DEFINE odd == {s \in SUBSET S : T!Total(f, s) \notin Nat}
<1>1. odd = {}
  <2> SUFFICES ASSUME odd # {}
               PROVE  FALSE
    BY Zenon
  <2>1. PICK s \in odd : IsFiniteSet(s) /\ \A x \in s : s \ {x} \notin odd
    BY SmallestSet, Zenon
  <2>2. s # {}
    BY <2>1, TotalUnfold
  <2>3. Pick(s) \in s
    BY <2>2, Zenon DEF Pick
  <2>4. T!Total(f, s \ {Pick(s)}) \in Nat /\ f[Pick(s)] \in Nat
    BY <2>1, <2>3, Zenon
  <2>5. T!Total(f, s) = f[Pick(s)] + T!Total(f, s \ {Pick(s)})
    BY <2>1, <2>2, TotalUnfold, Zenon
  <2>6. QED
    BY <2>1, <2>4, <2>5
<1>2. QED
  BY <1>1, Zenon

(* Any element may be taken first. *)
LEMMA TotalRemove ==
  ASSUME NEW S, IsFiniteSet(S), NEW f, \A x \in S : f[x] \in Nat, NEW y \in S
  PROVE  T!Total(f, S) = f[y] + T!Total(f, S \ {y})
<1> DEFINE odd == {s \in SUBSET S :
                     \E x \in s : T!Total(f, s) # f[x] + T!Total(f, s \ {x})}
<1>1. odd = {}
  <2> SUFFICES ASSUME odd # {}
               PROVE  FALSE
    BY Zenon
  <2>1. PICK s \in odd : IsFiniteSet(s) /\ \A x \in s : s \ {x} \notin odd
    BY SmallestSet, Zenon
  <2>2. PICK x \in s : T!Total(f, s) # f[x] + T!Total(f, s \ {x})
    BY <2>1, Zenon
  <2>3. PICK p \in s : T!Total(f, s) = f[p] + T!Total(f, s \ {p})
    BY <2>1, <2>2, TotalUnfold, ZenonT(30) DEF Pick
  <2>4. x # p
    BY <2>2, <2>3, Zenon
  <2>5. /\ T!Total(f, s \ {p}) = f[x] + T!Total(f, (s \ {p}) \ {x})
        /\ T!Total(f, s \ {x}) = f[p] + T!Total(f, (s \ {x}) \ {p})
    <3>1. /\ s \ {p} \notin odd /\ s \ {p} \in SUBSET S /\ x \in s \ {p}
          /\ s \ {x} \notin odd /\ s \ {x} \in SUBSET S /\ p \in s \ {x}
      BY <2>1, <2>4, Zenon
    <3>2. QED
      BY <3>1, Zenon
  <2>6. (s \ {p}) \ {x} = (s \ {x}) \ {p}
    BY Zenon
  <2> DEFINE t == (s \ {x}) \ {p}
  <2>7. f[x] \in Nat /\ f[p] \in Nat /\ T!Total(f, t) \in Nat
    <3>1. IsFiniteSet(t) /\ t \subseteq S
      BY <2>1, FS_Subset, Zenon
    <3>2. QED
      BY <2>1, <3>1, TotalNat, Zenon
  <2> HIDE DEF t
  <2>8. T!Total(f, s) = f[p] + (f[x] + T!Total(f, t))
    BY <2>3, <2>5, <2>6, Zenon DEF t
  <2>9. T!Total(f, s \ {x}) = f[p] + T!Total(f, t)
    BY <2>5, Zenon DEF t
  <2>10. QED
    BY <2>2, <2>7, <2>8, <2>9
<1>2. QED
  BY <1>1, Zenon

(* A function that grows at one point. *)
LEMMA TotalAdd ==
  ASSUME NEW S, IsFiniteSet(S), NEW f, NEW g, \A x \in S : f[x] \in Nat,
         NEW y \in S, NEW n \in Nat, g[y] = f[y] + n,
         \A x \in S \ {y} : g[x] = f[x]
  PROVE  T!Total(g, S) = T!Total(f, S) + n
<1>1. IsFiniteSet(S \ {y})
  BY FS_RemoveElement, Zenon
<1>2. \A x \in S : g[x] \in Nat
  <2>1. g[y] \in Nat
    OBVIOUS
  <2>2. QED
    BY <2>1, Zenon
<1>3. T!Total(f, S) = f[y] + T!Total(f, S \ {y})
  BY TotalRemove, Zenon
<1>4. T!Total(g, S) = g[y] + T!Total(g, S \ {y})
  BY <1>2, TotalRemove, Zenon
<1>5. T!Total(g, S \ {y}) = T!Total(f, S \ {y})
  BY <1>1, TotalEqual, Zenon
<1>6. T!Total(f, S \ {y}) \in Nat /\ f[y] \in Nat
  BY <1>1, TotalNat, Zenon
<1>7. QED
  BY <1>3, <1>4, <1>5, <1>6

LEMMA TotalMonotone ==
  ASSUME NEW S, IsFiniteSet(S), NEW f, NEW g,
         \A x \in S : f[x] \in Nat /\ g[x] \in Nat /\ f[x] <= g[x]
  PROVE  T!Total(f, S) <= T!Total(g, S)
<1> DEFINE odd == {s \in SUBSET S : ~(T!Total(f, s) <= T!Total(g, s))}
<1>1. odd = {}
  <2> SUFFICES ASSUME odd # {}
               PROVE  FALSE
    BY Zenon
  <2>1. PICK s \in odd : IsFiniteSet(s) /\ \A x \in s : s \ {x} \notin odd
    BY SmallestSet, Zenon
  <2>2. s # {}
    <3>1. s = {} => T!Total(f, s) = 0 /\ T!Total(g, s) = 0
      BY <2>1, TotalUnfold, Zenon
    <3>2. QED
      BY <2>1, <3>1
  <2>3. PICK x \in s : TRUE
    BY <2>2, Zenon
  <2>4. /\ T!Total(f, s) = f[x] + T!Total(f, s \ {x})
        /\ T!Total(g, s) = g[x] + T!Total(g, s \ {x})
    BY <2>1, TotalRemove, Zenon
  <2>5. T!Total(f, s \ {x}) <= T!Total(g, s \ {x})
    BY <2>1, Zenon
  <2>6. /\ T!Total(f, s \ {x}) \in Nat /\ T!Total(g, s \ {x}) \in Nat
        /\ f[x] \in Nat /\ g[x] \in Nat /\ f[x] <= g[x]
    <3>1. IsFiniteSet(s \ {x})
      BY <2>1, FS_RemoveElement, Zenon
    <3>2. QED
      BY <2>1, <3>1, TotalNat, Zenon
  <2>7. T!Total(f, s) <= T!Total(g, s)
    BY <2>4, <2>5, <2>6
  <2>8. QED
    BY <2>1, <2>7, Zenon
<1>2. QED
  BY <1>1, Zenon

LEMMA TotalZero ==
  ASSUME NEW S, IsFiniteSet(S), NEW f, \A x \in S : f[x] = 0
  PROVE  T!Total(f, S) = 0
<1> DEFINE odd == {s \in SUBSET S : T!Total(f, s) # 0}
<1>1. odd = {}
  <2> SUFFICES ASSUME odd # {}
               PROVE  FALSE
    BY Zenon
  <2>1. PICK s \in odd : IsFiniteSet(s) /\ \A x \in s : s \ {x} \notin odd
    BY SmallestSet, Zenon
  <2>2. s # {}
    BY <2>1, TotalUnfold, Zenon
  <2>3. Pick(s) \in s
    BY <2>2, Zenon DEF Pick
  <2>4. T!Total(f, s \ {Pick(s)}) = 0 /\ f[Pick(s)] = 0
    BY <2>1, <2>3, Zenon
  <2>5. T!Total(f, s) = f[Pick(s)] + T!Total(f, s \ {Pick(s)})
    BY <2>1, <2>2, TotalUnfold, Zenon
  <2>6. QED
    BY <2>1, <2>4, <2>5
<1>2. QED
  BY <1>1, Zenon

LEMMA TotalSplit ==
  ASSUME NEW S, IsFiniteSet(S), NEW A \in SUBSET S, NEW f, \A x \in S : f[x] \in Nat
  PROVE  T!Total(f, S) = T!Total(f, A) + T!Total(f, S \ A)
<1> DEFINE odd == {s \in SUBSET A :
                     T!Total(f, s \cup (S \ A)) # T!Total(f, s) + T!Total(f, S \ A)}
           B   == S \ A
<1>1. IsFiniteSet(A) /\ IsFiniteSet(B)
  BY FS_Subset, Zenon
<1>2. T!Total(f, B) \in Nat
  BY <1>1, TotalNat, Zenon
<1>3. odd = {}
  <2> SUFFICES ASSUME odd # {}
               PROVE  FALSE
    BY Zenon
  <2>1. PICK s \in odd : IsFiniteSet(s) /\ \A x \in s : s \ {x} \notin odd
    BY <1>1, SmallestSet, Zenon
  <2>2. s # {}
    <3>1. s = {} => T!Total(f, s \cup B) = T!Total(f, B) /\ T!Total(f, s) = 0
      <4>1. s = {} => s \cup B = B
        BY Zenon
      <4>2. s = {} => T!Total(f, s) = 0
        BY <2>1, TotalUnfold, Zenon
      <4> HIDE DEF B
      <4>3. QED
        BY <4>1, <4>2, Zenon
    <3>2. T!Total(f, s \cup B) # T!Total(f, s) + T!Total(f, B)
      BY <2>1, Zenon
    <3>3. QED
      BY <1>2, <3>1, <3>2
  <2>3. PICK x \in s : TRUE
    BY <2>2, Zenon
  <2>4. IsFiniteSet(s \cup B) /\ x \in s \cup B /\ s \cup B \subseteq S
    BY <1>1, <2>1, FS_Union, Zenon
  <2>5. (s \cup B) \ {x} = (s \ {x}) \cup B
    BY <2>1, Zenon
  <2>6. T!Total(f, s \cup B) = f[x] + T!Total(f, (s \ {x}) \cup B)
    <3>1. T!Total(f, s \cup B) = f[x] + T!Total(f, (s \cup B) \ {x})
      BY <2>4, TotalRemove
    <3>2. QED
      BY <2>5, <3>1, Zenon
  <2>7. T!Total(f, s) = f[x] + T!Total(f, s \ {x})
    BY <2>1, TotalRemove, SMTT(30)
  <2>8. T!Total(f, (s \ {x}) \cup B) = T!Total(f, s \ {x}) + T!Total(f, B)
    BY <2>1, Zenon
  <2>9. f[x] \in Nat /\ T!Total(f, s \ {x}) \in Nat
    <3>1. IsFiniteSet(s \ {x})
      BY <2>1, FS_RemoveElement, SMTT(30)
    <3>2. QED
      BY <2>1, <3>1, TotalNat, Zenon
  <2>10. T!Total(f, s \cup B) = T!Total(f, s) + T!Total(f, B)
    BY <1>2, <2>6, <2>7, <2>8, <2>9
  <2>11. QED
    BY <2>1, <2>10, Zenon
<1>4. A \cup B = S /\ A \notin odd
  BY <1>3, Zenon
<1>5. QED
  BY <1>4, Zenon

-----------------------------------------------------------------------------
(* The telemetry: types *)

Recording == [at : {"idle", "run", "outcome"}] \cup [at : {"bucket"}, took : Duration]

TelemetryTypeOK ==
  /\ stats \in [total : Nat, hits : Nat, misses : Nat, errors : Nat]
  /\ count \in Nat
  /\ sum \in Nat
  /\ counts \in [T!Bucket -> Nat]
  /\ rec \in [Recorder -> Recording]
  /\ moved \in Nat
  /\ observed \in [Duration -> Nat]

LEMMA BoundsAscend ==
  ASSUME NEW i \in 1 .. Len(bounds), NEW j \in 1 .. Len(bounds), i <= j
  PROVE  bounds[i] <= bounds[j]
<1> DEFINE low == {k \in i .. Len(bounds) : ~(bounds[i] <= bounds[k])}
<1>1. bounds \in Seq(Nat) /\ Len(bounds) \in Nat
  BY TelemetryAssumption
<1>2. \A k \in 1 .. Len(bounds) : bounds[k] \in Nat
  BY <1>1
<1>3. low = {}
  <2> SUFFICES ASSUME low # {}
               PROVE  FALSE
    BY Zenon
  <2>1. low \in SUBSET Nat
    BY <1>1
  <2>2. PICK m \in low : \A n \in low : m <= n
    BY <2>1, LeastNatural, Zenon
  <2>3. m # i
    BY <1>2, <2>2
  <2>4. m - 1 \in i .. Len(bounds) /\ m - 1 \in 1 .. Len(bounds) - 1 /\ m - 1 \notin low
    BY <1>1, <2>2, <2>3
  <2>5. bounds[m - 1] < bounds[m - 1 + 1]
    BY <2>4, TelemetryAssumption, Zenon
  <2>6. bounds[i] <= bounds[m - 1] /\ m - 1 + 1 = m
    BY <2>4
  <2>7. bounds[m - 1] < bounds[m]
    BY <2>5, <2>6, Zenon
  <2>8. bounds[i] \in Nat /\ bounds[m - 1] \in Nat /\ bounds[m] \in Nat
    BY <1>1, <1>2, <2>2, <2>4
  <2>9. QED
    BY <2>2, <2>6, <2>7, <2>8
<1>4. QED
  BY <1>1, <1>3, SMTT(30)

(* The bucket of a duration is the first whose bound covers it. *)
LEMMA BucketCovers ==
  ASSUME NEW d \in Duration
  PROVE  /\ T!bucketOf(d) \in T!Bucket
         /\ \A i \in 1 .. Len(bounds) : d <= bounds[i] <=> T!bucketOf(d) <= i
<1> DEFINE covers == {i \in 1 .. Len(bounds) : d <= bounds[i]} \cup {Len(bounds) + 1}
<1>1. bounds \in Seq(Nat) /\ Len(bounds) \in Nat /\ d \in Nat
  BY TelemetryAssumption
<1>2. \A k \in 1 .. Len(bounds) : bounds[k] \in Nat
  BY <1>1
<1>3. covers \in SUBSET Nat /\ covers # {}
  BY <1>1
<1>4. Min(covers) \in covers /\ \A n \in covers : Min(covers) <= n
  BY <1>3, LeastIsMin, Zenon
<1>5. T!bucketOf(d) = Min(covers)
  BY Zenon DEF T!bucketOf, T!Min, Min
<1>6. PICK b \in covers : b = T!bucketOf(d) /\ \A n \in covers : b <= n
  BY <1>4, <1>5, Zenon
<1>7. b \in T!Bucket
  BY <1>1, <1>6 DEF T!Bucket
<1>8. ASSUME NEW i \in 1 .. Len(bounds)
      PROVE  d <= bounds[i] <=> b <= i
  <2>1. d <= bounds[i] => b <= i
    BY <1>6, Zenon
  <2>2. ASSUME b <= i
        PROVE  d <= bounds[i]
    <3>1. b \in 1 .. Len(bounds) /\ d <= bounds[b]
      BY <1>1, <1>6, <2>2
    <3>2. bounds[b] <= bounds[i]
      BY <2>2, <3>1, BoundsAscend, Zenon
    <3>3. QED
      BY <1>1, <1>2, <3>1, <3>2
  <2>3. QED
    BY <2>1, <2>2, Zenon
<1>9. QED
  BY <1>6, <1>7, <1>8, Zenon

LEMMA RecFields ==
  ASSUME TelemetryTypeOK, NEW g \in Recorder
  PROVE  /\ rec[g].at \in {"idle", "run", "bucket", "outcome"}
         /\ rec[g].at = "bucket" => rec[g].took \in Duration
<1>1. rec[g] \in Recording
  BY Zenon DEF TelemetryTypeOK
<1>2. QED
  BY <1>1, Zenon DEF Recording

LEMMA NextTelemetryType == TelemetryTypeOK /\ [T!Next]_(T!vars) => TelemetryTypeOK'
<1> SUFFICES ASSUME TelemetryTypeOK, [T!Next]_(T!vars)
             PROVE  TelemetryTypeOK'
  BY Zenon
<1>1. ASSUME NEW g \in Recorder, NEW state \in Recording, T!goto(g, state)
      PROVE  rec' \in [Recorder -> Recording]
  BY <1>1, Zenon DEF T!goto, TelemetryTypeOK
<1>2. \A l \in {"idle", "run", "outcome"} : [at |-> l] \in Recording
  BY Zenon DEF Recording
<1>3. ASSUME NEW g \in Recorder, T!RecordCommand(g)
      PROVE  TelemetryTypeOK'
  <2>1. stats' \in [total : Nat, hits : Nat, misses : Nat, errors : Nat]
    BY <1>3 DEF T!RecordCommand, TelemetryTypeOK
  <2>2. rec' \in [Recorder -> Recording]
    BY <1>1, <1>2, <1>3, Zenon DEF T!RecordCommand
  <2>3. QED
    BY <1>3, <2>1, <2>2, Zenon DEF T!RecordCommand, TelemetryTypeOK
<1>4. ASSUME NEW g \in Recorder, T!redirect(g)
      PROVE  TelemetryTypeOK'
  <2>1. rec' \in [Recorder -> Recording]
    BY <1>1, <1>2, <1>4, Zenon DEF T!redirect
  <2>2. QED
    BY <1>4, <2>1 DEF T!redirect, TelemetryTypeOK
<1>5. ASSUME NEW g \in Recorder, NEW d \in Duration, T!RecordDuration(g, d)
      PROVE  TelemetryTypeOK'
  <2>1. [at |-> "bucket", took |-> d] \in Recording
    BY Zenon DEF Recording
  <2>2. rec' \in [Recorder -> Recording]
    BY <1>1, <1>5, <2>1, Zenon DEF T!RecordDuration
  <2>3. d \in Nat
    BY TelemetryAssumption, Zenon
  <2>4. QED
    BY <1>5, <2>2, <2>3 DEF T!RecordDuration, TelemetryTypeOK
<1>6. ASSUME NEW g \in Recorder, T!Observe(g)
      PROVE  TelemetryTypeOK'
  <2>1. PICK d \in Duration : d = rec[g].took
    BY <1>6, RecFields, Zenon DEF T!Observe
  <2>2. PICK b \in T!Bucket : b = T!bucketOf(d)
    BY BucketCovers, SMTT(30)
  <2>3. /\ counts' = [counts EXCEPT ![b] = counts[b] + 1]
        /\ observed' = [observed EXCEPT ![d] = observed[d] + 1]
    BY <1>6, <2>1, <2>2, Zenon DEF T!Observe
  <2>4. counts' \in [T!Bucket -> Nat] /\ observed' \in [Duration -> Nat]
    BY <2>3, SMTT(30) DEF TelemetryTypeOK
  <2>5. rec' \in [Recorder -> Recording]
    BY <1>1, <1>2, <1>6, SMTT(30) DEF T!Observe
  <2>6. QED
    BY <1>6, <2>4, <2>5, SMTT(30) DEF T!Observe, TelemetryTypeOK
<1>7. ASSUME NEW g \in Recorder, NEW reply \in T!Reply, T!recordOutcome(g, reply)
      PROVE  TelemetryTypeOK'
  <2>1. stats' \in [total : Nat, hits : Nat, misses : Nat, errors : Nat]
    BY <1>7 DEF T!recordOutcome, TelemetryTypeOK
  <2>2. rec' \in [Recorder -> Recording]
    BY <1>1, <1>2, <1>7, Zenon DEF T!recordOutcome
  <2>3. QED
    BY <1>7, <2>1, <2>2, SMTT(30) DEF T!recordOutcome, TelemetryTypeOK
<1>8. ASSUME UNCHANGED <<stats, count, sum, counts, rec, moved, observed>>
      PROVE  TelemetryTypeOK'
  BY <1>8, Zenon DEF TelemetryTypeOK
<1>9. QED
  BY <1>3, <1>4, <1>5, <1>6, <1>7, <1>8, Zenon
     DEF T!Next, T!vars, T!Quantile, T!loadCount, T!loadBucket, T!return

LEMMA TelemetryTypes == T!Spec => []TelemetryTypeOK
<1>1. T!Init => TelemetryTypeOK
  <2> SUFFICES ASSUME T!Init
               PROVE  TelemetryTypeOK
    BY Zenon
  <2>1. [at |-> "idle"] \in Recording
    BY Zenon DEF Recording
  <2>2. QED
    BY <2>1, Zenon DEF T!Init, TelemetryTypeOK
<1>2. QED
  BY <1>1, NextTelemetryType, PTL DEF T!Spec

-----------------------------------------------------------------------------
(* The telemetry: counters *)

At(l) == {g \in Recorder : rec[g].at = l}

Outcomes == stats.hits + stats.misses + stats.errors

Spent   == [d \in Duration |-> d * observed[d]]
Pending == [g \in Recorder |-> IF rec[g].at = "bucket" THEN rec[g].took ELSE 0]

(* The counters agree up to the commands that stand between two of them. *)
CountInv ==
  /\ stats.total = moved + count + Cardinality(At("run"))
  /\ count = T!Total(counts, T!Bucket) + Cardinality(At("bucket"))
  /\ sum = T!Total(Spent, Duration) + T!Total(Pending, Recorder)
  /\ Outcomes + Cardinality(At("bucket")) + Cardinality(At("outcome")) <= count
  /\ name = "GET" =>
       count = Outcomes + Cardinality(At("bucket")) + Cardinality(At("outcome"))
  /\ name # "GET" => stats.hits = 0 /\ stats.misses = 0

LEMMA AtSize == \A l : IsFiniteSet(At(l)) /\ Cardinality(At(l)) \in Nat
<1> SUFFICES ASSUME NEW l
             PROVE  IsFiniteSet(At(l)) /\ Cardinality(At(l)) \in Nat
  BY Zenon
<1>1. At(l) \subseteq Recorder
  BY Zenon DEF At
<1>2. QED
  BY <1>1, FS_Subset, FS_CardinalityType, TelemetryAssumption, Zenon

LEMMA BucketFinite == IsFiniteSet(T!Bucket)
<1>1. Len(bounds) + 1 \in Int
  BY TelemetryAssumption
<1>2. QED
  BY <1>1, FS_Interval DEF T!Bucket

(* A recorder that moves on leaves one place for another. *)
LEMMA RecorderMoves ==
  ASSUME TelemetryTypeOK, NEW g \in Recorder, NEW state, T!goto(g, state),
         NEW a, NEW b, rec[g].at = a, state.at = b, a # b
  PROVE  /\ Cardinality(At(a)') = Cardinality(At(a)) - 1
         /\ Cardinality(At(b)') = Cardinality(At(b)) + 1
         /\ \A l : l \notin {a, b} => At(l)' = At(l)
<1>1. rec'[g] = state /\ \A h \in Recorder \ {g} : rec'[h] = rec[h]
  BY Zenon DEF T!goto, TelemetryTypeOK
<1>2. g \in At(a) /\ At(a)' = At(a) \ {g}
  BY <1>1 DEF At
<1>3. g \notin At(b) /\ At(b)' = At(b) \cup {g}
  BY <1>1 DEF At
<1>4. \A l : l \notin {a, b} => At(l)' = At(l)
  BY <1>1, Zenon DEF At
<1>5. Cardinality(At(a)') = Cardinality(At(a)) - 1
  BY <1>2, AtSize, FS_RemoveElement, ZenonT(30)
<1>6. Cardinality(At(b)') = Cardinality(At(b)) + 1
  BY <1>3, AtSize, FS_AddElement, SMTT(30)
<1>7. QED
  BY <1>4, <1>5, <1>6, Zenon

LEMMA SpentType ==
  ASSUME TelemetryTypeOK
  PROVE  /\ \A d \in Duration : Spent[d] \in Nat
         /\ \A g \in Recorder : Pending[g] \in Nat
         /\ T!Total(Spent, Duration) \in Nat
         /\ T!Total(Pending, Recorder) \in Nat
         /\ T!Total(counts, T!Bucket) \in Nat
<1>1. ASSUME NEW d \in Duration
      PROVE  Spent[d] \in Nat
  <2>1. d \in Nat /\ observed[d] \in Nat
    BY TelemetryAssumption, Zenon DEF TelemetryTypeOK
  <2>2. d * observed[d] \in Nat
    BY <2>1
  <2>3. QED
    BY <2>2, Zenon DEF Spent
<1>2. ASSUME NEW g \in Recorder
      PROVE  Pending[g] \in Nat
  BY RecFields, TelemetryAssumption, Zenon DEF Pending
<1>3. T!Total(Spent, Duration) \in Nat /\ T!Total(Pending, Recorder) \in Nat
  BY <1>1, <1>2, TotalNat, TelemetryAssumption, Zenon
<1>4. T!Total(counts, T!Bucket) \in Nat
  BY BucketFinite, TotalNat, Zenon DEF TelemetryTypeOK
<1>5. QED
  BY <1>1, <1>2, <1>3, <1>4, Zenon

(* A move between places other than "bucket" leaves what is pending. *)
LEMMA PendingUnchanged ==
  ASSUME TelemetryTypeOK, NEW g \in Recorder, NEW state, T!goto(g, state),
         rec[g].at # "bucket", state.at # "bucket"
  PROVE  Pending' = Pending
<1>1. rec'[g] = state /\ \A h \in Recorder \ {g} : rec'[h] = rec[h]
  BY Zenon DEF T!goto, TelemetryTypeOK
<1>2. QED
  BY <1>1, Zenon DEF Pending

LEMMA NextCount == TelemetryTypeOK /\ CountInv /\ [T!Next]_(T!vars) => CountInv'
<1> SUFFICES ASSUME TelemetryTypeOK, CountInv, [T!Next]_(T!vars)
             PROVE  CountInv'
  BY Zenon
<1>1. /\ stats.total \in Nat /\ Outcomes \in Nat /\ moved \in Nat /\ count \in Nat
      /\ sum \in Nat /\ T!Total(counts, T!Bucket) \in Nat
  BY SpentType DEF TelemetryTypeOK, Outcomes
<1>2. /\ Cardinality(At("run")) \in Nat /\ Cardinality(At("bucket")) \in Nat
      /\ Cardinality(At("outcome")) \in Nat
  BY AtSize, SMTT(30)
<1>3. ASSUME NEW g \in Recorder, T!RecordCommand(g)
      PROVE  CountInv'
  <2>1. /\ T!goto(g, [at |-> "run"]) /\ rec[g].at = "idle"
        /\ UNCHANGED <<count, sum, counts, name, moved, observed>>
    BY <1>3, SMTT(30) DEF T!RecordCommand
  <2>2. /\ Cardinality(At("run")') = Cardinality(At("run")) + 1
        /\ At("bucket")' = At("bucket") /\ At("outcome")' = At("outcome")
    BY <2>1, RecorderMoves, SMTT(30)
  <2>3. /\ stats'.total = stats.total + 1 /\ Outcomes' = Outcomes
        /\ stats'.hits = stats.hits /\ stats'.misses = stats.misses
    BY <1>3, Zenon DEF T!RecordCommand, TelemetryTypeOK, Outcomes
  <2>4. Pending' = Pending /\ Spent' = Spent
    BY <2>1, PendingUnchanged, Zenon DEF Spent
  <2>5. QED
    BY <1>1, <1>2, <2>1, <2>2, <2>3, <2>4 DEF CountInv
<1>4. ASSUME NEW g \in Recorder, T!redirect(g)
      PROVE  CountInv'
  <2>1. /\ T!goto(g, [at |-> "idle"]) /\ rec[g].at = "run" /\ moved' = moved + 1
        /\ UNCHANGED <<stats, count, sum, counts, name, observed>>
    BY <1>4, SMTT(30) DEF T!redirect
  <2>2. /\ Cardinality(At("run")') = Cardinality(At("run")) - 1
        /\ At("bucket")' = At("bucket") /\ At("outcome")' = At("outcome")
    BY <2>1, RecorderMoves
  <2>3. Pending' = Pending /\ Spent' = Spent
    BY <2>1, PendingUnchanged, Zenon DEF Spent
  <2>4. Outcomes' = Outcomes
    BY <2>1, SMTT(30) DEF Outcomes
  <2>5. QED
    BY <1>1, <1>2, <2>1, <2>2, <2>3, <2>4, SMTT(30) DEF CountInv
<1>5. ASSUME NEW g \in Recorder, NEW d \in Duration, T!RecordDuration(g, d)
      PROVE  CountInv'
  <2> DEFINE state == [at |-> "bucket", took |-> d]
  <2>1. /\ T!goto(g, state) /\ rec[g].at = "run"
        /\ count' = count + 1 /\ sum' = sum + d
        /\ UNCHANGED <<stats, counts, name, moved, observed>>
    BY <1>5, Zenon DEF T!RecordDuration
  <2>2. state.at = "bucket" /\ state.took = d
    BY SMTT(30)
  <2> HIDE DEF state
  <2>3. /\ Cardinality(At("run")') = Cardinality(At("run")) - 1
        /\ Cardinality(At("bucket")') = Cardinality(At("bucket")) + 1
        /\ At("outcome")' = At("outcome")
    BY <2>1, <2>2, RecorderMoves
  <2>4. rec'[g] = state /\ \A h \in Recorder \ {g} : rec'[h] = rec[h]
    BY <2>1, Zenon DEF T!goto, TelemetryTypeOK
  <2>5. d \in Nat
    BY TelemetryAssumption, SMTT(30)
  <2>6. Pending'[g] = Pending[g] + d /\ \A h \in Recorder \ {g} : Pending'[h] = Pending[h]
    BY <2>1, <2>2, <2>4, <2>5, SMTT(30) DEF Pending
  <2>7. T!Total(Pending', Recorder) = T!Total(Pending, Recorder) + d
    BY <2>5, <2>6, SpentType, TotalAdd, TelemetryAssumption, SMTT(30)
  <2>8. Spent' = Spent /\ Outcomes' = Outcomes
    BY <2>1, Zenon DEF Spent, Outcomes
  <2>9. T!Total(Pending, Recorder) \in Nat /\ T!Total(Spent, Duration) \in Nat
    BY SpentType, SMTT(30)
  <2>10. QED
    BY <1>1, <1>2, <2>1, <2>3, <2>5, <2>7, <2>8, <2>9, SMTT(30) DEF CountInv
<1>6. ASSUME NEW g \in Recorder, T!Observe(g)
      PROVE  CountInv'
  <2>1. PICK d \in Duration : d = rec[g].took
    BY <1>6, RecFields, ZenonT(30) DEF T!Observe
  <2>2. PICK b \in T!Bucket : b = T!bucketOf(d)
    BY BucketCovers, ZenonT(30)
  <2>3. /\ counts' = [counts EXCEPT ![b] = counts[b] + 1]
        /\ observed' = [observed EXCEPT ![d] = observed[d] + 1]
        /\ T!goto(g, [at |-> "outcome"]) /\ rec[g].at = "bucket"
        /\ UNCHANGED <<stats, count, sum, name, moved>>
    BY <1>6, <2>1, <2>2, SMTT(30) DEF T!Observe
  <2>4. /\ Cardinality(At("bucket")') = Cardinality(At("bucket")) - 1
        /\ Cardinality(At("outcome")') = Cardinality(At("outcome")) + 1
        /\ At("run")' = At("run")
    BY <2>3, RecorderMoves
  <2>5. rec'[g] = [at |-> "outcome"] /\ \A h \in Recorder \ {g} : rec'[h] = rec[h]
    BY <2>3, Zenon DEF T!goto, TelemetryTypeOK
  <2>6. d \in Nat /\ TelemetryTypeOK'
    BY TelemetryAssumption, NextTelemetryType, SMTT(30)
  <2>7. T!Total(counts', T!Bucket) = T!Total(counts, T!Bucket) + 1
    <3>1. /\ \A i \in T!Bucket : counts[i] \in Nat
          /\ counts'[b] = counts[b] + 1 /\ \A i \in T!Bucket \ {b} : counts'[i] = counts[i]
      BY <2>3, Zenon DEF TelemetryTypeOK
    <3>2. QED
      BY <3>1, BucketFinite, TotalAdd, SMTT(30)
  <2>8. T!Total(Spent', Duration) = T!Total(Spent, Duration) + d
    <3>1. /\ observed'[d] = observed[d] + 1 /\ observed[d] \in Nat
          /\ \A e \in Duration \ {d} : observed'[e] = observed[e]
      BY <2>3, Zenon DEF TelemetryTypeOK
    <3>2. d * (observed[d] + 1) = d * observed[d] + d
      BY <2>6, <3>1
    <3>3. Spent'[d] = Spent[d] + d /\ \A e \in Duration \ {d} : Spent'[e] = Spent[e]
      BY <3>1, <3>2, Zenon DEF Spent
    <3>4. \A e \in Duration : Spent[e] \in Nat
      BY SpentType, Zenon
    <3>5. IsFiniteSet(Duration) /\ d \in Nat
      BY <2>6, TelemetryAssumption, Zenon
    <3>6. QED
      BY <3>3, <3>4, <3>5, TotalAdd, ZenonT(30)
  <2>9. \A h \in Recorder : Pending'[h] \in Nat
    <3>1. ASSUME NEW h \in Recorder
          PROVE  (rec'[h]).at = "bucket" => (rec'[h]).took \in Nat
      BY <2>6, TelemetryAssumption, ZenonT(30) DEF TelemetryTypeOK, Recording
    <3>2. QED
      BY <3>1, Zenon DEF Pending
  <2>10. T!Total(Pending, Recorder) = T!Total(Pending', Recorder) + d
    <3>1. rec'[g].at # "bucket"
      BY <2>5
    <3>2. Pending'[g] = 0 /\ Pending[g] = d
      BY <2>1, <2>3, <3>1, SMTT(30) DEF Pending
    <3>3. \A h \in Recorder \ {g} : Pending[h] = Pending'[h]
      BY <2>5, Zenon DEF Pending
    <3>4. Pending[g] = Pending'[g] + d
      BY <2>6, <3>2
    <3>5. QED
      BY <2>6, <2>9, <3>3, <3>4, TotalAdd, TelemetryAssumption
  <2>11. /\ T!Total(Pending', Recorder) \in Nat
         /\ T!Total(Spent, Duration) \in Nat /\ T!Total(counts, T!Bucket) \in Nat
    BY <2>9, SpentType, TotalNat, TelemetryAssumption, SMTT(30)
  <2>12. Outcomes' = Outcomes
    BY <2>3, SMTT(30) DEF Outcomes
  <2>13. QED
    BY <1>1, <1>2, <2>3, <2>4, <2>6, <2>7, <2>8, <2>9, <2>10, <2>11, <2>12, SMTT(30) DEF CountInv
<1>7. ASSUME NEW g \in Recorder, NEW reply \in T!Reply, T!recordOutcome(g, reply)
      PROVE  CountInv'
  <2>1. /\ T!goto(g, [at |-> "idle"]) /\ rec[g].at = "outcome"
        /\ UNCHANGED <<count, sum, counts, name, moved, observed>>
    BY <1>7, Zenon DEF T!recordOutcome
  <2>2. /\ Cardinality(At("outcome")') = Cardinality(At("outcome")) - 1
        /\ At("run")' = At("run") /\ At("bucket")' = At("bucket")
    BY <2>1, RecorderMoves, SMTT(30)
  <2>3. /\ stats'.total = stats.total
        /\ Outcomes' = Outcomes + 1 \/ (name # "GET" /\ Outcomes' = Outcomes)
        /\ name # "GET" => stats'.hits = stats.hits /\ stats'.misses = stats.misses
    <3>1. stats \in [total : Nat, hits : Nat, misses : Nat, errors : Nat]
      BY Zenon DEF TelemetryTypeOK
    <3>2. CASE stats' = [stats EXCEPT !.errors = @ + 1]
      BY <3>1, <3>2, SMTT(30) DEF Outcomes
    <3>3. CASE name = "GET" /\ stats' = [stats EXCEPT !.hits = @ + 1]
      BY <3>1, <3>3, SMTT(30) DEF Outcomes
    <3>4. CASE name = "GET" /\ stats' = [stats EXCEPT !.misses = @ + 1]
      BY <3>1, <3>4, SMTT(30) DEF Outcomes
    <3>5. CASE name # "GET" /\ UNCHANGED stats
      BY <3>1, <3>5, SMTT(30) DEF Outcomes
    <3>6. QED
      BY <1>7, <3>2, <3>3, <3>4, <3>5, Zenon DEF T!recordOutcome
  <2>4. Pending' = Pending /\ Spent' = Spent
    BY <2>1, PendingUnchanged, SMTT(30) DEF Spent
  <2>5. QED
    BY <1>1, <1>2, <2>1, <2>2, <2>3, <2>4, SMTT(30) DEF CountInv
<1>8. ASSUME UNCHANGED <<stats, count, sum, counts, rec, name, moved, observed>>
      PROVE  CountInv'
  BY <1>8, Zenon DEF CountInv, At, Outcomes, Spent, Pending
<1>9. QED
  BY <1>3, <1>4, <1>5, <1>6, <1>7, <1>8, Zenon
     DEF T!Next, T!vars, T!Quantile, T!loadCount, T!loadBucket, T!return

(* For any number of connections and commands, and any buckets: between    *)
(* commands the totals, the buckets and the sum agree, and the outcomes    *)
(* with them, for a GET and for the commands that are no lookups.          *)
THEOREM TelemetryAgrees == T!Spec => []CountersAgree
<1>1. T!Init => CountInv
  <2> SUFFICES ASSUME T!Init
               PROVE  CountInv
    BY Zenon
  <2>1. \A l \in {"run", "bucket", "outcome"} : At(l) = {}
    BY Zenon DEF T!Init, At
  <2>2. \A l \in {"run", "bucket", "outcome"} : Cardinality(At(l)) = 0
    BY <2>1, FS_EmptySet, Zenon
  <2>3. Outcomes = 0 /\ stats.total = 0 /\ stats.hits = 0 /\ stats.misses = 0
    BY SMTT(30) DEF T!Init, Outcomes
  <2>4. /\ \A i \in T!Bucket : counts[i] = 0
        /\ \A d \in Duration : Spent[d] = 0
        /\ \A g \in Recorder : Pending[g] = 0
    BY TelemetryAssumption, SMTT(30) DEF T!Init, Spent, Pending
  <2>5. /\ T!Total(counts, T!Bucket) = 0
        /\ T!Total(Spent, Duration) = 0
        /\ T!Total(Pending, Recorder) = 0
    BY <2>4, BucketFinite, TotalZero, TelemetryAssumption, Zenon
  <2>6. QED
    BY <2>2, <2>3, <2>5, SMTT(30) DEF T!Init, CountInv
<1>2. TelemetryTypeOK /\ CountInv => CountersAgree
  <2> SUFFICES ASSUME TelemetryTypeOK, CountInv, \A g \in Recorder : rec[g].at = "idle"
               PROVE  /\ count = stats.total - moved
                      /\ name = "GET" => count = stats.hits + stats.misses + stats.errors
                      /\ name # "GET" => /\ stats.hits = 0 /\ stats.misses = 0
                                         /\ stats.errors <= count
                      /\ count = T!Total(counts, T!Bucket)
                      /\ sum = T!Total(Spent, Duration)
    BY Zenon DEF CountersAgree, T!CountersAgree, Spent
  <2>1. \A l \in {"run", "bucket", "outcome"} : At(l) = {}
    BY Zenon DEF At
  <2>2. \A l \in {"run", "bucket", "outcome"} : Cardinality(At(l)) = 0
    BY <2>1, FS_EmptySet, Zenon
  <2>3. \A g \in Recorder : Pending[g] = 0
    BY Zenon DEF Pending
  <2>4. T!Total(Pending, Recorder) = 0
    BY <2>3, TotalZero, TelemetryAssumption, Zenon
  <2>5. T!Total(Spent, Duration) \in Nat /\ T!Total(counts, T!Bucket) \in Nat
    BY SpentType, Zenon
  <2>6. /\ stats.hits \in Nat /\ stats.misses \in Nat /\ stats.errors \in Nat
        /\ moved \in Nat /\ count \in Nat
    BY Zenon DEF TelemetryTypeOK
  <2>7. QED
    BY <2>2, <2>4, <2>5, <2>6 DEF CountInv, Outcomes
<1>3. QED
  BY <1>1, <1>2, NextCount, TelemetryTypes, PTL DEF T!Spec

-----------------------------------------------------------------------------
(* The telemetry: quantiles *)

InBucket(j) == {d \in Duration : T!bucketOf(d) = j}

Asked   == [at : {"count"}, percent : {50, 99}, before : [Duration -> Nat]]
Walking == [at : {"walk", "found", "past"}, percent : {50, 99},
            before : [Duration -> Nat], t : Nat \ {0}, i : 1 .. Len(bounds) + 1,
            running : Nat]

(* The buckets are the histogram of the finished observations. *)
HistogramAgrees == \A j \in T!Bucket : counts[j] = T!Total(observed, InBucket(j))

(* A walk has met at least the observations that were finished when it     *)
(* began and at most those finished by now, and has not reached the rank.  *)
WalkInv(q) ==
  LET rank == q.percent * q.t
  IN  /\ \A d \in Duration : q.before[d] <= observed[d]
      /\ 100 * T!atMost(q.before, q.i - 1) < rank
      /\ q.at = "walk" =>
           /\ q.i <= Len(bounds)
           /\ 100 * q.running < rank
           /\ T!atMost(q.before, q.i - 1) <= q.running
           /\ q.running <= T!atMost(observed, q.i - 1)
      /\ q.at = "found" => /\ q.i <= Len(bounds)
                           /\ 100 * T!atMost(observed, q.i) >= rank

QuantileInv ==
  /\ quantile \in [at : {"idle"}] \cup Asked \cup Walking
  /\ HistogramAgrees
  /\ quantile \in Asked => \A d \in Duration : quantile.before[d] <= observed[d]
  /\ quantile \in Walking => WalkInv(quantile)

LEMMA InBucketFinite == \A j : IsFiniteSet(InBucket(j)) /\ InBucket(j) \subseteq Duration
BY FS_Subset, TelemetryAssumption, Zenon DEF InBucket

LEMMA AtMostNat ==
  ASSUME NEW o, \A d \in Duration : o[d] \in Nat, NEW i \in 0 .. Len(bounds)
  PROVE  T!atMost(o, i) \in Nat
<1> DEFINE S == {d \in Duration : d <= bounds[i]}
<1>1. IsFiniteSet(S)
  BY FS_Subset, TelemetryAssumption, Zenon
<1>2. T!Total(o, S) \in Nat
  BY <1>1, TotalNat, Zenon
<1>3. QED
  BY <1>2, Zenon DEF T!atMost

LEMMA AtMostMonotone ==
  ASSUME NEW o, NEW p, NEW i \in 0 .. Len(bounds),
         \A d \in Duration : o[d] \in Nat /\ p[d] \in Nat /\ o[d] <= p[d]
  PROVE  T!atMost(o, i) <= T!atMost(p, i)
<1> DEFINE S == {d \in Duration : d <= bounds[i]}
<1>1. IsFiniteSet(S)
  BY FS_Subset, TelemetryAssumption, Zenon
<1>2. T!Total(o, S) <= T!Total(p, S)
  BY <1>1, TotalMonotone, Zenon
<1>3. QED
  BY <1>2 DEF T!atMost

(* One more bound covers one more bucket. *)
LEMMA AtMostStep ==
  ASSUME NEW o, \A d \in Duration : o[d] \in Nat, NEW i \in 1 .. Len(bounds)
  PROVE  T!atMost(o, i) = T!atMost(o, i - 1) + T!Total(o, InBucket(i))
<1> DEFINE S == {d \in Duration : d <= bounds[i]}
<1>1. Len(bounds) \in Nat
  BY TelemetryAssumption
<1>2. \A d \in Duration : T!bucketOf(d) \in 1 .. Len(bounds) + 1
  BY BucketCovers, Zenon DEF T!Bucket
<1>3. S = {d \in Duration : T!bucketOf(d) <= i}
  BY BucketCovers, Zenon
<1>4. IsFiniteSet(S)
  BY FS_Subset, TelemetryAssumption, Zenon
<1>5. T!atMost(o, i) = T!Total(o, S)
  BY DEF T!atMost
<1>6. CASE i = 1
  <2>1. S = InBucket(i)
    BY <1>1, <1>2, <1>3, <1>6 DEF InBucket
  <2>2. T!atMost(o, i - 1) = 0
    BY <1>6 DEF T!atMost
  <2>3. T!Total(o, S) \in Nat
    BY <1>4, TotalNat, Zenon
  <2> HIDE DEF S
  <2>4. QED
    BY <1>5, <2>1, <2>2, <2>3
<1>7. CASE i # 1
  <2> DEFINE A == {d \in Duration : d <= bounds[i - 1]}
  <2>1. i - 1 \in 1 .. Len(bounds)
    BY <1>1, <1>7
  <2>2. A = {d \in Duration : T!bucketOf(d) <= i - 1}
    BY <2>1, BucketCovers, Zenon
  <2>3. A \subseteq S /\ S \ A = InBucket(i)
    BY <1>1, <1>2, <1>3, <2>1, <2>2 DEF InBucket
  <2>4. T!atMost(o, i - 1) = T!Total(o, A)
    BY <2>1 DEF T!atMost
  <2>5. \A d \in S : o[d] \in Nat
    BY Zenon
  <2> HIDE DEF S, A
  <2>6. T!Total(o, S) = T!Total(o, A) + T!Total(o, S \ A)
    BY <1>4, <2>3, <2>5, TotalSplit, SMTT(30)
  <2>7. QED
    BY <1>5, <2>3, <2>4, <2>6, SMTT(30)
<1>8. QED
  BY <1>6, <1>7, Zenon

LEMMA ObserveKeepsHistogram ==
  ASSUME TelemetryTypeOK, HistogramAgrees, NEW g \in Recorder, T!Observe(g)
  PROVE  /\ HistogramAgrees'
         /\ \A d \in Duration : observed'[d] \in Nat /\ observed[d] <= observed'[d]
<1>1. PICK d \in Duration : d = rec[g].took
  BY RecFields, Zenon DEF T!Observe
<1>2. PICK b \in T!Bucket : b = T!bucketOf(d)
  BY BucketCovers, SMTT(30)
<1>3. /\ counts' = [counts EXCEPT ![b] = counts[b] + 1]
      /\ observed' = [observed EXCEPT ![d] = observed[d] + 1]
  BY <1>1, <1>2, Zenon DEF T!Observe
<1>4. /\ \A e \in Duration : observed[e] \in Nat
      /\ observed'[d] = observed[d] + 1
      /\ \A e \in Duration \ {d} : observed'[e] = observed[e]
      /\ counts'[b] = counts[b] + 1
      /\ \A j \in T!Bucket \ {b} : counts'[j] = counts[j]
  BY <1>3, Zenon DEF TelemetryTypeOK
<1>5. \A e \in Duration : observed'[e] \in Nat /\ observed[e] <= observed'[e]
  BY <1>4
<1>6. ASSUME NEW j \in T!Bucket
      PROVE  counts'[j] = T!Total(observed', InBucket(j))
  <2>1. counts[j] = T!Total(observed, InBucket(j))
    BY Zenon DEF HistogramAgrees
  <2>2. IsFiniteSet(InBucket(j)) /\ InBucket(j) \subseteq Duration
    BY InBucketFinite, SMTT(30)
  <2>3. CASE j = b
    <3>1. d \in InBucket(j)
      BY <1>2, <2>3, SMTT(30) DEF InBucket
    <3>2. T!Total(observed', InBucket(j)) = T!Total(observed, InBucket(j)) + 1
      BY <1>4, <2>2, <3>1, TotalAdd, SMTT(30)
    <3>3. QED
      BY <1>4, <2>1, <2>3, <3>2, Zenon
  <2>4. CASE j # b
    <3>1. d \notin InBucket(j)
      BY <1>2, <2>4, SMTT(30) DEF InBucket
    <3>2. T!Total(observed', InBucket(j)) = T!Total(observed, InBucket(j))
      BY <1>4, <2>2, <3>1, TotalEqual, SMTT(30)
    <3>3. QED
      BY <1>4, <2>1, <2>4, <3>2, Zenon
  <2>5. QED
    BY <2>3, <2>4, Zenon
<1>7. QED
  BY <1>5, <1>6, SMTT(30) DEF HistogramAgrees, InBucket

(* Observations that finish during a walk do not spoil it. *)
LEMMA WalkKept ==
  ASSUME TelemetryTypeOK, NEW q \in Walking, WalkInv(q),
         \A d \in Duration : observed'[d] \in Nat /\ observed[d] <= observed'[d]
  PROVE  WalkInv(q)'
<1>1. \A d \in Duration : q.before[d] \in Nat /\ observed[d] \in Nat
  BY DEF Walking, TelemetryTypeOK
<1>2. \A d \in Duration : q.before[d] <= observed'[d]
  BY <1>1 DEF WalkInv
<1>3. q.i \in 1 .. Len(bounds) + 1 /\ q.running \in Nat /\ Len(bounds) \in Nat
  BY TelemetryAssumption, SMTT(30) DEF Walking
<1>4. ASSUME NEW i \in 0 .. Len(bounds)
      PROVE  /\ T!atMost(observed, i) <= T!atMost(observed', i)
             /\ T!atMost(observed, i) \in Nat /\ T!atMost(observed', i) \in Nat
  BY <1>1, AtMostMonotone, AtMostNat, Zenon
<1>5. PICK rank \in Int : rank = q.percent * q.t
  BY DEF Walking
<1>6. ASSUME q.at = "walk"
      PROVE  q.running <= T!atMost(observed', q.i - 1)
  <2>1. q.i - 1 \in 0 .. Len(bounds) /\ q.running <= T!atMost(observed, q.i - 1)
    BY <1>3, <1>6 DEF WalkInv
  <2>2. QED
    BY <1>3, <1>4, <2>1
<1>7. ASSUME q.at = "found"
      PROVE  100 * T!atMost(observed', q.i) >= rank
  <2>1. q.i \in 0 .. Len(bounds) /\ 100 * T!atMost(observed, q.i) >= rank
    BY <1>3, <1>5, <1>7 DEF WalkInv
  <2>2. QED
    BY <1>4, <1>5, <2>1, SMTT(30)
<1>8. QED
  BY <1>2, <1>5, <1>6, <1>7, SMTT(30) DEF WalkInv

(* A load of one bucket. *)
LEMMA LoadBucketKeeps ==
  ASSUME TelemetryTypeOK, QuantileInv, T!loadBucket
  PROVE  quantile' \in Walking /\ WalkInv(quantile')
<1>1. quantile \in Walking /\ quantile.at = "walk"
  BY Zenon DEF QuantileInv, T!loadBucket, Asked, Walking
<1>2. PICK i \in 1 .. Len(bounds) : i = quantile.i
  BY <1>1, TelemetryAssumption DEF QuantileInv, WalkInv, Walking
<1>3. i \in T!Bucket /\ Len(bounds) \in Nat /\ i - 1 \in 0 .. Len(bounds) /\ i \in 0 .. Len(bounds)
  BY TelemetryAssumption DEF T!Bucket
<1>4. PICK o \in [Duration -> Nat], r \in Nat, c \in Nat :
        o = quantile.before /\ r = quantile.running /\ c = counts[i]
  BY <1>1, <1>3, ZenonT(30) DEF Walking, TelemetryTypeOK
<1>5. PICK rank \in Int : rank = quantile.percent * quantile.t
  BY <1>1 DEF Walking
<1>6. PICK n \in Nat : n = quantile.running + counts[quantile.i] /\ n = r + c
  BY <1>2, <1>4
<1> DEFINE q == [quantile EXCEPT !.running = n]
<1>7. /\ q \in Walking /\ q.running = n /\ q.i = i /\ q.before = o /\ q.at = "walk"
      /\ q.percent = quantile.percent /\ q.t = quantile.t
  BY <1>1, <1>2, <1>4, Zenon DEF Walking
<1>8. /\ quantile' = IF 100 * q.running >= q.percent * q.t THEN [q EXCEPT !.at = "found"]
                     ELSE IF q.i = Len(bounds) THEN [q EXCEPT !.at = "past", !.i = @ + 1]
                     ELSE [q EXCEPT !.i = @ + 1]
      /\ observed' = observed
  BY <1>6, Zenon DEF T!loadBucket
<1> HIDE DEF q
<1>9. \A d \in Duration : o[d] \in Nat /\ observed[d] \in Nat /\ o[d] <= observed[d]
  BY <1>1, <1>4, SMTT(30) DEF QuantileInv, WalkInv, TelemetryTypeOK
<1>10. /\ 100 * T!atMost(o, i - 1) < rank /\ 100 * r < rank
       /\ T!atMost(o, i - 1) <= r /\ r <= T!atMost(observed, i - 1)
  BY <1>1, <1>2, <1>4, <1>5, Zenon DEF QuantileInv, WalkInv
<1>11. T!atMost(o, i) \in Nat /\ T!atMost(observed, i) \in Nat
  BY <1>3, <1>9, AtMostNat, Zenon
<1>12. T!atMost(o, i) <= n /\ n <= T!atMost(observed, i)
  <2>1. c = T!Total(observed, InBucket(i))
    BY <1>3, <1>4, Zenon DEF QuantileInv, HistogramAgrees
  <2>2. T!Total(o, InBucket(i)) \in Nat /\ T!Total(o, InBucket(i)) <= c
    BY <1>9, <2>1, InBucketFinite, TotalNat, TotalMonotone, SMTT(30)
  <2>3. T!atMost(o, i - 1) \in Nat /\ T!atMost(observed, i - 1) \in Nat
    BY <1>3, <1>9, AtMostNat, Zenon
  <2>4. T!atMost(o, i) = T!atMost(o, i - 1) + T!Total(o, InBucket(i))
    BY <1>9, AtMostStep, Zenon
  <2>5. T!atMost(observed, i) = T!atMost(observed, i - 1) + c
    BY <1>9, <2>1, AtMostStep, Zenon
  <2>6. T!atMost(o, i) <= n
    BY <1>6, <1>10, <2>2, <2>3, <2>4, SMTT(30)
  <2>7. n <= T!atMost(observed, i)
    BY <1>6, <1>10, <2>3, <2>5, SMTT(30)
  <2>8. QED
    BY <2>6, <2>7, Zenon
<1>13. /\ 100 * q.running >= q.percent * q.t <=> 100 * n >= rank
       /\ q.i = Len(bounds) <=> i = Len(bounds)
  BY <1>5, <1>7, Zenon
<1>14. PICK m \in 1 .. Len(bounds) + 1 : m = q.i + 1 /\ m = i + 1
  BY <1>3, <1>7
<1>15. CASE 100 * n >= rank
  <2> DEFINE p == [q EXCEPT !.at = "found"]
  <2>1. quantile' = p
    BY <1>8, <1>13, <1>15, Zenon
  <2>2. /\ p \in Walking /\ p.at = "found" /\ p.i = i /\ p.before = o
        /\ p.percent = quantile.percent /\ p.t = quantile.t
    BY <1>7, Zenon DEF Walking
  <2> HIDE DEF p
  <2>3. 100 * T!atMost(observed, i) >= rank
    BY <1>11, <1>12, <1>15, SMTT(30)
  <2>4. WalkInv(p)
    BY <1>5, <1>9, <1>10, <2>2, <2>3, SMTT(30) DEF WalkInv
  <2>5. QED
    BY <2>1, <2>2, <2>4, Zenon
<1>16. CASE ~(100 * n >= rank) /\ i = Len(bounds)
  <2> DEFINE p == [q EXCEPT !.at = "past", !.i = m]
  <2>1. quantile' = p
    <3>1. ~(100 * q.running >= q.percent * q.t) /\ q.i = Len(bounds)
      BY <1>13, <1>16
    <3>2. QED
      BY <1>8, <1>14, <3>1, Zenon
  <2>2. /\ p \in Walking /\ p.at = "past" /\ p.i = i + 1 /\ p.before = o
        /\ p.percent = quantile.percent /\ p.t = quantile.t
    BY <1>7, <1>14, ZenonT(30) DEF Walking
  <2> HIDE DEF p
  <2>3. p.i - 1 = i /\ 100 * T!atMost(o, i) < rank
    BY <1>11, <1>12, <1>16, <2>2
  <2>4. WalkInv(p)
    BY <1>5, <1>9, <2>2, <2>3, SMTT(30) DEF WalkInv
  <2>5. QED
    BY <2>1, <2>2, <2>4, Zenon
<1>17. CASE ~(100 * n >= rank) /\ i # Len(bounds)
  <2> DEFINE p == [q EXCEPT !.i = m]
  <2>1. quantile' = p
    <3>1. ~(100 * q.running >= q.percent * q.t) /\ q.i # Len(bounds)
      BY <1>13, <1>17, Zenon
    <3>2. QED
      BY <1>8, <1>14, <3>1, Zenon
  <2>2. /\ p \in Walking /\ p.at = "walk" /\ p.i = i + 1 /\ p.before = o
        /\ p.percent = quantile.percent /\ p.t = quantile.t /\ p.running = n
    BY <1>7, <1>14, ZenonT(30) DEF Walking
  <2> HIDE DEF p
  <2>3. /\ p.i - 1 = i /\ 100 * T!atMost(o, i) < rank /\ 100 * n < rank
        /\ p.i <= Len(bounds)
    BY <1>3, <1>11, <1>12, <1>17, <2>2
  <2>4. WalkInv(p)
    BY <1>5, <1>9, <1>12, <2>2, <2>3, SMTT(30) DEF WalkInv
  <2>5. QED
    BY <2>1, <2>2, <2>4, Zenon
<1>18. QED
  BY <1>15, <1>16, <1>17, Zenon

LEMMA NextQuantile == TelemetryTypeOK /\ QuantileInv /\ [T!Next]_(T!vars) => QuantileInv'
<1> SUFFICES ASSUME TelemetryTypeOK, QuantileInv, [T!Next]_(T!vars)
             PROVE  QuantileInv'
  BY Zenon
<1>1. \A q : q \in Walking => q \notin Asked
  BY Zenon DEF Walking, Asked
(* Recording goes on, whatever Quantile does. *)
<1>2. ASSUME quantile' = quantile, HistogramAgrees',
             \A d \in Duration : observed'[d] \in Nat /\ observed[d] <= observed'[d]
      PROVE  QuantileInv'
  <2>1. ASSUME quantile \in Walking
        PROVE  WalkInv(quantile)'
    <3>1. PICK q \in Walking : q = quantile /\ WalkInv(q)
      BY <2>1, Zenon DEF QuantileInv
    <3>2. WalkInv(q)'
      BY <1>2, <3>1, WalkKept, SMTT(30)
    <3>3. q = quantile'
      BY <1>2, <3>1, Zenon
    <3>4. QED
      BY <3>2, <3>3 DEF WalkInv
  <2>2. ASSUME quantile \in Asked, NEW d \in Duration
        PROVE  quantile.before[d] <= observed'[d]
    <3>1. /\ quantile.before[d] \in Nat /\ observed[d] \in Nat /\ observed'[d] \in Nat
          /\ quantile.before[d] <= observed[d] /\ observed[d] <= observed'[d]
      BY <1>2, <2>2 DEF Asked, TelemetryTypeOK, QuantileInv
    <3>2. QED
      BY <3>1, SMTT(30)
  <2>3. QED
    BY <1>2, <2>1, <2>2, Zenon DEF QuantileInv
<1>3. \A d \in Duration : observed[d] \in Nat /\ observed[d] <= observed[d]
  BY DEF TelemetryTypeOK
<1>4. ASSUME UNCHANGED <<counts, observed>>
      PROVE  HistogramAgrees'
  BY <1>4, Zenon DEF QuantileInv, HistogramAgrees, InBucket
<1>5. ASSUME UNCHANGED <<quantile, counts, observed>>
      PROVE  QuantileInv'
  BY <1>2, <1>3, <1>4, <1>5, SMTT(30)
<1>6. ASSUME NEW g \in Recorder, T!Observe(g)
      PROVE  QuantileInv'
  <2>1. quantile' = quantile
    BY <1>6, SMTT(30) DEF T!Observe
  <2>2. QED
    BY <1>2, <1>6, <2>1, ObserveKeepsHistogram, SMTT(30) DEF QuantileInv
<1>7. ASSUME NEW percent \in {50, 99}, T!Quantile(percent)
      PROVE  QuantileInv'
  <2>1. quantile' \in Asked /\ quantile'.before = observed /\ observed' = observed
    BY <1>7, Zenon DEF T!Quantile, Asked, TelemetryTypeOK
  <2>2. HistogramAgrees'
    BY <1>4, <1>7, Zenon DEF T!Quantile
  <2>3. QED
    BY <1>1, <1>3, <2>1, <2>2, SMTT(30) DEF QuantileInv
<1>8. ASSUME T!loadCount
      PROVE  QuantileInv'
  <2>1. quantile \in Asked /\ observed' = observed
    BY <1>8, ZenonT(30) DEF T!loadCount, QuantileInv, Walking
  <2>2. HistogramAgrees'
    BY <1>4, <1>8, SMTT(30) DEF T!loadCount
  <2>3. CASE count = 0
    <3>1. quantile' = [at |-> "idle"]
      BY <1>8, <2>3, SMTT(30) DEF T!loadCount
    <3>2. quantile' \in [at : {"idle"}] /\ quantile' \notin Asked /\ quantile' \notin Walking
      BY <3>1, Zenon DEF Asked, Walking
    <3>3. QED
      BY <2>2, <3>2, SMTT(30) DEF QuantileInv
  <2>4. CASE count # 0
    <3> DEFINE q == [at |-> "walk", percent |-> quantile.percent,
                     before |-> quantile.before, t |-> count, i |-> 1, running |-> 0]
    <3>1. quantile' = q
      BY <1>8, <2>4, Zenon DEF T!loadCount
    <3>2. Len(bounds) \in Nat /\ Len(bounds) > 0 /\ count \in Nat \ {0}
      BY <2>4, TelemetryAssumption, SMTT(30) DEF TelemetryTypeOK
    <3>3. /\ q \in Walking /\ q.at = "walk" /\ q.before = quantile.before /\ q.t = count
          /\ q.percent \in {50, 99} /\ q.i = 1 /\ q.running = 0
      BY <2>1, <3>2 DEF Asked, Walking
    <3> HIDE DEF q
    <3>4. PICK w \in Walking : w = q
      BY <3>3, Zenon
    <3>5. w.percent * w.t > 0
      BY <3>2, <3>3, <3>4, SMTT(30)
    <3>6. \A o : T!atMost(o, w.i - 1) = 0
      BY <3>3, <3>4, SMTT(30) DEF T!atMost
    <3>7. \A d \in Duration : w.before[d] <= observed'[d]
      BY <2>1, <3>3, <3>4, SMTT(30) DEF QuantileInv
    <3>8. WalkInv(w)'
      BY <3>2, <3>3, <3>4, <3>5, <3>6, <3>7, SMTT(30) DEF WalkInv
    <3>9. w = quantile'
      BY <3>1, <3>4, SMTT(30)
    <3>10. WalkInv(quantile)'
      BY <3>8, <3>9, Zenon DEF WalkInv
    <3>11. QED
      BY <1>1, <2>2, <3>9, <3>10, SMTT(30) DEF QuantileInv
  <2>5. QED
    BY <2>3, <2>4, SMTT(30)
<1>9. ASSUME T!loadBucket
      PROVE  QuantileInv'
  <2>1. PICK q \in Walking : q = quantile' /\ WalkInv(q)
    BY <1>9, LoadBucketKeeps, Zenon
  <2>2. HistogramAgrees' /\ observed' = observed
    BY <1>4, <1>9, SMTT(30) DEF T!loadBucket
  <2>3. WalkInv(q)'
    BY <2>1, <2>2, SMTT(30) DEF WalkInv
  <2>4. QED
    BY <1>1, <2>1, <2>2, <2>3, Zenon DEF QuantileInv
<1>10. ASSUME T!return
       PROVE  QuantileInv'
  <2>1. quantile' = [at |-> "idle"]
    BY <1>10, Zenon DEF T!return
  <2>2. quantile' \in [at : {"idle"}] /\ quantile' \notin Asked /\ quantile' \notin Walking
    BY <2>1, Zenon DEF Asked, Walking
  <2>3. HistogramAgrees'
    BY <1>4, <1>10, Zenon DEF T!return
  <2>4. QED
    BY <2>2, <2>3, Zenon DEF QuantileInv
<1>11. QED
  BY <1>5, <1>6, <1>7, <1>8, <1>9, <1>10, ZenonT(30)
     DEF T!Next, T!vars, T!RecordCommand, T!redirect, T!RecordDuration, T!recordOutcome

(* For any buckets, durations and number of recorders: a quantile taken    *)
(* while commands record lies between what the observations finished       *)
(* before the call and those finished at its return justify.               *)
THEOREM QuantileBrackets == T!Spec => []QuantileIsBracketed
<1>1. T!Init => QuantileInv
  <2> SUFFICES ASSUME T!Init
               PROVE  QuantileInv
    BY Zenon
  <2>1. quantile \in [at : {"idle"}] /\ quantile \notin Asked /\ quantile \notin Walking
    BY Zenon DEF T!Init, Asked, Walking
  <2>2. ASSUME NEW j \in T!Bucket
        PROVE  counts[j] = T!Total(observed, InBucket(j))
    <3>1. \A d \in InBucket(j) : observed[d] = 0
      BY Zenon DEF T!Init, InBucket
    <3>2. T!Total(observed, InBucket(j)) = 0
      BY <3>1, InBucketFinite, TotalZero, SMTT(30)
    <3>3. QED
      BY <3>2, SMTT(30) DEF T!Init
  <2>3. QED
    BY <2>1, <2>2, SMTT(30) DEF QuantileInv, HistogramAgrees
<1>2. QuantileInv => QuantileIsBracketed
  <2> SUFFICES ASSUME QuantileInv, quantile.at \in {"found", "past"}
               PROVE  /\ 100 * T!atMost(quantile.before, quantile.i - 1)
                           < quantile.percent * quantile.t
                      /\ quantile.at = "found" =>
                           100 * T!atMost(observed, quantile.i)
                             >= quantile.percent * quantile.t
    BY Zenon DEF QuantileIsBracketed, T!QuantileIsBracketed
  <2>1. quantile \in Walking
    BY Zenon DEF QuantileInv, Asked
  <2>2. QED
    BY <2>1, Zenon DEF QuantileInv, WalkInv
<1>3. QED
  BY <1>1, <1>2, NextQuantile, TelemetryTypes, PTL DEF T!Spec

-----------------------------------------------------------------------------
(* The sketch: types *)

Idle  == [at : {"idle"}]
InRow == [at : {"load", "incr"}, key : Key, row : Row]
Done  == [at : {"size", "check"}, key : Key]
Aging == [at : {"age"}, left : SUBSET Cell]
Halve == [at : {"halve"}, left : SUBSET Cell, cell : Cell, old : Nat]

SketchTypeOK ==
  /\ counters \in [Cell -> Nat]
  /\ size \in Nat
  /\ pc \in [Adder -> Idle \cup InRow \cup Done \cup Aging \cup Halve]
  /\ seen \in [Key -> Nat]
  /\ aged \in BOOLEAN

(* The row-major order has a first cell, so loadCounter finds one. *)
LEMMA FirstCellExists ==
  ASSUME NEW S \in SUBSET Cell, S # {}
  PROVE  firstCell(S) \in S
<1> DEFINE rows == {c[1] : c \in S}
<1>1. rows \in SUBSET Nat /\ rows # {}
  BY DEF Cell, Row
<1>2. PICK r \in rows : \A q \in rows : r <= q
  BY <1>1, LeastNatural, Zenon
<1> DEFINE cols == {c[2] : c \in {d \in S : d[1] = r}}
<1>3. cols \in SUBSET Nat /\ cols # {}
  BY <1>2 DEF Cell
<1>4. PICK m \in cols : \A q \in cols : m <= q
  BY <1>3, LeastNatural, Zenon
<1>5. PICK c \in S : c[1] = r /\ c[2] = m
  BY <1>4, Zenon
<1>6. \A d \in S : c[1] < d[1] \/ (c[1] = d[1] /\ c[2] <= d[2])
  <2> SUFFICES ASSUME NEW d \in S
               PROVE  c[1] < d[1] \/ (c[1] = d[1] /\ c[2] <= d[2])
    BY Zenon
  <2>1. r <= d[1] /\ r \in Nat /\ d[1] \in Nat
    BY <1>1, <1>2, Zenon
  <2>2. CASE d[1] = r
    BY <1>4, <1>5, <2>2, Zenon
  <2>3. CASE d[1] # r
    BY <1>5, <2>1, <2>3
  <2>4. QED
    BY <2>2, <2>3, Zenon
<1>7. QED
  BY <1>6, Zenon DEF firstCell

(* What the fields of a state of pc are, by where the add stands. *)
LEMMA PcFields ==
  ASSUME SketchTypeOK, NEW g \in Adder
  PROVE  /\ pc[g].at \in {"idle", "load", "incr", "size", "check", "age", "halve"}
         /\ pc[g].at \in {"load", "incr"} =>
              /\ pc[g] \in InRow /\ pc[g].key \in Key /\ pc[g].row \in Row
              /\ column[pc[g].row, pc[g].key] \in Cell
         /\ pc[g].at \in {"size", "check"} => pc[g] \in Done /\ pc[g].key \in Key
         /\ pc[g].at = "age" => pc[g] \in Aging /\ pc[g].left \in SUBSET Cell
         /\ pc[g].at = "halve" =>
              /\ pc[g] \in Halve /\ pc[g].left \in SUBSET Cell
              /\ pc[g].cell \in Cell /\ pc[g].old \in Nat
<1>1. pc[g] \in Idle \cup InRow \cup Done \cup Aging \cup Halve
  BY Zenon DEF SketchTypeOK
<1>2. \A r \in Row, k \in Key : column[r, k] \in Cell
  BY SketchAssumption, Zenon
<1>3. QED
  BY <1>1, <1>2, Zenon DEF Idle, InRow, Done, Aging, Halve

(* Where an add goes after a row. *)
LEMMA NextRowType ==
  ASSUME NEW k \in Key, NEW row \in Row
  PROVE  /\ nextRow(k, row) \in InRow \cup Done
         /\ nextRow(k, row).at \in {"load", "size"}
         /\ nextRow(k, row).key = k
         /\ nextRow(k, row).at = "load" => nextRow(k, row).row = row + 1
         /\ nextRow(k, row).at = "size" => row = sketchDepth
<1>1. sketchDepth \in Nat
  BY SketchAssumption, Zenon
<1>2. CASE row = sketchDepth
  BY <1>2, Zenon DEF nextRow, Done
<1>3. CASE row # sketchDepth
  <2>1. row + 1 \in Row
    BY <1>1, <1>3 DEF Row
  <2>2. QED
    BY <1>3, <2>1, Zenon DEF nextRow, InRow
<1>4. QED
  BY <1>2, <1>3, Zenon

LEMMA NextSketchType == SketchTypeOK /\ [Next]_vars => SketchTypeOK'
<1> SUFFICES ASSUME SketchTypeOK, [Next]_vars
             PROVE  SketchTypeOK'
  BY Zenon
<1> DEFINE PcState == Idle \cup InRow \cup Done \cup Aging \cup Halve
<1>1. ASSUME NEW g \in Adder, NEW state \in PcState, goto(g, state)
      PROVE  pc' \in [Adder -> PcState]
  BY <1>1, Zenon DEF goto, SketchTypeOK
<1>2. ASSUME NEW g \in Adder, NEW k \in Key, add(g, k)
      PROVE  SketchTypeOK'
  <2>1. [at |-> "load", key |-> k, row |-> 1] \in InRow
    BY SketchAssumption DEF InRow, Row
  <2>2. QED
    BY <1>1, <1>2, <2>1, Zenon DEF add, SketchTypeOK
<1>3. ASSUME NEW g \in Adder, loadCell(g)
      PROVE  SketchTypeOK'
  <2>1. pc[g] \in InRow /\ pc[g].key \in Key /\ pc[g].row \in Row
    BY <1>3, PcFields, Zenon DEF loadCell
  <2>2. [pc[g] EXCEPT !.at = "incr"] \in InRow
    BY <2>1, Zenon DEF InRow
  <2>3. nextRow(pc[g].key, pc[g].row) \in PcState
    BY <2>1, NextRowType, Zenon
  <2>4. pc' \in [Adder -> PcState]
    BY <1>1, <1>3, <2>2, <2>3, Zenon DEF loadCell
  <2>5. QED
    BY <1>3, <2>4, Zenon DEF loadCell, SketchTypeOK
<1>4. ASSUME NEW g \in Adder, incrCell(g)
      PROVE  SketchTypeOK'
  <2>1. /\ pc[g].key \in Key /\ pc[g].row \in Row
        /\ column[pc[g].row, pc[g].key] \in Cell
    BY <1>4, PcFields, Zenon DEF incrCell
  <2>2. nextRow(pc[g].key, pc[g].row) \in PcState
    BY <2>1, NextRowType, Zenon
  <2>3. counters' \in [Cell -> Nat]
    <3>1. PICK c \in Cell : counters' = [counters EXCEPT ![c] = counters[c] + 1]
      BY <1>4, <2>1, Zenon DEF incrCell
    <3>2. QED
      BY <3>1 DEF SketchTypeOK
  <2>4. QED
    BY <1>1, <1>4, <2>2, <2>3, Zenon DEF incrCell, SketchTypeOK
<1>5. ASSUME NEW g \in Adder, addSize(g)
      PROVE  SketchTypeOK'
  <2>1. pc[g] \in Done
    BY <1>5, PcFields, Zenon DEF addSize
  <2>2. [pc[g] EXCEPT !.at = "check"] \in Done
    BY <2>1, Zenon DEF Done
  <2>3. QED
    BY <1>1, <1>5, <2>2 DEF addSize, SketchTypeOK
<1>6. ASSUME NEW g \in Adder, checkSize(g)
      PROVE  SketchTypeOK'
  <2>1. pc[g].key \in Key
    BY <1>6, PcFields, Zenon DEF checkSize
  <2>2. seen' \in [Key -> Nat]
    BY <1>6, <2>1 DEF checkSize, SketchTypeOK
  <2>3. [at |-> "age", left |-> Cell] \in PcState /\ [at |-> "idle"] \in PcState
    BY Zenon DEF Aging, Idle
  <2>4. pc' \in [Adder -> PcState] /\ aged' \in BOOLEAN
    BY <1>1, <1>6, <2>3, Zenon DEF checkSize, SketchTypeOK
  <2>5. QED
    BY <1>6, <2>2, <2>4, Zenon DEF checkSize, SketchTypeOK
<1>7. ASSUME NEW g \in Adder, loadCounter(g)
      PROVE  SketchTypeOK'
  <2> DEFINE c == firstCell(pc[g].left)
             state == [at |-> "halve", left |-> pc[g].left \ {c}, cell |-> c,
                       old |-> counters[c]]
  <2>1. pc[g].left \in SUBSET Cell /\ pc[g].left # {}
    BY <1>7, PcFields, Zenon DEF loadCounter
  <2>2. c \in Cell
    BY <2>1, FirstCellExists, Zenon
  <2>3. counters[c] \in Nat
    BY <2>2, Zenon DEF SketchTypeOK
  <2>4. state \in Halve
    BY <2>1, <2>2, <2>3, Zenon DEF Halve
  <2>5. goto(g, state)
    BY <1>7, Zenon DEF loadCounter
  <2>6. pc' \in [Adder -> PcState]
    BY <1>1, <2>4, <2>5, Zenon
  <2>7. QED
    BY <1>7, <2>6, Zenon DEF loadCounter, SketchTypeOK
<1>8. ASSUME NEW g \in Adder, storeHalf(g)
      PROVE  SketchTypeOK'
  <2>1. /\ pc[g].cell \in Cell /\ pc[g].old \in Nat
        /\ [at |-> "age", left |-> pc[g].left] \in Aging
    BY <1>8, PcFields, Zenon DEF storeHalf, Aging
  <2>2. pc[g].old \div 2 \in Nat
    BY <2>1
  <2>3. counters' \in [Cell -> Nat]
    BY <1>8, <2>1, <2>2, Zenon DEF storeHalf, SketchTypeOK
  <2>4. QED
    BY <1>1, <1>8, <2>1, <2>3, Zenon DEF storeHalf, SketchTypeOK
<1>9. ASSUME NEW g \in Adder, clearSize(g)
      PROVE  SketchTypeOK'
  <2>1. [at |-> "idle"] \in Idle
    BY Zenon DEF Idle
  <2>2. QED
    BY <1>1, <1>9, <2>1, Zenon DEF clearSize, SketchTypeOK
<1>10. CASE UNCHANGED vars
  BY <1>10, Zenon DEF vars, SketchTypeOK
<1>11. QED
  BY <1>2, <1>3, <1>4, <1>5, <1>6, <1>7, <1>8, <1>9, <1>10 DEF Next, Step

LEMMA SketchTypes == Spec => []SketchTypeOK
<1>1. Init => SketchTypeOK
  <2> SUFFICES ASSUME Init
               PROVE  SketchTypeOK
    BY Zenon
  <2>1. [at |-> "idle"] \in Idle
    BY Zenon DEF Idle
  <2>2. aged \in BOOLEAN
    BY Zenon DEF Init
  <2>3. QED
    BY <2>1, <2>2, Zenon DEF Init, SketchTypeOK
<1>2. QED
  BY <1>1, NextSketchType, PTL DEF Spec

-----------------------------------------------------------------------------
(* The sketch: aging *)

(* A sketch that is due has an add on its way to notice, or to reset. *)
SomeoneWillAge ==
  size >= sampleSize => \E g \in Adder : pc[g].at \in {"check", "age", "halve"}

LEMMA NextAging == SketchTypeOK /\ SomeoneWillAge /\ [Next]_vars => SomeoneWillAge'
<1> SUFFICES ASSUME SketchTypeOK, SomeoneWillAge, [Next]_vars, size' >= sampleSize
             PROVE  \E g \in Adder : pc'[g].at \in {"check", "age", "halve"}
  BY Zenon DEF SomeoneWillAge
<1> DEFINE W == {"check", "age", "halve"}
<1>1. \A g \in Adder : \A state : goto(g, state) =>
        pc'[g] = state /\ \A h \in Adder \ {g} : pc'[h] = pc[h]
  BY Zenon DEF goto, SketchTypeOK
(* An add that was not on that way does not leave it. *)
<1>2. ASSUME NEW g \in Adder, NEW state, goto(g, state), pc[g].at \notin W,
             size' = size
      PROVE  \E h \in Adder : pc'[h].at \in W
  <2>1. PICK h \in Adder : pc[h].at \in W
    BY <1>2, Zenon DEF SomeoneWillAge
  <2>2. h # g /\ pc'[h] = pc[h]
    BY <1>1, <1>2, <2>1, Zenon
  <2>3. QED
    BY <2>1, <2>2, Zenon
(* One that is, and goes on, is the witness. *)
<1>3. ASSUME NEW g \in Adder, NEW state, goto(g, state), state.at \in W
      PROVE  \E h \in Adder : pc'[h].at \in W
  BY <1>1, <1>3, Zenon
<1>4. ASSUME NEW g \in Adder, NEW k \in Key, add(g, k)
      PROVE  \E h \in Adder : pc'[h].at \in W
  BY <1>2, <1>4, Zenon DEF add
<1>5. ASSUME NEW g \in Adder, loadCell(g)
      PROVE  \E h \in Adder : pc'[h].at \in W
  BY <1>2, <1>5, Zenon DEF loadCell
<1>6. ASSUME NEW g \in Adder, incrCell(g)
      PROVE  \E h \in Adder : pc'[h].at \in W
  BY <1>2, <1>6, Zenon DEF incrCell
<1>7. ASSUME NEW g \in Adder, addSize(g)
      PROVE  \E h \in Adder : pc'[h].at \in W
  <2>1. pc[g] \in Done
    BY <1>7, PcFields, Zenon DEF addSize
  <2>2. [pc[g] EXCEPT !.at = "check"].at = "check"
    BY <2>1, Zenon DEF Done
  <2>3. QED
    BY <1>3, <1>7, <2>2, Zenon DEF addSize
<1>8. ASSUME NEW g \in Adder, checkSize(g)
      PROVE  \E h \in Adder : pc'[h].at \in W
  <2>1. goto(g, [at |-> "age", left |-> Cell])
    BY <1>8, Zenon DEF checkSize
  <2>2. QED
    BY <1>3, <2>1, Zenon
<1>9. ASSUME NEW g \in Adder, loadCounter(g)
      PROVE  \E h \in Adder : pc'[h].at \in W
  BY <1>3, <1>9, Zenon DEF loadCounter
<1>10. ASSUME NEW g \in Adder, storeHalf(g)
       PROVE  \E h \in Adder : pc'[h].at \in W
  BY <1>3, <1>10, Zenon DEF storeHalf
<1>11. ASSUME NEW g \in Adder, clearSize(g)
       PROVE  FALSE
  BY <1>11, SketchAssumption DEF clearSize
<1>12. CASE UNCHANGED vars
  BY <1>12, Zenon DEF vars, SomeoneWillAge
<1>13. QED
  BY <1>4, <1>5, <1>6, <1>7, <1>8, <1>9, <1>10, <1>11, <1>12 DEF Next, Step

(* However many adds overlap, none can step over the sample size unseen:   *)
(* a quiet sketch is never due for a reset.                                *)
THEOREM AgingHappens == Spec => []AgingIsNotMissed
<1>1. Init => SomeoneWillAge
  BY SketchAssumption DEF Init, SomeoneWillAge
<1>2. SketchTypeOK /\ SomeoneWillAge => AgingIsNotMissed
  BY SketchAssumption DEF SketchTypeOK, SomeoneWillAge, AgingIsNotMissed
<1>3. QED
  BY <1>1, <1>2, NextAging, SketchTypes, PTL DEF Spec

-----------------------------------------------------------------------------
(* The sketch: saturation *)

Adders == Cardinality(Adder)

InBounds(x) == x <= counterMax + Adders - 1 \/ x <= 2 * Adders - 3

(* The adds that passed the check of a cell and have yet to increment it. *)
Waiting(c) ==
  {g \in Adder : pc[g].at = "incr" /\ column[pc[g].row, pc[g].key] = c}

(* Every increment under way is already accounted for, and so is a count   *)
(* that a reset has loaded.                                                *)
OvershootInv ==
  /\ \A c \in Cell : InBounds(counters[c] + Cardinality(Waiting(c)))
  /\ \A g \in Adder : pc[g].at = "halve" => InBounds(pc[g].old)

LEMMA AddersType == Adders \in Nat /\ Adders > 0
<1>1. IsFiniteSet(Adder) /\ Adder # {}
  BY SketchAssumption, Zenon
<1>2. QED
  BY <1>1, FS_CardinalityType, FS_EmptySet DEF Adders

LEMMA WaitingSize ==
  ASSUME NEW S \in SUBSET Adder
  PROVE  /\ IsFiniteSet(S) /\ Cardinality(S) \in Nat /\ Cardinality(S) <= Adders
         /\ \A g \in Adder \ S : Cardinality(S) <= Adders - 1
<1>1. IsFiniteSet(S) /\ Cardinality(S) <= Adders
  BY FS_Subset, SketchAssumption, Zenon DEF Adders
<1>2. Cardinality(S) \in Nat
  BY <1>1, FS_CardinalityType, Zenon
<1>3. ASSUME NEW g \in Adder \ S
      PROVE  Cardinality(S) <= Adders - 1
  <2>1. S # Adder
    BY <1>3, Zenon
  <2>2. Cardinality(S) # Adders
    BY <2>1, FS_Subset, SketchAssumption, Zenon DEF Adders
  <2>3. QED
    BY <1>1, <1>2, <2>2, AddersType
<1>4. QED
  BY <1>1, <1>2, <1>3, Zenon

(* Halving a count within bounds leaves room for everyone else. *)
LEMMA HalfLeavesRoom ==
  ASSUME NEW x \in Nat, InBounds(x), NEW w \in Nat, w <= Adders - 1
  PROVE  InBounds(x \div 2 + w)
<1>1. counterMax \in Nat
  BY SketchAssumption, Zenon
<1>2. PICK h \in Nat : h = x \div 2 /\ 2 * h <= x
  OBVIOUS
<1>3. QED
  BY <1>1, <1>2, AddersType DEF InBounds

(* An add elsewhere leaves the waiting adds of a cell alone. *)
LEMMA WaitingUnchanged ==
  ASSUME SketchTypeOK, NEW g \in Adder, NEW state, goto(g, state),
         pc[g].at # "incr", state.at # "incr"
  PROVE  \A c \in Cell : Waiting(c)' = Waiting(c)
<1>1. pc'[g] = state /\ \A h \in Adder \ {g} : pc'[h] = pc[h]
  BY Zenon DEF goto, SketchTypeOK
<1>2. QED
  BY <1>1, Zenon DEF Waiting

LEMMA NextOvershoot == SketchTypeOK /\ OvershootInv /\ [Next]_vars => OvershootInv'
<1> SUFFICES ASSUME SketchTypeOK, OvershootInv, [Next]_vars
             PROVE  OvershootInv'
  BY Zenon
<1>1. \A g \in Adder : \A state : goto(g, state) =>
        pc'[g] = state /\ \A h \in Adder \ {g} : pc'[h] = pc[h]
  BY Zenon DEF goto, SketchTypeOK
<1>2. \A c \in Cell : counters[c] \in Nat /\ Waiting(c) \in SUBSET Adder
  BY Zenon DEF SketchTypeOK, Waiting
(* A step that leaves the counters, the checks and the loads alone. *)
<1>3. ASSUME NEW g \in Adder, NEW state, goto(g, state), counters' = counters,
             pc[g].at # "incr", state.at \notin {"incr", "halve"}
      PROVE  OvershootInv'
  <2>1. \A c \in Cell : Waiting(c)' = Waiting(c)
    BY <1>3, WaitingUnchanged, Zenon
  <2>2. QED
    BY <1>1, <1>3, <2>1, Zenon DEF OvershootInv
<1>4. ASSUME NEW g \in Adder, NEW k \in Key, add(g, k)
      PROVE  OvershootInv'
  BY <1>3, <1>4, Zenon DEF add
<1>5. ASSUME NEW g \in Adder, loadCell(g)
      PROVE  OvershootInv'
  <2>1. /\ pc[g] \in InRow /\ pc[g].key \in Key /\ pc[g].row \in Row
        /\ column[pc[g].row, pc[g].key] \in Cell
    BY <1>5, PcFields, Zenon DEF loadCell
  <2>2. PICK d \in Cell : d = column[pc[g].row, pc[g].key]
    BY <2>1, Zenon
  <2>3. CASE counters[d] < counterMax
    <3> DEFINE state == [pc[g] EXCEPT !.at = "incr"]
    <3>1. goto(g, state)
      BY <1>5, <2>2, <2>3, Zenon DEF loadCell
    <3>2. state.at = "incr" /\ state.row = pc[g].row /\ state.key = pc[g].key
      BY <2>1, Zenon DEF InRow
    <3> HIDE DEF state
    <3>3. \A c \in Cell \ {d} : Waiting(c)' = Waiting(c)
      <4>1. /\ pc[g].at # "incr" /\ column[pc'[g].row, pc'[g].key] = d
            /\ \A h \in Adder \ {g} : pc'[h] = pc[h]
        BY <1>1, <1>5, <2>2, <3>1, <3>2, Zenon DEF loadCell
      <4>2. QED
        BY <4>1, Zenon DEF Waiting
    <3>4. Waiting(d)' \in SUBSET Adder
      BY Zenon DEF Waiting
    <3>5. Cardinality(Waiting(d)') \in Nat /\ Cardinality(Waiting(d)') <= Adders
      BY <3>4, WaitingSize, Zenon
    <3>6. InBounds(counters[d] + Cardinality(Waiting(d)'))
      BY <1>2, <2>3, <3>5, AddersType, SketchAssumption DEF InBounds
    <3>7. counters' = counters
      BY <1>5, Zenon DEF loadCell
    <3>8. \A h \in Adder : pc'[h].at = "halve" => pc'[h] = pc[h]
      BY <1>1, <3>1, <3>2, Zenon
    <3>9. QED
      BY <3>3, <3>6, <3>7, <3>8, Zenon DEF OvershootInv
  <2>4. CASE ~(counters[d] < counterMax)
    <3>1. goto(g, nextRow(pc[g].key, pc[g].row))
      BY <1>5, <2>2, <2>4, Zenon DEF loadCell
    <3>2. nextRow(pc[g].key, pc[g].row).at \in {"load", "size"}
      BY <2>1, NextRowType, Zenon
    <3>3. QED
      BY <1>3, <1>5, <3>1, <3>2, Zenon DEF loadCell
  <2>5. QED
    BY <2>3, <2>4, Zenon
<1>6. ASSUME NEW g \in Adder, incrCell(g)
      PROVE  OvershootInv'
  <2>1. /\ pc[g].key \in Key /\ pc[g].row \in Row
        /\ column[pc[g].row, pc[g].key] \in Cell
    BY <1>6, PcFields, Zenon DEF incrCell
  <2>2. PICK d \in Cell : d = column[pc[g].row, pc[g].key]
    BY <2>1, Zenon
  <2>3. counters' = [counters EXCEPT ![d] = counters[d] + 1]
    BY <1>6, <2>2, Zenon DEF incrCell
  <2>4. goto(g, nextRow(pc[g].key, pc[g].row)) /\ pc[g].at = "incr"
    BY <1>6, Zenon DEF incrCell
  <2>5. nextRow(pc[g].key, pc[g].row).at \in {"load", "size"}
    BY <2>1, NextRowType, Zenon
  <2>6. pc'[g].at \notin {"incr", "halve"}
    BY <1>1, <2>4, <2>5, Zenon
  <2>7. \A c \in Cell \ {d} : Waiting(c)' = Waiting(c)
    BY <1>1, <2>2, <2>4, <2>6, ZenonT(30) DEF Waiting
  <2>8. g \in Waiting(d) /\ Waiting(d)' = Waiting(d) \ {g}
    BY <1>1, <2>2, <2>4, <2>6, Zenon DEF Waiting
  <2>9. Cardinality(Waiting(d)') = Cardinality(Waiting(d)) - 1
    BY <1>2, <2>8, WaitingSize, FS_RemoveElement, Zenon
  <2>10. /\ counters'[d] + Cardinality(Waiting(d)') = counters[d] + Cardinality(Waiting(d))
         /\ \A c \in Cell \ {d} : counters'[c] = counters[c]
    BY <1>2, <2>3, <2>9, WaitingSize DEF SketchTypeOK
  <2>11. \A h \in Adder : pc'[h].at = "halve" => pc'[h] = pc[h]
    BY <1>1, <2>4, <2>6, Zenon
  <2>12. QED
    BY <2>7, <2>10, <2>11, Zenon DEF OvershootInv
<1>7. ASSUME NEW g \in Adder, addSize(g)
      PROVE  OvershootInv'
  <2>1. pc[g] \in Done
    BY <1>7, PcFields, Zenon DEF addSize
  <2>2. [pc[g] EXCEPT !.at = "check"].at = "check"
    BY <2>1, Zenon DEF Done
  <2>3. QED
    BY <1>3, <1>7, <2>2, Zenon DEF addSize
<1>8. ASSUME NEW g \in Adder, checkSize(g)
      PROVE  OvershootInv'
  BY <1>3, <1>8, Zenon DEF checkSize
<1>9. ASSUME NEW g \in Adder, loadCounter(g)
      PROVE  OvershootInv'
  <2> DEFINE c == firstCell(pc[g].left)
             state == [at |-> "halve", left |-> pc[g].left \ {c}, cell |-> c,
                       old |-> counters[c]]
  <2>1. c \in Cell
    BY <1>9, PcFields, FirstCellExists, Zenon DEF loadCounter
  <2>2. goto(g, state) /\ pc[g].at = "age" /\ counters' = counters
    BY <1>9, Zenon DEF loadCounter
  <2>3. state.at = "halve" /\ state.old = counters[c]
    BY Zenon
  <2> HIDE DEF state, c
  <2>4. \A d \in Cell : Waiting(d)' = Waiting(d)
    BY <2>2, <2>3, WaitingUnchanged, Zenon
  <2>5. InBounds(counters[c])
    <3>1. Cardinality(Waiting(c)) \in Nat /\ counters[c] \in Nat
      BY <1>2, <2>1, WaitingSize, Zenon
    <3>2. InBounds(counters[c] + Cardinality(Waiting(c)))
      BY <2>1, Zenon DEF OvershootInv
    <3>3. QED
      BY <3>1, <3>2, AddersType, SketchAssumption DEF InBounds
  <2>6. QED
    BY <1>1, <2>2, <2>3, <2>4, <2>5 DEF OvershootInv
<1>10. ASSUME NEW g \in Adder, storeHalf(g)
       PROVE  OvershootInv'
  <2>1. PICK d \in Cell, x \in Nat : d = pc[g].cell /\ x = pc[g].old
    BY <1>10, PcFields, Zenon DEF storeHalf
  <2>2. /\ counters' = [counters EXCEPT ![d] = x \div 2]
        /\ goto(g, [at |-> "age", left |-> pc[g].left])
        /\ pc[g].at = "halve"
    BY <1>10, <2>1, Zenon DEF storeHalf
  <2>3. \A c \in Cell : Waiting(c)' = Waiting(c)
    BY <2>2, WaitingUnchanged, Zenon
  <2>4. InBounds(x)
    BY <2>1, <2>2, Zenon DEF OvershootInv
  <2>5. g \notin Waiting(d)
    BY <2>2, Zenon DEF Waiting
  <2>6. Cardinality(Waiting(d)) \in Nat /\ Cardinality(Waiting(d)) <= Adders - 1
    BY <1>2, <2>5, WaitingSize, Zenon
  <2>7. InBounds(x \div 2 + Cardinality(Waiting(d)))
    BY <2>4, <2>6, HalfLeavesRoom, Zenon
  <2>8. counters'[d] = x \div 2 /\ \A c \in Cell \ {d} : counters'[c] = counters[c]
    BY <2>2, Zenon DEF SketchTypeOK
  <2>9. \A h \in Adder : pc'[h].at = "halve" => pc'[h] = pc[h]
    BY <1>1, <2>2
  <2>10. QED
    BY <2>3, <2>7, <2>8, <2>9, Zenon DEF OvershootInv
<1>11. ASSUME NEW g \in Adder, clearSize(g)
       PROVE  OvershootInv'
  BY <1>3, <1>11, Zenon DEF clearSize
<1>12. CASE UNCHANGED vars
  BY <1>12, Zenon DEF vars, OvershootInv, Waiting
<1>13. QED
  BY <1>4, <1>5, <1>6, <1>7, <1>8, <1>9, <1>10, <1>11, <1>12 DEF Next, Step

(* For any number of overlapping adds and resets, however stale the counts *)
(* the resets store: the counters stay within the bound, which the cap and *)
(* the number of goroutines alone determine.                               *)
THEOREM OvershootStaysBounded == Spec => []OvershootIsBounded
<1>1. Init => OvershootInv
  <2> SUFFICES ASSUME Init, NEW c \in Cell
               PROVE  InBounds(counters[c] + Cardinality(Waiting(c)))
    <3>1. Init => \A g \in Adder : pc[g].at = "idle"
      BY DEF Init
    <3>2. QED
      BY <3>1, Zenon DEF OvershootInv
  <2>1. Waiting(c) = {} /\ counters[c] = 0
    BY Zenon DEF Init, Waiting
  <2>2. QED
    BY <2>1, FS_EmptySet, AddersType, SketchAssumption DEF InBounds
<1>2. SketchTypeOK /\ OvershootInv => OvershootIsBounded
  <2> SUFFICES ASSUME SketchTypeOK, OvershootInv, NEW c \in Cell
               PROVE  InBounds(counters[c])
    BY Zenon DEF OvershootIsBounded, InBounds, Adders
  <2>1. counters[c] \in Nat /\ Cardinality(Waiting(c)) \in Nat
    BY WaitingSize, Zenon DEF SketchTypeOK, Waiting
  <2>2. InBounds(counters[c] + Cardinality(Waiting(c)))
    BY Zenon DEF OvershootInv
  <2>3. QED
    BY <2>1, <2>2, AddersType, SketchAssumption DEF InBounds
<1>3. QED
  BY <1>1, <1>2, NextOvershoot, SketchTypes, PTL DEF Spec

-----------------------------------------------------------------------------
(* The sketch: the estimate before the first reset *)

(* The adds of k that are done with the cell of a row and not yet counted  *)
(* in seen.                                                                *)
Past(k, row) ==
  {g \in Adder :
     \/ pc[g].at \in {"load", "incr"} /\ pc[g].key = k /\ pc[g].row > row
     \/ pc[g].at \in {"size", "check"} /\ pc[g].key = k}

CellOf(k, row) == column[row, k]

(* In every row, the cell of a key is saturated or counts them all. *)
Counted(k, row) ==
  \/ counters[CellOf(k, row)] >= counterMax
  \/ counters[CellOf(k, row)] >= seen[k] + Cardinality(Past(k, row))

EstimateInv ==
  ~aged => /\ \A g \in Adder : pc[g].at \notin {"age", "halve"}
           /\ \A k \in Key, row \in Row : Counted(k, row)

LEMMA CellOfType == \A k \in Key, row \in Row : CellOf(k, row) \in Cell
BY Zenon, SketchAssumption DEF CellOf

LEMMA PastSize ==
  ASSUME NEW k, NEW row
  PROVE  /\ IsFiniteSet(Past(k, row)) /\ Cardinality(Past(k, row)) \in Nat
         /\ \A g : Cardinality(Past(k, row) \cup {g}) <= Cardinality(Past(k, row)) + 1
<1>1. Past(k, row) \in SUBSET Adder
  BY Zenon DEF Past
<1>2. IsFiniteSet(Past(k, row)) /\ Cardinality(Past(k, row)) \in Nat
  BY <1>1, WaitingSize, Zenon
<1>3. ASSUME NEW g
      PROVE  Cardinality(Past(k, row) \cup {g}) <= Cardinality(Past(k, row)) + 1
  <2>1. CASE g \in Past(k, row)
    <3>1. Past(k, row) \cup {g} = Past(k, row)
      BY <2>1, Zenon
    <3>2. Cardinality(Past(k, row) \cup {g}) = Cardinality(Past(k, row))
      BY <3>1, Zenon
    <3>3. QED
      BY <1>2, <3>2
  <2>2. CASE g \notin Past(k, row)
    <3>1. Cardinality(Past(k, row) \cup {g}) = Cardinality(Past(k, row)) + 1
      BY <1>2, <2>2, FS_AddElement, Zenon
    <3>2. QED
      BY <1>2, <3>1
  <2>3. QED
    BY <2>1, <2>2, Zenon
<1>4. QED
  BY <1>2, <1>3, Zenon

(* An add that is done with a row is past that row and no other. *)
LEMMA PastNextRow ==
  ASSUME SketchTypeOK, NEW g \in Adder, pc[g].at \in {"load", "incr"},
         goto(g, nextRow(pc[g].key, pc[g].row)),
         NEW k \in Key, NEW row \in Row
  PROVE  Past(k, row)' = IF k = pc[g].key /\ row = pc[g].row
                         THEN Past(k, row) \cup {g} ELSE Past(k, row)
<1>1. pc'[g] = nextRow(pc[g].key, pc[g].row) /\ \A h \in Adder \ {g} : pc'[h] = pc[h]
  BY Zenon DEF goto, SketchTypeOK
<1>2. pc[g].key \in Key /\ pc[g].row \in Row
  BY PcFields, Zenon
<1>3. /\ pc'[g].at \in {"load", "size"} /\ pc'[g].key = pc[g].key
      /\ pc'[g].at = "load" => pc'[g].row = pc[g].row + 1
      /\ pc'[g].at = "size" => pc[g].row = sketchDepth
  BY <1>1, <1>2, NextRowType
<1>4. row \in Int /\ pc[g].row \in Int /\ row <= sketchDepth /\ sketchDepth \in Int
  BY <1>2, SketchAssumption DEF Row
<1>5. g \in Past(k, row)' <=> k = pc[g].key /\ row <= pc[g].row
  BY <1>3, <1>4 DEF Past
<1>6. g \in Past(k, row) <=> k = pc[g].key /\ row < pc[g].row
  BY <1>4, Zenon DEF Past
<1>7. \A h : h # g => (h \in Past(k, row)' <=> h \in Past(k, row))
  BY <1>1, Zenon DEF Past
<1>8. CASE k = pc[g].key /\ row = pc[g].row
  <2>1. g \in Past(k, row)'
    BY <1>4, <1>5, <1>8
  <2>2. QED
    BY <1>7, <1>8, <2>1, Zenon
<1>9. CASE ~(k = pc[g].key /\ row = pc[g].row)
  <2>1. g \in Past(k, row)' <=> g \in Past(k, row)
    BY <1>4, <1>5, <1>6, <1>9, SMTT(30)
  <2>2. QED
    BY <1>7, <1>9, <2>1
<1>10. QED
  BY <1>8, <1>9, Zenon

LEMMA NextEstimate == SketchTypeOK /\ EstimateInv /\ [Next]_vars => EstimateInv'
<1> SUFFICES ASSUME SketchTypeOK, EstimateInv, [Next]_vars, ~aged'
             PROVE  /\ \A g \in Adder : pc'[g].at \notin {"age", "halve"}
                    /\ \A k \in Key, row \in Row : Counted(k, row)'
  BY Zenon DEF EstimateInv
<1> DEFINE Young == \A g \in Adder : pc'[g].at \notin {"age", "halve"}
           All   == \A k \in Key, row \in Row : Counted(k, row)'
<1>1. \A g \in Adder : \A state : goto(g, state) =>
        pc'[g] = state /\ \A h \in Adder \ {g} : pc'[h] = pc[h]
  BY SMTT(30) DEF goto, SketchTypeOK
<1>2. ~aged
  BY Zenon DEF Next, Step, add, loadCell, incrCell, addSize, checkSize, loadCounter,
         storeHalf, clearSize, vars
<1>3. /\ \A g \in Adder : pc[g].at \notin {"age", "halve"}
      /\ \A k \in Key, row \in Row : Counted(k, row)
  BY <1>2, Zenon DEF EstimateInv
<1>4. \A k \in Key, row \in Row :
        /\ CellOf(k, row) \in Cell /\ counters[CellOf(k, row)] \in Nat
        /\ seen[k] \in Nat /\ Cardinality(Past(k, row)) \in Nat
  BY PastSize, CellOfType, Zenon DEF SketchTypeOK
<1>5. ASSUME NEW g \in Adder, NEW state, goto(g, state),
             state.at \notin {"age", "halve"}
      PROVE  Young
  BY <1>1, <1>3, <1>5, Zenon
(* Nothing of interest changes. *)
<1>6. ASSUME counters' = counters, seen' = seen,
             \A k \in Key, row \in Row : Past(k, row)' = Past(k, row)
      PROVE  All
  BY <1>3, <1>6, Zenon DEF Counted
<1>7. ASSUME NEW g \in Adder, NEW k \in Key, add(g, k)
      PROVE  Young /\ All
  <2>1. pc'[g] = [at |-> "load", key |-> k, row |-> 1] /\ pc[g].at = "idle"
    BY <1>1, <1>7 DEF add
  <2>2. \A j \in Key, row \in Row : Past(j, row)' = Past(j, row)
    <3> SUFFICES ASSUME NEW j \in Key, NEW row \in Row
                 PROVE  Past(j, row)' = Past(j, row)
      BY Zenon
    <3>1. ~(1 > row)
      BY SketchAssumption DEF Row
    <3>2. g \notin Past(j, row) /\ g \notin Past(j, row)'
      BY <2>1, <3>1 DEF Past
    <3>3. \A h \in Adder \ {g} : pc'[h] = pc[h]
      BY <1>1, <1>7, Zenon DEF add
    <3>4. \A h : h # g => (h \in Past(j, row)' <=> h \in Past(j, row))
      BY <3>3, Zenon DEF Past
    <3>5. QED
      BY <3>2, <3>4
  <2>3. QED
    BY <1>5, <1>6, <1>7, <2>2, Zenon DEF add
<1>8. ASSUME NEW g \in Adder, loadCell(g)
      PROVE  Young /\ All
  <2>1. /\ pc[g] \in InRow /\ pc[g].key \in Key /\ pc[g].row \in Row
        /\ pc[g].at = "load"
    BY <1>8, PcFields, Zenon DEF loadCell
  <2>2. counters' = counters /\ seen' = seen
    BY <1>8, Zenon DEF loadCell
  <2>3. CASE counters[CellOf(pc[g].key, pc[g].row)] < counterMax
    <3> DEFINE state == [pc[g] EXCEPT !.at = "incr"]
    <3>1. goto(g, state)
      BY <1>8, <2>3, Zenon DEF loadCell, CellOf
    <3>2. state.at = "incr" /\ state.row = pc[g].row /\ state.key = pc[g].key
      BY <2>1, Zenon DEF InRow
    <3> HIDE DEF state
    <3>3. /\ pc'[g].at = "incr" /\ pc'[g].row = pc[g].row /\ pc'[g].key = pc[g].key
          /\ \A h \in Adder \ {g} : pc'[h] = pc[h]
      BY <1>1, <3>1, <3>2, Zenon
    <3>4. \A k \in Key, row \in Row : Past(k, row)' = Past(k, row)
      BY <2>1, <3>3 DEF Past
    <3>5. QED
      BY <1>5, <1>6, <2>2, <3>1, <3>2, <3>4, Zenon
  <2>4. CASE ~(counters[CellOf(pc[g].key, pc[g].row)] < counterMax)
    <3>1. goto(g, nextRow(pc[g].key, pc[g].row))
      BY <1>8, <2>4, Zenon DEF loadCell, CellOf
    <3>2. nextRow(pc[g].key, pc[g].row).at \in {"load", "size"}
      BY <2>1, NextRowType, Zenon
    <3>3. ASSUME NEW k \in Key, NEW row \in Row
          PROVE  Counted(k, row)'
      <4>1. CASE k = pc[g].key /\ row = pc[g].row
        <5>1. counters'[CellOf(k, row)] >= counterMax
          BY <1>4, <2>2, <2>4, <4>1, SketchAssumption
        <5>2. QED
          BY <5>1, Zenon DEF Counted
      <4>2. CASE ~(k = pc[g].key /\ row = pc[g].row)
        <5>1. Past(k, row)' = Past(k, row)
          BY <2>1, <3>1, <4>2, PastNextRow, Zenon
        <5>2. QED
          BY <1>3, <2>2, <5>1, Zenon DEF Counted
      <4>3. QED
        BY <4>1, <4>2, Zenon
    <3>4. QED
      BY <1>5, <3>1, <3>2, <3>3, Zenon
  <2>5. QED
    BY <2>3, <2>4, Zenon
<1>9. ASSUME NEW g \in Adder, incrCell(g)
      PROVE  Young /\ All
  <2>1. /\ pc[g].key \in Key /\ pc[g].row \in Row /\ pc[g].at = "incr"
        /\ goto(g, nextRow(pc[g].key, pc[g].row)) /\ seen' = seen
    BY <1>9, PcFields, Zenon DEF incrCell
  <2>2. PICK d \in Cell : d = CellOf(pc[g].key, pc[g].row)
    BY <1>4, <2>1, Zenon
  <2>3. counters' = [counters EXCEPT ![d] = counters[d] + 1]
    BY <1>9, <2>2, Zenon DEF incrCell, CellOf
  <2>4. \A c \in Cell : /\ counters[c] \in Nat /\ counters'[c] \in Nat
                        /\ counters'[c] = IF c = d THEN counters[c] + 1 ELSE counters[c]
    BY <2>3 DEF SketchTypeOK
  <2>5. nextRow(pc[g].key, pc[g].row).at \in {"load", "size"}
    BY <2>1, NextRowType, Zenon
  <2>6. ASSUME NEW k \in Key, NEW row \in Row
        PROVE  Counted(k, row)'
    <3>1. PICK c \in Cell : c = CellOf(k, row)
      BY <1>4, Zenon
    <3>2. /\ counters[c] >= counterMax \/ counters[c] >= seen[k] + Cardinality(Past(k, row))
          /\ seen[k] \in Nat /\ Cardinality(Past(k, row)) \in Nat
          /\ counters[c] \in Nat /\ counters'[c] \in Nat /\ counterMax \in Nat
          /\ counters'[c] >= counters[c]
      BY <1>3, <1>4, <2>4, <3>1, SketchAssumption DEF Counted
    <3>3. Cardinality(Past(k, row)') \in Nat
      <4>1. Past(k, row)' \in SUBSET Adder
        BY Zenon DEF Past
      <4>2. QED
        BY <4>1, WaitingSize, Zenon
    <3>4. CASE k = pc[g].key /\ row = pc[g].row
      <4>1. Past(k, row)' = Past(k, row) \cup {g}
        BY <2>1, <3>4, PastNextRow, Zenon
      <4>2. Cardinality(Past(k, row)') <= Cardinality(Past(k, row)) + 1
        BY <4>1, PastSize, Zenon
      <4>3. counters'[c] = counters[c] + 1
        BY <2>2, <2>4, <3>1, <3>4, Zenon
      <4>4. \/ counters'[c] >= counterMax
            \/ counters'[c] >= seen[k] + Cardinality(Past(k, row)')
        BY <3>2, <3>3, <4>2, <4>3
      <4>5. QED
        BY <2>1, <3>1, <4>4, Zenon DEF Counted
    <3>5. CASE ~(k = pc[g].key /\ row = pc[g].row)
      <4>1. Past(k, row)' = Past(k, row)
        BY <2>1, <3>5, PastNextRow, SMTT(30)
      <4>2. \/ counters'[c] >= counterMax
            \/ counters'[c] >= seen[k] + Cardinality(Past(k, row))
        BY <3>2
      <4>3. QED
        BY <2>1, <3>1, <4>1, <4>2 DEF Counted
    <3>6. QED
      BY <3>4, <3>5, Zenon
  <2>7. QED
    BY <1>5, <2>1, <2>5, <2>6, Zenon
<1>10. ASSUME NEW g \in Adder, addSize(g)
       PROVE  Young /\ All
  <2>1. pc[g] \in Done /\ pc[g].at = "size"
    BY <1>10, PcFields, Zenon DEF addSize
  <2> DEFINE state == [pc[g] EXCEPT !.at = "check"]
  <2>2. goto(g, state) /\ counters' = counters /\ seen' = seen
    BY <1>10, Zenon DEF addSize
  <2>3. state.at = "check" /\ state.key = pc[g].key
    BY <2>1, Zenon DEF Done
  <2> HIDE DEF state
  <2>4. /\ pc'[g].at = "check" /\ pc'[g].key = pc[g].key
        /\ \A h \in Adder \ {g} : pc'[h] = pc[h]
    BY <1>1, <2>2, <2>3, Zenon
  <2>5. \A k \in Key, row \in Row : Past(k, row)' = Past(k, row)
    BY <2>1, <2>4 DEF Past
  <2>6. QED
    BY <1>5, <1>6, <2>2, <2>3, <2>5, Zenon
<1>11. ASSUME NEW g \in Adder, checkSize(g)
       PROVE  Young /\ All
  <2>1. pc[g].key \in Key /\ pc[g].at = "check"
    BY <1>11, PcFields, Zenon DEF checkSize
  <2>2. goto(g, [at |-> "idle"]) /\ counters' = counters
    BY <1>11, Zenon DEF checkSize
  <2>3. pc'[g].at = "idle" /\ \A h \in Adder \ {g} : pc'[h] = pc[h]
    BY <1>1, <2>2
  <2>4. ASSUME NEW k \in Key, NEW row \in Row
        PROVE  Counted(k, row)'
    <3>1. /\ seen[k] \in Nat
          /\ seen'[k] = IF k = pc[g].key THEN seen[k] + 1 ELSE seen[k]
      BY <1>11, <2>1, SMTT(30) DEF checkSize, SketchTypeOK
    <3>2. CASE k = pc[g].key
      <4>1. g \in Past(k, row) /\ Past(k, row)' = Past(k, row) \ {g}
        BY <2>1, <2>3, <3>2, Zenon DEF Past
      <4>2. Cardinality(Past(k, row)') = Cardinality(Past(k, row)) - 1
        BY <4>1, PastSize, FS_RemoveElement
      <4>3. seen'[k] + Cardinality(Past(k, row)') = seen[k] + Cardinality(Past(k, row))
        BY <1>4, <3>1, <3>2, <4>2
      <4>4. QED
        BY <1>3, <2>2, <4>3, Zenon DEF Counted
    <3>3. CASE k # pc[g].key
      <4>1. Past(k, row)' = Past(k, row)
        BY <2>1, <2>3, <3>3, SMTT(30) DEF Past
      <4>2. QED
        BY <1>3, <2>2, <3>1, <3>3, <4>1 DEF Counted
    <3>4. QED
      BY <3>2, <3>3, Zenon
  <2>5. QED
    BY <1>5, <2>2, <2>4, Zenon
<1>12. ASSUME NEW g \in Adder, loadCounter(g) \/ storeHalf(g) \/ clearSize(g)
       PROVE  FALSE
  BY <1>3, <1>12, Zenon DEF loadCounter, storeHalf, clearSize
<1>13. CASE UNCHANGED vars
  <2>1. \A k \in Key, row \in Row : Past(k, row)' = Past(k, row)
    BY <1>13 DEF vars, Past
  <2>2. QED
    BY <1>3, <1>6, <1>13, <2>1, Zenon DEF vars
<1>14. QED
  BY <1>7, <1>8, <1>9, <1>10, <1>11, <1>12, <1>13, SMTT(30) DEF Next, Step

(* For any rows, columns and collisions between keys, and any overlap of   *)
(* adds: until a reset begins, a key never looks rarer than it is.         *)
THEOREM EstimateIsNoLower == Spec => []NeverUnderestimates
<1>1. Init => EstimateInv
  <2> SUFFICES ASSUME Init
               PROVE  /\ \A g \in Adder : pc[g].at \notin {"age", "halve"}
                      /\ \A k \in Key, row \in Row : Counted(k, row)
    BY Zenon DEF EstimateInv
  <2>1. \A g \in Adder : pc[g].at = "idle"
    BY Zenon DEF Init
  <2>2. ASSUME NEW k \in Key, NEW row \in Row
        PROVE  Counted(k, row)
    <3>1. Past(k, row) = {}
      BY <2>1, Zenon DEF Past
    <3>2. Cardinality(Past(k, row)) = 0
      BY <3>1, FS_EmptySet, Zenon
    <3>3. CellOf(k, row) \in Cell
      BY CellOfType, Zenon
    <3>4. counters[CellOf(k, row)] = 0 /\ seen[k] = 0
      BY <3>3, Zenon DEF Init
    <3>5. QED
      BY <3>2, <3>4, SketchAssumption DEF Counted
  <2>3. QED
    BY <2>1, <2>2, Zenon
<1>2. SketchTypeOK /\ EstimateInv => NeverUnderestimates
  <2> SUFFICES ASSUME SketchTypeOK, EstimateInv, ~aged, NEW k \in Key
               PROVE  estimate(k) >= Min({counterMax, seen[k]})
    BY Zenon DEF NeverUnderestimates
  <2> DEFINE shown == {counterMax} \cup {counters[CellOf(k, row)] : row \in Row}
             truth == {counterMax, seen[k]}
  <2>1. /\ counterMax \in Nat /\ seen[k] \in Nat
        /\ \A row \in Row : CellOf(k, row) \in Cell
    BY SketchAssumption, CellOfType, Zenon DEF SketchTypeOK
  <2>2. \A row \in Row : counters[CellOf(k, row)] \in Nat
    BY <2>1, Zenon DEF SketchTypeOK
  <2>3. shown \in SUBSET Nat /\ shown # {} /\ truth \in SUBSET Nat /\ truth # {}
    BY <2>1, <2>2, Zenon
  <2>4. /\ Min(shown) \in shown
        /\ Min(truth) \in Nat /\ Min(truth) <= counterMax /\ Min(truth) <= seen[k]
    BY <2>3, LeastIsMin, Zenon
  <2>5. \A row \in Row : counters[CellOf(k, row)] >= Min(truth)
    <3> SUFFICES ASSUME NEW row \in Row
                 PROVE  counters[CellOf(k, row)] >= Min(truth)
      BY Zenon
    <3>1. Counted(k, row) /\ Cardinality(Past(k, row)) \in Nat
      BY PastSize, Zenon DEF EstimateInv
    <3>2. QED
      BY <2>1, <2>2, <2>4, <3>1 DEF Counted
  <2>6. Min(shown) >= Min(truth)
    BY <2>1, <2>4, <2>5, Zenon
  <2>7. QED
    BY <2>6, Zenon DEF estimate, CellOf
<1>3. QED
  BY <1>1, <1>2, NextEstimate, SketchTypes, PTL DEF Spec
=============================================================================
