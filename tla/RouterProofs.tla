---------------------------- MODULE RouterProofs ----------------------------
(***************************************************************************)
(* The ring and the routers for any nodes, number of virtual points and    *)
(* placement of them: what Sort, Get and GetN compute, and what a request  *)
(* may rely on while rings are rebuilt.                                    *)
(***************************************************************************)
EXTENDS Router, FiniteSetTheorems, TLAPS

-----------------------------------------------------------------------------
(* Induction without an operator parameter. *)

LessThan == {p \in Nat \X Nat : p[1] < p[2]}

(* A set of naturals that is not empty has a least element, ... *)
LEMMA LeastNatural ==
  ASSUME NEW S \in SUBSET Nat, S # {}
  PROVE  \E m \in S : \A n \in S : m <= n
<1>1. IsWellFoundedOn(LessThan, Nat)
  BY NatLessThanWellFounded, Zenon DEF OpToRel, LessThan
<1>2. PICK m \in S : \A n \in S : <<n, m>> \notin LessThan
  BY <1>1, WFMin, Zenon
<1>3. ASSUME NEW n \in S
      PROVE  m <= n
  <2>1. m \in Nat /\ n \in Nat /\ <<n, m>> \notin LessThan
    BY <1>2, Zenon
  <2>2. QED
    BY <2>1 DEF LessThan
<1>4. QED
  BY <1>3, Zenon

(* ... a set of indices a greatest one, ... *)
LEMMA GreatestIndex ==
  ASSUME NEW n \in Nat, NEW S \in SUBSET (1 .. n), S # {}
  PROVE  \E m \in S : \A i \in S : m >= i
<1> DEFINE above == {n - m : m \in S}
<1>1. above \in SUBSET Nat /\ above # {}
  <2>1. \A m \in S : n - m \in Nat
    OBVIOUS
  <2>2. QED
    BY <2>1, Zenon
<1>2. PICK d \in above : \A e \in above : d <= e
  BY <1>1, LeastNatural, Zenon
<1>3. PICK m \in S : d = n - m
  BY <1>2, Zenon
<1>4. ASSUME NEW i \in S
      PROVE  m >= i
  <2>1. n - m <= n - i /\ i \in 1 .. n /\ m \in 1 .. n
    BY <1>2, <1>3, Zenon
  <2>2. QED
    BY <2>1
<1>5. QED
  BY <1>4, Zenon

(* ... and a set with 0 and the successor of each of its elements below n  *)
(* has all the numbers up to n.                                            *)
LEMMA UpTo ==
  ASSUME NEW n \in Nat, NEW G, 0 \in G,
         \A k \in 0 .. n : k < n /\ k \in G => k + 1 \in G
  PROVE  0 .. n \subseteq G
<1> DEFINE bad == {k \in 0 .. n : k \notin G}
<1>1. bad = {}
  <2> SUFFICES ASSUME bad # {}
               PROVE  FALSE
    BY Zenon
  <2>1. bad \in SUBSET Nat
    OBVIOUS
  <2>2. PICK m \in bad : \A k \in bad : m <= k
    BY <2>1, LeastNatural, Zenon
  <2>3. m \in 0 .. n /\ m # 0 /\ m \notin G
    BY <2>2, Zenon
  <2>4. m - 1 \in 0 .. n /\ m - 1 < n /\ ~(m <= m - 1) /\ (m - 1) + 1 = m
    BY <2>3
  <2>5. m - 1 \in G
    BY <2>2, <2>4, Zenon
  <2>6. QED
    BY <2>3, <2>4, <2>5
<1>2. QED
  BY <1>1, Zenon

LEMMA MaxIs ==
  ASSUME NEW n \in Nat, NEW s \in SUBSET (1 .. n), NEW x \in s, \A y \in s : x >= y
  PROVE  Max(s) = x
<1>1. \A y \in s : y >= x /\ (\A z \in s : y >= z) => y = x
  OBVIOUS
<1>2. Max(s) \in s /\ \A y \in s : Max(s) >= y
  BY Zenon DEF Max
<1>3. QED
  BY <1>1, <1>2, Zenon

LEMMA MaxIn ==
  ASSUME NEW n \in Nat, NEW s \in SUBSET (1 .. n), s # {}
  PROVE  Max(s) \in s /\ \A y \in s : Max(s) >= y
BY GreatestIndex, Zenon DEF Max

LEMMA MinIn ==
  ASSUME NEW S \in SUBSET Nat, S # {}
  PROVE  Min(S) \in S /\ \A y \in S : Min(S) <= y
BY LeastNatural, Zenon DEF Min

-----------------------------------------------------------------------------
(* Folds over sequences, whose values at the prefixes are a function. *)

(* g is what a fold of step over 1 .. n computes for the subsets. *)
SolvesFold(g, n, A, base, step) ==
  /\ g \in [SUBSET (1 .. n) -> A]
  /\ \A s \in SUBSET (1 .. n) :
       g[s] = IF s = {} THEN base ELSE step[Max(s)][g[s \ {Max(s)}]]

LEMMA FoldExists ==
  ASSUME NEW n \in Nat, NEW A, NEW base \in A, NEW step \in [1 .. n -> [A -> A]]
  PROVE  \E g : SolvesFold(g, n, A, base, step)
<1> DEFINE Solves(g, m) ==
             /\ g \in [SUBSET (1 .. m) -> A]
             /\ \A s \in SUBSET (1 .. m) :
                  g[s] = IF s = {} THEN base ELSE step[Max(s)][g[s \ {Max(s)}]]
           G == {m \in 0 .. n : \E g : Solves(g, m)}
<1>1. 0 \in G
  <2> DEFINE g == [s \in SUBSET (1 .. 0) |-> base]
  <2>1. \A s \in SUBSET (1 .. 0) : s = {}
    OBVIOUS
  <2>2. g \in [SUBSET (1 .. 0) -> A]
    BY Zenon
  <2>3. Solves(g, 0)
    BY <2>1, <2>2, Zenon
  <2>4. 0 \in 0 .. n
    OBVIOUS
  <2>5. QED
    BY <2>3, <2>4, Zenon
<1>2. ASSUME NEW m \in 0 .. n, m < n, m \in G
      PROVE  m + 1 \in G
  <2>1. PICK h : Solves(h, m)
    BY <1>2, Zenon
  <2> DEFINE top == m + 1
             g   == [s \in SUBSET (1 .. top) |->
                       IF top \in s THEN step[top][h[s \ {top}]] ELSE h[s]]
  <2>2. top \in 1 .. n /\ top \in 0 .. n /\ m \in Nat /\ top \in Nat
    BY <1>2
  <2>3. /\ \A x \in 1 .. top : x = top \/ x \in 1 .. m
        /\ \A x \in 1 .. top : top >= x
    BY <1>2
  <2> HIDE DEF top
  <2>4. \A s \in SUBSET (1 .. top) :
           /\ s \ {top} \in SUBSET (1 .. m)
           /\ s \ {top} \in SUBSET (1 .. top)
           /\ top \notin s \ {top}
           /\ top \notin s => s \in SUBSET (1 .. m)
           /\ \A y \in s : top >= y
           /\ \A x : s \ {x} \in SUBSET (1 .. top)
    BY <2>3, Zenon
  <2>5. step[top] \in [A -> A]
    BY <2>2, Zenon
  <2>6. ASSUME NEW s \in SUBSET (1 .. top)
        PROVE  g[s] \in A
    <3>1. CASE top \in s
      <4>1. h[s \ {top}] \in A
        BY <2>1, <2>4, Zenon
      <4>2. QED
        BY <2>5, <3>1, <4>1, Zenon
    <3>2. CASE top \notin s
      BY <2>1, <2>4, <3>2, Zenon
    <3>3. QED
      BY <3>1, <3>2, Zenon
  <2>7. ASSUME NEW s \in SUBSET (1 .. top)
        PROVE  g[s] = IF s = {} THEN base ELSE step[Max(s)][g[s \ {Max(s)}]]
    <3>1. CASE top \in s
      <4>1. Max(s) = top
        BY <2>2, <2>4, <3>1, MaxIs, Zenon
      <4>2. g[s \ {top}] = h[s \ {top}] /\ g[s] = step[top][h[s \ {top}]] /\ s # {}
        BY <2>4, <3>1, Zenon
      <4> HIDE DEF g
      <4>3. QED
        BY <4>1, <4>2, Zenon
    <3>2. CASE top \notin s
      <4>1. g[s] = h[s] /\ s \in SUBSET (1 .. m)
        BY <2>4, <3>2, Zenon
      <4>2. top \notin s \ {Max(s)} /\ s \ {Max(s)} \in SUBSET (1 .. top)
        BY <2>4, <3>2, Zenon
      <4>3. g[s \ {Max(s)}] = h[s \ {Max(s)}]
        BY <4>2, Zenon
      <4> HIDE DEF g
      <4>4. QED
        BY <2>1, <4>1, <4>3, Zenon
    <3>3. QED
      BY <3>1, <3>2, Zenon
  <2>8. g \in [SUBSET (1 .. top) -> A]
    BY <2>6, Zenon
  <2> HIDE DEF g
  <2>9. Solves(g, top)
    BY <2>7, <2>8, Zenon
  <2> HIDE DEF Solves
  <2>10. top \in G
    BY <2>2, <2>9, Zenon
  <2>11. QED
    BY <2>10, Zenon DEF top
<1>3. n \in 0 .. n
  OBVIOUS
<1> HIDE DEF Solves
<1>4. n \in G
  <2> HIDE DEF G
  <2>1. 0 .. n \subseteq G
    BY <1>1, <1>2, UpTo, Zenon
  <2>2. QED
    BY <1>3, <2>1, Zenon
<1>5. PICK g : Solves(g, n)
  BY <1>4, Zenon
<1>6. QED
  BY <1>5, Zenon DEF Solves, SolvesFold

(* The subsets a fold over a sequence of n elements visits. *)
LEMMA PrefixSets ==
  ASSUME NEW n \in Nat
  PROVE  /\ 1 .. 0 = {} /\ {} \in SUBSET (1 .. n)
         /\ \A k \in 1 .. n : /\ 1 .. k \in SUBSET (1 .. n)
                              /\ 1 .. k # {}
                              /\ Max(1 .. k) = k
                              /\ (1 .. k) \ {Max(1 .. k)} = 1 .. (k - 1)
<1>1. 1 .. 0 = {} /\ {} \in SUBSET (1 .. n)
  OBVIOUS
<1>2. ASSUME NEW k \in 1 .. n
      PROVE  /\ 1 .. k \in SUBSET (1 .. n)
             /\ 1 .. k # {}
             /\ Max(1 .. k) = k
             /\ (1 .. k) \ {Max(1 .. k)} = 1 .. (k - 1)
  <2>1. 1 .. k \in SUBSET (1 .. n) /\ k \in 1 .. k
    OBVIOUS
  <2>2. \A y \in 1 .. k : k >= y
    OBVIOUS
  <2>3. Max(1 .. k) = k
    BY <2>1, <2>2, MaxIs, Zenon
  <2>4. (1 .. k) \ {k} = 1 .. (k - 1)
    OBVIOUS
  <2>5. QED
    BY <2>1, <2>3, <2>4, Zenon
<1>3. QED
  BY <1>1, <1>2, Zenon

(* What a fold computes for the prefixes is a function, and its value for  *)
(* all of the sequence the last one.                                       *)
Iterates(iter, n, A, base, step) ==
  /\ iter[{}] = base
  /\ \A s \in SUBSET (1 .. n) :
       s # {} /\ iter[s \ {Max(s)}] \in A
         => iter[s] = step[Max(s)][iter[s \ {Max(s)}]]

IsPrefixed(F, n, A, base, step, last) ==
  /\ F \in [0 .. n -> A]
  /\ F[0] = base
  /\ \A k \in 1 .. n : F[k] = step[k][F[k - 1]]
  /\ F[n] = last

LEMMA FoldPrefixes ==
  ASSUME NEW n \in Nat, NEW A, NEW base \in A, NEW step \in [1 .. n -> [A -> A]],
         NEW iter, Iterates(iter, n, A, base, step)
  PROVE  \E F : IsPrefixed(F, n, A, base, step, iter[1 .. n])
<1> DEFINE F == [k \in 0 .. n |-> iter[1 .. k]]
           G == {k \in 0 .. n : F[k] \in A}
<1>1. 0 \in 0 .. n /\ n \in 0 .. n /\ \A k \in 1 .. n : k \in 0 .. n /\ k - 1 \in 0 .. n
  OBVIOUS
<1>2. F[0] = base
  BY <1>1, PrefixSets, Zenon DEF Iterates
<1>3. \A k \in 1 .. n : F[k - 1] \in A => F[k] = step[k][F[k - 1]]
  BY <1>1, PrefixSets, Zenon DEF Iterates
<1>4. iter[1 .. n] = F[n]
  BY <1>1, Zenon
<1> HIDE DEF F
<1>5. 0 .. n \subseteq G
  <2>1. 0 \in G
    BY <1>1, <1>2, Zenon
  <2>2. ASSUME NEW k \in 0 .. n, k < n, k \in G
        PROVE  k + 1 \in G
    <3>1. k + 1 \in 1 .. n /\ (k + 1) - 1 = k /\ k + 1 \in 0 .. n
      BY <2>2
    <3>2. F[k] \in A
      BY <2>2, Zenon
    <3>3. F[k + 1] = step[k + 1][F[(k + 1) - 1]]
      BY <1>3, <3>1, <3>2
    <3>4. F[k + 1] \in A
      BY <3>1, <3>2, <3>3, Zenon
    <3>5. QED
      BY <3>1, <3>4, Zenon
  <2> HIDE DEF G
  <2>3. QED
    BY <2>1, <2>2, UpTo, Zenon
<1>6. \A k \in 0 .. n : F[k] \in A
  BY <1>5, Zenon
<1>7. F \in [0 .. n -> A]
  BY <1>6, Zenon DEF F
<1>8. QED
  BY <1>1, <1>2, <1>3, <1>4, <1>6, <1>7, Zenon DEF IsPrefixed

-----------------------------------------------------------------------------
(* rebuild: the points of the members, one member after the other. *)

Adds(h, order) == Loop(LAMBDA points, m : Add(h, points, m), <<>>, order)

AddStep(h, order, iter, s) ==
  IF s = {} THEN <<>> ELSE Add(h, iter[s \ {Max(s)}], order[Max(s)])

AddsIter(h, order, iter) ==
  iter = [s \in SUBSET DOMAIN order |-> AddStep(h, order, iter, s)]

LEMMA AddsIsIter ==
  ASSUME NEW h, NEW order, \E iter : AddsIter(h, order, iter)
  PROVE  \E iter : AddsIter(h, order, iter) /\ Adds(h, order) = iter[DOMAIN order]
BY Zenon DEF Adds, Loop, MapThenFoldSet, AddsIter, AddStep

Contains(s, e) == \E i \in 1 .. Len(s) : s[i] = e

LEMMA RangeIs ==
  ASSUME NEW S, NEW s \in Seq(S)
  PROVE  \A e : e \in Range(s) <=> Contains(s, e)
<1>1. DOMAIN s = 1 .. Len(s)
  OBVIOUS
<1>2. QED
  BY <1>1, Zenon DEF Range, Contains

(* The i-th point of node m; p is a point of one of the nodes M. *)
PointAt(h, m, i) == [hash |-> h[m][i], node |-> m]

PointOf(h, M, p) == \E m \in M, i \in VirtualNode : p = PointAt(h, m, i)

LEMMA ConcatParts ==
  ASSUME NEW S, NEW s \in Seq(S), NEW t \in Seq(S)
  PROVE  /\ s \o t \in Seq(S)
         /\ Len(s \o t) = Len(s) + Len(t)
         /\ \A i \in 1 .. Len(s) : (s \o t)[i] = s[i]
         /\ \A i \in 1 .. Len(t) : (s \o t)[Len(s) + i] = t[i]
OBVIOUS

LEMMA AddType ==
  ASSUME NEW h \in [Node -> [VirtualNode -> Position]], NEW points \in Seq(Point), NEW m \in Node
  PROVE  /\ Add(h, points, m) \in Seq(Point)
         /\ Len(Add(h, points, m)) = Len(points) + Replicas
         /\ \A i \in 1 .. Len(points) : Add(h, points, m)[i] = points[i]
         /\ \A i \in VirtualNode : Add(h, points, m)[Len(points) + i] = PointAt(h, m, i)
<1> DEFINE new == [i \in VirtualNode |-> PointAt(h, m, i)]
<1>1. Replicas \in Nat /\ VirtualNode = 1 .. Replicas
  BY RingAssumption DEF VirtualNode
<1>2. ASSUME NEW i \in VirtualNode
      PROVE  PointAt(h, m, i) \in Point
  <2>1. h[m][i] \in Position
    BY Zenon
  <2>2. QED
    BY <2>1 DEF PointAt, Point
<1>3. new \in [1 .. Replicas -> Point]
  BY <1>1, <1>2, Zenon
<1>4. new \in Seq(Point) /\ Len(new) = Replicas
  BY <1>1, <1>3
<1>5. Add(h, points, m) = points \o new
  BY Zenon DEF Add, PointAt
<1>6. \A i \in VirtualNode : new[i] = PointAt(h, m, i)
  BY Zenon
<1> HIDE DEF new
<1>7. /\ points \o new \in Seq(Point)
      /\ Len(points \o new) = Len(points) + Replicas
      /\ \A i \in 1 .. Len(points) : (points \o new)[i] = points[i]
      /\ \A i \in 1 .. Replicas : (points \o new)[Len(points) + i] = new[i]
  <2>1. /\ points \o new \in Seq(Point)
        /\ Len(points \o new) = Len(points) + Len(new)
        /\ \A i \in 1 .. Len(points) : (points \o new)[i] = points[i]
        /\ \A i \in 1 .. Len(new) : (points \o new)[Len(points) + i] = new[i]
    <3>1. new \in Seq(Point)
      BY <1>4, Zenon
    <3>2. QED
      BY <3>1, ConcatParts
  <2>2. QED
    BY <1>4, <2>1, Zenon
<1>8. QED
  BY <1>1, <1>5, <1>6, <1>7, Zenon

LEMMA AddsPrefixes ==
  ASSUME NEW h \in [Node -> [VirtualNode -> Position]], NEW order \in Seq(Node)
  PROVE  \E F \in [0 .. Len(order) -> Seq(Point)] :
           /\ F[0] = <<>>
           /\ \A k \in 1 .. Len(order) : F[k] = Add(h, F[k - 1], order[k])
           /\ Adds(h, order) = F[Len(order)]
<1> DEFINE n    == Len(order)
           A    == Seq(Point)
           step == [x \in 1 .. n |-> [acc \in A |-> Add(h, acc, order[x])]]
<1>1. n \in Nat /\ DOMAIN order = 1 .. n /\ \A x \in 1 .. n : order[x] \in Node
  OBVIOUS
<1>2. <<>> \in A
  OBVIOUS
<1> HIDE DEF n, A
<1>3. \A x \in 1 .. n, acc \in A : Add(h, acc, order[x]) \in A
  BY <1>1, AddType, Zenon DEF A
<1>4. step \in [1 .. n -> [A -> A]]
  BY <1>3, Zenon
<1>5. \A x \in 1 .. n, acc \in A : step[x][acc] = Add(h, acc, order[x])
  BY Zenon
<1> HIDE DEF step
<1>6. PICK g : SolvesFold(g, n, A, <<>>, step)
  BY <1>1, <1>2, <1>4, FoldExists, Zenon
<1>7. ASSUME NEW s \in SUBSET (1 .. n)
      PROVE  g[s] = AddStep(h, order, g, s)
  <2>1. CASE s = {}
    BY <1>6, <2>1, Zenon DEF AddStep, SolvesFold
  <2>2. CASE s # {}
    <3>1. Max(s) \in 1 .. n
      BY <1>1, <2>2, MaxIn, Zenon
    <3>2. g[s \ {Max(s)}] \in A
      BY <1>6, Zenon DEF SolvesFold
    <3>3. QED
      BY <1>5, <1>6, <2>2, <3>1, <3>2, Zenon DEF AddStep, SolvesFold
  <2>3. QED
    BY <2>1, <2>2, Zenon
<1>8. AddsIter(h, order, g)
  BY <1>1, <1>6, <1>7, Zenon DEF AddsIter, SolvesFold
<1>9. PICK iter : AddsIter(h, order, iter) /\ Adds(h, order) = iter[1 .. n]
  BY <1>1, <1>8, AddsIsIter, Zenon
<1>10. iter[{}] = <<>>
  BY <1>1, <1>9, PrefixSets, Zenon DEF AddsIter, AddStep
<1>11. ASSUME NEW s \in SUBSET (1 .. n), s # {}, iter[s \ {Max(s)}] \in A
       PROVE  iter[s] = step[Max(s)][iter[s \ {Max(s)}]]
  <2>1. Max(s) \in 1 .. n
    BY <1>1, <1>11, MaxIn, Zenon
  <2>2. iter[s] = Add(h, iter[s \ {Max(s)}], order[Max(s)])
    BY <1>1, <1>9, <1>11, Zenon DEF AddsIter, AddStep
  <2>3. QED
    BY <1>5, <1>11, <2>1, <2>2, Zenon
<1>12. Iterates(iter, n, A, <<>>, step)
  BY <1>10, <1>11, Zenon DEF Iterates
<1>13. PICK F : IsPrefixed(F, n, A, <<>>, step, iter[1 .. n])
  BY <1>1, <1>2, <1>4, <1>12, FoldPrefixes, Zenon
<1>14. \A k \in 1 .. n : k - 1 \in 0 .. n
  BY <1>1
<1>15. F \in [0 .. n -> A] /\ F[0] = <<>> /\ F[n] = iter[1 .. n]
  BY <1>13, Zenon DEF IsPrefixed
<1>16. \A k \in 1 .. n : F[k] = Add(h, F[k - 1], order[k])
  BY <1>5, <1>13, <1>14, <1>15, Zenon DEF IsPrefixed
<1>17. QED
  BY <1>9, <1>15, <1>16, Zenon DEF n, A

(* points are the virtual points of the nodes M, each of them once. *)
Placed(h, points, M) ==
  /\ points \in Seq(Point)
  /\ \A p : Contains(points, p) <=> PointOf(h, M, p)
  /\ \A i, j \in 1 .. Len(points) : points[i].hash = points[j].hash => i = j

LEMMA HashesDiffer ==
  ASSUME NEW h \in hashStr, NEW m \in Node, NEW n \in Node,
         NEW i \in VirtualNode, NEW j \in VirtualNode
  PROVE  PointAt(h, m, i).hash = PointAt(h, n, j).hash => m = n /\ i = j
BY DEF PointAt, hashStr

LEMMA AddPlaces ==
  ASSUME NEW h \in hashStr, NEW M \in SUBSET Node, NEW m \in Node \ M,
         NEW points, Placed(h, points, M)
  PROVE  Placed(h, Add(h, points, m), M \cup {m})
<1> DEFINE q == Add(h, points, m)
           L == Len(points)
<1>1. h \in [Node -> [VirtualNode -> Position]] /\ points \in Seq(Point)
  BY Zenon DEF hashStr, Placed
<1>2. L \in Nat /\ Replicas \in Nat /\ VirtualNode = 1 .. Replicas
  BY <1>1, RingAssumption DEF VirtualNode
<1>3. /\ q \in Seq(Point)
      /\ Len(q) = L + Replicas
      /\ \A i \in 1 .. L : q[i] = points[i]
      /\ \A i \in VirtualNode : q[L + i] = PointAt(h, m, i)
  BY <1>1, AddType, Zenon
<1> HIDE DEF q, L
<1>4. \A i \in 1 .. Len(q) : i \in 1 .. L \/ (i - L \in VirtualNode /\ L + (i - L) = i)
  BY <1>2, <1>3
<1>5. /\ \A i \in 1 .. L : i \in 1 .. Len(q)
      /\ \A i \in VirtualNode : L + i \in 1 .. Len(q)
  BY <1>2, <1>3
<1>6. \A p : PointOf(h, M \cup {m}, p)
               <=> PointOf(h, M, p) \/ \E i \in VirtualNode : p = PointAt(h, m, i)
  BY Zenon DEF PointOf
<1>7. ASSUME NEW p
      PROVE  Contains(q, p) <=> PointOf(h, M \cup {m}, p)
  <2>1. Contains(points, p) <=> PointOf(h, M, p)
    BY Zenon DEF Placed
  <2>2. ASSUME Contains(q, p)
        PROVE  PointOf(h, M \cup {m}, p)
    <3>1. PICK i \in 1 .. Len(q) : q[i] = p
      BY <2>2, Zenon DEF Contains
    <3>2. CASE i \in 1 .. L
      <4>1. Contains(points, p)
        BY <1>3, <3>1, <3>2, Zenon DEF Contains, L
      <4>2. QED
        BY <1>6, <2>1, <4>1, Zenon
    <3>3. CASE i - L \in VirtualNode /\ L + (i - L) = i
      <4>1. q[i] = PointAt(h, m, i - L)
        BY <1>3, <3>3, Zenon
      <4>2. QED
        BY <1>6, <3>1, <3>3, <4>1, Zenon
    <3>4. QED
      BY <1>4, <3>1, <3>2, <3>3, Zenon
  <2>3. ASSUME PointOf(h, M \cup {m}, p)
        PROVE  Contains(q, p)
    <3>1. CASE PointOf(h, M, p)
      <4>1. PICK i \in 1 .. L : points[i] = p
        BY <2>1, <3>1, Zenon DEF Contains, L
      <4>2. QED
        BY <1>3, <1>5, <4>1, Zenon DEF Contains
    <3>2. CASE \E i \in VirtualNode : p = PointAt(h, m, i)
      BY <1>3, <1>5, <3>2, Zenon DEF Contains
    <3>3. QED
      BY <1>6, <2>3, <3>1, <3>2, Zenon
  <2>4. QED
    BY <2>2, <2>3, Zenon
<1>8. ASSUME NEW i \in 1 .. L, NEW j \in 1 .. Len(q), j - L \in VirtualNode, L + (j - L) = j
      PROVE  q[i].hash # q[j].hash
  <2>1. Contains(points, points[i])
    BY Zenon DEF Contains, L
  <2>2. PointOf(h, M, points[i])
    BY <2>1, Zenon DEF Placed
  <2>3. PICK o \in M, l \in VirtualNode : points[i] = PointAt(h, o, l)
    BY <2>2, Zenon DEF PointOf
  <2>4. q[j] = PointAt(h, m, j - L) /\ q[i] = PointAt(h, o, l)
    BY <1>3, <1>8, <2>3, Zenon
  <2>5. PointAt(h, o, l).hash # PointAt(h, m, j - L).hash
    <3>1. o \in Node /\ m \in Node /\ o # m
      BY Zenon
    <3>2. QED
      BY <1>8, <3>1, HashesDiffer
  <2>6. QED
    BY <2>4, <2>5, Zenon
<1>9. ASSUME NEW i \in 1 .. Len(q), NEW j \in 1 .. Len(q), q[i].hash = q[j].hash
      PROVE  i = j
  <2>1. CASE i \in 1 .. L /\ j \in 1 .. L
    BY <1>3, <1>9, <2>1, Zenon DEF Placed, L
  <2>2. CASE i - L \in VirtualNode /\ L + (i - L) = i /\ j - L \in VirtualNode /\ L + (j - L) = j
    <3>1. q[i] = PointAt(h, m, i - L) /\ q[j] = PointAt(h, m, j - L)
      BY <1>3, <2>2, Zenon
    <3>2. PointAt(h, m, i - L).hash = PointAt(h, m, j - L).hash
      BY <1>9, <3>1, Zenon
    <3>3. i - L = j - L
      BY <2>2, <3>2, HashesDiffer
    <3>4. QED
      BY <2>2, <3>3, Zenon
  <2>3. QED
    BY <1>4, <1>8, <1>9, <2>1, <2>2, Zenon
<1>10. QED
  BY <1>3, <1>7, <1>9, Zenon DEF Placed, q

LEMMA IndexCount ==
  ASSUME NEW n \in Nat
  PROVE  IsFiniteSet(1 .. n) /\ Cardinality(1 .. n) = n
<1>1. n \in Int /\ 1 \in Int
  OBVIOUS
<1>2. IsFiniteSet(1 .. n) /\ Cardinality(1 .. n) = IF 1 > n THEN 0 ELSE n - 1 + 1
  BY <1>1, FS_Interval, Zenon
<1>3. QED
  BY <1>2

(* An order a map may be ranged over in has every key once. *)
IsOrder(order, M) ==
  /\ order \in Seq(M)
  /\ \A i, j \in 1 .. Len(order) : i # j => order[i] # order[j]
  /\ \A m \in M : \E i \in 1 .. Len(order) : order[i] = m

LEMMA OrderIsWhole ==
  ASSUME NEW M, IsFiniteSet(M), NEW order \in Bijection(1 .. Cardinality(M), M)
  PROVE  IsOrder(order, M)
<1> DEFINE c == Cardinality(M)
<1>1. c \in Nat
  BY FS_CardinalityType, Zenon
<1>2. order \in [1 .. c -> M] /\ \A i, j \in 1 .. c : i # j => order[i] # order[j]
  BY Zenon DEF Bijection, Injection, IsInjective
<1>3. \A m \in M : \E i \in 1 .. c : order[i] = m
  BY Zenon DEF Bijection, Surjection
<1> HIDE DEF c
<1>4. order \in Seq(M) /\ Len(order) = c
  BY <1>1, <1>2
<1>5. QED
  BY <1>2, <1>3, <1>4, Zenon DEF IsOrder

LEMMA AddsPlace ==
  ASSUME NEW h \in hashStr, NEW M \in SUBSET Node,
         NEW order \in Bijection(1 .. Cardinality(M), M)
  PROVE  Placed(h, Adds(h, order), M)
<1> DEFINE n == Len(order)
<1>1. IsFiniteSet(M)
  BY RingAssumption, FS_Subset, Zenon
<1>2. /\ order \in Seq(M)
      /\ \A i, j \in 1 .. n : i # j => order[i] # order[j]
      /\ \A m \in M : \E i \in 1 .. n : order[i] = m
  <2>1. IsOrder(order, M)
    BY <1>1, OrderIsWhole, Zenon
  <2>2. QED
    BY <2>1, Zenon DEF IsOrder
<1>3. order \in Seq(Node) /\ n \in Nat /\ \A i \in 1 .. n : order[i] \in M
  BY <1>2
<1>4. h \in [Node -> [VirtualNode -> Position]]
  BY Zenon DEF hashStr
<1> HIDE DEF n
<1>5. PICK F \in [0 .. n -> Seq(Point)] :
        /\ F[0] = <<>>
        /\ \A k \in 1 .. n : F[k] = Add(h, F[k - 1], order[k])
        /\ Adds(h, order) = F[n]
  BY <1>3, <1>4, AddsPrefixes, Zenon DEF n
<1> DEFINE first(k) == {order[i] : i \in 1 .. k}
           G == {k \in 0 .. n : Placed(h, F[k], first(k))}
<1>6. 0 \in 0 .. n /\ n \in 0 .. n
  BY <1>3
<1>7. 0 \in G
  <2>1. first(0) = {}
    <3>1. 1 .. 0 = {}
      OBVIOUS
    <3>2. QED
      BY <3>1, Zenon
  <2>2. \A p : ~PointOf(h, {}, p)
    BY Zenon DEF PointOf
  <2>3. <<>> \in Seq(Point) /\ 1 .. Len(<<>>) = {}
    OBVIOUS
  <2>4. Placed(h, <<>>, {})
    BY <2>2, <2>3, Zenon DEF Placed, Contains
  <2>5. QED
    BY <1>5, <1>6, <2>1, <2>4, Zenon
<1>8. ASSUME NEW k \in 0 .. n, k < n, k \in G
      PROVE  k + 1 \in G
  <2>1. k + 1 \in 1 .. n /\ (k + 1) - 1 = k /\ k + 1 \in 0 .. n
    BY <1>3, <1>8
  <2>2. \A i \in 1 .. k : i \in 1 .. n /\ i # k + 1 /\ i \in 1 .. (k + 1)
    BY <1>3, <1>8
  <2>3. \A i \in 1 .. (k + 1) : i \in 1 .. k \/ i = k + 1
    BY <1>3, <1>8
  <2>4. k + 1 \in 1 .. (k + 1)
    BY <1>3, <1>8
  <2>5. first(k) \in SUBSET Node /\ order[k + 1] \in Node \ first(k)
    BY <1>2, <1>3, <2>1, <2>2, Zenon
  <2>6. first(k + 1) = first(k) \cup {order[k + 1]}
    BY <2>2, <2>3, <2>4, Zenon
  <2>7. F[k + 1] = Add(h, F[k], order[k + 1])
    BY <1>5, <2>1
  <2>8. Placed(h, F[k], first(k))
    BY <1>8, Zenon
  <2> HIDE DEF first
  <2>9. Placed(h, Add(h, F[k], order[k + 1]), first(k) \cup {order[k + 1]})
    BY <2>5, <2>8, AddPlaces
  <2>10. QED
    BY <2>1, <2>6, <2>7, <2>9, Zenon
<1>9. n \in G
  <2> HIDE DEF G
  <2>1. 0 .. n \subseteq G
    BY <1>3, <1>7, <1>8, UpTo, Zenon
  <2>2. QED
    BY <1>6, <2>1, Zenon
<1>10. first(n) = M
  BY <1>2, <1>3, Zenon
<1>11. QED
  BY <1>5, <1>9, <1>10, Zenon

-----------------------------------------------------------------------------
(* Ranks: how many elements of a finite set come before one. *)

Below(S, f, x) == {y \in S : f[y] < f[x]}

LEMMA BelowGrows ==
  ASSUME NEW S, IsFiniteSet(S), NEW f \in [S -> Int], NEW x \in S, NEW y \in S, f[x] < f[y]
  PROVE  /\ Cardinality(Below(S, f, x)) < Cardinality(Below(S, f, y))
         /\ Cardinality(Below(S, f, x)) \in Nat
         /\ Cardinality(Below(S, f, y)) \in Nat
<1> DEFINE X == Below(S, f, x)
           Y == Below(S, f, y)
<1>1. \A z \in S : f[z] \in Int
  BY Zenon
<1>2. \A z \in S : f[z] < f[x] => f[z] < f[y]
  BY <1>1
<1>3. ~(f[x] < f[x])
  BY <1>1
<1>4. X \in SUBSET Y /\ x \in Y /\ x \notin X /\ Y \in SUBSET S
  BY <1>2, <1>3, Zenon DEF Below
<1>5. IsFiniteSet(Y)
  BY <1>4, FS_Subset, Zenon
<1>6. Cardinality(X) <= Cardinality(Y) /\ IsFiniteSet(X) /\ Cardinality(X) # Cardinality(Y)
  BY <1>4, <1>5, FS_Subset, Zenon
<1>7. Cardinality(X) \in Nat /\ Cardinality(Y) \in Nat
  BY <1>5, <1>6, FS_CardinalityType, Zenon
<1>8. QED
  BY <1>6, <1>7

(* With distinct values there is one element of each rank, ... *)
LEMMA RankTaken ==
  ASSUME NEW S, IsFiniteSet(S), NEW f \in [S -> Int],
         \A x, y \in S : f[x] = f[y] => x = y
  PROVE  \A k \in 1 .. Cardinality(S) : \E x \in S : Cardinality(Below(S, f, x)) = k - 1
<1> DEFINE c == Cardinality(S)
           rank == [x \in S |-> Cardinality(Below(S, f, x)) + 1]
<1>1. c \in Nat
  BY FS_CardinalityType, Zenon
<1>2. \A x \in S : f[x] \in Int
  BY Zenon
<1>3. ASSUME NEW x \in S
      PROVE  rank[x] \in 1 .. c
  <2>1. Below(S, f, x) \in SUBSET (S \ {x})
    BY <1>2 DEF Below
  <2>2. IsFiniteSet(S \ {x}) /\ Cardinality(S \ {x}) = c - 1
    BY FS_RemoveElement
  <2>3. /\ Cardinality(Below(S, f, x)) <= Cardinality(S \ {x})
        /\ IsFiniteSet(Below(S, f, x))
    BY <2>1, <2>2, FS_Subset, Zenon
  <2>4. Cardinality(Below(S, f, x)) \in Nat
    BY <2>3, FS_CardinalityType, Zenon
  <2>5. QED
    BY <1>1, <2>2, <2>3, <2>4
<1>4. ASSUME NEW x \in S, NEW y \in S, x # y
      PROVE  rank[x] # rank[y]
  <2>1. f[x] < f[y] \/ f[y] < f[x]
    BY <1>2, <1>4
  <2>2. CASE f[x] < f[y]
    BY <2>2, BelowGrows
  <2>3. CASE f[y] < f[x]
    BY <2>3, BelowGrows
  <2>4. QED
    BY <2>1, <2>2, <2>3, Zenon
<1>5. rank \in Injection(S, 1 .. c)
  <2>1. rank \in [S -> 1 .. c]
    BY <1>3, Zenon
  <2>2. DOMAIN rank = S
    BY Zenon
  <2> HIDE DEF rank
  <2>3. QED
    BY <1>4, <2>1, <2>2, Zenon DEF Injection, IsInjective
<1>6. IsFiniteSet(1 .. c) /\ Cardinality(1 .. c) = c
  BY <1>1, IndexCount, Zenon
<1>7. rank \in Surjection(S, 1 .. c)
  <2> HIDE DEF rank
  <2>1. QED
    BY <1>5, <1>6, FS_Injection, Zenon
<1>8. ASSUME NEW k \in 1 .. c
      PROVE  \E x \in S : Cardinality(Below(S, f, x)) = k - 1
  <2>1. PICK x \in S : rank[x] = k
    <3> HIDE DEF rank
    <3>1. QED
      BY <1>7, Zenon DEF Surjection
  <2>2. Cardinality(Below(S, f, x)) \in Nat
    BY FS_Subset, FS_CardinalityType, Zenon DEF Below
  <2>3. QED
    BY <1>1, <2>1, <2>2
<1>9. QED
  BY <1>8, Zenon

(* ... and the ranks order the elements as their values do. *)
LEMMA RankOrders ==
  ASSUME NEW S, IsFiniteSet(S), NEW f \in [S -> Int],
         NEW x \in S, NEW y \in S,
         Cardinality(Below(S, f, x)) < Cardinality(Below(S, f, y))
  PROVE  f[x] < f[y]
<1>1. f[x] \in Int /\ f[y] \in Int
  BY Zenon
<1>2. Cardinality(Below(S, f, x)) \in Nat /\ Cardinality(Below(S, f, y)) \in Nat
  BY FS_Subset, FS_CardinalityType, Zenon DEF Below
<1>3. CASE f[x] = f[y]
  <2>1. Below(S, f, x) = Below(S, f, y)
    BY <1>3, Zenon DEF Below
  <2>2. QED
    BY <1>2, <2>1
<1>4. CASE f[y] < f[x]
  BY <1>2, <1>4, BelowGrows
<1>5. QED
  BY <1>1, <1>3, <1>4

-----------------------------------------------------------------------------
(* Sort *)

HashBefore(points, i) == {j \in DOMAIN points : points[j].hash < points[i].hash}

IndexOfRank(points, k) ==
  CHOOSE i \in DOMAIN points : Cardinality(HashBefore(points, i)) = k - 1

LEMMA SortByRank ==
  ASSUME NEW points
  PROVE  RingSort(points) = [k \in DOMAIN points |-> points[IndexOfRank(points, k)]]
BY Zenon DEF RingSort, IndexOfRank, HashBefore

Ascending(points) ==
  \A i, j \in 1 .. Len(points) : i < j => points[i].hash < points[j].hash

(* The ring of the nodes M: their points, each once, by ascending hash. *)
IsRing(h, points, M) == Placed(h, points, M) /\ Ascending(points)

LEMMA SortMakesRing ==
  ASSUME NEW h, NEW M, NEW points, Placed(h, points, M)
  PROVE  IsRing(h, RingSort(points), M)
<1> DEFINE n == Len(points)
           D == 1 .. n
           f == [i \in D |-> points[i].hash]
           s == RingSort(points)
           at(k) == IndexOfRank(points, k)
<1>1. points \in Seq(Point) /\ n \in Nat /\ DOMAIN points = D
  BY DEF Placed
<1>2. \A i \in D : points[i] \in Point
  BY <1>1
<1>3. \A i \in D : points[i].hash \in Int
  BY <1>2, RingAssumption DEF Point, Position
<1>4. IsFiniteSet(D) /\ Cardinality(D) = n
  BY <1>1, IndexCount, Zenon
<1> HIDE DEF D
<1>5. f \in [D -> Int] /\ \A i \in D : f[i] = points[i].hash
  BY <1>3, Zenon
<1>6. \A i, j \in D : f[i] = f[j] => i = j
  BY <1>5, Zenon DEF Placed, D
<1> HIDE DEF f
<1>7. \A i \in D : HashBefore(points, i) = Below(D, f, i)
  BY <1>1, <1>5, Zenon DEF HashBefore, Below
<1>8. ASSUME NEW k \in D
      PROVE  /\ at(k) \in D
             /\ Cardinality(Below(D, f, at(k))) = k - 1
             /\ s[k] = points[at(k)]
  <2>1. \E i \in D : Cardinality(Below(D, f, i)) = k - 1
    BY <1>4, <1>5, <1>6, RankTaken, Zenon DEF D
  <2>2. \E i \in DOMAIN points : Cardinality(HashBefore(points, i)) = k - 1
    BY <1>1, <1>7, <2>1, Zenon
  <2>3. at(k) \in DOMAIN points /\ Cardinality(HashBefore(points, at(k))) = k - 1
    BY <2>2, Zenon DEF IndexOfRank
  <2>4. s[k] = points[at(k)]
    BY <1>1, SortByRank, Zenon
  <2>5. QED
    BY <1>1, <1>7, <2>3, <2>4, Zenon
<1>9. ASSUME NEW i \in D
      PROVE  \E k \in D : at(k) = i
  <2> DEFINE r == Cardinality(Below(D, f, i))
             k == r + 1
  <2>1. r \in Nat
    BY <1>4, FS_Subset, FS_CardinalityType, Zenon DEF Below
  <2>2. Below(D, f, i) \in SUBSET (D \ {i})
    BY <1>5 DEF Below
  <2>3. IsFiniteSet(D \ {i}) /\ Cardinality(D \ {i}) = n - 1
    BY <1>4, FS_RemoveElement
  <2>4. r <= n - 1
    <3>1. Cardinality(Below(D, f, i)) <= Cardinality(D \ {i})
      BY <2>2, <2>3, FS_Subset, Zenon
    <3>2. QED
      BY <2>3, <3>1, Zenon
  <2>5. k \in D /\ k - 1 = r
    BY <1>1, <2>1, <2>4 DEF D
  <2> HIDE DEF k
  <2>6. at(k) \in D /\ Cardinality(Below(D, f, at(k))) = r
    BY <1>8, <2>5, Zenon
  <2>7. ~(f[i] < f[at(k)]) /\ ~(f[at(k)] < f[i])
    <3>1. Cardinality(Below(D, f, at(k))) = Cardinality(Below(D, f, i))
      BY <2>6, Zenon
    <3> HIDE DEF r, at
    <3>2. QED
      BY <1>4, <1>5, <2>6, <3>1, BelowGrows
  <2>8. f[i] \in Int /\ f[at(k)] \in Int
    BY <1>5, <2>6, Zenon
  <2>9. f[i] = f[at(k)]
    BY <2>7, <2>8
  <2>10. QED
    BY <1>6, <2>5, <2>6, <2>9, Zenon
<1>10. s \in [D -> Point] /\ DOMAIN s = D
  <2>1. s = [k \in D |-> points[at(k)]]
    BY <1>1, SortByRank, Zenon
  <2>2. \A k \in D : points[at(k)] \in Point
    BY <1>2, <1>8, Zenon
  <2>3. QED
    BY <2>1, <2>2, Zenon
<1>11. s \in Seq(Point) /\ Len(s) = n
  <2> HIDE DEF s
  <2>1. QED
    BY <1>1, <1>10 DEF D
<1> HIDE DEF s, at
<1>12. ASSUME NEW p
       PROVE  Contains(s, p) <=> Contains(points, p)
  BY <1>8, <1>9, <1>11, Zenon DEF Contains, D
<1>13. ASSUME NEW i \in D, NEW j \in D, i < j
       PROVE  s[i].hash < s[j].hash
  <2>1. i - 1 < j - 1
    BY <1>1, <1>13 DEF D
  <2>2. Cardinality(Below(D, f, at(i))) < Cardinality(Below(D, f, at(j)))
    BY <1>8, <2>1, Zenon
  <2>3. f[at(i)] < f[at(j)]
    BY <1>4, <1>5, <1>8, <2>2, RankOrders
  <2>4. QED
    BY <1>5, <1>8, <2>3, Zenon
<1>14. Ascending(s)
  BY <1>11, <1>13, Zenon DEF Ascending, D
<1>15. ASSUME NEW i \in D, NEW j \in D, s[i].hash = s[j].hash
       PROVE  i = j
  <2>1. s[i].hash \in Int /\ s[j].hash \in Int
    BY <1>3, <1>8, Zenon
  <2>2. ~(i < j) /\ ~(j < i)
    BY <1>13, <1>15, <2>1
  <2>3. QED
    BY <1>1, <2>2 DEF D
<1>16. Placed(h, s, M)
  BY <1>11, <1>12, <1>15, Zenon DEF Placed, D
<1>17. QED
  BY <1>14, <1>16, Zenon DEF IsRing, s

-----------------------------------------------------------------------------
(* findIndex and the walk around the ring *)

LEMMA FindIndex ==
  ASSUME NEW points \in Seq(Point), Len(points) > 0, NEW key \in Position
  PROVE  /\ findIndex(points, key) \in 1 .. Len(points)
         /\ \/ /\ findIndex(points, key) = 1
               /\ \A i \in 1 .. Len(points) : points[i].hash < key
            \/ /\ points[findIndex(points, key)].hash >= key
               /\ \A i \in 1 .. Len(points) :
                    points[i].hash >= key => findIndex(points, key) <= i
<1> DEFINE at == {i \in 1 .. Len(points) : points[i].hash >= key}
<1>1. findIndex(points, key) = IF at = {} THEN 1 ELSE Min(at)
  BY Zenon DEF findIndex
<1>2. at \in SUBSET Nat /\ 1 \in 1 .. Len(points)
  OBVIOUS
<1>3. \A i \in 1 .. Len(points) : points[i].hash >= key \/ points[i].hash < key
  <2>1. \A i \in 1 .. Len(points) : points[i] \in Point
    OBVIOUS
  <2>2. \A i \in 1 .. Len(points) : points[i].hash \in Int
    BY <2>1, RingAssumption DEF Point, Position
  <2>3. QED
    BY <2>2, RingAssumption DEF Position
<1>4. CASE at = {}
  BY <1>1, <1>2, <1>3, <1>4, Zenon
<1>5. CASE at # {}
  <2>1. Min(at) \in at /\ \A i \in at : Min(at) <= i
    BY <1>2, <1>5, MinIn, Zenon
  <2>2. QED
    BY <1>1, <1>5, <2>1, Zenon
<1>6. QED
  BY <1>4, <1>5, Zenon

LEMMA Wraps ==
  ASSUME NEW c \in Nat \ {0}, NEW a \in Nat, a < 2 * c
  PROVE  a % c = IF a < c THEN a ELSE a - c
OBVIOUS

(* The i-th point met, and how far from the key it is. *)
At(points, key, i) == ((findIndex(points, key) + i - 2) % Len(points)) + 1

Met(points, key, i) == points[At(points, key, i)]

Away(points, key, i) == Clockwise(key, Met(points, key, i).hash)

LEMMA AtIs ==
  ASSUME NEW points \in Seq(Point), Len(points) > 0, NEW key \in Position,
         NEW i \in 1 .. Len(points)
  PROVE  /\ At(points, key, i) \in 1 .. Len(points)
         /\ At(points, key, i) = LET j == findIndex(points, key) + i - 1
                                 IN  IF j <= Len(points) THEN j ELSE j - Len(points)
<1> DEFINE c == Len(points)
           idx == findIndex(points, key)
           a == idx + i - 2
<1>1. c \in Nat \ {0} /\ i \in 1 .. c
  OBVIOUS
<1>2. idx \in 1 .. c
  BY FindIndex, Zenon
<1>3. At(points, key, i) = (a % c) + 1
  BY Zenon DEF At
<1> HIDE DEF c, idx
<1>4. a \in Nat /\ a < 2 * c
  BY <1>1, <1>2
<1>5. a % c = IF a < c THEN a ELSE a - c
  BY <1>1, <1>4, Wraps, Zenon
<1>6. /\ At(points, key, i) \in 1 .. c
      /\ At(points, key, i) = LET j == idx + i - 1 IN IF j <= c THEN j ELSE j - c
  BY <1>1, <1>2, <1>3, <1>5
<1>7. QED
  BY <1>6, Zenon DEF c, idx

(* Every point is met once, ... *)
LEMMA AllMet ==
  ASSUME NEW points \in Seq(Point), Len(points) > 0, NEW key \in Position,
         NEW l \in 1 .. Len(points)
  PROVE  \E i \in 1 .. Len(points) : At(points, key, i) = l
<1> DEFINE c == Len(points)
           idx == findIndex(points, key)
           i == IF idx <= l THEN l - idx + 1 ELSE l - idx + 1 + c
<1>1. c \in Nat \ {0} /\ l \in 1 .. c
  OBVIOUS
<1>2. idx \in 1 .. c
  BY FindIndex, Zenon
<1> HIDE DEF c, idx
<1>3. i \in 1 .. c /\ l = LET j == idx + i - 1 IN IF j <= c THEN j ELSE j - c
  BY <1>1, <1>2
<1> HIDE DEF i
<1>4. At(points, key, i) = LET j == idx + i - 1 IN IF j <= c THEN j ELSE j - c
  BY <1>3, AtIs, Zenon DEF c, idx
<1>5. QED
  BY <1>3, <1>4, Zenon DEF c

(* ... the nearer ones first. *)
LEMMA ClockwiseOrders ==
  ASSUME NEW key \in Position, NEW x \in Position, NEW y \in Position,
         \/ x < y /\ ~(y >= key)
         \/ x < y /\ x >= key
         \/ x >= key /\ ~(y >= key)
  PROVE  Clockwise(key, x) < Clockwise(key, y)
BY RingAssumption DEF Clockwise, Position

LEMMA WalkAscends ==
  ASSUME NEW points \in Seq(Point), Ascending(points), Len(points) > 0,
         NEW key \in Position,
         NEW i \in 1 .. Len(points), NEW j \in 1 .. Len(points), i < j
  PROVE  Away(points, key, i) < Away(points, key, j)
<1> DEFINE c == Len(points)
           idx == findIndex(points, key)
           k == At(points, key, i)
           l == At(points, key, j)
<1>1. c \in Nat \ {0} /\ i \in 1 .. c /\ j \in 1 .. c
  OBVIOUS
<1>2. idx \in 1 .. c
  BY FindIndex, Zenon
<1>3. /\ k \in 1 .. c /\ k = LET x == idx + i - 1 IN IF x <= c THEN x ELSE x - c
      /\ l \in 1 .. c /\ l = LET x == idx + j - 1 IN IF x <= c THEN x ELSE x - c
  BY AtIs, Zenon
<1>4. points[k] \in Point /\ points[l] \in Point
  BY <1>3
<1>5. points[k].hash \in Position /\ points[l].hash \in Position
  BY <1>4 DEF Point
<1>6. /\ k < l => points[k].hash < points[l].hash
      /\ l < k => points[l].hash < points[k].hash
  BY <1>3, Zenon DEF Ascending
<1>7. /\ Away(points, key, i) = Clockwise(key, points[k].hash)
      /\ Away(points, key, j) = Clockwise(key, points[l].hash)
  BY Zenon DEF Away, Met
<1> HIDE DEF c, idx, k, l
<1>8. CASE idx = 1 /\ points[k].hash < key /\ points[l].hash < key
  <2>1. k < l
    BY <1>1, <1>3, <1>8
  <2>2. ~(points[l].hash >= key)
    BY <1>5, <1>8 DEF Position
  <2>3. QED
    BY <1>5, <1>6, <1>7, <2>1, <2>2, ClockwiseOrders, Zenon
<1>9. CASE /\ idx <= k <=> points[k].hash >= key
           /\ idx <= l <=> points[l].hash >= key
  <2>1. idx <= l => idx <= k /\ k < l
    BY <1>1, <1>2, <1>3
  <2>2. ~(idx <= l) => k < l \/ idx <= k
    BY <1>1, <1>2, <1>3
  <2>3. CASE idx <= l
    BY <1>5, <1>6, <1>7, <1>9, <2>1, <2>3, ClockwiseOrders, Zenon
  <2>4. CASE ~(idx <= l) /\ idx <= k
    BY <1>5, <1>7, <1>9, <2>4, ClockwiseOrders, Zenon
  <2>5. CASE ~(idx <= l) /\ ~(idx <= k)
    BY <1>5, <1>6, <1>7, <1>9, <2>2, <2>5, ClockwiseOrders, Zenon
  <2>6. QED
    BY <2>3, <2>4, <2>5, Zenon
<1>10. \/ idx = 1 /\ points[k].hash < key /\ points[l].hash < key
       \/ /\ idx <= k <=> points[k].hash >= key
          /\ idx <= l <=> points[l].hash >= key
  <2>1. CASE idx = 1 /\ \A y \in 1 .. c : points[y].hash < key
    BY <1>3, <2>1, Zenon
  <2>2. CASE /\ points[idx].hash >= key
             /\ \A y \in 1 .. c : points[y].hash >= key => idx <= y
    <3>1. ASSUME NEW x \in 1 .. c, idx <= x, points[x].hash \in Position
          PROVE  points[x].hash >= key
      <4>1. points[idx].hash \in Position
        <5>1. points[idx] \in Point
          BY <1>2 DEF c
        <5>2. QED
          BY <5>1 DEF Point
      <4>2. idx < x => points[idx].hash < points[x].hash
        BY <1>2, Zenon DEF Ascending, c
      <4>3. QED
        <5>1. idx = x => points[idx].hash = points[x].hash
          BY Zenon
        <5>2. idx = x \/ idx < x
          BY <1>1, <1>2, <3>1
        <5>3. QED
          BY <2>2, <3>1, <4>1, <4>2, <5>1, <5>2 DEF Position
    <3>2. QED
      BY <1>3, <1>5, <2>2, <3>1, Zenon
  <2>3. QED
    BY <2>1, <2>2, FindIndex, Zenon DEF c, idx
<1>11. QED
  BY <1>8, <1>9, <1>10, Zenon

-----------------------------------------------------------------------------
(* GetN: the nodes taken on the walk *)

Take(n, nodes, p) == IF Len(nodes) = n \/ p \in Range(nodes) THEN nodes ELSE Append(nodes, p)

Takes(n, walk) == Loop(LAMBDA nodes, p : Take(n, nodes, p), <<>>, walk)

WalkNodes(points, key) == [i \in 1 .. Len(points) |-> Met(points, key, i).node]

LEMMA GetNTakes ==
  ASSUME NEW points, NEW key, NEW n, Len(points) # 0, n # 0
  PROVE  GetN(points, key, n) = Takes(n, WalkNodes(points, key))
BY Zenon DEF GetN, Takes, Take, WalkNodes, Met, At

TakeStep(n, walk, iter, s) ==
  IF s = {} THEN <<>> ELSE Take(n, iter[s \ {Max(s)}], walk[Max(s)])

TakesIter(n, walk, iter) ==
  iter = [s \in SUBSET DOMAIN walk |-> TakeStep(n, walk, iter, s)]

LEMMA TakesIsIter ==
  ASSUME NEW n, NEW walk, \E iter : TakesIter(n, walk, iter)
  PROVE  \E iter : TakesIter(n, walk, iter) /\ Takes(n, walk) = iter[DOMAIN walk]
BY Zenon DEF Takes, Loop, MapThenFoldSet, TakesIter, TakeStep

LEMMA ElementType ==
  ASSUME NEW S, NEW s \in Seq(S)
  PROVE  Len(s) \in Nat /\ \A i \in 1 .. Len(s) : s[i] \in S
OBVIOUS

LEMMA AppendParts ==
  ASSUME NEW S, NEW s \in Seq(S), NEW x \in S
  PROVE  /\ Append(s, x) \in Seq(S)
         /\ Len(s) \in Nat
         /\ Len(Append(s, x)) = Len(s) + 1
         /\ \A i \in 1 .. Len(s) : Append(s, x)[i] = s[i]
         /\ Append(s, x)[Len(s) + 1] = x
OBVIOUS

LEMMA TakeType ==
  ASSUME NEW S, NEW s \in Seq(S), NEW x \in S, NEW n
  PROVE  Take(n, s, x) \in Seq(S)
BY AppendParts, Zenon DEF Take

TakesBySteps(n, walk, S) ==
  \E F \in [0 .. Len(walk) -> Seq(S)] :
    /\ F[0] = <<>>
    /\ \A k \in 1 .. Len(walk) : F[k] = Take(n, F[k - 1], walk[k])
    /\ Takes(n, walk) = F[Len(walk)]

LEMMA TakesPrefixes ==
  ASSUME NEW S, NEW walk \in Seq(S), NEW n
  PROVE  TakesBySteps(n, walk, S)
<1> DEFINE c    == Len(walk)
           A    == Seq(S)
           step == [x \in 1 .. c |-> [acc \in A |-> Take(n, acc, walk[x])]]
<1>1. c \in Nat /\ DOMAIN walk = 1 .. c /\ \A x \in 1 .. c : walk[x] \in S
  OBVIOUS
<1>2. <<>> \in A
  OBVIOUS
<1> HIDE DEF c, A
<1>3. \A x \in 1 .. c, acc \in A : Take(n, acc, walk[x]) \in A
  BY <1>1, TakeType, Zenon DEF A
<1>4. step \in [1 .. c -> [A -> A]]
  BY <1>3, Zenon
<1>5. \A x \in 1 .. c, acc \in A : step[x][acc] = Take(n, acc, walk[x])
  BY Zenon
<1> HIDE DEF step
<1>6. PICK g : SolvesFold(g, c, A, <<>>, step)
  BY <1>1, <1>2, <1>4, FoldExists, Zenon
<1>7. ASSUME NEW s \in SUBSET (1 .. c)
      PROVE  g[s] = TakeStep(n, walk, g, s)
  <2>1. CASE s = {}
    BY <1>6, <2>1, Zenon DEF TakeStep, SolvesFold
  <2>2. CASE s # {}
    <3>1. Max(s) \in 1 .. c
      BY <1>1, <2>2, MaxIn, Zenon
    <3>2. g[s \ {Max(s)}] \in A
      BY <1>6, Zenon DEF SolvesFold
    <3>3. QED
      BY <1>5, <1>6, <2>2, <3>1, <3>2, Zenon DEF TakeStep, SolvesFold
  <2>3. QED
    BY <2>1, <2>2, Zenon
<1>8. TakesIter(n, walk, g)
  BY <1>1, <1>6, <1>7, Zenon DEF TakesIter, SolvesFold
<1>9. PICK iter : TakesIter(n, walk, iter) /\ Takes(n, walk) = iter[1 .. c]
  BY <1>1, <1>8, TakesIsIter, Zenon
<1>10. iter[{}] = <<>>
  BY <1>1, <1>9, PrefixSets, Zenon DEF TakesIter, TakeStep
<1>11. ASSUME NEW s \in SUBSET (1 .. c), s # {}, iter[s \ {Max(s)}] \in A
       PROVE  iter[s] = step[Max(s)][iter[s \ {Max(s)}]]
  <2>1. Max(s) \in 1 .. c
    BY <1>1, <1>11, MaxIn, Zenon
  <2>2. iter[s] = Take(n, iter[s \ {Max(s)}], walk[Max(s)])
    BY <1>1, <1>9, <1>11, Zenon DEF TakesIter, TakeStep
  <2>3. QED
    BY <1>5, <1>11, <2>1, <2>2, Zenon
<1>12. Iterates(iter, c, A, <<>>, step)
  BY <1>10, <1>11, Zenon DEF Iterates
<1>13. PICK F : IsPrefixed(F, c, A, <<>>, step, iter[1 .. c])
  BY <1>1, <1>2, <1>4, <1>12, FoldPrefixes, Zenon
<1>14. \A k \in 1 .. c : k - 1 \in 0 .. c
  BY <1>1
<1>15. F \in [0 .. c -> A] /\ F[0] = <<>> /\ F[c] = iter[1 .. c]
  BY <1>13, Zenon DEF IsPrefixed
<1>16. \A k \in 1 .. c : F[k] = Take(n, F[k - 1], walk[k])
  BY <1>5, <1>13, <1>14, <1>15, Zenon DEF IsPrefixed
<1>17. QED
  BY <1>9, <1>15, <1>16, Zenon DEF TakesBySteps, c, A

(* A walk that meets nodes M at growing distances e, where D[m] is how far *)
(* m is at its nearest.                                                    *)
GoodWalk(walk, e, M, D) ==
  /\ walk \in Seq(M) /\ D \in [M -> Int] /\ e \in [1 .. Len(walk) -> Int]
  /\ \A i, j \in 1 .. Len(walk) : i < j => e[i] < e[j]
  /\ \A i \in 1 .. Len(walk) : D[walk[i]] <= e[i]
  /\ \A m \in M : \E i \in 1 .. Len(walk) : walk[i] = m /\ D[m] = e[i]

(* T is ordered by D and leaves out no node of M nearer than one in it. *)
Ordered(T, M, D) ==
  /\ T \in Seq(M)
  /\ \A a, b \in 1 .. Len(T) : a < b => D[T[a]] < D[T[b]]
  /\ \A a \in 1 .. Len(T), m \in M : D[m] < D[T[a]] => Contains(T, m)

(* What was taken of the first k nodes of the walk. *)
Took(n, T, walk, e, M, D, k) ==
  /\ Ordered(T, M, D)
  /\ Len(T) <= n
  /\ \A a \in 1 .. Len(T) : \E j \in 1 .. k : D[T[a]] = e[j]
  /\ Len(T) < n => \A j \in 1 .. k : Contains(T, walk[j])

LEMMA AppendContains ==
  ASSUME NEW S, NEW s \in Seq(S), NEW x \in S
  PROVE  \A y : Contains(Append(s, x), y) <=> Contains(s, y) \/ y = x
<1> DEFINE t == Append(s, x)
<1>1. /\ Len(s) \in Nat
      /\ Len(t) = Len(s) + 1
      /\ \A i \in 1 .. Len(s) : t[i] = s[i]
      /\ t[Len(s) + 1] = x
  BY AppendParts
<1> HIDE DEF t
<1>2. /\ \A i \in 1 .. Len(t) : i \in 1 .. Len(s) \/ i = Len(s) + 1
      /\ \A i \in 1 .. Len(s) : i \in 1 .. Len(t)
      /\ Len(s) + 1 \in 1 .. Len(t)
  BY <1>1
<1>3. \A y : Contains(t, y) <=> Contains(s, y) \/ y = x
  BY <1>1, <1>2, Zenon DEF Contains
<1>4. QED
  BY <1>3, Zenon DEF t

LEMMA TakeKeeps ==
  ASSUME NEW n \in Nat, NEW walk, NEW e, NEW M, NEW D, GoodWalk(walk, e, M, D),
         NEW k \in 0 .. Len(walk), k < Len(walk), NEW T, Took(n, T, walk, e, M, D, k)
  PROVE  Took(n, Take(n, T, walk[k + 1]), walk, e, M, D, k + 1)
<1> DEFINE c == Len(walk)
           p == walk[k + 1]
           L == Len(T)
<1>1. /\ walk \in Seq(M) /\ D \in [M -> Int] /\ e \in [1 .. c -> Int]
      /\ \A i, j \in 1 .. c : i < j => e[i] < e[j]
      /\ \A i \in 1 .. c : D[walk[i]] <= e[i]
      /\ \A m \in M : \E i \in 1 .. c : walk[i] = m /\ D[m] = e[i]
  BY Zenon DEF GoodWalk
<1>2. /\ T \in Seq(M)
      /\ \A a, b \in 1 .. L : a < b => D[T[a]] < D[T[b]]
      /\ \A a \in 1 .. L, m \in M : D[m] < D[T[a]] => Contains(T, m)
      /\ L <= n
      /\ \A a \in 1 .. L : \E j \in 1 .. k : D[T[a]] = e[j]
      /\ L < n => \A j \in 1 .. k : Contains(T, walk[j])
  BY Zenon DEF Took, Ordered
<1>3. c \in Nat /\ k \in Nat /\ L \in Nat /\ k + 1 \in 1 .. c
  <2>1. c \in Nat /\ L \in Nat
    BY <1>1, <1>2, ElementType, Zenon
  <2>2. QED
    BY <2>1
<1>4. p \in M /\ \A a \in 1 .. L : T[a] \in M
  BY <1>1, <1>2, <1>3, ElementType, Zenon
<1>5. \A j \in 1 .. k : j \in 1 .. (k + 1) /\ j \in 1 .. c /\ j < k + 1
  BY <1>3
<1>6. \A j \in 1 .. (k + 1) : j \in 1 .. k \/ j = k + 1
  BY <1>3
<1>7. CASE L = n \/ Contains(T, p)
  <2>1. Take(n, T, p) = T
    BY <1>2, <1>7, RangeIs, Zenon DEF Take
  <2>2. ASSUME L < n
        PROVE  \A j \in 1 .. (k + 1) : Contains(T, walk[j])
    <3>1. L # n
      BY <1>3, <2>2
    <3>2. QED
      BY <1>2, <1>6, <1>7, <2>2, <3>1, Zenon
  <2>3. Took(n, T, walk, e, M, D, k + 1)
    BY <1>2, <1>5, <2>2, Zenon DEF Took, Ordered
  <2>4. QED
    BY <2>1, <2>3, Zenon
<1>8. CASE L # n /\ ~Contains(T, p)
  <2> DEFINE U == Append(T, p)
  <2>1. Take(n, T, p) = U
    BY <1>2, <1>8, RangeIs, Zenon DEF Take
  <2>2. /\ U \in Seq(M) /\ Len(U) = L + 1
        /\ \A a \in 1 .. L : U[a] = T[a]
        /\ U[L + 1] = p
    BY <1>2, <1>4, AppendParts
  <2>3. \A y : Contains(U, y) <=> Contains(T, y) \/ y = p
    BY <1>2, <1>4, AppendContains
  <2> HIDE DEF U
  <2>4. L < n
    BY <1>2, <1>3, <1>8
  <2>5. \A j \in 1 .. k : Contains(T, walk[j])
    BY <1>2, <2>4, Zenon
  <2>6. \A i \in 1 .. c : e[i] \in Int
    BY <1>1, Zenon
  <2>7. ASSUME NEW i \in 1 .. c, i \notin 1 .. k
        PROVE  e[k + 1] <= e[i]
    <3>1. i = k + 1 \/ k + 1 < i
      BY <1>3, <2>7
    <3>2. k + 1 < i => e[k + 1] < e[i]
      BY <1>1, <1>3, Zenon
    <3>3. e[i] \in Int /\ e[k + 1] \in Int
      BY <1>3, <2>6, Zenon
    <3>4. QED
      BY <3>1, <3>2, <3>3
  <2>8. D[p] = e[k + 1]
    <3>1. PICK i \in 1 .. c : walk[i] = p /\ D[p] = e[i]
      BY <1>1, <1>4, Zenon
    <3>2. i \notin 1 .. k
      BY <1>8, <2>5, <3>1, Zenon
    <3>3. e[k + 1] <= e[i] /\ D[p] <= e[k + 1] /\ e[i] \in Int /\ e[k + 1] \in Int
      BY <1>1, <1>3, <2>6, <2>7, <3>2, Zenon
    <3>4. QED
      BY <3>1, <3>3
  <2>9. ASSUME NEW a \in 1 .. L
        PROVE  D[T[a]] < D[p]
    <3>1. PICK j \in 1 .. k : D[T[a]] = e[j]
      BY <1>2, Zenon
    <3>2. e[j] < e[k + 1]
      BY <1>1, <1>3, <1>5, Zenon
    <3>3. QED
      BY <2>8, <3>1, <3>2, Zenon
  <2>10. ASSUME NEW m \in M, D[m] < D[p]
         PROVE  Contains(T, m)
    <3>1. PICK i \in 1 .. c : walk[i] = m /\ D[m] = e[i]
      BY <1>1, Zenon
    <3>2. CASE i \in 1 .. k
      BY <2>5, <3>1, <3>2, Zenon
    <3>3. CASE i \notin 1 .. k
      <4>1. e[k + 1] <= e[i] /\ e[i] < e[k + 1] /\ e[i] \in Int /\ e[k + 1] \in Int
        BY <1>3, <2>6, <2>7, <2>8, <2>10, <3>1, <3>3, Zenon
      <4>2. QED
        BY <4>1
    <3>4. QED
      BY <3>2, <3>3, Zenon
  <2>11. /\ \A a \in 1 .. (L + 1) : a \in 1 .. L \/ a = L + 1
         /\ \A a \in 1 .. (L + 1) : ~(L + 1 < a)
    BY <1>3
  <2>12. ASSUME NEW a \in 1 .. (L + 1), NEW b \in 1 .. (L + 1), a < b
         PROVE  D[U[a]] < D[U[b]]
    <3>1. a \in 1 .. L
      BY <2>11, <2>12, Zenon
    <3>2. CASE b \in 1 .. L
      BY <1>2, <2>2, <2>12, <3>1, <3>2, Zenon
    <3>3. CASE b = L + 1
      BY <2>2, <2>9, <3>1, <3>3, Zenon
    <3>4. QED
      BY <2>11, <3>2, <3>3, Zenon
  <2>13. ASSUME NEW a \in 1 .. (L + 1), NEW m \in M, D[m] < D[U[a]]
         PROVE  Contains(U, m)
    <3>1. CASE a \in 1 .. L
      BY <1>2, <2>2, <2>3, <2>13, <3>1, Zenon
    <3>2. CASE a = L + 1
      BY <2>2, <2>3, <2>10, <2>13, <3>2, Zenon
    <3>3. QED
      BY <2>11, <3>1, <3>2, Zenon
  <2>14. Ordered(U, M, D)
    BY <2>2, <2>12, <2>13, Zenon DEF Ordered
  <2>15. ASSUME NEW a \in 1 .. (L + 1)
         PROVE  \E j \in 1 .. (k + 1) : D[U[a]] = e[j]
    <3>1. CASE a \in 1 .. L
      <4>1. PICK j \in 1 .. k : D[T[a]] = e[j]
        BY <1>2, <3>1, Zenon
      <4>2. QED
        BY <1>5, <2>2, <3>1, <4>1, Zenon
    <3>2. CASE a = L + 1
      <4>1. k + 1 \in 1 .. (k + 1)
        BY <1>3
      <4>2. QED
        BY <2>2, <2>8, <3>2, <4>1, Zenon
    <3>3. QED
      BY <2>11, <3>1, <3>2, Zenon
  <2>16. \A j \in 1 .. (k + 1) : Contains(U, walk[j])
    BY <1>6, <2>3, <2>5, Zenon
  <2>17. L + 1 <= n
    BY <1>3, <2>4
  <2>18. Took(n, U, walk, e, M, D, k + 1)
    BY <2>2, <2>14, <2>15, <2>16, <2>17, Zenon DEF Took
  <2>19. QED
    BY <2>1, <2>18, Zenon
<1>9. QED
  BY <1>7, <1>8, Zenon

LEMMA TakesOrder ==
  ASSUME NEW n \in Nat, NEW walk, NEW e, NEW M, NEW D, GoodWalk(walk, e, M, D)
  PROVE  /\ Ordered(Takes(n, walk), M, D)
         /\ Len(Takes(n, walk)) <= n
         /\ Len(Takes(n, walk)) < n => \A m \in M : Contains(Takes(n, walk), m)
<1> DEFINE c == Len(walk)
<1>1. walk \in Seq(M) /\ \A m \in M : \E i \in 1 .. c : walk[i] = m
  BY Zenon DEF GoodWalk
<1>2. c \in Nat
  BY <1>1, ElementType, Zenon
<1> HIDE DEF c
<1>3. PICK F \in [0 .. c -> Seq(M)] :
        /\ F[0] = <<>>
        /\ \A k \in 1 .. c : F[k] = Take(n, F[k - 1], walk[k])
        /\ Takes(n, walk) = F[c]
  <2>1. TakesBySteps(n, walk, M)
    BY <1>1, TakesPrefixes, Zenon
  <2>2. QED
    BY <2>1, Zenon DEF TakesBySteps, c
<1> DEFINE G == {k \in 0 .. c : Took(n, F[k], walk, e, M, D, k)}
<1>4. 0 \in 0 .. c /\ c \in 0 .. c
  BY <1>2
<1>5. 0 \in G
  <2>1. <<>> \in Seq(M) /\ 1 .. Len(<<>>) = {} /\ Len(<<>>) <= n /\ 1 .. 0 = {}
    OBVIOUS
  <2>2. Took(n, <<>>, walk, e, M, D, 0)
    BY <2>1, Zenon DEF Took, Ordered
  <2>3. QED
    BY <1>3, <1>4, <2>2, Zenon
<1>6. ASSUME NEW k \in 0 .. c, k < c, k \in G
      PROVE  k + 1 \in G
  <2>1. k + 1 \in 1 .. c /\ (k + 1) - 1 = k /\ k + 1 \in 0 .. c
    BY <1>2, <1>6
  <2>2. F[k + 1] = Take(n, F[k], walk[k + 1])
    BY <1>3, <2>1
  <2>3. Took(n, F[k], walk, e, M, D, k)
    BY <1>6, Zenon
  <2>4. Took(n, Take(n, F[k], walk[k + 1]), walk, e, M, D, k + 1)
    BY <1>6, <2>3, TakeKeeps DEF c
  <2>5. QED
    BY <2>1, <2>2, <2>4, Zenon
<1>7. c \in G
  <2> HIDE DEF G
  <2>1. 0 .. c \subseteq G
    BY <1>2, <1>5, <1>6, UpTo, Zenon
  <2>2. QED
    BY <1>4, <2>1, Zenon
<1>8. Took(n, Takes(n, walk), walk, e, M, D, c)
  BY <1>3, <1>7, Zenon
<1>9. QED
  BY <1>1, <1>8, Zenon DEF Took

(* How near a node is. *)
LEMMA ClockwiseType ==
  ASSUME NEW key \in Position, NEW hash \in Position
  PROVE  Clockwise(key, hash) \in Nat
BY RingAssumption DEF Clockwise, Position

LEMMA DistanceIs ==
  ASSUME NEW h \in hashStr, NEW m \in Node, NEW key \in Position
  PROVE  /\ Distance(h, m, key) \in Nat
         /\ \E i \in VirtualNode : Distance(h, m, key) = Clockwise(key, h[m][i])
         /\ \A i \in VirtualNode : Distance(h, m, key) <= Clockwise(key, h[m][i])
<1> DEFINE S == {Clockwise(key, h[m][i]) : i \in VirtualNode}
<1>1. \A i \in VirtualNode : h[m][i] \in Position
  <2>1. h \in [Node -> [VirtualNode -> Position]]
    BY Zenon DEF hashStr
  <2>2. QED
    BY <2>1, Zenon
<1>2. S \in SUBSET Nat
  BY <1>1, ClockwiseType, Zenon
<1>3. 1 \in VirtualNode
  BY RingAssumption DEF VirtualNode
<1>4. S # {}
  BY <1>3, Zenon
<1>5. Min(S) \in S /\ \A y \in S : Min(S) <= y
  BY <1>2, <1>4, MinIn, Zenon
<1>6. Distance(h, m, key) = Min(S)
  BY Zenon DEF Distance
<1>7. QED
  BY <1>2, <1>5, <1>6, Zenon

OnRing(h, point) == \E i \in VirtualNode : point.hash = h[point.node][i]

HasPoint(points, m, hash) ==
  \E x \in 1 .. Len(points) : points[x].node = m /\ points[x].hash = hash

LEMMA RingPoints ==
  ASSUME NEW h \in hashStr, NEW M \in SUBSET Node, NEW points, IsRing(h, points, M),
         NEW x \in 1 .. Len(points)
  PROVE  points[x].node \in M /\ OnRing(h, points[x])
<1>1. Contains(points, points[x])
  BY Zenon DEF Contains
<1>2. PointOf(h, M, points[x])
  BY <1>1, Zenon DEF IsRing, Placed
<1>3. PICK m \in M, i \in VirtualNode : points[x] = PointAt(h, m, i)
  BY <1>2, Zenon DEF PointOf
<1>4. points[x].node = m /\ points[x].hash = h[m][i]
  BY <1>3 DEF PointAt
<1>5. QED
  BY <1>4, Zenon DEF OnRing

LEMMA PointsInRing ==
  ASSUME NEW h \in hashStr, NEW M \in SUBSET Node, NEW points, IsRing(h, points, M),
         NEW m \in M, NEW i \in VirtualNode
  PROVE  HasPoint(points, m, h[m][i])
<1>1. PointOf(h, M, PointAt(h, m, i))
  BY Zenon DEF PointOf
<1>2. Contains(points, PointAt(h, m, i))
  BY <1>1, Zenon DEF IsRing, Placed
<1>3. PICK x \in 1 .. Len(points) : points[x] = PointAt(h, m, i)
  BY <1>2, Zenon DEF Contains
<1>4. points[x].node = m /\ points[x].hash = h[m][i]
  BY <1>3 DEF PointAt
<1>5. QED
  BY <1>4, Zenon DEF HasPoint

LEMMA MembersOfRing ==
  ASSUME NEW h \in hashStr, NEW M \in SUBSET Node, NEW points, IsRing(h, points, M)
  PROVE  Members(points) = M
<1>1. points \in Seq(Point)
  BY Zenon DEF IsRing, Placed
<1>2. DOMAIN points = 1 .. Len(points)
  BY <1>1
<1>3. 1 \in VirtualNode
  BY RingAssumption DEF VirtualNode
<1>4. \A x \in 1 .. Len(points) : points[x].node \in M
  BY RingPoints, Zenon
<1>5. ASSUME NEW m \in M
      PROVE  \E x \in 1 .. Len(points) : points[x].node = m
  <2>1. HasPoint(points, m, h[m][1])
    BY <1>3, PointsInRing, Zenon
  <2>2. QED
    BY <2>1, Zenon DEF HasPoint
<1>6. QED
  BY <1>2, <1>4, <1>5, Zenon DEF Members


(* How far round the ring each node of the walk is met, and how far each member is. *)
Reach(points, key) == [i \in 1 .. Len(points) |-> Away(points, key, i)]

Distances(h, M, key) == [m \in M |-> Distance(h, m, key)]

LEMMA WalkIs ==
  ASSUME NEW points \in Seq(Point), NEW key
  PROVE  /\ Len(WalkNodes(points, key)) = Len(points)
         /\ \A i \in 1 .. Len(points) : WalkNodes(points, key)[i] = Met(points, key, i).node
BY DEF WalkNodes

LEMMA WalkOver ==
  ASSUME NEW points \in Seq(Point), NEW key, NEW M,
         \A i \in 1 .. Len(points) : Met(points, key, i).node \in M
  PROVE  WalkNodes(points, key) \in Seq(M)
BY DEF WalkNodes

(* Walking a ring clockwise from a key meets every member, first where its     *)
(* nearest point is.                                                          *)
LEMMA RingWalk ==
  ASSUME NEW h \in hashStr, NEW M \in SUBSET Node, NEW points, IsRing(h, points, M),
         Len(points) > 0, NEW key \in Position
  PROVE  GoodWalk(WalkNodes(points, key), Reach(points, key), M, Distances(h, M, key))
<1> DEFINE c    == Len(points)
           walk == WalkNodes(points, key)
           e    == Reach(points, key)
           D    == Distances(h, M, key)
<1>1. points \in Seq(Point) /\ Ascending(points)
  BY Zenon DEF IsRing, Placed
<1>2. \A x \in 1 .. c : points[x].hash \in Position
  <2>1. \A x \in 1 .. c : points[x] \in Point
    BY <1>1, ElementType, Zenon
  <2>2. QED
    BY <2>1 DEF Point
<1>3. \A i \in 1 .. c : At(points, key, i) \in 1 .. c
  BY <1>1, AtIs, Zenon
<1>4. \A i \in 1 .. c : Met(points, key, i).node \in M
  BY <1>3, RingPoints, Zenon DEF Met
<1>5. walk \in Seq(M) /\ Len(walk) = c
      /\ \A i \in 1 .. c : walk[i] = Met(points, key, i).node
  BY <1>1, <1>4, WalkIs, WalkOver, Zenon
<1>6. \A i \in 1 .. c : e[i] = Clockwise(key, Met(points, key, i).hash)
  BY Zenon DEF Reach, Away
<1>7. \A i \in 1 .. c : e[i] \in Int
  <2>1. \A i \in 1 .. c : e[i] \in Nat
    BY <1>2, <1>3, <1>6, ClockwiseType, Zenon DEF Met
  <2>2. QED
    BY <2>1
<1>8. e \in [1 .. c -> Int]
  BY <1>7, Zenon DEF Reach
<1>9. \A m \in M : D[m] = Distance(h, m, key)
  BY Zenon DEF Distances
<1>10. \A m \in M : Distance(h, m, key) \in Nat
  BY DistanceIs, Zenon
<1>11. D \in [M -> Int]
  <2>1. \A m \in M : Distance(h, m, key) \in Int
    BY <1>10
  <2>2. QED
    BY <2>1, Zenon DEF Distances
<1>12. \A i, j \in 1 .. c : i < j => e[i] < e[j]
  BY <1>1, WalkAscends, Zenon DEF Reach
<1>13. ASSUME NEW i \in 1 .. c
       PROVE  D[walk[i]] <= e[i]
  <2> DEFINE x == At(points, key, i)
  <2>1. x \in 1 .. c
    BY <1>3, Zenon
  <2>2. PICK v \in VirtualNode : points[x].hash = h[points[x].node][v]
    <3>1. OnRing(h, points[x])
      BY <2>1, RingPoints, Zenon
    <3>2. QED
      BY <3>1, Zenon DEF OnRing
  <2>3. walk[i] = points[x].node /\ points[x].node \in M /\ points[x].node \in Node
    BY <1>4, <1>5, Zenon DEF Met
  <2>4. Distance(h, points[x].node, key) <= Clockwise(key, h[points[x].node][v])
    BY <2>3, DistanceIs, Zenon
  <2>5. e[i] = Clockwise(key, points[x].hash)
    BY <1>6, Zenon DEF Met
  <2>6. QED
    BY <1>9, <2>2, <2>3, <2>4, <2>5, Zenon
<1>14. ASSUME NEW m \in M
       PROVE  \E i \in 1 .. c : walk[i] = m /\ D[m] = e[i]
  <2>1. PICK v \in VirtualNode : Distance(h, m, key) = Clockwise(key, h[m][v])
    BY DistanceIs, Zenon
  <2>2. PICK x \in 1 .. c : points[x].node = m /\ points[x].hash = h[m][v]
    <3>1. HasPoint(points, m, h[m][v])
      BY PointsInRing, Zenon
    <3>2. QED
      BY <3>1, Zenon DEF HasPoint
  <2>3. PICK i \in 1 .. c : At(points, key, i) = x
    BY <1>1, AllMet, Zenon
  <2>4. walk[i] = m
    BY <1>5, <2>2, <2>3, Zenon DEF Met
  <2>5. D[m] = e[i]
    BY <1>6, <1>9, <2>1, <2>2, <2>3, Zenon DEF Met
  <2>6. QED
    BY <2>4, <2>5, Zenon
<1>15. QED
  <2> HIDE DEF walk, e, D
  <2>1. GoodWalk(walk, e, M, D)
    BY <1>5, <1>8, <1>11, <1>12, <1>13, <1>14, Zenon DEF GoodWalk
  <2>2. QED
    BY <2>1, Zenon DEF walk, e, D

(* No two members are equally far. *)
Apart(M, D) == \A m, o \in M : D[m] = D[o] => m = o

LEMMA WalkTellsApart ==
  ASSUME NEW walk, NEW e, NEW M, NEW D, GoodWalk(walk, e, M, D)
  PROVE  Apart(M, D)
<1>1. SUFFICES ASSUME NEW m \in M, NEW o \in M, D[m] = D[o]
               PROVE  m = o
  BY Zenon DEF Apart
<1>2. PICK i \in 1 .. Len(walk) : walk[i] = m /\ D[m] = e[i]
  BY Zenon DEF GoodWalk
<1>3. PICK j \in 1 .. Len(walk) : walk[j] = o /\ D[o] = e[j]
  BY Zenon DEF GoodWalk
<1>4. e[i] \in Int /\ e[j] \in Int /\ Len(walk) \in Nat
  BY ElementType, Zenon DEF GoodWalk
<1>5. (i < j => e[i] < e[j]) /\ (j < i => e[j] < e[i])
  BY Zenon DEF GoodWalk
<1>6. e[i] = e[j]
  BY <1>1, <1>2, <1>3, Zenon
<1>7. ~(e[i] < e[j]) /\ ~(e[j] < e[i])
  BY <1>4, <1>6
<1>8. ~(i < j) /\ ~(j < i)
  BY <1>5, <1>7, Zenon
<1>9. i = j
  BY <1>4, <1>8
<1>10. QED
  BY <1>2, <1>3, <1>9, Zenon

-----------------------------------------------------------------------------
(* The replica set of a key is its nearest members.                           *)

(* The first k elements of T are k members of S, or all of them. *)
Lists(T, k, S) ==
  /\ \A b \in 1 .. k : T[b] \in S
  /\ \A b, d \in 1 .. k : b # d => T[b] # T[d]

Exhausts(T, k, S) == \A s \in S : \E b \in 1 .. k : T[b] = s

LEMMA DistinctCount ==
  ASSUME NEW S, IsFiniteSet(S), NEW k \in Nat, NEW T, Lists(T, k, S)
  PROVE  /\ Cardinality(S) \in Nat
         /\ k <= Cardinality(S)
         /\ Exhausts(T, k, S) <=> k = Cardinality(S)
<1> DEFINE f == [b \in 1 .. k |-> T[b]]
<1>1. Cardinality(S) \in Nat
  BY FS_CardinalityType, Zenon
<1>2. IsFiniteSet(1 .. k) /\ Cardinality(1 .. k) = k
  BY IndexCount, Zenon
<1>3. f \in [1 .. k -> S]
  BY Zenon DEF Lists
<1>4. \A b, d \in 1 .. k : f[b] = f[d] => b = d
  BY Zenon DEF Lists
<1>5. Exhausts(T, k, S) <=> \A s \in S : \E b \in 1 .. k : f[b] = s
  BY Zenon DEF Exhausts
<1> HIDE DEF f
<1>6. f \in Injection(1 .. k, S)
  BY <1>3, <1>4, Zenon DEF Injection, IsInjective
<1>7. k <= Cardinality(S) /\ (k = Cardinality(S) <=> f \in Surjection(1 .. k, S))
  <2>1. Cardinality(1 .. k) <= Cardinality(S)
    BY <1>6, FS_Injection, Zenon
  <2>2. Cardinality(1 .. k) = Cardinality(S) <=> f \in Surjection(1 .. k, S)
    BY <1>6, FS_Injection, Zenon
  <2>3. QED
    BY <1>2, <2>1, <2>2, Zenon
<1>8. QED
  BY <1>1, <1>3, <1>5, <1>7, Zenon DEF Surjection

LEMMA OrderedDistinct ==
  ASSUME NEW M, NEW D \in [M -> Int], NEW T, Ordered(T, M, D)
  PROVE  /\ Len(T) \in Nat
         /\ \A b \in 1 .. Len(T) : T[b] \in M /\ D[T[b]] \in Int
         /\ \A b, d \in 1 .. Len(T) : b # d => T[b] # T[d]
         /\ \A b, d \in 1 .. Len(T) : D[T[b]] < D[T[d]] => b < d
<1>1. T \in Seq(M) /\ \A b, d \in 1 .. Len(T) : b < d => D[T[b]] < D[T[d]]
  BY Zenon DEF Ordered
<1>2. Len(T) \in Nat /\ \A b \in 1 .. Len(T) : T[b] \in M
  BY <1>1, ElementType, Zenon
<1>3. \A b \in 1 .. Len(T) : D[T[b]] \in Int
  BY <1>2, Zenon
<1>4. ASSUME NEW b \in 1 .. Len(T), NEW d \in 1 .. Len(T)
      PROVE  (b # d => T[b] # T[d]) /\ (D[T[b]] < D[T[d]] => b < d)
  <2> DEFINE x == D[T[b]]
             y == D[T[d]]
  <2>1. x \in Int /\ y \in Int
    BY <1>3, Zenon
  <2>2. (b < d => x < y) /\ (d < b => y < x) /\ (b = d => x = y)
    BY <1>1, Zenon
  <2>3. T[b] = T[d] => x = y
    BY Zenon
  <2> HIDE DEF x, y
  <2>4. b \in Int /\ d \in Int
    BY <1>2
  <2>5. (b # d => x # y) /\ (x < y => b < d)
    BY <2>1, <2>2, <2>4
  <2>6. QED
    BY <2>3, <2>5, Zenon DEF x, y
<1>5. QED
  BY <1>2, <1>3, <1>4, Zenon

LEMMA OrderedRanks ==
  ASSUME NEW M, IsFiniteSet(M), NEW D \in [M -> Int], NEW T, Ordered(T, M, D),
         NEW a \in 1 .. Len(T)
  PROVE  Cardinality(Below(M, D, T[a])) = a - 1
<1> DEFINE B == Below(M, D, T[a])
           k == a - 1
<1>1. /\ Len(T) \in Nat
      /\ \A b \in 1 .. Len(T) : T[b] \in M /\ D[T[b]] \in Int
      /\ \A b, d \in 1 .. Len(T) : b # d => T[b] # T[d]
      /\ \A b, d \in 1 .. Len(T) : D[T[b]] < D[T[d]] => b < d
  BY OrderedDistinct, Zenon
<1>2. /\ \A b, d \in 1 .. Len(T) : b < d => D[T[b]] < D[T[d]]
      /\ \A m \in M : D[m] < D[T[a]] => Contains(T, m)
  BY Zenon DEF Ordered
<1>3. k \in Nat /\ \A b \in 1 .. k : b \in 1 .. Len(T) /\ b < a
  BY <1>1
<1>4. \A b \in 1 .. Len(T) : b < a => b \in 1 .. k
  BY <1>1
<1> HIDE DEF k
<1>5. B \in SUBSET M /\ IsFiniteSet(B)
  BY FS_Subset, Zenon DEF Below
<1>6. \A b \in 1 .. k : T[b] \in B
  BY <1>1, <1>2, <1>3, Zenon DEF Below
<1>7. ASSUME NEW s \in B
      PROVE  \E b \in 1 .. k : T[b] = s
  <2>1. s \in M /\ D[s] < D[T[a]]
    BY Zenon DEF Below
  <2>2. PICK b \in 1 .. Len(T) : T[b] = s
    BY <1>2, <2>1, Zenon DEF Contains
  <2>3. QED
    BY <1>1, <1>4, <2>1, <2>2, Zenon
<1> HIDE DEF B
<1>8. \A b, d \in 1 .. k : b # d => T[b] # T[d]
  BY <1>1, <1>3, Zenon
<1>9. k = Cardinality(B)
  <2>1. Lists(T, k, B) /\ Exhausts(T, k, B)
    BY <1>6, <1>7, <1>8, Zenon DEF Lists, Exhausts
  <2>2. QED
    BY <1>3, <1>5, <2>1, DistinctCount, Zenon
<1>10. QED
  BY <1>9, Zenon DEF k, B

LEMMA OrderedLength ==
  ASSUME NEW M, IsFiniteSet(M), NEW D \in [M -> Int], NEW T, Ordered(T, M, D),
         NEW n \in Nat, Len(T) <= n,
         Len(T) < n => \A m \in M : Contains(T, m)
  PROVE  Len(T) = IF n < Cardinality(M) THEN n ELSE Cardinality(M)
<1>1. Len(T) \in Nat /\ Lists(T, Len(T), M)
  BY OrderedDistinct, Zenon DEF Lists
<1>2. /\ Cardinality(M) \in Nat
      /\ Len(T) <= Cardinality(M)
      /\ Exhausts(T, Len(T), M) => Len(T) = Cardinality(M)
  BY <1>1, DistinctCount, Zenon
<1>3. Len(T) < n => Len(T) = Cardinality(M)
  BY <1>2, Zenon DEF Exhausts, Contains
<1>4. QED
  BY <1>1, <1>2, <1>3


(* The members nearer than m, as Nearest counts them. *)
Nearer(h, M, key, m) == {o \in M : Distance(h, o, key) < Distance(h, m, key)}

LEMMA NearestIs ==
  ASSUME NEW h, NEW M, NEW key, NEW n
  PROVE  Nearest(h, M, key, n)
           = [i \in 1 .. n |-> CHOOSE m \in M : Cardinality(Nearer(h, M, key, m)) = i - 1]
BY Zenon DEF Nearest, Nearer

LEMMA NearerIsBelow ==
  ASSUME NEW h, NEW M, NEW key, NEW m \in M
  PROVE  Nearer(h, M, key, m) = Below(M, Distances(h, M, key), m)
BY Zenon DEF Nearer, Below, Distances

(* Of several nodes only one has a given number of others nearer. *)
LEMMA RankTells ==
  ASSUME NEW M, IsFiniteSet(M), NEW D \in [M -> Int], Apart(M, D),
         NEW m \in M, NEW o \in M,
         Cardinality(Below(M, D, m)) = Cardinality(Below(M, D, o))
  PROVE  m = o
<1>1. D[m] \in Int /\ D[o] \in Int
  BY Zenon
<1>2. Cardinality(Below(M, D, m)) \in Nat
  BY FS_Subset, FS_CardinalityType, Zenon DEF Below
<1>3. ~(D[m] < D[o]) /\ ~(D[o] < D[m])
  <2>1. ~(Cardinality(Below(M, D, m)) < Cardinality(Below(M, D, o)))
        /\ ~(Cardinality(Below(M, D, o)) < Cardinality(Below(M, D, m)))
    BY <1>2
  <2>2. QED
    BY <2>1, BelowGrows, Zenon
<1>4. D[m] = D[o]
  BY <1>1, <1>3
<1>5. QED
  BY <1>4, Zenon DEF Apart

(* GetN returns the first nodes by distance, as many as asked for or all. *)
LEMMA GetNOrders ==
  ASSUME NEW h \in hashStr, NEW M \in SUBSET Node, NEW points, IsRing(h, points, M),
         Len(points) > 0, NEW key \in Position, NEW n \in Nat, n # 0
  PROVE  /\ Ordered(GetN(points, key, n), M, Distances(h, M, key))
         /\ Len(GetN(points, key, n)) <= n
         /\ Len(GetN(points, key, n)) < n => \A m \in M : Contains(GetN(points, key, n), m)
<1>1. Len(points) # 0
  <2>1. points \in Seq(Point)
    BY Zenon DEF IsRing, Placed
  <2>2. QED
    BY <2>1
<1>2. GetN(points, key, n) = Takes(n, WalkNodes(points, key))
  BY <1>1, GetNTakes, Zenon
<1>3. GoodWalk(WalkNodes(points, key), Reach(points, key), M, Distances(h, M, key))
  BY RingWalk, Zenon
<1>4. QED
  BY <1>2, <1>3, TakesOrder, Zenon

LEMMA SequenceIs ==
  ASSUME NEW S, NEW T \in Seq(S)
  PROVE  T = [i \in 1 .. Len(T) |-> T[i]]
OBVIOUS

LEMMA GetNIsNearest ==
  ASSUME NEW h \in hashStr, NEW M \in SUBSET Node, NEW points, IsRing(h, points, M),
         Len(points) > 0, NEW key \in Position, NEW n \in Nat, n # 0
  PROVE  GetN(points, key, n)
           = Nearest(h, M, key, IF n < Cardinality(M) THEN n ELSE Cardinality(M))
<1> DEFINE T == GetN(points, key, n)
           D == Distances(h, M, key)
<1>1. /\ Ordered(T, M, D)
      /\ Len(T) <= n
      /\ Len(T) < n => \A m \in M : Contains(T, m)
  BY GetNOrders, Zenon
<1>2. GoodWalk(WalkNodes(points, key), Reach(points, key), M, D)
  BY RingWalk, Zenon
<1>3. D \in [M -> Int] /\ IsFiniteSet(M)
  BY <1>2, RingAssumption, FS_Subset, Zenon DEF GoodWalk
<1> HIDE DEF T, D
<1>4. Apart(M, D)
  BY <1>2, WalkTellsApart, Zenon
<1>5. Len(T) = IF n < Cardinality(M) THEN n ELSE Cardinality(M)
  BY <1>1, <1>3, OrderedLength, Zenon
<1>6. T \in Seq(M) /\ \A a \in 1 .. Len(T) : T[a] \in M
  BY <1>1, ElementType, Zenon DEF Ordered
<1>7. ASSUME NEW a \in 1 .. Len(T)
      PROVE  T[a] = CHOOSE m \in M : Cardinality(Nearer(h, M, key, m)) = a - 1
  <2>1. T[a] \in M /\ Cardinality(Below(M, D, T[a])) = a - 1
    BY <1>1, <1>3, <1>6, OrderedRanks, Zenon
  <2>2. \A m \in M : Cardinality(Below(M, D, m)) = a - 1 => m = T[a]
    BY <1>3, <1>4, <2>1, RankTells, Zenon
  <2>3. /\ Cardinality(Nearer(h, M, key, T[a])) = a - 1
        /\ \A m \in M : Cardinality(Nearer(h, M, key, m)) = a - 1 => m = T[a]
    BY <2>1, <2>2, NearerIsBelow, Zenon DEF D
  <2>4. QED
    BY <2>1, <2>3, Zenon
<1>8. T = [i \in 1 .. Len(T) |-> T[i]]
  BY <1>6, SequenceIs, Zenon
<1>9. T = [i \in 1 .. Len(T) |-> CHOOSE m \in M : Cardinality(Nearer(h, M, key, m)) = i - 1]
  BY <1>7, <1>8, Zenon
<1>10. T = Nearest(h, M, key, Len(T))
  BY <1>9, NearestIs, Zenon
<1>11. QED
  BY <1>5, <1>10, Zenon DEF T


(* A ring in use has a member, and so a point. *)
LEMMA RingHasPoints ==
  ASSUME NEW h \in hashStr, NEW M \in SUBSET Node, NEW points, IsRing(h, points, M), M # {}
  PROVE  points \in Seq(Point) /\ Len(points) > 0
<1>1. points \in Seq(Point)
  BY Zenon DEF IsRing, Placed
<1>2. 1 \in VirtualNode
  BY RingAssumption DEF VirtualNode
<1>3. PICK m \in M : TRUE
  OBVIOUS
<1>4. HasPoint(points, m, h[m][1])
  BY <1>2, PointsInRing, Zenon
<1>5. PICK x \in 1 .. Len(points) : points[x].node = m
  BY <1>4, Zenon DEF HasPoint
<1>6. QED
  BY <1>1, <1>5

LEMMA GetIsWalkFirst ==
  ASSUME NEW points \in Seq(Point), Len(points) > 0, NEW key \in Position
  PROVE  WalkNodes(points, key)[1] = Get(points, key)
<1>1. 1 \in 1 .. Len(points) /\ findIndex(points, key) \in 1 .. Len(points)
  BY FindIndex
<1>2. At(points, key, 1) = LET j == findIndex(points, key) + 1 - 1
                           IN  IF j <= Len(points) THEN j ELSE j - Len(points)
  BY <1>1, AtIs, Zenon
<1>3. At(points, key, 1) = findIndex(points, key)
  BY <1>1, <1>2
<1>4. WalkNodes(points, key)[1] = Met(points, key, 1).node
  BY <1>1, Zenon DEF WalkNodes
<1>5. QED
  BY <1>3, <1>4, Zenon DEF Met, Get

(* The node Get names is the nearest. *)
LEMMA GetIsNearest ==
  ASSUME NEW h \in hashStr, NEW M \in SUBSET Node, NEW points, IsRing(h, points, M),
         M # {}, NEW key \in Position
  PROVE  /\ Get(points, key) \in M
         /\ \A m \in M : ~(Distances(h, M, key)[m] < Distances(h, M, key)[Get(points, key)])
<1> DEFINE walk == WalkNodes(points, key)
           e    == Reach(points, key)
           D    == Distances(h, M, key)
           w    == Get(points, key)
<1>1. points \in Seq(Point) /\ Len(points) > 0
  BY RingHasPoints, Zenon
<1>2. GoodWalk(walk, e, M, D)
  BY <1>1, RingWalk, Zenon
<1>3. Len(walk) = Len(points)
  BY <1>1, WalkIs, Zenon
<1>4. walk[1] = w
  BY <1>1, GetIsWalkFirst, Zenon
<1> HIDE DEF walk, e, D, w
<1>5. 1 \in 1 .. Len(walk)
  BY <1>1, <1>3
<1>6. w \in M
  BY <1>2, <1>4, <1>5, ElementType, Zenon DEF GoodWalk
<1>7. ASSUME NEW m \in M
      PROVE  ~(D[m] < D[w])
  <2>1. PICK i \in 1 .. Len(walk) : walk[i] = m /\ D[m] = e[i]
    BY <1>2, Zenon DEF GoodWalk
  <2>2. D[w] <= e[1] /\ (1 < i => e[1] < e[i])
    BY <1>2, <1>4, <1>5, Zenon DEF GoodWalk
  <2>3. D[w] \in Int /\ e[1] \in Int /\ e[i] \in Int
    BY <1>2, <1>5, <1>6, Zenon DEF GoodWalk
  <2>4. i = 1 \/ 1 < i
    BY <1>1, <1>3
  <2>5. i = 1 => e[i] = e[1]
    BY Zenon
  <2>6. ~(e[i] < D[w])
    BY <2>2, <2>3, <2>4, <2>5
  <2>7. QED
    BY <2>1, <2>6, Zenon
<1>8. QED
  BY <1>6, <1>7, Zenon DEF D, w

LEMMA HeadIsGet ==
  ASSUME NEW h \in hashStr, NEW M \in SUBSET Node, NEW points, IsRing(h, points, M),
         M # {}, NEW key \in Position, NEW n \in Nat, n # 0
  PROVE  Head(GetN(points, key, n)) = Get(points, key)
<1> DEFINE T == GetN(points, key, n)
           D == Distances(h, M, key)
           w == Get(points, key)
<1>1. points \in Seq(Point) /\ Len(points) > 0
  BY RingHasPoints, Zenon
<1>2. /\ Ordered(T, M, D)
      /\ Len(T) <= n
      /\ Len(T) < n => \A m \in M : Contains(T, m)
  BY <1>1, GetNOrders, Zenon
<1>3. GoodWalk(WalkNodes(points, key), Reach(points, key), M, D)
  BY <1>1, RingWalk, Zenon
<1>4. w \in M /\ \A m \in M : ~(D[m] < D[w])
  BY GetIsNearest, Zenon
<1> HIDE DEF T, D, w
<1>5. D \in [M -> Int]
  BY <1>3, Zenon DEF GoodWalk
<1>6. /\ Len(T) \in Nat
      /\ \A b \in 1 .. Len(T) : T[b] \in M /\ D[T[b]] \in Int
      /\ \A b, d \in 1 .. Len(T) : D[T[b]] < D[T[d]] => b < d
  BY <1>2, <1>5, OrderedDistinct, Zenon
<1>7. 1 \in 1 .. Len(T)
  <2>1. CASE Len(T) < n
    <3>1. PICK b \in 1 .. Len(T) : T[b] = w
      BY <1>2, <1>4, <2>1, Zenon DEF Contains
    <3>2. QED
      BY <1>6, <3>1
  <2>2. CASE ~(Len(T) < n)
    BY <1>6, <2>2
  <2>3. QED
    BY <2>1, <2>2, Zenon
<1>8. ~(D[w] < D[T[1]])
  <2>1. SUFFICES ASSUME D[w] < D[T[1]] PROVE FALSE
    OBVIOUS
  <2>2. PICK b \in 1 .. Len(T) : T[b] = w
    BY <1>2, <1>4, <1>7, <2>1, Zenon DEF Ordered, Contains
  <2>3. b < 1
    BY <1>6, <1>7, <2>1, <2>2, Zenon
  <2>4. QED
    BY <1>6, <2>3
<1>9. D[T[1]] = D[w]
  <2>1. D[T[1]] \in Int /\ D[w] \in Int
    BY <1>4, <1>5, <1>6, <1>7, Zenon
  <2>2. ~(D[T[1]] < D[w])
    BY <1>4, <1>6, <1>7, Zenon
  <2>3. QED
    BY <1>8, <2>1, <2>2
<1>10. T[1] = w
  <2>1. Apart(M, D)
    BY <1>3, WalkTellsApart, Zenon
  <2>2. QED
    BY <1>4, <1>6, <1>7, <1>9, <2>1, Zenon DEF Apart
<1>11. Head(T) = T[1]
  <2>1. T \in Seq(M)
    BY <1>2, Zenon DEF Ordered
  <2>2. QED
    BY <1>7, <2>1
<1>12. QED
  BY <1>10, <1>11, Zenon DEF T, w

(* Two members are in the order of their distances, whoever else is there. *)
LEMMA BeforeIs ==
  ASSUME NEW h \in hashStr, NEW M \in SUBSET Node, NEW points, IsRing(h, points, M),
         NEW key \in Position, NEW m \in M, NEW o \in M
  PROVE  Before(GetN(points, key, Cardinality(Node)), m, o)
           <=> ~(Distance(h, o, key) < Distance(h, m, key))
<1> DEFINE n == Cardinality(Node)
           T == GetN(points, key, n)
           D == Distances(h, M, key)
<1>1. points \in Seq(Point) /\ Len(points) > 0
  BY RingHasPoints, Zenon
<1>2. IsFiniteSet(Node) /\ IsFiniteSet(M)
  BY RingAssumption, FS_Subset, Zenon
<1>3. n \in Nat /\ Cardinality(M) \in Nat /\ Cardinality(M) <= n
  BY <1>2, FS_Subset, FS_CardinalityType, Zenon
<1>4. Cardinality(M) # 0
  BY <1>2, FS_EmptySet, Zenon
<1>5. n # 0
  BY <1>3, <1>4
<1>6. /\ Ordered(T, M, D)
      /\ Len(T) <= n
      /\ Len(T) < n => \A x \in M : Contains(T, x)
  BY <1>1, <1>3, <1>5, GetNOrders, Zenon
<1>7. GoodWalk(WalkNodes(points, key), Reach(points, key), M, D)
  BY <1>1, RingWalk, Zenon
<1>8. D[m] = Distance(h, m, key) /\ D[o] = Distance(h, o, key)
  BY Zenon DEF Distances
<1> HIDE DEF T, D, n
<1>9. D \in [M -> Int]
  BY <1>7, Zenon DEF GoodWalk
<1>10. /\ Len(T) \in Nat
       /\ \A b \in 1 .. Len(T) : T[b] \in M /\ D[T[b]] \in Int
       /\ \A b, d \in 1 .. Len(T) : b # d => T[b] # T[d]
       /\ \A b, d \in 1 .. Len(T) : D[T[b]] < D[T[d]] => b < d
  BY <1>6, <1>9, OrderedDistinct, Zenon
<1>11. Exhausts(T, Len(T), M)
  <2>1. Lists(T, Len(T), M)
    BY <1>10, Zenon DEF Lists
  <2>2. Len(T) = IF n < Cardinality(M) THEN n ELSE Cardinality(M)
    BY <1>2, <1>3, <1>6, <1>9, OrderedLength, Zenon
  <2>3. Len(T) = Cardinality(M)
    BY <1>3, <2>2
  <2>4. QED
    BY <1>2, <1>10, <2>1, <2>3, DistinctCount, Zenon
<1>12. PICK a \in 1 .. Len(T) : T[a] = m
  BY <1>11, Zenon DEF Exhausts
<1>13. PICK d \in 1 .. Len(T) : T[d] = o
  BY <1>11, Zenon DEF Exhausts
<1>14. DOMAIN T = 1 .. Len(T)
  <2>1. T \in Seq(M)
    BY <1>6, Zenon DEF Ordered
  <2>2. QED
    BY <2>1
<1>15. Before(T, m, o) <=> a <= d
  BY <1>10, <1>12, <1>13, <1>14, Zenon DEF Before
<1>16. D[T[d]] < D[T[a]] <=> d < a
  BY <1>6, <1>10, Zenon DEF Ordered
<1>17. a <= d <=> ~(d < a)
  BY <1>10
<1>18. QED
  BY <1>8, <1>12, <1>13, <1>15, <1>16, <1>17, Zenon DEF T, n


-----------------------------------------------------------------------------
(* The routers.                                                               *)

(* points is the whole, sorted ring of a set of members that has n. *)
RingOf(h, points, n) == n \in Members(points) /\ IsRing(h, points, Members(points))

(* A view and a snapshot of it have the node itself, so a ring built from one *)
(* is never empty, and what is published is always the result of a whole      *)
(* rebuild.                                                                   *)
RouterInv ==
  /\ TypeOK
  /\ \A n \in Node :
       /\ n \in alive[n]
       /\ build[n] # {} => n \in build[n]
       /\ RingOf(layout, ring[n], n)

LEMMA LayoutIs ==
  ASSUME TypeOK
  PROVE  layout \in hashStr
BY RouterAssumption, Zenon DEF TypeOK

(* A rebuild makes a ring of the members it read, in whatever order it added  *)
(* them.                                                                      *)
LEMMA RebuiltRing ==
  ASSUME TypeOK, NEW M \in SUBSET Node, NEW n \in M, NEW points \in added(M)
  PROVE  RingOf(layout, RingSort(points), n) /\ RingSort(points) \in Seq(Point)
<1>1. layout \in hashStr
  BY LayoutIs, Zenon
<1>2. PICK order \in Bijection(1 .. Cardinality(M), M) : points = Adds(layout, order)
  BY Zenon DEF added, Adds
<1>3. Placed(layout, points, M)
  BY <1>1, <1>2, AddsPlace, Zenon
<1>4. IsRing(layout, RingSort(points), M)
  BY <1>3, SortMakesRing, Zenon
<1>5. Members(RingSort(points)) = M
  BY <1>1, <1>4, MembersOfRing, Zenon
<1>6. QED
  BY <1>4, <1>5, Zenon DEF RingOf, IsRing, Placed

LEMMA FirstRing ==
  ASSUME NEW h \in hashStr, NEW n \in Node
  PROVE  RingOf(h, RingSort(Add(h, <<>>, n)), n) /\ RingSort(Add(h, <<>>, n)) \in Seq(Point)
<1>1. \A p : ~PointOf(h, {}, p)
  BY Zenon DEF PointOf
<1>2. <<>> \in Seq(Point) /\ 1 .. Len(<<>>) = {}
  OBVIOUS
<1>3. Placed(h, <<>>, {})
  BY <1>1, <1>2, Zenon DEF Placed, Contains
<1>4. Placed(h, Add(h, <<>>, n), {} \cup {n})
  <2>1. {} \in SUBSET Node /\ n \in Node \ {}
    BY Zenon
  <2>2. QED
    BY <1>3, <2>1, AddPlaces, Zenon
<1>5. {} \cup {n} = {n} /\ {n} \in SUBSET Node
  BY Zenon
<1>6. IsRing(h, RingSort(Add(h, <<>>, n)), {n})
  BY <1>4, <1>5, SortMakesRing, Zenon
<1>7. Members(RingSort(Add(h, <<>>, n))) = {n}
  BY <1>5, <1>6, MembersOfRing, Zenon
<1>8. QED
  BY <1>6, <1>7, Zenon DEF RingOf, IsRing, Placed

(* A published ring answers with nodes. *)
LEMMA RingIs ==
  ASSUME NEW h \in hashStr, NEW points \in Seq(Point), NEW n, RingOf(h, points, n)
  PROVE  /\ Members(points) \in SUBSET Node
         /\ Members(points) # {}
         /\ IsRing(h, points, Members(points))
         /\ Len(points) > 0
<1>1. \A i \in DOMAIN points : points[i].node \in Node
  <2>1. \A i \in DOMAIN points : points[i] \in Point
    OBVIOUS
  <2>2. QED
    BY <2>1 DEF Point
<1>2. Members(points) \in SUBSET Node
  BY <1>1, Zenon DEF Members
<1>3. QED
  BY <1>2, RingHasPoints, Zenon DEF RingOf

LEMMA GetIsNode ==
  ASSUME NEW h \in hashStr, NEW points \in Seq(Point), NEW n, RingOf(h, points, n),
         NEW key \in Position
  PROVE  Get(points, key) \in Node
BY RingIs, GetIsNearest, Zenon

LEMMA WiderSeq ==
  ASSUME NEW S, NEW R, S \subseteq R, NEW T \in Seq(S)
  PROVE  T \in Seq(R)
OBVIOUS

LEMMA GetNIsNodes ==
  ASSUME NEW h \in hashStr, NEW points \in Seq(Point), NEW n, RingOf(h, points, n),
         NEW key \in Position, NEW k \in Nat, k # 0
  PROVE  GetN(points, key, k) \in Seq(Node)
<1>1. /\ Members(points) \in SUBSET Node
      /\ IsRing(h, points, Members(points))
      /\ Len(points) > 0
  BY RingIs, Zenon
<1>2. Ordered(GetN(points, key, k), Members(points), Distances(h, Members(points), key))
  BY <1>1, GetNOrders, Zenon
<1>3. GetN(points, key, k) \in Seq(Members(points))
  BY <1>2, Zenon DEF Ordered
<1>4. QED
  BY <1>1, <1>3, WiderSeq, Zenon


LEMMA RequestParts ==
  ASSUME NEW q \in RequestState
  PROVE  /\ q.pc \in {"local", "remote"} => q.node \in Node /\ q.key \in Key
         /\ q.pc = "moved" => q.owner \in Node /\ q.key \in Key
BY DEF RequestState

LEMMA RequestStates ==
  ASSUME NEW n \in Node, NEW key \in Key
  PROVE  /\ [pc |-> "idle"] \in RequestState
         /\ \A pc \in {"local", "remote"} : [pc |-> pc, node |-> n, key |-> key] \in RequestState
         /\ [pc |-> "moved", key |-> key, owner |-> n] \in RequestState
         /\ \A replicas \in Seq(Node) :
              [pc |-> "coordinated", node |-> n, key |-> key, replicas |-> replicas]
                \in RequestState
BY DEF RequestState

LEMMA InitKeepsInv ==
  ASSUME Init
  PROVE  RouterInv
<1>1. layout \in hashStr /\ layout \in Layouts
  BY RouterAssumption, Zenon DEF Init
<1>2. \A n \in Node : alive[n] = {n} /\ build[n] = {} /\ ring[n] = RingSort(Add(layout, <<>>, n))
  BY Zenon DEF Init
<1>3. \A n \in Node : RingOf(layout, ring[n], n) /\ ring[n] \in Seq(Point)
  BY <1>1, <1>2, FirstRing, Zenon
<1>4. alive \in [Node -> SUBSET Node] /\ build \in [Node -> SUBSET Node]
  BY Zenon DEF Init
<1>5. ring \in [Node -> Seq(Point)]
  <2>1. ring = [n \in Node |-> RingSort(Add(layout, <<>>, n))]
    BY Zenon DEF Init
  <2>2. \A n \in Node : RingSort(Add(layout, <<>>, n)) \in Seq(Point)
    BY <1>2, <1>3, Zenon
  <2>3. QED
    BY <2>1, <2>2, Zenon
<1>6. request \in [Request -> RequestState]
  <2>1. [pc |-> "idle"] \in RequestState
    BY DEF RequestState
  <2>2. QED
    BY <2>1, Zenon DEF Init
<1>7. changes \in 0 .. MaxChanges
  BY RouterAssumption DEF Init
<1>8. TypeOK
  BY <1>1, <1>4, <1>5, <1>6, <1>7, Zenon DEF TypeOK
<1>9. QED
  BY <1>2, <1>3, <1>8, Zenon DEF RouterInv

(* A request changes nothing but itself. *)
LEMMA RequestKeepsInv ==
  ASSUME RouterInv, NEW r \in Request, NEW state \in RequestState, to(r, state)
  PROVE  RouterInv'
<1>1. /\ request' = [request EXCEPT ![r] = state]
      /\ UNCHANGED <<layout, alive, build, ring, changes>>
  BY Zenon DEF to
<1>2. request' \in [Request -> RequestState]
  BY <1>1, Zenon DEF RouterInv, TypeOK
<1>3. TypeOK'
  BY <1>1, <1>2, Zenon DEF RouterInv, TypeOK
<1>4. QED
  BY <1>1, <1>3, Zenon DEF RouterInv

LEMMA LocalKeepsInv ==
  ASSUME RouterInv, NEW r \in Request, NEW n \in Node, NEW key \in Key, IsLocal(r, n, key)
  PROVE  RouterInv'
<1>1. PICK pc \in {"local", "remote"} : to(r, [pc |-> pc, node |-> n, key |-> key])
  BY Zenon DEF IsLocal
<1>2. [pc |-> pc, node |-> n, key |-> key] \in RequestState
  BY RequestStates, Zenon
<1>3. QED
  BY <1>1, <1>2, RequestKeepsInv, Zenon

LEMMA OwnerKeepsInv ==
  ASSUME RouterInv, NEW r \in Request, Owner(r)
  PROVE  RouterInv'
<1> DEFINE q == request[r]
           o == Get(ring[q.node], q.key)
<1>1. q \in RequestState /\ q.pc = "remote" /\ to(r, [pc |-> "moved", key |-> q.key, owner |-> o])
  BY Zenon DEF RouterInv, TypeOK, Owner
<1>2. q.node \in Node /\ q.key \in Key
  BY <1>1, RequestParts, Zenon
<1>3. o \in Node
  BY <1>2, GetIsNode, LayoutIs, RouterAssumption, Zenon DEF RouterInv, TypeOK
<1>4. [pc |-> "moved", key |-> q.key, owner |-> o] \in RequestState
  BY <1>2, <1>3, RequestStates, Zenon
<1>5. QED
  BY <1>1, <1>4, RequestKeepsInv, Zenon

LEMMA OwnersKeepsInv ==
  ASSUME RouterInv, NEW r \in Request, Owners(r)
  PROVE  RouterInv'
<1> DEFINE q == request[r]
           replicas == GetN(ring[q.node], q.key, N)
           state == [pc |-> "coordinated", node |-> q.node, key |-> q.key,
                     replicas |-> replicas]
<1>1. q \in RequestState /\ q.pc = "local" /\ to(r, state)
  BY Zenon DEF RouterInv, TypeOK, Owners
<1>2. q.node \in Node /\ q.key \in Key
  BY <1>1, RequestParts, Zenon
<1>3. N \in Nat /\ N # 0
  BY RouterAssumption
<1>4. replicas \in Seq(Node)
  BY <1>2, <1>3, GetNIsNodes, LayoutIs, RouterAssumption, Zenon DEF RouterInv, TypeOK
<1>5. state \in RequestState
  BY <1>2, <1>4, RequestStates, Zenon
<1>6. QED
  BY <1>1, <1>5, RequestKeepsInv, Zenon

LEMMA ServeKeepsInv ==
  ASSUME RouterInv, NEW r \in Request, ask(r) \/ serve(r)
  PROVE  RouterInv'
<1>1. CASE ask(r)
  BY <1>1, LocalKeepsInv, Zenon DEF ask
<1>2. CASE follow(r)
  <2>1. request[r] \in RequestState /\ request[r].pc = "moved"
        /\ IsLocal(r, request[r].owner, request[r].key)
    BY <1>2, Zenon DEF RouterInv, TypeOK, follow
  <2>2. request[r].owner \in Node /\ request[r].key \in Key
    BY <2>1, RequestParts, Zenon
  <2>3. QED
    BY <2>1, <2>2, LocalKeepsInv, Zenon
<1>3. CASE Owner(r)
  BY <1>3, OwnerKeepsInv, Zenon
<1>4. CASE Owners(r)
  BY <1>4, OwnersKeepsInv, Zenon
<1>5. QED
  BY <1>1, <1>2, <1>3, <1>4, Zenon DEF serve


LEMMA ViewKeepsInv ==
  ASSUME RouterInv, NEW n \in Node, viewChanges(n)
  PROVE  RouterInv'
<1>1. PICK view \in SUBSET Node : n \in view /\ alive' = [alive EXCEPT ![n] = view]
  BY Zenon DEF viewChanges
<1>2. UNCHANGED <<layout, build, ring, request>> /\ changes < MaxChanges /\ changes' = changes + 1
  BY Zenon DEF viewChanges
<1>3. changes' \in 0 .. MaxChanges
  BY <1>2, RouterAssumption DEF RouterInv, TypeOK
<1>4. alive' \in [Node -> SUBSET Node] /\ \A m \in Node : m \in alive'[m]
  BY <1>1, Zenon DEF RouterInv, TypeOK
<1>5. TypeOK'
  BY <1>2, <1>3, <1>4, Zenon DEF RouterInv, TypeOK
<1>6. QED
  BY <1>2, <1>4, <1>5, Zenon DEF RouterInv

LEMMA RebuildAliveKeepsInv ==
  ASSUME RouterInv, NEW n \in Node, rebuildAlive(n)
  PROVE  RouterInv'
<1>1. build' = [build EXCEPT ![n] = alive[n]] /\ UNCHANGED <<layout, alive, ring, request, changes>>
  BY Zenon DEF rebuildAlive
<1>2. build' \in [Node -> SUBSET Node] /\ \A m \in Node : build'[m] # {} => m \in build'[m]
  BY <1>1, Zenon DEF RouterInv, TypeOK
<1>3. TypeOK'
  BY <1>1, <1>2, Zenon DEF RouterInv, TypeOK
<1>4. QED
  BY <1>1, <1>2, <1>3, Zenon DEF RouterInv

LEMMA RebuildStoreKeepsInv ==
  ASSUME RouterInv, NEW n \in Node, rebuildStore(n)
  PROVE  RouterInv'
<1>1. PICK points \in added(build[n]) : ring' = [ring EXCEPT ![n] = RingSort(points)]
  BY Zenon DEF rebuildStore
<1>2. /\ build[n] # {}
      /\ build' = [build EXCEPT ![n] = {}]
      /\ UNCHANGED <<layout, alive, request, changes>>
  BY Zenon DEF rebuildStore
<1>3. TypeOK /\ build[n] \in SUBSET Node /\ n \in build[n]
  BY <1>2, Zenon DEF RouterInv, TypeOK
<1>4. RingOf(layout, RingSort(points), n) /\ RingSort(points) \in Seq(Point)
  BY <1>3, RebuiltRing, Zenon
<1>5. ring' \in [Node -> Seq(Point)] /\ \A m \in Node : RingOf(layout, ring'[m], m)
  BY <1>1, <1>4, Zenon DEF RouterInv, TypeOK
<1>6. build' \in [Node -> SUBSET Node] /\ \A m \in Node : build'[m] # {} => m \in build'[m]
  BY <1>2, Zenon DEF RouterInv, TypeOK
<1>7. TypeOK'
  BY <1>2, <1>3, <1>5, <1>6, Zenon DEF TypeOK
<1>8. QED
  BY <1>2, <1>5, <1>6, <1>7, Zenon DEF RouterInv

LEMMA NextKeepsInv ==
  ASSUME RouterInv, [Next]_vars
  PROVE  RouterInv'
<1>1. ASSUME NEW n \in Node, viewChanges(n) \/ rebuild(n)
      PROVE  RouterInv'
  BY <1>1, ViewKeepsInv, RebuildAliveKeepsInv, RebuildStoreKeepsInv, Zenon DEF rebuild
<1>2. ASSUME NEW r \in Request, ask(r) \/ serve(r)
      PROVE  RouterInv'
  BY <1>2, ServeKeepsInv, Zenon
<1>3. CASE UNCHANGED vars
  BY <1>3, Zenon DEF RouterInv, TypeOK, vars
<1>4. QED
  BY <1>1, <1>2, <1>3, Zenon DEF Next

LEMMA RouterInvHolds == Spec => []RouterInv
BY InitKeepsInv, NextKeepsInv, PTL DEF Spec

(* The rings, snapshots and requests of the routers keep their types: the     *)
(* owner a redirect names and the replicas a coordinator gets are nodes, since *)
(* no ring a request may load is ever empty (Get, GetN).                      *)
THEOREM RouterTypes == Spec => []TypeOK
<1>1. RouterInv => TypeOK
  BY Zenon DEF RouterInv
<1>2. QED
  BY <1>1, RouterInvHolds, PTL

(* Every ring a request can load, at any moment of any rebuild, has the node   *)
(* itself and every virtual point of every node it has (rebuild, Add, Sort).  *)
THEOREM RingsStayWhole == Spec => []RingsAreWhole
<1>1. ASSUME RouterInv
      PROVE  RingsAreWhole
  <2>1. SUFFICES ASSUME NEW n \in Node
                 PROVE  /\ n \in Members(ring[n])
                        /\ \A m \in Members(ring[n]), i \in VirtualNode :
                             [hash |-> layout[m][i], node |-> m] \in Range(ring[n])
    BY Zenon DEF RingsAreWhole
  <2>2. RingOf(layout, ring[n], n)
    BY <1>1, Zenon DEF RouterInv
  <2>3. \A m \in Members(ring[n]), i \in VirtualNode :
          PointOf(layout, Members(ring[n]), PointAt(layout, m, i))
    BY Zenon DEF PointOf
  <2>4. \A m \in Members(ring[n]), i \in VirtualNode :
          Contains(ring[n], PointAt(layout, m, i))
    BY <2>2, <2>3, Zenon DEF RingOf, IsRing, Placed
  <2>5. ring[n] \in Seq(Point)
    BY <1>1, Zenon DEF RouterInv, TypeOK
  <2>6. QED
    BY <2>2, <2>4, <2>5, RangeIs, Zenon DEF RingOf, PointAt
<1>2. QED
  BY <1>1, RouterInvHolds, PTL

LEMMA NoneAreNearest ==
  ASSUME NEW h, NEW M, NEW key, NEW points, IsFiniteSet(M)
  PROVE  GetN(points, key, 0)
           = Nearest(h, M, key, IF 0 < Cardinality(M) THEN 0 ELSE Cardinality(M))
<1>1. Cardinality(M) \in Nat
  BY FS_CardinalityType, Zenon
<1>2. (IF 0 < Cardinality(M) THEN 0 ELSE Cardinality(M)) = 0
  BY <1>1
<1>3. GetN(points, key, 0) = <<>>
  BY Zenon DEF GetN
<1>4. Nearest(h, M, key, 0) = <<>>
  BY DEF Nearest
<1>5. QED
  BY <1>2, <1>3, <1>4, Zenon

(* For every number of nodes and of virtual points, every placement without a  *)
(* collision, every order the members were added in and every key, the replica *)
(* set a router returns is the nearest distinct nodes clockwise and Get returns *)
(* the first of them (rebuild, Sort, findIndex, Get, GetN).                   *)
THEOREM OwnersAreTheNearest == Spec => []OwnersAreNearest
<1>1. ASSUME RouterInv
      PROVE  OwnersAreNearest
  <2> DEFINE nodes(router) == Members(ring[router])
  <2>1. SUFFICES ASSUME NEW router \in Node, NEW key \in Position,
                        NEW n \in {0, N, Cardinality(Node) + 1}
                 PROVE  /\ GetN(ring[router], key, n)
                             = Nearest(layout, nodes(router), key,
                                       IF n < Cardinality(nodes(router)) THEN n
                                       ELSE Cardinality(nodes(router)))
                        /\ n > 0 => Head(GetN(ring[router], key, n)) = Get(ring[router], key)
    BY Zenon DEF OwnersAreNearest
  <2>2. layout \in hashStr /\ ring[router] \in Seq(Point) /\ RingOf(layout, ring[router], router)
    BY <1>1, LayoutIs, Zenon DEF RouterInv, TypeOK
  <2>3. /\ nodes(router) \in SUBSET Node
        /\ nodes(router) # {}
        /\ IsRing(layout, ring[router], nodes(router))
        /\ Len(ring[router]) > 0
    BY <2>2, RingIs, Zenon
  <2>4. IsFiniteSet(nodes(router))
    BY <2>3, RingAssumption, FS_Subset, Zenon
  <2>5. n \in Nat
    <3>1. Cardinality(Node) \in Nat
      BY RingAssumption, FS_CardinalityType, Zenon
    <3>2. QED
      BY <3>1, RouterAssumption
  <2> HIDE DEF nodes
  <2>6. CASE n = 0
    <3>1. ~(n > 0)
      BY <2>6
    <3>2. QED
      BY <2>4, <2>6, <3>1, NoneAreNearest, Zenon
  <2>7. CASE n # 0
    BY <2>2, <2>3, <2>5, <2>7, GetNIsNearest, HeadIsGet, Zenon
  <2>8. QED
    BY <2>6, <2>7, Zenon
<1>2. QED
  BY <1>1, RouterInvHolds, PTL

LEMMA LayoutStays ==
  ASSUME [Next]_vars
  PROVE  layout' = layout
BY Zenon DEF Next, vars, viewChanges, rebuild, rebuildAlive, rebuildStore,
             ask, serve, follow, Owner, Owners, IsLocal, to

(* Whoever else joins or leaves, a rebuild never reorders two nodes that stay: *)
(* a key changes its owner only to a node that joined or when its owner left  *)
(* (rebuild, Ring).                                                           *)
THEOREM RebuildsMoveFewKeys == Spec => RebuildMovesFewKeys
<1> DEFINE Kept(n, key) ==
             \A m, o \in Members(ring[n]) \cap Members(ring'[n]) :
               Before(GetN(ring[n], key, Cardinality(Node)), m, o)
                 <=> Before(GetN(ring'[n], key, Cardinality(Node)), m, o)
<1>1. ASSUME RouterInv, RouterInv', [Next]_vars, NEW n \in Node, NEW key \in Position
      PROVE  Kept(n, key)
  <2>1. /\ layout \in hashStr
        /\ ring[n] \in Seq(Point) /\ RingOf(layout, ring[n], n)
    BY <1>1, LayoutIs, Zenon DEF RouterInv, TypeOK
  <2>2. layout' = layout
    BY <1>1, LayoutStays, Zenon
  <2>3. ring'[n] \in Seq(Point) /\ RingOf(layout, ring'[n], n)
    BY <1>1, <2>2, Zenon DEF RouterInv, TypeOK
  <2>4. Members(ring[n]) \in SUBSET Node /\ IsRing(layout, ring[n], Members(ring[n]))
    BY <2>1, RingIs, Zenon
  <2>5. Members(ring'[n]) \in SUBSET Node /\ IsRing(layout, ring'[n], Members(ring'[n]))
    BY <2>1, <2>3, RingIs, Zenon
  <2>6. ASSUME NEW m \in Members(ring[n]) \cap Members(ring'[n]),
               NEW o \in Members(ring[n]) \cap Members(ring'[n])
        PROVE  Before(GetN(ring[n], key, Cardinality(Node)), m, o)
                 <=> Before(GetN(ring'[n], key, Cardinality(Node)), m, o)
    <3>1. m \in Members(ring[n]) /\ o \in Members(ring[n])
          /\ m \in Members(ring'[n]) /\ o \in Members(ring'[n])
      BY Zenon
    <3>2. Before(GetN(ring[n], key, Cardinality(Node)), m, o)
            <=> ~(Distance(layout, o, key) < Distance(layout, m, key))
      BY <2>1, <2>4, <3>1, BeforeIs, Zenon
    <3>3. Before(GetN(ring'[n], key, Cardinality(Node)), m, o)
            <=> ~(Distance(layout, o, key) < Distance(layout, m, key))
      BY <2>1, <2>5, <3>1, BeforeIs, Zenon
    <3>4. QED
      BY <3>2, <3>3, Zenon
  <2>7. QED
    BY <2>6, Zenon
<1>2. ASSUME RouterInv, RouterInv', [Next]_vars
      PROVE  \A n \in {m \in Node : ring[m] # ring'[m]}, key \in Position : Kept(n, key)
  BY <1>1, <1>2, Zenon
<1>3. RouterInv /\ RouterInv' /\ [Next]_vars
        => [\A n \in {m \in Node : ring[m] # ring'[m]}, key \in Position : Kept(n, key)]_vars
  BY <1>2, Zenon
<1>4. QED
  BY <1>3, RouterInvHolds, PTL DEF Spec, RebuildMovesFewKeys
=============================================================================
