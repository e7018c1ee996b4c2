-------------------------- MODULE AntiEntropyProofs --------------------------
(***************************************************************************)
(* The Merkle comparison and the anti-entropy round for any keys, hashes,  *)
(* leaf count and number of nodes.                                         *)
(***************************************************************************)
EXTENDS AntiEntropy, VersionTheorems, FiniteSetTheorems

(* Induction without an operator parameter: a set of naturals that is not  *)
(* empty has a least element, ...                                          *)
LessThan == {p \in Nat \X Nat : p[1] < p[2]}

LEMMA LeastNatural ==
  ASSUME NEW S \in SUBSET Nat, S # {}
  PROVE  \E m \in S : \A n \in S : m <= n
<1>1. IsWellFoundedOn(LessThan, Nat)
  BY NatLessThanWellFounded, Zenon DEF OpToRel, LessThan
<1>2. PICK m \in S : \A n \in S : <<n, m>> \notin LessThan
  BY <1>1, WFMin, Zenon
<1>3. ASSUME NEW n \in S
      PROVE  m <= n
  <2>1. m \in Nat /\ n \in Nat /\ <<n, m>> \notin LessThan
    BY <1>2, Zenon
  <2>2. QED
    BY <2>1 DEF LessThan
<1>4. QED
  BY <1>3, Zenon

(* ... a set of heap nodes a last one, ...                                 *)
LEMMA LastNode ==
  ASSUME NEW N \in Nat, NEW S \in SUBSET (1 .. N), S # {}
  PROVE  \E m \in S : \A n \in S : n <= m
<1> DEFINE above == {N - m : m \in S}
<1>1. above \in SUBSET Nat /\ above # {}
  <2>1. \A m \in S : N - m \in Nat
    OBVIOUS
  <2>2. QED
    BY <2>1, Zenon
<1>2. PICK d \in above : \A e \in above : d <= e
  BY <1>1, LeastNatural, Zenon
<1>3. PICK m \in S : d = N - m
  BY <1>2, Zenon
<1>4. ASSUME NEW n \in S
      PROVE  n <= m
  <2>1. N - m <= N - n /\ n \in 1 .. N /\ m \in 1 .. N
    BY <1>2, <1>3, Zenon
  <2>2. QED
    BY <2>1
<1>5. QED
  BY <1>4, Zenon

(* ... and a set of finite sets one that no longer is in it without one    *)
(* of its elements.                                                        *)
LEMMA SmallestSet ==
  ASSUME NEW S, IsFiniteSet(S), NEW X \in SUBSET SUBSET S, X # {}
  PROVE  \E s \in X : \A x \in s : s \ {x} \notin X
<1> DEFINE sizes == {Cardinality(s) : s \in X}
<1>1. \A s \in X : IsFiniteSet(s) /\ Cardinality(s) \in Nat
  BY FS_Subset, FS_CardinalityType, Zenon
<1>2. sizes \in SUBSET Nat /\ sizes # {}
  BY <1>1, Zenon
<1>3. PICK m \in sizes : \A n \in sizes : m <= n
  BY <1>2, LeastNatural, Zenon
<1>4. PICK s \in X : Cardinality(s) = m
  BY <1>3, Zenon
<1>5. ASSUME NEW x \in s, s \ {x} \in X
      PROVE  FALSE
  <2>1. Cardinality(s \ {x}) = Cardinality(s) - 1
    BY <1>1, <1>4, <1>5, FS_RemoveElement, Zenon
  <2>2. Cardinality(s) <= Cardinality(s \ {x})
    BY <1>3, <1>4, <1>5, Zenon
  <2>3. QED
    BY <1>1, <1>4, <2>1, <2>2
<1>6. QED
  BY <1>4, <1>5, Zenon

-----------------------------------------------------------------------------
(* The leaf count *)

IsDouble(n, f) == f = [p \in 1 .. 2 * n + 1 |-> IF p >= n THEN p ELSE f[2 * p]]

LEMMA DoubleDef ==
  ASSUME NEW n
  PROVE  nextPowerOfTwo(n) = (CHOOSE f : IsDouble(n, f))[1]
BY Zenon DEF nextPowerOfTwo, IsDouble

(* The recursion is solved from the largest number down. *)
LEMMA DoubleExists ==
  ASSUME NEW n \in Nat
  PROVE  \E f : IsDouble(n, f)
<1> DEFINE N            == 2 * n + 1
           Step(g, p)   == IF p >= n THEN p ELSE g[2 * p]
           Solves(g, m) == g = [p \in m .. N |-> Step(g, p)]
           good         == {m \in 1 .. N : \E g : Solves(g, m)}
<1>1. ASSUME NEW m \in 1 .. N, NEW h, m = N \/ Solves(h, m + 1)
      PROVE  m \in good
  <2> DEFINE g == [p \in m .. N |-> Step(h, p)]
  <2>1. ASSUME NEW p \in m .. N
        PROVE  Step(h, p) = Step(g, p)
    <3>1. CASE p >= n
      BY <3>1, Zenon
    <3>2. CASE ~(p >= n)
      <4>1. 2 * p \in m + 1 .. N /\ 2 * p \in m .. N /\ m # N
        BY <3>2
      <4>2. h[2 * p] = Step(h, 2 * p)
        BY <1>1, <4>1, Zenon
      <4>3. g[2 * p] = Step(h, 2 * p)
        BY <4>1, Zenon
      <4>4. QED
        BY <3>2, <4>2, <4>3, Zenon
    <3>3. QED
      BY <3>1, <3>2, Zenon
  <2>2. Solves(g, m)
    BY <2>1, Zenon
  <2>3. QED
    BY <2>2, Zenon
<1> HIDE DEF Solves
<1>2. 1 \in good
  <2> DEFINE bad == (1 .. N) \ good
  <2>1. SUFFICES ASSUME bad # {}
                 PROVE  FALSE
    OBVIOUS
  <2>2. PICK m \in bad : \A k \in bad : k <= m
    <3>1. N \in Nat /\ bad \in SUBSET (1 .. N)
      OBVIOUS
    <3>2. QED
      BY <2>1, <3>1, LastNode, Zenon
  <2>3. CASE m = N
    BY <1>1, <2>2, <2>3, Zenon
  <2>4. CASE m # N
    <3>1. m + 1 \in good
      BY <2>2, <2>4
    <3>2. PICK h : Solves(h, m + 1)
      BY <3>1, Zenon
    <3>3. QED
      BY <1>1, <2>2, <3>2, Zenon
  <2>5. QED
    BY <2>3, <2>4, Zenon
<1>3. PICK g : Solves(g, 1)
  BY <1>2, Zenon
<1>4. QED
  BY <1>3, Zenon DEF IsDouble, Solves

LEMMA NextPowerPositive == \A n \in Nat : nextPowerOfTwo(n) \in Nat \ {0}
<1> SUFFICES ASSUME NEW n \in Nat
             PROVE  nextPowerOfTwo(n) \in Nat \ {0}
  BY Zenon
<1>1. PICK f : IsDouble(n, f) /\ nextPowerOfTwo(n) = f[1]
  BY DoubleExists, DoubleDef, Zenon
<1> DEFINE N   == 2 * n + 1
           bad == {p \in 1 .. N : f[p] \notin Nat \ {0}}
<1>2. bad = {}
  <2> SUFFICES ASSUME bad # {}
               PROVE  FALSE
    BY Zenon
  <2>1. PICK p \in bad : \A q \in bad : q <= p
    <3>1. N \in Nat /\ bad \in SUBSET (1 .. N)
      OBVIOUS
    <3>2. QED
      BY <3>1, LastNode, Zenon
  <2>2. f[p] = IF p >= n THEN p ELSE f[2 * p]
    BY <1>1, Zenon DEF IsDouble
  <2>3. ~(p >= n)
    BY <2>1, <2>2
  <2>4. 2 * p \in 1 .. N /\ ~(2 * p <= p)
    BY <2>3
  <2>5. f[2 * p] \in Nat \ {0}
    BY <2>1, <2>4, Zenon
  <2>6. QED
    BY <2>1, <2>2, <2>3, <2>5, Zenon
<1>3. 1 \in 1 .. N
  OBVIOUS
<1>4. QED
  BY <1>1, <1>2, <1>3, Zenon

-----------------------------------------------------------------------------
(* The tree of a Range, in closed form *)

L == nextPowerOfTwo(leaves)

BucketOf(k) == Bucket(New(leaves), k)

Blobs == Blob \cup {None}

Held(m) == {k \in Key : m[k] # None}

Entries(m, s, b) == {<<k, m[k]>> : k \in {j \in s : BucketOf(j) = b}}

TreeOn(m, s) == [leafCount |-> L, leaf |-> [b \in 0 .. L - 1 |-> Entries(m, s, b)]]

LEMMA LeafCount == L \in Nat \ {0}
BY NextPowerPositive, AntiEntropyAssumption, Zenon DEF L

LEMMA BucketRange ==
  ASSUME NEW k \in Key
  PROVE  BucketOf(k) \in 0 .. L - 1
<1>1. BucketOf(k) = keyHash[k] % L
  BY Zenon DEF BucketOf, Bucket, New, L
<1>2. keyHash[k] \in Nat
  BY AntiEntropyAssumption, Zenon
<1>3. QED
  BY <1>1, <1>2, LeafCount

LEMMA AddEntry ==
  ASSUME NEW m, NEW s \in SUBSET Key, NEW k \in s
  PROVE  Add(TreeOn(m, s \ {k}), k, m[k]) = TreeOn(m, s)
<1> DEFINE t == TreeOn(m, s \ {k})
           e == <<k, m[k]>>
<1>1. Bucket(t, k) = BucketOf(k)
  BY Zenon DEF Bucket, BucketOf, New, TreeOn, L
<1>2. ASSUME NEW b \in 0 .. L - 1
      PROVE  Entries(m, s, b) = IF b = BucketOf(k)
                                THEN SymDiff(Entries(m, s \ {k}, b), {e})
                                ELSE Entries(m, s \ {k}, b)
  <2>1. e \notin Entries(m, s \ {k}, b)
    BY Zenon DEF Entries
  <2>2. CASE b = BucketOf(k)
    <3>1. Entries(m, s, b) = Entries(m, s \ {k}, b) \cup {e}
      BY <2>2, Zenon DEF Entries
    <3>2. QED
      BY <2>1, <2>2, <3>1, Zenon DEF SymDiff
  <2>3. CASE b # BucketOf(k)
    BY <2>3, Zenon DEF Entries
  <2>4. QED
    BY <2>2, <2>3, Zenon
<1>3. PICK c \in 0 .. L - 1 : c = BucketOf(k)
  BY BucketRange, Zenon
<1>4. Add(t, k, m[k]) = [t EXCEPT !.leaf[c] = SymDiff(@, {e})]
  BY <1>1, <1>3, Zenon DEF Add
<1>5. t.leaf[c] = Entries(m, s \ {k}, c)
  BY Zenon DEF TreeOn
<1>6. Add(t, k, m[k]) =
        [leafCount |-> L,
         leaf |-> [t.leaf EXCEPT ![c] = SymDiff(Entries(m, s \ {k}, c), {e})]]
  BY <1>4, <1>5, Zenon DEF TreeOn
<1>7. [t.leaf EXCEPT ![c] = SymDiff(Entries(m, s \ {k}, c), {e})]
        = [b \in 0 .. L - 1 |-> Entries(m, s, b)]
  BY <1>2, <1>3, Zenon DEF TreeOn
<1>8. QED
  BY <1>6, <1>7, Zenon DEF TreeOn

Pick(s) == CHOOSE x \in s : TRUE

IsFold(m, S, iter) ==
  iter = [s \in SUBSET S |-> IF s = {} THEN New(leaves)
                             ELSE Add(iter[s \ {Pick(s)}], Pick(s), m[Pick(s)])]

LEMMA TreeOfDef ==
  ASSUME NEW m
  PROVE  treeOf(m) = (CHOOSE iter : IsFold(m, Held(m), iter))[Held(m)]
BY Zenon DEF treeOf, FoldSet, MapThenFoldSet, IsFold, Held, Pick

LEMMA FoldExists ==
  ASSUME NEW m, NEW S \in SUBSET Key
  PROVE  IsFold(m, S, [s \in SUBSET S |-> TreeOn(m, s)])
<1> DEFINE iter == [s \in SUBSET S |-> TreeOn(m, s)]
<1>1. ASSUME NEW s \in SUBSET S
      PROVE  TreeOn(m, s) = IF s = {} THEN New(leaves)
                            ELSE Add(iter[s \ {Pick(s)}], Pick(s), m[Pick(s)])
  <2>1. CASE s = {}
    BY <2>1, Zenon DEF TreeOn, Entries, New, L
  <2>2. CASE s # {}
    <3>1. Pick(s) \in s
      BY <2>2, Zenon DEF Pick
    <3>2. iter[s \ {Pick(s)}] = TreeOn(m, s \ {Pick(s)})
      BY Zenon
    <3>3. QED
      BY <2>2, <3>1, <3>2, AddEntry, Zenon
  <2>3. QED
    BY <2>1, <2>2, Zenon
<1>2. QED
  BY <1>1, Zenon DEF IsFold

LEMMA FoldUnique ==
  ASSUME NEW m, NEW S \in SUBSET Key, NEW iter, IsFold(m, S, iter)
  PROVE  iter[S] = TreeOn(m, S)
<1> DEFINE odd == {s \in SUBSET S : iter[s] # TreeOn(m, s)}
<1>1. odd = {}
  <2> SUFFICES ASSUME odd # {}
               PROVE  FALSE
    BY Zenon
  <2>1. IsFiniteSet(S)
    BY AntiEntropyAssumption, FS_Subset, Zenon
  <2>2. PICK s \in odd : \A x \in s : s \ {x} \notin odd
    <3>1. odd \in SUBSET SUBSET S
      BY Zenon
    <3>2. QED
      BY <2>1, <3>1, SmallestSet, Zenon
  <2>3. iter[s] = IF s = {} THEN New(leaves)
                  ELSE Add(iter[s \ {Pick(s)}], Pick(s), m[Pick(s)])
    BY Zenon DEF IsFold
  <2>4. CASE s = {}
    <3>1. TreeOn(m, {}) = New(leaves)
      BY Zenon DEF TreeOn, Entries, New, L
    <3>2. QED
      BY <2>2, <2>3, <2>4, <3>1, Zenon
  <2>5. CASE s # {}
    <3>1. Pick(s) \in s
      BY <2>5, Zenon DEF Pick
    <3>2. iter[s \ {Pick(s)}] = TreeOn(m, s \ {Pick(s)})
      BY <2>2, <3>1, Zenon
    <3>3. Add(TreeOn(m, s \ {Pick(s)}), Pick(s), m[Pick(s)]) = TreeOn(m, s)
      BY <3>1, AddEntry, Zenon
    <3>4. QED
      BY <2>3, <2>5, <3>2, <3>3, Zenon
  <2>6. QED
    BY <2>4, <2>5, Zenon
<1>2. QED
  BY <1>1, Zenon

(* Each leaf has exactly the entries whose keys fall into it. *)
LEMMA TreeShape ==
  ASSUME NEW m
  PROVE  treeOf(m) = TreeOn(m, Held(m))
<1>1. Held(m) \in SUBSET Key
  BY Zenon DEF Held
<1>2. IsFold(m, Held(m), CHOOSE iter : IsFold(m, Held(m), iter))
  BY <1>1, FoldExists, Zenon
<1>3. QED
  BY <1>1, <1>2, FoldUnique, TreeOfDef, Zenon

-----------------------------------------------------------------------------
(* The digests of the nodes *)

leafBytes(m, b) ==
  LET E == Entries(m, Held(m), b) IN IF E = {} THEN <<>> ELSE <<E>>

IsNodes(m, f) ==
  f = [i \in 1 .. 2 * L - 1 |-> IF i >= L THEN leafBytes(m, i - L)
                                ELSE <<f[2 * i] \o f[2 * i + 1]>>]

LEMMA RootDef ==
  ASSUME NEW m
  PROVE  Root(treeOf(m)) = CHOOSE f : IsNodes(m, f)
<1> DEFINE t == treeOf(m)
           Body(f) == f = [i \in 1 .. 2 * L - 1 |->
                        IF i >= L
                        THEN IF t.leaf[i - L] = {} THEN <<>> ELSE <<t.leaf[i - L]>>
                        ELSE <<f[2 * i] \o f[2 * i + 1]>>]
<1>1. t.leafCount = L
  BY TreeShape, Zenon DEF TreeOn
<1>2. Root(t) = CHOOSE f : Body(f)
  BY <1>1, Zenon DEF Root
<1>3. ASSUME NEW f
      PROVE  Body(f) <=> IsNodes(m, f)
  <2>1. ASSUME NEW i \in 1 .. 2 * L - 1, i >= L
        PROVE  leafBytes(m, i - L) =
                 IF t.leaf[i - L] = {} THEN <<>> ELSE <<t.leaf[i - L]>>
    <3>1. i - L \in 0 .. L - 1
      BY <2>1, LeafCount
    <3>2. t.leaf[i - L] = Entries(m, Held(m), i - L)
      BY <3>1, TreeShape, Zenon DEF TreeOn
    <3>3. QED
      BY <3>2, Zenon DEF leafBytes
  <2>2. QED
    BY <2>1, Zenon DEF IsNodes
<1> HIDE DEF Body
<1>4. QED
  BY <1>2, <1>3, Zenon

LEMMA NodesExist ==
  ASSUME NEW m
  PROVE  \E f : IsNodes(m, f)
<1> DEFINE N            == 2 * L - 1
           Step(g, i)   == IF i >= L THEN leafBytes(m, i - L)
                           ELSE <<g[2 * i] \o g[2 * i + 1]>>
           Solves(g, i) == g = [j \in i .. N |-> Step(g, j)]
           good         == {i \in 1 .. N : \E g : Solves(g, i)}
<1>1. ASSUME NEW i \in 1 .. N, NEW h, i = N \/ Solves(h, i + 1)
      PROVE  i \in good
  <2> DEFINE g == [j \in i .. N |-> Step(h, j)]
  <2>1. ASSUME NEW j \in i .. N
        PROVE  Step(h, j) = Step(g, j)
    <3>1. CASE j >= L
      BY <3>1, Zenon
    <3>2. CASE ~(j >= L)
      <4>1. /\ 2 * j \in i + 1 .. N /\ 2 * j \in i .. N
            /\ 2 * j + 1 \in i + 1 .. N /\ 2 * j + 1 \in i .. N /\ i # N
        BY <3>2, LeafCount
      <4>2. h[2 * j] = Step(h, 2 * j) /\ h[2 * j + 1] = Step(h, 2 * j + 1)
        <5> HIDE DEF Step
        <5>1. QED
          BY <1>1, <4>1, Zenon
      <4>3. g[2 * j] = Step(h, 2 * j) /\ g[2 * j + 1] = Step(h, 2 * j + 1)
        <5> HIDE DEF Step
        <5>1. QED
          BY <4>1, Zenon
      <4>4. g[2 * j] = h[2 * j] /\ g[2 * j + 1] = h[2 * j + 1]
        <5> HIDE DEF Step, g
        <5>1. QED
          BY <4>2, <4>3, Zenon
      <4>5. QED
        <5> HIDE DEF g
        <5>1. QED
          BY <3>2, <4>4, Zenon
    <3>3. QED
      BY <3>1, <3>2, Zenon
  <2>2. Solves(g, i)
    <3> HIDE DEF Step
    <3>1. QED
      BY <2>1, Zenon
  <2>3. QED
    BY <2>2, Zenon
<1> HIDE DEF Solves
<1>2. 1 \in good
  <2> DEFINE bad == (1 .. N) \ good
  <2>1. 1 \in 1 .. N /\ N \in Nat /\ bad \in SUBSET (1 .. N)
    BY LeafCount
  <2>2. SUFFICES ASSUME bad # {}
                 PROVE  FALSE
    BY <2>1, Zenon
  <2>3. PICK i \in bad : \A k \in bad : k <= i
    BY <2>1, <2>2, LastNode, Zenon
  <2>4. CASE i = N
    BY <1>1, <2>3, <2>4, Zenon
  <2>5. CASE i # N
    <3>1. i + 1 \in 1 .. N /\ ~(i + 1 <= i)
      BY <2>1, <2>3, <2>5
    <3>2. i + 1 \in good
      BY <2>3, <3>1, Zenon
    <3>3. PICK h : Solves(h, i + 1)
      BY <3>2, Zenon
    <3>4. QED
      BY <1>1, <2>3, <3>3, Zenon
  <2>6. QED
    BY <2>4, <2>5, Zenon
<1>3. PICK g : Solves(g, 1)
  BY <1>2, Zenon
<1>4. QED
  BY <1>3, Zenon DEF IsNodes, Solves

(* The bytes of a node are none or one digest. *)
Short(s) == s = <<>> \/ \E x : s = <<x>>

LEMMA ConcatShort ==
  /\ <<>> \o <<>> = <<>>
  /\ \A x : <<>> \o <<x>> = <<x>> /\ <<x>> \o <<>> = <<x>>
  /\ \A x, y : /\ Len(<<x>> \o <<y>>) = 2
               /\ (<<x>> \o <<y>>)[1] = x /\ (<<x>> \o <<y>>)[2] = y
<1>1. <<>> \o <<>> = <<>>
  OBVIOUS
<1>2. ASSUME NEW x
      PROVE  <<>> \o <<x>> = <<x>> /\ <<x>> \o <<>> = <<x>>
  OBVIOUS
<1>3. ASSUME NEW x, NEW y
      PROVE  /\ Len(<<x>> \o <<y>>) = 2
             /\ (<<x>> \o <<y>>)[1] = x /\ (<<x>> \o <<y>>)[2] = y
  <2>1. <<x>> \in Seq({x, y}) /\ <<y>> \in Seq({x, y})
    OBVIOUS
  <2>2. QED
    BY <2>1
<1>4. QED
  BY <1>1, <1>2, <1>3, Zenon

(* Where two nodes put one after the other are the same bytes, they are    *)
(* pairwise the same, unless a nil node changed places with its sibling.   *)
LEMMA SplitShort ==
  ASSUME NEW s, NEW t, NEW u, NEW w, Short(s), Short(t), Short(u), Short(w),
         s \o t = u \o w
  PROVE  \/ s = u /\ t = w
         \/ s = <<>> /\ w = <<>> /\ t = u
         \/ t = <<>> /\ u = <<>> /\ s = w
<1>1. Len(<<>>) = 0 /\ \A x : Len(<<x>>) = 1
  BY Zenon
<1>2. CASE s = <<>> /\ t = <<>>
  <2>1. Len(u \o w) = 0
    BY <1>1, <1>2, ConcatShort, Zenon
  <2>2. u = <<>> /\ w = <<>>
    BY <1>1, <2>1, ConcatShort DEF Short
  <2>3. QED
    BY <1>2, <2>2, Zenon
<1>3. CASE s = <<>> /\ t # <<>>
  <2>1. PICK x : t = <<x>> /\ u \o w = <<x>>
    BY <1>3, ConcatShort, Zenon DEF Short
  <2>2. Len(u \o w) = 1
    BY <1>1, <2>1, Zenon
  <2>3. u = <<>> \/ w = <<>>
    <3>1. SUFFICES ASSUME u # <<>>, w # <<>>
                   PROVE  FALSE
      BY Zenon
    <3>2. PICK a, b : u = <<a>> /\ w = <<b>>
      BY <3>1, Zenon DEF Short
    <3>3. QED
      BY <2>2, <3>2, ConcatShort
  <2>4. (u = <<>> /\ w = <<x>>) \/ (u = <<x>> /\ w = <<>>)
    <3>1. <<>> \o w = w /\ u \o <<>> = u
      BY ConcatShort, Zenon DEF Short
    <3>2. QED
      BY <1>1, <2>1, <2>2, <2>3, <3>1, Zenon
  <2>5. QED
    BY <1>3, <2>1, <2>4, Zenon
<1>4. CASE s # <<>> /\ t = <<>>
  <2>1. PICK x : s = <<x>> /\ u \o w = <<x>>
    BY <1>4, ConcatShort, Zenon DEF Short
  <2>2. Len(u \o w) = 1
    BY <1>1, <2>1, Zenon
  <2>3. u = <<>> \/ w = <<>>
    <3>1. SUFFICES ASSUME u # <<>>, w # <<>>
                   PROVE  FALSE
      BY Zenon
    <3>2. PICK a, b : u = <<a>> /\ w = <<b>>
      BY <3>1, Zenon DEF Short
    <3>3. QED
      BY <2>2, <3>2, ConcatShort
  <2>4. (u = <<>> /\ w = <<x>>) \/ (u = <<x>> /\ w = <<>>)
    <3>1. <<>> \o w = w /\ u \o <<>> = u
      BY ConcatShort, Zenon DEF Short
    <3>2. QED
      BY <1>1, <2>1, <2>2, <2>3, <3>1, Zenon
  <2>5. QED
    BY <1>4, <2>1, <2>4, Zenon
<1>5. CASE s # <<>> /\ t # <<>>
  <2>1. PICK x : s = <<x>>
    BY <1>5, Zenon DEF Short
  <2>2. PICK y : t = <<y>>
    BY <1>5, Zenon DEF Short
  <2>3. Len(u \o w) = 2
    BY <2>1, <2>2, ConcatShort
  <2>4. u # <<>> /\ w # <<>>
    BY <1>1, <2>3, ConcatShort DEF Short
  <2>5. PICK a : u = <<a>>
    BY <2>4, Zenon DEF Short
  <2>6. PICK b : w = <<b>>
    BY <2>4, Zenon DEF Short
  <2>7. x = a /\ y = b
    BY <2>1, <2>2, <2>5, <2>6, ConcatShort
  <2>8. QED
    BY <2>1, <2>2, <2>5, <2>6, <2>7, Zenon
<1>6. QED
  BY <1>2, <1>3, <1>4, <1>5, Zenon

LEMMA NodesAt ==
  ASSUME NEW m, NEW f, IsNodes(m, f), NEW i \in 1 .. 2 * L - 1
  PROVE  /\ i >= L => f[i] = leafBytes(m, i - L)
         /\ ~(i >= L) => f[i] = <<f[2 * i] \o f[2 * i + 1]>>
         /\ ~(i >= L) => f[i] # <<>>
         /\ Short(f[i])
<1> DEFINE inner == <<f[2 * i] \o f[2 * i + 1]>>
<1>1. f[i] = IF i >= L THEN leafBytes(m, i - L) ELSE inner
  BY Zenon DEF IsNodes
<1>2. Short(leafBytes(m, i - L))
  BY Zenon DEF Short, leafBytes
<1>3. Short(inner) /\ inner # <<>>
  BY Zenon DEF Short
<1> HIDE DEF inner
<1>4. /\ i >= L => f[i] = leafBytes(m, i - L)
      /\ ~(i >= L) => f[i] = inner
      /\ ~(i >= L) => f[i] # <<>>
      /\ Short(f[i])
  BY <1>1, <1>2, <1>3, Zenon
<1>5. QED
  BY <1>4, Zenon DEF inner

(* Two leaves that are not nil and lie at different places have different  *)
(* bytes: an entry names its key, and the key has one bucket.              *)
LEMMA LeavesApart ==
  ASSUME NEW l, NEW r, NEW b, NEW c, b # c, leafBytes(l, b) = leafBytes(r, c)
  PROVE  leafBytes(l, b) = <<>>
<1> DEFINE A == Entries(l, Held(l), b)
           B == Entries(r, Held(r), c)
<1>1. SUFFICES ASSUME leafBytes(l, b) # <<>>
               PROVE  FALSE
  BY Zenon
<1>2. A # {} /\ leafBytes(l, b) = <<A>>
  BY <1>1, Zenon DEF leafBytes
<1>3. leafBytes(r, c) = <<B>>
  BY <1>1, Zenon DEF leafBytes
<1>4. A = B
  <2>1. \A x, y : <<x>> = <<y>> => x = y
    BY Zenon
  <2>2. <<A>> = <<B>>
    BY <1>2, <1>3, Zenon
  <2>3. QED
    BY <2>1, <2>2, Zenon
<1>5. PICK e : e \in A /\ e \in B
  BY <1>2, <1>4, Zenon
<1>6. PICK k \in Held(l) : BucketOf(k) = b /\ e = <<k, l[k]>>
  BY <1>5, Zenon DEF Entries
<1>7. PICK j \in Held(r) : BucketOf(j) = c /\ e = <<j, r[j]>>
  BY <1>5, Zenon DEF Entries
<1>8. QED
  BY <1>6, <1>7

(* Inner nodes with the same digest have the same children. *)
LEMMA InnerEqual ==
  ASSUME NEW l, NEW r, NEW f, NEW g, IsNodes(l, f), IsNodes(r, g),
         NEW i \in 1 .. L - 1, f[i] = g[i]
  PROVE  f[2 * i] = g[2 * i] /\ f[2 * i + 1] = g[2 * i + 1]
<1>1. /\ i \in 1 .. 2 * L - 1 /\ ~(i >= L)
      /\ 2 * i \in 1 .. 2 * L - 1 /\ 2 * i + 1 \in 1 .. 2 * L - 1
  BY LeafCount
<1>2. f[2 * i] \o f[2 * i + 1] = g[2 * i] \o g[2 * i + 1]
  <2>1. <<f[2 * i] \o f[2 * i + 1]>> = <<g[2 * i] \o g[2 * i + 1]>>
    BY <1>1, NodesAt, Zenon
  <2>2. \A x, y : <<x>> = <<y>> => x = y
    BY Zenon
  <2>3. QED
    BY <2>1, <2>2, Zenon
<1>3. /\ Short(f[2 * i]) /\ Short(f[2 * i + 1])
      /\ Short(g[2 * i]) /\ Short(g[2 * i + 1])
  BY <1>1, NodesAt, Zenon
<1>4. \/ f[2 * i] = g[2 * i] /\ f[2 * i + 1] = g[2 * i + 1]
      \/ f[2 * i] = <<>> /\ g[2 * i + 1] = <<>> /\ f[2 * i + 1] = g[2 * i]
      \/ f[2 * i + 1] = <<>> /\ g[2 * i] = <<>> /\ f[2 * i] = g[2 * i + 1]
  <2> DEFINE s == f[2 * i]
             t == f[2 * i + 1]
             u == g[2 * i]
             w == g[2 * i + 1]
  <2>1. s \o t = u \o w /\ Short(s) /\ Short(t) /\ Short(u) /\ Short(w)
    BY <1>2, <1>3, Zenon
  <2> HIDE DEF s, t, u, w
  <2>2. \/ s = u /\ t = w
        \/ s = <<>> /\ w = <<>> /\ t = u
        \/ t = <<>> /\ u = <<>> /\ s = w
    BY <2>1, SplitShort, Zenon
  <2>3. QED
    BY <2>2, Zenon DEF s, t, u, w
<1>5. CASE ~(2 * i >= L)
  BY <1>1, <1>4, <1>5, NodesAt, Zenon
<1>6. CASE 2 * i >= L
  <2> DEFINE b == 2 * i - L
             c == (2 * i + 1) - L
  <2>1. b # c /\ 2 * i + 1 >= L
    BY <1>1, <1>6, LeafCount
  <2>2. /\ f[2 * i] = leafBytes(l, b) /\ f[2 * i + 1] = leafBytes(l, c)
        /\ g[2 * i] = leafBytes(r, b) /\ g[2 * i + 1] = leafBytes(r, c)
    <3>1. f[2 * i] = leafBytes(l, b) /\ g[2 * i] = leafBytes(r, b)
      BY <1>1, <1>6, NodesAt, Zenon
    <3>2. f[2 * i + 1] = leafBytes(l, c) /\ g[2 * i + 1] = leafBytes(r, c)
      <4> DEFINE j == 2 * i + 1
      <4>1. j \in 1 .. 2 * L - 1 /\ j >= L
        BY <1>1, <2>1, Zenon
      <4> HIDE DEF j
      <4>2. f[j] = leafBytes(l, j - L) /\ g[j] = leafBytes(r, j - L)
        BY <4>1, NodesAt, Zenon
      <4>3. QED
        BY <4>2, Zenon DEF j
    <3>3. QED
      BY <3>1, <3>2, Zenon
  <2>3. leafBytes(l, b) = leafBytes(r, c) => leafBytes(l, b) = <<>>
    BY <2>1, LeavesApart, Zenon
  <2>4. leafBytes(l, c) = leafBytes(r, b) => leafBytes(l, c) = <<>>
    BY <2>1, LeavesApart, Zenon
  <2>5. QED
    BY <1>4, <2>2, <2>3, <2>4, Zenon
<1>7. QED
  BY <1>5, <1>6, Zenon

-----------------------------------------------------------------------------
(* The walk into the subtrees that differ *)

IsDiffs(f, g, D) ==
  D = [i \in 1 .. 2 * L - 1 |-> IF f[i] = g[i] THEN {}
                                ELSE IF i >= L THEN {i - L}
                                ELSE D[2 * i] \cup D[2 * i + 1]]

LEMMA CollectDef ==
  ASSUME NEW m, NEW f, NEW g
  PROVE  collect(treeOf(m), f, g) = (CHOOSE D : IsDiffs(f, g, D))[1]
<1>1. treeOf(m).leafCount = L
  BY TreeShape, Zenon DEF TreeOn
<1>2. QED
  BY <1>1, Zenon DEF collect, IsDiffs

LEMMA DiffsExist ==
  ASSUME NEW f, NEW g
  PROVE  \E D : IsDiffs(f, g, D)
<1> DEFINE N            == 2 * L - 1
           Step(h, i)   == IF f[i] = g[i] THEN {}
                           ELSE IF i >= L THEN {i - L}
                           ELSE h[2 * i] \cup h[2 * i + 1]
           Solves(h, i) == h = [j \in i .. N |-> Step(h, j)]
           good         == {i \in 1 .. N : \E h : Solves(h, i)}
<1>1. ASSUME NEW i \in 1 .. N, NEW h, i = N \/ Solves(h, i + 1)
      PROVE  i \in good
  <2> DEFINE D == [j \in i .. N |-> Step(h, j)]
  <2>1. ASSUME NEW j \in i .. N
        PROVE  Step(h, j) = Step(D, j)
    <3>1. CASE j >= L
      BY <3>1, Zenon
    <3>2. CASE ~(j >= L)
      <4>1. /\ 2 * j \in i + 1 .. N /\ 2 * j \in i .. N
            /\ 2 * j + 1 \in i + 1 .. N /\ 2 * j + 1 \in i .. N /\ i # N
        BY <3>2, LeafCount
      <4>2. h[2 * j] = Step(h, 2 * j) /\ h[2 * j + 1] = Step(h, 2 * j + 1)
        <5> HIDE DEF Step
        <5>1. QED
          BY <1>1, <4>1, Zenon
      <4>3. D[2 * j] = Step(h, 2 * j) /\ D[2 * j + 1] = Step(h, 2 * j + 1)
        <5> HIDE DEF Step
        <5>1. QED
          BY <4>1, Zenon
      <4>4. D[2 * j] = h[2 * j] /\ D[2 * j + 1] = h[2 * j + 1]
        <5> HIDE DEF Step, D
        <5>1. QED
          BY <4>2, <4>3, Zenon
      <4>5. QED
        <5> HIDE DEF D
        <5>1. QED
          BY <3>2, <4>4, SMTT(30)
    <3>3. QED
      BY <3>1, <3>2, Zenon
  <2>2. Solves(D, i)
    <3> HIDE DEF Step
    <3>1. QED
      BY <2>1, Zenon
  <2>3. QED
    BY <2>2, Zenon
<1> HIDE DEF Solves
<1>2. 1 \in good
  <2> DEFINE bad == (1 .. N) \ good
  <2>1. 1 \in 1 .. N /\ N \in Nat /\ bad \in SUBSET (1 .. N)
    BY LeafCount
  <2>2. SUFFICES ASSUME bad # {}
                 PROVE  FALSE
    BY <2>1, Zenon
  <2>3. PICK i \in bad : \A k \in bad : k <= i
    BY <2>1, <2>2, LastNode, Zenon
  <2>4. CASE i = N
    BY <1>1, <2>3, <2>4, Zenon
  <2>5. CASE i # N
    <3>1. i + 1 \in 1 .. N /\ ~(i + 1 <= i)
      BY <2>1, <2>3, <2>5
    <3>2. i + 1 \in good
      BY <2>3, <3>1, Zenon
    <3>3. PICK h : Solves(h, i + 1)
      BY <3>2, Zenon
    <3>4. QED
      BY <1>1, <2>3, <3>3, Zenon
  <2>6. QED
    BY <2>4, <2>5, Zenon
<1>3. PICK h : Solves(h, 1)
  BY <1>2, Zenon
<1>4. QED
  BY <1>3, Zenon DEF IsDiffs, Solves

(* Nothing is named but leaves that differ. *)
LEMMA DiffsSound ==
  ASSUME NEW f, NEW g, NEW D, IsDiffs(f, g, D)
  PROVE  \A i \in 1 .. 2 * L - 1 : \A b \in D[i] :
           b \in 0 .. L - 1 /\ f[b + L] # g[b + L]
<1> DEFINE N      == 2 * L - 1
           Fine(b) == b \in 0 .. L - 1 /\ f[b + L] # g[b + L]
           bad    == {i \in 1 .. N : \E b \in D[i] : ~Fine(b)}
<1>1. SUFFICES ASSUME bad # {}
               PROVE  FALSE
  BY Zenon
<1>2. N \in Nat /\ bad \in SUBSET (1 .. N)
  BY LeafCount
<1>3. PICK i \in bad : \A k \in bad : k <= i
  BY <1>1, <1>2, LastNode, Zenon
<1>4. PICK b \in D[i] : ~Fine(b)
  BY <1>3, Zenon
<1>5. D[i] = IF f[i] = g[i] THEN {}
             ELSE IF i >= L THEN {i - L} ELSE D[2 * i] \cup D[2 * i + 1]
  BY <1>3, Zenon DEF IsDiffs
<1>6. f[i] # g[i]
  BY <1>4, <1>5, Zenon
<1>7. CASE i >= L
  <2>1. b = i - L
    BY <1>4, <1>5, <1>6, <1>7, Zenon
  <2>2. b \in 0 .. L - 1 /\ b + L = i
    BY <1>3, <1>7, <2>1, LeafCount
  <2>3. QED
    BY <1>4, <1>6, <2>2, Zenon
<1>8. CASE ~(i >= L)
  <2>1. /\ 2 * i \in 1 .. N /\ ~(2 * i <= i)
        /\ 2 * i + 1 \in 1 .. N /\ ~(2 * i + 1 <= i)
    BY <1>3, <1>8, LeafCount
  <2>2. 2 * i \notin bad /\ 2 * i + 1 \notin bad
    BY <1>3, <2>1, Zenon
  <2>3. b \in D[2 * i] \/ b \in D[2 * i + 1]
    BY <1>4, <1>5, <1>6, <1>8, Zenon
  <2>4. QED
    <3> HIDE DEF Fine
    <3>1. QED
      BY <1>4, <2>1, <2>2, <2>3, Zenon
<1>9. QED
  BY <1>7, <1>8, Zenon

(* Every leaf that differs is: what a leaf differs in, its ancestors do. *)
LEMMA DiffsComplete ==
  ASSUME NEW l, NEW r, NEW f, NEW g, NEW D, IsNodes(l, f), IsNodes(r, g),
         IsDiffs(f, g, D), NEW b \in 0 .. L - 1, f[b + L] # g[b + L]
  PROVE  b \in D[1]
<1> DEFINE N     == 2 * L - 1
           above == {i \in 1 .. N : f[i] # g[i] /\ b \in D[i]}
<1>1. ASSUME NEW i \in 1 .. N
      PROVE  D[i] = IF f[i] = g[i] THEN {}
                    ELSE IF i >= L THEN {i - L} ELSE D[2 * i] \cup D[2 * i + 1]
  BY Zenon DEF IsDiffs
<1>2. b + L \in above
  <2>1. b + L \in 1 .. N /\ b + L >= L /\ (b + L) - L = b
    BY LeafCount
  <2>2. D[b + L] = {(b + L) - L}
    BY <1>1, <2>1, Zenon
  <2>3. QED
    BY <2>1, <2>2, Zenon
<1>3. PICK i \in above : \A j \in above : i <= j
  <2>1. above \in SUBSET Nat /\ above # {}
    BY <1>2
  <2>2. QED
    BY <2>1, LeastNatural, Zenon
<1>4. i = 1
  <2>1. SUFFICES ASSUME i # 1
                 PROVE  FALSE
    BY Zenon
  <2>2. PICK q \in 1 .. L - 1 : i = 2 * q \/ i = 2 * q + 1
    <3>1. i \in 1 .. N
      BY <1>3, Zenon
    <3>2. i \div 2 \in 1 .. L - 1 /\ (i = 2 * (i \div 2) \/ i = 2 * (i \div 2) + 1)
      BY <2>1, <3>1, LeafCount
    <3>3. QED
      BY <3>2, Zenon
  <2>3. q \in 1 .. N /\ ~(q >= L) /\ ~(i <= q)
    BY <2>2, LeafCount
  <2>4. f[q] # g[q]
    BY <1>3, <2>2, InnerEqual
  <2>5. b \in D[q]
    BY <1>1, <1>3, <2>2, <2>3, <2>4, Zenon
  <2>6. QED
    BY <1>3, <2>3, <2>4, <2>5, Zenon
<1>5. QED
  BY <1>3, <1>4, Zenon

LEMMA LeafDiffers ==
  ASSUME NEW l, NEW r, NEW b
  PROVE  leafBytes(l, b) = leafBytes(r, b) <=>
           \A k \in Key : BucketOf(k) = b => l[k] = r[k]
<1> DEFINE A == Entries(l, Held(l), b)
           B == Entries(r, Held(r), b)
<1>1. leafBytes(l, b) = leafBytes(r, b) <=> A = B
  <2>1. \A x, y : <<x>> = <<y>> => x = y
    BY Zenon
  <2>2. \A x : <<x>> # <<>>
    BY Zenon
  <2>3. QED
    BY <2>1, <2>2, Zenon DEF leafBytes
<1>2. \A k \in Key : <<k, l[k]>> \in A <=> (l[k] # None /\ BucketOf(k) = b)
  BY Zenon DEF Entries, Held
<1>3. \A k \in Key : \A x : <<k, x>> \in B <=> (r[k] # None /\ BucketOf(k) = b /\ x = r[k])
  BY Zenon DEF Entries, Held
<1>4. ASSUME A = B, NEW k \in Key, BucketOf(k) = b
      PROVE  l[k] = r[k]
  <2>1. l[k] # None => l[k] = r[k]
    BY <1>2, <1>3, <1>4, Zenon
  <2>2. \A x : <<k, x>> \in A <=> (l[k] # None /\ BucketOf(k) = b /\ x = l[k])
    BY Zenon DEF Entries, Held
  <2>3. r[k] # None => l[k] = r[k]
    BY <1>3, <1>4, <2>2, Zenon
  <2>4. QED
    BY <2>1, <2>3, Zenon
<1>5. ASSUME \A k \in Key : BucketOf(k) = b => l[k] = r[k]
      PROVE  A = B
  <2>1. {j \in Held(l) : BucketOf(j) = b} = {j \in Held(r) : BucketOf(j) = b}
    BY <1>5, Zenon DEF Held
  <2>2. \A j \in {i \in Held(r) : BucketOf(i) = b} : l[j] = r[j]
    BY <1>5, Zenon DEF Held
  <2>3. QED
    BY <2>1, <2>2, Zenon DEF Entries
<1>6. QED
  BY <1>1, <1>4, <1>5, Zenon

(* Diff of the trees of two Ranges. *)
LEMMA DiffExact ==
  ASSUME NEW l, NEW r
  PROVE  Diff(treeOf(l), treeOf(r)) =
           {BucketOf(k) : k \in {j \in Key : l[j] # r[j]}}
<1>1. PICK f : IsNodes(l, f) /\ Root(treeOf(l)) = f
  BY RootDef, NodesExist, Zenon
<1>2. PICK g : IsNodes(r, g) /\ Root(treeOf(r)) = g
  BY RootDef, NodesExist, Zenon
<1>3. PICK D : IsDiffs(f, g, D) /\ collect(treeOf(l), f, g) = D[1]
  BY CollectDef, DiffsExist, Zenon
<1>4. Diff(treeOf(l), treeOf(r)) = D[1]
  BY <1>1, <1>2, <1>3, TreeShape, Zenon DEF Diff, TreeOn
<1>5. ASSUME NEW b \in 0 .. L - 1
      PROVE  f[b + L] = g[b + L] <=> \A k \in Key : BucketOf(k) = b => l[k] = r[k]
  <2>1. b + L \in 1 .. 2 * L - 1 /\ b + L >= L /\ (b + L) - L = b
    BY LeafCount
  <2>2. f[b + L] = leafBytes(l, (b + L) - L) /\ g[b + L] = leafBytes(r, (b + L) - L)
    BY <1>1, <1>2, <2>1, NodesAt, Zenon
  <2>3. QED
    BY <2>1, <2>2, LeafDiffers
<1>6. ASSUME NEW b \in D[1]
      PROVE  \E k \in Key : l[k] # r[k] /\ BucketOf(k) = b
  <2>1. 1 \in 1 .. 2 * L - 1
    BY LeafCount
  <2>2. b \in 0 .. L - 1 /\ f[b + L] # g[b + L]
    BY <1>3, <2>1, DiffsSound, Zenon
  <2>3. QED
    BY <1>5, <2>2, Zenon
<1>7. ASSUME NEW k \in Key, l[k] # r[k]
      PROVE  BucketOf(k) \in D[1]
  <2>1. BucketOf(k) \in 0 .. L - 1
    BY BucketRange, Zenon
  <2>2. f[BucketOf(k) + L] # g[BucketOf(k) + L]
    BY <1>5, <1>7, <2>1, Zenon
  <2>3. QED
    BY <1>1, <1>2, <1>3, <2>1, <2>2, DiffsComplete
<1>8. QED
  BY <1>4, <1>6, <1>7, Zenon

(* Diff names exactly the buckets in which the two Ranges differ. *)
THEOREM DiffFindsAll == Spec => []DiffIsExact
<1>1. DiffIsExact
  BY DiffExact DEF DiffIsExact, BucketOf
<1>2. QED
  BY <1>1, PTL

-----------------------------------------------------------------------------
(* Types: what a node holds for a key is a sibling set, a round has the    *)
(* entries its next step reads, and a sweep began in the past.             *)

Slot == {b \in Blob : b.versions \in SibSet} \cup {None}

StoreType == [Node -> [Key -> Slot]]

Round == [at : {"idle", "local", "rtree", "diff", "rbucket", "apply"},
          peer : Node \cup {None}, left : SUBSET Key, local : [Key -> Slot],
          remote : [Key -> Slot], diffs : SUBSET Nat, entries : [Key -> Slot],
          lost : SUBSET Key]

RoundOK(n, r) ==
  /\ r \in Round
  /\ r.at = "idle" => r = idleRound
  /\ r.at # "idle" => r.peer \in Node \ {n}
  /\ r.at \in {"local", "rtree", "rbucket"} => r.left # {}
  /\ r.at = "apply" => \A k \in r.left : r.entries[k] # None

Sweep == [at : Nat \cup {None}, left : SUBSET Key, expired : SUBSET Key]

SweepOK(s, t) ==
  /\ s \in Sweep
  /\ s.left # {} \/ s.expired # {} => s.at \in Nat /\ s.at <= t

TypeInv ==
  /\ store \in StoreType
  /\ rsets \subseteq [to : Node, key : Key, ver : Version]
  /\ round \in [Node -> Round]
  /\ \A n \in Node : RoundOK(n, round[n])
  /\ sweep \in [Node -> Sweep]
  /\ \A n \in Node : SweepOK(sweep[n], now)
  /\ restarts \in Nat /\ now \in Nat

versionsOf(b) == IF b = None THEN {} ELSE b.versions

At(st, n, k) == versionsOf(st[n][k])

LEMMA StoredIsAt ==
  \A n, k : stored(n, k) = At(store, n, k) /\ stored(n, k)' = At(store', n, k)
BY Zenon DEF stored, At, versionsOf

LEMMA SlotVersions == \A b \in Slot : versionsOf(b) \in SibSet
BY SibSetEmpty, Zenon DEF Slot, versionsOf

LEMMA AtSibSet ==
  ASSUME NEW st \in StoreType, NEW n \in Node, NEW k \in Key
  PROVE  At(st, n, k) \in SibSet
BY SlotVersions, Zenon DEF StoreType, At

LEMMA NoEntriesType == noEntries \in [Key -> Slot]
BY SMTT(30) DEF noEntries, Slot

LEMMA IdleRoundOK == \A n : RoundOK(n, idleRound)
BY NoEntriesType, ZenonT(30) DEF RoundOK, Round, idleRound

LEMMA IdleSweepOK == \A t : SweepOK(idleSweep, t)
BY Zenon DEF SweepOK, Sweep, idleSweep

(* The least of the keys left is one of them. *)
LEMMA MinOf ==
  ASSUME NEW S \in SUBSET Key, S # {}
  PROVE  Min(S) \in S
<1>1. S \in SUBSET Nat
  BY AntiEntropyAssumption, Zenon
<1>2. \E m \in S : \A n \in S : m <= n
  BY <1>1, LeastNatural, Zenon
<1>3. QED
  BY <1>2, Zenon DEF Min

LEMMA EncodeSlot ==
  ASSUME NEW S \in SibSet, NEW b \in Encode(S)
  PROVE  b \in Slot /\ versionsOf(b) = S
<1>1. b.versions = S /\ b \in Blob
  BY SibSetVersions DEF Encode, Blob
<1>2. QED
  BY <1>1, AntiEntropyAssumption, Zenon DEF Slot, versionsOf

LEMMA UpdateOne ==
  ASSUME store \in StoreType, NEW n \in Node, NEW k \in Key, NEW S \in SibSet,
         UpdateReplica(n, k, S)
  PROVE  /\ store' \in StoreType
         /\ At(store', n, k) = S
         /\ \A m \in Node, j \in Key :
              m # n \/ j # k => At(store', m, j) = At(store, m, j)
<1>1. PICK b \in Encode(S) : store' = [store EXCEPT ![n][k] = b]
  BY Zenon DEF UpdateReplica
<1>2. b \in Slot /\ versionsOf(b) = S
  BY <1>1, EncodeSlot, Zenon
<1>3. store' \in StoreType
  BY <1>1, <1>2, Zenon DEF StoreType
<1>4. store'[n][k] = b
  BY <1>1, Zenon DEF StoreType
<1>5. \A m \in Node, j \in Key : m # n \/ j # k => store'[m][j] = store[m][j]
  BY <1>1, Zenon DEF StoreType
<1>6. QED
  BY <1>2, <1>3, <1>4, <1>5, Zenon DEF At

LEMMA ClearOne ==
  ASSUME store \in StoreType, NEW n \in Node, NEW k \in Key,
         store' = [store EXCEPT ![n][k] = None]
  PROVE  /\ store' \in StoreType
         /\ \A m \in Node, j \in Key :
              m # n \/ j # k => At(store', m, j) = At(store, m, j)
<1>1. store' \in StoreType
  BY Zenon DEF StoreType, Slot
<1>2. \A m \in Node, j \in Key : m # n \/ j # k => store'[m][j] = store[m][j]
  BY Zenon DEF StoreType
<1>3. QED
  BY <1>1, <1>2, Zenon DEF At

-----------------------------------------------------------------------------
(* Every step keeps the types *)

LEMMA InitTypes == Init => TypeInv
<1> SUFFICES ASSUME Init
             PROVE  TypeInv
  BY Zenon
<1>1. store \in StoreType
  BY NoEntriesType, Zenon DEF Init, StoreType
<1>2. \A n \in Node : round[n] = idleRound /\ sweep[n] = idleSweep
  BY Zenon DEF Init
<1>3. idleRound \in Round /\ idleSweep \in Sweep
  BY IdleRoundOK, IdleSweepOK, Zenon DEF RoundOK, SweepOK
<1>4. round \in [Node -> Round] /\ sweep \in [Node -> Sweep]
  BY <1>3, Zenon DEF Init
<1>5. \A n \in Node : RoundOK(n, round[n]) /\ SweepOK(sweep[n], now)
  BY <1>2, IdleRoundOK, IdleSweepOK, SMTT(30)
<1>6. QED
  BY <1>1, <1>4, <1>5, Zenon DEF Init, TypeInv

LEMMA MintedVersion ==
  ASSUME TypeInv, NEW n \in Node, NEW k \in Key
  PROVE  mint(n, k) \in Clock
BY AtSibSet, StoredIsAt, MintedClock, SMTT(30) DEF TypeInv, mint

LEMMA PutTypes ==
  ASSUME TypeInv, NEW n \in Node, NEW k \in Key, NEW v \in Version, put(n, k, v)
  PROVE  TypeInv'
<1>1. Reconcile(stored(n, k), v) \in SibSet
  BY AtSibSet, StoredIsAt, SibSetReconcile, SMTT(30) DEF TypeInv
<1>2. store' \in StoreType
  BY <1>1, UpdateOne, SMTT(30) DEF put, TypeInv
<1>3. rsets' \subseteq [to : Node, key : Key, ver : Version]
  <2>1. PICK P \in SUBSET (Node \ {n}) :
          rsets' = rsets \cup {[to |-> p, key |-> k, ver |-> v] : p \in P}
    BY Zenon DEF put
  <2>2. QED
    BY <2>1 DEF TypeInv
<1>4. QED
  BY <1>2, <1>3, Zenon DEF put, TypeInv

LEMMA ClientTypes ==
  ASSUME TypeInv, NEW n \in Node, NEW k \in Key,
         delete(n, k) \/ \E x \in Value : write(n, k, x)
  PROVE  \E v \in Version : put(n, k, v)
<1>1. CASE delete(n, k)
  <2>1. PICK at \in 0 .. now : put(n, k, Tombstone(mint(n, k), at))
    BY <1>1, Zenon DEF delete
  <2>2. Tombstone(mint(n, k), at) \in Version
    BY MintedVersion DEF Tombstone, Version, TypeInv
  <2>3. QED
    BY <2>1, <2>2, Zenon
<1>2. CASE \E x \in Value : write(n, k, x)
  <2>1. PICK x \in Value : write(n, k, x)
    BY <1>2, Zenon
  <2>2. [value |-> x, clock |-> mint(n, k), deleted |-> FALSE, deletedAt |-> 0]
          \in Version
    BY MintedVersion, Zenon DEF Version
  <2>3. QED
    BY <2>1, <2>2, Zenon DEF write
<1>3. QED
  BY <1>1, <1>2, Zenon

LEMMA RsetTypes ==
  ASSUME TypeInv, NEW m \in rsets, rset(m)
  PROVE  TypeInv'
<1>1. m.to \in Node /\ m.key \in Key /\ m.ver \in Version
  BY Zenon DEF TypeInv
<1>2. Reconcile(stored(m.to, m.key), m.ver) \in SibSet
  BY <1>1, AtSibSet, StoredIsAt, SibSetReconcile, Zenon DEF TypeInv
<1>3. store' \in StoreType
  BY <1>1, <1>2, UpdateOne, Zenon DEF rset, TypeInv
<1>4. QED
  BY <1>3, Zenon DEF rset, TypeInv

(* A step of n's round. *)
LEMMA GotoTypes ==
  ASSUME TypeInv, NEW n \in Node, NEW r, RoundOK(n, r), goto(n, r)
  PROVE  /\ round' \in [Node -> Round]
         /\ \A m \in Node : RoundOK(m, round'[m])
         /\ round'[n] = r
         /\ \A m \in Node \ {n} : round'[m] = round[m]
<1>1. r \in Round
  BY Zenon DEF RoundOK
<1>2. round' \in [Node -> Round] /\ round'[n] = r
  BY <1>1, Zenon DEF goto, TypeInv
<1>3. \A m \in Node \ {n} : round'[m] = round[m]
  BY SMTT(30) DEF goto, TypeInv
<1>4. QED
  BY <1>2, <1>3, SMTT(30) DEF TypeInv

LEMMA RangeLocalOK ==
  ASSUME NEW n, NEW r, RoundOK(n, r), r.at = "local", NEW b \in Slot,
         NEW k \in Key, NEW rest \in SUBSET Key
  PROVE  RoundOK(n, [r EXCEPT !.local[k] = b,
                              !.at = IF rest = {} THEN "rtree" ELSE @,
                              !.left = IF rest = {} THEN Key ELSE rest])
<1>1. Key # {}
  BY AntiEntropyAssumption, SMTT(30)
<1>2. QED
  BY <1>1, Zenon DEF RoundOK, Round

LEMMA RtreeOK ==
  ASSUME NEW n, NEW r, RoundOK(n, r), r.at = "rtree", NEW b \in Slot,
         NEW k \in Key, NEW rest \in SUBSET Key
  PROVE  RoundOK(n, [r EXCEPT !.remote[k] = b,
                              !.at = IF rest = {} THEN "diff" ELSE @,
                              !.left = rest])
BY ZenonT(30) DEF RoundOK, Round

LEMMA DiffOK ==
  ASSUME NEW n, NEW r, RoundOK(n, r), r.at = "diff", NEW D \in SUBSET Nat
  PROVE  RoundOK(n, [r EXCEPT !.diffs = D, !.local = noEntries,
                              !.at = IF D = {} THEN "apply" ELSE "rbucket",
                              !.left = IF D = {} THEN {} ELSE Key])
<1>1. Key # {}
  BY AntiEntropyAssumption, SMTT(30)
<1>2. QED
  BY <1>1, NoEntriesType, Zenon DEF RoundOK, Round

LEMMA RbucketOK ==
  ASSUME NEW n, NEW r, RoundOK(n, r), r.at = "rbucket", NEW new \in [Key -> Slot],
         NEW rest \in SUBSET Key
  PROVE  RoundOK(n, [r EXCEPT !.entries = new,
                       !.at = IF rest = {} THEN "apply" ELSE @,
                       !.diffs = IF rest = {} THEN {} ELSE @,
                       !.left = IF rest = {} THEN {j \in Key : new[j] # None} ELSE rest])
BY Zenon DEF RoundOK, Round

LEMMA ApplyOK ==
  ASSUME NEW n, NEW r, RoundOK(n, r), r.at = "apply", NEW k \in Key
  PROVE  RoundOK(n, [r EXCEPT !.left = @ \ {k}, !.entries[k] = None])
BY Zenon DEF RoundOK, Round, Slot

(* The key a Range visits next. *)
LEMMA NextKey ==
  ASSUME TypeInv, NEW n \in Node, round[n].at \in {"local", "rtree", "rbucket"}
  PROVE  /\ Min(round[n].left) \in Key
         /\ round[n].left \ {Min(round[n].left)} \in SUBSET Key
         /\ round[n].peer \in Node \ {n}
         /\ \A m \in Node : store[m][Min(round[n].left)] \in Slot
<1>1. RoundOK(n, round[n])
  BY Zenon DEF TypeInv
<1>2. round[n].left \in SUBSET Key /\ round[n].left # {} /\ round[n].peer \in Node \ {n}
  BY <1>1, Zenon DEF RoundOK, Round
<1>3. Min(round[n].left) \in round[n].left
  BY <1>2, MinOf, Zenon
<1>4. QED
  BY <1>2, <1>3, Zenon DEF TypeInv, StoreType

LEMMA SyncStartTypes ==
  ASSUME TypeInv, NEW n \in Node, NEW p \in Node, syncStart(n, p)
  PROVE  TypeInv'
<1> DEFINE r == [idleRound EXCEPT !.at = "local", !.peer = p, !.left = Key]
<1>1. RoundOK(n, r)
  BY NoEntriesType, AntiEntropyAssumption, ZenonT(30) DEF syncStart, RoundOK, Round, idleRound
<1>2. goto(n, r)
  BY Zenon DEF syncStart
<1> HIDE DEF r
<1>3. round' \in [Node -> Round] /\ \A m \in Node : RoundOK(m, round'[m])
  BY <1>1, <1>2, GotoTypes, Zenon
<1>4. QED
  BY <1>3, Zenon DEF syncStart, TypeInv

LEMMA RangeLocalTypes ==
  ASSUME TypeInv, NEW n \in Node, rangeLocal(n)
  PROVE  TypeInv'
<1> DEFINE k    == Min(round[n].left)
           rest == round[n].left \ {k}
           r    == [round[n] EXCEPT !.local[k] = store[n][k],
                                    !.at = IF rest = {} THEN "rtree" ELSE @,
                                    !.left = IF rest = {} THEN Key ELSE rest]
<1>1. goto(n, r) /\ round[n].at = "local" /\ RoundOK(n, round[n])
  BY Zenon DEF rangeLocal, TypeInv
<1>2. k \in Key /\ rest \in SUBSET Key /\ store[n][k] \in Slot
  BY <1>1, NextKey, Zenon
<1> HIDE DEF k, rest
<1>3. RoundOK(n, r)
  BY <1>1, <1>2, RangeLocalOK, Zenon
<1> HIDE DEF r
<1>4. round' \in [Node -> Round] /\ \A m \in Node : RoundOK(m, round'[m])
  BY <1>1, <1>3, GotoTypes, Zenon
<1>5. QED
  BY <1>4, Zenon DEF rangeLocal, TypeInv

LEMMA RtreeTypes ==
  ASSUME TypeInv, NEW n \in Node, rtree(n)
  PROVE  TypeInv'
<1> DEFINE k    == Min(round[n].left)
           rest == round[n].left \ {k}
           r    == [round[n] EXCEPT !.remote[k] = store[round[n].peer][k],
                                    !.at = IF rest = {} THEN "diff" ELSE @,
                                    !.left = rest]
<1>1. goto(n, r) /\ round[n].at = "rtree" /\ RoundOK(n, round[n])
  BY Zenon DEF rtree, TypeInv
<1>2. k \in Key /\ rest \in SUBSET Key /\ store[round[n].peer][k] \in Slot
  BY <1>1, NextKey, SMTT(30)
<1> HIDE DEF k, rest
<1>3. RoundOK(n, r)
  BY <1>1, <1>2, RtreeOK, Zenon
<1> HIDE DEF r
<1>4. round' \in [Node -> Round] /\ \A m \in Node : RoundOK(m, round'[m])
  BY <1>1, <1>3, GotoTypes, Zenon
<1>5. QED
  BY <1>4, Zenon DEF rtree, TypeInv

LEMMA DiffTypes ==
  ASSUME TypeInv, NEW n \in Node, diff(n)
  PROVE  TypeInv'
<1> DEFINE D == Diff(treeOf(round[n].local), treeOf(round[n].remote))
           r == [round[n] EXCEPT !.diffs = D, !.local = noEntries,
                                 !.at = IF D = {} THEN "apply" ELSE "rbucket",
                                 !.left = IF D = {} THEN {} ELSE Key]
<1>1. goto(n, r) /\ round[n].at = "diff" /\ RoundOK(n, round[n])
  BY Zenon DEF diff, TypeInv
<1>2. D \in SUBSET Nat
  BY DiffExact, BucketRange, SMTT(30)
<1> HIDE DEF D
<1>3. RoundOK(n, r)
  BY <1>1, <1>2, DiffOK, Zenon
<1> HIDE DEF r
<1>4. round' \in [Node -> Round] /\ \A m \in Node : RoundOK(m, round'[m])
  BY <1>1, <1>3, GotoTypes, Zenon
<1>5. QED
  BY <1>4, Zenon DEF diff, TypeInv

LEMMA RbucketTypes ==
  ASSUME TypeInv, NEW n \in Node, rbucket(n)
  PROVE  TypeInv'
<1> DEFINE k    == Min(round[n].left)
           rest == round[n].left \ {k}
           new  == [round[n].entries EXCEPT ![k] =
                      IF wanted(n, k) THEN store[round[n].peer][k] ELSE None]
           r    == [round[n] EXCEPT !.entries = new,
                      !.at = IF rest = {} THEN "apply" ELSE @,
                      !.diffs = IF rest = {} THEN {} ELSE @,
                      !.left = IF rest = {} THEN {j \in Key : new[j] # None} ELSE rest]
<1>1. goto(n, r) /\ round[n].at = "rbucket" /\ RoundOK(n, round[n])
  BY Zenon DEF rbucket, TypeInv
<1>2. k \in Key /\ rest \in SUBSET Key /\ store[round[n].peer][k] \in Slot
  BY <1>1, NextKey, SMTT(30)
<1> HIDE DEF k, rest
<1>3. new \in [Key -> Slot]
  BY <1>1, <1>2, SMTT(30) DEF RoundOK, Round, Slot
<1> HIDE DEF new
<1>4. RoundOK(n, r)
  BY <1>1, <1>2, <1>3, RbucketOK, ZenonT(30)
<1> HIDE DEF r
<1>5. round' \in [Node -> Round] /\ \A m \in Node : RoundOK(m, round'[m])
  BY <1>1, <1>4, GotoTypes, SMTT(30)
<1>6. QED
  BY <1>5, SMTT(30) DEF rbucket, TypeInv

(* What apply stores. *)
LEMMA ApplyStores ==
  ASSUME TypeInv, NEW n \in Node, NEW k \in Key, apply(n, k)
  PROVE  /\ k \in round[n].left /\ round[n].entries[k] \in Slot
         /\ versionsOf(round[n].entries[k]) \in SibSet
         /\ round[n].entries[k].versions = versionsOf(round[n].entries[k])
         /\ store' \in StoreType
         /\ At(store', n, k) = ReconcileAll(At(store, n, k), versionsOf(round[n].entries[k]))
         /\ \A m \in Node, j \in Key :
              m # n \/ j # k => At(store', m, j) = At(store, m, j)
<1>1. RoundOK(n, round[n]) /\ round[n].at = "apply" /\ k \in round[n].left
  BY Zenon DEF apply, TypeInv
<1>2. round[n].entries[k] \in Slot /\ round[n].entries[k] # None
  BY <1>1, Zenon DEF RoundOK, Round
<1>3. versionsOf(round[n].entries[k]) \in SibSet
  BY <1>2, SlotVersions, Zenon
<1>4. round[n].entries[k].versions = versionsOf(round[n].entries[k])
  BY <1>2, Zenon DEF versionsOf
<1> DEFINE S == ReconcileAll(At(store, n, k), versionsOf(round[n].entries[k]))
<1>5. S \in SibSet /\ UpdateReplica(n, k, S)
  BY <1>3, <1>4, AtSibSet, StoredIsAt, SibSetReconcileAll, SMTT(30) DEF apply, TypeInv
<1> HIDE DEF S
<1>6. /\ store' \in StoreType
      /\ At(store', n, k) = S
      /\ \A m \in Node, j \in Key :
           m # n \/ j # k => At(store', m, j) = At(store, m, j)
  BY <1>5, UpdateOne, Zenon DEF TypeInv
<1>7. QED
  BY <1>1, <1>2, <1>3, <1>4, <1>6 DEF S

LEMMA ApplyTypes ==
  ASSUME TypeInv, NEW n \in Node, NEW k \in Key, apply(n, k)
  PROVE  TypeInv'
<1> DEFINE r == [round[n] EXCEPT !.left = @ \ {k}, !.entries[k] = None]
<1>1. goto(n, r) /\ round[n].at = "apply" /\ RoundOK(n, round[n])
  BY SMTT(30) DEF apply, TypeInv
<1>2. RoundOK(n, r)
  BY <1>1, ApplyOK, Zenon
<1> HIDE DEF r
<1>3. round' \in [Node -> Round] /\ \A m \in Node : RoundOK(m, round'[m])
  BY <1>1, <1>2, GotoTypes, SMTT(30)
<1>4. store' \in StoreType
  BY ApplyStores, Zenon
<1>5. QED
  BY <1>3, <1>4, Zenon DEF apply, TypeInv

LEMMA SyncOverTypes ==
  ASSUME TypeInv, NEW n \in Node, syncEnd(n) \/ syncFailed(n)
  PROVE  TypeInv'
<1>1. goto(n, idleRound)
  BY Zenon DEF syncEnd, syncFailed
<1>2. round' \in [Node -> Round] /\ \A m \in Node : RoundOK(m, round'[m])
  BY <1>1, IdleRoundOK, GotoTypes, Zenon
<1>3. QED
  BY <1>2, Zenon DEF syncEnd, syncFailed, TypeInv

(* Rounds at or with n note the keys, the others go on as they were. *)
LEMMA NotNoted ==
  ASSUME TypeInv, NEW n \in Node, NEW keys \in SUBSET Key, NEW m \in Node,
         round[m].at = "idle" \/ ~(m = n \/ round[m].peer = n)
  PROVE  noteLoss(n, keys)[m] = round[m]
<1>1. CASE round[m].at = "idle"
  <2>1. round[m] = idleRound
    BY <1>1, Zenon DEF TypeInv, RoundOK
  <2>2. [idleRound EXCEPT !.lost = {}] = idleRound
    BY DEF idleRound
  <2>3. QED
    BY <1>1, <2>1, <2>2, SMTT(30) DEF noteLoss
<1>2. CASE ~(m = n \/ round[m].peer = n)
  BY <1>2, Zenon DEF noteLoss
<1>3. QED
  BY <1>1, <1>2, Zenon

LEMMA Noted ==
  ASSUME TypeInv, NEW n \in Node, NEW keys \in SUBSET Key, NEW m \in Node,
         round[m].at # "idle", m = n \/ round[m].peer = n
  PROVE  noteLoss(n, keys)[m] = [round[m] EXCEPT !.lost = round[m].lost \cup keys]
BY Zenon DEF noteLoss

LEMMA NoteLossTypes ==
  ASSUME TypeInv, NEW n \in Node, NEW keys \in SUBSET Key
  PROVE  /\ noteLoss(n, keys) \in [Node -> Round]
         /\ \A m \in Node : RoundOK(m, noteLoss(n, keys)[m])
<1> DEFINE q == noteLoss(n, keys)
<1>1. ASSUME NEW m \in Node
      PROVE  RoundOK(m, q[m])
  <2>1. RoundOK(m, round[m])
    BY Zenon DEF TypeInv
  <2>2. CASE round[m].at # "idle" /\ (m = n \/ round[m].peer = n)
    <3>1. RoundOK(m, [round[m] EXCEPT !.lost = round[m].lost \cup keys])
      BY <2>1, <2>2, Zenon DEF RoundOK, Round
    <3>2. QED
      BY <2>2, <3>1, Noted, Zenon
  <2>3. CASE round[m].at = "idle" \/ ~(m = n \/ round[m].peer = n)
    BY <2>1, <2>3, NotNoted
  <2>4. QED
    BY <2>2, <2>3, Zenon
<1>2. \A m \in Node : q[m] \in Round
  BY <1>1, Zenon DEF RoundOK
<1>3. q \in [Node -> Round]
  BY <1>2, Zenon DEF noteLoss
<1>4. QED
  BY <1>1, <1>3, Zenon

LEMMA SweptOK ==
  ASSUME NEW t, NEW s, SweepOK(s, t)
  PROVE  SweepOK(swept(s), t)
BY IdleSweepOK, Zenon DEF swept

(* A step of n's sweep. *)
LEMMA SweepTo ==
  ASSUME TypeInv, NEW n \in Node, NEW s, SweepOK(s, now),
         sweep' = [sweep EXCEPT ![n] = s]
  PROVE  sweep' \in [Node -> Sweep] /\ \A m \in Node : SweepOK(sweep'[m], now)
<1>1. s \in Sweep
  BY SMTT(30) DEF SweepOK
<1>2. QED
  BY <1>1, Zenon DEF TypeInv

LEMMA SweepStartTypes ==
  ASSUME TypeInv, NEW n \in Node, sweepStart(n)
  PROVE  TypeInv'
<1> DEFINE s == [at |-> now, left |-> Key, expired |-> {}]
<1>1. SweepOK(s, now) /\ sweep' = [sweep EXCEPT ![n] = s]
  BY DEF sweepStart, SweepOK, Sweep, TypeInv
<1> HIDE DEF s
<1>2. sweep' \in [Node -> Sweep] /\ \A m \in Node : SweepOK(sweep'[m], now)
  BY <1>1, SweepTo, Zenon
<1>3. QED
  BY <1>2, Zenon DEF sweepStart, TypeInv

LEMMA SweepScanTypes ==
  ASSUME TypeInv, NEW n \in Node, sweepScan(n)
  PROVE  TypeInv'
<1> DEFINE k   == Min(sweep[n].left)
           hit == reapable(stored(n, k), sweep[n].at, Grace)
           s   == [sweep[n] EXCEPT !.left = @ \ {k},
                                   !.expired = IF hit THEN @ \cup {k} ELSE @]
<1>1. SweepOK(sweep[n], now) /\ sweep[n].left # {}
  BY Zenon DEF sweepScan, TypeInv
<1>2. sweep' = [sweep EXCEPT ![n] = swept(s)]
  BY Zenon DEF sweepScan
<1>3. k \in Key
  BY <1>1, MinOf DEF SweepOK, Sweep
<1> HIDE DEF k, hit
<1>4. SweepOK(s, now)
  BY <1>1, <1>3, Zenon DEF SweepOK, Sweep
<1> HIDE DEF s
<1>5. SweepOK(swept(s), now)
  BY <1>4, SweptOK, Zenon
<1>6. sweep' \in [Node -> Sweep] /\ \A m \in Node : SweepOK(sweep'[m], now)
  BY <1>2, <1>5, SweepTo, Zenon
<1>7. QED
  BY <1>6, Zenon DEF sweepScan, TypeInv

(* What a reaping step does: the key goes only if it is reapable still. *)
LEMMA ReapStep ==
  ASSUME TypeInv, NEW n \in Node, sweepReap(n)
  PROVE  \E k \in Key :
           /\ \/ UNCHANGED <<store, round>>
              \/ /\ reapable(stored(n, k), sweep[n].at, Grace)
                 /\ store' = [store EXCEPT ![n][k] = None]
                 /\ round' = noteLoss(n, {k})
           /\ sweep[n].at \in Nat /\ sweep[n].at <= now
           /\ sweep' = [sweep EXCEPT ![n] = swept([sweep[n] EXCEPT !.expired = @ \ {k}])]
<1> DEFINE k == Min(sweep[n].expired)
<1>1. SweepOK(sweep[n], now) /\ sweep[n].expired # {}
  BY Zenon DEF sweepReap, TypeInv
<1>2. k \in Key /\ sweep[n].at \in Nat /\ sweep[n].at <= now
  BY <1>1, MinOf, Zenon DEF SweepOK, Sweep
<1>3. /\ IF reapable(stored(n, k), sweep[n].at, Grace)
         THEN store' = [store EXCEPT ![n][k] = None] /\ round' = noteLoss(n, {k})
         ELSE UNCHANGED <<store, round>>
      /\ sweep' = [sweep EXCEPT ![n] = swept([sweep[n] EXCEPT !.expired = @ \ {k}])]
  BY Zenon DEF sweepReap
<1> HIDE DEF k
<1>4. QED
  BY <1>2, <1>3, Zenon

LEMMA SweepReapTypes ==
  ASSUME TypeInv, NEW n \in Node, sweepReap(n)
  PROVE  TypeInv'
<1>1. PICK k \in Key :
        /\ \/ UNCHANGED <<store, round>>
           \/ /\ reapable(stored(n, k), sweep[n].at, Grace)
              /\ store' = [store EXCEPT ![n][k] = None]
              /\ round' = noteLoss(n, {k})
        /\ sweep' = [sweep EXCEPT ![n] = swept([sweep[n] EXCEPT !.expired = @ \ {k}])]
  BY ReapStep, Zenon
<1>2. store' \in StoreType
  BY <1>1, ClearOne, Zenon DEF TypeInv
<1>3. round' \in [Node -> Round] /\ \A m \in Node : RoundOK(m, round'[m])
  <2>1. {k} \in SUBSET Key
    BY Zenon
  <2>2. CASE UNCHANGED <<store, round>>
    BY <2>2, Zenon DEF TypeInv
  <2>3. CASE round' = noteLoss(n, {k})
    BY <2>1, <2>3, NoteLossTypes, Zenon
  <2>4. QED
    BY <1>1, <2>2, <2>3, Zenon
<1> DEFINE s == [sweep[n] EXCEPT !.expired = @ \ {k}]
<1>4. SweepOK(s, now)
  BY Zenon DEF SweepOK, Sweep, TypeInv
<1> HIDE DEF s
<1>5. SweepOK(swept(s), now)
  BY <1>4, SweptOK, Zenon
<1>6. sweep' \in [Node -> Sweep] /\ \A m \in Node : SweepOK(sweep'[m], now)
  BY <1>1, <1>5, SweepTo, Zenon DEF s
<1>7. QED
  BY <1>2, <1>3, <1>6, Zenon DEF sweepReap, TypeInv

LEMMA RestartTypes ==
  ASSUME TypeInv, NEW n \in Node, restart(n)
  PROVE  /\ TypeInv'
         /\ round'[n] = idleRound
         /\ \A m \in Node \ {n} :
              /\ round'[m] = noteLoss(n, Key)[m]
              /\ \A k \in Key : At(store', m, k) = At(store, m, k)
<1> DEFINE q == noteLoss(n, Key)
<1>1. q \in [Node -> Round] /\ \A m \in Node : RoundOK(m, q[m])
  BY NoteLossTypes, Zenon
<1>2. round' = [q EXCEPT ![n] = idleRound]
  BY Zenon DEF restart
<1> HIDE DEF q
<1>3. idleRound \in Round /\ RoundOK(n, idleRound)
  BY IdleRoundOK, Zenon DEF RoundOK
<1>4. /\ round' \in [Node -> Round] /\ round'[n] = idleRound
      /\ \A m \in Node \ {n} : round'[m] = q[m]
  BY <1>1, <1>2, <1>3
<1>5. \A m \in Node : RoundOK(m, round'[m])
  BY <1>1, <1>3, <1>4, SMTT(30)
<1>6. store' \in StoreType /\ \A m \in Node \ {n} : store'[m] = store[m]
  BY NoEntriesType, Zenon DEF restart, TypeInv, StoreType
<1>7. SweepOK(idleSweep, now) /\ sweep' = [sweep EXCEPT ![n] = idleSweep]
  BY IdleSweepOK, Zenon DEF restart
<1>8. sweep' \in [Node -> Sweep] /\ \A m \in Node : SweepOK(sweep'[m], now)
  BY <1>7, SweepTo, Zenon
<1>9. TypeInv'
  BY <1>4, <1>5, <1>6, <1>8 DEF restart, TypeInv
<1>10. QED
  BY <1>4, <1>6, <1>9, Zenon DEF q, At

LEMMA TickTypes ==
  ASSUME TypeInv, Tick
  PROVE  TypeInv'
<1>1. ASSUME NEW n \in Node
      PROVE  SweepOK(sweep[n], now + 1)
  BY DEF SweepOK, TypeInv
<1>2. QED
  BY <1>1 DEF Tick, TypeInv

LEMMA SyncStepTypes ==
  ASSUME TypeInv, NEW n \in Node, SyncStep(n) \/ syncFailed(n)
  PROVE  TypeInv'
BY SyncStartTypes, RangeLocalTypes, RtreeTypes, DiffTypes, RbucketTypes,
   ApplyTypes, SyncOverTypes, SMTT(30) DEF SyncStep

LEMMA NextTypes == TypeInv /\ [Next]_vars => TypeInv'
<1> SUFFICES ASSUME TypeInv, [Next]_vars
             PROVE  TypeInv'
  BY Zenon
<1>1. CASE \E n \in Node, k \in Key : delete(n, k) \/ \E x \in Value : write(n, k, x)
  <2>1. PICK n \in Node, k \in Key : delete(n, k) \/ \E x \in Value : write(n, k, x)
    BY <1>1, Zenon
  <2>2. PICK v \in Version : put(n, k, v)
    BY <2>1, ClientTypes
  <2>3. QED
    BY <2>2, PutTypes, Zenon
<1>2. CASE \E m \in rsets : rset(m)
  BY <1>2, RsetTypes, Zenon
<1>3. CASE \E n \in SyncNode : SyncStep(n) \/ syncFailed(n)
  BY <1>3, SyncStepTypes, AntiEntropyAssumption
<1>4. CASE \E n \in CollectNode : sweepStart(n) \/ sweepScan(n) \/ sweepReap(n)
  BY <1>4, SweepStartTypes, SweepScanTypes, SweepReapTypes, AntiEntropyAssumption, SMTT(30)
<1>5. CASE \E n \in RestartNode : restart(n)
  BY <1>5, RestartTypes, AntiEntropyAssumption, Zenon
<1>6. CASE Tick
  BY <1>6, TickTypes
<1>7. CASE UNCHANGED vars
  BY <1>7, Zenon DEF vars, TypeInv
<1>8. QED
  BY <1>1, <1>2, <1>3, <1>4, <1>5, <1>6, <1>7, SMTT(30) DEF Next

LEMMA TypesStay == Spec => []TypeInv
<1>1. Init => TypeInv
  BY InitTypes, Zenon
<1>2. TypeInv /\ [Next]_vars => TypeInv'
  BY NextTypes, Zenon
<1>3. QED
  BY <1>1, <1>2, PTL DEF Spec

-----------------------------------------------------------------------------
(* What a node holds for a key is covered by what it holds after a step,   *)
(* unless the node restarted or its sweep reaped the key.                  *)

CoveredBy(S, T) == \A v \in S : Covers(T, v)

LEMMA CoveredBySelf == \A S \in SibSet : CoveredBy(S, S)
BY SibSetVersions, LeqReflexive, Zenon DEF CoveredBy, Covers, Version

LEMMA CoveredByTransitive ==
  ASSUME NEW S \in SibSet, NEW T \in SibSet, NEW U \in SibSet,
         CoveredBy(S, T), CoveredBy(T, U)
  PROVE  CoveredBy(S, U)
<1> SUFFICES ASSUME NEW v \in S
             PROVE  Covers(U, v)
  BY Zenon DEF CoveredBy
<1>1. PICK w \in T : Leq(v.clock, w.clock)
  BY Zenon DEF CoveredBy, Covers
<1>2. PICK x \in U : Leq(w.clock, x.clock)
  BY Zenon DEF CoveredBy, Covers
<1>3. v.clock \in Clock /\ w.clock \in Clock /\ x.clock \in Clock
  BY SibSetVersions DEF Version
<1>4. Leq(v.clock, x.clock)
  BY <1>1, <1>2, <1>3, LeqTransitive, SMTT(30)
<1>5. QED
  BY <1>4, Zenon DEF Covers

(* Folding a version, or a sibling set, into a set covers all of them. *)
LEMMA ReconcileGrows ==
  ASSUME NEW S \in SibSet, NEW v \in Version
  PROVE  CoveredBy(S, Reconcile(S, v))
BY SibSetVersions, ReconcileCovers, Zenon DEF CoveredBy

LEMMA ReconcileAllGrows ==
  ASSUME NEW S \in SibSet, NEW T \in SibSet
  PROVE  CoveredBy(S, ReconcileAll(S, T)) /\ CoveredBy(T, ReconcileAll(S, T))
<1>1. /\ S \in SUBSET Version /\ Siblings(S)
      /\ T \in SUBSET Version /\ Siblings(T)
  BY Zenon DEF SibSet
<1>2. \A w \in S \cup T : Covers(ReconcileAll(S, T), w)
  BY <1>1, ReconcileAllCovers, Zenon
<1>3. QED
  BY <1>2, Zenon DEF CoveredBy

Grows(n, k) == CoveredBy(At(store, n, k), At(store', n, k))

LEMMA SameGrows ==
  ASSUME TypeInv, NEW n \in Node, NEW k \in Key, At(store', n, k) = At(store, n, k)
  PROVE  Grows(n, k)
BY AtSibSet, CoveredBySelf, Zenon DEF Grows, TypeInv

LEMMA PutGrows ==
  ASSUME TypeInv, NEW n \in Node, NEW k \in Key, NEW v \in Version,
         UpdateReplica(n, k, Reconcile(stored(n, k), v))
  PROVE  \A m \in Node, j \in Key : Grows(m, j)
<1>1. At(store, n, k) \in SibSet /\ stored(n, k) = At(store, n, k)
  BY AtSibSet, StoredIsAt, Zenon DEF TypeInv
<1> DEFINE S == Reconcile(At(store, n, k), v)
<1>2. S \in SibSet /\ UpdateReplica(n, k, S) /\ CoveredBy(At(store, n, k), S)
  BY <1>1, SibSetReconcile, ReconcileGrows, SMTT(30)
<1> HIDE DEF S
<1>3. /\ At(store', n, k) = S
      /\ \A m \in Node, j \in Key :
           m # n \/ j # k => At(store', m, j) = At(store, m, j)
  BY <1>2, UpdateOne DEF TypeInv
<1>4. Grows(n, k)
  BY <1>2, <1>3, Zenon DEF Grows
<1>5. QED
  BY <1>3, <1>4, SameGrows, SMTT(30)

LEMMA RsetGrows ==
  ASSUME TypeInv, NEW m \in rsets, rset(m)
  PROVE  \A n \in Node, k \in Key : Grows(n, k)
<1>1. m.to \in Node /\ m.key \in Key /\ m.ver \in Version
  BY Zenon DEF TypeInv
<1>2. QED
  BY <1>1, PutGrows DEF rset

LEMMA ApplyGrows ==
  ASSUME TypeInv, NEW n \in Node, NEW k \in Key, apply(n, k)
  PROVE  /\ \A m \in Node, j \in Key : Grows(m, j)
         /\ CoveredBy(versionsOf(round[n].entries[k]), At(store', n, k))
<1>1. At(store, n, k) \in SibSet
  BY AtSibSet, SMTT(30) DEF TypeInv
<1>2. /\ CoveredBy(At(store, n, k), At(store', n, k))
      /\ CoveredBy(versionsOf(round[n].entries[k]), At(store', n, k))
  BY <1>1, ApplyStores, ReconcileAllGrows, SMTT(30)
<1>3. \A m \in Node, j \in Key : Grows(m, j)
  BY <1>2, ApplyStores, SameGrows DEF Grows
<1>4. QED
  BY <1>2, <1>3

LEMMA StoreStays ==
  ASSUME TypeInv, store' = store
  PROVE  \A n \in Node, k \in Key : Grows(n, k)
BY SameGrows, SMTT(30)

LEMMA SyncStepGrows ==
  ASSUME TypeInv, NEW n \in Node, SyncStep(n) \/ syncFailed(n)
  PROVE  \A m \in Node, j \in Key : Grows(m, j)
<1>1. CASE \E k \in Key : apply(n, k)
  BY <1>1, ApplyGrows, Zenon
<1>2. CASE store' = store
  BY <1>2, StoreStays, Zenon
<1>3. QED
  BY <1>1, <1>2, Zenon DEF SyncStep, syncStart, rangeLocal, rtree, diff, rbucket,
                    syncEnd, syncFailed

Aged(n, k) ==
  Live(stored(n, k)) = {} /\ \A v \in stored(n, k) : now - v.deletedAt >= Grace

LEMMA ReapGrows ==
  ASSUME TypeInv, NEW n \in Node, sweepReap(n), NEW m \in Node, NEW j \in Key
  PROVE  Grows(m, j) \/ Aged(m, j)
<1>1. PICK k \in Key :
        /\ \/ UNCHANGED <<store, round>>
           \/ /\ reapable(stored(n, k), sweep[n].at, Grace)
              /\ store' = [store EXCEPT ![n][k] = None]
              /\ round' = noteLoss(n, {k})
        /\ sweep[n].at \in Nat /\ sweep[n].at <= now
  BY ReapStep, Zenon
<1>2. CASE UNCHANGED <<store, round>>
  BY <1>2, StoreStays
<1>3. CASE /\ reapable(stored(n, k), sweep[n].at, Grace)
           /\ store' = [store EXCEPT ![n][k] = None]
  <2>1. CASE m # n \/ j # k
    <3>1. At(store', m, j) = At(store, m, j)
      BY <1>3, <2>1, ClearOne, ZenonT(30) DEF TypeInv
    <3>2. QED
      BY <3>1, SameGrows
  <2>2. CASE m = n /\ j = k
    <3>1. \A v \in stored(n, k) : v.deletedAt \in Nat
      BY AtSibSet, StoredIsAt, SibSetVersions DEF TypeInv, Version
    <3>2. \A v \in stored(n, k) : now - v.deletedAt >= Grace
      BY <1>1, <1>3, <3>1, AntiEntropyAssumption, SMTT(30) DEF reapable, TypeInv
    <3>3. QED
      BY <1>3, <2>2, <3>2 DEF reapable, Aged
  <2>3. QED
    BY <2>1, <2>2
<1>4. QED
  BY <1>1, <1>2, <1>3, Zenon

LEMMA NextGrows ==
  ASSUME TypeInv, [Next]_vars, restarts' = restarts,
         NEW n \in Node, NEW k \in Key
  PROVE  Grows(n, k) \/ Aged(n, k)
<1>1. CASE \E m \in Node, j \in Key : delete(m, j) \/ \E x \in Value : write(m, j, x)
  <2>1. PICK m \in Node, j \in Key : delete(m, j) \/ \E x \in Value : write(m, j, x)
    BY <1>1, Zenon
  <2>2. PICK v \in Version : put(m, j, v)
    BY <2>1, ClientTypes, Zenon
  <2>3. QED
    BY <2>2, PutGrows, Zenon DEF put
<1>2. CASE \E m \in rsets : rset(m)
  BY <1>2, RsetGrows
<1>3. CASE \E m \in SyncNode : SyncStep(m) \/ syncFailed(m)
  BY <1>3, SyncStepGrows, AntiEntropyAssumption
<1>4. CASE \E m \in CollectNode : sweepStart(m) \/ sweepScan(m) \/ sweepReap(m)
  <2>1. PICK m \in Node : sweepStart(m) \/ sweepScan(m) \/ sweepReap(m)
    BY <1>4, AntiEntropyAssumption, Zenon
  <2>2. CASE sweepReap(m)
    BY <2>2, ReapGrows
  <2>3. CASE sweepStart(m) \/ sweepScan(m)
    BY <2>3, StoreStays, SMTT(30) DEF sweepStart, sweepScan
  <2>4. QED
    BY <2>1, <2>2, <2>3, SMTT(30)
<1>5. CASE \E m \in RestartNode : restart(m)
  BY <1>5 DEF restart, TypeInv
<1>6. CASE Tick
  BY <1>6, StoreStays, Zenon DEF Tick
<1>7. CASE UNCHANGED vars
  BY <1>7, StoreStays, Zenon DEF vars
<1>8. QED
  BY <1>1, <1>2, <1>3, <1>4, <1>5, <1>6, <1>7, SMTT(30) DEF Next

(* The collector never races a write: short of a restart, a node stops     *)
(* covering a version only when the key held nothing but tombstones past   *)
(* the grace period (sweep, DeleteIf, Reconcile).                          *)
THEOREM OnlyAgedGo == Spec => OnlyAgedTombstonesReaped
<1> DEFINE Step == \A n \in Node, k \in Key :
                     (restarts' = restarts /\ \E v \in stored(n, k) : ~Covers(stored(n, k)', v))
                       => /\ Live(stored(n, k)) = {}
                          /\ \A v \in stored(n, k) : now - v.deletedAt >= Grace
<1>1. TypeInv /\ [Next]_vars => Step
  <2> SUFFICES ASSUME TypeInv, [Next]_vars, NEW n \in Node, NEW k \in Key,
                      restarts' = restarts,
                      \E v \in stored(n, k) : ~Covers(stored(n, k)', v)
               PROVE  Aged(n, k)
    BY Zenon DEF Aged
  <2>1. ~Grows(n, k)
    BY StoredIsAt, Zenon DEF Grows, CoveredBy
  <2>2. QED
    BY <2>1, NextGrows, Zenon
<1>2. QED
  BY <1>1, TypesStay, PTL DEF Spec, OnlyAgedTombstonesReaped

-----------------------------------------------------------------------------
(* A round catches up.  While n's round r is in progress, what its Ranges  *)
(* read of a key is covered at the node they read it from; once the trees  *)
(* are compared, what the peer's tree had is covered at n or, for a wanted *)
(* bucket, by what RBUCKET has fetched; and an entry that was fetched      *)
(* stays on the list until it is applied.                                  *)

KeyFine(n, r, st, k) ==
  /\ CoveredBy(versionsOf(r.local[k]), At(st, n, k))
  /\ r.at # "idle" => CoveredBy(versionsOf(r.remote[k]), At(st, r.peer, k))
  /\ r.at = "rbucket" =>
       /\ BucketOf(k) \notin r.diffs => CoveredBy(versionsOf(r.remote[k]), At(st, n, k))
       /\ BucketOf(k) \in r.diffs /\ k \notin r.left =>
            CoveredBy(versionsOf(r.remote[k]), versionsOf(r.entries[k]))
  /\ r.at = "apply" =>
       \/ CoveredBy(versionsOf(r.remote[k]), At(st, n, k))
       \/ /\ k \in r.left
          /\ CoveredBy(versionsOf(r.remote[k]), versionsOf(r.entries[k]))

RoundFine(n, r, st) == \A k \in Key \ r.lost : KeyFine(n, r, st, k)

CatchUpInv == TypeInv /\ \A n \in Node : RoundFine(n, round[n], store)

LEMMA EmptyCovered == \A T : CoveredBy({}, T)
BY Zenon DEF CoveredBy

LEMMA NoEntriesEmpty == \A k \in Key : versionsOf(noEntries[k]) = {}
BY SMTT(30) DEF noEntries, versionsOf

LEMMA IdleFine == \A n, st : RoundFine(n, idleRound, st)
BY NoEntriesEmpty, EmptyCovered DEF RoundFine, KeyFine, idleRound

LEMMA RoundSibSets ==
  ASSUME NEW n, NEW r, RoundOK(n, r), NEW k \in Key
  PROVE  /\ versionsOf(r.local[k]) \in SibSet /\ versionsOf(r.remote[k]) \in SibSet
         /\ versionsOf(r.entries[k]) \in SibSet
BY SlotVersions, Zenon DEF RoundOK, Round

(* A key stays fine while both stores cover what they held of it. *)
LEMMA KeyStays ==
  ASSUME TypeInv, store' \in StoreType, NEW n \in Node, NEW k \in Key,
         NEW r, RoundOK(n, r), KeyFine(n, r, store, k),
         Grows(n, k), r.at # "idle" => Grows(r.peer, k)
  PROVE  KeyFine(n, r, store', k)
<1>1. /\ versionsOf(r.local[k]) \in SibSet /\ versionsOf(r.remote[k]) \in SibSet
      /\ versionsOf(r.entries[k]) \in SibSet
  BY RoundSibSets, Zenon
<1>2. At(store, n, k) \in SibSet /\ At(store', n, k) \in SibSet
  BY AtSibSet, Zenon DEF TypeInv
<1>3. \A S \in SibSet : CoveredBy(S, At(store, n, k)) => CoveredBy(S, At(store', n, k))
  BY <1>2, CoveredByTransitive, SMTT(30) DEF Grows
<1>4. CASE r.at = "idle"
  BY <1>1, <1>3, <1>4, ZenonT(30) DEF KeyFine
<1>5. CASE r.at # "idle"
  <2>1. r.peer \in Node
    BY <1>5, Zenon DEF RoundOK
  <2>2. At(store, r.peer, k) \in SibSet /\ At(store', r.peer, k) \in SibSet
    BY <2>1, AtSibSet, SMTT(30) DEF TypeInv
  <2>3. CoveredBy(versionsOf(r.remote[k]), At(store', r.peer, k))
    BY <1>1, <1>5, <2>2, CoveredByTransitive, ZenonT(30) DEF KeyFine, Grows
  <2>4. QED
    BY <1>1, <1>3, <2>3, ZenonT(30) DEF KeyFine
<1>6. QED
  BY <1>4, <1>5, SMTT(30)

LEMMA RoundStays ==
  ASSUME CatchUpInv, TypeInv', NEW n \in Node, round'[n] = round[n],
         \A k \in Key : Grows(n, k) /\ (round[n].at # "idle" => Grows(round[n].peer, k))
  PROVE  RoundFine(n, round'[n], store')
<1>1. RoundOK(n, round[n]) /\ store' \in StoreType /\ TypeInv
  BY SMTT(30) DEF TypeInv, CatchUpInv
<1>2. ASSUME NEW k \in Key \ round[n].lost
      PROVE  KeyFine(n, round[n], store', k)
  BY <1>1, KeyStays, SMTT(30) DEF CatchUpInv, RoundFine
<1>3. QED
  BY <1>2, SMTT(30) DEF RoundFine

(* A step in which nothing is lost leaves the rounds it does not touch     *)
(* fine.                                                                   *)
LEMMA OthersFine ==
  ASSUME CatchUpInv, TypeInv', \A m \in Node, k \in Key : Grows(m, k),
         NEW n \in Node, round'[n] = round[n]
  PROVE  RoundFine(n, round'[n], store')
<1>1. round[n].at # "idle" => round[n].peer \in Node
  BY Zenon DEF CatchUpInv, TypeInv, RoundOK
<1>2. QED
  BY <1>1, RoundStays, SMTT(30)

(* A round of which the keys that go are noted. *)
LEMMA NotedFine ==
  ASSUME CatchUpInv, TypeInv', NEW n \in Node, NEW keys \in SUBSET Key,
         round[n].at # "idle",
         round'[n] = [round[n] EXCEPT !.lost = round[n].lost \cup keys],
         \A k \in Key \ keys : Grows(n, k) /\ Grows(round[n].peer, k)
  PROVE  RoundFine(n, round'[n], store')
<1>1. RoundOK(n, round[n]) /\ store' \in StoreType /\ TypeInv
  BY Zenon DEF TypeInv, CatchUpInv
<1> DEFINE r == round[n]
<1>2. /\ round'[n].at = r.at /\ round'[n].peer = r.peer /\ round'[n].left = r.left
      /\ round'[n].local = r.local /\ round'[n].remote = r.remote
      /\ round'[n].diffs = r.diffs /\ round'[n].entries = r.entries
      /\ round'[n].lost = r.lost \cup keys
  BY <1>1, Zenon DEF RoundOK, Round
<1>3. ASSUME NEW k \in Key \ (r.lost \cup keys)
      PROVE  KeyFine(n, r, store', k)
  BY <1>1, KeyStays, SMTT(30) DEF CatchUpInv, RoundFine
<1>4. QED
  BY <1>2, <1>3 DEF RoundFine, KeyFine

(* The rounds a step of n's round leaves alone. *)
LEMMA SyncOthersFine ==
  ASSUME CatchUpInv, TypeInv', NEW n \in Node, SyncStep(n) \/ syncFailed(n),
         NEW r, goto(n, r), RoundFine(n, r, store')
  PROVE  CatchUpInv'
<1>1. TypeInv
  BY Zenon DEF CatchUpInv
<1>2. round'[n] = r /\ \A m \in Node \ {n} : round'[m] = round[m]
  BY <1>1, Zenon DEF goto, TypeInv
<1>3. \A m \in Node, k \in Key : Grows(m, k)
  BY <1>1, SyncStepGrows, SMTT(30)
<1>4. \A m \in Node \ {n} : RoundFine(m, round'[m], store')
  BY <1>2, <1>3, OthersFine, ZenonT(30)
<1>5. \A m \in Node : RoundFine(m, round'[m], store')
  BY <1>2, <1>4, SMTT(30)
<1>6. QED
  BY <1>5, Zenon DEF CatchUpInv

LEMMA SyncStartFine ==
  ASSUME CatchUpInv, TypeInv', NEW n \in Node, NEW p \in Node, syncStart(n, p)
  PROVE  CatchUpInv'
<1> DEFINE r == [idleRound EXCEPT !.at = "local", !.peer = p, !.left = Key]
<1>1. goto(n, r)
  BY Zenon DEF syncStart
<1>2. RoundFine(n, r, store')
  BY NoEntriesEmpty, EmptyCovered, SMTT(30) DEF RoundFine, KeyFine, idleRound
<1> HIDE DEF r
<1>3. QED
  BY <1>1, <1>2, SyncOthersFine DEF SyncStep

LEMMA RangeLocalFine ==
  ASSUME CatchUpInv, TypeInv', NEW n \in Node, rangeLocal(n)
  PROVE  CatchUpInv'
<1> DEFINE k    == Min(round[n].left)
           rest == round[n].left \ {k}
           r    == [round[n] EXCEPT !.local[k] = store[n][k],
                                    !.at = IF rest = {} THEN "rtree" ELSE @,
                                    !.left = IF rest = {} THEN Key ELSE rest]
<1>1. /\ goto(n, r) /\ round[n].at = "local" /\ RoundOK(n, round[n])
      /\ RoundFine(n, round[n], store) /\ store' = store /\ TypeInv
  BY Zenon DEF rangeLocal, CatchUpInv, TypeInv
<1>2. k \in Key
  BY <1>1, NextKey
<1>3. CoveredBy(versionsOf(store[n][k]), At(store, n, k))
  BY <1>1, <1>2, AtSibSet, CoveredBySelf, SMTT(30) DEF At, TypeInv
<1> HIDE DEF k, rest
<1>4. /\ r.lost = round[n].lost /\ r.remote = round[n].remote /\ r.peer = round[n].peer
      /\ r.at \in {"local", "rtree"}
      /\ r.local[k] = store[n][k]
      /\ \A j \in Key \ {k} : r.local[j] = round[n].local[j]
  BY <1>1, <1>2, SMTT(30) DEF RoundOK, Round
<1> HIDE DEF r
<1>5. ASSUME NEW j \in Key \ r.lost
      PROVE  KeyFine(n, r, store', j)
  BY <1>1, <1>3, <1>4, ZenonT(30) DEF KeyFine, RoundFine
<1>6. RoundFine(n, r, store')
  BY <1>5, ZenonT(30) DEF RoundFine
<1>7. QED
  BY <1>1, <1>6, SyncOthersFine, SMTT(30) DEF SyncStep

LEMMA RtreeFine ==
  ASSUME CatchUpInv, TypeInv', NEW n \in Node, rtree(n)
  PROVE  CatchUpInv'
<1> DEFINE k    == Min(round[n].left)
           rest == round[n].left \ {k}
           p    == round[n].peer
           r    == [round[n] EXCEPT !.remote[k] = store[p][k],
                                    !.at = IF rest = {} THEN "diff" ELSE @,
                                    !.left = rest]
<1>1. /\ goto(n, r) /\ round[n].at = "rtree" /\ RoundOK(n, round[n])
      /\ RoundFine(n, round[n], store) /\ store' = store /\ TypeInv
  BY Zenon DEF rtree, CatchUpInv, TypeInv
<1>2. k \in Key /\ p \in Node
  BY <1>1, NextKey, SMTT(30)
<1>3. CoveredBy(versionsOf(store[p][k]), At(store, p, k))
  BY <1>1, <1>2, AtSibSet, CoveredBySelf, SMTT(30) DEF At, TypeInv
<1> HIDE DEF k, rest
<1>4. /\ r.lost = round[n].lost /\ r.local = round[n].local /\ r.peer = p
      /\ r.at \in {"diff", "rtree"}
      /\ r.remote[k] = store[p][k]
      /\ \A j \in Key \ {k} : r.remote[j] = round[n].remote[j]
  BY <1>1, <1>2, SMTT(30) DEF RoundOK, Round
<1> HIDE DEF r
<1>5. ASSUME NEW j \in Key \ r.lost
      PROVE  KeyFine(n, r, store', j)
  BY <1>1, <1>3, <1>4, ZenonT(30) DEF KeyFine, RoundFine
<1>6. RoundFine(n, r, store')
  BY <1>5, SMTT(30) DEF RoundFine
<1>7. QED
  BY <1>1, <1>6, SyncOthersFine, Zenon DEF SyncStep

(* A bucket that is not wanted is one in which the trees agree, so n's own *)
(* Range covers the peer's; DiffExact carries this step.                   *)
LEMMA DiffFine ==
  ASSUME CatchUpInv, TypeInv', NEW n \in Node, diff(n)
  PROVE  CatchUpInv'
<1> DEFINE D == Diff(treeOf(round[n].local), treeOf(round[n].remote))
           r == [round[n] EXCEPT !.diffs = D, !.local = noEntries,
                                 !.at = IF D = {} THEN "apply" ELSE "rbucket",
                                 !.left = IF D = {} THEN {} ELSE Key]
<1>1. /\ goto(n, r) /\ round[n].at = "diff" /\ RoundOK(n, round[n])
      /\ RoundFine(n, round[n], store) /\ store' = store
  BY Zenon DEF diff, CatchUpInv, TypeInv
<1>2. \A j \in Key : BucketOf(j) \notin D => round[n].local[j] = round[n].remote[j]
  BY DiffExact
<1> HIDE DEF D
<1>3. /\ r.lost = round[n].lost /\ r.local = noEntries /\ r.peer = round[n].peer
      /\ r.remote = round[n].remote /\ r.diffs = D
      /\ r.at = IF D = {} THEN "apply" ELSE "rbucket"
      /\ r.left = IF D = {} THEN {} ELSE Key
  BY <1>1, SMTT(30) DEF RoundOK, Round
<1> HIDE DEF r
<1>4. ASSUME NEW j \in Key \ r.lost
      PROVE  KeyFine(n, r, store', j)
  <2>1. /\ CoveredBy(versionsOf(round[n].local[j]), At(store, n, j))
        /\ CoveredBy(versionsOf(round[n].remote[j]), At(store, round[n].peer, j))
    BY <1>1, <1>3, ZenonT(30) DEF KeyFine, RoundFine
  <2>2. BucketOf(j) \notin D => CoveredBy(versionsOf(r.remote[j]), At(store', n, j))
    BY <1>1, <1>2, <1>3, <2>1, ZenonT(30)
  <2>3. CoveredBy(versionsOf(r.local[j]), At(store', n, j))
    BY <1>3, NoEntriesEmpty, EmptyCovered, SMTT(30)
  <2>4. CoveredBy(versionsOf(r.remote[j]), At(store', r.peer, j))
    BY <1>1, <1>3, <2>1, ZenonT(30)
  <2>5. QED
    BY <1>3, <2>2, <2>3, <2>4, ZenonT(30) DEF KeyFine
<1>5. RoundFine(n, r, store')
  BY <1>4, Zenon DEF RoundFine
<1>6. QED
  BY <1>1, <1>5, SyncOthersFine, Zenon DEF SyncStep

LEMMA RbucketFine ==
  ASSUME CatchUpInv, TypeInv', NEW n \in Node, rbucket(n)
  PROVE  CatchUpInv'
<1> DEFINE k    == Min(round[n].left)
           rest == round[n].left \ {k}
           p    == round[n].peer
           new  == [round[n].entries EXCEPT ![k] =
                      IF wanted(n, k) THEN store[p][k] ELSE None]
           r    == [round[n] EXCEPT !.entries = new,
                      !.at = IF rest = {} THEN "apply" ELSE @,
                      !.diffs = IF rest = {} THEN {} ELSE @,
                      !.left = IF rest = {} THEN {j \in Key : new[j] # None} ELSE rest]
<1>1. /\ goto(n, r) /\ round[n].at = "rbucket" /\ RoundOK(n, round[n])
      /\ RoundFine(n, round[n], store) /\ store' = store /\ TypeInv
  BY SMTT(30) DEF rbucket, CatchUpInv, TypeInv
<1>2. k \in Key
  BY <1>1, NextKey, SMTT(30)
<1>3. /\ new[k] = IF BucketOf(k) \in round[n].diffs THEN store[p][k] ELSE None
      /\ \A j \in Key \ {k} : new[j] = round[n].entries[j]
      /\ \A j \in Key : j \notin rest => j = k \/ j \notin round[n].left
  BY <1>1, <1>2, Zenon DEF RoundOK, Round, wanted, BucketOf
<1> HIDE DEF k, rest, new
<1>4. /\ r.lost = round[n].lost /\ r.local = round[n].local /\ r.peer = p
      /\ r.remote = round[n].remote /\ r.entries = new
      /\ r.at = IF rest = {} THEN "apply" ELSE "rbucket"
      /\ r.diffs = IF rest = {} THEN {} ELSE round[n].diffs
      /\ r.left = IF rest = {} THEN {j \in Key : new[j] # None} ELSE rest
  BY <1>1, SMTT(30) DEF RoundOK, Round
<1> HIDE DEF r
<1>5. ASSUME NEW j \in Key \ r.lost
      PROVE  KeyFine(n, r, store', j)
  <2> DEFINE R == versionsOf(round[n].remote[j])
  <2>1. /\ CoveredBy(versionsOf(round[n].local[j]), At(store, n, j))
        /\ CoveredBy(R, At(store, p, j))
        /\ BucketOf(j) \notin round[n].diffs => CoveredBy(R, At(store, n, j))
        /\ BucketOf(j) \in round[n].diffs /\ j \notin round[n].left =>
             CoveredBy(R, versionsOf(round[n].entries[j]))
    BY <1>1, <1>4, ZenonT(30) DEF KeyFine, RoundFine
  <2>2. BucketOf(j) \in round[n].diffs /\ j \notin rest =>
          CoveredBy(R, versionsOf(new[j]))
    <3>1. CASE j = k
      BY <1>3, <2>1, <3>1, SMTT(30) DEF At
    <3>2. CASE j # k
      BY <1>3, <2>1, <3>2, ZenonT(30)
    <3>3. QED
      BY <3>1, <3>2, ZenonT(30)
  <2>3. CASE rest # {}
    BY <1>1, <1>4, <2>1, <2>2, <2>3, ZenonT(30) DEF KeyFine
  <2>4. CASE rest = {}
    <3>1. CoveredBy(R, At(store, n, j)) \/ CoveredBy(R, versionsOf(new[j]))
      BY <2>1, <2>2, <2>4, ZenonT(30)
    <3>2. CASE new[j] # None
      BY <1>1, <1>4, <2>1, <2>4, <3>1, <3>2, ZenonT(30) DEF KeyFine
    <3>3. CASE new[j] = None
      <4>1. CoveredBy(R, At(store, n, j))
        BY <3>1, <3>3, ZenonT(30) DEF versionsOf, CoveredBy, Covers
      <4>2. QED
        BY <1>1, <1>4, <2>1, <2>4, <4>1, ZenonT(30) DEF KeyFine
    <3>4. QED
      BY <3>2, <3>3, ZenonT(30)
  <2>5. QED
    BY <2>3, <2>4, SMTT(30)
<1>6. RoundFine(n, r, store')
  BY <1>5, Zenon DEF RoundFine
<1>7. QED
  BY <1>1, <1>6, SyncOthersFine, ZenonT(30) DEF SyncStep

LEMMA ApplyFine ==
  ASSUME CatchUpInv, TypeInv', NEW n \in Node, NEW k \in Key, apply(n, k)
  PROVE  CatchUpInv'
<1> DEFINE r == [round[n] EXCEPT !.left = @ \ {k}, !.entries[k] = None]
<1>1. /\ goto(n, r) /\ round[n].at = "apply" /\ RoundOK(n, round[n])
      /\ RoundFine(n, round[n], store) /\ TypeInv /\ store' \in StoreType
  BY Zenon DEF apply, CatchUpInv, TypeInv
<1>2. /\ \A m \in Node, j \in Key : Grows(m, j)
      /\ CoveredBy(versionsOf(round[n].entries[k]), At(store', n, k))
  BY <1>1, ApplyGrows
<1>3. round[n].peer \in Node
  BY <1>1 DEF RoundOK
<1>4. /\ r.lost = round[n].lost /\ r.local = round[n].local
      /\ r.peer = round[n].peer /\ r.remote = round[n].remote
      /\ r.at = "apply" /\ r.left = round[n].left \ {k}
      /\ \A j \in Key \ {k} : r.entries[j] = round[n].entries[j]
  BY <1>1, SMTT(30) DEF RoundOK, Round
<1> HIDE DEF r
<1>5. ASSUME NEW j \in Key \ r.lost
      PROVE  KeyFine(n, r, store', j)
  <2>1. KeyFine(n, round[n], store', j)
    BY <1>1, <1>2, <1>3, <1>4, KeyStays, ZenonT(30) DEF RoundFine
  <2>2. CASE j # k
    BY <1>1, <1>4, <2>1, <2>2, ZenonT(30) DEF KeyFine
  <2>3. CASE j = k
    <3> DEFINE R == versionsOf(round[n].remote[k])
               E == versionsOf(round[n].entries[k])
    <3>1. CoveredBy(R, At(store', n, k)) \/ CoveredBy(R, E)
      BY <1>1, <2>1, <2>3, ZenonT(30) DEF KeyFine
    <3>2. R \in SibSet /\ E \in SibSet /\ At(store', n, k) \in SibSet
      BY <1>1, RoundSibSets, AtSibSet, ZenonT(30)
    <3> HIDE DEF R, E
    <3>3. CoveredBy(R, At(store', n, k))
      BY <1>2, <3>1, <3>2, CoveredByTransitive, SMTT(30) DEF E
    <3>4. QED
      BY <1>1, <1>4, <2>1, <2>3, <3>3, ZenonT(30) DEF KeyFine, R
  <2>4. QED
    BY <2>2, <2>3, SMTT(30)
<1>6. RoundFine(n, r, store')
  BY <1>5, Zenon DEF RoundFine
<1>7. QED
  BY <1>1, <1>6, SyncOthersFine, Zenon DEF SyncStep

LEMMA SyncOverFine ==
  ASSUME CatchUpInv, TypeInv', NEW n \in Node, syncEnd(n) \/ syncFailed(n)
  PROVE  CatchUpInv'
<1>1. goto(n, idleRound)
  BY Zenon DEF syncEnd, syncFailed
<1>2. QED
  BY <1>1, IdleFine, SyncOthersFine, SMTT(30) DEF SyncStep

LEMMA SweepReapFine ==
  ASSUME CatchUpInv, TypeInv', NEW n \in Node, sweepReap(n)
  PROVE  CatchUpInv'
<1>1. TypeInv
  BY Zenon DEF CatchUpInv
<1>2. PICK k \in Key :
        \/ UNCHANGED <<store, round>>
        \/ /\ store' = [store EXCEPT ![n][k] = None]
           /\ round' = noteLoss(n, {k})
  BY <1>1, ReapStep, ZenonT(30)
<1>3. CASE UNCHANGED <<store, round>>
  BY <1>3, Zenon DEF CatchUpInv
<1>4. CASE store' = [store EXCEPT ![n][k] = None] /\ round' = noteLoss(n, {k})
  <2>1. \A m \in Node, j \in Key : m # n \/ j # k => Grows(m, j)
    BY <1>1, <1>4, ClearOne, SameGrows, ZenonT(30) DEF TypeInv
  <2>2. ASSUME NEW m \in Node
        PROVE  RoundFine(m, round'[m], store')
    <3>1. {k} \in SUBSET Key
      BY SMTT(30)
    <3>2. round[m].at # "idle" => round[m].peer \in Node
      BY <1>1, Zenon DEF TypeInv, RoundOK
    <3>3. CASE round[m].at # "idle" /\ (m = n \/ round[m].peer = n)
      <4>1. round'[m] = [round[m] EXCEPT !.lost = round[m].lost \cup {k}]
        BY <1>1, <1>4, <3>1, <3>3, Noted
      <4>2. \A j \in Key \ {k} : Grows(m, j) /\ Grows(round[m].peer, j)
        BY <2>1, <3>2, <3>3, SMTT(30)
      <4>3. QED
        BY <3>1, <3>3, <4>1, <4>2, NotedFine, ZenonT(30)
    <3>4. CASE round[m].at # "idle" /\ ~(m = n \/ round[m].peer = n)
      <4>1. round'[m] = round[m]
        BY <1>1, <1>4, <3>1, <3>4, NotNoted, SMTT(30)
      <4>2. \A j \in Key : Grows(m, j) /\ Grows(round[m].peer, j)
        BY <2>1, <3>2, <3>4, SMTT(30)
      <4>3. QED
        BY <4>1, <4>2, RoundStays, SMTT(30)
    <3>5. CASE round[m].at = "idle"
      <4>1. round'[m] = round[m]
        BY <1>1, <1>4, <3>1, <3>5, NotNoted, SMTT(30)
      <4>2. round[m] = idleRound
        BY <1>1, <3>5, ZenonT(30) DEF TypeInv, RoundOK
      <4>3. QED
        BY <4>1, <4>2, IdleFine, SMTT(30)
    <3>6. QED
      BY <3>3, <3>4, <3>5, SMTT(30)
  <2>3. QED
    BY <2>2, Zenon DEF CatchUpInv
<1>5. QED
  BY <1>2, <1>3, <1>4, SMTT(30)

LEMMA RestartFine ==
  ASSUME CatchUpInv, NEW n \in Node, restart(n)
  PROVE  CatchUpInv'
<1>1. TypeInv
  BY SMTT(30) DEF CatchUpInv
<1>2. /\ TypeInv' /\ round'[n] = idleRound
      /\ \A m \in Node \ {n} : round'[m] = noteLoss(n, Key)[m]
      /\ \A m \in Node \ {n}, k \in Key : At(store', m, k) = At(store, m, k)
  BY <1>1, RestartTypes, ZenonT(30)
<1>3. \A m \in Node \ {n}, k \in Key : Grows(m, k)
  BY <1>1, <1>2, SameGrows, SMTT(30)
<1>4. ASSUME NEW m \in Node \ {n}
      PROVE  RoundFine(m, round'[m], store')
  <2>1. round[m].at # "idle" => round[m].peer \in Node
    BY <1>1, Zenon DEF TypeInv, RoundOK
  <2>2. CASE round[m].at # "idle" /\ round[m].peer = n
    <3>1. round'[m] = [round[m] EXCEPT !.lost = round[m].lost \cup Key]
      BY <1>1, <1>2, <2>2, Noted, SMTT(30)
    <3>2. QED
      BY <1>2, <2>2, <3>1, NotedFine, SMTT(30)
  <2>3. CASE round[m].at # "idle" /\ round[m].peer # n
    <3>1. round'[m] = round[m]
      BY <1>1, <1>2, <2>3, NotNoted, SMTT(30)
    <3>2. \A k \in Key : Grows(m, k) /\ Grows(round[m].peer, k)
      BY <1>3, <2>1, <2>3, SMTT(30)
    <3>3. QED
      BY <1>2, <3>1, <3>2, RoundStays, SMTT(30)
  <2>4. CASE round[m].at = "idle"
    <3>1. round'[m] = round[m]
      BY <1>1, <1>2, <2>4, NotNoted, SMTT(30)
    <3>2. round[m] = idleRound
      BY <1>1, <2>4, SMTT(30) DEF TypeInv, RoundOK
    <3>3. QED
      BY <3>1, <3>2, IdleFine, SMTT(30)
  <2>5. QED
    BY <2>2, <2>3, <2>4, SMTT(30)
<1>5. \A m \in Node : RoundFine(m, round'[m], store')
  BY <1>2, <1>4, IdleFine, SMTT(30)
<1>6. QED
  BY <1>2, <1>5, Zenon DEF CatchUpInv

(* A step that loses nothing and leaves the rounds alone. *)
LEMMA QuietFine ==
  ASSUME CatchUpInv, TypeInv', round' = round, \A m \in Node, k \in Key : Grows(m, k)
  PROVE  CatchUpInv'
<1>1. \A m \in Node : RoundFine(m, round'[m], store')
  BY OthersFine, SMTT(30)
<1>2. QED
  BY <1>1, Zenon DEF CatchUpInv

LEMMA NextCatchUp == CatchUpInv /\ [Next]_vars => CatchUpInv'
<1> SUFFICES ASSUME CatchUpInv, [Next]_vars
             PROVE  CatchUpInv'
  BY Zenon
<1>1. TypeInv /\ TypeInv'
  BY NextTypes, SMTT(30) DEF CatchUpInv
<1>2. CASE \E m \in Node, j \in Key : delete(m, j) \/ \E x \in Value : write(m, j, x)
  <2>1. PICK m \in Node, j \in Key : delete(m, j) \/ \E x \in Value : write(m, j, x)
    BY <1>2, Zenon
  <2>2. PICK v \in Version : put(m, j, v)
    BY <1>1, <2>1, ClientTypes, SMTT(30)
  <2>3. QED
    BY <1>1, <2>2, PutGrows, QuietFine, SMTT(30) DEF put
<1>3. CASE \E m \in rsets : rset(m)
  <2>1. PICK m \in rsets : rset(m)
    BY <1>3, Zenon
  <2>2. round' = round
    BY <2>1, SMTT(30) DEF rset
  <2>3. QED
    BY <1>1, <2>1, <2>2, RsetGrows, QuietFine, SMTT(30)
<1>4. CASE \E n \in SyncNode : SyncStep(n) \/ syncFailed(n)
  <2>1. PICK n \in Node : SyncStep(n) \/ syncFailed(n)
    BY <1>4, AntiEntropyAssumption, Zenon
  <2>2. QED
    BY <1>1, <2>1, SyncStartFine, RangeLocalFine, RtreeFine, DiffFine, RbucketFine,
       ApplyFine, SyncOverFine, SMTT(30) DEF SyncStep
<1>5. CASE \E n \in CollectNode : sweepStart(n) \/ sweepScan(n) \/ sweepReap(n)
  <2>1. PICK n \in Node : sweepStart(n) \/ sweepScan(n) \/ sweepReap(n)
    BY <1>5, AntiEntropyAssumption
  <2>2. CASE sweepReap(n)
    BY <1>1, <2>2, SweepReapFine, SMTT(30)
  <2>3. CASE sweepStart(n) \/ sweepScan(n)
    BY <1>1, <2>3, StoreStays, QuietFine, SMTT(30) DEF sweepStart, sweepScan
  <2>4. QED
    BY <2>1, <2>2, <2>3, SMTT(30)
<1>6. CASE \E n \in RestartNode : restart(n)
  BY <1>6, RestartFine, AntiEntropyAssumption, SMTT(30)
<1>7. CASE Tick
  BY <1>1, <1>7, StoreStays, QuietFine, SMTT(30) DEF Tick
<1>8. CASE UNCHANGED vars
  BY <1>1, <1>8, StoreStays, QuietFine, SMTT(30) DEF vars
<1>9. QED
  BY <1>2, <1>3, <1>4, <1>5, <1>6, <1>7, <1>8 DEF Next

(* A round that runs to its end covers all that the peer's tree was built  *)
(* from, unless the key went away at either node meanwhile (syncWith).     *)
THEOREM RoundsCatchUp == Spec => []RoundCatchesUp
<1>1. Init => CatchUpInv
  <2> SUFFICES ASSUME Init
               PROVE  CatchUpInv
    BY Zenon
  <2>1. \A n \in Node : round[n] = idleRound
    BY SMTT(30) DEF Init
  <2>2. QED
    BY <2>1, InitTypes, IdleFine, SMTT(30) DEF CatchUpInv
<1>2. CatchUpInv /\ [Next]_vars => CatchUpInv'
  BY NextCatchUp, Zenon
<1>3. CatchUpInv => RoundCatchesUp
  <2> SUFFICES ASSUME CatchUpInv, NEW n \in Node, round[n].at = "apply",
                      round[n].left = {}, NEW k \in Key \ round[n].lost,
                      round[n].remote[k] # None,
                      NEW v \in round[n].remote[k].versions
               PROVE  Covers(stored(n, k), v)
    BY SMTT(30) DEF RoundCatchesUp
  <2>1. CoveredBy(versionsOf(round[n].remote[k]), At(store, n, k))
    BY Zenon DEF CatchUpInv, RoundFine, KeyFine
  <2>2. QED
    BY <2>1, StoredIsAt, SMTT(30) DEF CoveredBy, versionsOf
<1>4. QED
  BY <1>1, <1>2, <1>3, PTL DEF Spec
=============================================================================
