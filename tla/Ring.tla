-------------------------------- MODULE Ring --------------------------------
(***************************************************************************)
(* The consistent-hash ring (internal/cluster/ring.go): a sequence of      *)
(* virtual points, Replicas of each node, and the walk that turns a key    *)
(* into its replica set.                                                   *)
(*                                                                         *)
(* Hashes are the positions 0 .. Space-1.  A layout is where hashStr puts  *)
(* the virtual points of every node; two points never collide (64 bits in  *)
(* the code).  A key stands for its position.                              *)
(***************************************************************************)
EXTENDS Naturals, FiniteSets, Sequences, FiniteSetsExt

CONSTANTS Node, Replicas, Space

ASSUME RingAssumption ==
  /\ IsFiniteSet(Node)
  /\ Replicas \in Nat \ {0}
  /\ Space \in Nat

Position == 0 .. Space - 1
VirtualNode == 1 .. Replicas

Point == [hash : Position, node : Node]

hashStr ==
  {h \in [Node -> [VirtualNode -> Position]] :
     \A m, n \in Node : \A i, j \in VirtualNode :
       h[m][i] = h[n][j] => m = n /\ i = j}

(* A loop over a slice: step takes what there is so far and the next       *)
(* element.                                                                *)
Loop(step(_, _), start, slice) ==
  MapThenFoldSet(LAMBDA x, soFar : step(soFar, x), start, LAMBDA i : slice[i],
                 LAMBDA indices : Max(indices), DOMAIN slice)

(* Add: the points of node go to the end, unsorted. *)
Add(layout, points, node) ==
  points \o [i \in VirtualNode |-> [hash |-> layout[node][i], node |-> node]]

(* slices.SortFunc by hash: the k-th point is the one with k-1 before it. *)
RingSort(points) ==
  LET before(i) == {j \in DOMAIN points : points[j].hash < points[i].hash}
  IN  [k \in DOMAIN points |->
         points[CHOOSE i \in DOMAIN points : Cardinality(before(i)) = k - 1]]

(* Mutant: a key past the last point stays at the last point. *)
findIndexNoWrap(points, key) ==
  LET at == {i \in 1 .. Len(points) : points[i].hash >= key}
  IN  IF at = {} THEN Len(points) ELSE Min(at)

(* sort.Search, then the wrap to the first point. *)
findIndex(points, key) ==
  LET at == {i \in 1 .. Len(points) : points[i].hash >= key}
  IN  IF at = {} THEN 1 ELSE Min(at)

Get(points, key) == points[findIndex(points, key)].node

(* The walk around the ring, taking each node the first time it is met.    *)
GetN(points, key, n) ==
  LET count == Len(points)
      idx   == findIndex(points, key)
      walk  == [i \in 1 .. count |-> points[((idx + i - 2) % count) + 1].node]
      take(nodes, p) == IF Len(nodes) = n \/ p \in Range(nodes) THEN nodes
                        ELSE Append(nodes, p)
  IN  IF count = 0 \/ n = 0 THEN <<>> ELSE Loop(take, <<>>, walk)

-----------------------------------------------------------------------------
(* What a replica set is, without a ring: the nodes ordered by how far     *)
(* clockwise from the key their nearest virtual point is.                  *)

Clockwise(key, hash) == IF hash >= key THEN hash - key ELSE hash + Space - key

Distance(layout, node, key) ==
  Min({Clockwise(key, layout[node][i]) : i \in VirtualNode})

(* The i-th nearest of the nodes has i-1 nearer ones. *)
Nearest(layout, nodes, key, n) ==
  LET nearer(m) == {o \in nodes : Distance(layout, o, key) < Distance(layout, m, key)}
  IN  [i \in 1 .. n |-> CHOOSE m \in nodes : Cardinality(nearer(m)) = i - 1]
=============================================================================
