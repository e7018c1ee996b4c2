------------------------------- MODULE Merkle -------------------------------
(***************************************************************************)
(* The Merkle tree of anti-entropy (internal/merkle/merkle.go).            *)
(*                                                                         *)
(* A digest is modelled by what was hashed, that is, as an injective       *)
(* function.  The XOR of the entry digests of a leaf is then the set of the*)
(* entries, where adding one twice takes it out again.  A leaf nothing was *)
(* added to is nil, which is no bytes at all when its parent is hashed.    *)
(* Encode ships the leaf count and the leaves, all that a tree here has;   *)
(* inner nodes are computed for a Diff.                                    *)
(***************************************************************************)
EXTENDS Naturals, Sequences, FiniteSetsExt

CONSTANT keyHash   \* keyHash[key]: the leading bytes of the key's sha256

(* The smallest power of two >= n, and 1 for n <= 1. *)
nextPowerOfTwo(n) ==
  LET double[p \in 1 .. 2 * n + 1] == IF p >= n THEN p ELSE double[2 * p]
  IN  double[1]

New(leaves) ==
  LET leafCount == nextPowerOfTwo(leaves)
  IN  [leafCount |-> leafCount, leaf |-> [b \in 0 .. leafCount - 1 |-> {}]]

(* x & (L - 1), L being a power of two. *)
Bucket(t, key) == keyHash[key] % t.leafCount

(* Mutant: only the blob is hashed, not the key. *)
AddBlobOnly(t, key, data) ==
  [t EXCEPT !.leaf[Bucket(t, key)] = SymDiff(@, {<<1, data>>})]

Add(t, key, data) ==
  [t EXCEPT !.leaf[Bucket(t, key)] = SymDiff(@, {<<key, data>>})]

(* The bytes of the nodes, in heap order: the root is 1, the children of i *)
(* are 2i and 2i+1, the leaves are last.  An inner node is one digest of   *)
(* its children's bytes put one after the other.                           *)
Root(t) ==
  LET L == t.leafCount
      nodes[i \in 1 .. 2 * L - 1] ==
        IF i >= L
        THEN IF t.leaf[i - L] = {} THEN <<>> ELSE <<t.leaf[i - L]>>
        ELSE <<nodes[2 * i] \o nodes[2 * i + 1]>>
  IN  nodes

(* The walk from the root into the subtrees that differ, and the buckets of*)
(* the leaves it ends at.                                                  *)
collect(t, nodes, others) ==
  LET diffs[i \in 1 .. 2 * t.leafCount - 1] ==
        IF nodes[i] = others[i] THEN {}
        ELSE IF i >= t.leafCount THEN {i - t.leafCount}
        ELSE diffs[2 * i] \cup diffs[2 * i + 1]
  IN  diffs[1]

Diff(t, other) ==
  IF t.leafCount # other.leafCount THEN {}
  ELSE collect(t, Root(t), Root(other))
=============================================================================
