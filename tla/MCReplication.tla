---------------------------- MODULE MCReplication ----------------------------
EXTENDS Replication, TLC

CONSTANT MaxLate   \* bound on abandoned requests outstanding at once

FewLate == Cardinality(late) <= MaxLate

(* The replayer has not ticked yet. *)
NoReplay == \A c, p \in Node : replay[c][p] = "none"

(* Client operations are interchangeable. *)
OpSymmetry == Permutations(Op)
=============================================================================
