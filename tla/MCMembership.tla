---------------------------- MODULE MCMembership ----------------------------
EXTENDS Membership, TLC

CONSTANTS s, a, b

(* The seed has no seeds of its own; every other node is given the seed. *)
OneSeed == [n \in Node |-> IF n = s THEN {} ELSE {s}]

FollowerSymmetry == Permutations({a, b})
=============================================================================
