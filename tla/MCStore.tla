------------------------------- MODULE MCStore -------------------------------
EXTENDS Store, TLC

CONSTANTS k1, k2, k3

(* Two keys compete for the first shard, which is full with one of them.   *)
TwoShards == (k1 :> 1) @@ (k2 :> 1) @@ (k3 :> 2)

WriteSymmetry == Permutations(Write)
=============================================================================
