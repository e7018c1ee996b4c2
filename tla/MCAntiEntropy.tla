---------------------------- MODULE MCAntiEntropy ----------------------------
EXTENDS AntiEntropy

(* Of four leaves, two keys in the first and the second, which have one    *)
(* parent.                                                                 *)
Neighbours == <<0, 5>>
=============================================================================
