------------------------------ MODULE MCRouter ------------------------------
EXTENDS Router

CONSTANTS a, b, c

Place(pa, pb, pc) == [n \in Node |-> IF n = a THEN pa ELSE IF n = b THEN pb ELSE pc]

(* Two virtual points per node: those of a apart, those of b and of c next *)
(* to each other, and the last position past every point.                  *)
Interleaved == {Place(<<0, 3>>, <<1, 2>>, <<4, 5>>)}
=============================================================================
