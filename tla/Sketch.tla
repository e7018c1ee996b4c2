------------------------------- MODULE Sketch -------------------------------
(***************************************************************************)
(* The count-min sketch behind TinyLFU (internal/store/sketch.go).  Gets   *)
(* of one shard run add under a shared read lock, so adds overlap and only *)
(* single loads, adds and stores of a cell are atomic.                     *)
(***************************************************************************)
EXTENDS Integers, FiniteSets, FiniteSetsExt

CONSTANTS Adder, Key,
          sketchDepth,   \* rows
          Width,         \* columns of a row
          column,        \* column[row, k]: the cell of k in a row
          counterMax,    \* a counter saturates here
          sampleSize,    \* adds between two resets
          MaxAdds        \* bound on adds

Row  == 1 .. sketchDepth
Cell == Row \X (1 .. Width)

ASSUME SketchAssumption ==
  /\ IsFiniteSet(Adder) /\ Adder # {}
  /\ sketchDepth \in Nat \ {0} /\ Width \in Nat \ {0}
  /\ column \in [Row \X Key -> Cell]
  /\ counterMax \in Nat /\ sampleSize \in Nat \ {0} /\ MaxAdds \in Nat

VARIABLES
  counters,  \* counters[cell]
  size,      \* adds since the last reset
  pc,        \* pc[g]: where g's add stands
  adds,      \* number of adds begun
  seen,      \* history: finished adds of a key
  aged       \* history: a reset has begun

vars == <<counters, size, pc, adds, seen, aged>>

Init ==
  /\ counters = [c \in Cell |-> 0]
  /\ size = 0
  /\ pc = [g \in Adder |-> [at |-> "idle"]]
  /\ adds = 0
  /\ seen = [k \in Key |-> 0]
  /\ aged = FALSE

goto(g, state) == pc' = [pc EXCEPT ![g] = state]

(* The state after the cell of a row is done with. *)
nextRow(k, row) ==
  IF row = sketchDepth THEN [at |-> "size", key |-> k]
  ELSE [at |-> "load", key |-> k, row |-> row + 1]

-----------------------------------------------------------------------------
(* add *)

add(g, k) ==
  /\ pc[g].at = "idle"
  /\ adds < MaxAdds
  /\ adds' = adds + 1
  /\ goto(g, [at |-> "load", key |-> k, row |-> 1])
  /\ UNCHANGED <<counters, size, seen, aged>>

(* Mutant: the counter is compared with the maximum inclusively. *)
loadCellInclusive(g) ==
  /\ pc[g].at = "load"
  /\ LET q == pc[g]
     IN  IF counters[column[q.row, q.key]] <= counterMax
         THEN goto(g, [q EXCEPT !.at = "incr"])
         ELSE goto(g, nextRow(q.key, q.row))
  /\ UNCHANGED <<counters, size, adds, seen, aged>>

loadCell(g) ==
  /\ pc[g].at = "load"
  /\ LET q == pc[g]
     IN  IF counters[column[q.row, q.key]] < counterMax
         THEN goto(g, [q EXCEPT !.at = "incr"])
         ELSE goto(g, nextRow(q.key, q.row))
  /\ UNCHANGED <<counters, size, adds, seen, aged>>

(* Mutant: only the first row is incremented while the rest lag behind. *)
incrCellFirst(g) ==
  /\ pc[g].at = "incr"
  /\ counters' = [counters EXCEPT ![column[pc[g].row, pc[g].key]] =
                    IF pc[g].row = 1 \/ @ = 0 THEN @ + 1 ELSE @]
  /\ goto(g, nextRow(pc[g].key, pc[g].row))
  /\ UNCHANGED <<size, adds, seen, aged>>

incrCell(g) ==
  /\ pc[g].at = "incr"
  /\ counters' = [counters EXCEPT ![column[pc[g].row, pc[g].key]] = @ + 1]
  /\ goto(g, nextRow(pc[g].key, pc[g].row))
  /\ UNCHANGED <<size, adds, seen, aged>>

addSize(g) ==
  /\ pc[g].at = "size"
  /\ size' = size + 1
  /\ goto(g, [pc[g] EXCEPT !.at = "check"])
  /\ UNCHANGED <<counters, adds, seen, aged>>

(* Mutant: the sketch ages only when the size is exactly the sample. *)
checkSizeExact(g) ==
  /\ pc[g].at = "check"
  /\ seen' = [seen EXCEPT ![pc[g].key] = @ + 1]
  /\ IF size = sampleSize
     THEN goto(g, [at |-> "age", left |-> Cell]) /\ aged' = TRUE
     ELSE goto(g, [at |-> "idle"]) /\ UNCHANGED aged
  /\ UNCHANGED <<counters, size, adds>>

checkSize(g) ==
  /\ pc[g].at = "check"
  /\ seen' = [seen EXCEPT ![pc[g].key] = @ + 1]
  /\ IF size >= sampleSize
     THEN goto(g, [at |-> "age", left |-> Cell]) /\ aged' = TRUE
     ELSE goto(g, [at |-> "idle"]) /\ UNCHANGED aged
  /\ UNCHANGED <<counters, size, adds>>

-----------------------------------------------------------------------------
(* reset: every counter is loaded, then its half stored; then size.        *)

(* The cells are visited in their row-major order. *)
firstCell(cells) ==
  CHOOSE c \in cells :
    \A d \in cells : c[1] < d[1] \/ (c[1] = d[1] /\ c[2] <= d[2])

loadCounter(g) ==
  /\ pc[g].at = "age"
  /\ pc[g].left # {}
  /\ LET c == firstCell(pc[g].left)
     IN  goto(g, [at |-> "halve", left |-> pc[g].left \ {c}, cell |-> c,
                  old |-> counters[c]])
  /\ UNCHANGED <<counters, size, adds, seen, aged>>

storeHalf(g) ==
  /\ pc[g].at = "halve"
  /\ counters' = [counters EXCEPT ![pc[g].cell] = pc[g].old \div 2]
  /\ goto(g, [at |-> "age", left |-> pc[g].left])
  /\ UNCHANGED <<size, adds, seen, aged>>

clearSize(g) ==
  /\ pc[g].at = "age"
  /\ pc[g].left = {}
  /\ size' = 0
  /\ goto(g, [at |-> "idle"])
  /\ UNCHANGED <<counters, adds, seen, aged>>

Step(g) ==
  \/ loadCell(g) \/ incrCell(g) \/ addSize(g) \/ checkSize(g)
  \/ loadCounter(g) \/ storeHalf(g) \/ clearSize(g)

Next == \E g \in Adder : Step(g) \/ \E k \in Key : add(g, k)

Spec == Init /\ [][Next]_vars

-----------------------------------------------------------------------------
(* Properties *)

(* estimate, capped at counterMax as in the code. *)
estimate(k) == Min({counterMax} \cup {counters[column[row, k]] : row \in Row})

(* Overlapping adds pass the saturation check together, and a reset may    *)
(* store half of a stale count over a cell that others have halved since   *)
(* and then passed the check of.  Still a counter exceeds the cap by less  *)
(* than the number of adders or, with many of them, stays below twice that *)
(* number (add's load, then Add; reset's load, then Store).                *)
OvershootIsBounded ==
  LET n == Cardinality(Adder)
  IN  \A c \in Cell : counters[c] <= counterMax + n - 1 \/ counters[c] <= 2 * n - 3

(* Until the first reset, no overlap of adds makes a key look rarer than   *)
(* it is: the estimate is at least the number of finished adds of the key, *)
(* up to the cap (add increments the cell of every row).                   *)
NeverUnderestimates ==
  ~aged => \A k \in Key : estimate(k) >= Min({counterMax, seen[k]})

(* When no add is in progress the sketch is not due for aging: overlapping *)
(* adds cannot step over the sample size without one of them resetting     *)
(* (add's size check, reset's store of zero).                              *)
AgingIsNotMissed == (\A g \in Adder : pc[g].at = "idle") => size < sampleSize
=============================================================================
