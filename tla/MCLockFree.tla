----------------------------- MODULE MCLockFree -----------------------------
(***************************************************************************)
(* The node's two lock-free structures, the sketch and the telemetry.      *)
(* They share no state, so no interleaving of the two is of interest: a    *)
(* behaviour exercises one of them and leaves the other as it started.     *)
(***************************************************************************)
EXTENDS LockFree, TLC

CONSTANTS x, y

telemetryVars ==
  <<stats, count, sum, counts, rec, quantile, name, moved, observed>>

(* Two buckets and the overflow. *)
Bounds == <<2, 4>>

(* The keys share a column in the first row and not in the second. *)
HalfShared ==
  (<<1, x>> :> <<1, 1>>) @@ (<<1, y>> :> <<1, 1>>)
    @@ (<<2, x>> :> <<2, 1>>) @@ (<<2, y>> :> <<2, 2>>)

LockFreeInit == Init /\ T!Init

(* The sketch knows no commands. *)
SketchOnly == T!Init /\ name = "GET" /\ UNCHANGED telemetryVars
TelemetryOnly == Init /\ UNCHANGED vars

LockFreeNext ==
  \/ \E g \in Adder :
       \/ \E k \in Key : add(g, k) /\ SketchOnly
       \/ loadCell(g) /\ SketchOnly
       \/ incrCell(g) /\ SketchOnly
       \/ addSize(g) /\ SketchOnly
       \/ checkSize(g) /\ SketchOnly
       \/ loadCounter(g) /\ SketchOnly
       \/ storeHalf(g) /\ SketchOnly
       \/ clearSize(g) /\ SketchOnly
  \/ \E g \in Recorder :
       \/ T!RecordCommand(g) /\ TelemetryOnly
       \/ T!redirect(g) /\ TelemetryOnly
       \/ \E d \in Duration : T!RecordDuration(g, d) /\ TelemetryOnly
       \/ T!Observe(g) /\ TelemetryOnly
       \/ \E reply \in T!Reply : T!recordOutcome(g, reply) /\ TelemetryOnly
  \/ \E percent \in {50, 99} : T!Quantile(percent) /\ TelemetryOnly
  \/ T!loadCount /\ TelemetryOnly
  \/ T!loadBucket /\ TelemetryOnly
  \/ T!return /\ TelemetryOnly

LockFreeSpec == LockFreeInit /\ [][LockFreeNext]_<<vars, telemetryVars>>

Symmetry == Permutations(Adder) \cup Permutations(Recorder)
=============================================================================
