------------------------------ MODULE LockFree ------------------------------
(***************************************************************************)
(* The node's two lock-free structures, the sketch and the telemetry, side *)
(* by side.  They share no state.                                          *)
(***************************************************************************)
EXTENDS Sketch, Sequences

CONSTANTS Recorder, bounds, Duration, MaxCommands

(* The bounds of the histogram ascend (defaultBuckets, newHistogram).      *)
ASSUME TelemetryAssumption ==
  /\ IsFiniteSet(Recorder)
  /\ bounds \in Seq(Nat) /\ Len(bounds) > 0
  /\ \A i \in 1 .. Len(bounds) - 1 : bounds[i] < bounds[i + 1]
  /\ IsFiniteSet(Duration) /\ Duration \subseteq Nat
  /\ MaxCommands \in Nat

VARIABLES stats, count, sum, counts, rec, quantile, name, moved, observed

T == INSTANCE Telemetry

(* Quantiles taken while commands record bracket the truth (Telemetry). *)
QuantileIsBracketed == T!QuantileIsBracketed

(* The counters agree between commands (Telemetry). *)
CountersAgree == T!CountersAgree
=============================================================================
