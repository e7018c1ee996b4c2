------------------------ MODULE MCReplicationCollect ------------------------
EXTENDS ReplicationCollect, TLC

(* No call fails: every peer answers every request at the first attempt. *)
Healthy ==
  /\ late = {}
  /\ \A o \in Op, p \in Node :
       fan[o][p] \in {"none", "sent", "served", "acked"}

(* One client, which waits for every answer. *)
Sequential ==
  /\ Cardinality({o \in Op : phase[o] = "wait"}) <= 1
  /\ \A r \in Read : rphase[r] # "idle" => \A o \in Op : phase[o] # "wait"

(* Client operations are interchangeable. *)
OpSymmetry == Permutations(Op)
=============================================================================
