------------------------- MODULE ReplicationCollect -------------------------
(***************************************************************************)
(* Replication with the tombstone collector (internal/server/              *)
(* tombstonegc.go) at some nodes: the coordinator's clocks, which are      *)
(* minted from what is stored, meet a store that forgets.                  *)
(***************************************************************************)
EXTENDS Replication

CONSTANTS Grace,        \* tombstone grace period, in seconds
          CollectNode   \* nodes that run the tombstone collector

VARIABLE sweep   \* sweep[n]: the "now" of a sweep that has the key on its list

collectVars == <<vars, sweep>>

CollectInit ==
  /\ Init
  /\ sweep = [n \in Node |-> None]

(* First half of a sweep: Range puts the key on the list. *)
sweepScan(n) ==
  /\ sweep[n] = None
  /\ reapable(store[n], now, Grace)
  /\ sweep' = [sweep EXCEPT ![n] = now]
  /\ UNCHANGED vars

(* Second half: DeleteIf judges the set stored by then, under the lock. *)
sweepReap(n) ==
  /\ sweep[n] # None
  /\ store' = IF reapable(store[n], sweep[n], Grace)
              THEN [store EXCEPT ![n] = {}] ELSE store
  /\ sweep' = [sweep EXCEPT ![n] = None]
  /\ UNCHANGED <<opVars, late, hintVars, readVars, syncVars, now>>

CollectNext ==
  \/ Next /\ UNCHANGED sweep
  \/ \E n \in CollectNode : sweepScan(n) \/ sweepReap(n)

CollectSpec == CollectInit /\ [][CollectNext]_collectVars
=============================================================================
