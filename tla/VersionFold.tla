----------------------------- MODULE VersionFold -----------------------------
(***************************************************************************)
(* The loop that folds a fetched sibling set into a local one.  It occurs  *)
(* in Coordinator.read, in readRepair and in AntiEntropy.syncWith; the     *)
(* order of "incoming" is the order in which the peer happened to store    *)
(* its siblings, so the loop may visit them in any order.                  *)
(***************************************************************************)
EXTENDS Versions

VARIABLES existing,   \* the set the loop starts from
          incoming,   \* the fetched set
          todo,       \* members of incoming not yet visited
          result      \* the accumulator

foldVars == <<existing, incoming, todo, result>>

SiblingSets == {S \in SUBSET Version : Siblings(S)}

FoldInit ==
  /\ existing \in SiblingSets
  /\ incoming \in SiblingSets
  /\ todo = incoming
  /\ result = existing

FoldStep(v) ==
  /\ v \in todo
  /\ result' = Reconcile(result, v)
  /\ todo' = todo \ {v}
  /\ UNCHANGED <<existing, incoming>>

FoldNext == \E v \in todo : FoldStep(v)

FoldSpec == FoldInit /\ [][FoldNext]_foldVars

FoldTypeOK ==
  /\ existing \in SiblingSets
  /\ incoming \in SiblingSets
  /\ todo \in SUBSET incoming
  /\ result \in SUBSET Version

(* At every point of the loop the accumulator is what ReconcileAll gives   *)
(* for the versions visited so far, whichever they are: the outcome does   *)
(* not depend on the order in which a peer returned its siblings.          *)
FoldIsReconcileAll == result = ReconcileAll(existing, incoming \ todo)

(* The accumulator is again a sibling set: no entry of it supersedes or    *)
(* repeats another, so a stored blob never holds a stale version.          *)
FoldKeepsSiblings == Siblings(result)
=============================================================================
