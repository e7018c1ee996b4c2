-------------------------------- MODULE Cache --------------------------------
(***************************************************************************)
(* What a store promises its callers (the Store interface of               *)
(* internal/store/store.go), with capacity, expiry, locks and janitor      *)
(* abstracted away: a write replaces or extends what a key showed, and a   *)
(* cache may forget keys, but never shows what was not written or what was *)
(* forgotten.                                                              *)
(***************************************************************************)
CONSTANTS Key, Write, None

VARIABLE view   \* view[k]: the writes Get(k) shows, None if it finds nothing

Init == view = [k \in Key |-> None]

(* Keys expire, are deleted or get evicted. *)
Forget == \E S \in SUBSET Key : view' = [k \in Key |-> IF k \in S THEN None ELSE view[k]]

(* A write shows, and at most one other key makes room for it. *)
Show(k, value) ==
  \/ view' = [view EXCEPT ![k] = value]
  \/ \E victim \in Key \ {k} : view' = [view EXCEPT ![k] = value, ![victim] = None]

Replace(k) == \E w \in Write : Show(k, {w})

Extend(k) == \E w \in Write : Show(k, (IF view[k] = None THEN {} ELSE view[k]) \cup {w})

Next == Forget \/ \E k \in Key : Replace(k) \/ Extend(k)

Spec == Init /\ [][Next]_view
=============================================================================
