-------------------------- MODULE ReplicationProofs --------------------------
(***************************************************************************)
(* Proofs about Replication, for every set of nodes, quorum, number of     *)
(* operations and number of lost, late or repeated requests.               *)
(***************************************************************************)
EXTENDS Replication, VersionTheorems, FiniteSetTheorems

(* One entry of a table is updated. *)
LEMMA UpdateEntry ==
  ASSUME NEW A, NEW B, NEW T, NEW f \in [A -> [B -> T]],
         NEW a \in A, NEW b \in B, NEW x
  PROVE  \A i \in A, j \in B : [f EXCEPT ![a][b] = x][i][j]
                                 = IF i = a /\ j = b THEN x ELSE f[i][j]
BY Zenon

-----------------------------------------------------------------------------
(* Layer 1: types. *)

(* The types, and what the control state says about the versions it refers *)
(* to.  Every set held or in transit is a sibling set with a frontier.     *)
OpPart ==
  /\ phase \in [Op -> {"idle", "wait", "ok", "err"}]
  /\ coord \in [Op -> Coordinator \cup {None}]
  /\ ver \in [Op -> Version \cup {None}]
  /\ fan \in [Op -> [Node -> CallState]]
  /\ before \in [Op -> SUBSET Op]
  /\ \A o \in Op : phase[o] = "idle" => ver[o] = None
  /\ \A o \in Op : phase[o] \in {"wait", "ok"} => ver[o] # None
  /\ \A o \in Op : ver[o] # None => coord[o] # None
  /\ \A o \in Op, p \in Node :
       fan[o][p] # "none" => ver[o] # None /\ p # coord[o]

HintPart ==
  /\ hints \in [Node -> [Node -> Version \cup {None}]]
  /\ replay \in [Node -> [Node -> InFlight \cup {"none"}]]
  /\ blob \in [Node -> [Node -> Version \cup {None}]]
  /\ \A c, p \in Node : replay[c][p] # "none" => blob[c][p] # None

ReadPart ==
  /\ rphase \in [Read -> {"idle", "wait", "ok", "err"}]
  /\ rcoord \in [Read -> Coordinator \cup {None}]
  /\ rget \in [Read -> [Node -> {"none", "sent", "replied", "failed", "used"}]]
  /\ got \in [Read -> [Node -> SibSet]]
  /\ merged \in [Read -> SibSet]
  /\ repair \in [Read -> SUBSET Node]
  /\ seen \in [Read -> SUBSET Op]

SyncPart ==
  /\ sync \in [Node -> {"idle", "tree", "fetch", "apply"}]
  /\ peer \in [Node -> Node \cup {None}]
  /\ entries \in [Node -> SibSet]

TypeInv ==
  /\ store \in [Node -> SibSet]
  /\ late \in SUBSET Request
  /\ now \in 0 .. MaxTime
  /\ OpPart /\ HintPart /\ ReadPart /\ SyncPart

(* What a step leaves alone keeps its type. *)
LEMMA Frame ==
  ASSUME TypeInv
  PROVE  /\ UNCHANGED store => store' \in [Node -> SibSet]
         /\ UNCHANGED late => late' \in SUBSET Request
         /\ UNCHANGED now => now' \in 0 .. MaxTime
         /\ UNCHANGED opVars => OpPart'
         /\ UNCHANGED hintVars => HintPart'
         /\ UNCHANGED readVars => ReadPart'
         /\ UNCHANGED syncVars => SyncPart'
<1>1. UNCHANGED opVars => OpPart'
  BY Zenon DEF TypeInv, OpPart, opVars
<1>2. UNCHANGED hintVars => HintPart'
  BY Zenon DEF TypeInv, HintPart, hintVars
<1>3. UNCHANGED readVars => ReadPart'
  BY Zenon DEF TypeInv, ReadPart, readVars
<1>4. UNCHANGED syncVars => SyncPart'
  BY Zenon DEF TypeInv, SyncPart, syncVars
<1>5. QED
  BY <1>1, <1>2, <1>3, <1>4, Zenon DEF TypeInv

LEMMA LaunchType ==
  ASSUME TypeInv, NEW o \in Op, NEW c \in Coordinator, NEW v \in Version,
         phase[o] = "idle", launch(o, c, v)
  PROVE  TypeInv'
<1>1. c \in Node /\ v # None /\ None \notin Node
  BY ReplicationAssumption, Zenon
<1>2. store' \in [Node -> SibSet]
  BY <1>1, SibSetReconcile, Zenon DEF launch, TypeInv
<1>3. OpPart'
  BY <1>1, Zenon DEF launch, TypeInv, OpPart, Acknowledged, CallState, InFlight, peersExcept
<1>4. QED
  BY <1>2, <1>3, Frame, Zenon DEF launch, TypeInv

LEMMA TypeStep == TypeInv /\ [Next]_vars => TypeInv'
<1> SUFFICES ASSUME TypeInv, [Next]_vars
             PROVE  TypeInv'
  BY Zenon
<1>0. /\ Coordinator \subseteq Node /\ SyncNode \subseteq Node
      /\ None \notin Node /\ None \notin Version
  BY ReplicationAssumption, Zenon
<1>a. /\ store \in [Node -> SibSet] /\ now \in Nat
      /\ late \in SUBSET Request
  BY ReplicationAssumption DEF TypeInv
<1>b. OpPart
  BY Zenon DEF TypeInv
<1>c. HintPart
  BY Zenon DEF TypeInv
<1>d. ReadPart
  BY Zenon DEF TypeInv
<1>e. SyncPart
  BY Zenon DEF TypeInv
(* The writer and the fan-out. *)
<1>1. ASSUME NEW o \in Op, NEW c \in Coordinator, NEW x \in Value, write(o, c, x)
      PROVE  TypeInv'
  <2> DEFINE v == [value |-> x, clock |-> mint(c), deleted |-> FALSE, deletedAt |-> 0]
  <2>1. mint(c) \in Clock
    BY <1>0, <1>a, MintedClock, Zenon DEF mint
  <2>2. v \in Version
    BY <2>1, Zenon DEF Version
  <2>3. phase[o] = "idle" /\ launch(o, c, v)
    BY <1>1, Zenon DEF write
  <2> HIDE DEF v
  <2>4. QED
    BY <2>2, <2>3, LaunchType, Zenon
<1>2. ASSUME NEW o \in Op, NEW c \in Coordinator, delete(o, c)
      PROVE  TypeInv'
  <2>a. PICK at \in 0 .. now : launch(o, c, Tombstone(mint(c), at))
    BY <1>2, Zenon DEF delete
  <2> DEFINE v == Tombstone(mint(c), at)
  <2>1. mint(c) \in Clock
    BY <1>0, <1>a, MintedClock, Zenon DEF mint
  <2>2. v \in Version
    BY <1>a, <2>1 DEF Version, Tombstone
  <2>3. phase[o] = "idle" /\ launch(o, c, v)
    BY <1>2, <2>a, Zenon DEF delete
  <2> HIDE DEF v
  <2>4. QED
    BY <2>2, <2>3, LaunchType, Zenon
<1>3. ASSUME NEW o \in Op, refuse(o) \/ gatherMet(o) \/ gatherShort(o)
      PROVE  TypeInv'
  <2>1. OpPart'
    BY <1>3, <1>b DEF refuse, gatherMet, gatherShort, OpPart
  <2>2. QED
    BY <1>3, <2>1, Frame, Zenon DEF refuse, gatherMet, gatherShort, TypeInv
<1>4. ASSUME NEW o \in Op, NEW p \in Node, rset(o, p)
      PROVE  TypeInv'
  <2>1. ver[o] \in Version
    BY <1>4, <1>b, Zenon DEF rset, Unserved, OpPart
  <2>2. store' \in [Node -> SibSet]
    BY <1>4, <1>a, <2>1, SibSetReconcile, Zenon DEF rset
  <2>3. serve(fan[o][p]) \in CallState \ {"none"}
    BY Zenon DEF serve, CallState, InFlight
  <2>4. OpPart'
    BY <1>4, <1>b, <2>3, Zenon DEF rset, Unserved, OpPart
  <2>5. QED
    BY <1>4, <2>2, <2>4, Frame, Zenon DEF rset, TypeInv
<1>5. ASSUME NEW o \in Op, NEW p \in Node, redial(o, p)
      PROVE  TypeInv'
  <2>1. ver[o] \in Version
    BY <1>5, <1>b, Zenon DEF redial, OpPart
  <2>2. late' \in SUBSET Request
    BY <1>5, <1>a, <2>1 DEF redial, abandoned, Request
  <2>3. OpPart'
    BY <1>5, <1>b DEF redial, OpPart, CallState, InFlight
  <2>4. QED
    BY <1>5, <2>2, <2>3, Frame, Zenon DEF redial, TypeInv
<1>6. ASSUME NEW o \in Op, NEW p \in Node, ack(o, p)
      PROVE  TypeInv'
  <2>1. OpPart'
    BY <1>6, <1>b DEF ack, OpPart, Served, CallState, InFlight
  <2>2. QED
    BY <1>6, <2>1, Frame, Zenon DEF ack, TypeInv
<1>7. ASSUME NEW o \in Op, NEW p \in Node, park(o, p)
      PROVE  TypeInv'
  <2>1. ver[o] \in Version /\ coord[o] \in Node
    BY <1>0, <1>7, <1>b, Zenon DEF park, add, InFlight, OpPart
  <2>2. late' \in SUBSET Request
    BY <1>7, <1>a, <2>1 DEF park, add, abandoned, Request
  <2>3. OpPart'
    BY <1>7, <1>b, Zenon DEF park, add, OpPart, CallState, InFlight
  <2>4. HintPart'
    BY <1>7, <1>c, <2>1, Zenon DEF park, add, HintPart
  <2>5. QED
    BY <1>7, <2>2, <2>3, <2>4, Frame, Zenon DEF park, add, TypeInv
<1>8. ASSUME NEW m \in late, rsetLate(m)
       PROVE  TypeInv'
  <2>1. m.to \in Node /\ m.ver \in Version
    BY <1>a, Zenon DEF Request
  <2>2. store' \in [Node -> SibSet] /\ late' \in SUBSET Request
    BY <1>8, <1>a, <2>1, SibSetReconcile, Zenon DEF rsetLate
  <2>3. QED
    BY <1>8, <2>2, Frame, Zenon DEF rsetLate, TypeInv
(* The replayer. *)
<1>9. ASSUME NEW c \in Coordinator, replayOnce(c)
       PROVE  TypeInv'
  <2>1. HintPart'
    BY <1>0, <1>9, <1>c, Zenon DEF replayOnce, snapshot, HintPart, InFlight
  <2>2. QED
    BY <1>9, <2>1, Frame, Zenon DEF replayOnce, snapshot, TypeInv
<1>10. ASSUME NEW c \in Coordinator, NEW p \in Node, rsetReplay(c, p)
       PROVE  TypeInv'
  <2>1. blob[c][p] \in Version
    BY <1>0, <1>10, <1>c DEF rsetReplay, Unserved, HintPart
  <2>2. store' \in [Node -> SibSet]
    BY <1>10, <1>a, <2>1, SibSetReconcile, Zenon DEF rsetReplay
  <2>3. serve(replay[c][p]) \in InFlight
    BY Zenon DEF serve, InFlight
  <2>4. HintPart'
    BY <1>0, <1>10, <1>c, <2>3, Zenon DEF rsetReplay, Unserved, HintPart
  <2>5. QED
    BY <1>10, <2>2, <2>4, Frame, Zenon DEF rsetReplay, TypeInv
<1>11. ASSUME NEW c \in Coordinator, NEW p \in Node,
              redialReplay(c, p) \/ replayFailed(c, p)
       PROVE  TypeInv'
  <2>1. blob[c][p] \in Version
    BY <1>0, <1>11, <1>c DEF redialReplay, replayFailed, InFlight, HintPart
  <2>2. late' \in SUBSET Request
    BY <1>11, <1>a, <2>1 DEF redialReplay, replayFailed, abandoned, Request
  <2>3. HintPart'
    <3>1. CASE redialReplay(c, p)
      BY <1>0, <1>c, <3>1, Zenon DEF redialReplay, HintPart, InFlight
    <3>2. CASE replayFailed(c, p)
      BY <1>0, <1>c, <3>2, Zenon DEF replayFailed, HintPart
    <3>3. QED
      BY <1>11, <3>1, <3>2, Zenon
  <2>4. QED
    BY <1>11, <2>2, <2>3, Frame, Zenon DEF redialReplay, replayFailed, TypeInv
<1>12. ASSUME NEW c \in Coordinator, NEW p \in Node, replayed(c, p)
       PROVE  TypeInv'
  <2>1. HintPart'
    BY <1>0, <1>12, <1>c, Zenon DEF replayed, remove, HintPart
  <2>2. QED
    BY <1>12, <2>1, Frame, Zenon DEF replayed, TypeInv
(* The reader and read repair. *)
<1>13. ASSUME NEW r \in Read, NEW c \in Coordinator, read(r, c)
       PROVE  TypeInv'
  <2>1. ReadPart'
    BY <1>0, <1>13, <1>a, <1>d, Zenon DEF read, ReadPart, Acknowledged
  <2>2. QED
    BY <1>13, <2>1, Frame, Zenon DEF read, TypeInv
<1>14. ASSUME NEW r \in Read, NEW p \in Node, rgetServed(r, p) \/ rgetFailed(r, p)
       PROVE  TypeInv'
  <2>1. ReadPart'
    <3>1. CASE rgetServed(r, p)
      BY <1>a, <1>d, <3>1, Zenon DEF rgetServed, ReadPart
    <3>2. CASE rgetFailed(r, p)
      BY <1>d, <3>2, SibSetEmpty, Zenon DEF rgetFailed, ReadPart
    <3>3. QED
      BY <1>14, <3>1, <3>2, Zenon
  <2>2. QED
    BY <1>14, <2>1, Frame, Zenon DEF rgetServed, rgetFailed, TypeInv
<1>15. ASSUME NEW r \in Read, NEW p \in Node, receive(r, p)
       PROVE  TypeInv'
  <2>1. ReconcileAll(merged[r], got[r][p]) \in SibSet
    BY <1>d, SibSetReconcileAll, Zenon DEF ReadPart
  <2>2. ReadPart'
    BY <1>15, <1>d, <2>1, Zenon DEF receive, ReadPart
  <2>3. QED
    BY <1>15, <2>2, Frame, Zenon DEF receive, TypeInv
<1>16. ASSUME NEW r \in Read, readMet(r) \/ readShort(r)
       PROVE  TypeInv'
  <2>1. ReadPart'
    <3>1. CASE readMet(r)
      BY <1>d, <3>1, SibSetEmpty, Zenon DEF readMet, ReadPart
    <3>2. CASE readShort(r)
      BY <1>d, <3>2, Zenon DEF readShort, ReadPart
    <3>3. QED
      BY <1>16, <3>1, <3>2, Zenon
  <2>2. QED
    BY <1>16, <2>1, Frame, Zenon DEF readMet, readShort, TypeInv
<1>17. ASSUME NEW r \in Read, repairSelf(r)
       PROVE  TypeInv'
  <2>1. rcoord[r] \in Node
    BY <1>17, <1>d, Zenon DEF repairSelf, ReadPart
  <2>2. store' \in [Node -> SibSet]
    BY <1>17, <1>a, <1>d, <2>1, SibSetReconcileAll, Zenon DEF repairSelf, ReadPart
  <2>3. ReadPart'
    BY <1>17, <1>d, Zenon DEF repairSelf, ReadPart
  <2>4. QED
    BY <1>17, <2>2, <2>3, Frame, Zenon DEF repairSelf, TypeInv
<1>18. ASSUME NEW r \in Read, NEW p \in Node, repairPeer(r, p)
       PROVE  TypeInv'
  <2>1. merged[r] \in SUBSET Version
    BY <1>d, SibSetVersions, Zenon DEF ReadPart
  <2>2. late' \in SUBSET Request
    BY <1>18, <1>a, <2>1 DEF repairPeer, Request
  <2>3. ReadPart'
    BY <1>18, <1>d, Zenon DEF repairPeer, ReadPart
  <2>4. QED
    BY <1>18, <2>2, <2>3, Frame, Zenon DEF repairPeer, TypeInv
(* Anti-entropy, and time. *)
<1>19. ASSUME NEW n \in SyncNode, NEW p \in Node,
              syncStart(n, p) \/ syncFetch(n, p)
       PROVE  TypeInv'
  <2>1. SyncPart'
    BY <1>0, <1>19, <1>a, <1>e DEF syncStart, syncFetch, SyncPart
  <2>2. QED
    BY <1>19, <2>1, Frame, Zenon DEF syncStart, syncFetch, TypeInv
<1>20. ASSUME NEW n \in SyncNode, NEW p \in Node, syncTree(n, p)
       PROVE  TypeInv'
  <2>1. SyncPart'
    BY <1>0, <1>20, <1>e, SibSetEmpty, Zenon DEF syncTree, SyncPart
  <2>2. QED
    BY <1>20, <2>1, Frame, Zenon DEF syncTree, TypeInv
<1>21. ASSUME NEW n \in SyncNode, syncApply(n)
       PROVE  TypeInv'
  <2>1. store' \in [Node -> SibSet]
    BY <1>0, <1>21, <1>a, <1>e, SibSetReconcileAll, Zenon DEF syncApply, SyncPart
  <2>2. SyncPart'
    BY <1>0, <1>21, <1>e, SibSetEmpty, Zenon DEF syncApply, SyncPart
  <2>3. QED
    BY <1>21, <2>1, <2>2, Frame, Zenon DEF syncApply, TypeInv
<1>22. ASSUME NEW n \in SyncNode, syncFailed(n)
       PROVE  TypeInv'
  <2>1. SyncPart'
    BY <1>0, <1>22, <1>e, SibSetEmpty, Zenon DEF syncFailed, SyncPart
  <2>2. QED
    BY <1>22, <2>1, Frame, Zenon DEF syncFailed, TypeInv
<1>23. ASSUME Tick
       PROVE  TypeInv'
  BY <1>23, Frame, ReplicationAssumption DEF Tick, TypeInv
<1>24. CASE UNCHANGED vars
  BY <1>24, Frame, Zenon DEF vars, TypeInv
<1>25. QED
  BY <1>1, <1>2, <1>3, <1>4, <1>5, <1>6, <1>7, <1>8, <1>9, <1>10, <1>11, <1>12,
     <1>13, <1>14, <1>15, <1>16, <1>17, <1>18, <1>19, <1>20, <1>21, <1>22, <1>23,
     <1>24, Zenon
     DEF Next, OpStep, HandoffStep, ReadStep, SyncStep

LEMMA TypeInit == Init => TypeInv
<1> SUFFICES ASSUME Init
             PROVE  TypeInv
  BY Zenon
<1>1. OpPart
  BY Zenon DEF Init, OpPart, CallState
<1>2. HintPart
  BY Zenon DEF Init, HintPart
<1>3. ReadPart
  BY SibSetEmpty, Zenon DEF Init, ReadPart
<1>4. SyncPart
  BY SibSetEmpty, Zenon DEF Init, SyncPart
<1>5. QED
  BY <1>1, <1>2, <1>3, <1>4, SibSetEmpty, ReplicationAssumption DEF Init, TypeInv

LEMMA TypeInvariant == Spec => []TypeInv
BY TypeInit, TypeStep, PTL DEF Spec

(* Every variable keeps its type; in particular the clock a write mints is *)
(* always a clock, because the frontier of what a node stores exists.      *)
THEOREM TypeCorrect == Spec => []TypeOK
<1>1. TypeInv => TypeOK
  BY SibSetVersions DEF TypeInv, OpPart, HintPart, ReadPart, SyncPart, TypeOK
<1>2. QED
  BY <1>1, TypeInvariant, PTL

(* No replica ever stores a version next to one that supersedes it. *)
THEOREM StoresStaySiblings == Spec => []StoresAreSiblings
<1>1. TypeInv => StoresAreSiblings
  BY Zenon DEF SibSet, StoresAreSiblings, TypeInv
<1>2. QED
  BY <1>1, TypeInvariant, PTL

-----------------------------------------------------------------------------
(* Layer 2: what a step may do to a store. *)

(* A store is left alone, or one version or one sibling set is folded in.  *)
Folded(S, T) ==
  \/ T = S
  \/ \E v \in Version : T = Reconcile(S, v)
  \/ \E U \in SibSet : T = ReconcileAll(S, U)

LEMMA StoreStep ==
  ASSUME TypeInv, [Next]_vars, NEW n \in Node
  PROVE  Folded(store[n], store'[n])
<1> USE DEF Folded
<1>0. Coordinator \subseteq Node /\ SyncNode \subseteq Node /\ None \notin Version
  BY ReplicationAssumption, Zenon
<1>00. store \in [Node -> SibSet] /\ merged \in [Read -> SibSet]
       /\ entries \in [Node -> SibSet] /\ now \in Nat
  BY ReplicationAssumption DEF TypeInv, ReadPart, SyncPart
<1>1. ASSUME NEW o \in Op, NEW c \in Coordinator, NEW v \in Version, launch(o, c, v)
      PROVE  Folded(store[n], store'[n])
  BY <1>0, <1>00, <1>1, Zenon DEF launch
<1>2. ASSUME NEW o \in Op, NEW c \in Coordinator, NEW x \in Value, write(o, c, x)
      PROVE  Folded(store[n], store'[n])
  <2> DEFINE v == [value |-> x, clock |-> mint(c), deleted |-> FALSE, deletedAt |-> 0]
  <2>1. v \in Version
    BY <1>0, <1>00, MintedClock, Zenon DEF mint, Version
  <2>2. launch(o, c, v)
    BY <1>2, Zenon DEF write
  <2> HIDE DEF v
  <2>3. QED
    BY <1>1, <2>1, <2>2, Zenon
<1>3. ASSUME NEW o \in Op, NEW c \in Coordinator, delete(o, c)
      PROVE  Folded(store[n], store'[n])
  <2>a. PICK at \in 0 .. now : launch(o, c, Tombstone(mint(c), at))
    BY <1>3, Zenon DEF delete
  <2> DEFINE v == Tombstone(mint(c), at)
  <2>1. v \in Version
    BY <1>0, <1>00, MintedClock DEF mint, Version, Tombstone
  <2>2. launch(o, c, v)
    BY <2>a, Zenon
  <2> HIDE DEF v
  <2>3. QED
    BY <1>1, <2>1, <2>2, Zenon
<1>4. ASSUME NEW o \in Op, NEW p \in Node, rset(o, p)
      PROVE  Folded(store[n], store'[n])
  <2>1. ver[o] \in Version
    BY <1>4, Zenon DEF rset, Unserved, TypeInv, OpPart
  <2>2. QED
    BY <1>00, <1>4, <2>1, Zenon DEF rset
<1>5. ASSUME NEW m \in late, rsetLate(m)
      PROVE  Folded(store[n], store'[n])
  <2>1. m.ver \in Version /\ m.to \in Node
    BY Zenon DEF Request, TypeInv, OpPart
  <2>2. QED
    BY <1>00, <1>5, <2>1, Zenon DEF rsetLate
<1>6. ASSUME NEW c \in Coordinator, NEW p \in Node, rsetReplay(c, p)
      PROVE  Folded(store[n], store'[n])
  <2>1. blob[c][p] \in Version
    BY <1>0, <1>6 DEF rsetReplay, Unserved, TypeInv, HintPart
  <2>2. QED
    BY <1>00, <1>6, <2>1, Zenon DEF rsetReplay
<1>7. ASSUME NEW r \in Read, repairSelf(r)
      PROVE  Folded(store[n], store'[n])
  BY <1>00, <1>7, Zenon DEF repairSelf
<1>8. ASSUME NEW k \in SyncNode, syncApply(k)
      PROVE  Folded(store[n], store'[n])
  BY <1>0, <1>00, <1>8, Zenon DEF syncApply
<1>9. ASSUME UNCHANGED store
      PROVE  Folded(store[n], store'[n])
  BY <1>9, Zenon
<1> HIDE DEF Folded
(* The other steps leave every store alone. *)
<1>10. ASSUME NEW o \in Op, NEW p \in Node,
              redial(o, p) \/ ack(o, p) \/ park(o, p)
       PROVE  UNCHANGED store
  BY <1>10, Zenon DEF redial, ack, park, add
<1>11. ASSUME NEW o \in Op, refuse(o) \/ gatherMet(o) \/ gatherShort(o)
       PROVE  UNCHANGED store
  BY <1>11, Zenon DEF refuse, gatherMet, gatherShort
<1>12. ASSUME NEW c \in Coordinator, NEW p \in Node,
              redialReplay(c, p) \/ replayed(c, p) \/ replayFailed(c, p)
       PROVE  UNCHANGED store
  BY <1>12, Zenon DEF redialReplay, replayed, replayFailed
<1>13. ASSUME NEW c \in Coordinator, replayOnce(c)
       PROVE  UNCHANGED store
  BY <1>13, Zenon DEF replayOnce, snapshot
<1>14. ASSUME NEW r \in Read, NEW p \in Node,
              rgetServed(r, p) \/ rgetFailed(r, p) \/ receive(r, p) \/ repairPeer(r, p)
       PROVE  UNCHANGED store
  BY <1>14, Zenon DEF rgetServed, rgetFailed, receive, repairPeer
<1>15. ASSUME NEW r \in Read, readMet(r) \/ readShort(r) \/ \E c \in Coordinator : read(r, c)
       PROVE  UNCHANGED store
  BY <1>15, Zenon DEF readMet, readShort, read
<1>16. ASSUME NEW k \in SyncNode, NEW p \in Node,
              syncStart(k, p) \/ syncTree(k, p) \/ syncFetch(k, p)
       PROVE  UNCHANGED store
  BY <1>16, Zenon DEF syncStart, syncTree, syncFetch
<1>17. ASSUME NEW k \in SyncNode, syncFailed(k)
       PROVE  UNCHANGED store
  BY <1>17, Zenon DEF syncFailed
<1>18. ASSUME Tick \/ UNCHANGED vars
       PROVE  UNCHANGED store
  BY <1>18, Zenon DEF Tick, vars
<1>19. ASSUME NEW o \in Op, OpStep(o)
       PROVE  Folded(store[n], store'[n])
  BY <1>2, <1>3, <1>4, <1>9, <1>10, <1>11, <1>19, Zenon DEF OpStep
<1>20. ASSUME NEW c \in Coordinator, HandoffStep(c)
       PROVE  Folded(store[n], store'[n])
  BY <1>6, <1>9, <1>12, <1>13, <1>20, Zenon DEF HandoffStep
<1>21. ASSUME NEW r \in Read, ReadStep(r)
       PROVE  Folded(store[n], store'[n])
  BY <1>7, <1>9, <1>14, <1>15, <1>21, Zenon DEF ReadStep
<1>22. ASSUME NEW k \in SyncNode, SyncStep(k)
       PROVE  Folded(store[n], store'[n])
  BY <1>8, <1>9, <1>16, <1>17, <1>22, Zenon DEF SyncStep
<1>23. QED
  BY <1>5, <1>9, <1>18, <1>19, <1>20, <1>21, <1>22, Zenon DEF Next

(* What a store covers, it covers after any step. *)
LEMMA CoversStable ==
  ASSUME TypeInv, [Next]_vars, NEW n \in Node, NEW v \in Version,
         Covers(store[n], v)
  PROVE  Covers(store'[n], v)
<1>1. store[n] \in SibSet /\ store[n] \in SUBSET Version
  BY SibSetVersions, Zenon DEF TypeInv
<1>2. PICK w \in store[n] : Leq(v.clock, w.clock)
  BY Zenon DEF Covers
<1>3. Covers(store'[n], w)
  <2>1. CASE store'[n] = store[n]
    BY <1>1, <2>1, LeqReflexive, Zenon DEF Covers, Version
  <2>2. ASSUME NEW u \in Version, store'[n] = Reconcile(store[n], u)
        PROVE  Covers(store'[n], w)
    BY <1>1, <2>2, ReconcileCovers
  <2>3. ASSUME NEW U \in SibSet, store'[n] = ReconcileAll(store[n], U)
        PROVE  Covers(store'[n], w)
    BY <1>1, <2>3, ReconcileAllCovers DEF SibSet
  <2>4. QED
    BY <2>1, <2>2, <2>3, StoreStep, Zenon DEF Folded
<1>4. store'[n] \in SUBSET Version
  BY SibSetVersions, TypeStep, Zenon DEF TypeInv
<1>5. PICK u \in store'[n] : Leq(w.clock, u.clock)
  BY <1>3, Zenon DEF Covers
<1>6. Leq(v.clock, u.clock)
  BY <1>1, <1>2, <1>4, <1>5, LeqTransitive, Zenon DEF Version
<1>7. QED
  BY <1>6, Zenon DEF Covers

(* Concurrent writes are never silently lost: whatever a replica holds is  *)
(* replaced only by a version that descends it.                            *)
THEOREM NothingIsForgotten == Spec => NothingForgotten
<1>1. TypeInv /\ [Next]_vars
        => [\A n \in Node : \A v \in store[n] : Covers(store'[n], v)]_vars
  <2> SUFFICES ASSUME TypeInv, [Next]_vars, NEW n \in Node, NEW v \in store[n]
               PROVE  Covers(store'[n], v)
    BY Zenon
  <2>1. v \in Version
    BY SibSetVersions, Zenon DEF TypeInv
  <2>2. Covers(store[n], v)
    BY <2>1, LeqReflexive, Zenon DEF Covers, Version
  <2>3. QED
    BY <2>1, <2>2, CoversStable, Zenon
<1>2. QED
  BY <1>1, TypeInvariant, PTL DEF Spec, NothingForgotten
-----------------------------------------------------------------------------
(* What a step can do to the versions the client writes minted. *)

(* A step that is not a step of a client write leaves all of them alone. *)
LEMMA OtherSteps ==
  ASSUME [Next]_vars
  PROVE  (\E o \in Op : OpStep(o)) \/ UNCHANGED opVars
<1>1. ASSUME NEW m \in late, rsetLate(m)
      PROVE  UNCHANGED opVars
  BY <1>1, Zenon DEF rsetLate
<1>2. ASSUME NEW c \in Coordinator, HandoffStep(c)
      PROVE  UNCHANGED opVars
  BY <1>2, Zenon DEF HandoffStep, replayOnce, snapshot, rsetReplay, redialReplay, replayed,
              replayFailed
<1>3. ASSUME NEW r \in Read, ReadStep(r)
      PROVE  UNCHANGED opVars
  <2>1. ASSUME NEW p \in Node,
               rgetServed(r, p) \/ rgetFailed(r, p) \/ receive(r, p) \/ repairPeer(r, p)
        PROVE  UNCHANGED opVars
    BY <2>1, Zenon DEF rgetServed, rgetFailed, receive, repairPeer
  <2>2. ASSUME \/ readMet(r) \/ readShort(r) \/ repairSelf(r)
               \/ \E c \in Coordinator : read(r, c)
        PROVE  UNCHANGED opVars
    BY <2>2, Zenon DEF readMet, readShort, repairSelf, read
  <2>3. QED
    BY <1>3, <2>1, <2>2, Zenon DEF ReadStep
<1>4. ASSUME NEW n \in SyncNode, SyncStep(n)
      PROVE  UNCHANGED opVars
  BY <1>4, Zenon DEF SyncStep, syncStart, syncTree, syncFetch, syncApply, syncFailed
<1>5. ASSUME Tick \/ UNCHANGED vars
      PROVE  UNCHANGED opVars
  BY <1>5, Zenon DEF Tick, vars
<1>6. QED
  BY <1>1, <1>2, <1>3, <1>4, <1>5, Zenon DEF Next

(* A step mints one version at one coordinator, or mints nothing. *)
Mints(o, c, v) ==
  /\ phase[o] = "idle"
  /\ launch(o, c, v)
  /\ v.clock = mint(c)

LEMMA MintStep ==
  ASSUME TypeInv, [Next]_vars
  PROVE  \/ UNCHANGED <<ver, coord, before>>
         \/ \E o \in Op, c \in Coordinator, v \in Version : Mints(o, c, v)
<1>0. Coordinator \subseteq Node /\ now \in Nat /\ store \in [Node -> SibSet]
  BY ReplicationAssumption DEF TypeInv, OpPart
<1>1. ASSUME NEW o \in Op, NEW c \in Coordinator, NEW x \in Value, write(o, c, x)
      PROVE  \E v \in Version : Mints(o, c, v)
  <2> DEFINE v == [value |-> x, clock |-> mint(c), deleted |-> FALSE, deletedAt |-> 0]
  <2>1. v \in Version /\ v.clock = mint(c)
    BY <1>0, MintedClock, Zenon DEF mint, Version
  <2>2. phase[o] = "idle" /\ launch(o, c, v)
    BY <1>1, Zenon DEF write
  <2> HIDE DEF v
  <2>3. QED
    BY <2>1, <2>2, Zenon DEF Mints
<1>2. ASSUME NEW o \in Op, NEW c \in Coordinator, delete(o, c)
      PROVE  \E v \in Version : Mints(o, c, v)
  <2>a. PICK at \in 0 .. now : launch(o, c, Tombstone(mint(c), at))
    BY <1>2, Zenon DEF delete
  <2> DEFINE v == Tombstone(mint(c), at)
  <2>1. v \in Version /\ v.clock = mint(c)
    BY <1>0, MintedClock DEF mint, Version, Tombstone
  <2>2. phase[o] = "idle" /\ launch(o, c, v)
    BY <1>2, <2>a, Zenon DEF delete
  <2> HIDE DEF v
  <2>3. QED
    BY <2>1, <2>2, Zenon DEF Mints
<1>3. ASSUME NEW o \in Op, OpStep(o)
      PROVE  \/ UNCHANGED <<ver, coord, before>>
             \/ \E c \in Coordinator, v \in Version : Mints(o, c, v)
  <2>1. ASSUME NEW p \in Node, rset(o, p) \/ redial(o, p) \/ ack(o, p) \/ park(o, p)
        PROVE  UNCHANGED <<ver, coord, before>>
    BY <2>1, Zenon DEF rset, redial, ack, park, add
  <2>2. ASSUME refuse(o) \/ gatherMet(o) \/ gatherShort(o)
        PROVE  UNCHANGED <<ver, coord, before>>
    BY <2>2, Zenon DEF refuse, gatherMet, gatherShort
  <2>3. QED
    BY <1>1, <1>2, <1>3, <2>1, <2>2, Zenon DEF OpStep
<1>4. QED
  BY <1>3, OtherSteps, Zenon DEF opVars

(* A version, once minted, stays what it was. *)
LEMMA VersionsFixed ==
  ASSUME TypeInv, [Next]_vars, NEW o \in Op, ver[o] # None
  PROVE  ver'[o] = ver[o]
BY MintStep DEF Mints, launch, TypeInv, OpPart

-----------------------------------------------------------------------------
(* No two client writes of Replication ever mint the same clock, although  *)
(* every coordinator counts only in the versions its own store holds.      *)

Minted == {ver[o] : o \in Op} \ {None}

LEMMA MintedGrows ==
  ASSUME TypeInv, [Next]_vars
  PROVE  Minted \subseteq Minted'
BY VersionsFixed, Zenon DEF Minted

(* Everything stored, parked or in transit was minted by some client op. *)
Provenance ==
  /\ \A n \in Node : store[n] \subseteq Minted /\ entries[n] \subseteq Minted
  /\ \A m \in late : m.ver \in Minted
  /\ \A c, p \in Node : /\ hints[c][p] \in Minted \cup {None}
                        /\ blob[c][p] \in Minted \cup {None}
  /\ \A r \in Read : merged[r] \subseteq Minted
  /\ \A r \in Read, p \in Node : got[r][p] \subseteq Minted

LEMMA ProvenanceStep ==
  ASSUME TypeInv, Provenance, [Next]_vars
  PROVE  Provenance'
<1> DEFINE M == Minted'
<1>0. /\ Coordinator \subseteq Node /\ SyncNode \subseteq Node
      /\ None \notin Node /\ None \notin Version
  BY ReplicationAssumption, Zenon
<1>00. Minted \subseteq M
  BY MintedGrows, Zenon
<1>000. \A o \in Op : ver[o] # None => ver[o] \in M
  BY <1>00, Zenon DEF Minted
<1> HIDE DEF M
<1>a. Provenance' <=>
        /\ \A n \in Node : store'[n] \subseteq M /\ entries'[n] \subseteq M
        /\ \A m \in late' : m.ver \in M
        /\ \A c, p \in Node : /\ hints'[c][p] \in M \cup {None}
                              /\ blob'[c][p] \in M \cup {None}
        /\ \A r \in Read : merged'[r] \subseteq M
        /\ \A r \in Read, p \in Node : got'[r][p] \subseteq M
  BY Zenon DEF Provenance, M
<1>b. /\ \A n \in Node : store[n] \subseteq M /\ entries[n] \subseteq M
      /\ \A m \in late : m.ver \in M
      /\ \A c, p \in Node : /\ hints[c][p] \in M \cup {None}
                            /\ blob[c][p] \in M \cup {None}
      /\ \A r \in Read : merged[r] \subseteq M
      /\ \A r \in Read, p \in Node : got[r][p] \subseteq M
  BY <1>00, Zenon DEF Provenance
<1>c. TypeInv
  BY Zenon DEF TypeInv
<1>1. ASSUME NEW o \in Op, NEW c \in Coordinator, NEW v, launch(o, c, v), v # None
      PROVE  Provenance'
  <2>1. ver'[o] = v
    BY <1>1, <1>c, Zenon DEF launch, TypeInv, OpPart
  <2>2. v \in M
    BY <1>1, <2>1, Zenon DEF M, Minted
  <2>3. Reconcile(store[c], v) \subseteq M
    BY <1>0, <1>b, <2>2, ReconcileSubset
  <2>4. QED
    BY <1>0, <1>1, <1>a, <1>b, <1>c, <2>3, Zenon
       DEF launch, hintVars, readVars, syncVars, TypeInv
<1>2. ASSUME NEW o \in Op, NEW c \in Coordinator, NEW x \in Value, write(o, c, x)
      PROVE  Provenance'
  <2> DEFINE v == [value |-> x, clock |-> mint(c), deleted |-> FALSE, deletedAt |-> 0]
  <2>1. launch(o, c, v) /\ v \in Version
    BY <1>0, <1>2, MintedClock, Zenon DEF write, mint, Version, TypeInv
  <2> HIDE DEF v
  <2>2. QED
    BY <1>0, <1>1, <2>1, Zenon
<1>3. ASSUME NEW o \in Op, NEW c \in Coordinator, delete(o, c)
      PROVE  Provenance'
  <2>a. PICK at \in 0 .. now : launch(o, c, Tombstone(mint(c), at))
    BY <1>3, Zenon DEF delete
  <2> DEFINE v == Tombstone(mint(c), at)
  <2>1. launch(o, c, v) /\ v \in Version
    BY <1>0, <1>c, <2>a, MintedClock, ReplicationAssumption
       DEF mint, Version, Tombstone, TypeInv
  <2> HIDE DEF v
  <2>2. QED
    BY <1>0, <1>1, <2>1, Zenon
<1>4. ASSUME NEW o \in Op, NEW p \in Node, rset(o, p)
      PROVE  Provenance'
  <2>1. ver[o] \in M
    BY <1>4, <1>c, <1>000, Zenon DEF rset, Unserved, TypeInv, OpPart
  <2>2. Reconcile(store[p], ver[o]) \subseteq M
    BY <1>b, <2>1, ReconcileSubset
  <2>3. QED
    BY <1>4, <1>a, <1>b, <1>c, <2>2, Zenon DEF rset, hintVars, readVars, syncVars, TypeInv
<1>5. ASSUME NEW o \in Op, NEW p \in Node, redial(o, p) \/ park(o, p)
      PROVE  Provenance'
  <2>1. ver[o] \in M /\ coord[o] \in Node
    BY <1>0, <1>5, <1>c, <1>000, Zenon DEF redial, park, add, InFlight, TypeInv, OpPart
  <2>2. \A m \in late' : m.ver \in M
    BY <1>5, <1>b, <2>1 DEF redial, park, add, abandoned
  <2>3. /\ hints' = hints \/ hints' = [hints EXCEPT ![coord[o]][p] = ver[o]]
        /\ UNCHANGED <<store, entries, blob, merged, got>>
    BY <1>5, Zenon DEF redial, park, add, hintVars, readVars, syncVars
  <2>4. \A c, q \in Node : hints'[c][q] \in M \cup {None}
    <3>1. hints \in [Node -> [Node -> Version \cup {None}]]
      BY <1>c, Zenon DEF TypeInv, HintPart
    <3>2. CASE hints' = hints
      BY <1>b, <3>2, Zenon
    <3>3. CASE hints' = [hints EXCEPT ![coord[o]][p] = ver[o]]
      BY <1>b, <2>1, <3>1, <3>3, UpdateEntry
    <3>4. QED
      BY <2>3, <3>2, <3>3, Zenon
  <2>5. QED
    BY <1>a, <1>b, <2>2, <2>3, <2>4, Zenon
<1>6. ASSUME NEW o \in Op, \/ \E p \in Node : ack(o, p)
                           \/ refuse(o) \/ gatherMet(o) \/ gatherShort(o)
      PROVE  Provenance'
  BY <1>6, <1>a, <1>b, Zenon DEF ack, refuse, gatherMet, gatherShort, hintVars, readVars,
                          syncVars
<1>7. ASSUME NEW m \in late, rsetLate(m)
      PROVE  Provenance'
  <2>1. m.to \in Node /\ Reconcile(store[m.to], m.ver) \subseteq M
    BY <1>b, <1>c, ReconcileSubset DEF Request, TypeInv, OpPart
  <2>2. QED
    BY <1>7, <1>a, <1>b, <1>c, <2>1, Zenon DEF rsetLate, hintVars, readVars, syncVars, TypeInv
<1>8. ASSUME NEW c \in Coordinator, replayOnce(c)
      PROVE  Provenance'
  BY <1>0, <1>8, <1>a, <1>b, <1>c DEF replayOnce, snapshot, readVars, syncVars, TypeInv
<1>9. ASSUME NEW c \in Coordinator, NEW p \in Node, rsetReplay(c, p)
      PROVE  Provenance'
  <2>1. blob[c][p] \in M
    BY <1>0, <1>9, <1>b, <1>c DEF rsetReplay, Unserved, TypeInv, HintPart
  <2>2. Reconcile(store[p], blob[c][p]) \subseteq M
    BY <1>b, <2>1, ReconcileSubset
  <2>3. QED
    BY <1>9, <1>a, <1>b, <1>c, <2>2, Zenon DEF rsetReplay, readVars, syncVars, TypeInv
<1>10. ASSUME NEW c \in Coordinator, NEW p \in Node,
              redialReplay(c, p) \/ replayFailed(c, p)
       PROVE  Provenance'
  <2>1. blob[c][p] \in M
    BY <1>0, <1>10, <1>b, <1>c DEF redialReplay, replayFailed, InFlight, TypeInv, HintPart
  <2>2. \A m \in late' : m.ver \in M
    BY <1>10, <1>b, <2>1 DEF redialReplay, replayFailed, abandoned
  <2>3. /\ blob' = blob \/ blob' = [blob EXCEPT ![c][p] = None]
        /\ UNCHANGED <<store, entries, hints, merged, got>>
    BY <1>10, Zenon DEF redialReplay, replayFailed, readVars, syncVars
  <2>4. \A d, q \in Node : blob'[d][q] \in M \cup {None}
    <3>1. c \in Node /\ blob \in [Node -> [Node -> Version \cup {None}]]
      BY <1>0, <1>c, Zenon DEF TypeInv, HintPart
    <3>2. CASE blob' = blob
      BY <1>b, <3>2, Zenon
    <3>3. CASE blob' = [blob EXCEPT ![c][p] = None]
      BY <1>b, <3>1, <3>3, UpdateEntry
    <3>4. QED
      BY <2>3, <3>2, <3>3, Zenon
  <2>5. QED
    BY <1>a, <1>b, <2>2, <2>3, <2>4, Zenon
<1>11. ASSUME NEW c \in Coordinator, NEW p \in Node, replayed(c, p)
       PROVE  Provenance'
  BY <1>0, <1>11, <1>a, <1>b, <1>c DEF replayed, remove, readVars, syncVars, TypeInv
<1>12. ASSUME NEW r \in Read, NEW c \in Coordinator, read(r, c)
       PROVE  Provenance'
  BY <1>0, <1>12, <1>a, <1>b, <1>c DEF read, hintVars, syncVars, TypeInv
<1>13. ASSUME NEW r \in Read, NEW p \in Node, rgetServed(r, p) \/ rgetFailed(r, p)
       PROVE  Provenance'
  <2>1. /\ \/ got' = [got EXCEPT ![r][p] = store[p]]
           \/ got' = [got EXCEPT ![r][p] = {}]
        /\ UNCHANGED <<store, entries, late, hints, blob, merged>>
    BY <1>13, Zenon DEF rgetServed, rgetFailed, hintVars, syncVars
  <2>2. \A k \in Read, q \in Node : got'[k][q] \subseteq M
    <3>1. got \in [Read -> [Node -> SibSet]]
      BY <1>c, Zenon DEF TypeInv, ReadPart
    <3>2. CASE got' = [got EXCEPT ![r][p] = store[p]]
      BY <1>b, <3>1, <3>2, UpdateEntry
    <3>3. CASE got' = [got EXCEPT ![r][p] = {}]
      BY <1>b, <3>1, <3>3, UpdateEntry
    <3>4. QED
      BY <2>1, <3>2, <3>3, Zenon
  <2>3. QED
    BY <1>a, <1>b, <2>1, <2>2, Zenon
<1>14. ASSUME NEW r \in Read, NEW p \in Node, receive(r, p)
       PROVE  Provenance'
  <2>1. ReconcileAll(merged[r], got[r][p]) \subseteq M
    BY <1>b, ReconcileAllSubset
  <2>2. QED
    BY <1>14, <1>a, <1>b, <1>c, <2>1 DEF receive, hintVars, syncVars, TypeInv
<1>15. ASSUME NEW r \in Read, readMet(r) \/ readShort(r)
       PROVE  Provenance'
  <2>1. /\ got' = got \/ got' = [got EXCEPT ![r] = [p \in Node |-> {}]]
        /\ UNCHANGED <<store, entries, late, hints, blob, merged>>
    BY <1>15, Zenon DEF readMet, readShort, hintVars, syncVars
  <2>2. \A k \in Read, q \in Node : got'[k][q] \subseteq M
    <3>1. CASE got' = got
      BY <1>b, <3>1, Zenon
    <3>2. CASE got' = [got EXCEPT ![r] = [p \in Node |-> {}]]
      BY <1>b, <1>c, <3>2 DEF TypeInv
    <3>3. QED
      BY <2>1, <3>1, <3>2, Zenon
  <2>3. QED
    BY <1>a, <1>b, <2>1, <2>2, Zenon
<1>16. ASSUME NEW r \in Read, repairSelf(r)
       PROVE  Provenance'
  <2>1. rcoord[r] \in Node
    BY <1>16, <1>c, Zenon DEF repairSelf, TypeInv, ReadPart
  <2>2. ReconcileAll(store[rcoord[r]], merged[r]) \subseteq M
    BY <1>b, <2>1, ReconcileAllSubset, Zenon
  <2>3. QED
    BY <1>16, <1>a, <1>b, <1>c, <2>1, <2>2, Zenon DEF repairSelf, hintVars, syncVars, TypeInv
<1>17. ASSUME NEW r \in Read, NEW p \in Node, repairPeer(r, p)
       PROVE  Provenance'
  <2>1. \A m \in late' : m.ver \in M
    BY <1>17, <1>b DEF repairPeer
  <2>2. QED
    BY <1>17, <1>a, <1>b, <2>1, Zenon DEF repairPeer, hintVars, syncVars
<1>18. ASSUME NEW n \in SyncNode, NEW p \in Node,
              syncStart(n, p) \/ syncTree(n, p) \/ syncFetch(n, p)
       PROVE  Provenance'
  <2>1. /\ \E S \in {{}, store[n], store[p]} : entries' = [entries EXCEPT ![n] = S]
        /\ UNCHANGED <<store, late, hints, blob, merged, got>>
    BY <1>18, Zenon DEF syncStart, syncTree, syncFetch, hintVars, readVars
  <2>2. \A k \in Node : entries'[k] \subseteq M
    BY <1>0, <1>b, <1>c, <2>1 DEF TypeInv
  <2>3. QED
    BY <1>a, <1>b, <2>1, <2>2, Zenon
<1>19. ASSUME NEW n \in SyncNode, syncApply(n)
       PROVE  Provenance'
  <2>1. ReconcileAll(store[n], entries[n]) \subseteq M
    BY <1>0, <1>b, ReconcileAllSubset
  <2>2. QED
    BY <1>0, <1>19, <1>a, <1>b, <1>c, <2>1 DEF syncApply, hintVars, readVars, TypeInv
<1>20. ASSUME NEW n \in SyncNode, syncFailed(n)
       PROVE  Provenance'
  BY <1>0, <1>20, <1>a, <1>b, <1>c DEF syncFailed, hintVars, readVars, TypeInv
<1>21. ASSUME Tick \/ UNCHANGED vars
       PROVE  Provenance'
  BY <1>21, <1>a, <1>b, Zenon DEF Tick, vars, hintVars, readVars, syncVars
<1>22. QED
  BY <1>2, <1>3, <1>4, <1>5, <1>6, <1>7, <1>8, <1>9, <1>10, <1>11, <1>12, <1>13,
     <1>14, <1>15, <1>16, <1>17, <1>18, <1>19, <1>20, <1>21, Zenon
     DEF Next, OpStep, HandoffStep, ReadStep, SyncStep
(* Node n's own store is at least as fresh in n's entry as any clock minted *)
(* anywhere: this is why the coordinator may mint from its store alone.    *)
Counters ==
  \A o \in Op, n \in Node :
    ver[o] # None =>
      \/ ver[o].clock[n] = 0
      \/ \E w \in store[n] : ver[o].clock[n] <= w.clock[n]

ClockInv == TypeInv /\ Provenance /\ Counters /\ DistinctClocks

LEMMA CountersPersist ==
  ASSUME TypeInv, [Next]_vars, NEW n \in Node, NEW w \in store[n]
  PROVE  \E u \in store'[n] : w.clock[n] <= u.clock[n]
<1>1. w \in Version
  BY SibSetVersions, Zenon DEF TypeInv
<1>2. Covers(store[n], w)
  BY <1>1, LeqReflexive, Zenon DEF Covers, Version
<1>3. PICK u \in store'[n] : Leq(w.clock, u.clock)
  BY <1>1, <1>2, CoversStable, Zenon DEF Covers
<1>4. u \in Version
  BY SibSetVersions, TypeStep, Zenon DEF TypeInv
<1>5. QED
  BY <1>1, <1>3, <1>4, LeqPointwise, Zenon DEF Version

(* Where the counters of a freshly minted clock come from. *)
LEMMA MintedCounters ==
  ASSUME ClockInv, [Next]_vars,
         NEW o \in Op, NEW c \in Coordinator, NEW v \in Version, Mints(o, c, v),
         NEW n \in Node
  PROVE  v.clock[n] = 0 \/ \E u \in store'[n] : v.clock[n] <= u.clock[n]
<1>1. /\ c \in Node
      /\ store[c] \in SibSet /\ store[c] \in SUBSET Version
      /\ store'[c] = Reconcile(store[c], v)
  BY ReplicationAssumption, SibSetVersions, Zenon
     DEF ClockInv, Mints, launch, TypeInv
<1>2. CASE n = c
  <2>1. PICK u \in store'[c] : Leq(v.clock, u.clock)
    BY <1>1, ReconcileCovers, Zenon DEF Covers
  <2>2. u \in Version
    BY <1>1, <2>1, ReconcileSubset
  <2>3. QED
    BY <1>2, <2>1, <2>2, LeqPointwise, Zenon DEF Version
<1>3. CASE n # c
  <2>1. v.clock[n] = Frontier(store[c])[n]
    BY <1>1, <1>3, MintedClock DEF Mints, mint
  <2>2. IsTop(store[c], n, v.clock[n])
    BY <1>1, <2>1, FrontierIsTop, Zenon DEF SibSet
  <2>3. CASE v.clock[n] = 0
    BY <2>3, Zenon
  <2>4. ASSUME NEW w \in store[c], w.clock[n] = v.clock[n]
        PROVE  v.clock[n] = 0 \/ \E u \in store'[n] : v.clock[n] <= u.clock[n]
    <3>1. PICK q \in Op : ver[q] = w /\ ver[q] # None
      BY <1>1 DEF ClockInv, Provenance, Minted
    <3>2. CASE w.clock[n] = 0
      BY <2>4, <3>2, Zenon
    <3>3. ASSUME NEW t \in store[n], w.clock[n] <= t.clock[n]
          PROVE  \E u \in store'[n] : v.clock[n] <= u.clock[n]
      <4>1. PICK u \in store'[n] : t.clock[n] <= u.clock[n]
        BY CountersPersist, Zenon DEF ClockInv
      <4>2. t \in Version /\ u \in Version
        BY SibSetVersions, TypeStep, Zenon DEF ClockInv, TypeInv
      <4>3. v.clock[n] <= u.clock[n]
        BY <2>4, <3>3, <4>1, <4>2 DEF Version, Clock
      <4>4. QED
        BY <4>3, Zenon
    <3>4. QED
      BY <3>1, <3>2, <3>3, Zenon DEF ClockInv, Counters
  <2>5. QED
    BY <2>2, <2>3, <2>4, Zenon DEF IsTop
<1>4. QED
  BY <1>2, <1>3, Zenon

LEMMA ClockStep == ClockInv /\ [Next]_vars => ClockInv'
<1> SUFFICES ASSUME ClockInv, [Next]_vars
             PROVE  ClockInv'
  BY Zenon
<1>1. TypeInv' /\ Provenance'
  BY TypeStep, ProvenanceStep, Zenon DEF ClockInv
<1>2. ASSUME NEW o \in Op, NEW n \in Node, ver[o] # None
      PROVE  \/ ver'[o].clock[n] = 0
             \/ \E u \in store'[n] : ver'[o].clock[n] <= u.clock[n]
  <2>1. ver'[o] = ver[o]
    BY <1>2, VersionsFixed, Zenon DEF ClockInv
  <2>2. CASE ver[o].clock[n] = 0
    BY <2>1, <2>2, Zenon
  <2>3. ASSUME NEW w \in store[n], ver[o].clock[n] <= w.clock[n]
        PROVE  \E u \in store'[n] : ver'[o].clock[n] <= u.clock[n]
    <3>1. PICK u \in store'[n] : w.clock[n] <= u.clock[n]
      BY CountersPersist, Zenon DEF ClockInv
    <3>2. w \in Version /\ u \in Version /\ ver[o] \in Version
      BY <1>1, <1>2, SibSetVersions DEF ClockInv, TypeInv, OpPart
    <3>3. ver'[o].clock[n] <= u.clock[n]
      BY <2>1, <2>3, <3>1, <3>2 DEF Version, Clock
    <3>4. QED
      BY <3>3, Zenon
  <2>4. QED
    BY <1>2, <2>2, <2>3, Zenon DEF ClockInv, Counters
<1>3. CASE ver' = ver
  <2>1. Counters'
    BY <1>2, <1>3, Zenon DEF Counters
  <2>2. DistinctClocks'
    BY <1>3, Zenon DEF ClockInv, DistinctClocks
  <2>3. QED
    BY <1>1, <2>1, <2>2, Zenon DEF ClockInv
<1>4. ASSUME NEW o \in Op, NEW c \in Coordinator, NEW v \in Version, Mints(o, c, v)
      PROVE  ClockInv'
  <2>1. /\ ver' = [ver EXCEPT ![o] = v]
        /\ ver \in [Op -> Version \cup {None}]
        /\ c \in Node
    BY <1>4, ReplicationAssumption, Zenon DEF Mints, launch, ClockInv, TypeInv, OpPart
  <2>2. Counters'
    <3> SUFFICES ASSUME NEW q \in Op, NEW n \in Node, ver'[q] # None
                 PROVE  \/ ver'[q].clock[n] = 0
                        \/ \E u \in store'[n] : ver'[q].clock[n] <= u.clock[n]
      BY Zenon DEF Counters
    <3>1. CASE q = o
      BY <1>4, <2>1, <3>1, MintedCounters, Zenon
    <3>2. CASE q # o
      BY <1>2, <2>1, <3>2, Zenon
    <3>3. QED
      BY <3>1, <3>2, Zenon
  (* The new clock exceeds every earlier one in c's entry. *)
  <2>3. ASSUME NEW q \in Op, q # o, ver[q] # None
        PROVE  ver[q].clock # v.clock
    <3>1. /\ store[c] \in SibSet
          /\ \A w \in store[c] : w \in Version
          /\ v.clock = Increment(Frontier(store[c]), c)
      BY <1>4, <2>1, SibSetVersions, Zenon DEF ClockInv, Mints, mint, TypeInv
    <3>2. /\ 0 < v.clock[c]
          /\ \A w \in store[c] : w.clock[c] < v.clock[c]
      BY <2>1, <3>1, MintedClock, Zenon
    <3>3. \/ ver[q].clock[c] = 0
          \/ \E w \in store[c] : ver[q].clock[c] <= w.clock[c]
      BY <2>1, <2>3, Zenon DEF ClockInv, Counters
    <3>4. ver[q].clock[c] \in Nat /\ v.clock[c] \in Nat
          /\ \A w \in store[c] : w.clock[c] \in Nat
      BY <2>1, <2>3, <3>1, Zenon DEF Version, Clock
    <3>5. ver[q].clock[c] < v.clock[c]
      BY <3>2, <3>3, <3>4
    <3>6. QED
      BY <3>4, <3>5
  <2>4. DistinctClocks'
    BY <2>1, <2>3, Zenon DEF ClockInv, DistinctClocks
  <2>5. QED
    BY <1>1, <2>2, <2>4, Zenon DEF ClockInv
<1>5. QED
  BY <1>3, <1>4, MintStep, Zenon DEF ClockInv

LEMMA ClockInvariant == Spec => []ClockInv
<1>1. Init => ClockInv
  <2> SUFFICES ASSUME Init
               PROVE  ClockInv
    BY Zenon
  <2>1. \A o \in Op : ver[o] = None
    BY Zenon DEF Init
  <2>2. Counters /\ DistinctClocks
    BY <2>1, Zenon DEF Counters, DistinctClocks
  <2>3. Provenance
    BY Zenon DEF Init, Provenance
  <2>4. QED
    BY <2>2, <2>3, TypeInit, Zenon DEF ClockInv
<1>2. QED
  BY <1>1, ClockStep, PTL DEF Spec

(* No two client writes carry the same clock, however many nodes coordinate *)
(* writes of the key at the same time.                                     *)
THEOREM ClocksAreDistinct == Spec => []DistinctClocks
<1>1. ClockInv => DistinctClocks
  BY Zenon DEF ClockInv
<1>2. QED
  BY <1>1, ClockInvariant, PTL

-----------------------------------------------------------------------------
(* What an acknowledgement, a removed hint and a quorum read promise, for  *)
(* every replica set and every pair of quorums.                            *)

-----------------------------------------------------------------------------
(* A version that was delivered is covered where it was delivered. *)

Arrived == Served \cup {"acked"}

Delivery ==
  /\ \A o \in Op : ver[o] # None => Covers(store[coord[o]], ver[o])
  /\ \A o \in Op, p \in Node : fan[o][p] \in Arrived => Covers(store[p], ver[o])
  /\ \A c, p \in Node : replay[c][p] \in Served => Covers(store[p], blob[c][p])
  /\ \A o \in Op : phase[o] = "ok" => acks(o) >= need(W)

DeliveryInv == TypeInv /\ Delivery

LEMMA ReconcileMintCovers ==
  ASSUME NEW S \in SibSet, NEW v \in Version
  PROVE  Covers(Reconcile(S, v), v)
BY ReconcileCovers, SibSetVersions, Zenon

(* What one step does to the fan-out call of op o to peer p. *)
LEMMA FanStep ==
  ASSUME TypeInv, [Next]_vars, NEW o \in Op, NEW p \in Node,
         fan'[o][p] \in Arrived
  PROVE  fan[o][p] \in Arrived \/ Covers(store'[p], ver[o])
<1> SUFFICES ASSUME fan[o][p] \notin Arrived
             PROVE  Covers(store'[p], ver[o])
  BY Zenon
<1>0. /\ fan \in [Op -> [Node -> CallState]]
      /\ store \in [Node -> SibSet]
      /\ Coordinator \subseteq Node
  BY ReplicationAssumption, Zenon DEF TypeInv, OpPart
<1>1. ASSUME NEW q \in Op, NEW c \in Coordinator, NEW v, launch(q, c, v)
      PROVE  FALSE
  BY <1>0, <1>1, Zenon DEF launch, Arrived, Served
<1>2. ASSUME NEW q \in Op, NEW k \in Node, rset(q, k)
      PROVE  Covers(store'[p], ver[o])
  <2>1. fan'[o][p] = IF q = o /\ k = p THEN serve(fan[o][p]) ELSE fan[o][p]
    BY <1>0, <1>2, UpdateEntry, Zenon DEF rset
  <2>2. q = o /\ k = p
    BY <2>1, Zenon
  <2>3. ver[o] \in Version
    BY <1>2, <2>2, Zenon DEF rset, Unserved, TypeInv, OpPart
  <2>4. store'[p] = Reconcile(store[p], ver[o])
    BY <1>0, <1>2, <2>2, Zenon DEF rset
  <2>5. QED
    BY <1>0, <2>3, <2>4, ReconcileMintCovers, Zenon
<1>3. ASSUME NEW q \in Op, NEW k \in Node, redial(q, k)
      PROVE  FALSE
  <2>1. fan'[o][p] = IF o = q /\ p = k THEN "resent" ELSE fan[o][p]
    BY <1>0, <1>3, UpdateEntry, Zenon DEF redial
  <2>2. QED
    BY <2>1, Zenon DEF Arrived, Served
<1>4. ASSUME NEW q \in Op, NEW k \in Node, ack(q, k)
      PROVE  FALSE
  <2>1. fan'[o][p] = IF o = q /\ p = k THEN "acked" ELSE fan[o][p]
    BY <1>0, <1>4, UpdateEntry, Zenon DEF ack
  <2>2. QED
    BY <1>4, <2>1, Zenon DEF ack, Arrived
<1>5. ASSUME NEW q \in Op, NEW k \in Node, park(q, k)
      PROVE  FALSE
  <2>1. fan'[o][p] = IF o = q /\ p = k THEN "failed" ELSE fan[o][p]
    BY <1>0, <1>5, UpdateEntry, Zenon DEF park, add
  <2>2. QED
    BY <2>1, Zenon DEF Arrived, Served
<1>6. ASSUME fan' = fan
      PROVE  FALSE
  BY <1>6, Zenon
<1>7. ASSUME NEW q \in Op, OpStep(q)
      PROVE  Covers(store'[p], ver[o])
  <2>1. ASSUME refuse(q) \/ gatherMet(q) \/ gatherShort(q)
        PROVE  FALSE
    BY <1>6, <2>1, Zenon DEF refuse, gatherMet, gatherShort
  <2>2. QED
    BY <1>1, <1>2, <1>3, <1>4, <1>5, <1>7, <2>1, Zenon DEF OpStep, write, delete
<1>8. QED
  BY <1>6, <1>7, OtherSteps, Zenon DEF opVars
(* Only the replayer starts and ends replay calls. *)
LEMMA NoHandoffStep ==
  ASSUME [Next]_vars
  PROVE  (\E c \in Coordinator : HandoffStep(c)) \/ UNCHANGED <<replay, blob>>
<1>1. ASSUME NEW o \in Op, OpStep(o)
      PROVE  UNCHANGED <<replay, blob>>
  <2>1. ASSUME NEW p \in Node, rset(o, p) \/ redial(o, p) \/ ack(o, p) \/ park(o, p)
        PROVE  UNCHANGED <<replay, blob>>
    BY <2>1, Zenon DEF rset, redial, ack, park, add, hintVars
  <2>2. ASSUME refuse(o) \/ gatherMet(o) \/ gatherShort(o)
        PROVE  UNCHANGED <<replay, blob>>
    BY <2>2, Zenon DEF refuse, gatherMet, gatherShort, hintVars
  <2>3. ASSUME NEW c \in Coordinator, NEW v, launch(o, c, v)
        PROVE  UNCHANGED <<replay, blob>>
    BY <2>3, Zenon DEF launch, hintVars
  <2>4. QED
    BY <1>1, <2>1, <2>2, <2>3, Zenon DEF OpStep, write, delete
<1>2. ASSUME NEW r \in Read, ReadStep(r)
      PROVE  UNCHANGED <<replay, blob>>
  <2>1. ASSUME NEW p \in Node,
               rgetServed(r, p) \/ rgetFailed(r, p) \/ receive(r, p) \/ repairPeer(r, p)
        PROVE  UNCHANGED <<replay, blob>>
    BY <2>1, Zenon DEF rgetServed, rgetFailed, receive, repairPeer, hintVars
  <2>2. ASSUME \/ readMet(r) \/ readShort(r) \/ repairSelf(r)
               \/ \E c \in Coordinator : read(r, c)
        PROVE  UNCHANGED <<replay, blob>>
    BY <2>2, Zenon DEF readMet, readShort, repairSelf, read, hintVars
  <2>3. QED
    BY <1>2, <2>1, <2>2, Zenon DEF ReadStep
<1>3. ASSUME NEW n \in SyncNode, SyncStep(n)
      PROVE  UNCHANGED <<replay, blob>>
  BY <1>3, Zenon DEF SyncStep, syncStart, syncTree, syncFetch, syncApply, syncFailed,
              hintVars
<1>4. ASSUME Tick \/ UNCHANGED vars \/ \E m \in late : rsetLate(m)
      PROVE  UNCHANGED <<replay, blob>>
  BY <1>4, Zenon DEF Tick, vars, rsetLate, hintVars
<1>5. QED
  BY <1>1, <1>2, <1>3, <1>4, Zenon DEF Next

(* What one step does to a replay call. *)
LEMMA ReplayStep ==
  ASSUME TypeInv, [Next]_vars, NEW c \in Node, NEW p \in Node,
         replay'[c][p] \in Served
  PROVE  \/ replay[c][p] \in Served /\ blob'[c][p] = blob[c][p]
         \/ blob'[c][p] \in Version /\ Covers(store'[p], blob'[c][p])
<1>0. /\ replay \in [Node -> [Node -> InFlight \cup {"none"}]]
      /\ blob \in [Node -> [Node -> Version \cup {None}]]
      /\ store \in [Node -> SibSet]
      /\ Coordinator \subseteq Node
  BY ReplicationAssumption, Zenon DEF TypeInv, HintPart
<1>1. ASSUME UNCHANGED <<replay, blob>>
      PROVE  replay[c][p] \in Served /\ blob'[c][p] = blob[c][p]
  BY <1>1, Zenon
<1>2. ASSUME NEW d \in Coordinator, replayOnce(d)
      PROVE  replay[c][p] \in Served /\ blob'[c][p] = blob[c][p]
  BY <1>0, <1>2, Zenon DEF replayOnce, snapshot, Served
<1>3. ASSUME NEW d \in Coordinator, NEW k \in Node, rsetReplay(d, k)
      PROVE  \/ replay[c][p] \in Served /\ blob'[c][p] = blob[c][p]
             \/ blob'[c][p] \in Version /\ Covers(store'[p], blob'[c][p])
  <2>1. CASE d = c /\ k = p
    <3>1. blob[c][p] \in Version /\ blob' = blob
      BY <1>3, <2>1 DEF rsetReplay, Unserved, TypeInv, HintPart
    <3>2. store'[p] = Reconcile(store[p], blob[c][p])
      BY <1>0, <1>3, <2>1, Zenon DEF rsetReplay
    <3>3. QED
      BY <1>0, <3>1, <3>2, ReconcileMintCovers
  <2>2. CASE ~(d = c /\ k = p)
    <3>1. d \in Node
      BY <1>0, Zenon
    <3>2. replay'[c][p] = replay[c][p]
      BY <1>0, <1>3, <2>2, <3>1, UpdateEntry DEF rsetReplay
    <3>3. QED
      BY <1>3, <3>2, Zenon DEF rsetReplay
  <2>3. QED
    BY <2>1, <2>2, Zenon
<1>4. ASSUME NEW d \in Coordinator, NEW k \in Node, redialReplay(d, k)
      PROVE  replay[c][p] \in Served /\ blob'[c][p] = blob[c][p]
  <2>1. d \in Node
    BY <1>0, Zenon
  <2>2. replay'[c][p] = IF c = d /\ p = k THEN "resent" ELSE replay[c][p]
    BY <1>0, <1>4, <2>1, UpdateEntry DEF redialReplay
  <2>3. QED
    BY <1>4, <2>2 DEF redialReplay, Served
<1>5. ASSUME NEW d \in Coordinator, NEW k \in Node, replayed(d, k) \/ replayFailed(d, k)
      PROVE  replay[c][p] \in Served /\ blob'[c][p] = blob[c][p]
  <2>1. /\ d \in Node
        /\ replay' = [replay EXCEPT ![d][k] = "none"]
        /\ blob' = [blob EXCEPT ![d][k] = None]
    BY <1>0, <1>5, Zenon DEF replayed, replayFailed
  <2>2. replay'[c][p] = IF c = d /\ p = k THEN "none" ELSE replay[c][p]
    BY <1>0, <2>1, UpdateEntry, Zenon
  <2>3. blob'[c][p] = IF c = d /\ p = k THEN None ELSE blob[c][p]
    BY <1>0, <2>1, UpdateEntry
  <2>4. QED
    BY <2>2, <2>3, Zenon DEF Served
<1>6. ASSUME NEW d \in Coordinator, HandoffStep(d)
      PROVE  \/ replay[c][p] \in Served /\ blob'[c][p] = blob[c][p]
             \/ blob'[c][p] \in Version /\ Covers(store'[p], blob'[c][p])
  BY <1>2, <1>3, <1>4, <1>5, <1>6, Zenon DEF HandoffStep
<1>7. QED
  BY <1>1, <1>6, NoHandoffStep, Zenon

(* An acknowledgement is final, and so are its acks. *)
LEMMA AckStep ==
  ASSUME TypeInv, [Next]_vars, NEW o \in Op, phase[o] # "idle"
  PROVE  /\ coord'[o] = coord[o]
         /\ \A p \in Node : fan[o][p] = "acked" => fan'[o][p] = "acked"
         /\ phase'[o] = "ok" => (phase[o] = "ok" \/ acks(o) >= need(W))
<1>0. /\ fan \in [Op -> [Node -> CallState]]
      /\ phase \in [Op -> {"idle", "wait", "ok", "err"}]
      /\ coord \in [Op -> Coordinator \cup {None}]
  BY Zenon DEF TypeInv, OpPart
<1>1. ASSUME NEW q \in Op, NEW c \in Coordinator, NEW v, phase[q] = "idle",
             launch(q, c, v)
      PROVE  coord'[o] = coord[o] /\ fan'[o] = fan[o] /\ phase'[o] = phase[o]
  BY <1>0, <1>1, Zenon DEF launch
<1>2. ASSUME NEW q \in Op, NEW k \in Node,
             rset(q, k) \/ redial(q, k) \/ ack(q, k) \/ park(q, k)
      PROVE  /\ coord' = coord /\ phase' = phase
             /\ \A p \in Node : fan[o][p] = "acked" => fan'[o][p] = "acked"
  <2>1. /\ coord' = coord /\ phase' = phase
        /\ fan[q][k] # "acked"
    BY <1>2, Zenon DEF rset, redial, ack, park, add, Unserved, Served, InFlight
  <2>2. PICK s : fan' = [fan EXCEPT ![q][k] = s]
    BY <1>2, Zenon DEF rset, redial, ack, park, add
  <2>3. \A p \in Node : fan'[o][p] = IF o = q /\ p = k THEN s ELSE fan[o][p]
    BY <1>0, <2>2, UpdateEntry
  <2>4. QED
    BY <2>1, <2>3, Zenon
<1>3. ASSUME NEW q \in Op, refuse(q) \/ gatherMet(q) \/ gatherShort(q)
      PROVE  /\ coord' = coord /\ fan' = fan
             /\ phase'[o] = "ok" => (phase[o] = "ok" \/ acks(o) >= need(W))
  BY <1>0, <1>3, Zenon DEF refuse, gatherMet, gatherShort
<1>4. ASSUME UNCHANGED opVars
      PROVE  coord' = coord /\ fan' = fan /\ phase' = phase
  BY <1>4, Zenon DEF opVars
<1>5. ASSUME NEW q \in Op, OpStep(q)
      PROVE  /\ coord'[o] = coord[o]
             /\ \A p \in Node : fan[o][p] = "acked" => fan'[o][p] = "acked"
             /\ phase'[o] = "ok" => (phase[o] = "ok" \/ acks(o) >= need(W))
  BY <1>1, <1>2, <1>3, <1>5, Zenon DEF OpStep, write, delete
<1>6. QED
  BY <1>4, <1>5, OtherSteps, Zenon

LEMMA AcksGrow ==
  ASSUME TypeInv, [Next]_vars, NEW o \in Op, phase[o] # "idle"
  PROVE  acks(o) \in Nat /\ acks(o)' \in Nat /\ acks(o) <= acks(o)'
<1> DEFINE A == {p \in Node : fan[o][p] = "acked"}
           B == {p \in Node : fan'[o][p] = "acked"}
<1>1. A \subseteq B
  BY AckStep, Zenon
<1>2. IsFiniteSet(Node) /\ A \in SUBSET Node /\ B \in SUBSET Node
  BY ReplicationAssumption, Zenon
<1>3. IsFiniteSet(A) /\ IsFiniteSet(B)
  BY <1>2, FS_Subset, Zenon
<1>4. Cardinality(A) \in Nat /\ Cardinality(B) \in Nat
  BY <1>3, FS_CardinalityType, Zenon
<1>5. Cardinality(A) <= Cardinality(B)
  BY <1>1, <1>3, FS_Subset, Zenon
<1>6. acks(o) = 1 + Cardinality(A) /\ acks(o)' = 1 + Cardinality(B)
  BY Zenon DEF acks
<1> HIDE DEF A, B
<1>7. QED
  BY <1>4, <1>5, <1>6
(* The quorum the code waits for is a number between 1 and N. *)
LEMMA NeedType ==
  /\ need(W) \in Nat
  /\ need(R) \in Nat
  /\ R + W > Cardinality(Node) => need(R) + need(W) > Cardinality(Node)
<1>1. R \in Nat \ {0} /\ W \in Nat \ {0} /\ IsFiniteSet(Node) /\ Node # {}
  BY ReplicationAssumption, Zenon
<1>2. Cardinality(Node) \in Nat
  BY <1>1, FS_CardinalityType, Zenon
<1>3. Cardinality(Node) # 0
  BY <1>1, FS_EmptySet, Zenon
<1>4. QED
  BY <1>1, <1>2, <1>3 DEF need

(* An op that has not started is not acknowledged by the next step. *)
LEMMA IdleStep ==
  ASSUME TypeInv, [Next]_vars, NEW o \in Op, phase[o] = "idle"
  PROVE  phase'[o] # "ok"
<1>0. phase \in [Op -> {"idle", "wait", "ok", "err"}]
  BY Zenon DEF TypeInv, OpPart
<1>1. ASSUME NEW q \in Op, OpStep(q)
      PROVE  phase'[o] # "ok"
  <2>1. ASSUME NEW c \in Coordinator, NEW v, launch(q, c, v)
        PROVE  phase'[o] # "ok"
    BY <1>0, <2>1, Zenon DEF launch
  <2>2. ASSUME NEW p \in Node, rset(q, p) \/ redial(q, p) \/ ack(q, p) \/ park(q, p)
        PROVE  phase' = phase
    BY <2>2, Zenon DEF rset, redial, ack, park, add
  <2>3. ASSUME refuse(q) \/ gatherMet(q) \/ gatherShort(q)
        PROVE  phase'[o] # "ok"
    BY <1>0, <2>3, Zenon DEF refuse, gatherMet, gatherShort
  <2>4. QED
    BY <1>1, <2>1, <2>2, <2>3, Zenon DEF OpStep, write, delete
<1>2. QED
  BY <1>1, OtherSteps, Zenon DEF opVars

LEMMA DeliveryStep == DeliveryInv /\ [Next]_vars => DeliveryInv'
<1> SUFFICES ASSUME DeliveryInv, [Next]_vars
             PROVE  DeliveryInv'
  BY Zenon
<1>0. TypeInv /\ TypeInv' /\ Delivery
  BY TypeStep, Zenon DEF DeliveryInv
<1>00. \A o \in Op : /\ ver[o] \in Version \cup {None}
                     /\ ver[o] # None => coord[o] \in Node /\ phase[o] # "idle"
  BY <1>0, ReplicationAssumption DEF TypeInv, OpPart
<1>1. ASSUME NEW o \in Op, ver'[o] # None
      PROVE  Covers(store'[coord'[o]], ver'[o])
  <2>1. CASE ver[o] # None
    <3>1. ver'[o] = ver[o] /\ coord'[o] = coord[o]
      BY <1>0, <1>00, <2>1, VersionsFixed, AckStep, Zenon
    <3>2. QED
      BY <1>0, <1>00, <2>1, <3>1, CoversStable, Zenon DEF Delivery
  <2>2. CASE ver[o] = None
    <3>1. PICK q \in Op, c \in Coordinator, v \in Version : Mints(q, c, v)
      BY <1>0, <1>1, <2>2, MintStep, Zenon
    <3>2. q = o
      BY <1>0, <1>1, <2>2, <3>1 DEF Mints, launch, TypeInv, OpPart
    <3>3. coord'[o] = c /\ ver'[o] = v
      BY <1>0, <3>1, <3>2 DEF Mints, launch, TypeInv, OpPart
    <3>4. store'[c] = Reconcile(store[c], v) /\ store[c] \in SibSet
      BY <1>0, <3>1, ReplicationAssumption, Zenon DEF Mints, launch, TypeInv
    <3>5. QED
      BY <3>3, <3>4, ReconcileMintCovers, Zenon
  <2>3. QED
    BY <2>1, <2>2, Zenon
<1>2. ASSUME NEW o \in Op, NEW p \in Node, fan'[o][p] \in Arrived
      PROVE  Covers(store'[p], ver'[o])
  <2>1. CASE fan[o][p] \in Arrived
    <3>1. ver[o] # None
      BY <1>0, <2>1, Zenon DEF Arrived, Served, TypeInv, OpPart
    <3>2. Covers(store[p], ver[o]) /\ ver'[o] = ver[o]
      BY <1>0, <2>1, <3>1, VersionsFixed, Zenon DEF Delivery
    <3>3. QED
      BY <1>0, <1>00, <3>1, <3>2, CoversStable, Zenon
  <2>2. CASE fan[o][p] \notin Arrived
    <3>1. Covers(store'[p], ver[o])
      BY <1>0, <1>2, <2>2, FanStep, Zenon
    <3>2. CASE ver[o] # None
      BY <1>0, <3>1, <3>2, VersionsFixed, Zenon
    <3>3. CASE ver[o] = None /\ ver'[o] # None
      (* The op has only just been launched. *)
      <4>1. PICK q \in Op, c \in Coordinator, v \in Version : Mints(q, c, v)
        BY <1>0, <3>3, MintStep, Zenon
      <4>2. q = o
        BY <1>0, <3>3, <4>1 DEF Mints, launch, TypeInv, OpPart
      <4>3. fan'[o][p] \in {"sent", "none"}
        BY <1>0, <4>1, <4>2 DEF Mints, launch, TypeInv, OpPart
      <4>4. QED
        BY <1>2, <4>3, Zenon DEF Arrived, Served
    <3>4. CASE ver'[o] = None
      BY <1>0, <1>2, <3>4, Zenon DEF Arrived, Served, TypeInv, OpPart
    <3>5. QED
      BY <3>2, <3>3, <3>4, Zenon
  <2>3. QED
    BY <2>1, <2>2, Zenon
<1>3. ASSUME NEW c \in Node, NEW p \in Node, replay'[c][p] \in Served
      PROVE  Covers(store'[p], blob'[c][p])
  <2>1. CASE replay[c][p] \in Served /\ blob'[c][p] = blob[c][p]
    <3>1. blob[c][p] \in Version
      BY <1>0, <2>1 DEF Served, TypeInv, HintPart
    <3>2. QED
      BY <1>0, <2>1, <3>1, CoversStable, Zenon DEF Delivery
  <2>2. QED
    BY <1>0, <1>3, <2>1, ReplayStep, Zenon
<1>4. ASSUME NEW o \in Op, phase'[o] = "ok"
      PROVE  acks(o)' >= need(W)
  <2>1. CASE phase[o] = "idle"
    <3>1. phase'[o] # "ok"
      BY <1>0, <2>1, IdleStep, Zenon
    <3>2. QED
      BY <1>4, <3>1, Zenon
  <2>2. CASE phase[o] # "idle"
    <3>1. acks(o) >= need(W)
      BY <1>0, <1>4, <2>2, AckStep, Zenon DEF Delivery
    <3>2. need(W) \in Nat
      BY NeedType, Zenon
    <3>3. QED
      BY <1>0, <2>2, <3>1, <3>2, AcksGrow
  <2>3. QED
    BY <2>1, <2>2, Zenon
<1>5. Delivery'
  BY <1>1, <1>2, <1>3, <1>4, Zenon DEF Delivery, acks
<1>6. QED
  BY <1>0, <1>5, Zenon DEF DeliveryInv

LEMMA DeliveryInvariant == Spec => []DeliveryInv
<1>1. Init => Delivery
  BY DEF Init, Delivery, Arrived, Served
<1>2. QED
  BY <1>1, TypeInit, DeliveryStep, PTL DEF Spec, DeliveryInv

(* +OK means durable: at least need(W) replicas cover an acknowledged      *)
(* write, at that moment and for ever after, whatever is lost, late or     *)
(* repeated on the way to the others.                                      *)
THEOREM AckedWritesAreDurable == Spec => []AckedWriteIsDurable
<1>1. DeliveryInv => AckedWriteIsDurable
  <2> SUFFICES ASSUME DeliveryInv, NEW o \in Op, phase[o] = "ok"
               PROVE  Cardinality({p \in Node : Covers(store[p], ver[o])}) >= need(W)
    BY Zenon DEF AckedWriteIsDurable
  <2> DEFINE A == {p \in Node : fan[o][p] = "acked"}
             C == {p \in Node : Covers(store[p], ver[o])}
  <2>1. ver[o] # None /\ coord[o] \in Node
    BY ReplicationAssumption, Zenon DEF DeliveryInv, TypeInv, OpPart
  <2>2. coord[o] \notin A
    BY Zenon DEF DeliveryInv, TypeInv, OpPart
  <2>3. A \cup {coord[o]} \subseteq C
    BY <2>1, Zenon DEF DeliveryInv, Delivery, Arrived
  <2>4. IsFiniteSet(A) /\ IsFiniteSet(C)
    BY ReplicationAssumption, FS_Subset, Zenon
  <2>5. Cardinality(A \cup {coord[o]}) = Cardinality(A) + 1
    BY <2>2, <2>4, FS_AddElement, Zenon
  <2>6. Cardinality(A \cup {coord[o]}) <= Cardinality(C)
    BY <2>3, <2>4, FS_Subset, Zenon
  <2>7. acks(o) = 1 + Cardinality(A) /\ acks(o) >= need(W)
    BY Zenon DEF acks, DeliveryInv, Delivery
  <2>8. Cardinality(A) \in Nat /\ Cardinality(C) \in Nat /\ need(W) \in Nat
    BY <2>4, FS_CardinalityType, NeedType, Zenon
  <2> HIDE DEF A
  <2>9. QED
    BY <2>5, <2>6, <2>7, <2>8
<1>2. QED
  BY <1>1, DeliveryInvariant, PTL
-----------------------------------------------------------------------------
(* Hints *)

(* Only replayed takes a hint away. *)
LEMMA HintStep ==
  ASSUME TypeInv, [Next]_vars, NEW c \in Node, NEW p \in Node,
         hints[c][p] # None, hints'[c][p] = None
  PROVE  replayed(c, p) /\ hints[c][p] = blob[c][p]
<1>0. hints \in [Node -> [Node -> Version \cup {None}]] /\ Coordinator \subseteq Node
  BY ReplicationAssumption, Zenon DEF TypeInv, HintPart
<1>1. hints' # hints
  BY Zenon
<1>2. ASSUME NEW o \in Op, OpStep(o)
      PROVE  FALSE
  <2>1. ASSUME NEW q \in Node, park(o, q)
        PROVE  FALSE
    <3>1. coord[o] \in Node /\ ver[o] # None
      BY <1>0, <2>1, Zenon DEF park, add, InFlight, TypeInv, OpPart
    <3>2. hints'[c][p] = IF c = coord[o] /\ p = q THEN ver[o] ELSE hints[c][p]
      BY <1>0, <2>1, <3>1, UpdateEntry, Zenon DEF park, add
    <3>3. QED
      BY <3>1, <3>2, Zenon
  <2>2. ASSUME NEW q \in Node, rset(o, q) \/ redial(o, q) \/ ack(o, q)
        PROVE  FALSE
    BY <1>1, <2>2, Zenon DEF rset, redial, ack, hintVars
  <2>3. ASSUME refuse(o) \/ gatherMet(o) \/ gatherShort(o)
        PROVE  FALSE
    BY <1>1, <2>3, Zenon DEF refuse, gatherMet, gatherShort, hintVars
  <2>4. ASSUME NEW d \in Coordinator, NEW v, launch(o, d, v)
        PROVE  FALSE
    BY <1>1, <2>4, Zenon DEF launch, hintVars
  <2>5. QED
    BY <1>2, <2>1, <2>2, <2>3, <2>4, Zenon DEF OpStep, write, delete
<1>3. ASSUME NEW r \in Read, ReadStep(r)
      PROVE  FALSE
  <2>1. ASSUME NEW q \in Node,
               rgetServed(r, q) \/ rgetFailed(r, q) \/ receive(r, q) \/ repairPeer(r, q)
        PROVE  FALSE
    BY <1>1, <2>1, Zenon DEF rgetServed, rgetFailed, receive, repairPeer, hintVars
  <2>2. ASSUME \/ readMet(r) \/ readShort(r) \/ repairSelf(r)
               \/ \E d \in Coordinator : read(r, d)
        PROVE  FALSE
    BY <1>1, <2>2, Zenon DEF readMet, readShort, repairSelf, read, hintVars
  <2>3. QED
    BY <1>3, <2>1, <2>2, Zenon DEF ReadStep
<1>4. ASSUME NEW n \in SyncNode, SyncStep(n)
      PROVE  FALSE
  BY <1>1, <1>4, Zenon DEF SyncStep, syncStart, syncTree, syncFetch, syncApply, syncFailed,
                    hintVars
<1>5. ASSUME Tick \/ UNCHANGED vars \/ \E m \in late : rsetLate(m)
      PROVE  FALSE
  BY <1>1, <1>5, Zenon DEF Tick, vars, rsetLate, hintVars
<1>6. ASSUME NEW d \in Coordinator, HandoffStep(d)
      PROVE  replayed(c, p) /\ hints[c][p] = blob[c][p]
  <2>1. ASSUME NEW q \in Node, rsetReplay(d, q) \/ redialReplay(d, q) \/ replayFailed(d, q)
        PROVE  FALSE
    BY <1>1, <2>1, Zenon DEF rsetReplay, redialReplay, replayFailed
  <2>2. ASSUME replayOnce(d)
        PROVE  FALSE
    BY <1>1, <2>2, Zenon DEF replayOnce, snapshot
  <2>3. ASSUME NEW q \in Node, replayed(d, q)
        PROVE  replayed(c, p) /\ hints[c][p] = blob[c][p]
    <3>1. /\ d \in Node
          /\ hints' = [hints EXCEPT ![d][q] = None]
          /\ hints[d][q] = blob[d][q]
      BY <1>0, <1>1, <2>3, Zenon DEF replayed, remove
    <3>2. hints'[c][p] = IF c = d /\ p = q THEN None ELSE hints[c][p]
      BY <1>0, <3>1, UpdateEntry
    <3>3. QED
      BY <2>3, <3>1, <3>2, Zenon
  <2>4. QED
    BY <1>6, <2>1, <2>2, <2>3, Zenon DEF HandoffStep
<1>7. QED
  BY <1>2, <1>3, <1>4, <1>5, <1>6, Zenon DEF Next

(* The replayer drops a hint only once its target holds the hinted write:  *)
(* a hint parked after the snapshot is never taken for the delivered one.  *)
THEOREM HintsAreKept == Spec => HintsOutliveDelivery
<1>1. DeliveryInv /\ [Next]_vars
        => [\A c, p \in Node :
              (hints[c][p] # None /\ hints'[c][p] = None)
                => Covers(store'[p], hints[c][p])]_vars
  <2> SUFFICES ASSUME DeliveryInv, [Next]_vars, NEW c \in Node, NEW p \in Node,
                      hints[c][p] # None, hints'[c][p] = None
               PROVE  Covers(store'[p], hints[c][p])
    BY Zenon
  <2>1. TypeInv
    BY Zenon DEF DeliveryInv
  <2>2. replayed(c, p) /\ hints[c][p] = blob[c][p]
    BY <2>1, HintStep, Zenon
  <2>3. Covers(store[p], hints[c][p]) /\ store' = store
    BY <2>2, Zenon DEF replayed, DeliveryInv, Delivery
  <2>4. QED
    BY <2>3, Zenon
<1>2. QED
  BY <1>1, DeliveryInvariant, PTL DEF Spec, HintsOutliveDelivery

-----------------------------------------------------------------------------
(* What a quorum read promises, for every pair of overlapping quorums.     *)

(* For a read r that is collecting and an op o acknowledged before it: some *)
(* write quorum held o when the read started, and every answer that has    *)
(* come from that quorum covers o.                                         *)
Informs(Q, r, o) ==
  \A p \in Q :
    /\ Covers(store[p], ver[o])
    /\ rget[r][p] \in {"replied", "used"} => Covers(got[r][p], ver[o])
    /\ rget[r][p] = "used" => Covers(merged[r], ver[o])

Reading ==
  \A r \in Read, o \in Op : o \in seen[r] =>
    /\ ver[o] # None
    /\ rphase[r] = "wait" =>
         \E Q \in SUBSET Node : Cardinality(Q) >= need(W) /\ Informs(Q, r, o)

ReadInv == DeliveryInv /\ AckedWriteIsDurable /\ Reading /\ ReadCoversAckedWrites

LEMMA CoversReconcileAll ==
  ASSUME NEW S \in SibSet, NEW T \in SibSet, NEW v \in Version,
         Covers(S, v) \/ Covers(T, v)
  PROVE  Covers(ReconcileAll(S, T), v)
<1>1. S \in SUBSET Version /\ T \in SUBSET Version /\ Siblings(S) /\ Siblings(T)
  BY Zenon DEF SibSet
<1>2. PICK w \in S \cup T : Leq(v.clock, w.clock)
  BY Zenon DEF Covers
<1>3. PICK u \in ReconcileAll(S, T) : Leq(w.clock, u.clock)
  BY <1>1, ReconcileAllCovers, Zenon DEF Covers
<1>4. u \in Version /\ w \in Version
  BY <1>1, ReconcileAllSubset, Zenon
<1>5. Leq(v.clock, u.clock)
  BY <1>2, <1>3, <1>4, LeqTransitive, Zenon DEF Version
<1>6. QED
  BY <1>5, Zenon DEF Covers

(* A read quorum meets every write quorum. *)
LEMMA QuorumsMeet ==
  ASSUME TypeInv, NEW r \in Read, NEW o \in Op, NEW Q \in SUBSET Node,
         Cardinality(Q) >= need(W), Informs(Q, r, o),
         R + W > Cardinality(Node), quorumRead(r)
  PROVE  Covers(merged[r], ver[o])
<1> DEFINE U == {p \in Node : rget[r][p] = "used"}
<1>1. IsFiniteSet(Node) /\ IsFiniteSet(U) /\ IsFiniteSet(Q)
  BY ReplicationAssumption, FS_Subset, Zenon
<1>2. /\ Cardinality(U) \in Nat /\ Cardinality(Q) \in Nat
      /\ Cardinality(Node) \in Nat /\ need(R) \in Nat /\ need(W) \in Nat
  BY <1>1, FS_CardinalityType, NeedType, Zenon
<1>3. Cardinality(U) >= need(R)
  BY Zenon DEF quorumRead, responses
<1>4. Cardinality(U) + Cardinality(Q) > Cardinality(Node)
  BY <1>2, <1>3, NeedType
<1>5. U \cap Q # {}
  BY <1>1, <1>4, FS_MajoritiesIntersect, Zenon
<1>6. QED
  BY <1>5, Zenon DEF Informs
(* What one step does to read r. *)
KeepsRead(r) ==
  /\ rphase'[r] = rphase[r] /\ seen'[r] = seen[r]
  /\ rget'[r] = rget[r] /\ got'[r] = got[r] /\ merged'[r] = merged[r]

LEMMA ReadEffect ==
  ASSUME TypeInv, [Next]_vars, NEW r \in Read
  PROVE  \/ KeepsRead(r)
         \/ \E c \in Coordinator : read(r, c)
         \/ \E p \in Node : rgetServed(r, p) \/ rgetFailed(r, p) \/ receive(r, p)
         \/ readMet(r)
         \/ readShort(r)
<1>0. /\ rphase \in [Read -> {"idle", "wait", "ok", "err"}]
      /\ rget \in [Read -> [Node -> {"none", "sent", "replied", "failed", "used"}]]
      /\ got \in [Read -> [Node -> SibSet]]
      /\ merged \in [Read -> SibSet]
      /\ seen \in [Read -> SUBSET Op]
  BY Zenon DEF TypeInv, ReadPart
<1>1. ASSUME UNCHANGED readVars
      PROVE  KeepsRead(r)
  BY <1>1, Zenon DEF readVars, KeepsRead
<1>2. ASSUME NEW o \in Op, OpStep(o)
      PROVE  UNCHANGED readVars
  <2>1. ASSUME NEW p \in Node, rset(o, p) \/ redial(o, p) \/ ack(o, p) \/ park(o, p)
        PROVE  UNCHANGED readVars
    BY <2>1, Zenon DEF rset, redial, ack, park, add
  <2>2. ASSUME refuse(o) \/ gatherMet(o) \/ gatherShort(o)
        PROVE  UNCHANGED readVars
    BY <2>2, Zenon DEF refuse, gatherMet, gatherShort
  <2>3. ASSUME NEW c \in Coordinator, NEW v, launch(o, c, v)
        PROVE  UNCHANGED readVars
    BY <2>3, Zenon DEF launch
  <2>4. QED
    BY <1>2, <2>1, <2>2, <2>3, Zenon DEF OpStep, write, delete
<1>3. ASSUME NEW c \in Coordinator, HandoffStep(c)
      PROVE  UNCHANGED readVars
  BY <1>3, Zenon DEF HandoffStep, replayOnce, snapshot, rsetReplay, redialReplay, replayed,
              replayFailed
<1>4. ASSUME NEW n \in SyncNode, SyncStep(n)
      PROVE  UNCHANGED readVars
  BY <1>4, Zenon DEF SyncStep, syncStart, syncTree, syncFetch, syncApply, syncFailed
<1>5. ASSUME Tick \/ UNCHANGED vars \/ \E m \in late : rsetLate(m)
      PROVE  UNCHANGED readVars
  BY <1>5, Zenon DEF Tick, vars, rsetLate
<1>6. ASSUME NEW k \in Read, ReadStep(k), k # r
      PROVE  KeepsRead(r)
  <2>1. ASSUME NEW c \in Coordinator, read(k, c)
        PROVE  KeepsRead(r)
    BY <1>0, <1>6, <2>1, Zenon DEF read, KeepsRead
  <2>2. ASSUME NEW p \in Node, rgetServed(k, p)
        PROVE  KeepsRead(r)
    BY <1>0, <1>6, <2>2, Zenon DEF rgetServed, KeepsRead
  <2>3. ASSUME NEW p \in Node, rgetFailed(k, p)
        PROVE  KeepsRead(r)
    BY <1>0, <1>6, <2>3, Zenon DEF rgetFailed, KeepsRead
  <2>4. ASSUME NEW p \in Node, receive(k, p)
        PROVE  KeepsRead(r)
    BY <1>0, <1>6, <2>4, Zenon DEF receive, KeepsRead
  <2>5. ASSUME NEW p \in Node, repairPeer(k, p)
        PROVE  KeepsRead(r)
    BY <2>5, Zenon DEF repairPeer, KeepsRead
  <2>6. ASSUME readMet(k)
        PROVE  KeepsRead(r)
    BY <1>0, <1>6, <2>6, Zenon DEF readMet, KeepsRead
  <2>7. ASSUME readShort(k)
        PROVE  KeepsRead(r)
    BY <1>0, <1>6, <2>7, Zenon DEF readShort, KeepsRead
  <2>8. ASSUME repairSelf(k)
        PROVE  KeepsRead(r)
    BY <2>8, Zenon DEF repairSelf, KeepsRead
  <2>9. QED
    BY <1>6, <2>1, <2>2, <2>3, <2>4, <2>5, <2>6, <2>7, <2>8 DEF ReadStep
<1>7. ASSUME ReadStep(r)
      PROVE  \/ KeepsRead(r)
             \/ \E c \in Coordinator : read(r, c)
             \/ \E p \in Node : rgetServed(r, p) \/ rgetFailed(r, p) \/ receive(r, p)
             \/ readMet(r)
             \/ readShort(r)
  <2>1. ASSUME repairSelf(r) \/ \E p \in Node : repairPeer(r, p)
        PROVE  KeepsRead(r)
    BY <2>1, Zenon DEF repairSelf, repairPeer, KeepsRead
  <2>2. QED
    BY <1>7, <2>1, Zenon DEF ReadStep
<1>8. QED
  BY <1>1, <1>2, <1>3, <1>4, <1>5, <1>6, <1>7 DEF Next

(* Answers a read already has stay valid: stores only grow. *)
LEMMA InformsKept ==
  ASSUME TypeInv, [Next]_vars, NEW r \in Read, NEW o \in Op, ver[o] # None,
         NEW Q \in SUBSET Node, Informs(Q, r, o), KeepsRead(r)
  PROVE  Informs(Q, r, o)'
<1>1. ver[o] \in Version /\ ver'[o] = ver[o]
  BY VersionsFixed, Zenon DEF TypeInv, OpPart
<1>2. \A p \in Q : Covers(store'[p], ver[o])
  BY <1>1, CoversStable, Zenon DEF Informs
<1>3. QED
  BY <1>1, <1>2, Zenon DEF Informs, KeepsRead

LEMMA ReadInvStep ==
  ASSUME ReadInv, [Next]_vars, (DeliveryInv /\ AckedWriteIsDurable)',
         NEW r \in Read, NEW o \in Op, o \in seen'[r]
  PROVE  /\ ver'[o] # None
         /\ rphase'[r] = "wait" =>
              \E Q \in SUBSET Node : Cardinality(Q) >= need(W) /\ Informs(Q, r, o)'
         /\ rphase'[r] = "ok" /\ R + W > Cardinality(Node) =>
              Covers(merged'[r], ver'[o])
<1>0. TypeInv /\ TypeInv'
  BY TypeStep, Zenon DEF ReadInv, DeliveryInv
<1>1. ASSUME NEW c \in Coordinator, read(r, c)
      PROVE  /\ ver'[o] # None /\ rphase'[r] = "wait"
             /\ \E Q \in SUBSET Node : Cardinality(Q) >= need(W) /\ Informs(Q, r, o)'
  <2>0. PICK Q \in SUBSET Node : Q = {p \in Node : Covers(store[p], ver[o])}
    BY Zenon
  <2>1. seen'[r] = Acknowledged /\ rphase'[r] = "wait"
        /\ store' = store /\ ver' = ver
    BY <1>0, <1>1 DEF read, opVars, TypeInv, ReadPart
  <2>2. phase[o] = "ok" /\ ver[o] # None
    BY <1>0, <2>1, Zenon DEF Acknowledged, TypeInv, OpPart
  <2>3. Cardinality(Q) >= need(W)
    BY <2>0, <2>2, Zenon DEF ReadInv, AckedWriteIsDurable
  <2>4. /\ c \in Node
        /\ got'[r][c] = store[c] /\ merged'[r] = store[c]
        /\ \A p \in Node \ {c} : rget'[r][p] \in {"sent", "none"}
    BY <1>0, <1>1, ReplicationAssumption, Zenon DEF read, TypeInv, ReadPart
  <2>5. Informs(Q, r, o)'
    BY <2>0, <2>1, <2>4, Zenon DEF Informs
  <2>6. QED
    BY <2>1, <2>2, <2>3, <2>5, Zenon
<1>2. CASE KeepsRead(r)
  <2>1. o \in seen[r] /\ rphase'[r] = rphase[r] /\ merged'[r] = merged[r]
    BY <1>2, Zenon DEF KeepsRead
  <2>2. ver[o] # None
    BY <2>1, Zenon DEF ReadInv, Reading
  <2>3. ver'[o] = ver[o]
    BY <1>0, <2>2, VersionsFixed, Zenon
  <2>4. ASSUME rphase[r] = "wait"
        PROVE  \E Q \in SUBSET Node : Cardinality(Q) >= need(W) /\ Informs(Q, r, o)'
    BY <1>0, <1>2, <2>1, <2>2, <2>4, InformsKept, Zenon DEF ReadInv, Reading
  <2>5. QED
    BY <2>1, <2>2, <2>3, <2>4, Zenon DEF ReadInv, ReadCoversAckedWrites
<1>3. ASSUME NEW p \in Node, rgetServed(r, p) \/ rgetFailed(r, p)
      PROVE  /\ ver'[o] # None
             /\ rphase'[r] = "wait" =>
                  \E Q \in SUBSET Node : Cardinality(Q) >= need(W) /\ Informs(Q, r, o)'
             /\ rphase'[r] = "ok" /\ R + W > Cardinality(Node) =>
                  Covers(merged'[r], ver'[o])
  <2>1. /\ UNCHANGED <<store, ver, seen, rphase, merged>>
        /\ \/ /\ rget' = [rget EXCEPT ![r][p] = "replied"]
              /\ got' = [got EXCEPT ![r][p] = store[p]]
           \/ /\ rget' = [rget EXCEPT ![r][p] = "failed"]
              /\ got' = [got EXCEPT ![r][p] = {}]
    BY <1>3, Zenon DEF rgetServed, rgetFailed, opVars
  <2>2. ver[o] # None
    BY <2>1, Zenon DEF ReadInv, Reading
  <2>3. ASSUME rphase[r] = "wait"
        PROVE  \E Q \in SUBSET Node : Cardinality(Q) >= need(W) /\ Informs(Q, r, o)'
    <3>1. PICK Q \in SUBSET Node : Cardinality(Q) >= need(W) /\ Informs(Q, r, o)
      BY <2>1, <2>3, Zenon DEF ReadInv, Reading
    <3>2. /\ rget \in [Read -> [Node -> {"none", "sent", "replied", "failed", "used"}]]
          /\ got \in [Read -> [Node -> SibSet]]
      BY <1>0, Zenon DEF TypeInv, ReadPart
    <3>3. \A q \in Node \ {p} : rget'[r][q] = rget[r][q] /\ got'[r][q] = got[r][q]
      BY <2>1, <3>2
    <3>4. \/ rget'[r][p] = "replied" /\ got'[r][p] = store[p]
          \/ rget'[r][p] = "failed"
      BY <2>1, <3>2
    <3>5. Informs(Q, r, o)'
      BY <2>1, <3>1, <3>3, <3>4, Zenon DEF Informs
    <3>6. QED
      BY <3>1, <3>5, Zenon
  <2>4. QED
    BY <2>1, <2>2, <2>3, Zenon DEF ReadInv, ReadCoversAckedWrites
<1>4. ASSUME NEW p \in Node, receive(r, p)
      PROVE  /\ ver'[o] # None /\ rphase'[r] = "wait"
             /\ \E Q \in SUBSET Node : Cardinality(Q) >= need(W) /\ Informs(Q, r, o)'
  <2>1. /\ UNCHANGED <<store, ver, seen, rphase, got>>
        /\ rphase[r] = "wait" /\ rget[r][p] = "replied"
        /\ rget' = [rget EXCEPT ![r][p] = "used"]
        /\ merged' = [merged EXCEPT ![r] = ReconcileAll(@, got[r][p])]
    BY <1>4, Zenon DEF receive, opVars
  <2>2. ver[o] # None
    BY <2>1, Zenon DEF ReadInv, Reading
  <2>3. PICK Q \in SUBSET Node : Cardinality(Q) >= need(W) /\ Informs(Q, r, o)
    BY <2>1, Zenon DEF ReadInv, Reading
  <2>4. /\ rget \in [Read -> [Node -> {"none", "sent", "replied", "failed", "used"}]]
        /\ got[r][p] \in SibSet /\ merged[r] \in SibSet /\ ver[o] \in Version
        /\ merged'[r] = ReconcileAll(merged[r], got[r][p])
    BY <1>0, <2>1, <2>2 DEF TypeInv, OpPart, ReadPart
  <2>5. \A q \in Node \ {p} : rget'[r][q] = rget[r][q]
    BY <2>1, <2>4, Zenon
  <2>6. \A q \in Q : rget'[r][q] = "used" => Covers(merged'[r], ver[o])
    BY <2>1, <2>3, <2>4, <2>5, CoversReconcileAll DEF Informs
  <2>7. Informs(Q, r, o)'
    BY <2>1, <2>3, <2>5, <2>6, Zenon DEF Informs
  <2>8. QED
    BY <2>1, <2>2, <2>3, <2>7, Zenon
<1>5. ASSUME readMet(r)
      PROVE  /\ ver'[o] # None /\ rphase'[r] = "ok"
             /\ R + W > Cardinality(Node) => Covers(merged'[r], ver'[o])
  <2>1. /\ UNCHANGED <<ver, seen, merged>>
        /\ rphase[r] = "wait" /\ rphase'[r] = "ok" /\ quorumRead(r)
    BY <1>0, <1>5, Zenon DEF readMet, opVars, TypeInv, ReadPart
  <2>2. PICK Q \in SUBSET Node : Cardinality(Q) >= need(W) /\ Informs(Q, r, o)
    BY <2>1, Zenon DEF ReadInv, Reading
  <2>3. QED
    BY <1>0, <2>1, <2>2, QuorumsMeet, Zenon DEF ReadInv, Reading
<1>6. ASSUME readShort(r)
      PROVE  ver'[o] # None /\ rphase'[r] = "err"
  BY <1>0, <1>6, Zenon DEF readShort, opVars, ReadInv, Reading, TypeInv, ReadPart
<1>7. QED
  BY <1>0, <1>1, <1>2, <1>3, <1>4, <1>5, <1>6, ReadEffect

LEMMA ReadingInvariant == Spec => [](Reading /\ ReadCoversAckedWrites)
<1>1. Init => Reading /\ ReadCoversAckedWrites
  BY Zenon DEF Init, Reading, ReadCoversAckedWrites
<1>2. ReadInv /\ [Next]_vars /\ (DeliveryInv /\ AckedWriteIsDurable)'
        => (Reading /\ ReadCoversAckedWrites)'
  <2> SUFFICES ASSUME ReadInv, [Next]_vars, (DeliveryInv /\ AckedWriteIsDurable)'
               PROVE  Reading' /\ ReadCoversAckedWrites'
    BY Zenon
  <2>1. Reading'
    BY ReadInvStep, Zenon DEF Reading
  <2>2. seen' \in [Read -> SUBSET Op]
    BY Zenon DEF DeliveryInv, TypeInv, ReadPart
  <2>3. ReadCoversAckedWrites'
    BY <2>2, ReadInvStep, Zenon DEF ReadCoversAckedWrites
  <2>4. QED
    BY <2>1, <2>3, Zenon
<1>3. QED
  BY <1>1, <1>2, DeliveryInvariant, AckedWritesAreDurable, PTL DEF Spec, ReadInv

(* With R + W > N, a read that met its quorum reflects every write that was *)
(* acknowledged before it started, at whichever nodes the two were         *)
(* coordinated, for every replica set and every such pair of quorums.      *)
THEOREM ReadsCoverAckedWrites == Spec => []ReadCoversAckedWrites
BY ReadingInvariant, PTL

-----------------------------------------------------------------------------
(* Read-your-writes.  The clock of a write that began after another was     *)
(* acknowledged is never below the other's, and at the same coordinator it *)
(* is above it.                                                            *)
Ordered ==
  \A o, q \in Op : (ver[o] # None /\ q \in before[o]) =>
    /\ ver[q] # None
    /\ ~Leq(ver[o].clock, ver[q].clock)
    /\ coord[q] = coord[o] => Leq(ver[q].clock, ver[o].clock)

OrderInv == ClockInv /\ DeliveryInv /\ Ordered

(* A new clock is ahead of all earlier ones in its coordinator's entry. *)
LEMMA MintIsAhead ==
  ASSUME ClockInv, NEW o \in Op, NEW c \in Coordinator, NEW v \in Version,
         Mints(o, c, v), NEW q \in Op, ver[q] # None
  PROVE  ~Leq(v.clock, ver[q].clock)
<1>1. /\ c \in Node
      /\ store[c] \in SibSet
      /\ \A w \in store[c] : w \in Version
      /\ v.clock = Increment(Frontier(store[c]), c)
      /\ ver[q] \in Version
  BY ReplicationAssumption, SibSetVersions, Zenon DEF ClockInv, Mints, mint, TypeInv, OpPart
<1>2. /\ 0 < v.clock[c]
      /\ \A w \in store[c] : w.clock[c] < v.clock[c]
  BY <1>1, MintedClock, Zenon
<1>3. \/ ver[q].clock[c] = 0
      \/ \E w \in store[c] : ver[q].clock[c] <= w.clock[c]
  BY <1>1, Zenon DEF ClockInv, Counters
<1>4. ver[q].clock[c] \in Nat /\ v.clock[c] \in Nat
      /\ \A w \in store[c] : w.clock[c] \in Nat
  BY <1>1, Zenon DEF Version, Clock
<1>5. ver[q].clock[c] < v.clock[c]
  BY <1>2, <1>3, <1>4
<1>6. QED
  BY <1>1, <1>4, <1>5, LeqPointwise DEF Version

(* A new clock is above every version its coordinator covers. *)
LEMMA MintIsAbove ==
  ASSUME NEW S \in SibSet, NEW c \in Node, NEW w \in Version, Covers(S, w)
  PROVE  Leq(w.clock, Increment(Frontier(S), c))
<1>1. S \in SUBSET Version /\ HasFrontier(S)
  BY Zenon DEF SibSet
<1>2. PICK u \in S : Leq(w.clock, u.clock)
  BY Zenon DEF Covers
<1>3. u \in Version /\ u.clock \in Clock /\ w.clock \in Clock
  BY <1>1, Zenon DEF Version
<1>4. Increment(Frontier(S), c) \in Clock
  BY MintedClock, Zenon
<1>5. \A n \in Node : u.clock[n] <= Increment(Frontier(S), c)[n]
  <2> TAKE n \in Node
  <2>1. CASE n = c
    <3>1. u.clock[c] < Increment(Frontier(S), c)[c]
      BY MintedClock, Zenon
    <3>2. QED
      BY <1>3, <1>4, <2>1, <3>1 DEF Clock
  <2>2. CASE n # c
    <3>1. Increment(Frontier(S), c)[n] = Frontier(S)[n]
      BY <2>2, MintedClock, Zenon
    <3>2. u.clock[n] <= Frontier(S)[n]
      BY <1>1, FrontierIsTop, Zenon DEF IsTop
    <3>3. QED
      BY <3>1, <3>2, Zenon
  <2>3. QED
    BY <2>1, <2>2, Zenon
<1>6. Leq(u.clock, Increment(Frontier(S), c))
  BY <1>3, <1>4, <1>5, LeqPointwise, Zenon
<1>7. QED
  BY <1>2, <1>3, <1>4, <1>6, LeqTransitive, Zenon

LEMMA OrderStep ==
  ASSUME OrderInv, [Next]_vars
  PROVE  Ordered'
<1>0. ClockInv /\ DeliveryInv /\ TypeInv /\ Ordered
  BY Zenon DEF OrderInv, ClockInv
<1>1. CASE UNCHANGED <<ver, coord, before>>
  BY <1>0, <1>1, Zenon DEF Ordered
<1>2. ASSUME NEW o \in Op, NEW c \in Coordinator, NEW v \in Version, Mints(o, c, v)
      PROVE  Ordered'
  <2>1. /\ ver' = [ver EXCEPT ![o] = v]
        /\ coord' = [coord EXCEPT ![o] = c]
        /\ before' = [before EXCEPT ![o] = Acknowledged]
        /\ phase[o] = "idle" /\ ver[o] = None
        /\ ver \in [Op -> Version \cup {None}]
        /\ coord \in [Op -> Coordinator \cup {None}]
        /\ before \in [Op -> SUBSET Op]
    BY <1>0, <1>2, Zenon DEF Mints, launch, TypeInv, OpPart
  <2>2. v # None
    BY ReplicationAssumption, Zenon
  <2>3. ASSUME NEW q \in Op, q \in before'[o]
        PROVE  /\ ver'[q] # None
               /\ ~Leq(ver'[o].clock, ver'[q].clock)
               /\ coord'[q] = coord'[o] => Leq(ver'[q].clock, ver'[o].clock)
    <3>1. phase[q] = "ok"
      BY <2>1, <2>3, Zenon DEF Acknowledged
    <3>2. q # o /\ ver[q] # None
      BY <1>0, <2>1, <3>1, Zenon DEF TypeInv, OpPart
    <3>3. ver'[q] = ver[q] /\ coord'[q] = coord[q] /\ ver'[o] = v /\ coord'[o] = c
      BY <2>1, <3>2, Zenon
    <3>4. ~Leq(v.clock, ver[q].clock)
      BY <1>0, <1>2, <3>2, MintIsAhead, Zenon
    <3>5. ASSUME coord[q] = c
          PROVE  Leq(ver[q].clock, v.clock)
      <4>1. Covers(store[c], ver[q])
        BY <1>0, <3>2, <3>5, Zenon DEF DeliveryInv, Delivery
      <4>2. store[c] \in SibSet /\ c \in Node /\ ver[q] \in Version
        BY <1>0, <2>1, <3>2, ReplicationAssumption, Zenon DEF TypeInv
      <4>3. v.clock = Increment(Frontier(store[c]), c)
        BY <1>2, Zenon DEF Mints, mint
      <4>4. QED
        BY <4>1, <4>2, <4>3, MintIsAbove, Zenon
    <3>6. QED
      BY <3>2, <3>3, <3>4, <3>5, Zenon
  <2>4. ASSUME NEW p \in Op, p # o, ver'[p] # None, NEW q \in Op, q \in before'[p]
        PROVE  /\ ver'[q] # None
               /\ ~Leq(ver'[p].clock, ver'[q].clock)
               /\ coord'[q] = coord'[p] => Leq(ver'[q].clock, ver'[p].clock)
    <3>1. ver'[p] = ver[p] /\ coord'[p] = coord[p] /\ before'[p] = before[p]
      BY <2>1, <2>4, Zenon
    <3>2. ver[q] # None
      BY <1>0, <2>4, <3>1, Zenon DEF Ordered
    <3>3. ver'[q] = ver[q] /\ coord'[q] = coord[q]
      BY <2>1, <3>2, Zenon
    <3>4. QED
      BY <1>0, <2>4, <3>1, <3>2, <3>3, Zenon DEF Ordered
  <2>5. QED
    BY <2>3, <2>4, Zenon DEF Ordered
<1>3. QED
  BY <1>0, <1>1, <1>2, MintStep, Zenon

LEMMA OrderInvariant == Spec => []OrderInv
<1>1. Init => Ordered
  BY Zenon DEF Init, Ordered
<1>2. OrderInv /\ [Next]_vars => Ordered'
  BY OrderStep, Zenon
<1>3. QED
  BY <1>1, <1>2, ClockInvariant, DeliveryInvariant, PTL DEF Spec, OrderInv

(* Whoever covers the latest write holds it. *)
LEMMA LatestIsHeld ==
  ASSUME OrderInv, NEW r \in Read, NEW o \in Op, Latest(o), ver[o] # None,
         Covers(merged[r], ver[o])
  PROVE  ver[o] \in merged[r]
<1>1. PICK w \in merged[r] : Leq(ver[o].clock, w.clock)
  BY Zenon DEF Covers
<1>2. PICK q \in Op : ver[q] = w /\ ver[q] # None
  BY <1>1 DEF OrderInv, ClockInv, Provenance, Minted
<1>3. CASE q = o
  BY <1>1, <1>2, <1>3, Zenon
<1>4. CASE q # o
  <2>1. q \in before[o]
    BY <1>2, <1>4, Zenon DEF Latest
  <2>2. ~Leq(ver[o].clock, ver[q].clock)
    BY <2>1, Zenon DEF OrderInv, Ordered
  <2>3. QED
    BY <1>1, <1>2, <2>2, Zenon
<1>5. QED
  BY <1>3, <1>4, Zenon

(* Read-your-writes, for every replica set and every pair of overlapping   *)
(* quorums: a read that starts after the last write was acknowledged sees  *)
(* that write, and a key deleted by the node that wrote it reads as a miss *)
(* (Coordinator.read).                                                     *)
THEOREM ReadsSeeLatestWrite == Spec => []ReadsLatestAckedWrite
<1>1. OrderInv /\ Reading /\ ReadCoversAckedWrites => ReadsLatestAckedWrite
  <2> SUFFICES ASSUME OrderInv, Reading, ReadCoversAckedWrites,
                      R + W > Cardinality(Node),
                      NEW r \in Read, rphase[r] = "ok",
                      NEW o \in seen[r], Latest(o)
               PROVE  IF ver[o].deleted
                      THEN SoleWriter(o) => Live(merged[r]) = {}
                      ELSE ver[o] \in merged[r]
    BY Zenon DEF ReadsLatestAckedWrite
  <2>1. o \in Op /\ merged[r] \in SibSet
    BY Zenon DEF OrderInv, ClockInv, TypeInv, ReadPart
  <2>2. ver[o] # None /\ Covers(merged[r], ver[o])
    BY <2>1, Zenon DEF Reading, ReadCoversAckedWrites
  <2>3. ver[o] \in merged[r]
    BY <2>1, <2>2, LatestIsHeld, Zenon
  <2>4. ASSUME SoleWriter(o), NEW v \in merged[r]
        PROVE  v = ver[o]
    <3>1. PICK q \in Op : ver[q] = v /\ ver[q] # None
      BY DEF OrderInv, ClockInv, Provenance, Minted
    <3>2. CASE q # o
      <4>1. q \in before[o] /\ coord[q] = coord[o]
        BY <2>4, <3>1, <3>2, Zenon DEF Latest, SoleWriter
      <4>2. Leq(v.clock, ver[o].clock)
        BY <2>1, <2>2, <3>1, <4>1, Zenon DEF OrderInv, Ordered
      <4>3. Siblings(merged[r])
        BY <2>1, Zenon DEF SibSet
      <4>4. QED
        BY <2>3, <4>2, <4>3, CompareVerdicts, Zenon DEF Siblings
    <3>3. QED
      BY <3>1, <3>2, Zenon
  <2>5. QED
    BY <2>3, <2>4, Zenon DEF Live
<1>2. QED
  BY <1>1, OrderInvariant, ReadingInvariant, PTL
=============================================================================
