----------------------------- MODULE Membership -----------------------------
(***************************************************************************)
(* Gossip membership: the roster of every node (internal/cluster/          *)
(* membership.go), the gossip loops that exchange rosters over UDP         *)
(* (gossip.go).                                                            *)
(*                                                                         *)
(* Packets are lost, delayed, reordered and repeated.  Nodes crash and come*)
(* back with an empty roster.  Nothing bounds the time between two steps,  *)
(* so whether a member has been silent for longer than the fail timeout is *)
(* a free choice of DetectFailures.  A node's gossip address is the node.  *)
(***************************************************************************)
EXTENDS Naturals, FiniteSets, Relation

CONSTANTS Node,
          Seeds,        \* Seeds[n]: the bootstrap peers of n
          Fanout,       \* peers gossiped to in a round
          MaxInc,       \* bound on incarnations
          MaxNet,       \* bound on packets in flight; the others are lost
          MaxCrashes,   \* bound on crashes
          None          \* an unknown member

ASSUME MembershipAssumption ==
  /\ IsFiniteSet(Node)
  /\ Seeds \in [Node -> SUBSET Node]
  /\ Fanout \in Nat
  /\ MaxInc \in Nat \ {0}
  /\ MaxNet \in Nat
  /\ MaxCrashes \in Nat

(* NodeState, ordered by deadness. *)
Alive   == 0
Suspect == 1
Dead    == 2

Member == [state : {Alive, Suspect, Dead}, inc : Nat]

ASSUME NoneAssumption == None \notin Member

Roster == [Node -> Member \cup {None}]
Packet == [to : Node, view : Roster]

VARIABLES
  up,       \* the running nodes
  roster,   \* roster[n]: the members n knows
  step,     \* step[n]: where n's gossip round stands
  targets,  \* targets[n]: the candidates of that round
  net,      \* packets in flight
  highest,  \* history: the highest incarnation each node ever had
  crashes   \* number of crashes

vars == <<up, roster, step, targets, net, highest, crashes>>

TypeOK ==
  /\ up \in SUBSET Node
  /\ roster \in [Node -> Roster]
  /\ step \in [Node -> {"idle", "detect", "pick", "send"}]
  /\ targets \in [Node -> SUBSET Node]
  /\ net \in SUBSET Packet
  /\ highest \in [Node -> Nat]
  /\ crashes \in Nat

-----------------------------------------------------------------------------
(* Members *)

(* NewMembers, with the incarnation main starts a node at. *)
NewMembers(n) ==
  [p \in Node |-> IF p = n THEN [state |-> Alive, inc |-> 1] ELSE None]

AliveIn(view) == {p \in Node : view[p] # None /\ view[p].state = Alive}

(* Mutant: an equal incarnation is adopted whatever its state. *)
mergeMemberTies(local, r) == IF r.inc >= local.inc THEN r ELSE local

(* A record about another member. *)
mergeMember(local, r) ==
  IF r.inc > local.inc THEN r
  ELSE IF r.inc = local.inc /\ r.state > local.state
       THEN [local EXCEPT !.state = r.state]
       ELSE local

(* A record about self. *)
refute(local, r) ==
  IF r.state # Alive /\ r.inc >= local.inc
  THEN [state |-> Alive, inc |-> r.inc + 1]
  ELSE local

(* Mutant: a record about self is merged like any other. *)
MergeSelfToo(self, local, remote) ==
  [p \in Node |->
     IF remote[p] = None THEN local[p]
     ELSE IF local[p] = None THEN remote[p]
     ELSE mergeMember(local[p], remote[p])]

(* Mutant: a claim about any member is refuted. *)
MergeRefuteAll(self, local, remote) ==
  [p \in Node |->
     IF remote[p] = None THEN local[p]
     ELSE IF local[p] = None THEN remote[p]
     ELSE refute(mergeMember(local[p], remote[p]), remote[p])]

Merge(self, local, remote) ==
  [p \in Node |->
     IF remote[p] = None THEN local[p]
     ELSE IF local[p] = None THEN remote[p]
     ELSE IF p = self THEN refute(local[p], remote[p])
     ELSE mergeMember(local[p], remote[p])]

-----------------------------------------------------------------------------
(* Gossiper.round.  Each step takes the roster's lock once; packets are    *)
(* received in between.                                                    *)

Bump(n) ==
  /\ n \in up
  /\ step[n] = "idle"
  /\ roster[n][n].inc < MaxInc
  /\ roster' = [roster EXCEPT ![n][n].inc = @ + 1]
  /\ step' = [step EXCEPT ![n] = "detect"]
  /\ highest' = [highest EXCEPT ![n] =
                   IF @ < roster[n][n].inc + 1 THEN roster[n][n].inc + 1 ELSE @]
  /\ UNCHANGED <<up, targets, net, crashes>>

(* Mutant: a silent member gets one state deader in every round. *)
DetectFailuresEscalating(n) ==
  /\ n \in up
  /\ step[n] = "detect"
  /\ \E silent \in SUBSET {p \in Node \ {n} : roster[n][p] # None} :
       roster' = [roster EXCEPT ![n] =
                    [p \in Node |-> IF p \in silent
                                    THEN [roster[n][p] EXCEPT !.state = @ + 1]
                                    ELSE roster[n][p]]]
  /\ step' = [step EXCEPT ![n] = "pick"]
  /\ UNCHANGED <<up, targets, net, highest, crashes>>

DetectFailures(n) ==
  /\ n \in up
  /\ step[n] = "detect"
  /\ \E silent \in SUBSET (AliveIn(roster[n]) \ {n}) :
       roster' = [roster EXCEPT ![n] =
                    [p \in Node |-> IF p \in silent
                                    THEN [roster[n][p] EXCEPT !.state = Dead]
                                    ELSE roster[n][p]]]
  /\ step' = [step EXCEPT ![n] = "pick"]
  /\ UNCHANGED <<up, targets, net, highest, crashes>>

candidates(n) == (AliveIn(roster[n]) \ {n}) \cup Seeds[n]

pickCandidates(n) ==
  /\ n \in up
  /\ step[n] = "pick"
  /\ targets' = [targets EXCEPT ![n] = candidates(n)]
  /\ step' = [step EXCEPT ![n] = "send"]
  /\ UNCHANGED <<up, roster, net, highest, crashes>>

(* Snapshot and the sends; any of the packets may get lost. *)
send(n) ==
  /\ n \in up
  /\ step[n] = "send"
  /\ \E T \in SUBSET targets[n] :
       /\ Cardinality(T) <= Fanout
       /\ net' = net \cup {[to |-> p, view |-> roster[n]] : p \in T}
       /\ Cardinality(net') <= MaxNet
  /\ step' = [step EXCEPT ![n] = "idle"]
  /\ targets' = [targets EXCEPT ![n] = {}]
  /\ UNCHANGED <<up, roster, highest, crashes>>

(* receiveLoop: one packet, which the network may deliver once more. *)
receive(pk) ==
  LET n   == pk.to
      new == Merge(n, roster[n], pk.view)
  IN  /\ n \in up
      /\ new[n].inc <= MaxInc
      /\ roster' = [roster EXCEPT ![n] = new]
      /\ net' \in {net, net \ {pk}}
      /\ highest' = [highest EXCEPT ![n] = IF @ < new[n].inc THEN new[n].inc ELSE @]
      /\ UNCHANGED <<up, step, targets, crashes>>

lose(pk) ==
  /\ net' = net \ {pk}
  /\ UNCHANGED <<up, roster, step, targets, highest, crashes>>

crash(n) ==
  /\ n \in up
  /\ crashes < MaxCrashes
  /\ up' = up \ {n}
  /\ roster' = [roster EXCEPT ![n] = [p \in Node |-> None]]
  /\ step' = [step EXCEPT ![n] = "idle"]
  /\ targets' = [targets EXCEPT ![n] = {}]
  /\ crashes' = crashes + 1
  /\ UNCHANGED <<net, highest>>

(* main: a fresh roster. *)
start(n) ==
  /\ n \notin up
  /\ up' = up \cup {n}
  /\ roster' = [roster EXCEPT ![n] = NewMembers(n)]
  /\ UNCHANGED <<step, targets, net, highest, crashes>>

Init ==
  /\ up = Node
  /\ roster = [n \in Node |-> NewMembers(n)]
  /\ step = [n \in Node |-> "idle"]
  /\ targets = [n \in Node |-> {}]
  /\ net = {}
  /\ highest = [n \in Node |-> 1]
  /\ crashes = 0

Next ==
  \/ \E n \in Node : \/ Bump(n)
                     \/ DetectFailures(n)
                     \/ pickCandidates(n)
                     \/ send(n)
                     \/ crash(n)
                     \/ start(n)
  \/ \E pk \in net : receive(pk) \/ lose(pk)

Spec == Init /\ [][Next]_vars

-----------------------------------------------------------------------------
(* Properties *)

(* A running node never believes the claim that it is dead, in whichever   *)
(* order claims and heartbeats meet, so it always routes keys to itself    *)
(* (Merge's self rule, the self skip of DetectFailures).                   *)
SelfIsAlive == \A n \in up : n \in AliveIn(roster[n])

(* Only a node raises its own incarnation: nothing any roster or packet    *)
(* says about p is ahead of the highest incarnation p ever had.            *)
OnlyOwnerRaises ==
  \A p \in Node :
    /\ \A n \in Node : roster[n][p] # None => roster[n][p].inc <= highest[p]
    /\ \A pk \in net : pk.view[p] # None => pk.view[p].inc <= highest[p]

(* r is at least as recent as q: the order Merge resolves claims by. *)
Newer(r, q) == r.inc > q.inc \/ (r.inc = q.inc /\ r.state >= q.state)

(* While a node runs, its view of a member never goes back: whatever order *)
(* packets come in, a member once dead is alive again only at a higher     *)
(* incarnation, and no member is forgotten (Merge, DetectFailures).        *)
ViewsNeverRegress ==
  [][\A n \in up \cap up', p \in Node :
       roster[n][p] # None => /\ roster'[n][p] # None
                              /\ Newer(roster'[n][p], roster[n][p])]_vars

(* Merge is commutative and idempotent: a packet on its way to a running   *)
(* node may be received before or after anything a node would send to it   *)
(* now, and once or twice, and leaves the same roster.                     *)
MergeOrderIrrelevant ==
  \A pk \in net : pk.to \in up =>
    LET n     == pk.to
        local == roster[n]
        once  == Merge(n, local, pk.view)
    IN  /\ Merge(n, once, pk.view) = once
        /\ \A q \in up : Merge(n, once, roster[q])
                            = Merge(n, Merge(n, local, roster[q]), pk.view)

(* Gossip can lead from one running node to another, through whatever     *)
(* running nodes still send to each other.                                 *)
Reaches(from, to) ==
  TransitiveClosure([e \in up \X up |-> e[2] \in candidates(e[1])], up)[from, to]

(* A running node that another one holds dead can come back at once.       *)
(* Either its next heartbeat out-ranks the claim and can be heard by the   *)
(* node that made it, so that a false positive corrects itself; or it does *)
(* not, as after a restart at incarnation 1, and the claim can be told to  *)
(* the node, which then refutes it (Merge, and whom a round gossips to).   *)
(* Heartbeats that only later count past the claim are not considered.     *)
MarkedDeadComesBack ==
  \A m, n \in up :
    (roster[m][n] # None /\ roster[m][n].state = Dead) =>
      IF roster[n][n].inc >= roster[m][n].inc THEN Reaches(n, m) ELSE Reaches(m, n)
=============================================================================
