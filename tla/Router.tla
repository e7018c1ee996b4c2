------------------------------- MODULE Router -------------------------------
(***************************************************************************)
(* The routers (internal/cluster/router.go): each rebuilds its ring from   *)
(* its own view of the members and publishes it with one store, while      *)
(* requests (Handler.Handle, then the coordinator) load the published ring *)
(* anew for every question they ask of it, and clients follow redirects.   *)
(***************************************************************************)
EXTENDS Ring

CONSTANTS Layouts,      \* the placements of virtual nodes to consider
          Key,          \* positions of the keys asked for
          N,            \* replication factor
          Request,
          MaxChanges    \* bound on changes of the views

ASSUME RouterAssumption ==
  /\ Layouts \subseteq hashStr
  /\ Key \subseteq Position
  /\ N \in Nat \ {0}
  /\ MaxChanges \in Nat

VARIABLES
  layout,    \* hashStr of every virtual node
  alive,     \* alive[n]: the members n holds alive (Members.Alive)
  build,     \* build[n]: the members rebuild read, none outside rebuild
  ring,      \* ring[n]: the published ring
  request,   \* request[r]: where a client request stands
  changes

vars == <<layout, alive, build, ring, request, changes>>

Members(points) == {points[i].node : i \in DOMAIN points}

(* Not sent, found local or not, redirected, or coordinated. *)
RequestState ==
  [pc : {"idle"}]
  \cup [pc : {"local", "remote"}, node : Node, key : Key]
  \cup [pc : {"moved"}, key : Key, owner : Node]
  \cup [pc : {"coordinated"}, node : Node, key : Key, replicas : Seq(Node)]

TypeOK ==
  /\ layout \in Layouts
  /\ alive \in [Node -> SUBSET Node]
  /\ build \in [Node -> SUBSET Node]
  /\ ring \in [Node -> Seq(Point)]
  /\ request \in [Request -> RequestState]
  /\ changes \in 0 .. MaxChanges

(* NewRouter builds the first ring from the node itself. *)
Init ==
  /\ layout \in Layouts
  /\ alive = [n \in Node |-> {n}]
  /\ build = [n \in Node |-> {}]
  /\ ring = [n \in Node |-> RingSort(Add(layout, <<>>, n))]
  /\ request = [r \in Request |-> [pc |-> "idle"]]
  /\ changes = 0

(* Gossip changes the view of n; n itself stays in it. *)
viewChanges(n) ==
  /\ changes < MaxChanges
  /\ \E view \in SUBSET Node :
       /\ n \in view
       /\ view # alive[n]
       /\ alive' = [alive EXCEPT ![n] = view]
  /\ changes' = changes + 1
  /\ UNCHANGED <<layout, build, ring, request>>

-----------------------------------------------------------------------------
(* rebuild *)

(* A fresh ring with the members added in the random order of a map. *)
added(members) ==
  {Loop(LAMBDA points, m : Add(layout, points, m), <<>>, order) :
     order \in Bijection(1 .. Cardinality(members), members)}

(* Mutant: the published ring is emptied, to be filled again. *)
rebuildAliveInPlace(n) ==
  /\ build[n] = {}
  /\ build' = [build EXCEPT ![n] = alive[n]]
  /\ ring' = [ring EXCEPT ![n] = <<>>]
  /\ UNCHANGED <<layout, alive, request, changes>>

(* The snapshot of Members.Alive, which may be stale by the store. *)
rebuildAlive(n) ==
  /\ build[n] = {}
  /\ build' = [build EXCEPT ![n] = alive[n]]
  /\ UNCHANGED <<layout, alive, ring, request, changes>>

(* Mutant: the new ring is not sorted. *)
rebuildStoreUnsorted(n) ==
  /\ build[n] # {}
  /\ \E points \in added(build[n]) : ring' = [ring EXCEPT ![n] = points]
  /\ build' = [build EXCEPT ![n] = {}]
  /\ UNCHANGED <<layout, alive, request, changes>>

(* Mutant: a ring with as many points as the last one is not published. *)
rebuildStoreByCount(n) ==
  /\ build[n] # {}
  /\ \E points \in added(build[n]) :
       ring' = [ring EXCEPT ![n] = IF Len(points) = Len(@) THEN @
                                   ELSE RingSort(points)]
  /\ build' = [build EXCEPT ![n] = {}]
  /\ UNCHANGED <<layout, alive, request, changes>>

(* The Adds, on a ring no other goroutine sees, Sort, and the atomic store. *)
rebuildStore(n) ==
  /\ build[n] # {}
  /\ \E points \in added(build[n]) :
       ring' = [ring EXCEPT ![n] = RingSort(points)]
  /\ build' = [build EXCEPT ![n] = {}]
  /\ UNCHANGED <<layout, alive, request, changes>>

rebuild(n) == rebuildAlive(n) \/ rebuildStore(n)

-----------------------------------------------------------------------------
(* Handle *)

to(r, state) ==
  /\ request' = [request EXCEPT ![r] = state]
  /\ UNCHANGED <<layout, alive, build, ring, changes>>

IsLocal(r, n, key) ==
  to(r, [pc   |-> IF Get(ring[n], key) = n THEN "local" ELSE "remote",
         node |-> n, key |-> key])

(* A client sends a request to any node. *)
ask(r) ==
  /\ request[r].pc = "idle"
  /\ \E n \in Node, key \in Key : IsLocal(r, n, key)

(* Mutant: the client is sent back to where it came from. *)
OwnerSelf(r) ==
  /\ request[r].pc = "remote"
  /\ to(r, [pc |-> "moved", key |-> request[r].key, owner |-> request[r].node])

(* Mutant: the redirect to the node itself has no address. *)
OwnerBlank(r) ==
  /\ request[r].pc = "remote"
  /\ LET q == request[r]
         o == Get(ring[q.node], q.key)
     IN  to(r, [pc |-> "moved", key |-> q.key,
                owner |-> IF o = q.node THEN "" ELSE o])

(* The redirect looks the owner up again. *)
Owner(r) ==
  /\ request[r].pc = "remote"
  /\ LET q == request[r]
     IN  to(r, [pc |-> "moved", key |-> q.key, owner |-> Get(ring[q.node], q.key)])

(* The client reconnects to the owner it was told. *)
follow(r) ==
  /\ request[r].pc = "moved"
  /\ IsLocal(r, request[r].owner, request[r].key)

(* Coordinator.write, delete and read look the replica set up.             *)
Owners(r) ==
  /\ request[r].pc = "local"
  /\ LET q == request[r]
     IN  to(r, [pc |-> "coordinated", node |-> q.node, key |-> q.key,
                replicas |-> GetN(ring[q.node], q.key, N)])

serve(r) == Owner(r) \/ follow(r) \/ Owners(r)

Next ==
  \/ \E n \in Node : viewChanges(n) \/ rebuild(n)
  \/ \E r \in Request : ask(r) \/ serve(r)

(* The ticker keeps the rebuild loops going; a node answers its requests   *)
(* and a client follows its redirects.                                     *)
Spec ==
  /\ Init
  /\ [][Next]_vars
  /\ \A n \in Node : WF_vars(rebuild(n))
  /\ \A r \in Request : WF_vars(serve(r))

-----------------------------------------------------------------------------
(* Properties *)

(* No request ever sees a half-built ring: every published ring places the *)
(* node itself, and all the points of every node it places (rebuild).      *)
RingsAreWhole ==
  \A n \in Node :
    /\ n \in Members(ring[n])
    /\ \A m \in Members(ring[n]), i \in VirtualNode :
         [hash |-> layout[m][i], node |-> m] \in Range(ring[n])

(* Whatever order a router added its members in, the replica set of every  *)
(* key is the n nearest distinct nodes clockwise, all of them if there are *)
(* fewer, and Get's node is the first: routers with the same members agree *)
(* on every owner (rebuild, Sort, findIndex, Get, GetN).                   *)
OwnersAreNearest ==
  \A router \in Node, key \in Position, n \in {0, N, Cardinality(Node) + 1} :
    LET points == ring[router]
        nodes  == Members(points)
        size   == IF n < Cardinality(nodes) THEN n ELSE Cardinality(nodes)
    IN  /\ GetN(points, key, n) = Nearest(layout, nodes, key, size)
        /\ n > 0 => Head(GetN(points, key, n)) = Get(points, key)

(* m is in the sequence of nodes, and not after o, which is in it too. *)
Before(nodes, m, o) == \E i, j \in DOMAIN nodes : i <= j /\ nodes[i] = m /\ nodes[j] = o

(* A rebuild moves a key only to a node that joined or away from one that  *)
(* left, and keeps the order of the others among its replicas (Ring).      *)
RebuildMovesFewKeys ==
  [][\A n \in {m \in Node : ring[m] # ring'[m]}, key \in Position :
       \A m, o \in Members(ring[n]) \cap Members(ring'[n]) :
         Before(GetN(ring[n], key, Cardinality(Node)), m, o)
           <=> Before(GetN(ring'[n], key, Cardinality(Node)), m, o)]_vars

(* Once the views stop changing, every ring settles on its view (the       *)
(* rebuild loop).                                                          *)
RingsFollowViews == <>[](\A n \in Node : Members(ring[n]) = alive[n])

(* If every node comes to agree for good with the members it holds alive,  *)
(* every redirected client gets to a node that serves it, although IsLocal, *)
(* Owner and Owners each load the ring on their own (Handle).              *)
RedirectsEnd ==
  <>[](\A n \in Node : \A m \in alive[n] : alive[m] = alive[n]) =>
    \A r \in Request : request[r].pc = "moved" ~> request[r].pc = "coordinated"
=============================================================================
