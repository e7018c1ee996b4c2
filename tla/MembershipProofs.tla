-------------------------- MODULE MembershipProofs --------------------------
(***************************************************************************)
(* Proofs about Membership, for every set of nodes, seeds and fan-out and  *)
(* every number of crashes, losses and repetitions.                        *)
(***************************************************************************)
EXTENDS Membership, TLAPS

LEMMA MergeMemberType ==
  ASSUME NEW l \in Member, NEW r \in Member
  PROVE  /\ mergeMember(l, r) \in Member
         /\ refute(l, r) \in Member
BY DEF Member, mergeMember, refute, Alive, Suspect, Dead

LEMMA MergeType ==
  ASSUME NEW n \in Node, NEW v \in Roster, NEW w \in Roster
  PROVE  Merge(n, v, w) \in Roster
BY MergeMemberType DEF Merge, Roster

(* One record: the order and the number of the claims do not matter. *)
LEMMA MergeMemberAlgebra ==
  ASSUME NEW l \in Member, NEW r \in Member, NEW q \in Member
  PROVE  /\ mergeMember(mergeMember(l, r), q) = mergeMember(mergeMember(l, q), r)
         /\ mergeMember(mergeMember(l, r), r) = mergeMember(l, r)
         /\ mergeMember(r, q) = mergeMember(q, r)
         /\ mergeMember(r, r) = r
BY DEF Member, mergeMember, Alive, Suspect, Dead

LEMMA RefuteAlgebra ==
  ASSUME NEW l \in Member, NEW r \in Member, NEW q \in Member, l.state = Alive
  PROVE  /\ refute(refute(l, r), q) = refute(refute(l, q), r)
         /\ refute(refute(l, r), r) = refute(l, r)
BY DEF Member, refute, Alive, Suspect, Dead

(* Merge is commutative and idempotent at every node that knows itself to  *)
(* be alive, over all views and not only those that occur (Members.Merge). *)
THEOREM MergeAlgebra ==
  ASSUME NEW n \in Node, NEW l \in Roster, NEW v \in Roster, NEW w \in Roster,
         n \in AliveIn(l)
  PROVE  /\ Merge(n, Merge(n, l, v), w) = Merge(n, Merge(n, l, w), v)
         /\ Merge(n, Merge(n, l, v), v) = Merge(n, l, v)
<1>1. /\ Merge(n, l, v) \in Roster /\ Merge(n, l, w) \in Roster
  BY MergeType
<1>2. ASSUME NEW p \in Node
      PROVE  /\ Merge(n, Merge(n, l, v), w)[p] = Merge(n, Merge(n, l, w), v)[p]
             /\ Merge(n, Merge(n, l, v), v)[p] = Merge(n, l, v)[p]
  <2>1. /\ l[p] \in Member \cup {None}
        /\ v[p] \in Member \cup {None}
        /\ w[p] \in Member \cup {None}
    BY DEF Roster
  <2>2. CASE p = n
    <3>1. l[p] \in Member /\ l[p].state = Alive
      BY <2>1, <2>2 DEF AliveIn
    <3>2. CASE v[p] = None \/ w[p] = None
      <4>1. l[p] # None
        BY <3>1, NoneAssumption
      <4>2. CASE v[p] = None
        BY <2>2, <4>1, <4>2 DEF Merge
      <4>3. CASE v[p] # None /\ w[p] = None
        <5>1. v[p] \in Member
          BY <2>1, <4>3
        <5>2. refute(l[p], v[p]) # None
          BY <3>1, <5>1, MergeMemberType, NoneAssumption
        <5>3. refute(refute(l[p], v[p]), v[p]) = refute(l[p], v[p])
          BY <3>1, <5>1, RefuteAlgebra
        <5>4. QED
          BY <2>2, <4>1, <4>3, <5>2, <5>3 DEF Merge
      <4>4. QED
        BY <3>2, <4>2, <4>3
    <3>3. CASE v[p] # None /\ w[p] # None
      <4>1. v[p] \in Member /\ w[p] \in Member
        BY <2>1, <3>3
      <4>2. /\ refute(l[p], v[p]) # None
            /\ refute(l[p], w[p]) # None
        BY <3>1, <4>1, MergeMemberType, NoneAssumption
      <4>3. /\ refute(refute(l[p], v[p]), w[p]) = refute(refute(l[p], w[p]), v[p])
            /\ refute(refute(l[p], v[p]), v[p]) = refute(l[p], v[p])
        BY <3>1, <4>1, RefuteAlgebra
      <4>4. QED
        BY <2>2, <3>1, <3>3, <4>2, <4>3, NoneAssumption DEF Merge
    <3>4. QED
      BY <3>2, <3>3
  <2>3. CASE p # n
    <3>1. CASE l[p] = None \/ v[p] = None \/ w[p] = None
      <4>1. CASE w[p] = None
        <5>1. CASE v[p] = None
          BY <2>3, <4>1, <5>1 DEF Merge
        <5>2. CASE v[p] # None /\ l[p] = None
          BY <2>1, <2>3, <4>1, <5>2, MergeMemberAlgebra DEF Merge
        <5>3. CASE v[p] # None /\ l[p] # None
          <6>1. l[p] \in Member /\ v[p] \in Member
            BY <2>1, <5>3
          <6>2. mergeMember(l[p], v[p]) # None
            BY <6>1, MergeMemberType, NoneAssumption
          <6>3. mergeMember(mergeMember(l[p], v[p]), v[p]) = mergeMember(l[p], v[p])
            BY <6>1, MergeMemberAlgebra
          <6>4. QED
            BY <2>3, <4>1, <5>3, <6>2, <6>3 DEF Merge
        <5>4. QED
          BY <5>1, <5>2, <5>3
      <4>2. CASE w[p] # None /\ v[p] = None
        BY <2>3, <4>2 DEF Merge
      <4>3. CASE w[p] # None /\ v[p] # None
        <5>1. /\ l[p] = None /\ v[p] \in Member /\ w[p] \in Member
          BY <2>1, <3>1, <4>3
        <5>2. /\ mergeMember(v[p], w[p]) = mergeMember(w[p], v[p])
              /\ mergeMember(v[p], v[p]) = v[p]
          BY <5>1, MergeMemberAlgebra
        <5>3. QED
          BY <2>3, <4>3, <5>1, <5>2 DEF Merge
      <4>4. QED
        BY <4>1, <4>2, <4>3
    <3>2. CASE l[p] # None /\ v[p] # None /\ w[p] # None
      <4>1. l[p] \in Member /\ v[p] \in Member /\ w[p] \in Member
        BY <2>1, <3>2
      <4>2. /\ mergeMember(l[p], v[p]) # None
            /\ mergeMember(l[p], w[p]) # None
        BY <4>1, MergeMemberType, NoneAssumption
      <4>3. /\ mergeMember(mergeMember(l[p], v[p]), w[p])
                 = mergeMember(mergeMember(l[p], w[p]), v[p])
            /\ mergeMember(mergeMember(l[p], v[p]), v[p]) = mergeMember(l[p], v[p])
        BY <4>1, MergeMemberAlgebra
      <4>4. QED
        BY <2>3, <3>2, <4>2, <4>3 DEF Merge
    <3>3. QED
      BY <3>1, <3>2
  <2>4. QED
    BY <2>2, <2>3
<1>3. QED
  BY <1>1, <1>2 DEF Merge

-----------------------------------------------------------------------------
(* The inductive invariant: the types, what the properties say, and that a *)
(* stopped node knows nobody while every node has been at incarnation 1.   *)

Booted ==
  /\ \A p \in Node : highest[p] >= 1
  /\ \A n \in Node \ up, p \in Node : roster[n][p] = None

MembershipInv == TypeOK /\ SelfIsAlive /\ Booted /\ OnlyOwnerRaises

LEMMA MembershipInit == Init => MembershipInv
<1> SUFFICES ASSUME Init PROVE MembershipInv
  OBVIOUS
<1>1. TypeOK
  BY MembershipAssumption DEF Init, TypeOK, NewMembers, Roster, Member, Alive
<1>2. SelfIsAlive
  BY NoneAssumption DEF Init, SelfIsAlive, AliveIn, NewMembers, Member, Alive
<1>3. Booted
  BY DEF Init, Booted
<1>4. OnlyOwnerRaises
  BY DEF Init, OnlyOwnerRaises, NewMembers
<1>5. QED
  BY <1>1, <1>2, <1>3, <1>4 DEF MembershipInv

(* What a step does to the roster of one node. *)
LEMMA DetectType ==
  ASSUME NEW v \in Roster, NEW S, S \subseteq AliveIn(v)
  PROVE  [p \in Node |-> IF p \in S THEN [v[p] EXCEPT !.state = Dead] ELSE v[p]]
           \in Roster
BY DEF Roster, Member, AliveIn, Dead

LEMMA TypeStep == TypeOK /\ SelfIsAlive /\ [Next]_vars => TypeOK'
<1> SUFFICES ASSUME TypeOK, SelfIsAlive, [Next]_vars PROVE TypeOK'
  OBVIOUS
<1> USE DEF TypeOK
<1>1. ASSUME NEW n \in Node, Bump(n) PROVE TypeOK'
  <2>1. roster[n] \in Roster /\ roster[n][n] \in Member
    BY <1>1 DEF Bump, SelfIsAlive, AliveIn, Roster
  <2>2. [roster[n] EXCEPT ![n].inc = @ + 1] \in Roster
    BY <2>1 DEF Roster, Member
  <2>3. roster' = [roster EXCEPT ![n] = [roster[n] EXCEPT ![n].inc = @ + 1]]
    BY <1>1 DEF Bump
  <2>4. highest' \in [Node -> Nat]
    BY <1>1, <2>1 DEF Bump, Member
  <2>5. QED
    BY <1>1, <2>2, <2>3, <2>4 DEF Bump
<1>2. ASSUME NEW n \in Node, DetectFailures(n) PROVE TypeOK'
  <2>1. PICK S \in SUBSET (AliveIn(roster[n]) \ {n}) :
          roster' = [roster EXCEPT ![n] =
                       [p \in Node |-> IF p \in S
                                       THEN [roster[n][p] EXCEPT !.state = Dead]
                                       ELSE roster[n][p]]]
    BY <1>2 DEF DetectFailures
  <2>2. [p \in Node |-> IF p \in S THEN [roster[n][p] EXCEPT !.state = Dead]
                                  ELSE roster[n][p]] \in Roster
    BY <2>1, DetectType
  <2>3. roster' \in [Node -> Roster]
    BY <2>1, <2>2
  <2>4. QED
    BY <1>2, <2>3 DEF DetectFailures
<1>3. ASSUME NEW n \in Node, pickCandidates(n) PROVE TypeOK'
  BY <1>3, MembershipAssumption DEF pickCandidates, candidates, AliveIn
<1>4. ASSUME NEW n \in Node, send(n) PROVE TypeOK'
  BY <1>4 DEF send, Packet
<1>5. ASSUME NEW n \in Node, crash(n) PROVE TypeOK'
  BY <1>5 DEF crash, Roster
<1>6. ASSUME NEW n \in Node, start(n) PROVE TypeOK'
  <2>1. NewMembers(n) \in Roster
    BY DEF NewMembers, Roster, Member, Alive
  <2>2. QED
    BY <1>6, <2>1 DEF start
<1>7. ASSUME NEW pk \in net, receive(pk) PROVE TypeOK'
  <2>1. pk.to \in Node /\ pk.view \in Roster /\ roster[pk.to] \in Roster
    BY DEF Packet
  <2>2. PICK new \in Roster : new = Merge(pk.to, roster[pk.to], pk.view)
    BY <2>1, MergeType
  <2>3. roster[pk.to][pk.to] \in Member
    BY <1>7, <2>1 DEF receive, SelfIsAlive, AliveIn, Roster
  <2>4. new[pk.to] \in Member
    BY <2>1, <2>2, <2>3, MergeMemberType, NoneAssumption DEF Merge, Roster
  <2>5. QED
    BY <1>7, <2>1, <2>2, <2>4 DEF receive, Member
<1>8. ASSUME NEW pk \in net, lose(pk) PROVE TypeOK'
  BY <1>8 DEF lose
<1>9. CASE UNCHANGED vars
  BY <1>9 DEF vars
<1>10. QED
  BY <1>1, <1>2, <1>3, <1>4, <1>5, <1>6, <1>7, <1>8, <1>9 DEF Next

(* The record a node holds of a member, after a step: the same one, or one *)
(* the node made itself, or one of a packet (receive), and never older.    *)
Kept(n, p) == roster'[n][p] = roster[n][p]

Raised(n, p) ==
  /\ p = n
  /\ roster'[n][n] \in Member
  /\ roster'[n][n].state = Alive
  /\ roster'[n][n].inc > roster[n][n].inc
  /\ roster'[n][n].inc <= highest'[n]

Marked(n, p) ==
  /\ p # n
  /\ roster[n][p] \in Member
  /\ roster[n][p].state = Alive
  /\ roster'[n][p] = [state |-> Dead, inc |-> roster[n][p].inc]

Learned(n, p) ==
  /\ p # n
  /\ \E pk \in net : /\ pk.view[p] \in Member
                     /\ roster'[n][p] \in Member
                     /\ roster'[n][p].inc = pk.view[p].inc
  /\ roster[n][p] # None => Newer(roster'[n][p], roster[n][p])

RosterStep ==
  /\ up' = up
  /\ \A n \in Node, p \in Node :
       Kept(n, p) \/ (n \in up /\ (Raised(n, p) \/ Marked(n, p) \/ Learned(n, p)))

LifeStep(n) ==
  /\ \A q \in Node \ {n} : roster'[q] = roster[q] /\ (q \in up' <=> q \in up)
  /\ \/ n \notin up' /\ n \in up /\ \A p \in Node : roster'[n][p] = None
     \/ n \in up' /\ n \notin up /\ roster'[n] = NewMembers(n)

HistoryStep ==
  /\ \A p \in Node : highest'[p] >= highest[p]
  /\ \A pk \in net' : pk \in net \/ \E n \in Node : pk.view = roster[n]

LEMMA MergeStep ==
  ASSUME NEW n \in Node, NEW v \in Roster, NEW w \in Roster, NEW p \in Node,
         n \in AliveIn(v)
  PROVE  LET new == Merge(n, v, w)
         IN  \/ new[p] = v[p]
             \/ /\ p = n
                /\ new[n] \in Member
                /\ new[n].state = Alive
                /\ new[n].inc > v[n].inc
             \/ /\ p # n
                /\ w[p] \in Member
                /\ new[p] \in Member
                /\ new[p].inc = w[p].inc
                /\ v[p] # None => Newer(new[p], v[p])
<1>1. /\ v[p] \in Member \cup {None}
      /\ w[p] \in Member \cup {None}
      /\ Merge(n, v, w)[p] = IF w[p] = None THEN v[p]
                            ELSE IF v[p] = None THEN w[p]
                            ELSE IF p = n THEN refute(v[p], w[p])
                            ELSE mergeMember(v[p], w[p])
  BY DEF Roster, Merge
<1>2. CASE w[p] = None
  BY <1>1, <1>2
<1>3. CASE w[p] # None /\ v[p] = None
  BY <1>1, <1>3 DEF AliveIn
<1>4. CASE w[p] # None /\ v[p] # None /\ p = n
  BY <1>1, <1>4 DEF refute, Member, Alive, Suspect, Dead
<1>5. CASE w[p] # None /\ v[p] # None /\ p # n
  BY <1>1, <1>5 DEF mergeMember, Newer, Member, Alive, Suspect, Dead
<1>6. QED
  BY <1>2, <1>3, <1>4, <1>5

LEMMA StepShape ==
  ASSUME TypeOK, SelfIsAlive, [Next]_vars
  PROVE  /\ HistoryStep
         /\ RosterStep \/ \E n \in Node : LifeStep(n)
<1>0. /\ \A n \in Node : roster[n] \in Roster /\ highest[n] \in Nat
      /\ \A n \in up : roster[n][n] \in Member /\ roster[n][n].state = Alive
  BY DEF TypeOK, SelfIsAlive, AliveIn, Roster
<1>1. ASSUME NEW n \in Node, Bump(n) PROVE HistoryStep /\ RosterStep
  <2>1. /\ n \in up
        /\ highest'[n] >= highest[n]
        /\ highest'[n] >= roster[n][n].inc + 1
        /\ \A p \in Node \ {n} : highest'[p] = highest[p]
    BY <1>0, <1>1 DEF Bump, TypeOK, Member
  <2>2. /\ roster'[n][n] = [roster[n][n] EXCEPT !.inc = @ + 1]
        /\ \A p \in Node \ {n} : roster'[n][p] = roster[n][p]
        /\ \A m \in Node \ {n} : roster'[m] = roster[m]
    BY <1>0, <1>1 DEF Bump, TypeOK, Roster
  <2>3. Raised(n, n)
    BY <1>0, <2>1, <2>2 DEF Raised, Member
  <2>4. RosterStep
    BY <1>1, <2>1, <2>2, <2>3 DEF RosterStep, Kept, Bump
  <2>5. HistoryStep
    BY <1>0, <1>1, <2>1 DEF HistoryStep, Bump
  <2>6. QED
    BY <2>4, <2>5
<1>2. ASSUME NEW n \in Node, DetectFailures(n) PROVE HistoryStep /\ RosterStep
  <2>1. PICK S \in SUBSET (AliveIn(roster[n]) \ {n}) :
          roster' = [roster EXCEPT ![n] =
                       [p \in Node |-> IF p \in S
                                       THEN [roster[n][p] EXCEPT !.state = Dead]
                                       ELSE roster[n][p]]]
    BY <1>2 DEF DetectFailures
  <2>2. /\ \A m \in Node \ {n} : roster'[m] = roster[m]
        /\ \A p \in Node : roster'[n][p] = IF p \in S
                                           THEN [roster[n][p] EXCEPT !.state = Dead]
                                           ELSE roster[n][p]
    BY <2>1 DEF TypeOK
  <2>3. ASSUME NEW p \in S PROVE Marked(n, p)
    BY <1>0, <2>2 DEF Marked, AliveIn, Roster, Member
  <2>4. RosterStep
    BY <1>2, <2>2, <2>3 DEF RosterStep, Kept, DetectFailures
  <2>5. HistoryStep
    BY <1>0, <1>2 DEF HistoryStep, DetectFailures
  <2>6. QED
    BY <2>4, <2>5
<1>3. ASSUME NEW n \in Node, pickCandidates(n) PROVE HistoryStep /\ RosterStep
  BY <1>0, <1>3 DEF pickCandidates, HistoryStep, RosterStep, Kept
<1>4. ASSUME NEW n \in Node, send(n) PROVE HistoryStep /\ RosterStep
  BY <1>0, <1>4 DEF send, HistoryStep, RosterStep, Kept
<1>5. ASSUME NEW n \in Node, crash(n) PROVE HistoryStep /\ LifeStep(n)
  BY <1>0, <1>5 DEF crash, HistoryStep, LifeStep, TypeOK
<1>6. ASSUME NEW n \in Node, start(n) PROVE HistoryStep /\ LifeStep(n)
  BY <1>0, <1>6 DEF start, HistoryStep, LifeStep, TypeOK
<1>7. ASSUME NEW pk \in net, receive(pk) PROVE HistoryStep /\ RosterStep
  <2>1. PICK n \in Node : n = pk.to
    BY DEF TypeOK, Packet
  <2>2. pk.view \in Roster /\ n \in up /\ n \in AliveIn(roster[n])
    BY <1>7, <2>1 DEF receive, TypeOK, Packet, SelfIsAlive
  <2>3. PICK new \in Roster : new = Merge(n, roster[n], pk.view)
    BY <1>0, <2>2, MergeType
  <2>4. /\ roster'[n] = new
        /\ \A m \in Node \ {n} : roster'[m] = roster[m]
        /\ highest' = [highest EXCEPT ![n] = IF @ < new[n].inc THEN new[n].inc ELSE @]
        /\ up' = up
        /\ net' \subseteq net
    BY <1>7, <2>1, <2>3 DEF receive, TypeOK
  <2>5. new[n] \in Member
    BY <1>0, <2>2, <2>3, MergeStep
  <2>6. /\ highest'[n] >= highest[n]
        /\ highest'[n] >= new[n].inc
        /\ \A p \in Node \ {n} : highest'[p] = highest[p]
    BY <1>0, <2>4, <2>5 DEF TypeOK, Member
  <2>7. ASSUME NEW p \in Node PROVE Kept(n, p) \/ Raised(n, p) \/ Learned(n, p)
    BY <1>0, <2>2, <2>3, <2>4, <2>6, MergeStep DEF Kept, Raised, Learned
  <2>8. RosterStep
    BY <2>2, <2>4, <2>7 DEF RosterStep, Kept
  <2>9. HistoryStep
    BY <1>0, <2>4, <2>6 DEF HistoryStep
  <2>10. QED
    BY <2>8, <2>9
<1>8. ASSUME NEW pk \in net, lose(pk) PROVE HistoryStep /\ RosterStep
  BY <1>0, <1>8 DEF lose, HistoryStep, RosterStep, Kept
<1>9. CASE UNCHANGED vars
  BY <1>0, <1>9 DEF vars, HistoryStep, RosterStep, Kept
<1>10. QED
  BY <1>1, <1>2, <1>3, <1>4, <1>5, <1>6, <1>7, <1>8, <1>9 DEF Next

LEMMA MembershipStep == MembershipInv /\ [Next]_vars => MembershipInv'
<1> SUFFICES ASSUME MembershipInv, [Next]_vars PROVE MembershipInv'
  OBVIOUS
<1>1. TypeOK /\ SelfIsAlive /\ Booted /\ OnlyOwnerRaises
  BY DEF MembershipInv
<1>2. TypeOK'
  BY <1>1, TypeStep
<1>3. HistoryStep /\ (RosterStep \/ \E n \in Node : LifeStep(n))
  BY <1>1, StepShape
<1>4. /\ up \subseteq Node /\ up' \subseteq Node
      /\ \A n, p \in Node : roster[n][p] \in Member \cup {None}
      /\ \A pk \in net, p \in Node : pk.view[p] \in Member \cup {None}
      /\ \A p \in Node : highest[p] \in Nat /\ highest'[p] \in Nat
  BY <1>1, <1>2 DEF TypeOK, Packet, Roster
<1>5. ASSUME NEW n \in Node, LifeStep(n), n \in up'
      PROVE  /\ roster'[n][n] = [state |-> Alive, inc |-> 1]
             /\ \A p \in Node \ {n} : roster'[n][p] = None
  BY <1>5 DEF LifeStep, NewMembers
<1>6. SelfIsAlive'
  <2>1. SUFFICES ASSUME NEW n \in up'
                 PROVE  roster'[n][n] # None /\ roster'[n][n].state = Alive
    BY <1>4 DEF SelfIsAlive, AliveIn
  <2>2. n \in up => roster[n][n] # None /\ roster[n][n].state = Alive
    BY <1>1 DEF SelfIsAlive, AliveIn
  <2>3. CASE RosterStep
    BY <1>4, <2>2, <2>3, NoneAssumption
       DEF RosterStep, Kept, Raised, Marked, Learned
  <2>4. CASE \E m \in Node : LifeStep(m)
    <3>1. PICK m \in Node : LifeStep(m)
      BY <2>4
    <3>2. CASE m = n
      BY <1>5, <3>1, <3>2, NoneAssumption DEF Member, Alive
    <3>3. CASE m # n
      BY <1>4, <2>2, <3>1, <3>3 DEF LifeStep
    <3>4. QED
      BY <3>2, <3>3
  <2>5. QED
    BY <1>3, <2>3, <2>4
<1>7. Booted'
  <2>1. \A p \in Node : highest'[p] >= 1
    BY <1>1, <1>3, <1>4 DEF Booted, HistoryStep
  <2>2. ASSUME NEW n \in Node \ up', NEW p \in Node PROVE roster'[n][p] = None
    BY <1>1, <1>3, <1>4 DEF Booted, RosterStep, Kept, LifeStep
  <2>3. QED
    BY <2>1, <2>2 DEF Booted
<1>8. OnlyOwnerRaises'
  <2>1. ASSUME NEW n \in Node, NEW p \in Node, roster'[n][p] # None
        PROVE  roster'[n][p].inc <= highest'[p]
    <3>1. /\ roster[n][p] # None => roster[n][p].inc <= highest[p]
          /\ \A pk \in net : pk.view[p] # None => pk.view[p].inc <= highest[p]
          /\ highest[p] <= highest'[p]
          /\ highest[p] >= 1
      BY <1>1, <1>3 DEF OnlyOwnerRaises, HistoryStep, Booted
    <3>2. roster[n][p] # None => roster[n][p].inc \in Nat
      BY <1>4 DEF Member
    <3>3. \A pk \in net : pk.view[p] \in Member => pk.view[p].inc \in Nat
      BY DEF Member
    <3>4. CASE RosterStep
      <4>1. CASE Kept(n, p)
        BY <1>4, <2>1, <3>1, <3>2, <4>1 DEF Kept
      <4>2. CASE Raised(n, p)
        BY <4>2 DEF Raised
      <4>3. CASE Marked(n, p)
        BY <1>4, <3>1, <3>2, <4>3, NoneAssumption DEF Marked
      <4>4. CASE Learned(n, p)
        BY <1>4, <3>1, <3>3, <4>4, NoneAssumption DEF Learned
      <4>5. QED
        BY <3>4, <4>1, <4>2, <4>3, <4>4 DEF RosterStep
    <3>5. CASE \E m \in Node : LifeStep(m)
      <4>1. PICK m \in Node : LifeStep(m)
        BY <3>5
      <4>2. CASE m = n
        BY <1>4, <1>5, <2>1, <3>1, <4>1, <4>2 DEF LifeStep
      <4>3. CASE m # n
        BY <1>4, <2>1, <3>1, <3>2, <4>1, <4>3 DEF LifeStep
      <4>4. QED
        BY <4>2, <4>3
    <3>6. QED
      BY <1>3, <3>4, <3>5
  <2>2. ASSUME NEW pk \in net', NEW p \in Node, pk.view[p] # None
        PROVE  pk.view[p].inc <= highest'[p]
    <3>1. pk.view[p] \in Member /\ pk.view[p].inc <= highest[p]
      BY <1>1, <1>3, <1>4, <2>2 DEF HistoryStep, OnlyOwnerRaises
    <3>2. QED
      BY <1>3, <1>4, <3>1 DEF HistoryStep, Member
  <2>3. QED
    BY <2>1, <2>2 DEF OnlyOwnerRaises
<1>9. QED
  BY <1>2, <1>6, <1>7, <1>8 DEF MembershipInv

LEMMA MembershipInvariant == Spec => []MembershipInv
<1>1. Init => MembershipInv
  BY MembershipInit
<1>2. MembershipInv /\ [Next]_vars => MembershipInv'
  BY MembershipStep
<1>3. QED
  BY <1>1, <1>2, PTL DEF Spec

-----------------------------------------------------------------------------

(* Type correctness of rosters, gossip rounds and packets. *)
THEOREM MembershipTypes == Spec => []TypeOK
<1>1. MembershipInv => TypeOK
  BY DEF MembershipInv
<1>2. QED
  BY <1>1, MembershipInvariant, PTL

(* No node ever believes itself dead, whatever it is told (Merge's self    *)
(* rule), however many nodes, crashes and lost or repeated packets.        *)
THEOREM SelfStaysAlive == Spec => []SelfIsAlive
<1>1. MembershipInv => SelfIsAlive
  BY DEF MembershipInv
<1>2. QED
  BY <1>1, MembershipInvariant, PTL

(* No roster and no packet is ahead of the incarnations a node itself had  *)
(* (Bump and Merge's self rule are the only places that raise one).        *)
THEOREM OnlyOwnersRaise == Spec => []OnlyOwnerRaises
<1>1. MembershipInv => OnlyOwnerRaises
  BY DEF MembershipInv
<1>2. QED
  BY <1>1, MembershipInvariant, PTL

(* The view a running node has of a member only advances in the order of   *)
(* incarnation, then deadness (Merge, DetectFailures).                     *)
THEOREM ViewsOnlyAdvance == Spec => ViewsNeverRegress
<1> DEFINE Advance == \A n \in up \cap up', p \in Node :
       roster[n][p] # None => /\ roster'[n][p] # None
                              /\ Newer(roster'[n][p], roster[n][p])
<1>1. MembershipInv /\ MembershipInv' /\ [Next]_vars => [Advance]_vars
  <2>1. SUFFICES ASSUME MembershipInv, [Next]_vars,
                        NEW n \in up \cap up', NEW p \in Node, roster[n][p] # None
                 PROVE  roster'[n][p] # None /\ Newer(roster'[n][p], roster[n][p])
    OBVIOUS
  <2>2. TypeOK /\ SelfIsAlive
    BY <2>1 DEF MembershipInv
  <2>3. RosterStep \/ \E m \in Node : LifeStep(m)
    BY <2>1, <2>2, StepShape
  <2>4. n \in Node /\ roster[n][p] \in Member
    BY <2>1, <2>2 DEF TypeOK, Roster
  <2>5. Newer(roster[n][p], roster[n][p])
    BY <2>4 DEF Newer, Member, Alive, Suspect, Dead
  <2>6. CASE \E m \in Node : LifeStep(m)
    BY <2>1, <2>4, <2>5, <2>6 DEF LifeStep
  <2>7. CASE RosterStep
    <3>1. CASE Kept(n, p)
      BY <2>1, <2>5, <3>1 DEF Kept
    <3>2. CASE Raised(n, p)
      BY <2>4, <3>2, NoneAssumption DEF Raised, Newer
    <3>3. CASE Marked(n, p)
      <4>1. roster'[n][p] \in Member
        BY <2>4, <3>3 DEF Marked, Member
      <4>2. QED
        BY <2>4, <3>3, <4>1, NoneAssumption
           DEF Marked, Newer, Member, Alive, Suspect, Dead
    <3>4. CASE Learned(n, p)
      BY <2>1, <3>4, NoneAssumption DEF Learned
    <3>5. QED
      BY <2>4, <2>7, <3>1, <3>2, <3>3, <3>4 DEF RosterStep
  <2>8. QED
    BY <2>3, <2>6, <2>7
<1>2. QED
  BY <1>1, MembershipInvariant, PTL DEF Spec, ViewsNeverRegress

(* In every reachable state, a packet may be merged before or after what   *)
(* any other node would send, and more than once (Merge's comment).        *)
THEOREM MergesCommute == Spec => []MergeOrderIrrelevant
<1>1. MembershipInv => MergeOrderIrrelevant
  <2>1. SUFFICES ASSUME MembershipInv, NEW pk \in net, pk.to \in up, NEW q \in up
                 PROVE  LET n    == pk.to
                            once == Merge(n, roster[n], pk.view)
                        IN  /\ Merge(n, once, pk.view) = once
                            /\ Merge(n, once, roster[q])
                                 = Merge(n, Merge(n, roster[n], roster[q]), pk.view)
    BY DEF MergeOrderIrrelevant
  <2>2. /\ pk.to \in Node /\ pk.view \in Roster
        /\ roster[pk.to] \in Roster /\ roster[q] \in Roster
        /\ pk.to \in AliveIn(roster[pk.to])
    BY <2>1 DEF MembershipInv, TypeOK, SelfIsAlive, Packet
  <2>3. QED
    BY <2>2, MergeAlgebra
<1>2. QED
  BY <1>1, MembershipInvariant, PTL
=============================================================================
