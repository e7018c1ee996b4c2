------------------------------ MODULE PeerLink ------------------------------
(***************************************************************************)
(* A node's peer client composed with the server it calls.  The callers    *)
(* are the node's background loops and its own connection goroutines; main *)
(* shuts the node down in the order of cmd/kyria/main.go.  The server also *)
(* has clients from outside, and may shut down at any time itself.         *)
(***************************************************************************)
EXTENDS Server, Pool

CONSTANTS Loop,        \* the callers main stops: replayer, anti-entropy
          MaxOutside   \* bound on connections from outside

ASSUME PeerLinkAssumption ==
  /\ IsFiniteSet(Conn) /\ None \notin Conn
  /\ Loop \subseteq Caller
  /\ MaxCalls \in Nat /\ MaxOutside \in Nat

VARIABLES
  main,      \* the calling node's main
  outside,   \* connections of clients from outside
  visits     \* how many of these there have been

mainVars == <<main, outside, visits>>
vars == <<link, serverVars, poolVars, mainVars>>

TypeOK ==
  /\ ServerTypeOK
  /\ PoolTypeOK
  /\ main \in {"running", "stopping", "poolClosed", "exited"}
  /\ outside \subseteq Conn
  /\ visits \in 0 .. MaxOutside

Init ==
  /\ link = [c \in Conn |-> Free]
  /\ ServerInit
  /\ PoolInit
  /\ main = "running"
  /\ outside = {}
  /\ visits = 0

(* The connection the kernel opens next, while the server listens. *)
opens(c) ==
  /\ ~closed
  /\ link[c] = Free /\ handler[c] = "none"
  /\ \A d \in Conn : d < c => link[d] # Free \/ handler[d] # "none"

-----------------------------------------------------------------------------
(* The calling node's main *)

stop ==
  /\ main = "running"
  /\ main' = "stopping"
  /\ UNCHANGED <<link, serverVars, poolVars, outside, visits>>

(* A loop sees the stop channel between two rounds. *)
loopStops(k) ==
  /\ k \in Loop
  /\ main = "stopping"
  /\ call[k].at = "ready"
  /\ call' = [call EXCEPT ![k].at = "stopped"]
  /\ UNCHANGED <<link, serverVars, idle, calls, mainVars>>

(* Stop has waited for every loop; connection goroutines still run. *)
closePool ==
  /\ main = "stopping"
  /\ \A k \in Loop : call[k].at = "stopped"
  /\ closeIdle
  /\ main' = "poolClosed"
  /\ UNCHANGED <<serverVars, call, calls, outside, visits>>

(* The process ends, after Close of its own server or at any time by a     *)
(* failure: the kernel closes every connection of it.                      *)
exit ==
  /\ main # "exited"
  /\ main' = "exited"
  /\ link' = [c \in Conn |-> IF link[c].client = "open" /\ c \notin outside
                             THEN closeClient(link[c]) ELSE link[c]]
  /\ idle' = <<>>
  /\ call' = [k \in Caller |-> [ready EXCEPT !.at = "stopped"]]
  /\ UNCHANGED <<serverVars, calls, outside, visits>>

-----------------------------------------------------------------------------
(* Clients from outside *)

(* One connects and sends a value that is no command, or broken framing. *)
visit(c, kind) ==
  /\ visits < MaxOutside
  /\ opens(c)
  /\ link' = [link EXCEPT ![c] = [Dialed EXCEPT
       !.up = <<[kind |-> kind]>>]]
  /\ outside' = outside \cup {c}
  /\ visits' = visits + 1
  /\ UNCHANGED <<serverVars, poolVars, main>>

hangUp(c) ==
  /\ c \in outside
  /\ link' = [link EXCEPT ![c] = closeClient(@)]
  /\ outside' = outside \ {c}
  /\ UNCHANGED <<serverVars, poolVars, main, visits>>

-----------------------------------------------------------------------------
Rest == UNCHANGED <<poolVars, mainVars>>

ServerNext ==
  \/ acquire /\ Rest
  \/ acceptFails /\ Rest
  \/ isClosing /\ Rest
  \/ \E p \in Closer : (Close(p) /\ Rest) \/ (wgWait(p) /\ Rest)
  \/ \E c \in Conn :
       \/ Accept(c) /\ Rest
       \/ wgAdd(c) /\ Rest
       \/ trackConn(c) /\ Rest
       \/ Decode(c) /\ Rest
       \/ decodeFails(c) /\ Rest
       \/ readDeadline(c) /\ Rest
       \/ Handle(c) /\ Rest
       \/ writeReply(c) /\ Rest
       \/ writeFails(c) /\ Rest
       \/ untrackConn(c) /\ Rest
       \/ connClose(c) /\ Rest
       \/ release(c) /\ Rest
       \/ wgDone(c) /\ Rest

PoolNext ==
  \E k \in Caller :
    \/ getIdle(k) /\ UNCHANGED <<serverVars, mainVars>>
    \/ \E c \in Conn :
         opens(c) /\ dial(k, c) /\ UNCHANGED <<serverVars, mainVars>>
    \/ dialFails(k) /\ UNCHANGED <<serverVars, mainVars>>
    \/ roundtrip(k) /\ UNCHANGED <<serverVars, mainVars>>
    \/ replied(k) /\ UNCHANGED <<serverVars, mainVars>>
    \/ roundtripFails(k) /\ UNCHANGED <<serverVars, mainVars>>
    \/ put(k) /\ UNCHANGED <<serverVars, mainVars>>
    \/ loopStops(k)

Next ==
  \/ ServerNext
  \/ PoolNext
  \/ stop \/ closePool \/ exit
  \/ \E c \in Conn :
       hangUp(c) \/ \E kind \in {"notCommand", "broken"} : visit(c, kind)

(* Goroutines run; Handle returns, for its calls have deadlines. *)
Fairness ==
  /\ WF_vars(ServeStep /\ Rest)
  /\ \A c \in Conn : WF_vars(HandlerStep(c) /\ Rest)
  /\ \A p \in Closer : WF_vars(wgWait(p) /\ Rest)

Spec == Init /\ [][Next]_vars /\ Fairness

-----------------------------------------------------------------------------
(* Properties *)

(* A warm connection is held by no caller, and nothing is under way on it: *)
(* no command waits or is being handled, no reply is left unread, so the   *)
(* next call on it cannot be answered by an earlier one (getIdle, do, put  *)
(* against handleConn).                                                    *)
IdleIsQuiescent ==
  /\ \A c \in Range(idle) :
       /\ link[c].client = "open"
       /\ link[c].up = <<>> /\ link[c].down = <<>>
       /\ handler[c] \notin {"handling", "replying"}
       /\ \A k \in Caller : call[k].conn # c
  /\ IsInjective(idle)

(* A server that begins to close comes to rest whatever its clients do:    *)
(* every Close returns, the accept loop ends even if it was waiting for a  *)
(* slot, and no connection stays open (Close, trackConn, acquire).         *)
ShutdownCompletes ==
  closed ~> /\ serve = "returned"
            /\ \A p \in Closer : closer[p] # "waiting"
            /\ \A c \in Conn : link[c].server \notin {"open", "queued"}
=============================================================================
