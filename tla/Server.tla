------------------------------- MODULE Server -------------------------------
(***************************************************************************)
(* The connection server (internal/server/server.go): the accept loop, one *)
(* goroutine per connection, the limit on connections, and Close.          *)
(***************************************************************************)
EXTENDS Link, FiniteSets

CONSTANT MaxConns   \* 0: unlimited

ASSUME ServerAssumption == MaxConns \in Nat

VARIABLES
  serve,    \* where the accept loop stands
  sem,      \* connection slots taken
  wg,       \* the wait group's counter
  closed,   \* Close has begun; it also closes the listener
  conns,    \* the tracked connections
  handler,  \* handler[c]: where the goroutine of c stands
  current,  \* current[c]: the value it decoded
  closer    \* closer[p]: where a call of Close stands

serverVars == <<serve, sem, wg, closed, conns, handler, current, closer>>

(* main and the accept loop itself may call Close. *)
Closer == {"main", "serve"}

Serving == {"reading", "handling", "replying"}

ServerTypeOK ==
  /\ serve \in {"acquire", "accept", "add", "failed", "closing", "returned"}
  /\ sem \in 0 .. MaxConns
  /\ wg \in 0 .. Cardinality(Conn)
  /\ closed \in BOOLEAN
  /\ conns \subseteq Conn
  /\ \A c \in Conn :
       handler[c] \in Serving \cup {"none", "accepted", "started", "leaving",
                                    "untracked", "closing", "released"}
  /\ closer \in [Closer -> {"idle", "waiting", "returned"}]

ServerInit ==
  /\ serve = "acquire"
  /\ sem = 0
  /\ wg = 0
  /\ closed = FALSE
  /\ conns = {}
  /\ handler = [c \in Conn |-> "none"]
  /\ current = [c \in Conn |-> None]
  /\ closer = [p \in Closer |-> "idle"]

goto(c, state) == handler' = [handler EXCEPT ![c] = state]

-----------------------------------------------------------------------------
(* Serve *)

(* Mutant: the loop takes a slot without waiting for one. *)
acquireUnbounded ==
  /\ serve = "acquire"
  /\ sem' = IF MaxConns > 0 THEN sem + 1 ELSE sem
  /\ serve' = "accept"
  /\ UNCHANGED <<link, wg, closed, conns, handler, current, closer>>

acquire ==
  /\ serve = "acquire"
  /\ MaxConns > 0 => sem < MaxConns
  /\ sem' = IF MaxConns > 0 THEN sem + 1 ELSE sem
  /\ serve' = "accept"
  /\ UNCHANGED <<link, wg, closed, conns, handler, current, closer>>

Accept(c) ==
  /\ serve = "accept"
  /\ ~closed
  /\ link[c].server = "queued"
  /\ link' = [link EXCEPT ![c].server = "open"]
  /\ goto(c, "accepted")
  /\ serve' = "add"
  /\ UNCHANGED <<sem, wg, closed, conns, current, closer>>

(* Accept fails once the listener is closed, and may fail by itself. *)
acceptFails ==
  /\ serve = "accept"
  /\ serve' = "failed"
  /\ UNCHANGED <<link, sem, wg, closed, conns, handler, current, closer>>

isClosing ==
  /\ serve = "failed"
  /\ serve' = IF closed THEN "returned" ELSE "closing"
  /\ UNCHANGED <<link, sem, wg, closed, conns, handler, current, closer>>

wgAdd(c) ==
  /\ serve = "add"
  /\ handler[c] = "accepted"
  /\ wg' = wg + 1
  /\ goto(c, "started")
  /\ serve' = "acquire"
  /\ UNCHANGED <<link, sem, closed, conns, current, closer>>

-----------------------------------------------------------------------------
(* handleConn, and what the goroutine defers *)

(* Mutant: a connection is tracked although the server is closing. *)
trackConnAlways(c) ==
  /\ handler[c] = "started"
  /\ conns' = conns \cup {c} /\ goto(c, "reading")
  /\ UNCHANGED <<link, serve, sem, wg, closed, current, closer>>

trackConn(c) ==
  /\ handler[c] = "started"
  /\ IF closed THEN goto(c, "untracked") /\ UNCHANGED conns
     ELSE conns' = conns \cup {c} /\ goto(c, "reading")
  /\ UNCHANGED <<link, serve, sem, wg, closed, current, closer>>

(* A command is dispatched; a value that is none, or broken framing, is    *)
(* answered with an error at once.                                         *)
Decode(c) ==
  /\ handler[c] = "reading"
  /\ link[c].server = "open"
  /\ link[c].up # <<>>
  /\ LET value == Head(link[c].up)
     IN  /\ current' = [current EXCEPT ![c] = value]
         /\ goto(c, IF value.kind = "command" THEN "handling" ELSE "replying")
  /\ link' = [link EXCEPT ![c].up = Tail(@)]
  /\ UNCHANGED <<serve, sem, wg, closed, conns, closer>>

(* The reader finds the connection closed at either end. *)
gone(c) ==
  /\ handler[c] = "reading"
  /\ link[c].up = <<>>
  /\ link[c].client # "open" \/ link[c].server # "open"

(* Mutant: a failed read returns without the deferred release. *)
decodeFailsKeepingSlot(c) ==
  /\ gone(c)
  /\ goto(c, "released")
  /\ conns' = conns \ {c}
  /\ link' = [link EXCEPT ![c] = closeServer(@)]
  /\ UNCHANGED <<serve, sem, wg, closed, current, closer>>

decodeFails(c) ==
  /\ gone(c)
  /\ goto(c, "leaving")
  /\ UNCHANGED <<link, serve, sem, wg, closed, conns, current, closer>>

(* The read deadline, if there is one, passes on an idle connection. *)
readDeadline(c) ==
  /\ handler[c] = "reading"
  /\ link[c].up = <<>>
  /\ goto(c, "leaving")
  /\ UNCHANGED <<link, serve, sem, wg, closed, conns, current, closer>>

Handle(c) ==
  /\ handler[c] = "handling"
  /\ goto(c, "replying")
  /\ UNCHANGED <<link, serve, sem, wg, closed, conns, current, closer>>

(* After broken framing the connection is given up. *)
writeReply(c) ==
  /\ handler[c] = "replying"
  /\ link[c].server = "open"
  /\ link' = IF link[c].client = "open"
             THEN [link EXCEPT ![c].down = Append(@, current[c])] ELSE link
  /\ goto(c, IF current[c].kind = "broken" THEN "leaving" ELSE "reading")
  /\ current' = [current EXCEPT ![c] = None]
  /\ UNCHANGED <<serve, sem, wg, closed, conns, closer>>

(* The connection is gone, or the write deadline passed. *)
writeFails(c) ==
  /\ handler[c] = "replying"
  /\ goto(c, "leaving")
  /\ current' = [current EXCEPT ![c] = None]
  /\ UNCHANGED <<link, serve, sem, wg, closed, conns, closer>>

untrackConn(c) ==
  /\ handler[c] = "leaving"
  /\ conns' = conns \ {c}
  /\ goto(c, "untracked")
  /\ UNCHANGED <<link, serve, sem, wg, closed, current, closer>>

connClose(c) ==
  /\ handler[c] = "untracked"
  /\ link' = [link EXCEPT ![c] = closeServer(@)]
  /\ goto(c, "closing")
  /\ UNCHANGED <<serve, sem, wg, closed, conns, current, closer>>

release(c) ==
  /\ handler[c] = "closing"
  /\ sem' = IF MaxConns > 0 THEN sem - 1 ELSE sem
  /\ goto(c, "released")
  /\ UNCHANGED <<link, serve, wg, closed, conns, current, closer>>

wgDone(c) ==
  /\ handler[c] = "released"
  /\ wg' = wg - 1
  /\ goto(c, "none")
  /\ UNCHANGED <<link, serve, sem, closed, conns, current, closer>>

-----------------------------------------------------------------------------
(* Close *)

(* Mutant: Close forgets the connections it has to wake. *)
CloseListenerOnly(p) ==
  /\ closer[p] = "idle"
  /\ p = "serve" => serve = "closing"
  /\ closed' = TRUE
  /\ link' = IF closed THEN link
             ELSE [c \in Conn |-> IF link[c].server = "queued"
                                  THEN closeServer(link[c]) ELSE link[c]]
  /\ closer' = [closer EXCEPT ![p] = "waiting"]
  /\ UNCHANGED <<serve, sem, wg, conns, handler, current>>

(* Closing the listener drops the connections not yet accepted. *)
Close(p) ==
  /\ closer[p] = "idle"
  /\ p = "serve" => serve = "closing"
  /\ closed' = TRUE
  /\ link' = IF closed THEN link
             ELSE [c \in Conn |-> IF c \in conns \/ link[c].server = "queued"
                                  THEN closeServer(link[c]) ELSE link[c]]
  /\ closer' = [closer EXCEPT ![p] = "waiting"]
  /\ UNCHANGED <<serve, sem, wg, conns, handler, current>>

wgWait(p) ==
  /\ closer[p] = "waiting"
  /\ wg = 0
  /\ closer' = [closer EXCEPT ![p] = "returned"]
  /\ serve' = IF p = "serve" THEN "returned" ELSE serve
  /\ UNCHANGED <<link, sem, wg, closed, conns, handler, current>>

-----------------------------------------------------------------------------
(* Steps of one goroutine *)

ServeStep ==
  \/ acquire \/ acceptFails \/ isClosing \/ Close("serve")
  \/ \E c \in Conn : Accept(c) \/ wgAdd(c)

HandlerStep(c) ==
  \/ trackConn(c) \/ Decode(c) \/ decodeFails(c) \/ Handle(c)
  \/ writeReply(c) \/ writeFails(c)
  \/ untrackConn(c) \/ connClose(c) \/ release(c) \/ wgDone(c)

-----------------------------------------------------------------------------
(* Properties *)

(* Once a call of Close has returned, no connection is served any more,    *)
(* even one that was accepted before and whose goroutine Serve starts only *)
(* now: either Close waited for it, or trackConn turns it away.            *)
ClosedServesNothing ==
  (\E p \in Closer : closer[p] = "returned") =>
    \A c \in Conn : handler[c] \notin Serving

(* Every taken slot belongs to a connection or to the accept loop, on all  *)
(* paths by which a connection ends: a slot that is not released would     *)
(* lower the limit for good (acquire, release, the deferred function).     *)
SlotsAreAccounted ==
  MaxConns > 0 =>
    sem = Cardinality({c \in Conn : handler[c] \notin {"none", "released"}})
          + (IF serve \in {"acquire", "add"} THEN 0 ELSE 1)
=============================================================================
