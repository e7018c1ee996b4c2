--------------------------- MODULE PeerLinkProofs ---------------------------
(***************************************************************************)
(* Proofs about the peer client and the server it calls, for any number of *)
(* connections, callers, slots and calls.                                  *)
(***************************************************************************)
EXTENDS PeerLink, FiniteSetTheorems, TLAPS

Message == [kind : {"command"}, number : Nat] \cup [kind : {"notCommand", "broken"}]

Wire == [client : {"free", "open", "closed"},
         server : {"free", "queued", "open", "closed"},
         up : Seq(Message), down : Seq(Message)]

Handler == Serving \cup {"none", "accepted", "started", "leaving",
                         "untracked", "closing", "released"}

Busy == {"handling", "replying"}

(* The server's side: a busy goroutine has something to answer, a queued   *)
(* connection has no goroutine.                                            *)
ServerSide ==
  /\ link \in [Conn -> Wire]
  /\ handler \in [Conn -> Handler]
  /\ current \in [Conn -> Message \cup {None}]
  /\ \A c \in Conn : handler[c] \in Busy => current[c] \in Message
  /\ \A c \in Conn : link[c].server = "queued" => handler[c] = "none"

Quiet(c) == link[c].up = <<>> /\ link[c].down = <<>> /\ handler[c] \notin Busy

(* Nothing but m is under way on c, and only in one place. *)
Carries(c, m) ==
  \/ Quiet(c)
  \/ link[c].up = <<m>> /\ link[c].down = <<>> /\ handler[c] \notin Busy
  \/ link[c].up = <<>> /\ link[c].down = <<m>> /\ handler[c] \notin Busy
  \/ link[c].up = <<>> /\ link[c].down = <<>> /\ handler[c] \in Busy /\ current[c] = m

-----------------------------------------------------------------------------
(* Steps of the server *)

LEMMA FreeTypes ==
  /\ Free \in Wire /\ Free.server = "free" /\ Free.up = <<>>
  /\ Dialed \in Wire
<1>1. <<>> \in Seq(Message)
  OBVIOUS
<1>2. QED
  BY <1>1, Zenon DEF Wire, Free, Dialed

LEMMA CloseTypes ==
  ASSUME NEW l \in Wire
  PROVE  /\ closeClient(l) \in Wire /\ closeServer(l) \in Wire
         /\ closeClient(l).server # "queued" \/ l.server = "queued"
         /\ closeServer(l).server # "queued"
         /\ l.client = "open" => closeServer(l).client = "open"
         /\ closeServer(l).up \in {<<>>, l.up}
         /\ closeServer(l).down = l.down \/ l.client = "closed"
<1>2. closeClient(l) \in Wire
  BY FreeTypes, Zenon DEF closeClient, Wire
<1>3. closeClient(l).server # "queued" \/ l.server = "queued"
  BY FreeTypes, Zenon DEF closeClient, Wire
<1>4. CASE l.server = "free"
  BY FreeTypes, <1>2, <1>3, <1>4, Zenon DEF closeServer
<1>5. CASE l.server # "free" /\ l.client = "closed"
  BY FreeTypes, <1>2, <1>3, <1>5, Zenon DEF closeServer
<1>6. CASE l.server # "free" /\ l.client # "closed"
  <2>1. closeServer(l) = [l EXCEPT !.server = "closed", !.up = <<>>]
    BY <1>6, Zenon DEF closeServer
  <2>2. QED
    BY FreeTypes, <1>2, <1>3, <2>1, Zenon DEF Wire
<1>7. QED
  BY <1>4, <1>5, <1>6, Zenon

(* A step of the server keeps a client's end open, leaves a quiet          *)
(* connection quiet and moves a command only on its way.                   *)
Undisturbed ==
  \A c \in Conn : link[c].client = "open" =>
    /\ link'[c].client = "open"
    /\ Quiet(c) => Quiet(c)'
    /\ \A m \in Message : m.kind = "command" /\ Carries(c, m) => Carries(c, m)'

LEMMA NothingMoves ==
  ASSUME ServerSide, UNCHANGED <<link, handler, current>>
  PROVE  ServerSide' /\ Undisturbed
BY Zenon DEF ServerSide, Undisturbed, Quiet, Carries

(* A goroutine goes on without touching its connection. *)
LEMMA Moves ==
  ASSUME ServerSide, NEW c \in Conn, NEW s \in Handler, goto(c, s),
         UNCHANGED <<link, current>>,
         handler[c] # "none", handler[c] \in Busy <=> s \in Busy
  PROVE  ServerSide' /\ Undisturbed
<1>1. handler' = [handler EXCEPT ![c] = s]
  BY Zenon DEF goto
<1>2. handler' \in [Conn -> Handler] /\ \A d \in Conn : handler'[d] \in Busy <=> handler[d] \in Busy
  BY <1>1, Zenon DEF ServerSide
<1>3. ServerSide'
  BY <1>1, <1>2, Zenon DEF ServerSide
<1>4. \A d \in Conn : Quiet(d) <=> Quiet(d)'
  BY <1>2, Zenon DEF Quiet
<1>5. \A d \in Conn, m \in Message : Carries(d, m) => Carries(d, m)'
  BY <1>2, <1>4, Zenon DEF Carries
<1>6. QED
  BY <1>3, <1>4, <1>5, Zenon DEF Undisturbed

LEMMA AcceptEffect ==
  ASSUME ServerSide, NEW c \in Conn, Accept(c)
  PROVE  ServerSide' /\ Undisturbed
<1>1. /\ link' = [link EXCEPT ![c].server = "open"]
      /\ handler' = [handler EXCEPT ![c] = "accepted"]
      /\ current' = current
      /\ handler[c] = "none"
  BY Zenon DEF Accept, goto, ServerSide
<1>2. /\ link' \in [Conn -> Wire]
      /\ \A d \in Conn : /\ link'[d].client = link[d].client
                         /\ link'[d].up = link[d].up
                         /\ link'[d].down = link[d].down
                         /\ d # c => link'[d] = link[d]
      /\ link'[c].server = "open"
  BY <1>1 DEF ServerSide, Wire
<1>3. /\ handler' \in [Conn -> Handler]
      /\ \A d \in Conn : handler'[d] \in Busy <=> handler[d] \in Busy
      /\ \A d \in Conn \ {c} : handler'[d] = handler[d]
  BY <1>1, Zenon DEF ServerSide, Handler, Busy
<1>4. ServerSide'
  BY <1>1, <1>2, <1>3, Zenon DEF ServerSide
<1>5. \A d \in Conn : Quiet(d) <=> Quiet(d)'
  BY <1>2, <1>3, Zenon DEF Quiet
<1>6. \A d \in Conn, m \in Message : Carries(d, m) => Carries(d, m)'
  BY <1>1, <1>2, <1>3, <1>5, Zenon DEF Carries
<1>7. QED
  BY <1>2, <1>4, <1>5, <1>6, Zenon DEF Undisturbed

LEMMA DecodeEffect ==
  ASSUME ServerSide, NEW c \in Conn, Decode(c)
  PROVE  ServerSide' /\ Undisturbed
<1> DEFINE value == Head(link[c].up)
<1>1. /\ handler[c] = "reading" /\ link[c].server = "open" /\ link[c].up # <<>>
      /\ current' = [current EXCEPT ![c] = value]
      /\ handler' = [handler EXCEPT ![c] =
                       IF value.kind = "command" THEN "handling" ELSE "replying"]
      /\ link' = [link EXCEPT ![c].up = Tail(@)]
  BY Zenon DEF Decode, goto
<1>2. link[c] \in Wire /\ value \in Message /\ Tail(link[c].up) \in Seq(Message)
  BY <1>1 DEF ServerSide, Wire
<1>3. /\ link' \in [Conn -> Wire]
      /\ link'[c] = [link[c] EXCEPT !.up = Tail(link[c].up)]
      /\ \A d \in Conn \ {c} : link'[d] = link[d]
  BY <1>1, <1>2, Zenon DEF ServerSide, Wire
<1>4. /\ handler' \in [Conn -> Handler] /\ handler'[c] \in Busy
      /\ \A d \in Conn \ {c} : handler'[d] = handler[d]
  BY <1>1, Zenon DEF ServerSide, Handler, Serving, Busy
<1>5. /\ current' \in [Conn -> Message \cup {None}] /\ current'[c] = value
      /\ \A d \in Conn \ {c} : current'[d] = current[d]
  BY <1>1, <1>2, Zenon DEF ServerSide
<1>6. link'[c].client = link[c].client /\ link'[c].down = link[c].down
      /\ link'[c].up = Tail(link[c].up) /\ link'[c].server = "open"
  BY <1>1, <1>2, <1>3, Zenon DEF Wire
<1> HIDE DEF value
<1>7. ServerSide'
  BY <1>2, <1>3, <1>4, <1>5, <1>6, Zenon DEF ServerSide
<1>8. ASSUME NEW m \in Message, m.kind = "command", Carries(c, m)
      PROVE  Carries(c, m)'
  <2>1. link[c].up = <<m>> /\ link[c].down = <<>>
    BY <1>1, <1>8, Zenon DEF Carries, Quiet, Busy
  <2>2. value = m /\ Tail(link[c].up) = <<>>
    BY <2>1 DEF value
  <2>3. QED
    BY <1>4, <1>5, <1>6, <2>1, <2>2, Zenon DEF Carries
<1>9. \A d \in Conn \ {c} : /\ link'[d] = link[d]
                            /\ Quiet(d) => Quiet(d)'
                            /\ \A m \in Message : Carries(d, m) => Carries(d, m)'
  BY <1>3, <1>4, <1>5, Zenon DEF Quiet, Carries
<1>10. ~Quiet(c)
  BY <1>1, Zenon DEF Quiet
<1>11. QED
  BY <1>6, <1>7, <1>8, <1>9, <1>10, Zenon DEF Undisturbed

LEMMA WriteReplyEffect ==
  ASSUME ServerSide, NEW c \in Conn, writeReply(c)
  PROVE  ServerSide' /\ Undisturbed
<1>1. /\ handler[c] = "replying" /\ link[c].server = "open"
      /\ current[c] \in Message
      /\ current' = [current EXCEPT ![c] = None]
      /\ \E s \in {"leaving", "reading"} : handler' = [handler EXCEPT ![c] = s]
      /\ link' = IF link[c].client = "open"
                 THEN [link EXCEPT ![c].down = Append(@, current[c])] ELSE link
  BY Zenon DEF writeReply, goto, ServerSide, Busy
<1>2. link[c] \in Wire /\ Append(link[c].down, current[c]) \in Seq(Message)
  BY <1>1 DEF ServerSide, Wire
<1>3. /\ link' \in [Conn -> Wire]
      /\ \A d \in Conn \ {c} : link'[d] = link[d]
      /\ link'[c].client = link[c].client /\ link'[c].up = link[c].up
      /\ link'[c].server = "open"
      /\ link[c].client = "open" => link'[c].down = Append(link[c].down, current[c])
  BY <1>1, <1>2, Zenon DEF ServerSide, Wire
<1>4. /\ handler' \in [Conn -> Handler] /\ handler'[c] \notin Busy
      /\ \A d \in Conn \ {c} : handler'[d] = handler[d]
  BY <1>1, Zenon DEF ServerSide, Handler, Serving, Busy
<1>5. /\ current' \in [Conn -> Message \cup {None}]
      /\ \A d \in Conn \ {c} : current'[d] = current[d]
  BY <1>1, Zenon DEF ServerSide
<1>6. ServerSide'
  BY <1>3, <1>4, <1>5, Zenon DEF ServerSide
<1>7. ASSUME link[c].client = "open", NEW m \in Message, Carries(c, m)
      PROVE  Carries(c, m)'
  <2>1. link[c].up = <<>> /\ link[c].down = <<>> /\ current[c] = m
    BY <1>1, <1>7, Zenon DEF Carries, Quiet, Busy
  <2>2. Append(link[c].down, current[c]) = <<m>>
    BY <2>1
  <2>3. QED
    BY <1>3, <1>4, <1>7, <2>1, <2>2, Zenon DEF Carries
<1>8. \A d \in Conn \ {c} : /\ link'[d] = link[d]
                            /\ Quiet(d) => Quiet(d)'
                            /\ \A m \in Message : Carries(d, m) => Carries(d, m)'
  BY <1>3, <1>4, <1>5, Zenon DEF Quiet, Carries
<1>9. ~Quiet(c)
  BY <1>1, Zenon DEF Quiet, Busy
<1>10. QED
  BY <1>3, <1>6, <1>7, <1>8, <1>9, Zenon DEF Undisturbed

LEMMA WriteFailsEffect ==
  ASSUME ServerSide, NEW c \in Conn, writeFails(c)
  PROVE  ServerSide' /\ Undisturbed
<1>1. /\ handler[c] = "replying" /\ link' = link
      /\ current' = [current EXCEPT ![c] = None]
      /\ handler' = [handler EXCEPT ![c] = "leaving"]
  BY Zenon DEF writeFails, goto
<1>2. /\ handler' \in [Conn -> Handler] /\ handler'[c] \notin Busy
      /\ \A d \in Conn \ {c} : handler'[d] = handler[d]
  BY <1>1, Zenon DEF ServerSide, Handler, Busy
<1>3. /\ current' \in [Conn -> Message \cup {None}]
      /\ \A d \in Conn \ {c} : current'[d] = current[d]
  BY <1>1, Zenon DEF ServerSide
<1>4. ServerSide'
  BY <1>1, <1>2, <1>3, Zenon DEF ServerSide
<1>5. \A m \in Message : Carries(c, m) => Carries(c, m)'
  BY <1>1, <1>2, Zenon DEF Carries, Quiet, Busy
<1>6. \A d \in Conn \ {c} : /\ Quiet(d) => Quiet(d)'
                            /\ \A m \in Message : Carries(d, m) => Carries(d, m)'
  BY <1>1, <1>2, <1>3, Zenon DEF Quiet, Carries
<1>7. ~Quiet(c)
  BY <1>1, Zenon DEF Quiet, Busy
<1>8. QED
  BY <1>1, <1>4, <1>5, <1>6, <1>7, Zenon DEF Undisturbed

(* The server closes its end of some connections. *)
LEMMA ServerCloses ==
  ASSUME ServerSide, UNCHANGED current, link' \in [Conn -> Wire],
         handler' \in [Conn -> Handler],
         \A d \in Conn : \/ link'[d] = link[d] /\ handler'[d] = handler[d]
                         \/ /\ link'[d] = closeServer(link[d])
                            /\ handler'[d] \in Busy <=> handler[d] \in Busy
  PROVE  ServerSide' /\ Undisturbed
<1>1. \A d \in Conn :
        /\ link[d] \in Wire
        /\ handler'[d] \in Busy <=> handler[d] \in Busy
        /\ link[d].client = "open" => /\ link'[d].client = "open"
                                      /\ link'[d].up \in {<<>>, link[d].up}
                                      /\ link'[d].down = link[d].down
        /\ link'[d].server = "queued" =>
             link[d].server = "queued" /\ handler'[d] = handler[d]
  <2> TAKE d \in Conn
  <2>1. link[d] \in Wire
    BY Zenon DEF ServerSide
  <2>2. CASE link'[d] = link[d] /\ handler'[d] = handler[d]
    BY <2>1, <2>2, Zenon
  <2>3. CASE link'[d] = closeServer(link[d]) /\ (handler'[d] \in Busy <=> handler[d] \in Busy)
    BY <2>1, <2>3, CloseTypes
  <2>4. QED
    BY <2>2, <2>3, Zenon
<1>2. ServerSide'
  BY <1>1, Zenon DEF ServerSide
<1>3. ASSUME NEW d \in Conn, link[d].client = "open"
      PROVE  /\ Quiet(d) => Quiet(d)'
             /\ \A m \in Message : Carries(d, m) => Carries(d, m)'
  <2>1. Quiet(d) => Quiet(d)'
    BY <1>1, <1>3, Zenon DEF Quiet
  <2>2. ASSUME NEW m \in Message, Carries(d, m)
        PROVE  Carries(d, m)'
    BY <1>1, <1>3, <2>1, <2>2, Zenon DEF Carries, Quiet
  <2>3. QED
    BY <2>1, <2>2, Zenon
<1>4. QED
  BY <1>1, <1>2, <1>3, Zenon DEF Undisturbed

LEMMA ServerEffect ==
  ASSUME ServerSide, ServerNext
  PROVE  ServerSide' /\ Undisturbed
<1>1. ASSUME acquire \/ acceptFails \/ isClosing \/ \E p \in Closer : wgWait(p)
      PROVE  ServerSide' /\ Undisturbed
  BY <1>1, NothingMoves, Zenon DEF acquire, acceptFails, isClosing, wgWait
<1>2. ASSUME NEW p \in Closer, Close(p)
      PROVE  ServerSide' /\ Undisturbed
  <2>1. /\ handler' = handler /\ current' = current
        /\ \/ link' = link
           \/ link' = [c \in Conn |-> IF c \in conns \/ link[c].server = "queued"
                                      THEN closeServer(link[c]) ELSE link[c]]
    BY <1>2, Zenon DEF Close
  <2>2. link' \in [Conn -> Wire] /\ handler' \in [Conn -> Handler]
    BY <2>1, CloseTypes DEF ServerSide
  <2>3. \A d \in Conn : link'[d] \in {link[d], closeServer(link[d])}
    BY <2>1, Zenon
  <2>4. QED
    BY <2>1, <2>2, <2>3, ServerCloses, Zenon
<1>3. ASSUME NEW c \in Conn, connClose(c)
      PROVE  ServerSide' /\ Undisturbed
  <2>1. /\ current' = current /\ handler[c] = "untracked"
        /\ handler' = [handler EXCEPT ![c] = "closing"]
        /\ link' = [link EXCEPT ![c] = closeServer(link[c])]
    BY <1>3, Zenon DEF connClose, goto
  <2>2. link' \in [Conn -> Wire] /\ handler' \in [Conn -> Handler]
    BY <2>1, CloseTypes DEF ServerSide, Handler
  <2>3. \A d \in Conn \ {c} : link'[d] = link[d] /\ handler'[d] = handler[d]
    BY <2>1, Zenon DEF ServerSide
  <2>4. /\ link'[c] = closeServer(link[c])
        /\ handler'[c] \notin Busy /\ handler[c] \notin Busy
    BY <2>1, Zenon DEF ServerSide, Busy
  <2>5. QED
    BY <2>1, <2>2, <2>3, <2>4, ServerCloses, Zenon
<1>4. ASSUME NEW c \in Conn,
             \/ wgAdd(c) \/ trackConn(c) \/ decodeFails(c) \/ readDeadline(c)
             \/ Handle(c) \/ untrackConn(c) \/ release(c) \/ wgDone(c)
      PROVE  ServerSide' /\ Undisturbed
  <2>1. /\ UNCHANGED <<link, current>>
        /\ handler[c] # "none"
        /\ \E s \in Handler : goto(c, s) /\ (handler[c] \in Busy <=> s \in Busy)
    BY <1>4 DEF wgAdd, trackConn, decodeFails, gone, readDeadline, Handle, untrackConn,
                release, wgDone, Handler, Serving, Busy
  <2>2. QED
    BY <2>1, Moves, Zenon
<1>5. QED
  BY <1>1, <1>2, <1>3, <1>4, AcceptEffect, DecodeEffect, WriteReplyEffect, WriteFailsEffect, Zenon
     DEF ServerNext

-----------------------------------------------------------------------------
(* The client's side *)

Call == [at : {"ready", "dial", "write", "await", "put", "stopped"},
         conn : Conn \cup {None}, pooled : BOOLEAN,
         reply : Message \cup {None}, number : 0 .. MaxCalls]

Between == {"ready", "dial", "stopped"}

CallSide ==
  /\ idle \in Seq(Conn)
  /\ calls \in 0 .. MaxCalls
  /\ call \in [Caller -> Call]
  /\ outside \subseteq Conn
  /\ \A k \in Caller : call[k].conn = None <=> call[k].at \in Between

(* A connection has one user: the pool, one caller, or a client outside. *)
Apart ==
  /\ IsInjective(idle)
  /\ Range(idle) \cap outside = {}
  /\ \A c \in Range(idle) \cup outside :
       link[c].client = "open" /\ \A k \in Caller : call[k].conn # c
  /\ \A k \in Caller : call[k].conn # None =>
       /\ link[call[k].conn].client = "open"
       /\ \A j \in Caller : call[j].conn = call[k].conn => j = k

sent(r) == [kind |-> "command", number |-> r.number]

(* What is under way on a connection belongs to the call that holds it. *)
Owned ==
  /\ \A c \in Range(idle) : Quiet(c)
  /\ \A k \in Caller :
       /\ call[k].at \in {"write", "put"} => Quiet(call[k].conn)
       /\ call[k].at = "await" => Carries(call[k].conn, sent(call[k]))
       /\ call[k].at = "put" => call[k].reply = sent(call[k])

LinkInv == ServerSide /\ CallSide /\ Apart /\ Owned

LEMMA PutWarm ==
  ASSUME NEW s \in Seq(Conn), NEW c \in Conn
  PROVE  /\ Append(s, c) \in Seq(Conn)
         /\ Range(Append(s, c)) = Range(s) \cup {c}
         /\ IsInjective(s) /\ c \notin Range(s) => IsInjective(Append(s, c))
<1>1. /\ Append(s, c) \in Seq(Conn)
      /\ DOMAIN s = 1 .. Len(s) /\ Len(s) \in Nat
      /\ DOMAIN Append(s, c) = 1 .. Len(s) + 1
      /\ \A i \in 1 .. Len(s) : Append(s, c)[i] = s[i]
      /\ Append(s, c)[Len(s) + 1] = c
  OBVIOUS
<1>2. Range(Append(s, c)) = Range(s) \cup {c}
  BY <1>1 DEF Range
<1>3. IsInjective(s) /\ c \notin Range(s) => IsInjective(Append(s, c))
  BY <1>1 DEF IsInjective, Range
<1>4. QED
  BY <1>1, <1>2, <1>3, Zenon

rest(s) == SubSeq(s, 1, Len(s) - 1)

LEMMA TakeWarm ==
  ASSUME NEW s \in Seq(Conn), s # <<>>, IsInjective(s)
  PROVE  /\ rest(s) \in Seq(Conn) /\ IsInjective(rest(s))
         /\ s[Len(s)] \in Range(s) /\ s[Len(s)] \in Conn
         /\ Range(rest(s)) \subseteq Range(s) \ {s[Len(s)]}
<1>1. /\ DOMAIN s = 1 .. Len(s) /\ Len(s) \in Nat /\ Len(s) > 0
      /\ rest(s) \in Seq(Conn)
      /\ DOMAIN rest(s) = 1 .. Len(s) - 1
      /\ \A i \in 1 .. Len(s) - 1 : rest(s)[i] = s[i]
  BY DEF rest
<1>2. QED
  BY <1>1 DEF Range, IsInjective

(* A client's step of one caller on the connections D it alone uses. *)
LEMMA OneCall ==
  ASSUME LinkInv, NEW k \in Caller, NEW r \in Call, NEW D \in SUBSET Conn,
         call' = [call EXCEPT ![k] = r],
         UNCHANGED <<handler, current, outside>>,
         calls' \in 0 .. MaxCalls,
         idle' \in Seq(Conn), IsInjective(idle'),
         link' \in [Conn -> Wire],
         \A d \in Conn \ D : link'[d] = link[d],
         \A d \in D : link'[d].server = "queued" => handler[d] = "none",
         D \cap outside = {},
         \A j \in Caller \ {k} : call[j].conn \notin D,
         Range(idle') \ D \subseteq Range(idle),
         \A d \in Range(idle') \cap D : Quiet(d)' /\ link'[d].client = "open",
         r.conn = None <=> r.at \in Between,
         r.conn # None => /\ r.conn \in D /\ r.conn \notin Range(idle')
                          /\ link'[r.conn].client = "open",
         r.at \in {"write", "put"} => Quiet(r.conn)',
         r.at = "await" => Carries(r.conn, sent(r))',
         r.at = "put" => r.reply = sent(r)
  PROVE  LinkInv'
<1>0. ServerSide /\ CallSide /\ Apart /\ Owned /\ None \notin Conn
  BY PeerLinkAssumption, Zenon DEF LinkInv
<1>1. /\ call' \in [Caller -> Call] /\ call'[k] = r
      /\ \A j \in Caller \ {k} : call'[j] = call[j]
  BY <1>0, Zenon DEF CallSide
<1>2. Range(idle') \subseteq Conn
  BY DEF Range
<1>3. ServerSide'
  BY <1>0, Zenon DEF ServerSide
<1>4. CallSide'
  BY <1>0, <1>1, Zenon DEF CallSide
<1>5. \A d \in Conn \ D : /\ Quiet(d) => Quiet(d)'
                          /\ \A m : Carries(d, m) => Carries(d, m)'
  BY Zenon DEF Quiet, Carries
<1>6. Apart'
  <2>1. \A c \in Range(idle') \cup outside :
          link'[c].client = "open" /\ \A j \in Caller : call'[j].conn # c
    <3> TAKE c \in Range(idle') \cup outside
    <3>1. c \in Conn /\ c # None
      BY <1>0, <1>2, Zenon DEF CallSide
    <3>2. link'[c].client = "open"
      BY <1>0, <3>1, Zenon DEF Apart
    <3>3. \A j \in Caller \ {k} : call[j].conn # c
      BY <1>0, <3>1 DEF Apart
    <3>4. r.conn # c
      BY <3>1, Zenon
    <3>5. QED
      BY <1>1, <3>2, <3>3, <3>4, Zenon
  <2>2. Range(idle') \cap outside = {}
    BY <1>0, Zenon DEF Apart
  <2>3. ASSUME NEW j \in Caller, call'[j].conn # None
        PROVE  /\ link'[call'[j].conn].client = "open"
               /\ \A i \in Caller : call'[i].conn = call'[j].conn => i = j
    <3>1. CASE j = k
      BY <1>1, <2>3, <3>1, Zenon
    <3>2. CASE j # k
      <4>1. call'[j] = call[j] /\ call[j].conn \in Conn \ D
        BY <1>0, <1>1, <2>3, <3>2, Zenon DEF CallSide, Call
      <4>2. r.conn # call[j].conn
        BY <2>3, <4>1, Zenon
      <4>3. QED
        BY <1>0, <1>1, <2>3, <4>1, <4>2 DEF Apart
    <3>3. QED
      BY <3>1, <3>2, Zenon
  <2>4. QED
    BY <2>1, <2>2, <2>3, Zenon DEF Apart
<1>7. Owned'
  <2>1. \A c \in Range(idle') : Quiet(c)'
    BY <1>0, <1>2, <1>5, Zenon DEF Owned
  <2>2. ASSUME NEW j \in Caller, j # k
        PROVE  /\ call'[j].at \in {"write", "put"} => Quiet(call[j].conn)'
               /\ call'[j].at = "await" => Carries(call[j].conn, sent(call[j]))'
               /\ call'[j].at = "put" => call[j].reply = sent(call[j])
               /\ call'[j] = call[j]
    <3>1. call'[j] = call[j]
      BY <1>1, <2>2, Zenon
    <3>2. call[j].at \in {"write", "put", "await"} => call[j].conn \in Conn \ D
      BY <1>0, <2>2, Zenon DEF CallSide, Call, Between
    <3>3. QED
      BY <1>0, <1>5, <3>1, <3>2, Zenon DEF Owned
  <2>3. QED
    BY <1>1, <2>1, <2>2, Zenon DEF Owned
<1>8. QED
  BY <1>3, <1>4, <1>6, <1>7, Zenon DEF LinkInv

(* What LinkInv says of the connection a caller holds. *)
LEMMA HeldConnection ==
  ASSUME LinkInv, NEW k \in Caller, call[k].at \notin Between
  PROVE  /\ call[k] \in Call /\ call[k].conn \in Conn /\ call[k].conn # None
         /\ link[call[k].conn] \in Wire
         /\ link[call[k].conn].client = "open"
         /\ call[k].conn \notin Range(idle) \cup outside
         /\ \A j \in Caller \ {k} : call[j].conn # call[k].conn
<1>1. call[k] \in Call /\ call[k].conn \in Conn /\ call[k].conn # None
  BY PeerLinkAssumption, Zenon DEF LinkInv, CallSide, Call
<1>2. QED
  BY <1>1, Zenon DEF LinkInv, Apart, ServerSide

LEMMA ReadyCall ==
  /\ ready \in Call /\ ready.conn = None /\ ready.at = "ready"
  /\ [ready EXCEPT !.at = "stopped"] \in Call
  /\ [ready EXCEPT !.at = "stopped"].conn = None
  /\ [ready EXCEPT !.at = "stopped"].at = "stopped"
<1>1. 0 \in 0 .. MaxCalls
  BY PeerLinkAssumption
<1>2. QED
  BY <1>1, Zenon DEF ready, Call

(* A call ends without a connection, on which D is closed or untouched. *)
LEMMA CallEnds ==
  ASSUME LinkInv, NEW k \in Caller, NEW r \in Call, r.conn = None, r.at \in Between,
         call' = [call EXCEPT ![k] = r],
         UNCHANGED <<handler, current, outside, idle, calls>>,
         \/ link' = link
         \/ /\ call[k].at \notin Between
            /\ link' = [link EXCEPT ![call[k].conn] = closeClient(link[call[k].conn])]
  PROVE  LinkInv'
<1>0. /\ ServerSide /\ link \in [Conn -> Wire] /\ idle \in Seq(Conn) /\ IsInjective(idle)
      /\ calls \in 0 .. MaxCalls
  BY Zenon DEF LinkInv, ServerSide, CallSide, Apart
<1>1. r.at \notin {"write", "put"} /\ r.at # "await" /\ r.at # "put"
  BY Zenon DEF Between
<1>2. CASE link' = link
  <2> DEFINE D == {}
  <2>1. /\ D \in SUBSET Conn /\ D \cap outside = {} /\ Range(idle) \cap D = {}
        /\ \A j \in Caller \ {k} : call[j].conn \notin D
        /\ \A d \in Conn \ D : link'[d] = link[d]
        /\ \A d \in D : link'[d].server = "queued" => handler[d] = "none"
    BY <1>2, Zenon
  <2> HIDE DEF D
  <2>2. QED
    BY <1>0, <1>1, <1>2, <2>1, OneCall, Zenon
<1>3. CASE /\ call[k].at \notin Between
           /\ link' = [link EXCEPT ![call[k].conn] = closeClient(link[call[k].conn])]
  <2> DEFINE D == {call[k].conn}
  <2>1. /\ D \in SUBSET Conn /\ D \cap outside = {} /\ Range(idle) \cap D = {}
        /\ \A j \in Caller \ {k} : call[j].conn \notin D
        /\ link[call[k].conn] \in Wire
    BY <1>3, HeldConnection, Zenon
  <2>2. /\ link' \in [Conn -> Wire]
        /\ link'[call[k].conn] = closeClient(link[call[k].conn])
        /\ \A d \in Conn \ D : link'[d] = link[d]
    BY <1>0, <1>3, <2>1, CloseTypes
  <2>3. \A d \in D : link'[d].server = "queued" => handler[d] = "none"
    BY <1>0, <2>1, <2>2, CloseTypes DEF ServerSide
  <2> HIDE DEF D
  <2>4. QED
    BY <1>0, <1>1, <2>1, <2>2, <2>3, OneCall, Zenon
<1>4. QED
  BY <1>2, <1>3, Zenon

LEMMA GetIdleEffect ==
  ASSUME LinkInv, NEW k \in Caller, getIdle(k), UNCHANGED <<serverVars, mainVars>>
  PROVE  LinkInv'
<1>0. /\ ServerSide /\ CallSide /\ Apart /\ Owned
      /\ link \in [Conn -> Wire] /\ idle \in Seq(Conn) /\ IsInjective(idle)
      /\ None \notin Conn /\ MaxCalls \in Nat
  BY PeerLinkAssumption, Zenon DEF LinkInv, ServerSide, CallSide, Apart
<1>1. /\ call[k].at = "ready" /\ call[k] \in Call /\ call[k].conn = None
      /\ calls' \in 0 .. MaxCalls /\ calls' = calls + 1
      /\ link' = link /\ UNCHANGED <<handler, current, outside>>
  BY <1>0 DEF getIdle, CallSide, Between, serverVars, mainVars
<1>2. CASE idle = <<>>
  <2> DEFINE r == [call[k] EXCEPT !.at = "dial", !.number = calls + 1]
  <2>1. call' = [call EXCEPT ![k] = r] /\ idle' = idle
    BY <1>2, Zenon DEF getIdle
  <2>2. r \in Call /\ r.at = "dial" /\ r.conn = None
    BY <1>1, Zenon DEF Call
  <2> HIDE DEF r
  <2>3. r.at \in Between /\ r.at \notin {"write", "put"} /\ r.at # "await" /\ r.at # "put"
    BY <2>2, Zenon DEF Between
  <2> DEFINE D == {}
  <2>4. /\ D \in SUBSET Conn /\ D \cap outside = {} /\ Range(idle) \cap D = {}
        /\ \A j \in Caller \ {k} : call[j].conn \notin D
        /\ \A d \in Conn \ D : link'[d] = link[d]
        /\ \A d \in D : link'[d].server = "queued" => handler[d] = "none"
    BY <1>1, Zenon
  <2> HIDE DEF D
  <2>5. QED
    BY <1>0, <1>1, <2>1, <2>2, <2>3, <2>4, OneCall, Zenon
<1>3. CASE idle # <<>>
  <2>1. PICK c : c = idle[Len(idle)]
    BY Zenon
  <2>2. /\ call' = [call EXCEPT ![k] = [call[k] EXCEPT
                      !.at = "write", !.number = calls + 1, !.conn = c, !.pooled = TRUE]]
        /\ idle' = rest(idle)
    BY <1>3, <2>1, Zenon DEF getIdle, rest
  <2>3. /\ c \in Range(idle) /\ c \in Conn /\ c # None
        /\ idle' \in Seq(Conn) /\ IsInjective(idle')
        /\ Range(idle') \subseteq Range(idle) \ {c}
    BY <1>0, <1>3, <2>1, <2>2, TakeWarm, Zenon
  <2>4. PICK r \in Call : /\ r.at = "write" /\ r.conn = c
                          /\ call' = [call EXCEPT ![k] = r]
    BY <1>1, <2>2, <2>3, Zenon DEF Call
  <2>5. /\ c \notin outside /\ link[c].client = "open" /\ Quiet(c)
        /\ \A j \in Caller : call[j].conn # c
    BY <1>0, <2>3, Zenon DEF Apart, Owned
  <2>6. Quiet(c)'
    BY <1>1, <2>5, Zenon DEF Quiet
  <2> DEFINE D == {c}
  <2>7. /\ D \in SUBSET Conn /\ D \cap outside = {} /\ Range(idle') \cap D = {}
        /\ c \in D
        /\ \A j \in Caller \ {k} : call[j].conn \notin D
        /\ \A d \in Conn \ D : link'[d] = link[d]
        /\ \A d \in D : link'[d].server = "queued" => handler[d] = "none"
        /\ link'[c].client = "open" /\ c \notin Range(idle')
        /\ Range(idle') \ D \subseteq Range(idle)
    BY <1>0, <1>1, <2>2, <2>3, <2>5, Zenon DEF ServerSide
  <2> HIDE DEF D
  <2>8. r.at \notin Between /\ r.at \in {"write", "put"} /\ r.at # "await" /\ r.at # "put"
    BY <2>4, Zenon DEF Between
  <2>9. link' \in [Conn -> Wire] /\ idle' \in Seq(Conn) /\ IsInjective(idle')
    BY <1>0, <1>1, <2>2, <2>3, Zenon
  <2>10. QED
    BY <1>1, <2>3, <2>4, <2>6, <2>7, <2>8, <2>9, OneCall, Zenon
<1>4. QED
  BY <1>2, <1>3, Zenon

LEMMA DialEffect ==
  ASSUME LinkInv, NEW k \in Caller, NEW c \in Conn, opens(c), dial(k, c),
         UNCHANGED <<serverVars, mainVars>>
  PROVE  LinkInv'
<1>0. /\ ServerSide /\ CallSide /\ Apart /\ link \in [Conn -> Wire]
      /\ idle \in Seq(Conn) /\ IsInjective(idle) /\ c # None
  BY PeerLinkAssumption, Zenon DEF LinkInv, ServerSide, CallSide, Apart
<1>1. /\ link' = [link EXCEPT ![c] = Dialed]
      /\ link[c] = Free /\ handler[c] = "none"
      /\ UNCHANGED <<handler, current, outside, idle, calls>>
      /\ calls \in 0 .. MaxCalls
  BY <1>0, Zenon DEF dial, opens, CallSide, serverVars, mainVars
<1>2. PICK r \in Call : /\ r.at = "write" /\ r.conn = c
                        /\ call' = [call EXCEPT ![k] = r]
  <2>1. call[k] \in Call
    BY <1>0, Zenon DEF CallSide
  <2>2. call' = [call EXCEPT ![k] =
                   [call[k] EXCEPT !.at = "write", !.conn = c, !.pooled = FALSE]]
    BY <1>0, <2>1, Zenon DEF dial, CallSide, Call
  <2>3. QED
    BY <2>1, <2>2, Zenon DEF Call
<1> DEFINE D == {c}
<1>3. /\ link' \in [Conn -> Wire] /\ link'[c] = Dialed
      /\ \A d \in Conn \ D : link'[d] = link[d]
  BY <1>0, <1>1, FreeTypes, Zenon
<1>4. link'[c].client = "open" /\ Quiet(c)'
  BY <1>1, <1>3, Zenon DEF Dialed, Free, Quiet, Busy
<1>5. link[c].client # "open"
  BY <1>1 DEF Free
<1>6. /\ c \notin outside /\ c \notin Range(idle)
      /\ \A j \in Caller : call[j].conn # c
  BY <1>0, <1>5, Zenon DEF Apart
<1>7. /\ D \in SUBSET Conn /\ D \cap outside = {} /\ Range(idle') \cap D = {}
      /\ c \in D
      /\ \A j \in Caller \ {k} : call[j].conn \notin D
      /\ \A d \in D : link'[d].server = "queued" => handler[d] = "none"
      /\ c \notin Range(idle')
      /\ Range(idle') \ D \subseteq Range(idle)
  BY <1>1, <1>6, Zenon
<1> HIDE DEF D
<1>8. r.at \notin Between /\ r.at \in {"write", "put"} /\ r.at # "await" /\ r.at # "put"
  BY <1>2, Zenon DEF Between
<1>9. QED
  BY <1>0, <1>1, <1>2, <1>3, <1>4, <1>7, <1>8, OneCall, Zenon

LEMMA RoundtripEffect ==
  ASSUME LinkInv, NEW k \in Caller, roundtrip(k) \/ replied(k),
         UNCHANGED <<serverVars, mainVars>>
  PROVE  LinkInv'
<1>1. /\ call[k].at \in {"write", "await"} /\ call[k].at \notin Between
      /\ UNCHANGED <<handler, current, outside, idle, calls>>
  BY Zenon DEF roundtrip, replied, Between, serverVars, mainVars
<1>2. PICK c : c = call[k].conn
  BY Zenon
<1>3. /\ call[k] \in Call /\ c \in Conn /\ c # None /\ link[c] \in Wire
      /\ link[c].client = "open" /\ c \notin Range(idle) \cup outside
      /\ \A j \in Caller \ {k} : call[j].conn # c
  BY <1>1, <1>2, HeldConnection, Zenon
<1>4. /\ ServerSide /\ CallSide /\ Owned /\ link \in [Conn -> Wire]
      /\ idle \in Seq(Conn) /\ IsInjective(idle) /\ calls \in 0 .. MaxCalls
      /\ handler \in [Conn -> Handler]
  BY Zenon DEF LinkInv, ServerSide, CallSide, Apart
<1>5. sent(call[k]) \in Message /\ sent(call[k]) = command(k)
  BY <1>3 DEF sent, command, Message, Call
<1>6. \E r \in Call : /\ r.at \in {"await", "put"} /\ r.conn = c
                      /\ call' = [call EXCEPT ![k] = r]
                      /\ r.at = "await" => Carries(c, sent(r))'
                      /\ r.at = "put" => Quiet(c)' /\ r.reply = sent(r)
                      /\ link' \in [Conn -> Wire]
                      /\ \A d \in Conn \ {c} : link'[d] = link[d]
                      /\ link'[c].client = "open" /\ link'[c].server = link[c].server
  <2>1. CASE roundtrip(k)
    <3>1. PICK r : r = [call[k] EXCEPT !.at = "await"]
      BY Zenon
    <3>2. /\ r \in Call /\ r.at = "await" /\ r.conn = c /\ sent(r) = sent(call[k])
          /\ call' = [call EXCEPT ![k] = r]
      BY <1>2, <1>3, <1>4, <2>1, <3>1, Zenon DEF roundtrip, Call, sent, CallSide
    <3>3. Quiet(c)
      BY <1>2, <1>4, <2>1, Zenon DEF roundtrip, Owned
    <3>4. CASE link' = link
      <4>1. Quiet(c)'
        BY <1>1, <3>3, <3>4, Zenon DEF Quiet
      <4>2. QED
        BY <1>3, <1>4, <3>2, <3>4, <4>1, Zenon DEF Carries
    <3>5. CASE link' = [link EXCEPT ![c].up = Append(@, command(k))]
      <4>1. Append(link[c].up, command(k)) = <<sent(r)>>
        BY <1>5, <3>2, <3>3 DEF Quiet
      <4>2. <<sent(r)>> \in Seq(Message)
        BY <1>5, <3>2
      <4>3. link' = [link EXCEPT ![c] = [link[c] EXCEPT !.up = <<sent(r)>>]]
        BY <1>4, <3>5, <4>1, Zenon
      <4>4. /\ link' \in [Conn -> Wire]
            /\ \A d \in Conn \ {c} : link'[d] = link[d]
            /\ link'[c].up = <<sent(r)>> /\ link'[c].down = link[c].down
            /\ link'[c].client = link[c].client /\ link'[c].server = link[c].server
        BY <1>3, <1>4, <4>2, <4>3, Zenon DEF Wire
      <4>5. Carries(c, sent(r))'
        BY <1>1, <3>3, <4>4, Zenon DEF Quiet, Carries
      <4>6. QED
        BY <1>3, <3>2, <4>4, <4>5, Zenon
    <3>6. QED
      BY <1>2, <2>1, <3>4, <3>5, Zenon DEF roundtrip
  <2>2. CASE replied(k)
    <3>1. PICK r : r = [call[k] EXCEPT !.at = "put", !.reply = Head(link[c].down)]
      BY Zenon
    <3>2. Carries(c, sent(call[k])) /\ link[c].down # <<>>
      BY <1>2, <1>4, <2>2, Zenon DEF replied, Owned
    <3>3. /\ link[c].up = <<>> /\ link[c].down = <<sent(call[k])>>
          /\ handler[c] \notin Busy
      BY <3>2, Zenon DEF Carries, Quiet
    <3>4. Head(link[c].down) = sent(call[k]) /\ Tail(link[c].down) = <<>>
      BY <3>3
    <3>5. /\ r \in Call /\ r.at = "put" /\ r.conn = c /\ r.reply = sent(r)
          /\ call' = [call EXCEPT ![k] = r]
      BY <1>2, <1>3, <1>4, <1>5, <2>2, <3>1, <3>4, Zenon DEF replied, Call, sent, CallSide
    <3>6. link' = [link EXCEPT ![c] = [link[c] EXCEPT !.down = <<>>]]
      BY <1>2, <1>4, <2>2, <3>4, Zenon DEF replied
    <3>7. /\ link' \in [Conn -> Wire]
          /\ \A d \in Conn \ {c} : link'[d] = link[d]
          /\ link'[c].up = link[c].up /\ link'[c].down = <<>>
          /\ link'[c].client = link[c].client /\ link'[c].server = link[c].server
      <4>1. <<>> \in Seq(Message)
        OBVIOUS
      <4>2. QED
        BY <1>3, <1>4, <3>6, <4>1, Zenon DEF Wire
    <3>8. Quiet(c)'
      BY <1>1, <3>3, <3>7, Zenon DEF Quiet
    <3>9. QED
      BY <1>3, <3>5, <3>7, <3>8, Zenon
  <2>3. QED
    BY <2>1, <2>2, Zenon
<1>7. PICK r \in Call : /\ r.at \in {"await", "put"} /\ r.conn = c
                        /\ call' = [call EXCEPT ![k] = r]
                        /\ r.at = "await" => Carries(c, sent(r))'
                        /\ r.at = "put" => Quiet(c)' /\ r.reply = sent(r)
                        /\ link' \in [Conn -> Wire]
                        /\ \A d \in Conn \ {c} : link'[d] = link[d]
                        /\ link'[c].client = "open" /\ link'[c].server = link[c].server
  BY <1>6, Zenon
<1> DEFINE D == {c}
<1>8. /\ D \in SUBSET Conn /\ D \cap outside = {} /\ Range(idle') \cap D = {}
      /\ c \in D
      /\ \A j \in Caller \ {k} : call[j].conn \notin D
      /\ \A d \in Conn \ D : link'[d] = link[d]
      /\ \A d \in D : link'[d].server = "queued" => handler[d] = "none"
      /\ c \notin Range(idle')
      /\ Range(idle') \ D \subseteq Range(idle)
  BY <1>1, <1>3, <1>4, <1>7 DEF ServerSide
<1> HIDE DEF D
<1>9. r.at \notin Between /\ (r.at \in {"write", "put"} => r.at = "put")
  BY <1>7, Zenon DEF Between
<1>10. QED
  BY <1>1, <1>3, <1>4, <1>7, <1>8, <1>9, OneCall, Zenon

LEMMA PutEffect ==
  ASSUME LinkInv, NEW k \in Caller, put(k), UNCHANGED <<serverVars, mainVars>>
  PROVE  LinkInv'
<1>1. /\ call[k].at = "put" /\ call[k].at \notin Between
      /\ call' = [call EXCEPT ![k] = ready]
      /\ UNCHANGED <<handler, current, outside, calls>>
  BY Zenon DEF put, finish, Between, serverVars, mainVars
<1>2. CASE /\ link' = [link EXCEPT ![call[k].conn] = closeClient(link[call[k].conn])]
           /\ idle' = idle
  BY <1>1, <1>2, CallEnds, ReadyCall, Zenon DEF Between
<1>3. CASE idle' = Append(idle, call[k].conn) /\ link' = link
  <2>1. PICK c : c = call[k].conn
    BY Zenon
  <2>2. /\ c \in Conn /\ c # None /\ link[c].client = "open"
        /\ c \notin Range(idle) \cup outside
        /\ \A j \in Caller \ {k} : call[j].conn # c
    BY <1>1, <2>1, HeldConnection, Zenon
  <2>3. /\ ServerSide /\ CallSide /\ Owned /\ link \in [Conn -> Wire]
        /\ idle \in Seq(Conn) /\ IsInjective(idle) /\ calls \in 0 .. MaxCalls
    BY Zenon DEF LinkInv, ServerSide, CallSide, Apart
  <2>4. Quiet(c)
    BY <1>1, <2>1, <2>3, Zenon DEF Owned
  <2>5. Quiet(c)'
    BY <1>1, <1>3, <2>4, Zenon DEF Quiet
  <2>6. /\ idle' \in Seq(Conn) /\ IsInjective(idle')
        /\ Range(idle') = Range(idle) \cup {c}
    BY <1>3, <2>1, <2>2, <2>3, PutWarm, Zenon
  <2>7. PICK r \in Call : r = ready
    BY ReadyCall, Zenon
  <2>8. r.conn = None /\ r.at = "ready" /\ call' = [call EXCEPT ![k] = r]
    BY <1>1, <2>7, ReadyCall, Zenon
  <2> DEFINE D == {c}
  <2>9. /\ D \in SUBSET Conn /\ D \cap outside = {}
        /\ \A j \in Caller \ {k} : call[j].conn \notin D
        /\ \A d \in Conn \ D : link'[d] = link[d]
        /\ \A d \in D : link'[d].server = "queued" => handler[d] = "none"
        /\ Range(idle') \ D \subseteq Range(idle)
        /\ \A d \in Range(idle') \cap D : Quiet(d)' /\ link'[d].client = "open"
    BY <1>1, <1>3, <2>2, <2>3, <2>5, <2>6, Zenon DEF ServerSide
  <2> HIDE DEF D
  <2>10. /\ r.at \in Between /\ r.at \notin {"write", "put"}
         /\ r.at # "await" /\ r.at # "put"
    BY <2>8, Zenon DEF Between
  <2>11. link' \in [Conn -> Wire] /\ calls' \in 0 .. MaxCalls
         /\ UNCHANGED <<handler, current, outside>>
    BY <1>1, <1>3, <2>3, Zenon
  <2>12. QED
    BY <2>6, <2>8, <2>9, <2>10, <2>11, OneCall, Zenon
<1>4. QED
  BY <1>2, <1>3, Zenon DEF put

(* The calls that end, and a loop that stops. *)
LEMMA EndEffect ==
  ASSUME LinkInv, NEW k \in Caller,
         \/ roundtripFails(k) /\ UNCHANGED <<serverVars, mainVars>>
         \/ dialFails(k) /\ UNCHANGED <<serverVars, mainVars>>
         \/ loopStops(k)
  PROVE  LinkInv'
<1>0. call[k] \in Call /\ call \in [Caller -> Call]
      /\ (call[k].conn = None <=> call[k].at \in Between)
  BY Zenon DEF LinkInv, CallSide
<1>1. CASE roundtripFails(k) /\ UNCHANGED <<serverVars, mainVars>>
  <2>1. /\ call[k].at \in {"write", "await"} /\ call[k].at \notin Between
        /\ link' = [link EXCEPT ![call[k].conn] = closeClient(link[call[k].conn])]
        /\ UNCHANGED <<handler, current, outside, idle, calls>>
    BY <1>1, Zenon DEF roundtripFails, finish, Between, serverVars, mainVars
  <2>2. \E r \in Call : /\ r.conn = None /\ r.at \in {"dial", "ready"}
                        /\ call' = [call EXCEPT ![k] = r]
    <3>1. CASE call[k].pooled
      <4>1. call' = [call EXCEPT ![k] = [call[k] EXCEPT !.at = "dial", !.conn = None]]
        BY <1>0, <1>1, <3>1, Zenon DEF roundtripFails, Call
      <4>2. QED
        BY <1>0, <4>1, Zenon DEF Call
    <3>2. CASE ~call[k].pooled
      BY <1>1, <3>2, ReadyCall, Zenon DEF roundtripFails, finish
    <3>3. QED
      BY <3>1, <3>2, Zenon
  <2>3. QED
    BY <2>1, <2>2, CallEnds, Zenon DEF Between
<1>2. CASE dialFails(k) /\ UNCHANGED <<serverVars, mainVars>>
  <2>1. /\ call' = [call EXCEPT ![k] = ready]
        /\ link' = link /\ UNCHANGED <<handler, current, outside, idle, calls>>
    BY <1>2, Zenon DEF dialFails, finish, serverVars, mainVars
  <2>2. QED
    BY <2>1, CallEnds, ReadyCall, Zenon DEF Between
<1>3. CASE loopStops(k)
  <2>1. /\ call[k].at = "ready"
        /\ call' = [call EXCEPT ![k] = [call[k] EXCEPT !.at = "stopped"]]
        /\ link' = link /\ UNCHANGED <<handler, current, outside, idle, calls>>
    BY <1>3, Zenon DEF loopStops, serverVars, mainVars
  <2>2. \E r \in Call : /\ r.conn = None /\ r.at = "stopped"
                        /\ call' = [call EXCEPT ![k] = r]
    BY <1>0, <2>1, Zenon DEF Call, Between
  <2>3. QED
    BY <2>1, <2>2, CallEnds, Zenon DEF Between
<1>4. QED
  BY <1>1, <1>2, <1>3, Zenon

-----------------------------------------------------------------------------
(* Steps of main, and of clients outside *)

LEMMA MainEffect ==
  ASSUME LinkInv, closePool \/ exit
  PROVE  LinkInv'
<1>0. /\ ServerSide /\ CallSide /\ Apart /\ Owned /\ None \notin Conn
      /\ link \in [Conn -> Wire] /\ Range(idle) \subseteq Conn
  BY PeerLinkAssumption DEF LinkInv, ServerSide, CallSide, Range
<1>1. /\ idle' = <<>> /\ UNCHANGED <<handler, current, outside, calls>>
      /\ \A d \in Conn : link'[d] \in {link[d], closeClient(link[d])}
      /\ link' \in [Conn -> Wire]
  <2>1. CASE closePool
    BY <1>0, <2>1, CloseTypes, Zenon DEF closePool, closeIdle, serverVars
  <2>2. CASE exit
    BY <1>0, <2>2, CloseTypes, Zenon DEF exit, serverVars
  <2>3. QED
    BY <2>1, <2>2, Zenon
<1>2. /\ idle' \in Seq(Conn) /\ Range(idle') = {} /\ IsInjective(idle')
  BY <1>1 DEF Range, IsInjective
<1>3. ServerSide'
  <2>1. \A d \in Conn : link'[d].server = "queued" => link[d].server = "queued"
    BY <1>0, <1>1, CloseTypes
  <2>2. QED
    BY <1>0, <1>1, <2>1, Zenon DEF ServerSide
<1>4. \A c \in outside : link'[c].client = "open"
  <2>1. \A c \in outside : c \in Conn /\ link[c].client = "open" /\ c \notin Range(idle)
    BY <1>0, Zenon DEF CallSide, Apart
  <2>2. \A c \in outside : link'[c] = link[c]
    BY <1>0, <2>1, Zenon DEF closePool, closeIdle, exit
  <2>3. QED
    BY <2>1, <2>2, Zenon
<1>5. CASE closePool
  <2>1. call' = call
    BY <1>5, Zenon DEF closePool
  <2>2. \A k \in Caller : call[k].conn # None =>
          call[k].conn \in Conn /\ link'[call[k].conn] = link[call[k].conn]
    BY <1>0, <1>5, Zenon DEF closePool, closeIdle, CallSide, Call, Apart
  <2>3. CallSide' /\ Apart'
    BY <1>0, <1>1, <1>2, <1>4, <2>1, <2>2, Zenon DEF CallSide, Apart
  <2>4. \A k \in Caller : call[k].conn # None =>
          /\ Quiet(call[k].conn) => Quiet(call[k].conn)'
          /\ \A m : Carries(call[k].conn, m) => Carries(call[k].conn, m)'
    BY <1>1, <2>1, <2>2, Zenon DEF Quiet, Carries
  <2>5. \A k \in Caller : call[k].at \in {"write", "put", "await"} => call[k].conn # None
    BY <1>0, Zenon DEF CallSide, Between
  <2>6. Owned'
    BY <1>0, <1>2, <2>1, <2>4, <2>5, Zenon DEF Owned, sent
  <2>7. QED
    BY <1>3, <2>3, <2>6, Zenon DEF LinkInv
<1>6. CASE exit
  <2>1. call' \in [Caller -> Call]
        /\ \A k \in Caller : call'[k].conn = None /\ call'[k].at = "stopped"
    BY <1>6, ReadyCall, Zenon DEF exit
  <2>2. CallSide'
    BY <1>0, <1>1, <1>2, <2>1, Zenon DEF CallSide, Between
  <2>3. Apart'
    BY <1>0, <1>1, <1>2, <1>4, <2>1 DEF Apart, CallSide
  <2>4. Owned'
    BY <1>2, <2>1, Zenon DEF Owned
  <2>5. QED
    BY <1>3, <2>2, <2>3, <2>4, Zenon DEF LinkInv
<1>7. QED
  BY <1>5, <1>6, Zenon

(* A client outside opens or closes the connection c. *)
LEMMA OutsideEffect ==
  ASSUME LinkInv, NEW c \in Conn, hangUp(c) \/ \E kind \in {"notCommand", "broken"} : visit(c, kind)
  PROVE  LinkInv'
<1>0. /\ ServerSide /\ CallSide /\ Apart /\ Owned /\ None \notin Conn
      /\ link \in [Conn -> Wire] /\ link[c] \in Wire /\ outside \subseteq Conn
      /\ Range(idle) \subseteq Conn
  BY PeerLinkAssumption DEF LinkInv, ServerSide, CallSide, Range
<1>1. UNCHANGED <<handler, current, idle, call, calls>>
  BY Zenon DEF hangUp, visit, serverVars, poolVars
<1>2. /\ c \notin Range(idle) /\ \A k \in Caller : call[k].conn # c
      /\ link' \in [Conn -> Wire] /\ \A d \in Conn \ {c} : link'[d] = link[d]
      /\ outside' \subseteq Conn /\ outside' \ {c} \subseteq outside
      /\ c \in outside' => link'[c].client = "open"
      /\ link'[c].server = "queued" => handler[c] = "none"
  <2>1. CASE hangUp(c)
    <3>1. /\ c \in outside /\ outside' = outside \ {c}
          /\ link' = [link EXCEPT ![c] = closeClient(link[c])]
      BY <2>1, Zenon DEF hangUp
    <3>2. closeClient(link[c]) \in Wire
          /\ (closeClient(link[c]).server = "queued" => link[c].server = "queued")
      BY <1>0, CloseTypes, Zenon
    <3>3. link' \in [Conn -> Wire] /\ link'[c] = closeClient(link[c])
          /\ \A d \in Conn \ {c} : link'[d] = link[d]
      BY <1>0, <3>1, <3>2, Zenon
    <3>4. c \notin Range(idle) /\ \A k \in Caller : call[k].conn # c
      BY <1>0, <3>1, Zenon DEF Apart
    <3>5. link'[c].server = "queued" => handler[c] = "none"
      BY <1>0, <3>2, <3>3, Zenon DEF ServerSide
    <3>6. QED
      BY <1>0, <3>1, <3>3, <3>4, <3>5, Zenon
  <2>2. ASSUME NEW kind \in {"notCommand", "broken"}, visit(c, kind)
        PROVE  /\ c \notin Range(idle) /\ \A k \in Caller : call[k].conn # c
               /\ link' \in [Conn -> Wire] /\ \A d \in Conn \ {c} : link'[d] = link[d]
               /\ outside' \subseteq Conn /\ outside' \ {c} \subseteq outside
               /\ c \in outside' => link'[c].client = "open"
               /\ link'[c].server = "queued" => handler[c] = "none"
    <3>1. /\ link[c] = Free /\ handler[c] = "none" /\ outside' = outside \cup {c}
          /\ link' = [link EXCEPT ![c] = [Dialed EXCEPT !.up = <<[kind |-> kind]>>]]
      BY <2>2, Zenon DEF visit, opens
    <3>2. [kind |-> kind] \in Message
      BY <2>2, Zenon DEF Message
    <3>3. <<[kind |-> kind]>> \in Seq(Message)
      BY <3>2
    <3>4. /\ [Dialed EXCEPT !.up = <<[kind |-> kind]>>] \in Wire
          /\ [Dialed EXCEPT !.up = <<[kind |-> kind]>>].client = "open"
      BY <3>3, FreeTypes, Zenon DEF Dialed, Free, Wire
    <3>5. /\ link' \in [Conn -> Wire] /\ link'[c].client = "open"
          /\ \A d \in Conn \ {c} : link'[d] = link[d]
      BY <1>0, <3>1, <3>4, Zenon
    <3>6. link[c].client # "open"
      BY <3>1 DEF Free
    <3>7. c \notin Range(idle) /\ \A k \in Caller : call[k].conn # c
      BY <1>0, <3>6, Zenon DEF Apart
    <3>8. QED
      BY <1>0, <3>1, <3>5, <3>7, Zenon
  <2>3. QED
    BY <2>1, <2>2, Zenon
<1>3. ServerSide' /\ CallSide'
  BY <1>0, <1>1, <1>2, Zenon DEF ServerSide, CallSide
<1>4. \A k \in Caller : call[k].conn # None => call[k].conn \in Conn \ {c}
  BY <1>0, <1>2, Zenon DEF CallSide, Call
<1>5. Apart'
  <2>1. \A d \in Range(idle) \cup outside' :
          link'[d].client = "open" /\ \A k \in Caller : call[k].conn # d
    BY <1>0, <1>2 DEF Apart
  <2>2. QED
    BY <1>0, <1>1, <1>2, <1>4, <2>1 DEF Apart
<1>6. \A d \in Conn \ {c} : /\ Quiet(d) => Quiet(d)'
                            /\ \A m : Carries(d, m) => Carries(d, m)'
  BY <1>1, <1>2, Zenon DEF Quiet, Carries
<1>7. \A k \in Caller : call[k].at \in {"write", "put", "await"} => call[k].conn \in Conn \ {c}
  BY <1>0, <1>4, Zenon DEF CallSide, Between
<1>8. Owned'
  <2>1. \A d \in Range(idle) : Quiet(d)'
    BY <1>0, <1>2, <1>6, Zenon DEF Owned
  <2>2. QED
    BY <1>0, <1>1, <1>6, <1>7, <2>1, Zenon DEF Owned, sent
<1>9. QED
  BY <1>3, <1>5, <1>8, Zenon DEF LinkInv

(* A server step, or a step that leaves both sides alone. *)
LEMMA KeepsCalls ==
  ASSUME LinkInv, ServerSide', Undisturbed,
         UNCHANGED <<idle, call, calls, outside>>
  PROVE  LinkInv'
<1>0. /\ CallSide /\ Apart /\ Owned /\ None \notin Conn
      /\ outside \subseteq Conn /\ Range(idle) \subseteq Conn
  BY PeerLinkAssumption DEF LinkInv, CallSide, Range
<1>1. CallSide'
  BY <1>0, Zenon DEF CallSide
<1>2. \A k \in Caller : call[k].conn # None =>
        call[k].conn \in Conn /\ link[call[k].conn].client = "open"
  BY <1>0, Zenon DEF CallSide, Call, Apart
<1>3. Apart'
  BY <1>0, <1>2, Zenon DEF Apart, Undisturbed
<1>4. \A k \in Caller : call[k].at \in {"write", "put", "await"} => call[k].conn # None
  BY <1>0, Zenon DEF CallSide, Between
<1>5. \A k \in Caller : sent(call[k]) \in Message /\ sent(call[k]).kind = "command"
  BY <1>0 DEF CallSide, Call, sent, Message
<1>6. \A d \in Conn : link[d].client = "open" => (Quiet(d) => Quiet(d)')
  BY Zenon DEF Undisturbed
<1>7. \A d \in Conn, m \in Message :
        link[d].client = "open" /\ m.kind = "command" /\ Carries(d, m) => Carries(d, m)'
  BY Zenon DEF Undisturbed
<1>8. \A d \in Range(idle) : Quiet(d)'
  BY <1>0, <1>6, Zenon DEF Owned, Apart
<1>9. ASSUME NEW k \in Caller
      PROVE  /\ call'[k].at \in {"write", "put"} => Quiet(call[k].conn)'
             /\ call'[k].at = "await" => Carries(call[k].conn, sent(call[k]))'
             /\ call'[k].at = "put" => call'[k].reply = sent(call'[k])
  <2>1. call'[k].at \in {"write", "put"} => Quiet(call[k].conn)'
    BY <1>0, <1>2, <1>4, <1>6, Zenon DEF Owned
  <2>2. ASSUME call[k].at = "await"
        PROVE  Carries(call[k].conn, sent(call[k]))'
    <3>1. Carries(call[k].conn, sent(call[k]))
      BY <1>0, <2>2, Zenon DEF Owned
    <3>2. PICK d, m : d = call[k].conn /\ m = sent(call[k])
      BY Zenon
    <3>3. Carries(d, m)'
      BY <1>2, <1>4, <1>5, <1>7, <2>2, <3>1, <3>2, Zenon
    <3>4. QED
      BY <3>2, <3>3, Zenon DEF sent
  <2>3. call'[k].at = "put" => call'[k].reply = sent(call'[k])
    BY <1>0, Zenon DEF Owned, sent
  <2>4. QED
    BY <2>1, <2>2, <2>3, Zenon
<1>10. Owned'
  BY <1>8, <1>9, Zenon DEF Owned
<1>11. QED
  BY <1>1, <1>3, <1>10, Zenon DEF LinkInv

LEMMA LinkStep ==
  ASSUME LinkInv, [Next]_vars
  PROVE  LinkInv'
<1>0. ServerSide
  BY Zenon DEF LinkInv
<1>1. CASE ServerNext
  <2>1. UNCHANGED <<idle, call, calls, outside>>
    BY <1>1, Zenon DEF ServerNext, Rest, poolVars, mainVars
  <2>2. QED
    BY <1>0, <1>1, <2>1, ServerEffect, KeepsCalls, Zenon
<1>2. CASE PoolNext
  BY <1>2, GetIdleEffect, DialEffect, RoundtripEffect, PutEffect, EndEffect, Zenon DEF PoolNext
<1>3. CASE stop \/ UNCHANGED vars
  <2>1. UNCHANGED <<link, handler, current, idle, call, calls, outside>>
    BY <1>3, Zenon DEF stop, vars, serverVars, poolVars, mainVars
  <2>2. QED
    BY <1>0, <2>1, NothingMoves, KeepsCalls, Zenon
<1>4. QED
  BY <1>1, <1>2, <1>3, MainEffect, OutsideEffect, Zenon DEF Next

LEMMA LinkInvariant == Spec => []LinkInv
<1>1. Init => LinkInv
  <2> SUFFICES ASSUME Init PROVE LinkInv
    BY Zenon
  <2>1. ServerSide
    BY FreeTypes, Zenon DEF Init, ServerInit, ServerSide, Handler, Busy
  <2>2. CallSide
    BY ReadyCall, PeerLinkAssumption DEF Init, PoolInit, CallSide, Between
  <2>3. Range(idle) = {} /\ IsInjective(idle)
    BY DEF Init, PoolInit, Range, IsInjective
  <2>4. Apart
    BY <2>3, ReadyCall, Zenon DEF Init, PoolInit, Apart
  <2>5. Owned
    BY <2>3, ReadyCall, Zenon DEF Init, PoolInit, Owned
  <2>6. QED
    BY <2>1, <2>2, <2>4, <2>5, Zenon DEF LinkInv
<1>2. LinkInv /\ [Next]_vars => LinkInv'
  BY LinkStep, Zenon
<1>3. QED
  BY <1>1, <1>2, PTL DEF Spec

(* A call only ever returns the reply to its own command, however many     *)
(* callers share the pool and whatever was abandoned before (do, put).     *)
THEOREM RepliesAlwaysMatch == Spec => []RepliesMatch
<1>1. LinkInv => RepliesMatch
  BY Zenon DEF LinkInv, Owned, RepliesMatch, sent, command
<1>2. QED
  BY <1>1, LinkInvariant, PTL

(* Nothing is ever under way on a warm connection, and it is in the pool   *)
(* once and held by no caller (getIdle, put against handleConn).           *)
THEOREM WarmConnectionsAreQuiet == Spec => []IdleIsQuiescent
<1>1. LinkInv => IdleIsQuiescent
  BY Zenon DEF LinkInv, Apart, Owned, Quiet, Busy, IdleIsQuiescent
<1>2. QED
  BY <1>1, LinkInvariant, PTL

-----------------------------------------------------------------------------
(* The wait group and the slots *)

Outside(X) == {c \in Conn : handler[c] \notin X}

Rests == {"none", "accepted"}
Spare == {"none", "released"}

(* The wait group counts the goroutines started, and what Close needs. *)
Counting ==
  /\ serve \in {"acquire", "accept", "add", "failed", "closing", "returned"}
  /\ closed \in BOOLEAN
  /\ conns \subseteq Conn
  /\ closer \in [Closer -> {"idle", "waiting", "returned"}]
  /\ sem \in 0 .. MaxConns
  /\ wg = Cardinality(Outside(Rests))
  /\ \A p \in Closer : closer[p] # "idle" => closed
  /\ closer["serve"] = "waiting" => serve = "closing"

CountInv == Counting /\ SlotsAreAccounted /\ ClosedServesNothing

(* One goroutine's move adds at most one to a count, or takes it away. *)
LEMMA Recount ==
  ASSUME NEW X, NEW c \in Conn, NEW s, handler \in [Conn -> Handler],
         handler' = [handler EXCEPT ![c] = s]
  PROVE  /\ Cardinality(Outside(X)) \in Nat
         /\ c \in Outside(X) => Cardinality(Outside(X)) > 0
         /\ handler[c] \in X /\ s \notin X =>
              Cardinality(Outside(X)') = Cardinality(Outside(X)) + 1
         /\ handler[c] \notin X /\ s \in X =>
              Cardinality(Outside(X)') = Cardinality(Outside(X)) - 1
         /\ (handler[c] \in X <=> s \in X) => Outside(X)' = Outside(X)
<1>1. IsFiniteSet(Outside(X)) /\ Cardinality(Outside(X)) \in Nat
  BY PeerLinkAssumption, FS_Subset, FS_CardinalityType, Zenon DEF Outside
<1>2. c \in Outside(X) => Cardinality(Outside(X)) > 0
  BY <1>1, FS_EmptySet
<1>3. ASSUME handler[c] \in X, s \notin X
      PROVE  Cardinality(Outside(X)') = Cardinality(Outside(X)) + 1
  <2>1. Outside(X)' = Outside(X) \cup {c} /\ c \notin Outside(X)
    BY <1>3, Zenon DEF Outside
  <2>2. QED
    BY <1>1, <2>1, FS_AddElement, Zenon
<1>4. ASSUME handler[c] \notin X, s \in X
      PROVE  Cardinality(Outside(X)') = Cardinality(Outside(X)) - 1
  <2>1. Outside(X)' = Outside(X) \ {c} /\ c \in Outside(X)
    BY <1>4, Zenon DEF Outside
  <2>2. QED
    BY <1>1, <2>1, FS_RemoveElement, Zenon
<1>5. ASSUME handler[c] \in X <=> s \in X
      PROVE  Outside(X)' = Outside(X)
  BY <1>5, Zenon DEF Outside
<1>6. QED
  BY <1>1, <1>2, <1>3, <1>4, <1>5, Zenon

(* No goroutine begins to serve once a Close has returned. *)
LEMMA NoneBegins ==
  ASSUME ClosedServesNothing, Counting,
         \A p \in Closer : closer'[p] = "returned" => closer[p] = "returned",
         \A c \in Conn : handler'[c] \in Serving => handler[c] \in Serving \/ ~closed
  PROVE  ClosedServesNothing'
BY Zenon DEF ClosedServesNothing, Counting

(* A count of zero is a wait group without goroutines. *)
LEMMA NoneLeft ==
  ASSUME Counting, wg = 0
  PROVE  \A c \in Conn : handler[c] \notin Serving
<1>1. IsFiniteSet(Outside(Rests))
  BY PeerLinkAssumption, FS_Subset, Zenon DEF Outside
<1>2. Outside(Rests) = {}
  BY <1>1, FS_EmptySet, Zenon DEF Counting
<1>3. QED
  BY <1>2, Zenon DEF Outside, Rests, Serving

LEMMA States ==
  /\ "none" \in Rests /\ "accepted" \in Rests
  /\ "none" \in Spare /\ "released" \in Spare
  /\ "started" \notin Rests /\ "closing" \notin Rests /\ "released" \notin Rests
  /\ "accepted" \notin Spare /\ "started" \notin Spare /\ "closing" \notin Spare
  /\ \A s \in Handler \ {"none", "accepted", "released"} : s \notin Rests /\ s \notin Spare
BY Zenon DEF Rests, Spare

(* A goroutine's step that only moves it, with its effect on both counts. *)
LEMMA GoroutineStep ==
  ASSUME CountInv, ServerSide, NEW c \in Conn,
         \/ trackConn(c) \/ Decode(c) \/ decodeFails(c) \/ readDeadline(c)
         \/ Handle(c) \/ writeReply(c) \/ writeFails(c)
         \/ untrackConn(c) \/ connClose(c) \/ release(c) \/ wgDone(c)
  PROVE  CountInv'
<1>0. /\ Counting /\ SlotsAreAccounted /\ ClosedServesNothing
      /\ handler \in [Conn -> Handler] /\ MaxConns \in Nat
  BY ServerAssumption, Zenon DEF CountInv, ServerSide
<1>1. /\ UNCHANGED <<serve, closed, closer>>
      /\ conns' \subseteq Conn
  BY <1>0, Zenon DEF trackConn, Decode, decodeFails, readDeadline, Handle, writeReply, writeFails,
              untrackConn, connClose, release, wgDone, Counting
<1>2. CASE wgDone(c)
  <2>1. /\ handler[c] = "released" /\ handler' = [handler EXCEPT ![c] = "none"]
        /\ wg' = wg - 1 /\ sem' = sem
    BY <1>2, Zenon DEF wgDone, goto
  <2>2. Cardinality(Outside(Rests)') = Cardinality(Outside(Rests)) - 1
    BY <1>0, <2>1, Recount, States, Zenon
  <2>3. Outside(Spare)' = Outside(Spare)
    BY <1>0, <2>1, Recount, States, Zenon
  <2>4. SlotsAreAccounted'
    BY <1>0, <1>1, <2>1, <2>3, Zenon DEF SlotsAreAccounted, Outside, Spare
  <2>5. \A d \in Conn : handler'[d] \in Serving => handler[d] \in Serving
    BY <1>0, <2>1, Zenon DEF Serving
  <2>6. ClosedServesNothing'
    BY <1>0, <1>1, <2>5, NoneBegins, Zenon
  <2>7. Counting'
    BY <1>0, <1>1, <2>1, <2>2, Zenon DEF Counting
  <2>8. QED
    BY <2>4, <2>6, <2>7, Zenon DEF CountInv
<1>3. CASE release(c)
  <2>1. /\ handler[c] = "closing" /\ handler' = [handler EXCEPT ![c] = "released"]
        /\ wg' = wg /\ sem' = IF MaxConns > 0 THEN sem - 1 ELSE sem
    BY <1>3, Zenon DEF release, goto
  <2>2. Outside(Rests)' = Outside(Rests)
    BY <1>0, <2>1, Recount, States, Zenon
  <2>3. /\ Cardinality(Outside(Spare)') =
             Cardinality(Outside(Spare)) - 1
        /\ Cardinality(Outside(Spare)) \in Nat
        /\ Cardinality(Outside(Spare)) > 0
    BY <1>0, <2>1, Recount, States, Zenon DEF Outside
  <2>4. SlotsAreAccounted'
    BY <1>0, <1>1, <2>1, <2>3 DEF SlotsAreAccounted, Outside, Spare, Counting
  <2>5. \A d \in Conn : handler'[d] \in Serving => handler[d] \in Serving
    BY <1>0, <2>1, Zenon DEF Serving
  <2>6. ClosedServesNothing'
    BY <1>0, <1>1, <2>5, NoneBegins, Zenon
  <2>7. sem' \in 0 .. MaxConns
    BY <1>0, <2>1, <2>3 DEF SlotsAreAccounted, Outside, Spare, Counting
  <2>8. Counting'
    BY <1>0, <1>1, <2>1, <2>2, <2>7, Zenon DEF Counting
  <2>9. QED
    BY <2>4, <2>6, <2>8, Zenon DEF CountInv
<1>4. CASE ~wgDone(c) /\ ~release(c)
  <2>1. PICK s \in Handler \ {"none", "accepted", "released"} :
          /\ handler' = [handler EXCEPT ![c] = s]
          /\ handler[c] \notin {"none", "accepted", "released"}
          /\ s \in Serving => handler[c] \in Serving \/ ~closed
          /\ UNCHANGED <<wg, sem>>
    BY <1>4, Zenon DEF trackConn, Decode, decodeFails, gone, readDeadline, Handle, writeReply,
                writeFails, untrackConn, connClose, goto, Handler, Serving
  <2>2. /\ Outside(Rests)' = Outside(Rests)
        /\ Outside(Spare)' = Outside(Spare)
    BY <1>0, <2>1, Recount, States, Zenon
  <2>3. SlotsAreAccounted'
    BY <1>0, <1>1, <2>1, <2>2, Zenon DEF SlotsAreAccounted, Outside, Spare
  <2>4. \A d \in Conn : handler'[d] \in Serving => handler[d] \in Serving \/ ~closed
    BY <1>0, <2>1, Zenon
  <2>5. ClosedServesNothing'
    BY <1>0, <1>1, <2>4, NoneBegins, Zenon
  <2>6. Counting'
    BY <1>0, <1>1, <2>1, <2>2, Zenon DEF Counting
  <2>7. QED
    BY <2>3, <2>5, <2>6, Zenon DEF CountInv
<1>5. QED
  BY <1>2, <1>3, <1>4, Zenon

LEMMA AcceptCounts ==
  ASSUME CountInv, ServerSide, NEW c \in Conn, Accept(c) \/ wgAdd(c)
  PROVE  CountInv'
<1>0. /\ Counting /\ SlotsAreAccounted /\ ClosedServesNothing
      /\ handler \in [Conn -> Handler] /\ MaxConns \in Nat
  BY ServerAssumption, Zenon DEF CountInv, ServerSide
<1>1. /\ UNCHANGED <<closed, closer, conns, sem>>
      /\ closer["serve"] # "waiting"
  BY <1>0, Zenon DEF Accept, wgAdd, Counting
<1>2. PICK s \in {"accepted", "started"} : handler' = [handler EXCEPT ![c] = s]
  BY Zenon DEF Accept, wgAdd, goto
<1>3. \A d \in Conn : handler'[d] \in Serving => handler[d] \in Serving
  BY <1>0, <1>2, Zenon DEF Serving
<1>4. ClosedServesNothing'
  BY <1>0, <1>1, <1>3, NoneBegins, Zenon
<1>5. CASE Accept(c)
  <2>1. /\ handler[c] = "none" /\ handler' = [handler EXCEPT ![c] = "accepted"]
        /\ wg' = wg /\ serve = "accept" /\ serve' = "add"
    BY <1>5, Zenon DEF Accept, goto, ServerSide
  <2>2. Outside(Rests)' = Outside(Rests)
    BY <1>0, <2>1, Recount, States, Zenon
  <2>3. /\ Cardinality(Outside(Spare)') =
             Cardinality(Outside(Spare)) + 1
        /\ Cardinality(Outside(Spare)) \in Nat
    BY <1>0, <2>1, Recount, States, Zenon
  <2>4. SlotsAreAccounted'
    BY <1>0, <1>1, <2>1, <2>3 DEF SlotsAreAccounted, Outside, Spare
  <2>5. Counting'
    BY <1>0, <1>1, <2>1, <2>2, Zenon DEF Counting
  <2>6. QED
    BY <1>4, <2>4, <2>5, Zenon DEF CountInv
<1>6. CASE wgAdd(c)
  <2>1. /\ handler[c] = "accepted" /\ handler' = [handler EXCEPT ![c] = "started"]
        /\ wg' = wg + 1 /\ serve = "add" /\ serve' = "acquire"
    BY <1>6, Zenon DEF wgAdd, goto
  <2>2. Cardinality(Outside(Rests)') = Cardinality(Outside(Rests)) + 1
    BY <1>0, <2>1, Recount, States, Zenon
  <2>3. Outside(Spare)' = Outside(Spare)
    BY <1>0, <2>1, Recount, States, Zenon
  <2>4. SlotsAreAccounted'
    BY <1>0, <1>1, <2>1, <2>3, Zenon DEF SlotsAreAccounted, Outside, Spare
  <2>5. Counting'
    BY <1>0, <1>1, <2>1, <2>2, Zenon DEF Counting
  <2>6. QED
    BY <1>4, <2>4, <2>5, Zenon DEF CountInv
<1>7. QED
  BY <1>5, <1>6, Zenon

(* The accept loop and Close move no goroutine. *)
LEMMA LoopCounts ==
  ASSUME CountInv,
         \/ acquire \/ acceptFails \/ isClosing
         \/ \E p \in Closer : Close(p) \/ wgWait(p)
         \/ UNCHANGED serverVars
  PROVE  CountInv'
<1>0. /\ Counting /\ SlotsAreAccounted /\ ClosedServesNothing /\ MaxConns \in Nat
      /\ Cardinality({c \in Conn : handler[c] \notin {"none", "released"}}) \in Nat
  <2>1. IsFiniteSet({c \in Conn : handler[c] \notin {"none", "released"}})
    BY PeerLinkAssumption, FS_Subset, Zenon
  <2>2. QED
    BY <2>1, ServerAssumption, FS_CardinalityType, Zenon DEF CountInv
<1>1. UNCHANGED <<handler, wg, conns>> /\ Outside(Rests)' = Outside(Rests)
  BY Zenon DEF acquire, acceptFails, isClosing, Close, wgWait, serverVars, Outside
<1>2. CASE acquire \/ acceptFails \/ isClosing \/ UNCHANGED serverVars
  <2>1. UNCHANGED <<closer, closed>>
    BY <1>2, Zenon DEF acquire, acceptFails, isClosing, serverVars
  <2>2. ClosedServesNothing'
    BY <1>0, <1>1, <2>1, Zenon DEF ClosedServesNothing
  <2>3. SlotsAreAccounted'
    BY <1>0, <1>1, <1>2 DEF acquire, acceptFails, isClosing, serverVars, SlotsAreAccounted, Counting
  <2>4. Counting'
    BY <1>0, <1>1, <1>2, <2>1 DEF acquire, acceptFails, isClosing, serverVars, Counting
  <2>5. QED
    BY <2>2, <2>3, <2>4, Zenon DEF CountInv
<1>3. ASSUME NEW p \in Closer, Close(p)
      PROVE  CountInv'
  <2>1. /\ closed' = TRUE /\ closer' = [closer EXCEPT ![p] = "waiting"]
        /\ UNCHANGED <<serve, sem>>
        /\ p = "serve" => serve = "closing"
    BY <1>3, Zenon DEF Close
  <2>2. ClosedServesNothing'
    BY <1>0, <1>1, <2>1, Zenon DEF ClosedServesNothing, Counting
  <2>3. SlotsAreAccounted'
    BY <1>0, <1>1, <2>1, Zenon DEF SlotsAreAccounted
  <2>4. Counting'
    BY <1>0, <1>1, <2>1, Zenon DEF Counting, Closer
  <2>5. QED
    BY <2>2, <2>3, <2>4, Zenon DEF CountInv
<1>4. ASSUME NEW p \in Closer, wgWait(p)
      PROVE  CountInv'
  <2>1. /\ wg = 0 /\ closer[p] = "waiting" /\ closer' = [closer EXCEPT ![p] = "returned"]
        /\ UNCHANGED <<sem, closed>> /\ serve' = IF p = "serve" THEN "returned" ELSE serve
    BY <1>4, Zenon DEF wgWait
  <2>2. ClosedServesNothing'
    BY <1>0, <1>1, <2>1, NoneLeft, Zenon DEF ClosedServesNothing
  <2>3. serve \in {"acquire", "add"} <=> serve' \in {"acquire", "add"}
    BY <1>0, <2>1, Zenon DEF Counting
  <2>4. SlotsAreAccounted'
    BY <1>0, <1>1, <2>1, <2>3, Zenon DEF SlotsAreAccounted
  <2>5. Counting'
    BY <1>0, <1>1, <2>1, Zenon DEF Counting, Closer
  <2>6. QED
    BY <2>2, <2>4, <2>5, Zenon DEF CountInv
<1>5. QED
  BY <1>2, <1>3, <1>4, Zenon

LEMMA CountInvariant == Spec => []CountInv
<1>1. Init => CountInv
  <2> SUFFICES ASSUME Init PROVE CountInv
    BY Zenon
  <2>1. /\ Outside(Rests) = {} /\ Cardinality({}) = 0
        /\ {c \in Conn : handler[c] \notin {"none", "released"}} = {}
    BY FS_EmptySet, Zenon DEF Init, ServerInit, Outside, Rests
  <2>2. Counting
    <3>1. 0 \in 0 .. MaxConns
      BY ServerAssumption
    <3>2. closer \in [Closer -> {"idle", "waiting", "returned"}] /\ "serve" \in Closer
      BY Zenon DEF Init, ServerInit, Closer
    <3>3. QED
      BY <2>1, <3>1, <3>2, Zenon DEF Init, ServerInit, Counting
  <2>3. SlotsAreAccounted
    BY <2>1 DEF Init, ServerInit, SlotsAreAccounted
  <2>4. ClosedServesNothing
    BY Zenon DEF Init, ServerInit, ClosedServesNothing, Serving
  <2>5. QED
    BY <2>2, <2>3, <2>4, Zenon DEF CountInv
<1>2. CountInv /\ LinkInv /\ [Next]_vars => CountInv'
  <2> SUFFICES ASSUME CountInv, LinkInv, [Next]_vars
               PROVE  CountInv'
    BY Zenon
  <2>1. ServerSide
    BY Zenon DEF LinkInv
  <2>2. CASE ServerNext
    BY <2>1, <2>2, GoroutineStep, AcceptCounts, LoopCounts, Zenon DEF ServerNext
  <2>3. CASE ~ServerNext
    <3>1. UNCHANGED serverVars
      BY <2>3, Zenon DEF Next, PoolNext, loopStops, stop, closePool, exit, hangUp, visit, vars
    <3>2. QED
      BY <3>1, LoopCounts, Zenon
  <2>4. QED
    BY <2>2, <2>3, Zenon
<1>3. QED
  BY <1>1, <1>2, LinkInvariant, PTL DEF Spec

(* Once a Close has returned, no connection is served, however accepting,  *)
(* starting and closing interleave (Serve, handleConn, Close).             *)
THEOREM ClosedMeansUnserved == Spec => []ClosedServesNothing
<1>1. CountInv => ClosedServesNothing
  BY Zenon DEF CountInv
<1>2. QED
  BY <1>1, CountInvariant, PTL

(* Slots are never lost nor handed out twice, for every limit and any      *)
(* number of connections (acquire, release).                               *)
THEOREM SlotsStayAccounted == Spec => []SlotsAreAccounted
<1>1. CountInv => SlotsAreAccounted
  BY Zenon DEF CountInv
<1>2. QED
  BY <1>1, CountInvariant, PTL

MainSide ==
  /\ main \in {"running", "stopping", "poolClosed", "exited"}
  /\ visits \in 0 .. MaxOutside

(* Type correctness: in particular the channel of slots never overflows or *)
(* underflows, and the wait group's counter never goes negative.           *)
THEOREM LinkTypeCorrect == Spec => []TypeOK
<1>1. Init => MainSide
  BY PeerLinkAssumption DEF Init, MainSide
<1>2. MainSide /\ [Next]_vars => MainSide'
  <2> SUFFICES ASSUME MainSide, [Next]_vars
               PROVE  MainSide'
    BY Zenon
  <2>1. CASE \E c \in Conn, kind \in {"notCommand", "broken"} : visit(c, kind)
    BY <2>1, PeerLinkAssumption DEF visit, MainSide
  <2>2. CASE ServerNext \/ PoolNext \/ \E c \in Conn : hangUp(c)
    <3>1. UNCHANGED <<main, visits>>
      BY <2>2, Zenon DEF ServerNext, Rest, PoolNext, loopStops, hangUp, mainVars
    <3>2. QED
      BY <3>1, Zenon DEF MainSide
  <2>3. CASE stop \/ closePool \/ exit \/ UNCHANGED vars
    BY <2>3, Zenon DEF stop, closePool, exit, vars, mainVars, MainSide
  <2>4. QED
    BY <2>1, <2>2, <2>3, Zenon DEF Next
<1>3. LinkInv /\ CountInv /\ MainSide => TypeOK
  <2> SUFFICES ASSUME LinkInv, CountInv, MainSide
               PROVE  TypeOK
    BY Zenon
  <2>1. wg \in 0 .. Cardinality(Conn)
    <3>1. Outside(Rests) \subseteq Conn /\ IsFiniteSet(Conn)
      BY PeerLinkAssumption, Zenon DEF Outside
    <3>2. /\ Cardinality(Outside(Rests)) <= Cardinality(Conn)
          /\ Cardinality(Outside(Rests)) \in Nat /\ Cardinality(Conn) \in Nat
      BY <3>1, FS_Subset, FS_CardinalityType, Zenon
    <3>3. QED
      BY <3>2 DEF CountInv, Counting
  <2>2. ServerTypeOK
    BY <2>1, Zenon DEF LinkInv, ServerSide, Handler, CountInv, Counting, ServerTypeOK
  <2>3. PoolTypeOK
    BY Zenon DEF LinkInv, CallSide, Call, PoolTypeOK
  <2>4. QED
    BY <2>2, <2>3, Zenon DEF LinkInv, CallSide, MainSide, TypeOK
<1>4. QED
  BY <1>1, <1>2, <1>3, LinkInvariant, CountInvariant, PTL DEF Spec
=============================================================================
