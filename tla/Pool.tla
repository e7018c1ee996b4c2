-------------------------------- MODULE Pool --------------------------------
(***************************************************************************)
(* The peer client's pool (internal/server/peer.go), for one peer: calls   *)
(* take a warm connection or dial, and put a healthy one back.             *)
(***************************************************************************)
EXTENDS Link, Functions

CONSTANTS Caller,          \* goroutines that call the peer
          MaxCalls,        \* bound on calls
          maxIdlePerPeer

VARIABLES
  idle,   \* warm connections, the last one is taken first
  call,   \* call[k]: where the call of k stands
  calls   \* number of calls begun

poolVars == <<idle, call, calls>>

(* The command of a call; the reply to it carries the same name. *)
command(k) == [kind |-> "command", number |-> call[k].number]

(* A caller between two calls. *)
ready ==
  [at |-> "ready", conn |-> None, pooled |-> FALSE, reply |-> None,
   number |-> 0]

PoolTypeOK ==
  /\ idle \in Seq(Conn)
  /\ \A k \in Caller :
       /\ call[k].at \in {"ready", "dial", "write", "await", "put", "stopped"}
       /\ call[k].conn \in Conn \cup {None}
       /\ call[k].number \in 0 .. MaxCalls
  /\ calls \in 0 .. MaxCalls

PoolInit ==
  /\ idle = <<>>
  /\ call = [k \in Caller |-> ready]
  /\ calls = 0

finish(k) == call' = [call EXCEPT ![k] = ready] /\ UNCHANGED calls

(* Mutant: the warm connection stays in the pool while it is used. *)
getIdleShared(k) ==
  /\ call[k].at = "ready"
  /\ calls < MaxCalls
  /\ calls' = calls + 1
  /\ call' = [call EXCEPT ![k] =
       IF idle = <<>> THEN [@ EXCEPT !.at = "dial", !.number = calls + 1]
       ELSE [@ EXCEPT !.at = "write", !.number = calls + 1,
                      !.conn = idle[Len(idle)], !.pooled = TRUE]]
  /\ UNCHANGED <<link, idle>>

getIdle(k) ==
  /\ call[k].at = "ready"
  /\ calls < MaxCalls
  /\ calls' = calls + 1
  /\ call' = [call EXCEPT ![k] =
       IF idle = <<>> THEN [@ EXCEPT !.at = "dial", !.number = calls + 1]
       ELSE [@ EXCEPT !.at = "write", !.number = calls + 1,
                      !.conn = idle[Len(idle)], !.pooled = TRUE]]
  /\ idle' = IF idle = <<>> THEN idle ELSE SubSeq(idle, 1, Len(idle) - 1)
  /\ UNCHANGED link

dial(k, c) ==
  /\ call[k].at = "dial"
  /\ link' = [link EXCEPT ![c] = Dialed]
  /\ call' = [call EXCEPT ![k].at = "write", ![k].conn = c,
                          ![k].pooled = FALSE]
  /\ UNCHANGED <<idle, calls>>

(* Refused, or not connected within the timeout. *)
dialFails(k) ==
  /\ call[k].at = "dial"
  /\ finish(k)
  /\ UNCHANGED <<link, idle>>

(* The peer may have closed the connection while it was idle; the kernel   *)
(* then takes the bytes all the same.                                      *)
roundtrip(k) ==
  /\ call[k].at = "write"
  /\ LET c == call[k].conn
     IN  link' = IF link[c].server = "closed" THEN link
                 ELSE [link EXCEPT ![c].up = Append(@, command(k))]
  /\ call' = [call EXCEPT ![k].at = "await"]
  /\ UNCHANGED <<idle, calls>>

replied(k) ==
  /\ call[k].at = "await"
  /\ LET c == call[k].conn
     IN  /\ link[c].down # <<>>
         /\ call' = [call EXCEPT ![k].at = "put",
                                 ![k].reply = Head(link[c].down)]
         /\ link' = [link EXCEPT ![c].down = Tail(@)]
  /\ UNCHANGED <<idle, calls>>

(* Mutant: the connection of a failed call goes back to the pool. *)
roundtripFailsKept(k) ==
  /\ call[k].at \in {"write", "await"}
  /\ idle' = Append(idle, call[k].conn)
  /\ IF call[k].pooled
     THEN call' = [call EXCEPT ![k].at = "dial", ![k].conn = None] /\ UNCHANGED calls
     ELSE finish(k)
  /\ UNCHANGED link

(* The deadline passed, maybe just before the answer, or the connection is *)
(* gone: it is closed, and a call on a warm one is retried on a fresh one. *)
roundtripFails(k) ==
  /\ call[k].at \in {"write", "await"}
  /\ link' = [link EXCEPT ![call[k].conn] = closeClient(@)]
  /\ IF call[k].pooled
     THEN call' = [call EXCEPT ![k].at = "dial", ![k].conn = None] /\ UNCHANGED calls
     ELSE finish(k)
  /\ UNCHANGED idle

put(k) ==
  /\ call[k].at = "put"
  /\ finish(k)
  /\ IF Len(idle) >= maxIdlePerPeer
     THEN link' = [link EXCEPT ![call[k].conn] = closeClient(@)] /\ UNCHANGED idle
     ELSE idle' = Append(idle, call[k].conn) /\ UNCHANGED link

(* Close, of the pool. *)
closeIdle ==
  /\ link' = [c \in Conn |-> IF c \in Range(idle) THEN closeClient(link[c])
                             ELSE link[c]]
  /\ idle' = <<>>

-----------------------------------------------------------------------------
(* Properties *)

(* A call only ever returns the reply to its own command, whatever was     *)
(* abandoned on connections used before: one that failed is closed, one    *)
(* that is put back has been read to the end (do, put).                    *)
RepliesMatch ==
  \A k \in Caller : call[k].at = "put" => call[k].reply = command(k)
=============================================================================
