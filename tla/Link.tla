-------------------------------- MODULE Link --------------------------------
(***************************************************************************)
(* The TCP connections between a node's peer client and another node's     *)
(* server, as net.Conn shows them to both.  What was sent before an end    *)
(* closed can still be read at the other.                                  *)
(***************************************************************************)
EXTENDS Naturals, Sequences

CONSTANTS Conn,   \* bound: connections that exist at once, numbered
          None

VARIABLE link   \* link[c]: both ends, and what is on its way up and down

Free == [client |-> "free", server |-> "free", up |-> <<>>, down |-> <<>>]

(* The kernel completes a handshake before Accept returns the connection. *)
Dialed == [Free EXCEPT !.client = "open", !.server = "queued"]

closeClient(l) ==
  IF l.server = "closed" THEN Free
  ELSE [l EXCEPT !.client = "closed", !.down = <<>>]

closeServer(l) ==
  CASE l.server = "free"   -> l
    [] l.client = "closed" -> Free
    [] OTHER               -> [l EXCEPT !.server = "closed", !.up = <<>>]
=============================================================================
