------------------------------ MODULE WsClient -------------------------------
(***************************************************************************)
(* One WebSocket client of the game store (client/src/net/client.ts): its  *)
(* socket, its retries and the commands it keeps while there is none.  An  *)
(* operator is one call or one callback of the socket; it gives the client *)
(* after it, what it put on the wire and the status it reported, if any.   *)
(*                                                                         *)
(* Sequence numbers and gaps are in Session.                               *)
(***************************************************************************)
EXTENDS Sequences

NoStatus == "none"
Status   == {"connecting", "open", "reconnecting", "closed"}

Client(Command) ==
  [ws    : {"none", "connecting", "open"},
   late  : BOOLEAN,          \* a socket this client closed has yet to report it
   tried : BOOLEAN,          \* attempt > 0
   done  : BOOLEAN,          \* closedByUser, which a terminal close sets too
   retry : BOOLEAN,          \* the reconnect timer
   queue : Seq(Command)]

NewClient == [ws |-> "none", late |-> FALSE, tried |-> FALSE, done |-> FALSE,
              retry |-> FALSE, queue |-> <<>>]

Out(c, frames, status) == [c |-> c, frames |-> frames, status |-> status]

\* open, which connect calls.
OpenSocket(c) ==
  Out([c EXCEPT !.ws = "connecting"], <<>>, IF c.tried THEN "reconnecting" ELSE "connecting")

\* Mutant: what waited goes first.
OnOpenFlushFirst(c, hello) ==
  Out([c EXCEPT !.ws = "open", !.tried = FALSE, !.queue = <<>>], c.queue \o hello, "open")

\* The table is joined and a snapshot asked for before what waited is sent.
OnOpen(c, hello) ==
  Out([c EXCEPT !.ws = "open", !.tried = FALSE, !.queue = <<>>], hello \o c.queue, "open")

\* Mutant: only a socket that was open is worth another try.
OnCloseOnce(c) ==
  Out([c EXCEPT !.ws = "none", !.tried = TRUE, !.retry = c.ws = "open"], <<>>, "reconnecting")

\* The socket is lost, or was never got: scheduleReconnect.
OnClose(c) ==
  Out([c EXCEPT !.ws = "none", !.tried = TRUE, !.retry = TRUE], <<>>, "reconnecting")

\* onclose of a socket that the client itself closed.
OnLateClose(c) == Out([c EXCEPT !.late = FALSE], <<>>, "closed")

\* No more sockets: the timer goes on, and what waited is never sent.
Over(c) == [c EXCEPT !.ws = "none", !.done = TRUE, !.tried = FALSE, !.queue = <<>>]

\* surfaceTerminal, from a close code or from a frame of another version on an open socket.
SurfaceTerminal(c, stillOpen) ==
  Out([Over(c) EXCEPT !.late = stillOpen], <<>>, "closed")

Retry(c) ==
  IF c.done THEN Out([c EXCEPT !.retry = FALSE], <<>>, NoStatus)
  ELSE OpenSocket([c EXCEPT !.retry = FALSE])

SendCommand(c, cmd) ==
  IF c.ws = "open" THEN Out(c, <<cmd>>, NoStatus)
  ELSE Out([c EXCEPT !.queue = Append(@, cmd)], <<>>, NoStatus)

\* close.
Close(c) == Out([Over(c) EXCEPT !.late = @ \/ c.ws # "none"], <<>>, NoStatus)

=============================================================================
