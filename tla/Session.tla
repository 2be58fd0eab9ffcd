------------------------------- MODULE Session -------------------------------
(***************************************************************************)
(* How a seated player's client follows a table: WebSocket connections     *)
(* (server/internal/ws), the table's subscriptions and its one sequence    *)
(* number (server/internal/table), and the client's gap detection          *)
(* (client/src/net).  The game is reduced to a version that every          *)
(* broadcast increments and every snapshot carries.                        *)
(*                                                                         *)
(* A player's connections are numbered in the order the client opens them; *)
(* the server may keep an old one for a while after a new one is open.     *)
(***************************************************************************)
EXTENDS Integers, FiniteSets, Sequences

CONSTANTS
  Players,
  MaxConns,      \* bound: sockets a client opens
  MaxChanges,    \* bound: broadcasts of the game's steps
  MaxPrivates,   \* bound: private events
  Buffer         \* outboundBuffer: 128 in the code

ASSUME SessionAssumption ==
  MaxConns \in Nat \ {0} /\ {MaxChanges, MaxPrivates} \subseteq Nat /\ Buffer \in Nat \ {0}

VARIABLES
  version, seq,     \* the table: broadcasts so far, and events of every kind
  privates,         \* bound's counter: private events so far
  subs,             \* [Players -> connection or NoConn]
  disconnected,     \* [Players -> BOOLEAN], the seats' flags
  inbox,            \* commands the table has not handled, in order
  sock,             \* [Players -> [Conns -> state at the server]]
  wire,             \* [Players -> [Conns -> commands the server has not read]]
  out,              \* [Players -> [Conns -> events on the way to the client]]
  cur,              \* [Players -> the client's connection, or NoConn]
  lastSeq, shown,   \* the client: highest seq applied, version shown
  casts,            \* history: the seqs that were broadcasts
  dropped           \* history: a full buffer dropped an event since the last snapshot

tableVars == <<version, seq, privates, subs, disconnected, casts, dropped>>
clientVars == <<cur, lastSeq, shown>>
sessionVars == <<tableVars, clientVars, inbox, sock, wire, out>>

SockState == {"unused", "open", "joined", "closed", "notified"}

NoConn == 0
Conns  == 1 .. MaxConns
Blank  == -1      \* what a page shows before its first snapshot

Command == [kind : {"join", "resync", "disconnected"}, player : Players, conn : Conns]
Event   == [kind : {"cast", "own", "error", "snapshot"}, seq : Nat, version : Nat]

SessionInit ==
  /\ version = 0 /\ seq = 0 /\ privates = 0 /\ casts = {}
  /\ subs         = [p \in Players |-> NoConn]
  /\ disconnected = [p \in Players |-> FALSE]
  /\ dropped      = [p \in Players |-> FALSE]
  /\ inbox = <<>>
  /\ sock = [p \in Players |-> [c \in Conns |-> "unused"]]
  /\ wire = [p \in Players |-> [c \in Conns |-> <<>>]]
  /\ out  = [p \in Players |-> [c \in Conns |-> <<>>]]
  /\ cur     = [p \in Players |-> NoConn]
  /\ lastSeq = [p \in Players |-> 0]
  /\ shown   = [p \in Players |-> Blank]

-----------------------------------------------------------------------------
(* The table's sends *)

\* A connection the server has not given up, whether or not it addressed the table.
Live(p, c) == sock[p][c] \in {"open", "joined"}

\* trySend drops the event when the connection's buffer is full; nobody reads the
\* buffer of a connection that is closed.
Sent(q, p, c, ev) ==
  IF Live(p, c) /\ Len(q[p][c]) < Buffer
    THEN [q EXCEPT ![p][c] = Append(@, ev)] ELSE q

Full(q, p, c) == Len(q[p][c]) >= Buffer

\* One broadcast to the subscribers `to', all under one sequence number.
Broadcast(to, q) ==
  LET ev == [kind |-> "cast", seq |-> seq + 1, version |-> version + 1]
  IN  /\ version' = version + 1
      /\ seq'     = seq + 1
      /\ casts'   = casts \cup {seq + 1}
      /\ out'     = [p \in Players |->
                      IF to[p] = NoConn THEN q[p] ELSE Sent(q, p, to[p], ev)[p]]
      /\ dropped' = [p \in Players |-> dropped[p] \/ (to[p] # NoConn /\ Full(q, p, to[p]))]

\* A step of the game that all subscribers are told of.
Change ==
  /\ version < MaxChanges
  /\ Broadcast(subs, out)
  /\ UNCHANGED <<privates, subs, disconnected, inbox, sock, wire, clientVars>>

\* Hole cards to their owner, or an error to an actor.
Private(p, kind) ==
  /\ privates < MaxPrivates
  /\ subs[p] # NoConn
  /\ privates' = privates + 1
  /\ seq' = seq + 1
  /\ out' = Sent(out, p, subs[p], [kind |-> kind, seq |-> seq + 1, version |-> version])
  /\ dropped' = [dropped EXCEPT ![p] = @ \/ Full(out, p, subs[p])]
  /\ UNCHANGED <<version, casts, subs, disconnected, inbox, sock, wire, clientVars>>

\* The same to a subscriber other than Players: it takes a number all the same.
PrivateElsewhere ==
  /\ privates < MaxPrivates
  /\ privates' = privates + 1
  /\ seq' = seq + 1
  /\ UNCHANGED <<version, casts, dropped, subs, disconnected, inbox, sock, wire, out,
                 clientVars>>

-----------------------------------------------------------------------------
(* The table's handlers *)

Handled == inbox' = Tail(inbox)

Next1(kind) == inbox # <<>> /\ Head(inbox).kind = kind

\* The snapshot goes out last, under the next sequence number.  A reclaimed seat is
\* announced before it.
HandleJoin ==
  LET p == Head(inbox).player
      c == Head(inbox).conn
      n == IF disconnected[p] THEN 1 ELSE 0
      to == [subs EXCEPT ![p] = c]
      cast == [kind |-> "cast", seq |-> seq + 1, version |-> version + 1]
      told == IF n = 0 THEN out
              ELSE [q \in Players |-> IF to[q] = NoConn THEN out[q]
                                      ELSE Sent(out, q, to[q], cast)[q]]
      snap == [kind |-> "snapshot", seq |-> seq + n + 1, version |-> version + n]
  IN  /\ Next1("join") /\ Handled
      /\ subs'         = to
      /\ disconnected' = [disconnected EXCEPT ![p] = FALSE]
      /\ version' = version + n
      /\ seq'     = seq + n + 1
      /\ casts'   = IF n = 1 THEN casts \cup {seq + 1} ELSE casts
      /\ out'     = Sent(told, p, c, snap)
      /\ dropped' = [q \in Players |->
           IF q = p THEN Full(told, p, c)
           ELSE dropped[q] \/ (n = 1 /\ to[q] # NoConn /\ Full(out, q, to[q]))]
      /\ UNCHANGED <<privates, sock, wire, clientVars>>

\* Mutant: a resync from a player who is subscribed is taken to be needless.
HandleResyncUnanswered ==
  LET p == Head(inbox).player
      c == Head(inbox).conn
  IN  /\ Next1("resync") /\ Handled
      /\ IF subs[p] = c THEN UNCHANGED <<seq, out>>
         ELSE /\ seq' = seq + 1
              /\ out' = Sent(out, p, c,
                            [kind |-> "snapshot", seq |-> seq + 1, version |-> version])
      /\ UNCHANGED <<version, casts, privates, subs, disconnected, dropped, sock, wire,
                     clientVars>>

HandleResync ==
  LET p == Head(inbox).player
      c == Head(inbox).conn
  IN  /\ Next1("resync") /\ Handled
      /\ seq' = seq + 1
      /\ out' = Sent(out, p, c, [kind |-> "snapshot", seq |-> seq + 1, version |-> version])
      /\ dropped' = [dropped EXCEPT ![p] = IF subs[p] = c THEN Full(out, p, c) ELSE @]
      /\ UNCHANGED <<version, casts, privates, subs, disconnected, sock, wire, clientVars>>

\* Mutant: the disconnect flags the seat but leaves the subscription.
HandleDisconnectKeepsSub ==
  LET p == Head(inbox).player
  IN  /\ Next1("disconnected") /\ Handled
      /\ disconnected' = [disconnected EXCEPT ![p] = TRUE]
      /\ IF disconnected[p] THEN UNCHANGED <<version, seq, casts, out, dropped>>
         ELSE Broadcast(subs, out)
      /\ UNCHANGED <<subs, privates, sock, wire, clientVars>>

\* Unsubscribes the player, whichever connection closed.
HandleDisconnect ==
  LET p  == Head(inbox).player
      to == [subs EXCEPT ![p] = NoConn]
  IN  /\ Next1("disconnected") /\ Handled
      /\ subs'         = to
      /\ disconnected' = [disconnected EXCEPT ![p] = TRUE]
      /\ IF disconnected[p] THEN UNCHANGED <<version, seq, casts, out, dropped>>
         ELSE Broadcast(to, out)
      /\ UNCHANGED <<privates, sock, wire, clientVars>>

\* The grace window ends: the seat is sat out and no longer counts as disconnected.
GraceExpires(p) ==
  /\ disconnected[p]
  /\ disconnected' = [disconnected EXCEPT ![p] = FALSE]
  /\ Broadcast(subs, out)
  /\ UNCHANGED <<privates, subs, inbox, sock, wire, clientVars>>

-----------------------------------------------------------------------------
(* The gateway *)

\* The reader passes on a command, and keeps in mind that the table was addressed.
Read(p, c) ==
  /\ Live(p, c) /\ wire[p][c] # <<>>
  /\ inbox' = Append(inbox, Head(wire[p][c]))
  /\ wire'  = [wire EXCEPT ![p][c] = Tail(@)]
  /\ sock'  = [sock EXCEPT ![p][c] = "joined"]
  /\ UNCHANGED <<tableVars, clientVars, out>>

\* The server finds the socket closed, or the client not answering pings; what was
\* on the way is lost.  Only a table that was addressed will be told.
LoseSocket(p, c) ==
  /\ Live(p, c)
  /\ sock' = [sock EXCEPT ![p][c] = IF @ = "joined" THEN "closed" ELSE "notified"]
  /\ wire' = [wire EXCEPT ![p][c] = <<>>]
  /\ out'  = [out EXCEPT ![p][c] = <<>>]
  /\ UNCHANGED <<tableVars, clientVars, inbox>>

\* serve's deferred call, once its writer is done.
NotifyDisconnect(p, c) ==
  /\ sock[p][c] = "closed"
  /\ sock'  = [sock EXCEPT ![p][c] = "notified"]
  /\ inbox' = Append(inbox, [kind |-> "disconnected", player |-> p, conn |-> c])
  /\ UNCHANGED <<tableVars, clientVars, wire, out>>

-----------------------------------------------------------------------------
(* The client *)

\* A (re)opened socket joins and asks for a snapshot before anything else.  A page
\* that was loaded again has forgotten what it showed.
Open(p, reload) ==
  LET c == cur[p] + 1
  IN  /\ cur[p] < MaxConns
      /\ cur'  = [cur EXCEPT ![p] = c]
      /\ sock' = [sock EXCEPT ![p][c] = "open"]
      /\ wire' = [wire EXCEPT ![p][c] = <<[kind |-> "join", player |-> p, conn |-> c],
                                          [kind |-> "resync", player |-> p, conn |-> c]>>]
      /\ IF reload
           THEN /\ lastSeq' = [lastSeq EXCEPT ![p] = 0]
                /\ shown'   = [shown EXCEPT ![p] = Blank]
           ELSE UNCHANGED <<lastSeq, shown>>
      /\ UNCHANGED <<tableVars, inbox, out>>

\* Mutant: the client applies what comes after a gap.
GapIgnored(p, ev) == FALSE

Gap(p, ev) == ev.seq # lastSeq[p] + 1 /\ lastSeq[p] # 0

\* handleFrame: a snapshot replaces the view, errors carry no state, a duplicate is
\* dropped, and a gap asks for a snapshot in place of the event.
Receive(p) ==
  LET c  == cur[p]
      ev == Head(out[p][c])
  IN  /\ c # NoConn /\ Live(p, c) /\ out[p][c] # <<>>
      /\ out' = [out EXCEPT ![p][c] = Tail(@)]
      /\ IF ev.kind = "snapshot"
           THEN /\ lastSeq' = [lastSeq EXCEPT ![p] = ev.seq]
                /\ shown'   = [shown EXCEPT ![p] = ev.version]
                /\ UNCHANGED wire
         ELSE IF ev.kind = "error" \/ ev.seq <= lastSeq[p]
           THEN UNCHANGED <<lastSeq, shown, wire>>
         ELSE IF Gap(p, ev)
           THEN /\ wire' = [wire EXCEPT ![p][c] =
                              Append(@, [kind |-> "resync", player |-> p, conn |-> c])]
                /\ UNCHANGED <<lastSeq, shown>>
         ELSE /\ lastSeq' = [lastSeq EXCEPT ![p] = ev.seq]
              /\ shown'   = [shown EXCEPT ![p] =
                               IF @ # Blank /\ ev.kind = "cast" THEN @ + 1 ELSE @]
              /\ UNCHANGED wire
      /\ UNCHANGED <<tableVars, cur, inbox, sock>>

TakeCommand == HandleJoin \/ HandleResync \/ HandleDisconnect

SessionNext ==
  \/ Change \/ PrivateElsewhere \/ TakeCommand
  \/ \E p \in Players :
       \/ \E kind \in {"own", "error"} : Private(p, kind)
       \/ GraceExpires(p) \/ Receive(p)
       \/ \E reload \in BOOLEAN : Open(p, reload)
       \/ \E c \in Conns : Read(p, c) \/ LoseSocket(p, c) \/ NotifyDisconnect(p, c)

SessionSpec == SessionInit /\ [][SessionNext]_sessionVars

\* Loops and pumps run; nobody needs to act, reconnect or lose a socket.
FairSpec ==
  /\ SessionSpec
  /\ WF_sessionVars(TakeCommand)
  /\ \A p \in Players : WF_sessionVars(Receive(p))
  /\ \A p \in Players, c \in Conns :
       WF_sessionVars(Read(p, c)) /\ WF_sessionVars(NotifyDisconnect(p, c))

-----------------------------------------------------------------------------
(* Properties *)

SessionTypes ==
  /\ version \in Nat /\ seq \in Nat /\ privates \in 0 .. MaxPrivates /\ casts \subseteq 1 .. seq
  /\ subs \in [Players -> Conns \cup {NoConn}]
  /\ disconnected \in [Players -> BOOLEAN] /\ dropped \in [Players -> BOOLEAN]
  /\ inbox \in Seq(Command)
  /\ sock \in [Players -> [Conns -> SockState]]
  /\ \A p \in Players, c \in Conns : wire[p][c] \in Seq(Command)
  /\ \A p \in Players, c \in Conns : out[p][c] \in Seq(Event) /\ Len(out[p][c]) <= Buffer
  /\ cur \in [Players -> Conns \cup {NoConn}]
  /\ lastSeq \in [Players -> Nat] /\ shown \in [Players -> Nat \cup {Blank}]

\* What a client shows is the game after exactly the broadcasts up to its cursor:
\* drops, reconnects, late snapshots and other players' private events never make
\* it skip or repeat one.
ClientInStep ==
  \A p \in Players :
    shown[p] # Blank => shown[p] = Cardinality({s \in casts : s <= lastSeq[p]})

\* What is sent fits the buffers, and what is shown is in step with it.
BoundedAndInStep == SessionTypes /\ ClientInStep

\* A connection the server lost does not stay subscribed: its disconnect is still
\* to come, so that an abandoned table gets idle.
NoDeadSubscription ==
  \A p \in Players, c \in Conns :
    subs[p] = c => \/ Live(p, c) \/ sock[p][c] = "closed"
                   \/ \E i \in DOMAIN inbox :
                        inbox[i].kind = "disconnected" /\ inbox[i].player = p

\* A client that stays subscribed over a live socket, and for which no event was
\* dropped since its last snapshot, comes to show the game as it is.
Subscribed(p) ==
  cur[p] # NoConn /\ subs[p] = cur[p] /\ Live(p, cur[p])

ClientCatchesUp ==
  \A p \in Players :
    <>[](Subscribed(p) /\ ~dropped[p]) => <>[](shown[p] = version)

\* What Deps.DisconnectGrace says it measures: how long a seated player's socket has
\* been gone; the late notice of an old socket breaks it (no run checks it).  A player
\* whose join was handled on a socket that is open is not gone.
DisconnectedMeansDropped ==
  \A p \in Players :
    disconnected[p] =>
      ~ /\ cur[p] # NoConn /\ Live(p, cur[p]) /\ wire[p][cur[p]] = <<>>
        /\ \A i \in DOMAIN inbox : inbox[i].player # p

=============================================================================
