------------------------------- MODULE Online --------------------------------
(***************************************************************************)
(* A player of a sit-and-go on the server: the table page, the store and   *)
(* the WebSocket clients it makes, over a network that loses connections   *)
(* and a server that drops events, refuses clients or is newer than the    *)
(* page.                                                                   *)
(*                                                                         *)
(* The server is what the page can tell of it: whose turn it is, who is    *)
(* still in and which clients joined.  Its tables are in Table and         *)
(* SitAndGo, its subscriptions and sequence numbers in Session.            *)
(***************************************************************************)
EXTENDS WsClient, TourneyView, SequencesExt

CONSTANTS
  MaxClients,    \* bound: visits to the table page
  MaxSteps,      \* bound: bets, hands that end, lost connections and events, refusals
  Opponents      \* of the player in the tournament

VARIABLES
  net,        \* the clients, what is on their wires and the server
  page,       \* the store and what the page shows
  steps       \* see MaxSteps

onlineVars == <<net, page, steps>>

Clients == 1 .. MaxClients
MySeat == 0      \* the player's seat; the opponents have the others
Seat == 0 .. Opponents
BB   == 2

G == INSTANCE GameStore WITH TableSeats <- Seat

\* "hello" is join_table and, right behind it, resync.
Command == [kind : {"hello", "resync", "leave", "bet"}, n : 0 .. MaxSteps]
Frame(kind) == [kind |-> kind, n |-> 0]

Net ==
  [cl     : [Clients -> Client(Command)],
   wire   : [Clients -> Seq(Command)],       \* what the server has not read
   joined : SUBSET Clients,                  \* clients the server tells what happens
   gap    : BOOLEAN,                         \* the page's client missed an event
   got    : Seq(Clients \X (1 .. MaxSteps)),  \* history: the bets the server read
   myTurn : BOOLEAN, seated : BOOLEAN,
   left   : 1 .. Opponents + 1,              \* players still in
   place  : 0 .. Opponents + 1,              \* of the player, once out
   level  : 0 .. 1,
   over   : BOOLEAN]

Page ==
  [s      : G!Store, t : Tourney,
   inst   : 0 .. MaxClients,                 \* transport, the newest client
   bets   : 0 .. MaxSteps,                    \* history: bets tapped
   status : Status,
   error  : {"none", "brief", "fatal"}]      \* lastError

Init ==
  /\ net = [cl |-> [i \in Clients |-> NewClient], wire |-> [i \in Clients |-> <<>>],
            joined |-> {}, gap |-> FALSE, got |-> <<>>, myTurn |-> FALSE, seated |-> TRUE,
            left |-> Opponents + 1, place |-> 0, level |-> 0, over |-> FALSE]
  /\ page = [s |-> G!EmptyTable, t |-> EmptyTourney, inst |-> 0, bets |-> 0,
             status |-> "closed", error |-> "none"]
  /\ steps = 0

Counts(k) == steps + k <= MaxSteps /\ steps' = steps + k
Counted   == Counts(1)

-----------------------------------------------------------------------------
(* Events *)

Snapshot ==
  [type |-> "table_snapshot", stack |-> [i \in Seat |-> 1], last |-> [i \in Seat |-> 0],
   out |-> {}, pot |-> 0, street |-> "Preflop", running |-> ~net.over,
   turn |-> IF net.myTurn THEN MySeat ELSE G!None, mine |-> IF net.seated THEN MySeat ELSE G!None]

SeatUpdate ==
  [type |-> "seat_update", stack |-> [i \in Seat |-> 1], last |-> [i \in Seat |-> 0], out |-> {}]

BetPlaced(seat, turn) ==
  [type |-> "bet_placed", seat |-> seat, stack |-> 1, amount |-> 0, pot |-> 0, turn |-> turn,
   hand |-> 0]

\* The reducer: what the table view shows, the tournament's part.
\* A new deal's blinds are those of its level.
OnEvent(p, ev) ==
  CASE ev \in G!BlindsUp      -> [p EXCEPT !.t = OnBlindsUp(@, ev.level)]
    [] ev \in G!Elimination   ->
         [p EXCEPT !.t = OnElimination(@, ev.seat, ev.place, p.s.mine)]
    [] ev \in G!TourneyResult -> [p EXCEPT !.t = OnTourneyResult(@)]
    [] ev \in G!ErrorEvent    -> [p EXCEPT !.s = G!OnError(@), !.error = ev.code]
    [] OTHER                  -> [p EXCEPT !.s = G!ApplyEvent(@, ev)]

Error(code) == [type |-> "error", code |-> code]

\* The client whose socket the page's events come over, if it has one.
Hears(i) == i = page.inst /\ i \in net.joined /\ net.cl[i].ws = "open"

\* A request for a snapshot; a second one while the first is unread makes no difference.
Resync(wire) ==
  IF wire # <<>> /\ Last(wire).kind = "resync" THEN wire ELSE Append(wire, Frame("resync"))

\* What the server broadcasts in one step, which counts k.  All of it is applied, or what comes
\* before the event that a full buffer drops: for a later one the client asks for a snapshot
\* instead.
Tell(k, n, evs) ==
  IF ~\E i \in Clients : Hears(i) THEN net' = n /\ Counts(k) /\ UNCHANGED page
  ELSE IF net.gap
    THEN net' = [n EXCEPT !.wire[page.inst] = Resync(@)] /\ Counts(k) /\ UNCHANGED page
  ELSE \/ page' = FoldLeft(OnEvent, page, evs) /\ net' = n /\ Counts(k)
       \/ \E j \in DOMAIN evs :
            /\ Counts(k + 1)
            /\ page' = FoldLeft(OnEvent, page, SubSeq(evs, 1, j - 1))
            /\ net'  = [n EXCEPT !.gap = TRUE,
                          !.wire[page.inst] = IF j < Len(evs) THEN Resync(@) ELSE @]

-----------------------------------------------------------------------------
(* The server *)

\* Another player's bet gives the turn to the player; the clock or a bet takes it on.
TurnComes ==
  /\ net.seated /\ ~net.myTurn /\ ~net.over
  /\ Tell(0, [net EXCEPT !.myTurn = TRUE], <<BetPlaced(1, MySeat)>>)

TurnTimesOut ==
  /\ net.myTurn
  /\ Tell(0, [net EXCEPT !.myTurn = FALSE], <<BetPlaced(MySeat, G!None)>>)

\* An opponent's seat: those with the lowest numbers are still in.
LastOpponent == IF net.seated THEN net.left - 1 ELSE net.left

\* A hand ends with what the controller decided (applyTourneyDirective).
HandEnds(up, out) ==
  LET left == IF out = "nobody" THEN net.left ELSE net.left - 1
      done == left <= 1
      told == [type |-> "elimination", seat |-> IF out = "me" THEN MySeat ELSE LastOpponent,
               place |-> net.left]
  IN  /\ ~net.over
      /\ up => net.level = 0
      /\ out = "me" => net.seated
      /\ out = "other" => LastOpponent >= 1
      /\ out # "nobody" => net.left > 1
      /\ Tell(1, [net EXCEPT !.myTurn = FALSE, !.left = left, !.over = done,
                 !.level  = IF up THEN 1 ELSE @,
                 !.seated = @ /\ out # "me",
                 !.place  = IF out = "me" THEN net.left ELSE @],
              (IF up THEN <<[type |-> "blinds_up", level |-> 1]>> ELSE <<>>)
              \o (IF out # "nobody" THEN <<told, SeatUpdate>> ELSE <<>>)
              \o (IF done THEN <<[type |-> "tourney_result"]>> ELSE <<>>))

Answer(n, i, ev) ==
  /\ net'  = IF i = page.inst /\ ev.type = "table_snapshot" THEN [n EXCEPT !.gap = FALSE] ELSE n
  /\ page' = IF i = page.inst /\ net.cl[i].ws = "open" THEN OnEvent(page, ev) ELSE page
  /\ UNCHANGED steps

\* The server reads a command.
Read(i) ==
  LET cmd  == Head(net.wire[i])
      rest == [net EXCEPT !.wire[i] = Tail(@)]
      bet  == [rest EXCEPT !.got = Append(@, <<i, cmd.n>>)]
  IN  /\ net.wire[i] # <<>>
      /\ CASE cmd.kind = "hello"  -> Answer([rest EXCEPT !.joined = @ \cup {i}], i, Snapshot)
           [] cmd.kind = "resync" -> Answer(rest, i, Snapshot)
           [] cmd.kind = "leave"  ->
                /\ net' = [rest EXCEPT !.joined = @ \ {i}, !.seated = FALSE, !.myTurn = FALSE,
                             !.left = IF net.seated /\ ~net.over THEN @ - 1 ELSE @]
                /\ UNCHANGED <<page, steps>>
           [] cmd.kind = "bet" /\ net.myTurn ->
                Tell(0, [bet EXCEPT !.myTurn = FALSE], <<BetPlaced(MySeat, G!None)>>)
           [] OTHER -> Answer(bet, i, Error("brief"))

-----------------------------------------------------------------------------
(* The network *)

\* What a client did, and the page it tells.
Step(i, o, p) ==
  /\ net'  = [net EXCEPT !.cl[i] = o.c, !.wire[i] = @ \o o.frames]
  /\ page' = [p EXCEPT !.status = IF o.status = NoStatus THEN @ ELSE o.status]

Accept(i) ==
  /\ net.cl[i].ws = "connecting"
  /\ Step(i, OnOpen(net.cl[i], <<Frame("hello")>>), page)
  /\ UNCHANGED steps

\* Also a handshake the server refuses: the browser does not say why.
Drop(i) ==
  LET o == OnClose(net.cl[i])
  IN  /\ net.cl[i].ws # "none" /\ Counted
      /\ net'  = [net EXCEPT !.cl[i] = o.c, !.wire[i] = <<>>, !.joined = @ \ {i}]
      /\ page' = [page EXCEPT !.status = o.status]

\* A close code that ends it (commands came too fast), or a frame of another version.
Refuse(i, stillOpen) ==
  LET o == SurfaceTerminal(net.cl[i], stillOpen)
  IN  /\ net.cl[i].ws = "open" /\ Counted
      /\ net'  = [net EXCEPT !.cl[i] = o.c,
                    !.wire[i] = IF stillOpen THEN @ ELSE <<>>,
                    !.joined  = IF stillOpen THEN @ ELSE @ \ {i}]
      /\ page' = [OnEvent(page, Error("fatal")) EXCEPT !.status = o.status]

LateClose(i) == net.cl[i].late /\ Step(i, OnLateClose(net.cl[i]), page) /\ UNCHANGED steps

RetryFires(i) == net.cl[i].retry /\ Step(i, Retry(net.cl[i]), page) /\ UNCHANGED steps

-----------------------------------------------------------------------------
(* The page *)

\* TablePage mounts: connect makes a client of its own.
Enter ==
  LET i == page.inst + 1
      o == OpenSocket(NewClient)
  IN  /\ ~page.s.open /\ page.inst < MaxClients
      /\ net'  = [net EXCEPT !.cl[i] = o.c, !.gap = FALSE]
      /\ page' = [page EXCEPT !.inst = i, !.s = G!Connected(@), !.status = o.status]
      /\ UNCHANGED steps

\* disconnect, after o: nothing is kept but the last error.
Disconnect(o) ==
  Step(page.inst, o, [page EXCEPT !.s = G!Disconnected(@), !.t = EmptyTourney,
                                  !.status = "closed"])

Current == net.cl[page.inst]

Leave == page.s.open /\ Disconnect(Close(Current)) /\ UNCHANGED steps

LeavePlacement == PlacementShown(page.t) /\ Leave
LeaveStandings == StandingsShown(page.t) /\ Leave

\* Out gives the frames of both: what close finds waiting is not sent.
LeaveTable ==
  LET o == SendCommand(Current, Frame("leave"))
  IN  /\ page.s.open /\ page.s.mine # G!None
      /\ Disconnect([Close(o.c) EXCEPT !.frames = o.frames])
      /\ UNCHANGED steps

\* act: which bet it is makes no difference here.
Tap ==
  LET n == page.bets + 1
  IN  /\ G!MayTap(page.s) /\ Counted
      /\ Step(page.inst, SendCommand(Current, [kind |-> "bet", n |-> n]),
              [page EXCEPT !.s = G!Act(@, [kind |-> "check", amount |-> 0]), !.bets = n])

\* The preview's timer: the table is asked how it stands.
PreviewTimesOut ==
  /\ page.s.timer
  /\ Step(page.inst, SendCommand(Current, Frame("resync")),
          [page EXCEPT !.s = G!PendingTimeout(@)])
  /\ UNCHANGED steps

\* The error that cannot be recovered from stays up, also over a later visit, until the page
\* is loaded anew.
Reload ==
  /\ page.s.open /\ page.error = "fatal"
  /\ page' = [page EXCEPT !.s = G!EmptyTable, !.t = EmptyTourney, !.status = "closed",
                          !.error = "none"]
  /\ net'  = [net EXCEPT !.cl[page.inst] = [NewClient EXCEPT !.done = TRUE]]
  /\ UNCHANGED steps

\* The timers of the banner, the toast and the error, while the page is up.
BannerTimer == page.t.banner /\ page' = [page EXCEPT !.t = ClearBlindsUpBanner(@)]
ToastTimer  == ToastShown(page.t, page.s.mine) /\ page' = [page EXCEPT !.t = ClearElimination(@)]
ErrorTimer  == page.error = "brief" /\ page' = [page EXCEPT !.error = "none"]
BriefTimer  == page.s.open /\ (BannerTimer \/ ToastTimer \/ ErrorTimer) /\ UNCHANGED <<net, steps>>

\* ReconnectBanner says that the seat is being resumed.
ReconnectBannerShown == page.status \in {"connecting", "reconnecting"}

-----------------------------------------------------------------------------
Outs == {"nobody", "me", "other"}

Next ==
  \/ TurnComes \/ TurnTimesOut \/ \E up \in BOOLEAN, out \in Outs : HandEnds(up, out)
  \/ \E i \in Clients :
       \/ Read(i) \/ Accept(i) \/ Drop(i) \/ LateClose(i) \/ RetryFires(i)
       \/ \E stillOpen \in BOOLEAN : Refuse(i, stillOpen)
  \/ Enter \/ Leave \/ LeavePlacement \/ LeaveStandings \/ LeaveTable \/ Reload
  \/ Tap \/ PreviewTimesOut \/ BriefTimer

\* What happens by itself: timers fire, the browser gets its connection unless that fails, and
\* the server reads.  Each happens finitely often, so that it is enough to be fair to them
\* together.
Machines ==
  \/ PreviewTimesOut \/ BriefTimer
  \/ \E i \in Clients : Accept(i) \/ RetryFires(i) \/ Read(i)

-----------------------------------------------------------------------------
(* Properties *)

OnlineTypes == net \in Net /\ page \in Page /\ steps \in 0 .. MaxSteps

\* A visit left behind has no socket left and opens none, whatever its timer does.
LeftIsClosed ==
  \A i \in Clients : net.cl[i].ws # "none" => i = page.inst /\ page.s.open

\* A socket joins before anything else is read from it, and the bets of a visit are read in
\* the order they were tapped, none of them twice, whatever was sent while offline.
CommandsInOrder ==
  /\ \A i \in Clients :
       net.wire[i] # <<>> /\ i \notin net.joined => Head(net.wire[i]).kind = "hello"
  /\ \A j, k \in DOMAIN net.got :
       j < k /\ net.got[j][1] = net.got[k][1] => net.got[j][2] < net.got[k][2]

\* What the page shows of the tournament and of the connection is so: the place is the
\* player's, standings are final, "open" is not said of a lost connection, and the banner of a
\* reconnect is up on a page without a connection only.
ScreensAreTrue ==
  /\ page.t.place # 0 => page.t.place = net.place
  /\ page.t.result => net.over
  /\ page.t.level <= net.level
  /\ page.status = "open" => page.s.open /\ Current.ws = "open"
  /\ ReconnectBannerShown => page.s.open /\ Current.ws # "open"

\* Who stays on the page gets to see the table, or is told why not.
Waiting == page.s.open /\ page.s.street = "none" /\ page.error # "fatal"

\* What is to be seen for a moment only.
BannerUp == page.s.open /\ page.t.banner
ErrorUp  == page.s.open /\ page.error = "brief"

=============================================================================
