-------------------------------- MODULE Tab ---------------------------------
(***************************************************************************)
(* What one browser tab holds, and what mounting and unmounting a page     *)
(* does to it (client/src/App.tsx and the pages it routes to): the game    *)
(* store's transport, the offline flag, the sessions of nearby play, the   *)
(* requests still awaited and the code chunks loaded so far.               *)
(*                                                                         *)
(* An awaited request goes on when its page is left; what its answer does  *)
(* then is told by "here" (the component that sent it is still mounted)    *)
(* and "page" (its page is).  An answer that would only set the state of a *)
(* component that is gone does nothing, and is dropped with it.            *)
(***************************************************************************)
EXTENDS Integers, FiniteSets, FiniteSetsExt

CONSTANTS
  Lazy,          \* routes whose chunk a new deploy may have taken away
  MaxSessions,   \* bound: NearbySessions the tab keeps at once
  Pages,         \* pages of hands the history holds
  Friends        \* friends who sit at a table

ASSUME TabAssumption ==
  MaxSessions \in Nat /\ Pages \in Nat \ {0} /\ Friends \subseteq Nat \ {0}

Routes   == {"home", "table", "lobby", "nearby", "auth", "friends", "history"}
Sessions == 1 .. MaxSessions
None     == 0
Cloud    == MaxSessions + 1   \* not a session's
NoView   == [kind |-> "none"]

\* Requests by what net/ wrapper sends them: api.ts asks the mode first, social.ts and
\* hands.ts do not.
EstablishOps == {"establish", "establishToLobby", "establishToUpgrade"}
LobbyOps     == {"lists", "listSNG", "quickseat", "joinRoom", "registerSNG", "createRoom", "createSNG"}
ApiOps       == EstablishOps \cup {"upgrade"} \cup LobbyOps
SocialOps    == {"refresh", "request", "resolve", "remove", "friendTable", "listFriends"}
HandsOps     == {"myHands"}
NearbyOps    == {"host", "join", "invite"}

\* What still happens when nobody is left to show the answer.
Continues == EstablishOps \cup {"upgrade", "quickseat", "joinRoom", "registerSNG", "createSNG",
                                "request", "resolve", "remove", "host", "join"}

Call(op, arg) == [op |-> op, arg |-> arg, here |-> TRUE, page |-> TRUE]

\* Mutant: a wrapper that does not ask for the mode.
BlockedNever(t, op) == FALSE

Blocked(t, op) == t.offline /\ op \in ApiOps

\* A blocked call is refused at once: its caller shows the error.
Send(t, op, arg) ==
  IF Blocked(t, op) THEN t ELSE [t EXCEPT !.calls = @ \cup {Call(op, arg)}]

\* The caller's next request, for whoever is left of the caller.
SendNext(t, c, op, arg) ==
  IF Blocked(t, op) THEN t ELSE [t EXCEPT !.calls = @ \cup {[c EXCEPT !.op = op, !.arg = arg]}]

\* A component is waiting for an answer to one of these: its button is disabled.
Busy(t, ops) == \E c \in t.calls : c.op \in ops /\ c.here

-----------------------------------------------------------------------------
(* The store's transport *)

\* transport.close() of whatever the store holds.
Closed(t) ==
  [t EXCEPT !.sockets  = IF t.transport = Cloud THEN @ - 1 ELSE @,
            !.attached = @ \ {t.transport}]

Connect(t) == [Closed(t) EXCEPT !.transport = Cloud, !.sockets = @ + 1]

\* Mutant: the transport that was there stays open.
ConnectLocalOver(t, s) == [t EXCEPT !.transport = s, !.attached = @ \cup {s}]

ConnectLocal(t, s) == [Closed(t) EXCEPT !.transport = s, !.attached = @ \cup {s}]

Disconnect(t) == [Closed(t) EXCEPT !.transport = None]

-----------------------------------------------------------------------------
(* Sessions of nearby play *)

\* The teardown of a session disconnects the store, whoever's transport it holds.
Teardown(t, s) ==
  [Disconnect(t) EXCEPT !.running = @ \ {s}, !.peers = @ \ {s}]

Dispose(t) == [(IF t.ref = None THEN t ELSE Teardown(t, t.ref)) EXCEPT !.ref = None]

FreeSessions(t) ==
  Sessions \ (t.running \cup {t.ref} \cup IF t.route = "nearby" THEN {t.view.session} ELSE {})

\* The setup screens are components of their own within the page; the phase outlives it.
Setup == [kind |-> "nearby", step |-> "form", session |-> None]

SetPhase(t, p) ==
  IF t.route # "nearby" THEN [t EXCEPT !.phase = p]
  ELSE [t EXCEPT !.phase = p, !.view = Setup,
                 !.calls = {[c EXCEPT !.here = FALSE] : c \in {d \in t.calls : d.op \in Continues}}]

-----------------------------------------------------------------------------
(* Pages: what mounting starts and unmounting ends *)

MountTable(t) == Connect(t)

\* The lists, and the friends (FriendsPanel), once.
MountLobby(t) ==
  Send(Send([t EXCEPT !.view = [kind |-> "lobby", friends |-> FALSE]], "lists", 0), "listFriends", 0)

MountAuth(t) ==
  LET u == [t EXCEPT !.view = [kind |-> "auth", upgrading |-> FALSE,
                               session |-> IF t.token THEN "ready" ELSE "initializing"]]
  IN  IF t.token THEN u ELSE Send(u, "establish", 0)

MountNearby(t) == [t EXCEPT !.offline = TRUE, !.view = Setup]

MountFriends(t, now) ==
  Send([t EXCEPT !.view = [kind |-> "friends", shown |-> -1, rail |-> None]], "refresh", now)

MountHistory(t) ==
  Send([t EXCEPT !.view = [kind |-> "history", limit |-> 1, hands |-> 0, error |-> FALSE]],
       "myHands", 1)

Mount(t, now) ==
  CASE t.route = "table"   -> MountTable(t)
    [] t.route = "lobby"   -> MountLobby(t)
    [] t.route = "auth"    -> MountAuth(t)
    [] t.route = "nearby"  -> MountNearby(t)
    [] t.route = "friends" -> MountFriends(t, now)
    [] t.route = "history" -> MountHistory(t)
    [] OTHER               -> t

\* A spectator's table, a component of the friends' page.
Rail(t, f) == [Connect(t) EXCEPT !.view.rail = f]

\* Mutant: leaving the page keeps the spectator's socket.
LeaveFriendsOpen(t) == t

LeaveFriends(t) == IF t.view.rail = None THEN t ELSE Disconnect(t)

LeaveNearby(t) == [Dispose([t EXCEPT !.offline = FALSE]) EXCEPT !.phase = "setup"]

Shown(t) == t.route \in Lazy => t.chunk[t.route] = "ready"

Unmount(t) ==
  LET u == [t EXCEPT !.calls = {[c EXCEPT !.here = FALSE, !.page = FALSE] :
                                  c \in {d \in t.calls : d.op \in Continues}}]
      left == IF ~Shown(t) THEN u
              ELSE CASE t.route = "table"   -> Disconnect(u)
                     [] t.route = "friends" -> LeaveFriends(u)
                     [] t.route = "nearby"  -> LeaveNearby(u)
                     [] OTHER               -> u
  IN  [left EXCEPT !.view = NoView]

\* A page whose chunk is missing is being loaded, or has failed for good: a rejected
\* lazy component stays rejected.
Open(t, r, now) ==
  LET u == [t EXCEPT !.route = r] IN
  IF Shown(u) THEN Mount(u, now)
  ELSE [u EXCEPT !.chunk[r] = IF @ = "none" THEN "loading" ELSE @]

\* The page that is shown already is not mounted anew.
Navigate(t, r, now) == IF r = t.route THEN t ELSE Open(Unmount(t), r, now)

\* A load of the document: what is left is what the browser stored.
Load(t, r, now) ==
  Open([route |-> r, view |-> NoView, offline |-> FALSE, calls |-> {}, transport |-> None,
        sockets |-> 0, attached |-> {}, phase |-> "setup", ref |-> None, running |-> {},
        peers |-> {}, core |-> "none", chunk |-> [l \in Lazy |-> "none"],
        token |-> t.token, flagged |-> t.flagged], r, now)

=============================================================================
