------------------------------- MODULE Shell --------------------------------
(***************************************************************************)
(* One browser tab over its life: the person at it opens pages, presses    *)
(* their buttons and leaves them while requests are still awaited, the     *)
(* server answers in any order or refuses, chunks fail to load, and the    *)
(* page is reloaded.                                                       *)
(*                                                                         *)
(* Going back may reach any page: a tab may have been opened at any of     *)
(* them.  What a session does once it runs is in Nearby; here it starts,   *)
(* gets its first peer and ends.                                           *)
(***************************************************************************)
EXTENDS Tab

CONSTANTS
  MaxCalls,      \* bound: requests awaited whose answer only matters to a screen
  MaxLasting,    \* bound: requests awaited that go on without the screen that sent them
  MaxChanges     \* bound: changes of the friends list

ASSUME ShellAssumption ==
  MaxCalls \in Nat /\ MaxLasting \in Nat /\ MaxChanges \in Nat

VARIABLES
  tab,           \* the tab, see Load in Tab
  storage,       \* the browser lets the app store (WebViews may not)
  friends        \* the server's version of the friends list

shellVars == <<tab, storage, friends>>

ShellInit ==
  /\ storage \in BOOLEAN
  /\ friends = 0
  /\ \E r \in Routes : tab = Load([token |-> FALSE, flagged |-> {}], r, 0)

Ops          == ApiOps \cup SocialOps \cup HandsOps \cup NearbyOps
On(r)        == tab.route = r /\ Shown(tab)
GoTo(t, r)   == Navigate(t, r, friends)
Rest         == UNCHANGED <<storage, friends>>
Answered(c)  == [tab EXCEPT !.calls = @ \ {c}]
Room(ops, n) == Cardinality({c \in tab.calls : c.op \in ops}) < n
MayStart(op) == IF op \in Continues THEN Room(Continues, MaxLasting)
                ELSE Room(Ops \ Continues, MaxCalls)
Start(op, a) == MayStart(op) /\ tab' = Send(tab, op, a) /\ Rest

-----------------------------------------------------------------------------
(* The shell: routes, the back button, links into the app, reloads, chunks *)

\* A link, a link into the app, or the way back.
Go(r) ==
  /\ r # tab.route
  /\ tab' = GoTo(tab, r)
  /\ Rest

\* The table's menu, or the device's back button once it was confirmed.
LeaveTable ==
  /\ On("table") \/ (On("nearby") /\ tab.phase = "table")
  /\ tab' = GoTo(Disconnect(tab), "lobby")
  /\ Rest

Reload ==
  /\ tab' = Load(tab, tab.route, friends)
  /\ Rest

\* A loaded chunk clears its mark, and is mounted if its route is still open.
ChunkLoads(r) ==
  /\ tab.chunk[r] = "loading"
  /\ LET t == [tab EXCEPT !.chunk[r] = "ready", !.flagged = @ \ {r}]
     IN  tab' = IF tab.route = r THEN Mount(t, friends) ELSE t
  /\ Rest

\* Mutant: the reload is not marked.
MarkNothing(r) == {}

Mark(r) == IF storage THEN {r} ELSE {}

\* The first failure reloads the page, whatever it shows by now; the next one is final.
ChunkFails(r) ==
  /\ tab.chunk[r] = "loading"
  /\ tab' = IF r \in tab.flagged THEN [tab EXCEPT !.chunk[r] = "failed"]
            ELSE Load([tab EXCEPT !.flagged = @ \cup Mark(r)], tab.route, friends)
  /\ Rest

-----------------------------------------------------------------------------
(* Sign-in *)

SetAuth(t, c, s) == IF c.here THEN [t EXCEPT !.view.session = s] ELSE t

StoreToken(t) == [t EXCEPT !.token = @ \/ storage]

Establish(op) ==
  /\ MayStart(op)
  /\ tab' = Send([tab EXCEPT !.view.session = "initializing"], op, 0)

Retry ==
  /\ On("auth") /\ tab.view.session = "error"
  /\ IF tab.token THEN tab' = [tab EXCEPT !.view.session = "ready"] ELSE Establish("establish")
  /\ Rest

ContinueAsGuest ==
  /\ On("auth") /\ tab.view.session # "initializing"
  /\ IF tab.token THEN tab' = GoTo(tab, "lobby") ELSE Establish("establishToLobby")
  /\ Rest

\* The upgrade itself, for the component that asked for it as far as it is there.
UpgradeNow(t, c) ==
  SendNext(IF c.here THEN [t EXCEPT !.view.upgrading = TRUE] ELSE t, c, "upgrade", 0)

UpgradeWithEmail ==
  /\ On("auth") /\ tab.view.session = "ready" /\ ~tab.view.upgrading
  /\ IF tab.token THEN MayStart("upgrade") /\ tab' = UpgradeNow(tab, Call("upgrade", 0))
     ELSE Establish("establishToUpgrade")
  /\ Rest

\* The guest login's answer, and what its caller does next, on the page or not.
GuestLoginAnswered(c, ok) ==
  /\ c.op \in EstablishOps
  /\ LET t == SetAuth(Answered(c), c, IF ok THEN "ready" ELSE "error")
         u == StoreToken(t)
     IN  tab' = IF ~ok THEN t
                ELSE CASE c.op = "establishToLobby"   -> GoTo(u, "lobby")
                       [] c.op = "establishToUpgrade" -> UpgradeNow(u, c)
                       [] OTHER                       -> u
  /\ Rest

UpgradeAnswered(c, ok) ==
  /\ c.op = "upgrade"
  /\ LET t == IF c.here THEN [Answered(c) EXCEPT !.view.upgrading = FALSE] ELSE Answered(c)
     IN  tab' = IF ok THEN GoTo(StoreToken(t), "lobby") ELSE t
  /\ Rest

-----------------------------------------------------------------------------
(* The lobby *)

SeatMe     == On("lobby") /\ ~Busy(tab, {"quickseat"})   /\ Start("quickseat", 0)
JoinByCode == On("lobby") /\ ~Busy(tab, {"joinRoom"})    /\ Start("joinRoom", 0)
Register   == On("lobby") /\ ~Busy(tab, {"registerSNG"}) /\ Start("registerSNG", 0)
CreateRoom == On("lobby") /\ ~Busy(tab, {"createRoom"})  /\ Start("createRoom", 0)
CreateSng  == On("lobby") /\ ~Busy(tab, {"createSNG"})   /\ Start("createSNG", 0)
RefreshTables == On("lobby") /\ Start("lists", 0)

\* A seat found opens the table, wherever the player has gone; a sit-and-go created
\* refreshes the list.
LobbyAnswered(c, ok) ==
  /\ c.op \in LobbyOps
  /\ tab' = CASE ok /\ c.op \in {"quickseat", "joinRoom", "registerSNG"} -> GoTo(Answered(c), "table")
              [] ok /\ c.op = "createSNG" -> SendNext(Answered(c), c, "listSNG", 0)
              [] OTHER -> Answered(c)
  /\ Rest

FriendsListed(c) ==
  /\ c.op = "listFriends"
  /\ tab' = [Answered(c) EXCEPT !.view.friends = TRUE]
  /\ Rest

\* The Join and Rail buttons: both open the table, for a friend who may have left it since.
JoinFriend ==
  /\ On("lobby") /\ tab.view.friends /\ Friends # {}
  /\ tab' = GoTo(tab, "table")
  /\ Rest

-----------------------------------------------------------------------------
(* Friends *)

\* Mutant: the lists are asked for until they are there once.
PollOnce ==
  /\ On("friends") /\ tab.view.shown = -1 /\ Room({"refresh"}, MaxCalls)
  /\ tab' = Send(tab, "refresh", friends)
  /\ Rest

\* The page refreshes its lists every ten seconds for as long as it is mounted.
Poll ==
  /\ On("friends") /\ Room({"refresh"}, MaxCalls)
  /\ tab' = Send(tab, "refresh", friends)
  /\ Rest

AddFriend      == On("friends") /\ tab.view.rail = None /\ ~Busy(tab, {"request"}) /\ Start("request", 0)
ResolveRequest == On("friends") /\ tab.view.rail = None /\ ~Busy(tab, {"resolve"}) /\ Start("resolve", 0)
RemoveFriend   == On("friends") /\ tab.view.rail = None /\ Start("remove", 0)
RailFriend(f)  == On("friends") /\ tab.view.rail = None /\ Start("friendTable", f)

LeaveRail ==
  /\ On("friends") /\ tab.view.rail # None
  /\ tab' = [LeaveFriends(tab) EXCEPT !.view.rail = None]
  /\ Rest

\* The lists as the server had them at some moment since they were asked for.
RefreshSucceeds ==
  \E c \in tab.calls, v \in 0 .. friends :
    /\ c.op = "refresh" /\ c.arg <= v
    /\ tab' = IF c.here THEN [Answered(c) EXCEPT !.view.shown = v] ELSE Answered(c)
    /\ Rest

\* A change that went through asks for the lists anew, on the page or not.
FriendsChanged(c) ==
  /\ c.op \in {"request", "resolve", "remove"} /\ friends < MaxChanges
  /\ friends' = friends + 1
  /\ tab' = SendNext(Answered(c), c, "refresh", friends')
  /\ UNCHANGED storage

\* Another friend's table replaces the one that is shown.
FriendTableAnswered(c) ==
  /\ c.op = "friendTable"
  /\ tab' = IF tab.view.rail = c.arg THEN Answered(c) ELSE Rail(LeaveFriends(Answered(c)), c.arg)
  /\ Rest

SocialFails(c) == c.op \in SocialOps /\ tab' = Answered(c) /\ Rest

OthersChange == friends < MaxChanges /\ friends' = friends + 1 /\ UNCHANGED <<tab, storage>>

-----------------------------------------------------------------------------
(* Hand history *)

ServerMax == 5     \* pages the server hands out at most

LoadMore ==
  /\ On("history") /\ MayStart("myHands") /\ ~Busy(tab, {"myHands"})
  /\ tab.view.hands >= tab.view.limit /\ tab.view.limit < ServerMax
  /\ tab' = Send([tab EXCEPT !.view.limit = @ + 1], "myHands", tab.view.limit + 1)
  /\ Rest

HandsAnswered(c, ok) ==
  /\ c.op \in HandsOps
  /\ tab' = IF ok THEN [Answered(c) EXCEPT !.view.hands = Min({c.arg, Pages}), !.view.error = FALSE]
            ELSE [Answered(c) EXCEPT !.view.error = TRUE]
  /\ Rest

-----------------------------------------------------------------------------
(* Nearby play *)

InPhase(p) == On("nearby") /\ tab.phase = p

Choose(p) ==
  /\ InPhase("setup") /\ p \in {"host", "join"}
  /\ tab' = SetPhase(tab, p)
  /\ Rest

BackToSetup ==
  /\ InPhase("host") \/ InPhase("join")
  /\ tab' = SetPhase(Dispose(tab), "setup")
  /\ Rest

\* Host and guest load the local core first; the load is shared, and not remembered
\* once it failed.
Begin(op) ==
  /\ tab.view.step = "form" /\ ~Busy(tab, NearbyOps) /\ MayStart(op)
  /\ tab' = Send([tab EXCEPT !.core = IF @ = "none" THEN "loading" ELSE @], op, 0)
  /\ Rest

CreateTable == InPhase("host") /\ Begin("host")
JoinTable   == InPhase("join") /\ Begin("join")

CoreLoads == tab.core = "loading" /\ tab' = [tab EXCEPT !.core = "ready"] /\ Rest

CoreFails ==
  /\ tab.core = "loading"
  /\ tab' = [tab EXCEPT !.core = "none", !.calls = {c \in @ : c.op \notin {"host", "join"}}]
  /\ Rest

\* A new session takes over the store, whatever the tab shows by now.
StartSession(c, s) ==
  LET t == [ConnectLocal(Answered(c), s) EXCEPT !.running = @ \cup {s}]
      u == IF c.page THEN [t EXCEPT !.ref = s] ELSE t
  IN  IF c.here THEN [u EXCEPT !.view.session = s] ELSE u

HostStarts(c) ==
  /\ c.op = "host" /\ tab.core = "ready" /\ FreeSessions(tab) # {}
  /\ LET t == StartSession(c, Min(FreeSessions(tab)))
     IN  tab' = IF c.here THEN Send(t, "invite", 0) ELSE t
  /\ Rest

InviteAnswered(c, ok) ==
  /\ c.op = "invite"
  /\ tab' = IF ok THEN [Answered(c) EXCEPT !.view.step = "invite"] ELSE Answered(c)
  /\ Rest

\* The invite is read and answered before the guest's session starts; either may fail.
JoinAnswered(c, ok) ==
  /\ c.op = "join" /\ tab.core = "ready" /\ FreeSessions(tab) # {}
  /\ LET t == StartSession(c, Min(FreeSessions(tab)))
     IN  tab' = IF ~ok THEN Answered(c)
                ELSE IF c.here THEN [t EXCEPT !.view.step = "answer"]
                ELSE t
  /\ Rest

\* The other side dials in.
PeerJoins(s) ==
  /\ On("nearby") /\ s \in tab.running \ tab.peers
  /\ (s = tab.view.session /\ tab.view.step # "form") \/ (s = tab.ref /\ tab.phase = "table")
  /\ tab' = [tab EXCEPT !.peers = @ \cup {s}]
  /\ Rest

ToTable ==
  /\ \/ InPhase("host") /\ tab.view.step = "invite" /\ tab.view.session \in tab.peers
     \/ InPhase("join") /\ tab.view.step = "answer"
  /\ tab' = SetPhase(tab, "table")
  /\ Rest

\* The End button, or the grace window of a session whose peers have gone.
SessionEnds(s) ==
  /\ s \in tab.running
  /\ s \in tab.peers \/ (InPhase("table") /\ s = tab.ref)
  /\ tab' = Teardown(SetPhase(tab, "summary"), s)
  /\ Rest

PlayAgain == InPhase("summary") /\ tab' = SetPhase(tab, "setup") /\ Rest
Done == InPhase("summary") /\ tab' = GoTo(SetPhase(Dispose(tab), "setup"), "home") /\ Rest

-----------------------------------------------------------------------------
ChunkSettles(r) == ChunkLoads(r) \/ ChunkFails(r)

AnswerComes(c) ==
  \/ \E ok \in BOOLEAN : \/ GuestLoginAnswered(c, ok) \/ UpgradeAnswered(c, ok)
                         \/ LobbyAnswered(c, ok) \/ HandsAnswered(c, ok)
                         \/ InviteAnswered(c, ok) \/ JoinAnswered(c, ok)
  \/ FriendsChanged(c) \/ FriendTableAnswered(c) \/ FriendsListed(c) \/ SocialFails(c)
  \/ HostStarts(c)

ShellNext ==
  \/ \E r \in Routes : Go(r)
  \/ LeaveTable \/ Reload
  \/ \E r \in Lazy : ChunkSettles(r)
  \/ Retry \/ ContinueAsGuest \/ UpgradeWithEmail
  \/ SeatMe \/ JoinByCode \/ Register \/ CreateRoom \/ CreateSng \/ RefreshTables \/ JoinFriend
  \/ Poll \/ AddFriend \/ ResolveRequest \/ RemoveFriend \/ LeaveRail \/ OthersChange
  \/ \E f \in Friends : RailFriend(f)
  \/ RefreshSucceeds \/ LoadMore
  \/ \E p \in {"host", "join"} : Choose(p)
  \/ BackToSetup \/ CreateTable \/ JoinTable \/ CoreLoads \/ CoreFails \/ ToTable
  \/ \E s \in Sessions : PeerJoins(s) \/ SessionEnds(s)
  \/ PlayAgain \/ Done
  \/ \E c \in tab.calls : AnswerComes(c)

\* Timers fire, a chunk's load ends, and not every refresh fails.
ShellFairness ==
  /\ WF_shellVars(Poll)
  /\ SF_shellVars(RefreshSucceeds)
  /\ \A r \in Lazy : WF_shellVars(ChunkSettles(r))

ShellSpec == ShellInit /\ [][ShellNext]_shellVars /\ ShellFairness

-----------------------------------------------------------------------------
(* Properties *)

\* The tab, with the view of the page it shows.
ShellTypes ==
  /\ storage \in BOOLEAN /\ friends \in 0 .. MaxChanges
  /\ tab.route \in Routes /\ tab.phase \in {"setup", "host", "join", "table", "summary"}
  /\ tab.transport \in {None, Cloud} \cup Sessions /\ tab.sockets \in Nat
  /\ tab.ref \in {None} \cup Sessions /\ tab.peers \subseteq tab.running /\ tab.running \subseteq Sessions
  /\ tab.calls \subseteq [op : Ops, arg : Nat, here : BOOLEAN, page : BOOLEAN]
  /\ tab.flagged \subseteq Lazy /\ (tab.flagged # {} \/ tab.token => storage)
  /\ \A c \in tab.calls : c.here => c.page /\ Shown(tab)

\* No transport is open but the one the store holds, and a session that has ended has
\* none (connect, connectLocal and disconnect in client/src/store/gameStore.ts), whatever
\* order pages, answers and sessions come and go in.
OneTransport ==
  /\ ShellTypes
  /\ tab.sockets = IF tab.transport = Cloud THEN 1 ELSE 0
  /\ tab.attached = {tab.transport} \cap Sessions
  /\ tab.attached \subseteq tab.running

\* A socket to the cloud is open only while a table is on the screen: the player's
\* (TablePage) or a friend's (SpectatorTable); never in nearby play.
SocketHasTable ==
  tab.sockets > 0 => On("table") \/ (On("friends") /\ tab.view.rail # None)

\* No request goes out through api.ts in nearby play (request in client/src/net/api.ts),
\* those that an earlier page had left to do included.
ApiIsSilent ==
  [][tab.offline /\ tab'.offline => \A c \in tab'.calls \ tab.calls : c.op \notin ApiOps]_shellVars

\* Whoever stays on the friends page sees the server's list in the end, whatever order
\* the answers come in (the poll of client/src/components/friends/FriendsScreen.tsx).
FriendsCatchUp ==
  <>[]On("friends") => <>[](On("friends") /\ tab.view.shown = friends)

\* A chunk that is missing does not reload the page for ever, as long as the browser
\* stores the mark (client/src/components/error/lazyWithReload.ts).
NoReloadLoop ==
  storage => \A r \in Lazy : [](tab.chunk[r] = "loading" => <>(tab.chunk[r] # "loading"))

\* "There is one network mode at a time" would be this; a session whose start is answered
\* after the player left the page breaks it (no run checks it).
OneNetworkMode == tab.transport \in Sessions => tab.offline

=============================================================================
