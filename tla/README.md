# A verification of the poker server and its clients

TLA+ modules of the Go poker server (`src/server`) and of the TypeScript client (`src/client`): the
hand engine, the tables and tournaments that run it, the connection between server and client, the
play of nearby devices without a server, and the client's own state. They are checked with TLC on
small instances; the safety of the hand engine, the cash table, the sit-and-go, the session protocol,
nearby play and the application shell, and that of the store at the tables of the server and the demo, is proved with
TLAPS for every value of the constants.

`tlc -config <cfg> <MC module>` runs a check, `tlapm <...>Proofs.tla` the proofs of a module.
`PROJECT.json` lists the runs, the lines of source behind every definition, the hazards and the
findings. Paths below are relative to `src/server/internal` and `src/client/src`.

## The system

| part | state | operations | talks to |
|---|---|---|---|
| hand engine (`engine`) | none: a `HandState` in, a `HandState` out | `NewHand`, `Apply`, `Settle` | called by the table and the local core |
| table (`table`) | seats, subscriptions, the running hand, button, deadlines; owned by one goroutine | ten commands, timer expiries, drain, idle shutdown | engine, ledger, history; events to connections; `OnHandComplete` |
| registry (`table/registry.go`) | tables by id, by code, counts by creator | create, remove, drain all | tables, from REST goroutines and back from their shutdown |
| sit-and-go (`tourney`) | registrations, pool, finishers, status | create, register, reap, `onHandComplete`, shutdown | ledger; the tournament table calls it after each hand |
| ledger (`economy`) | balances, refill streaks | buy in, cash out, credit, refill, top up | its store (memory or PostgreSQL) |
| gateway (`ws`) | per connection: an outbound buffer, the tables it addressed | read and route, write, ping, disconnect notice | tables' inboxes |
| client connection (`net/client.ts`) | socket, retry timer, queue of commands, last sequence number | connect, send, close, callbacks of the socket | the gateway, the store |
| client store (`store/gameStore.ts`) | what the table view is drawn from, one transport, the timer of an optimistic bet | an event applied, a bet or rebuy, connect, connectLocal, disconnect | one of the three authorities: a `WsClient`, the demo, a nearby session |
| demo (`net/mockServer.ts`) | a scripted table of timers | a command or a timer | the store |
| tournament screens (`components/tourney`) | banner, toast, placement, standings | shown and dismissed by events, timers and taps | the store |
| nearby mesh (`local/{mesh,coordinator,meshview}.ts`) | a replicated log, a queue, a view of who is there | submit, number, apply, take over, void, resync | the local core, other peers over WebRTC |
| local core (`localcore`, in WebAssembly) | a table without a server | sit in and out, rebuy, bet, seed, timeout, void, snapshot | hand engine; events to the bridge |
| fair seed (`local/{meshseed,fairmp}.ts`) | a commit-reveal round of the coordinator, the shares of each peer | open, commit, reveal, exclude, verify | the mesh, WebCrypto |
| bridge (`local/storeBridge.ts`) | its own account of the stacks | each event of the core reshaped | the store |
| nearby sessions (`components/nearby`, `local/rtc.ts`) | links, who has gone, the grace window, invites | invite, answer, accept, reconnect, end | WebRTC, screens |
| application shell (`App.tsx`, pages, `net/api.ts`, `net/mode.ts`, `components/error`) | route, requests awaited, chunks loaded, the offline flag, the session kept | mount, unmount, answer, reload, poll | all of the client |
| server's lobby, friends, presence, accounts, history, middleware | maps behind mutexes, SQL | REST handlers | the above |

A player's command travels client → socket → gateway reader → the table's inbox → handler, and what
it changed travels back as events in the connection's buffer, numbered by the one counter of the
table. A handler is atomic: the table's state belongs to its goroutine. What is not atomic is
everything around it: the order in which connections' commands and disconnect notices reach the
inbox, timers due at the same time as commands, REST calls that take two locks one after the other,
buffers that drop, and the shutdown that drains tables before it refunds tournaments.

In the browser every callback is atomic, and what is not is the time between a call and its answer:
a request outlives the page that sent it, a socket reports its end after it was replaced, a timer
fires for a bet that was settled, a digest is computed while the round it belongs to is abandoned.
The one store is handed from page to page and from authority to authority while all this is pending.

### What has to be right, and what is hard

- **Hand**: chips are conserved by betting and settlement; the turn is always on somebody who can
  act; nobody is skipped out of matching a bet; side pots give nobody more than it can win; a hand
  ends even if all players are silent.
- **Table**: a hand that a leave, a sit-out or a timeout ends is settled in that handler, and the
  next one may start inside it; the ledger, the seats and the pot together hold what was put in; the
  deadlines exist exactly while somebody may be waiting for them.
- **Sit-and-go**: each buy-in is refunded once or is part of one payout; places and prizes follow
  who outlasted whom; no refund after a payout.
- **Session**: what the client shows is the game after exactly the events up to its cursor, whatever
  was dropped, repeated or reconnected; a live subscriber catches up.
- **Store**: the felt shows the hand it is at, though bets are shown before they are confirmed and
  though the authority behind it may be any of three; nothing that is shown for a moment stays; taps
  arrive in their order and once over however many sockets.
- **Nearby play**: peers that applied the same prefix have the same state; an action is sequenced at
  most once; one coordinator per position of the log; the seed is nobody's choice, and nobody honest
  is accused; the grace window ends a session that is alone, and no other.
- **Shell**: one transport, and only while its page is there; nothing goes to the server during
  nearby play; a list that is polled is the server's in the end; a missing chunk reloads once.

`PROJECT.json` lists each hazard at its line with the properties that guard it, and those that no
property covers yet with the reason.

## Modules

| module | models | state and actions |
|---|---|---|
| `Sums` | none: the sum of a function over a finite set | no variables; for `Hand`, `Table` and `SitAndGo` |
| `Ring` | the walk around the seats, which the engine, the local core and the mesh each code for themselves | no variables |
| `Hand` | `engine/{state,hand,pots,showdown}.go` | no variables: `HandState` as a record `h`, one operator per function of the engine (`Commit`, `Advance`, `NextStreet`, `NewHand`, `Pots`, `ShareOf`, `Awards`) |
| `HandEngine` | one hand played on `Hand` | `Deal`, `Fold`, `Check`, `Call`, `Raise`, `Settle` |
| `Table` | `table/{table,handlers,session,lifecycle,deadlines}.go` for a cash table | the record `t` is the `Table` struct; one action per command, `OnTimer` for an expiry, `Drain` for the shutdown; extends `Hand` |
| `SitAndGo` | `tourney/*.go`, `table/tourney.go` | registrations, controller and prizes; a hand is its outcome |
| `Session` | `ws/gateway.go`, `table.go`'s sends, sequence numbers of `net/client.ts` | sockets, inbox, buffers, the client's cursor |
| `LocalCore` | `localcore` as the mesh can tell two cores apart | no variables: the `LocalTable` as a record, one operator per command |
| `SeedService` | what `mesh.ts` uses of a seed round | an abstract specification: a round opens, completes and is delivered, or is dropped |
| `Mesh` | `local/{mesh,coordinator,meshview}.ts` | per peer its core, log and view (`node`), queue, requests without acknowledgement, seed round, and the peers it takes to be alive; extends `LocalCore` |
| `FairSeed` | `local/{meshseed,fairmp}.ts` and its calls in `mesh.ts` | rounds, shares, frames, the digests that are awaited; implements `SeedService` |
| `Protocol` | `net/protocol.ts` | no variables: commands and events as sets of records |
| `GameStore` | `store/gameStore.ts` with `components/table`'s conditions | no variables: the store as a record `s`, one operator per event and per call |
| `LocalTable` | `localcore` with its chips and events | no variables: one operator per command, on `Hand` |
| `StoreBridge` | `local/storeBridge.ts` | no variables: the bridge's account, one operator per event it reshapes; extends `LocalTable` |
| `LocalPlay` | a player of a nearby game | core, bridge and store together, one action per entry and per tap |
| `MockServer` | `net/mockServer.ts` | no variables: the mock as a record, one operator per timer and command |
| `Demo` | a player at the demo | `MockServer` and the store together |
| `WsClient` | `net/client.ts` without sequence numbers | no variables: a client as a record, one operator per call and per callback of its socket |
| `TourneyView` | the store's part of a tournament and `components/tourney` | no variables |
| `Online` | a player of a sit-and-go, over a network that loses connections and events | `WsClient`s, wires, the store, the screens |
| `StorePlay` | the store over each authority | `LocalPlay`, `Demo` and `Online`, one of which is entered |
| `Nearby` | `components/nearby/session.ts`, `local/rtc.ts` and the screens around them | the host's screen and invite, links with two ends each, a session per device |
| `Tab` | `App.tsx`, what pages do when they mount and unmount, the wrappers of `net/` | no variables: the tab as a record |
| `Shell` | the life of a tab: pages, buttons, answers, chunks | one action per tap, answer and timer; extends `Tab` |
| `HandProofs` | lemmas on sums, ranks and shares, and on the operators of `Hand` | |
| `...Proofs` | theorems of `HandEngine`, `Table`, `FairSeed`, `SitAndGo`, `Mesh`; those of `Nearby` and `Shell` in `NearbyProofs`, of `Session` and `StorePlay` in `SessionProofs` | |
| `MC...` | instances for TLC | constants, symmetry, and for `MCTable` a second start state |

Definitions whose comment begins with "Mutant" are those a plausible bug would make of the
definition after them; the runs tell them apart from the real ones, which is how each property shows
that it depends on the code.

### Correspondence and abstractions

**Hand.** The code keeps only the dealt seats in a slice and walks it by position; the model indexes
by seat and gives the others the status `SittingOut`, which all the walks skip, so positions and
seats have the same order. Cards do not exist: `board` counts community cards and `best` gives each
seat the strength of its hand, so TLC tries every outcome, ties included. `Bet` and `Raise` share
their code in `Apply`, so one operator serves both. The loop of `nextStreet` that runs out the board
is one step, since it does not stop until the showdown.

**Table.** `t' = ...` in an action is the whole handler: `Apply` includes the settlement, the
rotation of the button, the next deal with the eviction of broke seats, and the pending folds.
`Leave` follows `handleLeave` line by line, with the ghost seat that is still there while the hand
it left is settled and the next one dealt. Errors sent back to an actor change nothing and are not
actions. Time is which deadlines are armed; an armed deadline may be found due at any step, alone or
together with others, so every order of commands and timers is explored and a timer may also be
late. Two history components follow money the code loses or makes: `t.astray` adds up the chips in
pots paid to nobody and takes off those paid twice; `reused` marks behaviours in which a newcomer
took a seat number the running hand still refers to. Players hold several seats if they want to, as
the code lets them.

**SitAndGo.** `Register` is two actions, `Find` under `m.mu` and `Signup` under `s.mu`, since the
code releases the first lock in between; `Reap` is what any REST call does first. A hand of the
tournament table is any redistribution of the dealt seats' chips that side pots allow, which
`HandEngine!ChipsSettled` shows of the engine: no seat wins more from another than it risked itself
(`Reach`). The table knows its seats by number, and a player may hold several, so stacks and owners
are kept by chair (`seated`, `sitter`); what the controller and the leaves know of a player comes
from there. The status may have been `Registering` or `Complete`
for longer than its TTL (`overdue`) at any time. `handleSitDown` does not ask whether the table is a
tournament's, so `SitDown` is an action here: an eliminated player may buy in again, or one who
plays take a second chair. A newcomer in a chair whose former owner is still in the hand is left to
`Table` (`reused`). `late`,
`leaves`, `returns` and `leaked` are history: whether somebody signed up after the reaping, how
often somebody left the table and sat down at it, and the chips that went to the ledger, less those
that came from it. Chips may vanish from a hand where the engine's dropped layers allow it
(`MostLost`). A `Register` that finds the SNG closed changes nothing and is no step. Blind levels
and the wait for all players before the first hand are left out.

**Session.** The game is a version, incremented by every broadcast and carried by every snapshot;
the view is the version the client has applied. A connection is lost at the server at any moment
(`LoseSocket`), which drops what is on the way in both directions; the notice (`NotifyDisconnect`)
comes later, perhaps after the client has opened and joined on the next one, and only if the
connection had addressed the table (`joined`). `Sent` drops when the buffer is full. Private events
take numbers of the same counter, those for other subscribers included (`PrivateElsewhere`).

**LocalCore and LocalTable** are the same Go code seen twice. For the mesh a hand is its seed, the
seats dealt in, the order of at most `Turns` betting actions and a count of events; of the chips it
keeps who has none. Two constant operators stand for what bets and cards decide: `AllIn(c)`, the
seats of the hand with nothing behind, and `Paid(c)`, those that take chips from the pot. They are
functions of the core, as bets and cards are of the log, and the theorems hold for any two of them.
A seat that the hand leaves with nothing (`Lost`) sits out from the settlement on, of which no event
speaks (`deal.go:214–220`, `SettleHand`); a seat list shows it, and shows live stacks while a hand
runs (`Unfit`, `views.go:164`); only `HandleRebuy` makes it ready again. How much a stack holds is
left out, so that a hash may fail to tell two decks apart once the hand is over, as it may in the
code when both pay the same; and a blind that takes a seat's last chip shows in a seat list from
the seat's turn on only. `StateHash` leaves out what the code's does: the seed that waits for
the next hand and the pending folds. For the store a hand is the engine's, with its chips, and each
call gives the events it emits in their order, those for everybody before those for one seat
(`core.ts:36` delivers them so). Both start with all peers seated.

**Mesh.** `Tick` is the whole beat: the retries that are due, then, for a coordinator, the queue,
and one of void, timeout and seed round. Who coordinates is computed by each peer from its own view,
which follows the events of its own log (`UpdateView`; `hand_dealt` goes to the dealt players
alone). What is broadcast stays in `sent`, and a peer may take the entry that comes next for it at
any time or never: live, relayed, gossiped and buffered frames differ in delay only. So it is with
requests and their acknowledgements. The seed round is the one of `SeedService`: begun in one beat,
found complete in another one, and its seed logged later, before the next beat (`TICK_MS` is 250, a
digest takes less). A snapshot is the log of a peer that is not resyncing, or an earlier part of it.

**FairSeed.** A share is a number and its hash is the share itself: nobody finds another share with
the same hash. A frame stays in `net`, so that it is late, repeated, reordered or lost as it likes.
The waits on WebCrypto that another callback can overtake are steps of their own: the coordinator's
own commitment (`StartCommit`, `OwnCommit`), the check of a reveal (`OnReveal`, `Opened`) and the
combination of the shares (`Finish`, `Deliver`). The mesh around it is its role, gained and lost at
any time (`Moves`), and the hand of a seed (`HandOver`).

`ServesTheMesh` is the refinement: with `RoundStates` for its variable, every behaviour of
`FairSeed` is one of `SeedService`, its fairness included. This is what allows `Mesh` to be written
on three states of a round instead of its messages.

**GameStore, and the players on it.** An event is its type with the fields the reducer reads; cards,
names, sounds and wording are gone. The optimistic bet keeps what matters of it: that one is
pending, whether its timer runs, the stack and amount it shows, and which events confirm it or take
it back. `LocalPlay` is an entry run on the core, its events through the bridge, and the reducer, in
one step as in `onApplied`; the player's own requests come back any time after the tap or are given
up. `Demo` fires the mock's timers in the order browsers do (`MayFire`: a timer may not overtake one
set earlier for no longer). `Online` has one `WsClient` per visit to the page, since the page makes
a new one each time while the sockets and timers of the old ones are still to report; the server is
what the page can tell of it. An event that a full buffer drops leaves a gap, and the next one
brings a request for a snapshot instead of being applied. `StorePlay` chooses one of the three and
puts each one's authority in the place of `core`, so that one set of properties is asked of the
store everywhere.

**Nearby.** A link is an answer a guest made; each of its ends waits for the channel on its own,
opens, gives up, or reports a loss up to twice (connection and channel each may). People pass codes
or do not.

**Tab and Shell.** A page is its route and what it holds beyond what is drawn: its session, its
lists, its pending requests. An awaited request is a record that says whether the component and the
page that sent it are still there; its answer does what the code after the `await` does in that
case. Routes whose pages hold nothing are all `home`.

External code: the Go channels and mutexes, WebSocket and the browser's `WebSocket`, timers and
WebCrypto are modelled by how the code uses them; so are the data channels and the peer that closes
the app (`Mesh!Crash`).

## Runs

| run | instance | properties | shows |
|---|---|---|---|
| `hand` | 3 seats, blinds 1/2, stacks 0–5, 3 strengths | `SeatAccount`, `TurnIsOwed`, `PriorStreetsMatched`, `ChipsSettled`, `StreetClosed`, `RaisesAreFull`, `HandCompletes` | the engine's invariants over every deal and betting sequence, and that the turn timer ends every hand that can start |
| `table` | 2 players, 2 seats, buy-ins 2–3, 2 hands, eviction after 1 | `SeatsAndChips`, `SnapshotIsExact`, `TurnClockRuns`, `BetweenHands`, `NotIdleInUse` | the life of a table: money, snapshot, deadlines, dealing, the broke mark |
| `table_seated` | 3 seated players, 2 hands | `LiveAndAccounted`, `SitOutIsHonoured`, `HandEnds` | no hand stuck or over and unsettled; sit-outs honoured; hands end |
| `sng` | 3 entrants, stacks of 2, pool 9 split 50/40/10 | `MoneyAccounted`, `StandingsAreFair`, `PaidOnce` | buy-ins, places, ties and prizes, no payment after the payout, with leaves and sit-downs at the tournament table |
| `session` | 1 client, 2 sockets, buffer 2, 2 broadcasts of the game and 1 private event | `BoundedAndInStep`, `NoDeadSubscription`, `ClientCatchesUp` | the client is in step and catches up |
| `mesh` | 3 peers, hands of 2 actions, 6 entries, 2 requests, 2 tries | `OneLog`, `ActionsKept`, `DealerHasButton` | one log, no request forgotten, the button at the dealer, or after one that went broke |
| `mesh_split` | 3 peers, 4 entries, 1 request (to sit out, or a rebuy), a crash or a live peer taken for gone | `LogIsEnough` | no peer keeps an entry that its core does not reproduce; log and core agree after a resync |
| `fairseed` | 3 peers, 2 of which coordinate, 2 rounds in all, 1 change of the role | `NoFalseAlarm`, `ServesTheMesh` | no honest dealer accused; a round opens, and completes or is dropped, whoever is silent |
| `store_play` | a nearby table of 3, the demo's 6 seats, a sit-and-go of 3 | `StoreFollowsTable`, `FeltShowsTable`, `CommandsInOrder`, `NothingLingers`, `PlayerGetsTable` | one store over three authorities: the felt, the previews, the order of the taps, the reconnects |
| `nearby` | a host, 2 guests, 2 answers | `HostIsTold`, `TimesOutAlone`, `AloneEnds` | the grace window: announced, never for a session with company, and never endless |
| `shell` | 2 sessions, 2 friends, 2 pages of history, 2 short and 1 lasting request, 1 change of the list | `OneTransport`, `SocketHasTable`, `ApiIsSilent`, `FriendsCatchUp`, `NoReloadLoop` | one tab over its life: transports, requests that outlive pages, polls, chunks |
| `table_leave` | as `table`; **violated** | `ChipsConserved` | a leave that ends the hand pays the leaver's next blind twice |

Properties that say several things are conjunctions of named parts, which stand before them in the
module; the type invariant of a module is one of the parts.

### Bounds

- `hand`: with a big blind of 2 and stacks up to 5 the deals have short blinds, blinds that are
  all-in, three different all-in levels, full raises (2 → 4) and short all-in raises (to 3 or 5);
  three seats are the fewest with side pots, a folded contributor in a contested pot, and a
  three-way split with odd chips; three strengths give every order of three hands. Four seats are
  left to the proofs.
- `table`: two hands are the fewest in which a deadline, a fold or a broke mark of one hand can
  reach the next. `BrokeUnseatAfter` is 3 in the code and 1 here, and `MaxBuyIn` is 1000 big blinds
  there and one and a half here: only comparisons with them matter. `MaxHands` is a guard of the
  deal, so a table at its bound is one whose players do not get ready again. Players are symmetric.
- `table_seated`: the state every behaviour of three `SitDown`s reaches, then no new players and no
  lost connections: with them the three-seat table is too large, and the two-seat run has them.
- `sng`: three players are the fewest for a simultaneous bust with a survivor and for a leave that
  does not end the hand; a pool of 9 in parts of 50, 40 and 10 rounds and leaves odd chips. An
  account starts with one buy-in, so a second signup is refused for want of money until a refund or
  a leave; two `Register` calls at a time are enough to race each other and the reaper; two moves
  (`MaxMoves`) are a leave and a return, two leaves, or a second chair; any number of moves is left
  to the proofs. What a player brings back
  (`TableBuyIns`) is less than a stack, so that the sizes differ. Players are symmetric.
- `session`: two sockets are an old and a new one; a buffer of 2 overflows with a broadcast, a
  snapshot and a private event; one private event makes one false gap. The number of sockets bounds
  disconnects, rejoins and grace periods; snapshots are bounded by gaps and joins.
- `mesh`: two actions are the fewest that end a hand of three (two folds); six entries are a hand
  and the deal of the next one, where the coordinator changes; two requests may be in one queue or
  with two coordinators; two tries are one retry (`MAX_ACTION_TRIES` is 5). `MaxEntries` bounds what
  is broadcast in all forks together. Everybody in the hand is all-in when the betting is over
  (`MCAllIn`), and all but one seat get chips from the pot, which one depends on the number of
  events and hands (`MCPaid`): so the ways a hand may go break each of the three seats, among them
  the next dealer, or, if that seat folded or sits out, none.
- `mesh_split`: a single loss is enough for two coordinators: a peer that takes the dealer for gone
  voids the hand and deals, while the dealer goes on. Four entries are the deal and the first fork;
  resyncs and the replay of the other fork are among the states. The request is to sit out, which a
  core that has the turn answers with a fold: it does to a log all that a bet does; or a rebuy, an
  error in a hand and a seat list without one. A rebuy after a bust needs more entries and is left
  to the proof of `LogIsEnough`.
- `fairseed`: two coordinators are the fewest that use the same round number, and `MaxRounds` counts
  the rounds of both together, so that they have one each or one has two; three peers give a round
  that excludes one and goes on with another. One move lets a second coordinator in, or takes the
  role in the middle of a round. A round may start again as often as peers are excluded.
- `store_play`: nearby, two hands (`MaxHands`), one request of the player under way (`MaxSent`) and
  one upset (`MaxUpsets`: a raise to 3, a sit-out, a void or a deal on top of a running hand) with
  stacks of 3, so that a call after a raise is all-in; one assignment of strengths, by which those
  who are left split or one of them wins. At the demo, two deals and three taps: a bet confirmed
  across a deal and a second run-out. Online, two visits (`MaxClients`), so that the old one's
  socket and timer overlap the new one's, and two among bets, ends of hands, losses, drops and
  refusals (`MaxSteps`); two opponents give an elimination after which the tournament goes on.
- `nearby`: two guests are company and a loss beside it; two answers are a link and its reconnect,
  or two links. A loss is reported up to twice, so a report may come after the reconnect. Any number
  of guests and links is left to the proofs.
- `shell`: two sessions are the one that runs and the one an old page still starts; one change of
  the friends list is enough for answers to differ; `MaxLasting` of 1 keeps one request at a time
  that outlives its page, and two others overlap.

All runs but `shell` say `CHECK_DEADLOCK FALSE`: a settled hand, a stopped table, a finished
sit-and-go, a client at the end of its sockets, peers at their bound or all sitting out, a session
that has ended, and a store whose player has used up the bounds really stop.

### Fairness

- `HandEngine`: weak fairness of `AutoAct`, which is what `onTurnTimeout` does for a silent seat
  (check if that is legal, else fold), and of `Settle`, which the table calls in the handler of the
  last action. No player has to act.
- `Table`: a deadline that stays armed on a running table fires in the end (the loop re-arms one
  timer for the earliest deadline after every change). It is weak fairness of `TurnExpires`, with
  what enables it, `t.turnArmed /\ ~t.stopped`, written out in `TurnClockFair`; TLC finds the
  general form too slow. Expiries need not act: on the short heads-up button the expiry only clears
  the deadline, which is why `HandEnds` leaves that hand out.
- `Session`: the loop takes commands, readers read, the notice after a lost socket is given, and the
  client handles what arrives. Nobody has to reconnect, and the game need not go on. The claim
  `ClientCatchesUp` is for a subscriber whose buffer has dropped nothing since its last snapshot: an
  event dropped last leaves no gap, and the client does not know until the next event.
- `FairSeed`: the beats and the round timeout of a coordinator come (`Finish`, `AskReveals`,
  `Exclude`, `Abandon`), and WebCrypto answers (`OwnCommit`, `Deliver`). No frame need ever arrive
  and nobody need ever answer.
- `StorePlay`: timers fire; digests end; online, the browser gets its connection unless that fails,
  and the server reads what is on the wire. They are one weak fairness (`Machines`): every one of
  these steps uses up what enabled it and the rest is bounded, so that each can happen only finitely
  often. Nobody taps, no bet need be answered, and connections may fail as often as `MaxSteps` lets
  them.
- `Nearby`: the grace timer fires, and the browser reports a lost link (`EndTimerFires`, `Report`).
  Nobody needs to pass a code.
- `Shell`: the poll's interval (`Poll`); strong fairness of `RefreshSucceeds`, that is, not every
  refresh fails; a chunk's load ends one way or the other (`ChunkSettles`). Nothing is asked of the
  person, and other answers need not come.

## What the runs say of the code

The invariants hold, with the exceptions they name. The exceptions are findings, and are worth
reading together. A definition that no run checks states what a comment says and the code does not
do; its comment says so.

**Engine, table and tournament**

- `Table!ChipsAccounted` is exact only with `astray`. Chips vanish when the dropped layer of
  `BuildPots` (`engine/pots.go:53`: a layer only folded seats reached is paid to nobody;
  `HandEngine!WholePotPaidOut`), a pot awarded to a seat that has left, or a voided hand of a
  departed seat is involved; chips appear when a player who had folded leaves (the cash-out is the
  stack from before the hand), or when a leave deals the next hand to the leaver (`table_leave`).
- `TurnIsOwed`, `HandCompletes`, `HandIsLive`, `TurnClockRuns` and `HandEnds` all leave out
  `ShortButton`: a heads-up button all-in with its small blind is asked to act (`engine/hand.go:95`;
  `HandEngine!ReadyToAct`).
- `SitAndGo!PoolPaidOut` and half of `PlacesFilled` need `Undisturbed`: the controller does not know
  of leavers, so places and their prizes are skipped. After a return (`returns > 0`) a player may be
  placed twice, and is credited its last prize once for each place, so neither the places nor the
  sum of the prizes come out, although `TourneyRules` rejects rebuys while the tournament is live:
  `handleSitDown` asks for nothing but a free seat and a buy-in. A leaver's stack goes to the ledger
  (`leaked`), although `drainShutdown` says that tournament chips are no ledger balances.
  `BuyInsAccounted` needs `~late`: a registration that races the reaper loses its buy-in
  (`tourney/manager.go:157`; `ReapedHoldsNothing`).
- Met while reading, outside the modules: the hand record of an all-in run-out lacks its board
  (`table/handlers.go:209` records `OnStreet` only before the showdown), out-of-turn folds are not
  recorded, and no record holds hole cards, on whose absence `HandDetail.tsx` throws.

**Connection and store**

- In `Session` a client may be subscribed, then unsubscribed by the notice of its former socket, and
  hear nothing until it reconnects (`table/session.go:123`; `DisconnectedMeansDropped`).
- A refused handshake is HTTP 401 (`ws/gateway.go:109`), which a browser reports as 1006, so the
  client retries for ever, while 1008, which `net/client.ts:34` takes for a rejected handshake, is
  sent by the server for an exceeded rate limit only: that player is told to sign in again and never
  reconnects.
- A bet tapped while offline is delivered after its preview was taken back, perhaps into a later
  hand; a leave tapped while offline is dropped by the close behind it, and the seat is kept; the
  late "closed" of an old client overwrites the status of the new one, which is why `ScreensAreTrue`
  makes no claim about "closed".
- An elimination or a result lost in a gap is in no snapshot: `ScreensAreTrue` says what is shown is
  so, not that what is so is shown. The message of a fatal error stays over a later visit
  (`PlayerGetsTable` counts it as an answer). The server announces `table_status` when waiting
  begins only, so "Start Game" stays.
- Nearby, the first seat of a street is not shown its turn: the bridge's `onStreet` has none
  (`LocalPlay!TurnIsShown`), though the bridge is to "render an offline hand identically"
  (`local/storeBridge.ts:2`). A seat list in the middle of a hand makes it count stacks from a wrong
  base, even below zero, which `StacksShown` leaves out (`exact`).
- At the demo a second bet starts a second run-out, whose timers repeat streets and act on the next
  hand; a bet made just before a deal is confirmed after it with the stack of before, which
  `FeltShowsMock` leaves out.

**Nearby play**

- A broke seat may be the dealer. `coordinator.ts:33–37` says "A busted or sitting-out seat is
  skipped so the successor is always a peer that can drive a hand". But the settlement that takes a
  seat's last chip emits `showdown` and `fair_reveal` and no seat list (`deal.go:214–220`), so all
  views keep the stack the seat was last shown with, and when it is the next one after the button it
  coordinates: it runs the round, logs its seed and its `sit_in`, and the core, which knows better
  (`eligibleSeats`, `deal.go:12–23`), gives the button to the next ready seat. The mesh stays calm
  all along. `DealerHasButton` names the case: the peer that brought the seed has the button, or is
  in the core's `broke` and the next seat dealt in has it. Without that exception, as
  `Running(c) => c.deck[1] \in c.dealt`, TLC refutes it on the instance of `mesh`. The logs stay one:
  the `sit_in` carries the seat list that sets every view right. Nobody deals twice, but a broke
  dealer is dealt no hand and keeps `dealingInProgress` (`mesh.ts:121`, 438), so that it opens no
  round when it coordinates after a rebuy. If the settlement leaves a single seat with chips, the
  dealer's `sit_in` deals nothing.
- In a hand a seat list shows live stacks, so a sit-out or sit-in of anybody shows a dealer who is
  all-in without chips; the view no longer finds it eligible, and its hand is voided as that of a
  dealer who dropped (`mesh.ts:286`). The model has it; `Calm` leaves sit-outs out.
- `Mesh!SamePrefix`, `ActionsKept` and `DealerHasButton` are about a `Calm` mesh. The code gives
  that up where it says so (a peer taken for gone may fork the log until a resync), and in two more
  cases. `Overrun`: a coordinator whose queue holds a request behind the one that ends its hand
  numbers both, while the next coordinator may number the second place itself. `leftover`: the beat
  whose queue ends the hand goes on to open a seed round (`mesh.ts:303`), though the role has moved
  by then; the next beat, as that of a follower, abandons it (`mesh.ts:186`). A peer that misses all
  its beats from there until it has the role in a later hand takes the round up when that hand is
  over, and its seed may come when the role is with another peer that logs one too. For that a
  peer that nobody takes for gone must miss its beats for several rounds of others, and get the
  button from a broke dealer, since otherwise a button's hand was dealt by that peer's own beats;
  the model has these behaviours and records them in `leftover`. `Calm` excludes both cases, and
  of them nothing more is claimed than of any fork: `LogIsEnough`, which needs no calm. It excludes
  sit-ins and rebuys of players because a seat that was dealt no hand has missed the button
  (`hand_dealt` goes to the players of a hand), and when it is eligible again its view may name
  another coordinator than the others' do. Known to the model, too: a
  retry whose acknowledgement was lost is numbered again by the next coordinator, which does not
  know what the former one numbered (`mesh.ts:82` says that retries never double-apply); a live
  dealer who sits out during its hand has it voided, since the view no longer finds it eligible
  (`mesh.ts:284` takes that for a dealer who dropped); and after a void the button has not moved, so
  the next coordinator deals with the button at the dealer who is gone.
- A seed that lacks a peer's commitment is found honest by it (`meshseed.ts:174–177` against 194;
  `FairSeed!HonestMeansIncluded`).
- A late second report of a lost link strikes out the peer that has come back (`session.ts:265`),
  which is the exception in `TimesOutAlone`: at a guest the link that was lost is an earlier one than
  the one that is up. At the host it may also be a later one, when the sheet was closed and opened
  while the first answer was still being dialled; that takes two guests and four answers, more than
  the run has, and came up in the proof. A dial that ends after the session did attaches to it
  all the same; an answer nobody accepts waits without a timeout; a dropped guest of three cannot be
  invited again.

**Shell**

- A session whose start is answered after the player left the page connects its transport and is
  never ended (`Shell!OneNetworkMode`; `net/mode.ts:7` says there is one network mode at a time).
- `social.ts` and `hands.ts` do not ask for the offline mode, so `ApiIsSilent` is about `api.ts`
  alone.
- With storage blocked a missing chunk reloads the page for ever, although `lazyWithReload.ts:28`
  says that then it does not reload; hence `storage =>` in `NoReloadLoop`.
- Going back to the sign-in page while a guest login is awaited makes a second guest, and the later
  answer wins. An answer that comes late takes the player to a table from whatever page is shown by
  then.

## Proofs

Every proof is for all values of the constants that satisfy the assumptions named in the module. The
bounds of the instances are constants too, so a theorem holds for any number of hands, moves or
calls.

**`HandProofs`** begins with what the money needs: a sum splits along a partition, changes with its terms,
can be taken over the images or over the values of a function (`SumImage`, `SumClasses`), and equals
a product for equal terms. `SumOver` is defined by recursion over subsets, by way of the community
modules' `MapThenSumSet`; the step of that recursion is proved from the well-ordering of the numbers
(`LeastNat`), and induction over a number or a finite set is the argument that a set of numbers
closed under the step is all of them (`NatInduct`, `SetInduct`). `RankOfEach` gives each element of
a finite set with a strict total order a rank of its own, and `SharesSum` that equal shares with the
odd chips given to the first ranks add up to the whole: the pot of the engine and the tied prizes of
a tournament are both paid in this way.

It goes on with one lemma per operator of `Hand` and question: what an action, a street or a
deal does to the types (`HandState`), to the account of each seat (`ChipsOK`), to the pot (`PotOK`),
to the turn (`ClockOK`) and to who is in contention (`ContestOK`); that the walk around the table
finds a member of a nonempty set and the blinds are two seats; and that the layers of `BuildPots`
add up to the contributions, by a telescoping sum over the levels.

**`HandEngineProofs`** (`NumSeatsAssumption` of `Ring`: at least two seats; `BlindsAssumption`: positive small
blind no larger than the big blind) proves all safety properties of the run `hand`. The inductive
invariant `HandInv` has four parts: types; the account of every seat; the turn, which during the
betting is on a seat that owes an action unless the button was short; and, for the matched streets,
that what any seat put in before this street is no more than what each seat still able to act did.
The last is inductive only together with two facts about the street under way: no seat has committed
more than `currentBet`, and a street ends only when all who can act have matched it. `MoneyInv` adds
what the settlement needs: the pot is the sum of the contributions, who was not dealt in put in
nothing, and until the showdown at least two seats contend; once settled, the payout is what
`Awards` gives for some strengths. From it `ChipsAreSettled`: each layer is shared among its winners
without remainder, each share stays within what its winner's contribution matches, and a bet above
all others is in a layer that only its seat is eligible for.

**`TableProofs`** (`TableAssumption`: finitely many players, blinds as above, buy-ins of at least a
big blind) proves the safety properties of both runs of `Table`. Its invariant `TableInv` says what
a table is between two handlers (`Between`): either a hand goes on, well formed, on a seat that owes
an action and did not ask to sit out, with the clock armed (or on the short button), or there is no
hand and no two seats are ready, and the clock is off. Only the hand's own invariant makes the
second part inductive, since a hand may end, be settled and be followed by the next one within one
handler. So the lemmas follow the helpers that handlers are made of (`StartHandIfReady`,
`SettleHand`, `ApplyHand`, `DriveAutoFolds`, `FoldSeat`, `VoidHand`): each takes a table that may be
in the middle of a handler to one nearer its end (`ReadyOK`, `Handled`). The chips are one equation,
accounts, pot, what each seat owns and `astray`, and it needs `SnapOK`: a dealt seat still shows the
stack it was dealt with, so that voiding returns what it should. `SitOutIsHonoured` is an action
property and follows the same way (`Kept`).

**`SitAndGoProofs`** (`SitAndGoAssumption`: what `validate` asks of a config, with percentages that
do not rise from one place to the next, as those of `DefaultPayoutPct`) proves the properties of the
run `sng`. `PaidOnceAlways` needs that a complete tournament deals no more (`StoppedWhenComplete`):
it is the controller, called within the hand, that stops the loop, also when a leave ends the hand in
the middle of its handler. `MoneyAlwaysAccounted` and `StandingsAlwaysFair` follow from `SngInv`:

- `SignUpsOK`: nobody is signed up twice, and before the last signup there is no table;
- `SeatsOK`: seats, eliminations and leaves count up to the entrants and the returns, so that "the
  first place is free" is known when the last opponent busts;
- `PlacesOK`: the places given out are the last ones, each once, and a later batch has better ones;
- `FinishersOK`: as long as nobody returned, nobody finishes twice, and who finished has no chair;
- `PoolOK`: accounts and registrations add up to what was minted, the pool is the registrations
  while anything may still be paid from it, and after the payout the accounts lack only the prizes
  of places that were skipped.

The prizes add up because the cuts of the pool never exceed it (percentages that add up to 100, each
rounded down), those of a tied group are shared without remainder (`GroupIsPaid`), and the groups
partition the finishers (`PrizesAddUp`, `CreditsAddUp`). They follow the places because the mean of
a better group is at least that of a worse one (`MeanAbove`, `MeanBelow`), and within a group the
odd chips go to the better places.

**`SessionProofs`** (`SessionAssumption`: at least one socket and a place in the buffer):
`BoundedAndInStepAlways` and `NoDeadSubscriptionEver`, for any number of players, sockets and
events. What the client shows is right because every event under way, in whichever buffer, tells the
truth about the numbers given out (`Good`): a broadcast's number is one of those given to
broadcasts, a private event's is not, and a snapshot's version counts the broadcasts up to its
number. Giving out a further number changes none of this (`GoodGrows`), so that a view that follows
the code's rules of equal, next and gap counts exactly the broadcasts up to its cursor (`ViewsOK`).
The dead subscription needs two parts more: a join in the inbox belongs to a connection whose end
will be told, or the notice is behind it in the inbox (`JoinsOK`), and the same of the subscription
itself (`SubsOK`).

The same module has the store at a table of the server (`StorePlayAssumption`: there is an opponent):
`CommandsStayInOrder` and `OnlineScreens`, from `StoreOnlineInvariant`, for any number of sockets,
losses, reloads and taps. Only the client of the visit that lasts is not done, and a client that is
done has no socket (`ClientOK`); what is on a wire begins with the join of its socket unless the
server has read that. The bets are a line from what the server has read over the wire to the
client's queue, in which numbers ascend and end at the taps so far (`BetsOK`): a socket that opens
sends its join and then the whole queue, and one that is lost takes its wire with it, and either
leaves the line ascending. What the page makes of a list of events is a fold of
the community modules. That it keeps what every single event keeps is proved from the fold's
definition (`PageFolds`): a recursive function that satisfies the definition's equation exists
(`ChainExists`), whichever one is chosen is right wherever its values have a type (`IsFold`), and so
its value at the whole list is the end of a chain of single steps (`Ends`). The events that keep the
screens true are those that tell of the tournament as it is at the server (`Truthful`).

At the demo table the same module proves `DemoFelt`, from `StoreDemoInvariant`. Who is not at the
table is shown no hand and has no timer set (`DemoGood`); so a callback runs on a store that
listens. The felt agrees with the mock (`Agrees`) because every callback tells what it changes: a
deal and the advance to a street by a snapshot, a bot's bet by its own event. Only the player's bet
changes the mock before the store hears of it, and then a confirmation is under way, which nothing
takes away but the callback that tells (`WithTimers`). What a callback tells is a list of events and
what it starts a list of timers; both are folds, unrolled as above. The mock never asks whether a
stack can pay, so a stack may fall below zero, and so the amounts of events are `Int` in `Protocol`:
with `Nat` the invariant is not inductive, and a run with more taps shows the event that no type has.

**`FairSeedProofs`** (`FairSeedAssumption`: coordinators are peers, at least one round):
`NoFalseAlarmEver`, and `RoundsServeTheMesh`, the safety part of the refinement: initial states map
to initial states and every step to a step or a stutter of `SeedService`. A peer keeps one share for
a round key and answers every request with it, and only the coordinator draws anew when the round
starts again; so the shares of others agree wherever they are found, a round, a frame or the peer's
memory, and a coordinator's share changes together with its commitment (`CollectedBy`). For the
refinement a round that is being combined is complete and no other is open beside it (`RoundsOK`).

**`MeshProofs`** (`NumSeatsAssumption`, `LocalCoreAssumption`, `MeshAssumption`): `LogsSuffice` and
`TypeCorrect`, from `MeshInvariant`, with losses, crashes, forks and resyncs as they come. At a peer
that follows, the node is what `Replay` makes of its log, and every entry carries the hash that the
replay up to it leads to (`Faithful`). `Replay` and the coordinator's queue are folds, which
`FoldAt` unrolls from the front (`ReplayAppend`, `EmitNext`); that what holds of the empty log and
is kept by an entry holds of every log (`LogInduct`) takes the place of an induction. Three facts
make `Faithful` inductive: running an entry depends on the core and the entry's inputs, so that a
coordinator, which runs the entry before it is stamped, and a follower, which runs it after, get the
same core (`EmitIsCommitted`); what a log makes of a core is the same at every peer, and its view
does not depend on whether the peer is dealing (`ReplayParts`), so a resync may replay another
peer's log; and a peer that refused an entry is the only one with a core its log does not explain,
and it waits for a snapshot. `RunType` has the types of every call of the local core, down to the
acting order (`ClockwiseIsRow`), and `LogsOK`, `RequestsOK` and `OwnRequests` say what the logs and
requests of all peers are; the entries of a log are told apart by their numbers, which bounds its
length (`LogLength`).

`OneLogForAll`, `DealersHaveButton` and `NoActionLost` are what `Calm` adds, from
`CalmMeshInvariant`, which is `MeshInv` with:

- `Calmly`, about one log alone: after each of its beginnings the views it makes of the peers agree
  (`Agreed`: all take the same seats for unfit, each of which sits out or is broke in the core, and
  who is not among them has the button where the others have it), so that exactly one peer may
  number the next entry unless all are unfit (`LeadsIs`), and that peer did. The views need not know
  who is broke: it is enough that they do not know it together. In a hand the button leads, between
  hands the next seat that is not taken for unfit; an entry moves the role only by ending the hand
  (`PlaysAgreed`), or, when the dealer is broke, by dealing it: the button then goes to the next seat
  of the hand, as core and views walk the same ring (`FirstPast`), and the dealer's `sit_in` shows
  everybody who is unfit (`DealAgreed`);
- `OneLine`, about all logs: one entry for each number, and who numbered an entry has it in its log.
  So the coordinator by its own log has every entry there is: had another one numbered the next
  place, it would lead after the same beginning. What it numbers now is therefore new, and a follower
  that runs an entry gets the hash the entry carries, from the same beginning (`LogReproduces`).
  Nobody refuses one, and `resyncing` stays empty;
- `RoundsOK`: a complete round is the coordinator's, between hands, with two players. This is what
  a late `SeedReady` needs, whose code asks nobody who coordinates. A round may be completed only by
  a beat between hands of a peer that leads, and a round it brings from a hand is what `leftover`
  excludes. If all are unfit, the host is left to beat, numbers nothing and opens no round
  (`CoordinatorLeads`, `IdleTick`);
- `RequestsKept`: what a peer has acknowledged is in its queue or in its log, hence what a player
  drops on an acknowledgement is somewhere. A peer that loses the role with requests in its queue
  keeps them there, as the code does.

A step into a calm state starts in one (`StepGrows`: entries, losses, overruns and what `leftover`
records are never taken back), so the invariant may take `Calm` as a hypothesis on both sides of a
step. A batch is the hard case, as it may end the hand in its middle; what `Calm` says of `Overrun`
is just that nothing follows there (`BatchCalm`).

**`NearbyProofs`** (`NearbyAssumption`: the host is no guest, and `NoDevice` is none): `HostIsAlwaysTold` and
`TimesOutOnlyAlone`, from the invariant `NearbyInvariant`. Its parts about links say that they are
made in order, that an answer nobody has taken up has not moved (`AnswersAreNew`), and that a
session holds ends of its own that opened (`ConnsAreOwn`). Two parts carry the grace window: it runs
only while every peer the session had is struck out (`TimerMeansAlone`), and who is struck out has
lost a link (`ClosedHasLost`). So the banner is taken down by whatever stops the timer, and a session
that gives up has company only by a late report. That at a guest such a report is of an earlier link
rests on how a guest gets a second one: it answers again only after the link before was over at its
own end or was shown as lost (`LostHasPassed`, `EarlierPassed`), so it passes its links in order.

The same module proves the safety of the tab around such sessions (`TabAssumption`,
`ShellAssumption`): `OneTransportEver`, `SocketsHaveTables` and `ApiAlwaysSilent`, from `ShellInvariant`.
Its core is `TabOK`, of the tab between two steps: the one transport is the store's (`Wired`), the
cloud's only with a table on the screen (`HasTable`), and the tab is offline exactly on the nearby
pages. Within a step it need not hold, because a route change first unmounts a page, which closes
sockets and leaves requests to answer nobody, and then mounts the next. The proof follows the code
there: to leave a page gives a tab that is `Bare`, with no cloud socket, not offline, and with no
component that still waits, and to mount any page on a bare tab gives `TabOK` again. What a late
answer may do rests on `InPlace`: a component that waits for one is there only while its page is.

Only model-checked: `StoreFollowsTable` and `FeltShowsTable` of `StorePlay` where the player is at a
nearby table (the other parts are `OnlineScreens` and `DemoFelt`); and every liveness property, the fairness of the refinement among them, which is out of the prover's reach.

## Not modelled

- Hand ranking, shuffling, tokens, SQL, HTTP middleware and the history's export: pure functions or
  I/O on which no state above depends. Drawing, motion, sound, settings and the landing page:
  components without state the game depends on.
- A panic of the table loop and its recovery, commands left in the inbox of a loop that ended.
- The blind clock of tournaments and the wait for all players before the first hand.
- Rate limiting and pings of the gateway.
- The server's side of lobby, friends, presence and accounts: maps behind one mutex each. The
  hazards listed there (presence with several sockets, the creator count of the registry, two nodes
  on one database) have no property yet.
- A replay of recorded hands: the record a replay would fetch lacks what it shows (see above), and
  the code that renders one cannot be reached with it. The QR scanner's camera, which is never
  started.
- Peers that join a running mesh; claiming a seat at a nearby table; a link that only falters.

## Plan

1. *Done*: `Hand`, `HandEngine`, `Table`, `SitAndGo`, `Session`, `LocalCore`, `Mesh`; the client:
   `Protocol`, `GameStore` over `LocalPlay`, `Demo` and `Online`, `Nearby`, `Shell`; `FairSeed` with
   its refinement of `SeedService`; the proofs of all safety properties of `HandEngine`, `Table`,
   `SitAndGo`, `Session`, `FairSeed`, `Nearby`, `Mesh` and `Shell`, and of `StorePlay` at the
   tables of the server and the demo.
2. `StoreFollowsTable` and `FeltShowsTable` of the nearby table as theorems.
3. An abstract account specification (chips on accounts, in play, astray) that `Table` and
   `SitAndGo` implement through a refinement mapping, as properties of their runs.
4. `Registry` with `Table`'s host, `Economy` with refills and two nodes, `Social` with presence and
   several sockets.
5. `Mesh` with joins and convergence as liveness.
