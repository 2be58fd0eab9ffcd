------------------------------ MODULE StorePlay ------------------------------
(***************************************************************************)
(* The one game store over each of the authorities it cannot tell apart    *)
(* ("the store can't tell the difference", net/mockServer.ts): the player  *)
(* is at a nearby table (LocalPlay), at the demo table (Demo) or at a      *)
(* table of the server (Online).                                           *)
(***************************************************************************)
EXTENDS LocalPlay

CONSTANTS
  MaxDeals, MaxTaps,                  \* bounds of Demo
  MaxClients, MaxSteps, Opponents     \* of Online

ASSUME StorePlayAssumption ==
  {MaxDeals, MaxTaps, MaxClients, MaxSteps} \subseteq Nat /\ Opponents \in Nat \ {0}

VARIABLE game    \* where the player is

\* Elsewhere than at the nearby table the authority is in core's place, and the page's other
\* state in that of the requests.
D == INSTANCE Demo WITH mock <- core, store <- view, fair <- sent, taps <- upsets
O == INSTANCE Online WITH net <- core, page <- view, steps <- upsets

storeVars == <<vars, game>>

StoreInit ==
  \/ game = "nearby" /\ Init
  \/ game = "demo" /\ D!Init /\ seen = {}
  \/ game = "online" /\ O!Init /\ sent = <<>> /\ seen = {}

PlayNearby == game = "nearby" /\ Next /\ UNCHANGED game
PlayDemo   == game = "demo" /\ D!Next /\ UNCHANGED <<seen, game>>
PlayOnline == game = "online" /\ O!Next /\ UNCHANGED <<sent, seen, game>>

StoreNext == PlayNearby \/ PlayDemo \/ PlayOnline

\* What needs nobody to happen: timers, hashes, and what Online has of the network.
Machines ==
  \/ game = "nearby" /\ PreviewTimesOut /\ UNCHANGED game
  \/ game = "demo" /\ (D!Timers \/ D!Verified) /\ UNCHANGED <<seen, game>>
  \/ game = "online" /\ O!Machines /\ UNCHANGED <<sent, seen, game>>

StoreSpec == StoreInit /\ [][StoreNext]_storeVars /\ WF_storeVars(Machines)

-----------------------------------------------------------------------------
(* Properties *)

\* At the nearby table, the stacks agree with those of its core, and the newest record of the
\* hand history holds no bet of another hand, as long as the player is dealt in.  The types of
\* the other tables; and at the server's no socket of a page that was left stays open.
StoreFollowsTable ==
  CASE game = "nearby" -> StoreFollowsCore /\ ReplayIsOneHand
    [] game = "demo"   -> D!DemoTypes
    [] game = "online" -> O!OnlineTypes /\ O!LeftIsClosed

\* The felt shows the hand of the table it is at: pot, street and turn of the nearby one,
\* pot and stacks of the demo.
FeltShowsTable ==
  CASE game = "nearby" -> FeltIsCurrent
    [] game = "demo"   -> D!FeltShowsMock
    [] game = "online" -> O!ScreensAreTrue

\* A socket joins before anything else is read from it, and the bets of a visit are read in
\* the order of the taps, none of them twice, whatever was sent while offline.
CommandsInOrder == game = "online" => O!CommandsInOrder

PreviewShown ==
  CASE game = "nearby" -> view.s.pending
    [] game = "demo"   -> view.pending /\ view.open
    [] game = "online" -> view.s.pending /\ view.s.open

BannerUp == game = "online" /\ O!BannerUp
ErrorUp  == game = "online" /\ O!ErrorUp
Waiting  == game = "online" /\ O!Waiting

Unverified == game = "demo" /\ \E i \in DOMAIN sent : sent[i].verified = "pending"

\* What is shown until something else happens does not stay for ever: a preview is confirmed,
\* refused, superseded, timed out or left behind with the table; a seed that was revealed is
\* checked; the banner of new blinds and a brief error go away.  One follows the other, but
\* there comes a time when none of them is there.
Brief == PreviewShown \/ Unverified \/ BannerUp \/ ErrorUp

NothingLingers == Brief ~> ~Brief

\* Who stays on the page of a server's table gets to see it, over however many attempts, or is
\* told why not.
PlayerGetsTable == Waiting ~> ~Waiting

=============================================================================
