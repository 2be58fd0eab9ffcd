-------------------------------- MODULE Demo ---------------------------------
(***************************************************************************)
(* The player at the demo table: the store over MockServer, by a player    *)
(* who may leave the page and come back.                                   *)
(***************************************************************************)
EXTENDS MockServer, FiniteSets

CONSTANTS
  MaxDeals,      \* bound: hands dealt
  MaxTaps        \* bound: bets, rebuys and breaks of the player

VARIABLES
  mock,          \* the mock, or Off
  store,         \* the store
  fair,          \* the store's fairness records
  taps           \* see MaxTaps

G == INSTANCE GameStore WITH TableSeats <- DemoSeats

Off == [Connect(0) EXCEPT !.timers = <<>>]

Init == mock = Off /\ store = G!EmptyTable /\ fair = <<>> /\ taps = 0

Reveals(f, ev) == IF ev.type = "fair_reveal" THEN G!OnFairReveal(f, ev.hand) ELSE f

\* What the mock emits the store applies at once.  No preview lasts as long as its timer,
\* which therefore never fires.
Apply(o, s) ==
  /\ mock' = o.m /\ store' = FoldLeft(G!ApplyEvent, s, o.ev) /\ fair' = FoldLeft(Reveals, fair, o.ev)

Enter ==
  /\ ~store.open /\ mock.hand < MaxDeals
  /\ mock' = Connect(mock.hand) /\ store' = G!Connected(store)
  /\ UNCHANGED <<fair, taps>>

\* close clears every timer.
Leave ==
  /\ store.open /\ taps < MaxTaps
  /\ mock' = [mock EXCEPT !.timers = <<>>] /\ store' = G!Disconnected(store)
  /\ taps' = taps + 1 /\ UNCHANGED fair

Timers ==
  \E i \in DOMAIN mock.timers :
    /\ MayFire(mock, i)
    /\ mock.timers[i].what = "deal" => mock.hand < MaxDeals
    /\ Apply(Fire(mock, i), store)
    /\ UNCHANGED taps

Sends(o, s) == taps < MaxTaps /\ taps' = taps + 1 /\ Apply(o, s)

Tap ==
  /\ G!MayTap(store)
  /\ \E bet \in G!Offered(store, BB) : Sends(PlaceBet(mock, bet), G!Act(store, bet))

TapRebuy ==
  /\ G!MayRebuy(store)
  /\ \E a \in G!RebuyAmounts(BB) : Sends(Rebuy(mock, a), G!Rebuy(store))

TapSitOut == G!MaySitOut(store) /\ Sends(SitOut(mock, TRUE), store)
TapSitIn  == G!MaySitIn(store) /\ Sends(SitOut(mock, FALSE), store)

\* The seed of a hand has been hashed.
Verified ==
  \E i \in DOMAIN fair :
    /\ fair[i].verified = "pending"
    /\ fair' = G!OnVerified(fair, fair[i].hand)
    /\ UNCHANGED <<mock, store, taps>>

Next == Enter \/ Leave \/ Timers \/ Verified \/ Tap \/ TapRebuy \/ TapSitOut \/ TapSitIn

-----------------------------------------------------------------------------
(* Properties *)

DemoTypes == mock \in Mock /\ store \in G!Store /\ fair \in Seq(G!FairnessRecord) /\ taps \in 0 .. MaxTaps

\* While a hand is shown and no bet of the player is to be confirmed, the felt shows the
\* mock's pot and the bots' stacks, whatever timers of an older hand still act on this
\* one.  The player's own stack is shown as it was for a bet confirmed after the deal.
FeltShowsMock ==
  store.running /\ (\A i \in DOMAIN mock.timers : mock.timers[i].what # "confirm")
    => store.pot = mock.pot /\ \A i \in DemoSeats \ {Hero} : store.stack[i] = mock.stack[i]

=============================================================================
