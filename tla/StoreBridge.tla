----------------------------- MODULE StoreBridge -----------------------------
(***************************************************************************)
(* client/src/local/storeBridge.ts: the events of the table core (the      *)
(* LocalTable of this peer's mesh node) reshaped into those the game store *)
(* reduces.  The core's bets carry no stacks, so the bridge keeps its own  *)
(* account of them: what each seat started from and what it put in since,  *)
(* told apart by how much the pot grew.                                    *)
(***************************************************************************)
EXTENDS LocalTable

G == INSTANCE GameStore WITH TableSeats <- Seats

Bridge ==
  [base : [Seats -> Int], committed : [Seats -> Int], pot : Int,
   ready : SUBSET Seats]       \* lastSeats: who would be dealt in

NewBridge ==
  [base |-> [s \in Seats |-> 0], committed |-> [s \in Seats |-> 0], pot |-> 0, ready |-> {}]

LiveStack(b, s) == b.base[s] - b.committed[s]

PostBlind(b, s, blind) ==
  LET put == Lesser(blind, b.base[s])
  IN  [b EXCEPT !.committed[s] = @ + put, !.pot = @ + put]

\* Mutant: the blinds are left to the first bet, whose seat is charged with them.
AtDealNoBlinds(b, button) == [b EXCEPT !.committed = [s \in Seats |-> 0], !.pot = 0]

\* The blinds, which no event reports, are worked out from the last seat list.
AtDeal(b, button) ==
  LET fresh == [b EXCEPT !.committed = [s \in Seats |-> 0], !.pot = 0]
      seat  == BlindSeats(b.ready, IF button \in b.ready THEN button ELSE Min(b.ready))
  IN  IF Cardinality(b.ready) < 2 THEN fresh
      ELSE PostBlind(PostBlind(fresh, seat.sb, SmallBlind), seat.bb, BigBlind)

\* Mutant: the growth is counted, the pot forgotten.
AtBetKeepsPot(b, ev) ==
  [b EXCEPT !.committed[ev.seat] = @ + Max({0, ev.pot - b.pot})]

\* What the pot grew by is what the seat put in.
AtBet(b, ev) ==
  [b EXCEPT !.committed[ev.seat] = @ + Max({0, ev.pot - b.pot}), !.pot = ev.pot]

\* A seat list is the new baseline, also in the middle of a hand.
AtSeatUpdate(b, seats) ==
  [base |-> [s \in Seats |-> seats[s].stack], committed |-> [s \in Seats |-> 0], pot |-> 0,
   ready |-> {s \in Seats : seats[s].stack > 0 /\ ~seats[s].out}]

\* What a seat put in stays counted beside its new baseline.
AtShowdown(b, won) ==
  [b EXCEPT !.base = [s \in Seats |-> IF won[s] > 0 THEN LiveStack(b, s) + won[s] ELSE @[s]]]

\* One event for bridge x.b and store x.s.
Translate(x, ev) ==
  CASE ev.type = "seat_update" ->
         [b |-> AtSeatUpdate(x.b, ev.seats),
          s |-> G!ApplyEvent(x.s, [type |-> "seat_update",
                                   stack |-> [i \in Seats |-> ev.seats[i].stack],
                                   last |-> [i \in Seats |-> 0],
                                   out |-> {i \in Seats : ev.seats[i].out}])]
    [] ev.type = "hand_dealt" ->
         [b |-> AtDeal(x.b, ev.button),
          s |-> G!ApplyEvent(x.s, [type |-> "hand_dealt", seat |-> Me])]
    [] ev.type = "bet_placed" ->
         LET b == AtBet(x.b, ev)
         IN  [b |-> b,
              s |-> G!ApplyEvent(x.s, [type |-> "bet_placed", seat |-> ev.seat,
                                       amount |-> ev.amount, stack |-> LiveStack(b, ev.seat),
                                       pot |-> ev.pot, turn |-> ev.toAct, hand |-> ev.hand])]
    [] ev.type = "street_advanced" ->
         [x EXCEPT !.s = G!ApplyEvent(@, [type |-> "street_advanced", street |-> ev.street,
                                          pot |-> x.b.pot, turn |-> Nobody])]
    [] ev.type = "showdown" ->
         [b |-> AtShowdown(x.b, ev.won),
          s |-> G!ApplyEvent(x.s, [type |-> "showdown", won |-> ev.won])]
    [] OTHER -> [x EXCEPT !.s = G!ApplyEvent(@, ev)]

\* onApplied: the table-wide events of an entry first, then the peer's own.
OnApplied(x, o) == FoldLeft(Translate, x, o.cast \o o.own)

\* build: the store connects to a table that shows nothing yet.
Build(s) ==
  G!ApplyEvent(G!Connected(s),
    [type |-> "table_snapshot", stack |-> [i \in Seats |-> 0],
     last |-> [i \in Seats |-> 0], out |-> {}, pot |-> 0, street |-> "none", turn |-> Nobody, mine |-> Nobody, running |-> FALSE])

=============================================================================
