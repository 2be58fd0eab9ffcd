------------------------------ MODULE GameStore ------------------------------
(***************************************************************************)
(* The client's game store (client/src/store/gameStore.ts): what the table *)
(* view is drawn from.  s is the store's state with the one module         *)
(* variable beside it, the timer of the optimistic action; every operator  *)
(* is one event the reducer applies or one call of a component.            *)
(*                                                                         *)
(* Cards, names and numbers of errors are left out.  A seat's last action  *)
(* is the amount it shows: nothing, a check and a fold all show 0.         *)
(***************************************************************************)
EXTENDS Protocol, Sequences, FiniteSets, FiniteSetsExt

Store ==
  [stack   : [TableSeats -> Int],
   last    : [TableSeats -> Int],          \* amount of lastAction
   out     : SUBSET TableSeats,            \* sittingOut, as shown
   pot     : Int,
   street  : Street,
   turn    : SeatOrNone,                   \* nextToAct
   mine    : SeatOrNone,                   \* yourSeat
   running : BOOLEAN,                      \* handRunning
   pending : BOOLEAN,                      \* an optimistic action is shown
   timer   : BOOLEAN,                      \* pendingTimer is set
   rebuying: BOOLEAN,                      \* rebuyPending
   refused : BOOLEAN,                      \* rebuyError
   open    : BOOLEAN,                      \* there is a transport
   replay  : SUBSET Nat]                   \* hands whose bets the newest record holds

EmptyTable ==
  [stack |-> [i \in TableSeats |-> 0], last |-> [i \in TableSeats |-> 0], out |-> {},
   pot |-> 0, street |-> "none", turn |-> None, mine |-> None, running |-> FALSE,
   pending |-> FALSE, timer |-> FALSE, rebuying |-> FALSE, refused |-> FALSE,
   open |-> FALSE, replay |-> {}]

-----------------------------------------------------------------------------
(* Events.  The timer is cleared by what settles the optimistic action. *)

\* Everything shown of the table is replaced, and the preview with it.
OnSnapshot(s, ev) ==
  [s EXCEPT !.stack = ev.stack, !.last = ev.last, !.out = ev.out,
            !.pot = ev.pot, !.street = ev.street, !.turn = ev.turn, !.mine = ev.mine,
            !.running = ev.running, !.pending = FALSE, !.timer = FALSE]

\* Neither the pot nor the turn of the last hand is reset.
OnHandDealt(s, ev) ==
  [s EXCEPT !.mine = ev.seat, !.street = "Preflop", !.pending = FALSE, !.running = TRUE,
            !.replay = {}]

OnBetPlaced(s, ev) ==
  [s EXCEPT !.stack[ev.seat] = ev.stack, !.last[ev.seat] = ev.amount,
            !.pot = ev.pot, !.turn = ev.turn,
            !.pending = @ /\ ev.seat # s.mine,
            !.timer   = @ /\ ev.seat # s.mine,
            !.replay  = @ \cup {ev.hand}]

OnStreetAdvanced(s, ev) ==
  [s EXCEPT !.street = ev.street, !.pot = ev.pot, !.turn = ev.turn,
            !.last = [i \in TableSeats |-> 0]]

\* The pot stays on the felt until the next hand's first bet.
OnShowdown(s, ev) ==
  [s EXCEPT !.stack = [i \in TableSeats |-> @[i] + ev.won[i]],
            !.street = "Showdown", !.turn = None, !.running = FALSE]

\* The whole list is replaced, and any rebuy is taken for settled.
OnSeatUpdate(s, ev) ==
  [s EXCEPT !.stack = ev.stack, !.last = ev.last, !.out = ev.out,
            !.rebuying = FALSE, !.refused = @ /\ ~s.rebuying]

\* An error is the rebuy's if one is under way, else the preview's; the turn it gave
\* away is not given back.
OnError(s) ==
  IF s.rebuying THEN [s EXCEPT !.timer = FALSE, !.rebuying = FALSE, !.refused = TRUE]
  ELSE [s EXCEPT !.timer = FALSE, !.pending = FALSE]

ApplyEvent(s, ev) ==
  CASE ev \in TableSnapshot  -> OnSnapshot(s, ev)
    [] ev \in HandDealt      -> OnHandDealt(s, ev)
    [] ev \in BetPlaced      -> OnBetPlaced(s, ev)
    [] ev \in StreetAdvanced -> OnStreetAdvanced(s, ev)
    [] ev \in Showdown       -> OnShowdown(s, ev)
    [] ev \in SeatUpdate     -> OnSeatUpdate(s, ev)
    [] ev \in ErrorEvent     -> OnError(s)
    [] ev \in FairReveal \cup TableStatus -> s

-----------------------------------------------------------------------------
(* The fairness records, newest first, are kept beside the table, and longer. *)

FairnessRecord == [hand : Nat, verified : {"pending", "yes"}]

\* MAX_FAIRNESS_RECORDS
MaxRecords == 50

OnFairReveal(f, hand) ==
  LET g == <<[hand |-> hand, verified |-> "pending"]>> \o f
  IN  SubSeq(g, 1, Min({Len(g), MaxRecords}))

\* Records are found by their hand; an honest seed verifies.
OnVerified(f, hand) ==
  [i \in DOMAIN f |-> IF f[i].hand = hand THEN [f[i] EXCEPT !.verified = "yes"] ELSE f[i]]

-----------------------------------------------------------------------------
(* Calls of the components *)

Connected(s) == [s EXCEPT !.open = TRUE, !.timer = FALSE]

\* Everything of the table goes, but for a preview, whose timer is cleared all the same.
Disconnected(s) == [EmptyTable EXCEPT !.pending = s.pending, !.replay = s.replay]

\* What ActionBar offers: buttons while it is the player's turn and nothing is pending.
MayTap(s) == s.turn = s.mine /\ s.mine # None /\ ~s.pending /\ s.open

\* What Table works out from the shown bets for the action bar: the amount to call, and
\* the least and the most the bar lets the player bet.
ShownBet(s) == Max({s.last[i] : i \in TableSeats})
ToCall(s)   == Min({Max({0, ShownBet(s) - s.last[s.mine]}), s.stack[s.mine]})
BetBounds(s, bb) ==
  {Min({s.stack[s.mine], Max({bb, ShownBet(s) + bb})}), s.stack[s.mine]}

\* The bets the bar can send: a check or a call is one button.
Offered(s, bb) ==
  {[kind |-> "fold", amount |-> 0],
   IF ToCall(s) <= 0 THEN [kind |-> "check", amount |-> 0]
   ELSE [kind |-> "call", amount |-> ToCall(s)]}
  \cup {[kind |-> "raise", amount |-> a] : a \in BetBounds(s, bb)}

\* Mutant: nothing guards the preview against a lost answer.
ActUnguarded(s, bet) ==
  [s EXCEPT !.pending = TRUE, !.turn = None, !.last[s.mine] = bet.amount]

Act(s, bet) ==
  [s EXCEPT !.pending = TRUE, !.timer = TRUE, !.turn = None, !.last[s.mine] = bet.amount]

\* Nothing settled the preview in time.
PendingTimeout(s) == [s EXCEPT !.timer = FALSE, !.pending = FALSE]

\* RebuyButton: the player's seat shows no chips and no hand is shown.
MayRebuy(s) == s.mine # None /\ s.stack[s.mine] = 0 /\ ~s.running /\ ~s.rebuying /\ s.open

\* RebuySheet: from one big blind to a thousand of them.
RebuyAmounts(bb) == {bb, 1000 * bb}

\* TableMenu: a player with a seat is offered the one or the other.
MaySitOut(s) == s.mine # None /\ s.mine \notin s.out
MaySitIn(s)  == s.mine # None /\ s.mine \in s.out

Rebuy(s) == [s EXCEPT !.rebuying = TRUE, !.refused = FALSE]

=============================================================================
