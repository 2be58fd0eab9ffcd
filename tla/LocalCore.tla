------------------------------ MODULE LocalCore ------------------------------
(***************************************************************************)
(* The table core every peer of a nearby game runs                         *)
(* (server/internal/localcore), as a value with one operator per call.     *)
(* Chips and cards are left out, but for who has none behind and who goes  *)
(* broke: a hand is its deck, who was dealt in, and the order of a bounded *)
(* number of betting actions.                                              *)
(* A call returns the core, the kinds of events it emitted, and what the   *)
(* last seat list among them showed.                                       *)
(***************************************************************************)
EXTENDS Ring, FiniteSets, FiniteSetsExt, Sequences, SequencesExt

CONSTANTS
  Turns,      \* bound: betting actions in a hand
  AllIn(_),   \* what the bets decide: the seats without chips behind in a core's hand
  Paid(_)     \* what the cards decide: the seats that take chips from it when it ends

ASSUME LocalCoreAssumption == Turns \in Nat \ {0}

\* A seed is known by the peer and the position of the log entry that set it.
NoSeed == <<>>

\* Everybody seated, and no hand yet.
NewLocalTable ==
  [out     |-> {},      \* seats sitting out
   broke   |-> {},      \* seats whose stack is 0 between hands
   folding |-> {},      \* foldPending
   button  |-> 0,
   hands   |-> 0,       \* handNum
   seed    |-> NoSeed,  \* pendingSeed
   dealt   |-> {},      \* seats in the hand, none between hands
   order   |-> <<>>,    \* seats still to act
   deck    |-> NoSeed,  \* the seed of the hand
   events  |-> 0]       \* seq: events emitted

LocalTable ==
  [out : SUBSET Seats, broke : SUBSET Seats, folding : SUBSET Seats, button : Seats, hands : Nat, seed : Seq(Nat),
   dealt : SUBSET Seats, order : Seq(Seats), deck : Seq(Nat), events : Nat]

\* What StateHash covers: neither the pending seed nor pending folds.
StateHash(c) == [c EXCEPT !.seed = NoSeed, !.folding = {}]

\* eligibleSeats
Ready(c)   == Seats \ (c.out \cup c.broke)
Running(c) == c.dealt # {}

\* A seat that has still to act has chips.
Shoved(c) == (c.dealt \cap AllIn(c)) \ ToSet(c.order)

\* The seats that a hand leaves with nothing; it leaves somebody the pot.
Lost(c) == LET lost == Shoved(c) \ Paid(c) IN IF lost = c.dealt THEN {} ELSE lost

\* seatViews: the seats shown sitting out or without chips, live stacks in a hand.
Unfit(c) == c.out \cup c.broke \cup Shoved(c)

\* The seats of S in their order, the first one to the left of `from'.
Clockwise(S, from) ==
  [i \in 1 .. Cardinality(S) |->
     CHOOSE s \in S : Cardinality({t \in S : Distance(from, t) < Distance(from, s)}) = i - 1]

\* Heads-up the button acts first, else the third seat after it.
ActingOrder(S, button) ==
  LET first == IF Cardinality(S) = 2 THEN button
               ELSE FirstAfter(FirstAfter(FirstAfter(button, S), S), S)
      order == Clockwise(S, first - 1)
  IN  SubSeq(order, 1, Min({Turns, Len(order)}))

StartHandIfReady(o) ==
  LET c == o.core
      b == FirstAfter(c.button - 1, Ready(c))
  IN  IF Running(c) \/ Cardinality(Ready(c)) < 2 \/ c.seed = NoSeed THEN o
      ELSE [o EXCEPT !.core = [c EXCEPT !.seed = NoSeed, !.deck = c.seed, !.button = b,
                                        !.hands = @ + 1, !.dealt = Ready(c), !.folding = {},
                                        !.order = ActingOrder(Ready(c), b),
                                        !.events = @ + Cardinality(Ready(c))],
                     !.told = @ \cup {"hand_dealt"}]

\* The showdown, which does not tell who is broke and sits out by that, the next
\* button, and the next hand if its seed is there.
SettleHand(o) ==
  LET c == o.core
  IN  StartHandIfReady(
        [o EXCEPT !.core = [c EXCEPT !.dealt = {}, !.order = <<>>, !.deck = NoSeed,
                                     !.out = @ \cup Lost(c), !.broke = @ \cup Lost(c),
                                     !.button = FirstAfter(@, Seats), !.events = @ + 2],
                  !.told = @ \cup {"showdown"}])

\* One action of the seat to act, and the folds of those that asked to sit out and
\* whom the action reaches by that.
ApplyAction(o) ==
  LET rest  == Tail(o.core.order)
      next  == SelectInSeq(rest, LAMBDA s : s \notin o.core.folding)
      left  == IF next = 0 THEN <<>> ELSE SubSeq(rest, next, Len(rest))
      acted == [o EXCEPT !.core.order = left,
                         !.core.events = @ + Len(o.core.order) - Len(left)]
  IN  IF left = <<>> THEN SettleHand(acted) ELSE acted

SeatUpdate(o) ==
  [o EXCEPT !.core.events = @ + 1, !.told = @ \cup {"seat_update"}, !.list = Unfit(o.core)]

ToAct(c, s) == Running(c) /\ Head(c.order) = s

HandleSitIn(o, s) ==
  StartHandIfReady(SeatUpdate([o EXCEPT !.core.out = @ \ {s}, !.core.folding = @ \ {s}]))

\* Folds now if it is the seat's turn, else when the turn comes.
HandleSitOut(o, s) ==
  LET outNow == [o EXCEPT !.core.out = @ \cup {s}]
  IN  SeatUpdate(
        IF ToAct(o.core, s) THEN ApplyAction(outNow)
        ELSE IF s \in o.core.dealt THEN [outNow EXCEPT !.core.folding = @ \cup {s}]
        ELSE outNow)

\* Chips for a seat that takes part again; an error while a hand is running.
HandleRebuy(o, s) ==
  IF Running(o.core) THEN [o EXCEPT !.core.events = @ + 1]
  ELSE StartHandIfReady(
         SeatUpdate([o EXCEPT !.core.out = @ \ {s}, !.core.broke = @ \ {s}]))

\* An action out of turn is an error, which takes a number like any event.
HandleBet(o, s) == IF ToAct(o.core, s) THEN ApplyAction(o) ELSE [o EXCEPT !.core.events = @ + 1]

\* The seat on the clock checks or folds and sits out, which nobody is told.
HandleFoldOnTimeout(o) ==
  IF Running(o.core)
    THEN ApplyAction([o EXCEPT !.core.out = @ \cup {Head(o.core.order)}])
    ELSE o

\* The hand is undone, and everybody has the chips from before it; the button stays.
VoidHand(o) ==
  IF Running(o.core)
    THEN [core |-> [o.core EXCEPT !.dealt = {}, !.order = <<>>, !.deck = NoSeed,
                                  !.events = @ + 2],
          told |-> o.told \cup {"seat_update"}, list |-> o.core.out \cup o.core.broke]
    ELSE o

=============================================================================
