------------------------------ MODULE LocalTable ------------------------------
(***************************************************************************)
(* The table core of nearby play with its chips                            *)
(* (server/internal/localcore): one operator per call, and the events the  *)
(* call emits, as far as the peer in seat Me receives them.  LocalCore is  *)
(* the same code reduced to what tells two cores apart, for Mesh.          *)
(* An outcome o is a core with the table-wide events and those for Me      *)
(* alone, in the order they were emitted.                                  *)
(***************************************************************************)
EXTENDS Hand, Sequences, SequencesExt

CONSTANTS
  Me,                     \* the seat of the peer whose events are followed
  SmallBlind, BigBlind,
  MaxStack                \* 1000 big blinds in the code

ASSUME LocalTableAssumption ==
  /\ Me \in Seats /\ MaxStack \in Nat
  /\ SmallBlind \in Nat /\ BigBlind \in Nat /\ 0 < SmallBlind /\ SmallBlind <= BigBlind

NoHand == Dealt([s \in Seats |-> 0], {}, 0, BigBlind)

Core ==
  [stack : [Seats -> Nat],     \* between hands
   out : SUBSET Seats,         \* sittingOut
   folding : SUBSET Seats,     \* foldPending
   hand : HandState,
   start : [Seats -> Nat],     \* startStack
   button : Seats,
   seeded : BOOLEAN,           \* pendingSeed is set
   hands : Nat]                \* handNum

Seated(stacks) ==
  [stack |-> stacks, out |-> {}, folding |-> {}, hand |-> NoHand, start |-> NoHand.stack,
   button |-> 0, seeded |-> FALSE, hands |-> 0]

Running(c)  == c.hand # NoHand
InHand(c)   == {s \in Seats : c.hand.status[s] # "SittingOut"}
ToAct(c)    == IF Running(c) THEN c.hand.toAct ELSE Nobody
EligibleSeats(c) == {s \in Seats : c.stack[s] > 0} \ c.out

Quiet(c)       == [core |-> c, cast |-> <<>>, own |-> <<>>]
Cast(o, ev)    == [o EXCEPT !.cast = Append(@, ev)]
Tell(o, s, ev) == IF s = Me THEN [o EXCEPT !.own = Append(@, ev)] ELSE o

\* The public seat list: live stacks for the seats of a running hand.
SeatViews(c) ==
  [s \in Seats |-> [stack |-> IF s \in InHand(c) THEN c.hand.stack[s] ELSE c.stack[s],
                    out   |-> s \in c.out]]

Refusal == [type |-> "error", code |-> "brief"]

SeatUpdate(o) == Cast(o, [type |-> "seat_update", seats |-> SeatViews(o.core)])

-----------------------------------------------------------------------------
(* Dealing, betting and settling *)

\* Hole cards go to each dealt player alone, which is how Me learns of the hand.
StartHandIfReady(o) ==
  LET c == o.core
      dealt  == EligibleSeats(c)
      button == IF c.button \in dealt THEN c.button ELSE FirstAfter(c.button, dealt)
      stacks == [s \in Seats |-> IF s \in dealt THEN c.stack[s] ELSE 0]
      deal   == [c EXCEPT !.hand = NewHand(stacks, dealt, button, SmallBlind, BigBlind),
                          !.start = stacks, !.button = button, !.folding = {},
                          !.seeded = FALSE, !.hands = @ + 1]
  IN  IF Running(c) \/ Cardinality(dealt) < 2 \/ ~c.seeded THEN o
      ELSE IF Me \notin dealt THEN [o EXCEPT !.core = deal]
      ELSE Tell([o EXCEPT !.core = deal], Me,
                [type |-> "hand_dealt", button |-> button, hand |-> deal.hands])

\* Stacks go back to the seats, the broke sit out, and the button moves on.
Settle(o, best) ==
  LET c == o.core
      won   == Awards(c.hand, best)
      after == [s \in Seats |-> IF s \in InHand(c) THEN c.hand.stack[s] + won[s]
                                ELSE c.stack[s]]
      bust  == {s \in InHand(c) : after[s] = 0}
  IN  StartHandIfReady(
        Cast(Cast([o EXCEPT !.core = [c EXCEPT !.stack = after, !.out = @ \cup bust,
                                               !.hand = NoHand, !.start = NoHand.stack,
                                               !.button = (@ + 1) % NumSeats]],
                  [type |-> "showdown", won |-> won, hand |-> c.hands]),
             [type |-> "fair_reveal", hand |-> c.hands]))

\* One action the engine accepts: h is the hand after it.
Acted(o, s, amount, h, best) ==
  LET over == h.street = "Showdown"
      bet  == Cast([o EXCEPT !.core.hand = h],
                   [type |-> "bet_placed", seat |-> s, amount |-> amount, pot |-> h.pot,
                    hand |-> o.core.hands, toAct |-> IF over THEN Nobody ELSE h.toAct])
      turned == IF over \/ h.street = o.core.hand.street THEN bet
                ELSE Cast(bet, [type |-> "street_advanced", street |-> h.street])
  IN  IF over THEN Settle(turned, best) ELSE turned

FoldsNext(o) ==
  /\ Running(o.core) /\ o.core.hand.toAct \in o.core.folding
  /\ MayAct(o.core.hand, o.core.hand.toAct)

\* applyAction, with the folds it drives of seats that asked to sit out.
ApplyAction(o, s, amount, h, best) ==
  FoldLeft(LAMBDA a, i : IF FoldsNext(a)
             THEN Acted(a, a.core.hand.toAct, 0, FoldBy(a.core.hand, a.core.hand.toAct), best)
             ELSE a,
           Acted(o, s, amount, h, best), [i \in 1 .. NumSeats |-> i])

-----------------------------------------------------------------------------
(* Calls *)

CanBet(c, s, bet) ==
  Running(c) /\ CASE bet.kind = "fold"  -> MayAct(c.hand, s)
                  [] bet.kind = "check" -> CanCheck(c.hand, s)
                  [] bet.kind = "call"  -> MayAct(c.hand, s)
                  [] OTHER              -> CanRaise(c.hand, s, bet.amount)

HandAfter(h, s, bet) ==
  CASE bet.kind = "fold"  -> FoldBy(h, s)
    [] bet.kind = "check" -> CheckBy(h, s)
    [] bet.kind = "call"  -> CallBy(h, s)
    [] OTHER              -> RaiseBy(h, s, bet.amount)

\* A refused action is told to the actor alone.
HandleBet(c, s, bet, best) ==
  IF CanBet(c, s, bet)
    THEN ApplyAction(Quiet(c), s, bet.amount, HandAfter(c.hand, s, bet), best)
    ELSE Tell(Quiet(c), s, Refusal)

\* Folds now if it is the seat's turn, else when the turn comes; a refused fold (an
\* all-in seat) is ignored.
HandleSitOut(c, s, best) ==
  LET o == Quiet([c EXCEPT !.out = @ \cup {s}])
  IN  SeatUpdate(
        IF ~Running(c) \/ s \notin NonFolded(c.hand) THEN o
        ELSE IF c.hand.toAct # s THEN [o EXCEPT !.core.folding = @ \cup {s}]
        ELSE IF MayAct(c.hand, s) THEN ApplyAction(o, s, 0, FoldBy(c.hand, s), best)
        ELSE o)

HandleSitIn(c, s) ==
  StartHandIfReady(SeatUpdate(Quiet([c EXCEPT !.out = @ \ {s}, !.folding = @ \ {s}])))

\* Only between hands, and up to the table's maximum.
HandleRebuy(c, s, amount) ==
  IF Running(c) \/ c.stack[s] + amount > MaxStack THEN Tell(Quiet(c), s, Refusal)
  ELSE StartHandIfReady(
         SeatUpdate(Quiet([c EXCEPT !.stack[s] = @ + amount, !.out = @ \ {s}])))

\* The seat on the clock checks or folds, and sits out the next hand.
HandleTimeout(c, best) ==
  LET s   == c.hand.toAct
      bet == IF CanCheck(c.hand, s) THEN "check" ELSE "fold"
      o   == Quiet([c EXCEPT !.out = @ \cup {s}])
  IN  IF ~Running(c) THEN Quiet(c)
      ELSE IF ~MayAct(c.hand, s) THEN o
      ELSE ApplyAction(o, s, 0, HandAfter(c.hand, s, [kind |-> bet]), best)

\* The hand is undone and the stacks are those it started with.
VoidHand(c) ==
  IF ~Running(c) THEN Quiet(c)
  ELSE Cast(SeatUpdate(Quiet([c EXCEPT
         !.stack = [s \in Seats |-> IF s \in InHand(c) THEN c.start[s] ELSE @[s]],
         !.hand = NoHand, !.start = NoHand.stack])), [type |-> "table_status"])

=============================================================================
