----------------------------- MODULE HandEngine -----------------------------
(***************************************************************************)
(* One hand on the engine: NewHand, Apply until the street is Showdown,    *)
(* then Settle.  The deal chooses the stacks, the dealt seats and the      *)
(* button, so the runs meet every combination of them.                     *)
(***************************************************************************)
EXTENDS Hand

CONSTANTS SmallBlind, BigBlind,
          MaxStack,              \* bound: the stacks a hand may start from
          Strengths              \* bound: how many different hand values

ASSUME BlindsAssumption ==
  /\ SmallBlind \in Nat /\ BigBlind \in Nat
  /\ 0 < SmallBlind /\ SmallBlind <= BigBlind
  /\ MaxStack \in Nat /\ Strengths \in Nat

VARIABLES
  phase,    \* "idle", "betting" or "settled"
  hand,     \* the HandState
  start,    \* history: the stacks the hand was dealt with
  payout    \* what Settle awarded to each seat

vars == <<phase, hand, start, payout>>

NoChips == [i \in Seats |-> 0]

Init ==
  /\ phase  = "idle"
  /\ hand   = Dealt(NoChips, {}, 0, BigBlind)
  /\ start  = NoChips
  /\ payout = NoChips

\* NewHand refuses fewer than two active players.  The callers deal in exactly
\* the seats that hold chips.
Deal(stacks, button) ==
  LET dealt == {i \in Seats : stacks[i] > 0}
  IN  /\ phase = "idle"
      /\ Cardinality(dealt) >= 2
      /\ button \in dealt
      /\ phase'  = "betting"
      /\ hand'   = NewHand(stacks, dealt, button, SmallBlind, BigBlind)
      /\ start'  = stacks
      /\ UNCHANGED payout

Fold(i) ==
  /\ phase = "betting" /\ MayAct(hand, i)
  /\ hand' = FoldBy(hand, i)
  /\ UNCHANGED <<phase, start, payout>>

Check(i) ==
  /\ phase = "betting" /\ CanCheck(hand, i)
  /\ hand' = CheckBy(hand, i)
  /\ UNCHANGED <<phase, start, payout>>

Call(i) ==
  /\ phase = "betting" /\ MayAct(hand, i)
  /\ hand' = CallBy(hand, i)
  /\ UNCHANGED <<phase, start, payout>>

Raise(i, to) ==
  /\ phase = "betting" /\ CanRaise(hand, i, to)
  /\ hand' = RaiseBy(hand, i, to)
  /\ UNCHANGED <<phase, start, payout>>

\* The stacks after the hand are hand.stack plus payout: Settle mutates nothing.
Settle(best) ==
  /\ phase = "betting" /\ hand.street = "Showdown"
  /\ phase'  = "settled"
  /\ payout' = Awards(hand, best)
  /\ UNCHANGED <<hand, start>>

Next ==
  \/ \E stacks \in [Seats -> 0 .. MaxStack], b \in Seats : Deal(stacks, b)
  \/ \E i \in Seats : Fold(i) \/ Check(i) \/ Call(i)
  \/ \E i \in Seats, to \in 1 .. MaxStack : Raise(i, to)
  \/ \E best \in [Seats -> 1 .. Strengths] : Settle(best)

\* What the tables do for a seat that does not act: check if legal, else fold.
AutoAct ==
  \E i \in Seats : IF CanCheck(hand, i) THEN Check(i) ELSE Fold(i)

\* The turn timer acts for a silent seat, and a finished hand is settled in the
\* same handler: nothing is assumed of the players.
Fairness ==
  /\ WF_vars(AutoAct)
  /\ WF_vars(\E best \in [Seats -> 1 .. Strengths] : Settle(best))

Spec     == Init /\ [][Next]_vars
FairSpec == Spec /\ Fairness

-----------------------------------------------------------------------------
(* Properties *)

Total(f) == SumOver(f, Seats)

\* Types of the engine's state.
HandTypeOK ==
  /\ phase \in {"idle", "betting", "settled"}
  /\ hand \in HandState
  /\ start \in [Seats -> Nat]

TypeOK == HandTypeOK /\ payout \in [Seats -> Nat]

\* A hand that stops before its first action: heads-up, the button's whole stack
\* went into the small blind, so the seat to act is already all-in.
ShortButton ==
  /\ Cardinality({i \in Seats : start[i] > 0}) = 2
  /\ start[hand.button] <= SmallBlind
  /\ hand.street = "Preflop"

\* Every chip a seat brought is behind it or in the pot, whatever the betting did.
SeatAccount ==
  phase = "betting" =>
    \A i \in Seats : hand.stack[i] + hand.totalBet[i] = start[i]

\* The pot is what the seats put in, street after street.
PotIsContributions ==
  phase = "betting" => hand.pot = Total(hand.totalBet)

\* Until the showdown the clock is on a seat that can act and still owes an
\* action (advance, nextToAct, nextStreet), but for the short heads-up button.
TurnIsOwed ==
  phase = "betting" /\ hand.street # "Showdown" /\ ~ShortButton
    => hand.toAct \in OwesAction(hand)

\* What NewHand's comment promises and the short button breaks (no run checks it): the hand
\* is ready for its first action.
ReadyToAct ==
  phase = "betting" /\ hand.street # "Showdown" => MayAct(hand, hand.toAct)

\* No seat can be skipped out of matching a bet: on the streets that are over, all
\* seats that can still act put in the same, and nobody put in more than they did.
PriorStreetsMatched ==
  LET prior(i) == hand.totalBet[i] - hand.committed[i]
  IN  phase = "betting" =>
        \A i \in CanAct(hand), j \in Seats :
          prior(i) >= prior(j)

\* A contested hand is settled over a full board: an all-in run-out deals every
\* street it skips.
ContestedBoardIsFull ==
  /\ phase # "idle" => hand.board = BoardOn(hand.street)
                       \/ Cardinality(NonFolded(hand)) = 1
  /\ phase = "settled" => Cardinality(NonFolded(hand)) >= 1

\* The chips a folded seat put in beyond every seat that stayed: the layers
\* BuildPots finds nobody eligible for.
Unmatched(h) ==
  LET most == Max({0} \cup {h.totalBet[i] : i \in NonFolded(h)})
  IN  Total([i \in Seats |-> IF h.totalBet[i] > most THEN h.totalBet[i] - most ELSE 0])

\* Settlement pays out the pot exactly, side pots and odd chips included, except
\* the unmatched chips of folded seats in a contested hand.
PotPaidOut ==
  phase = "settled" =>
    Total(payout) = hand.pot -
      (IF Cardinality(NonFolded(hand)) = 1 THEN 0 ELSE Unmatched(hand))

\* What BuildPots and Distribute promise and unmatched chips break (no run checks it): the
\* whole pot is distributed.
WholePotPaidOut == phase = "settled" => Total(payout) = hand.pot

\* Nobody wins more from another seat than it risked itself, and a folded seat
\* wins nothing: the point of side pots.
SidePotsFair ==
  phase = "settled" /\ Cardinality(NonFolded(hand)) > 1 =>
    \A i \in Seats :
      payout[i] <= IF hand.status[i] \in {"Active", "AllIn"}
                   THEN Total([j \in Seats |-> Lesser(hand.totalBet[i], hand.totalBet[j])])
                   ELSE 0

\* A bet nobody could call comes back: the seat that covers all others keeps at
\* least what it put in above them.
UncalledBetReturned ==
  phase = "settled" =>
    \A i \in NonFolded(hand) :
      payout[i] >= hand.totalBet[i] - Max({hand.totalBet[j] : j \in Seats \ {i}})

\* The money of a hand, from the first blind to the last odd chip: what the seats put in is
\* the pot, a contested pot is settled over a full board, all of it is paid out, side pots
\* are fair and an uncalled bet comes back (engine/state.go, engine/pots.go).
ChipsSettled ==
  /\ TypeOK
  /\ PotIsContributions
  /\ ContestedBoardIsFull
  /\ PotPaidOut
  /\ SidePotsFair
  /\ UncalledBetReturned

\* A street is over only when every seat that can still act has answered the last
\* full raise and matched the bet; the seat acting in this step aside.
StreetClosed ==
  [][hand'.street # hand.street /\ Cardinality(NonFolded(hand')) > 1
       /\ phase = "betting"
       => \A i \in CanAct(hand) \ {hand.toAct} :
            hand.acted[i] /\ hand.committed[i] = hand.currentBet]_vars

\* The bet to match never goes down while a street lasts, and a raise is smaller
\* than the last full one only when it puts the raiser all-in.
RaisesAreFull ==
  [][phase = "betting" /\ hand'.street = hand.street /\ hand'.currentBet # hand.currentBet
       => /\ hand'.currentBet > hand.currentBet
          /\ \/ hand'.currentBet - hand.currentBet >= hand.minRaise
             \/ hand'.status[hand.toAct] = "AllIn"]_vars

\* Under the turn timer every hand that could start is settled, whatever the
\* players do or leave undone.
HandCompletes == (phase = "betting" /\ ~ShortButton) ~> phase = "settled"

=============================================================================
