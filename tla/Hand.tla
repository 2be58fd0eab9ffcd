-------------------------------- MODULE Hand --------------------------------
(***************************************************************************)
(* The pure hand engine (server/internal/engine) as operators on a record  *)
(* h, the code's HandState.  Nothing here has state: HandEngine drives one *)
(* hand with these operators, and Table plays hand after hand with them.   *)
(*                                                                         *)
(* Players are indexed by seat, in seat order, and a seat that was not     *)
(* dealt in has the status "SittingOut": the code's Players slice holds    *)
(* only the dealt seats, and all of its loops skip the others.  Cards are  *)
(* abstracted: `board' counts the community cards, and what the cards are  *)
(* worth is an argument of the settlement.                                 *)
(***************************************************************************)
EXTENDS Ring, Sums, FiniteSets

PlayerStatus == {"Active", "Folded", "AllIn", "SittingOut"}
Street == {"Preflop", "Flop", "Turn", "River", "Showdown"}

HandState ==
  [stack     : [Seats -> Nat],            \* chips behind
   committed : [Seats -> Nat],            \* chips put in on this street
   totalBet  : [Seats -> Nat],            \* chips put in during this hand
   status    : [Seats -> PlayerStatus],
   acted     : [Seats -> BOOLEAN],        \* since the last full bet or raise
   street    : Street,
   board     : 0 .. 5,
   button    : Seats,
   toAct     : Seats \cup {Nobody},
   currentBet: Nat,
   minRaise  : Nat,
   bigBlind  : Nat,
   pot       : Nat]

-----------------------------------------------------------------------------
(* Who may act, and who owes an action *)

CanAct(h)    == {i \in Seats : h.status[i] = "Active"}
NonFolded(h) == {i \in Seats : h.status[i] \in {"Active", "AllIn"}}

\* Mutant: nextToAct without the acted flags, so the big blind loses its option.
OwesActionOnlyUnmatched(h) == {i \in CanAct(h) : h.committed[i] # h.currentBet}

\* Mutant: nextToAct asks only the seats that have not acted, matched or not.
OwesActionOnlyUnacted(h) == {i \in CanAct(h) : ~h.acted[i]}

\* The seats that still owe an action on this street.
OwesAction(h) ==
  {i \in CanAct(h) : h.committed[i] # h.currentBet \/ ~h.acted[i]}

-----------------------------------------------------------------------------
(* Betting *)

Lesser(a, b) == IF a <= b THEN a ELSE b

\* Mutant: the cap at the stack comes too late for the pot and the contribution.
CommitUncapped(h, i, amount) ==
  LET pay == Lesser(amount, h.stack[i])
  IN  [h EXCEPT !.stack[i]     = @ - pay,
                !.committed[i] = @ + pay,
                !.totalBet[i]  = @ + amount,
                !.pot          = @ + pay,
                !.status[i]    = IF h.stack[i] = pay THEN "AllIn" ELSE @]

Commit(h, i, amount) ==
  LET pay == Lesser(amount, h.stack[i])
  IN  [h EXCEPT !.stack[i]     = @ - pay,
                !.committed[i] = @ + pay,
                !.totalBet[i]  = @ + pay,
                !.pot          = @ + pay,
                !.status[i]    = IF h.stack[i] = pay THEN "AllIn" ELSE @]

ResetStreet(h) ==
  [h EXCEPT !.committed  = [i \in Seats |-> 0],
            !.acted      = [i \in Seats |-> FALSE],
            !.currentBet = 0,
            !.minRaise   = h.bigBlind]

FollowingStreet(s) ==
  CASE s = "Preflop" -> "Flop"
    [] s = "Flop"    -> "Turn"
    [] s = "Turn"    -> "River"
    [] OTHER         -> "Showdown"

BoardOn(s) ==
  CASE s = "Preflop" -> 0
    [] s = "Flop"    -> 3
    [] s = "Turn"    -> 4
    [] OTHER         -> 5

\* Mutant: the street opens on the first seat left in the hand, all-in or not.
NextStreetOnAnyone(h) ==
  LET runOut == Cardinality(CanAct(h)) <= 1
      street == IF runOut THEN "Showdown" ELSE FollowingStreet(h.street)
  IN  [ResetStreet(h) EXCEPT
         !.street = street,
         !.board  = BoardOn(street),
         !.toAct  = IF street = "Showdown" THEN @ ELSE FirstAfter(h.button, NonFolded(h))]

\* With at most one seat able to act the loop of the code runs the board out.
NextStreet(h) ==
  LET runOut == Cardinality(CanAct(h)) <= 1
      street == IF runOut THEN "Showdown" ELSE FollowingStreet(h.street)
  IN  [ResetStreet(h) EXCEPT
         !.street = street,
         !.board  = BoardOn(street),
         !.toAct  = IF street = "Showdown" THEN @ ELSE FirstAfter(h.button, CanAct(h))]

Advance(h) ==
  CASE Cardinality(NonFolded(h)) <= 1 -> [h EXCEPT !.street = "Showdown"]
    [] OTHER ->
         IF OwesAction(h) # {}
           THEN [h EXCEPT !.toAct = FirstAfter(h.toAct, OwesAction(h))]
           ELSE NextStreet(h)

\* What Apply requires of every action before it looks at the kind.
MayAct(h, i) ==
  /\ h.street # "Showdown"
  /\ i = h.toAct
  /\ h.status[i] = "Active"

CanCheck(h, i) == MayAct(h, i) /\ h.committed[i] = h.currentBet

IsFullRaise(h, to) == to >= h.currentBet + h.minRaise

\* Mutant: any amount above the bet is a raise.
CanRaiseAnything(h, i, to) ==
  /\ MayAct(h, i)
  /\ to > h.currentBet
  /\ to <= h.committed[i] + h.stack[i]
  /\ ~h.acted[i]

CanRaise(h, i, to) ==
  /\ MayAct(h, i)
  /\ to > h.currentBet
  /\ to <= h.committed[i] + h.stack[i]
  /\ IsFullRaise(h, to) \/ to = h.committed[i] + h.stack[i]
  /\ ~h.acted[i]

FoldBy(h, i)  == Advance([h EXCEPT !.status[i] = "Folded", !.acted[i] = TRUE])
CheckBy(h, i) == Advance([h EXCEPT !.acted[i] = TRUE])
CallBy(h, i)  ==
  Advance([Commit(h, i, h.currentBet - h.committed[i]) EXCEPT !.acted[i] = TRUE])

\* Bet and Raise share their code: `to' is the total the seat raises to.  A
\* full raise clears the acted flags; a short all-in does not.
RaiseBy(h, i, to) ==
  LET paid == Commit(h, i, to - h.committed[i])
      full == IsFullRaise(h, to)
  IN  Advance([paid EXCEPT
        !.minRaise   = IF full THEN to - h.currentBet ELSE @,
        !.currentBet = to,
        !.acted      = [j \in Seats |-> j = i \/ (h.acted[j] /\ ~full)]])

-----------------------------------------------------------------------------
(* Dealing *)

BlindSeats(dealt, button) ==
  LET left(i) == FirstAfter(i, dealt)
  IN  IF Cardinality(dealt) = 2
        THEN [sb |-> button, bb |-> left(button), first |-> button]
        ELSE [sb |-> left(button), bb |-> left(left(button)),
              first |-> left(left(left(button)))]

\* The hand before the blinds: the dealt seats are active with their stacks.
Dealt(stacks, dealt, button, bigBlind) ==
  [stack      |-> stacks,
   committed  |-> [i \in Seats |-> 0],
   totalBet   |-> [i \in Seats |-> 0],
   status     |-> [i \in Seats |-> IF i \in dealt THEN "Active" ELSE "SittingOut"],
   acted      |-> [i \in Seats |-> FALSE],
   street     |-> "Preflop",
   board      |-> 0,
   button     |-> button,
   toAct      |-> Nobody,
   currentBet |-> 0,
   minRaise   |-> 0,
   bigBlind   |-> bigBlind,
   pot        |-> 0]

\* The bet to match is the whole big blind, even when it was posted short, and
\* posting is not acting.
NewHand(stacks, dealt, button, smallBlind, bigBlind) ==
  LET seat == BlindSeats(dealt, button)
      h0   == Dealt(stacks, dealt, button, bigBlind)
  IN  [Commit(Commit(h0, seat.sb, smallBlind), seat.bb, bigBlind) EXCEPT
         !.currentBet = bigBlind, !.minRaise = bigBlind, !.toAct = seat.first]

-----------------------------------------------------------------------------
(* Settlement.  `best' gives each seat the strength of its hand. *)

Levels(h) == {h.totalBet[i] : i \in Seats} \ {0}

LevelBelow(h, l) == Max({0} \cup {m \in Levels(h) : m < l})

\* One layer of BuildPots per level l of the contributions.
Contributors(h, l) == {i \in Seats : h.totalBet[i] >= l}
Eligible(h, l)     == {i \in Contributors(h, l) : h.status[i] # "Folded"}
LayerAmount(h, l)  == (l - LevelBelow(h, l)) * Cardinality(Contributors(h, l))

\* BuildPots drops a layer nobody is eligible for.
Pots(h) == {l \in Levels(h) : Eligible(h, l) # {}}

BestSeats(S, best) == {i \in S : \A j \in S : best[i] >= best[j]}

\* Mutant: the odd chips of a split are lost.
ShareOfNoOddChips(h, l, best, i) ==
  LET winners == BestSeats(Eligible(h, l), best)
  IN  IF i \notin winners THEN 0
      ELSE LayerAmount(h, l) \div Cardinality(winners)

\* Odd chips go one each to the winners closest to the button's left.
ShareOf(h, l, best, i) ==
  LET winners == BestSeats(Eligible(h, l), best)
      n       == Cardinality(winners)
      before  == {j \in winners : Distance(h.button, j) < Distance(h.button, i)}
  IN  IF i \notin winners THEN 0
      ELSE LayerAmount(h, l) \div n
             + (IF Cardinality(before) < LayerAmount(h, l) % n THEN 1 ELSE 0)

Awards(h, best) ==
  IF Cardinality(NonFolded(h)) = 1
    THEN [i \in Seats |-> IF i \in NonFolded(h) THEN h.pot ELSE 0]
    ELSE [i \in Seats |-> SumOver([l \in Pots(h) |-> ShareOf(h, l, best, i)], Pots(h))]

=============================================================================
