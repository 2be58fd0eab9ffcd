----------------------------- MODULE TableProofs -----------------------------
(***************************************************************************)
(* Proofs about the cash table, for every number of seats and players,     *)
(* every choice of blinds and buy-ins and every number of hands.           *)
(***************************************************************************)
EXTENDS Table, HandProofs

-----------------------------------------------------------------------------
(* The inductive invariant *)

\* The hand of a running table, whether or not it is over: its chips are those dealt, and
\* a seat that was not dealt in has none of them.
HandOK(h, st) ==
  /\ ChipsOK(h, st) /\ BetsBounded(h) /\ PotOK(h) /\ ContestOK(h)
  /\ Cardinality(DealtIn(h)) >= 2
  /\ \A s \in Seats \ DealtIn(h) : st[s] = 0

\* Broke marks are of seats without chips; a seat that was dealt in has none yet.
MarksOK(u) ==
  \A s \in Occupied(u) :
    IF WasDealt(u, s) THEN u.seats[s].brokeAtHand = 0
    ELSE u.seats[s].brokeAtHand > 0 <=> u.seats[s].stack = 0

\* Nobody is at a table about to close.
IdleOK(u) == u.idleArmed => u.subs = {} /\ Occupied(u) = {}

\* A table with a hand, over or not, and one without.
PlayOK(u) ==
  /\ u \in TableState /\ ~u.stopped /\ MarksOK(u) /\ IdleOK(u)
  /\ HandOK(u.hand, u.startStack) /\ u.handNum > 0

RestOK(u) ==
  /\ u \in TableState /\ ~u.stopped /\ MarksOK(u) /\ IdleOK(u)
  /\ ~Running(u) /\ ~u.turnArmed

\* The hand goes on: the seat to act owes an action and its clock runs, or it is the heads-up
\* button that is all-in with its blind.
LiveOK(u) ==
  /\ u.hand.street # "Showdown" /\ u.hand.toAct \in Seats
  /\ \/ u.hand.toAct \in OwesAction(u.hand) /\ u.turnArmed
     \/ ShortButton(u)

\* The table between two handlers.
TableOK(u) ==
  \/ PlayOK(u) /\ LiveOK(u)
  \/ RestOK(u) /\ ~MayStart(u)

\* The table once its loop has ended.
StoppedOK(u) ==
  /\ u \in TableState /\ IdleOK(u)
  /\ Running(u) => HandOK(u.hand, u.startStack) /\ LiveOK(u)

\* The seat on the clock can act and asked to sit out.
Pending(u) ==
  /\ Running(u) /\ MayAct(u.hand, u.hand.toAct)
  /\ u.seats[u.hand.toAct].foldPending

\* The table between two handlers, or once its loop has ended.
Between(u) == IF u.stopped THEN StoppedOK(u) ELSE TableOK(u) /\ ~Pending(u)

\* The chips of the table: the pot, what the players at it own, and what is astray.
Own(u) == [s \in Seats |-> IF s \in Occupied(u) THEN StackOf(u, s) ELSE 0]
Held(u) == u.hand.pot + SumOver(Own(u), Seats) + u.astray

\* A dealt seat still shows the stack it was dealt with.
SnapOK(u) ==
  \A s \in Occupied(u) : WasDealt(u, s) => u.seats[s].stack = u.startStack[s]

TableInv ==
  /\ TypeOK
  /\ Between(t)
  /\ ~reused => /\ SnapOK(t)
                /\ SumOver(ledger, Players) + Held(t) = Cardinality(Players) * StartBalance

-----------------------------------------------------------------------------
(* Tables with and without a hand *)

\* Between hands nobody is dealt in and there is no pot.
LEMMA NoHandOK ==
  /\ NoHand \in HandState /\ NoHand.pot = 0 /\ DealtIn(NoHand) = {}
  /\ \A s \in Seats : NoHand.status[s] = "SittingOut" /\ NoHand.totalBet[s] = 0
<1>1. /\ NoChips \in [Seats -> Nat] /\ [i \in Seats |-> FALSE] \in [Seats -> BOOLEAN]
      /\ [i \in Seats |-> IF i \in {} THEN "Active" ELSE "SittingOut"] \in [Seats -> PlayerStatus]
      /\ "Preflop" \in Street /\ 0 \in 0 .. 5 /\ 0 \in Nat /\ 0 \in Seats /\ BigBlind \in Nat
  BY NumSeatsAssumption, TableAssumption DEF NoChips, PlayerStatus, Street, Seats
<1>2. [i \in Seats |-> 0] = NoChips
  BY DEF NoChips
<1>. QED BY <1>1, <1>2 DEF NoHand, Dealt, HandState, DealtIn

\* A hand that was dealt is not the absence of one.
LEMMA HandRuns ==
  ASSUME NEW h, NEW st, HandOK(h, st)
  PROVE  /\ h # NoHand /\ h \in HandState
         /\ \A s \in Seats : h.status[s] = "SittingOut" => h.stack[s] = 0 /\ h.totalBet[s] = 0
<1>1. h # NoHand
  BY NoHandOK, FS_EmptySet DEF HandOK
<1>2. h \in HandState
  BY DEF HandOK, ChipsOK
<1>3. ASSUME NEW s \in Seats, h.status[s] = "SittingOut"
      PROVE  h.stack[s] = 0 /\ h.totalBet[s] = 0
  <2>1. h.stack[s] + h.totalBet[s] = 0
    BY <1>3 DEF HandOK, DealtIn, ChipsOK
  <2>. QED BY <1>2, <2>1 DEF HandState
<1>. QED BY <1>1, <1>2, <1>3

\* What a seat owns is a number of chips.
LEMMA OwnType ==
  ASSUME NEW u \in TableState
  PROVE  /\ Own(u) \in [Seats -> Nat] /\ SumOver(Own(u), Seats) \in Nat
         /\ Occupied(u) \subseteq Seats
<1>1. /\ u.seats \in [Seats -> SeatState] /\ u.hand \in HandState
      /\ \A s \in Seats : u.seats[s].stack \in Nat /\ u.hand.stack[s] \in Nat
  BY DEF TableState, SeatState, HandState
<1>2. Own(u) \in [Seats -> Nat]
  BY <1>1 DEF Own, StackOf
<1>3. IsFiniteSet(Seats)
  BY SeatSets
<1>. QED BY <1>2, <1>3, SumNat DEF Occupied

\* startHandIfReady: a ready table deals, and every chip of the new hand comes from the
\* seat it was dealt to.
LEMMA StartOK ==
  ASSUME NEW u, RestOK(u)
  PROVE  LET v == StartHandIfReady(u)
         IN  /\ TableOK(v) /\ Held(v) = Held(u) /\ SnapOK(v)
             /\ \/ v = u
                \/ /\ v.handNum = u.handNum + 1 /\ Running(v)
                   /\ \A s \in Seats : ~v.seats[s].foldPending
                   /\ \A s \in Seats : Own(v)[s] + v.hand.totalBet[s] = Own(u)[s]
<1>1. /\ u \in TableState /\ u.hand = NoHand /\ u.seats \in [Seats -> SeatState]
      /\ u.button \in Seats /\ u.handNum \in Nat /\ u.astray \in Int
  BY DEF RestOK, Running, TableState
<1>2. CASE ~MayStart(u)
  <2>1. StartHandIfReady(u) = u
    BY <1>2 DEF StartHandIfReady
  <2>2. SnapOK(u)
    BY <1>1, NoHandOK DEF SnapOK, WasDealt, Occupied
  <2>. QED BY <1>2, <2>1, <2>2 DEF TableOK
<1>3. CASE MayStart(u)
  <2>. DEFINE dealt  == EligibleSeats(u)
              button == IF u.button \in dealt THEN u.button ELSE FirstAfter(u.button, dealt)
              stacks == [s \in Seats |-> IF s \in dealt THEN u.seats[s].stack ELSE 0]
              h      == NewHand(stacks, dealt, button, SmallBlind, BigBlind)
              seats  == SeatsAtDeal(u, u.handNum + 1)
              who    == [s \in Seats |-> IF s \in dealt THEN u.seats[s].player ELSE NoPlayer]
              v      == StartHandIfReady(u)
  <2>1. v = [u EXCEPT !.hand = h, !.seats = seats, !.startStack = stacks, !.dealtTo = who,
                      !.button = button, !.handNum = @ + 1, !.turnArmed = TRUE]
    BY <1>3 DEF StartHandIfReady
  <2>2. /\ dealt \in SUBSET Seats /\ dealt \subseteq Occupied(u) /\ Cardinality(dealt) >= 2
        /\ \A s \in Seats : /\ u.seats[s].stack \in Nat /\ u.seats[s].player \in Players \cup {NoPlayer}
                            /\ u.seats[s].brokeAtHand \in Nat
                            /\ s \in dealt => u.seats[s].stack > 0
    BY <1>1, <1>3 DEF MayStart, EligibleSeats, Occupied, SeatState
  <2>3. button \in dealt /\ button \in Seats
    <3>1. dealt # {}
      BY <2>2, FS_EmptySet
    <3>. HIDE DEF dealt
    <3>. QED BY <1>1, <2>2, <3>1, FirstAfterIsFirst
  <2>4. /\ stacks \in [Seats -> Nat] /\ dealt = {i \in Seats : stacks[i] > 0}
        /\ \A s \in Seats : stacks[s] = IF s \in dealt THEN u.seats[s].stack ELSE 0
    <3>. HIDE DEF dealt
    <3>. QED BY <2>2
  <2>. HIDE DEF dealt, button, stacks
  <2>5. /\ ChipsOK(h, stacks) /\ BetsBounded(h) /\ h.street = "Preflop"
        /\ \/ ClockOK(h)
           \/ Cardinality(dealt) = 2 /\ stacks[button] <= SmallBlind
    <3>1. /\ SmallBlind \in Nat /\ BigBlind \in Nat /\ 0 < SmallBlind /\ SmallBlind <= BigBlind
      BY TableAssumption
    <3>. QED BY ONLY <2>2, <2>3, <2>4, <3>1, NewHandOK
  <2>6. /\ h \in HandState /\ PotOK(h) /\ DealtIn(h) = dealt /\ ContestOK(h)
        /\ Cardinality(dealt) = 2 /\ stacks[button] <= SmallBlind
             => h.toAct = button /\ h.status[button] = "AllIn"
    <3>1. /\ SmallBlind \in Nat /\ BigBlind \in Nat /\ 0 < SmallBlind /\ SmallBlind <= BigBlind
      BY TableAssumption
    <3>2. Cardinality(dealt) >= 2
      BY <2>2
    <3>3. h \in HandState /\ PotOK(h) /\ ContestOK(h)
      BY ONLY <2>3, <2>4, <3>1, <3>2, NewHandMoves
    <3>a. Cardinality(dealt) = 2 /\ stacks[button] <= SmallBlind
            => h.toAct = button /\ h.status[button] = "AllIn"
      BY ONLY <2>3, <2>4, <3>1, <3>2, NewHandMoves
    <3>b. ASSUME NEW s \in Seats PROVE h.status[s] # "SittingOut" <=> s \in dealt
      BY ONLY <2>3, <2>4, <3>1, <3>2, s \in Seats, NewHandMoves
    <3>4. DealtIn(h) = dealt
      <4>. HIDE DEF h
      <4>. QED BY <2>2, <3>b DEF DealtIn
    <3>. QED BY <3>3, <3>4, <3>a
  <2>. HIDE DEF h
  <2>7. /\ seats \in [Seats -> SeatState]
        /\ \A s \in Seats :
             \/ seats[s] = EmptySeat /\ u.seats[s].stack = 0
             \/ seats[s] = [u.seats[s] EXCEPT !.foldPending = FALSE]
    <3>1. EmptySeat \in SeatState
      BY DEF EmptySeat, SeatState
    <3>2. \A s \in Seats : [u.seats[s] EXCEPT !.foldPending = FALSE] \in SeatState
      BY ZenonT(60), <1>1 DEF SeatState
    <3>. QED BY <3>1, <3>2 DEF SeatsAtDeal
  <2>8. who \in [Seats -> Players \cup {NoPlayer}]
    BY <2>2
  <2>. HIDE DEF who, seats
  <2>9. /\ v \in TableState /\ v.hand = h /\ v.seats = seats /\ v.startStack = stacks
        /\ v.handNum = u.handNum + 1 /\ v.turnArmed = TRUE /\ v.stopped = u.stopped
        /\ v.subs = u.subs /\ v.idleArmed = u.idleArmed /\ v.astray = u.astray
    <3>1. u.handNum + 1 \in Nat /\ TRUE \in BOOLEAN
      BY <1>1
    <3>2. /\ v.hand = h /\ v.seats = seats /\ v.startStack = stacks
          /\ v.handNum = u.handNum + 1 /\ v.turnArmed = TRUE /\ v.stopped = u.stopped
          /\ v.subs = u.subs /\ v.idleArmed = u.idleArmed /\ v.astray = u.astray
      BY <1>1, <2>1 DEF TableState
    <3>3. v \in TableState
      BY ZenonT(60), <1>1, <2>1, <2>3, <2>4, <2>6, <2>7, <2>8, <3>1 DEF TableState
    <3>. QED BY <3>2, <3>3
  <2>. HIDE DEF v
  <2>10. /\ \A s \in Seats : ~seats[s].foldPending
         /\ \A s \in Occupied(v) :
              /\ s \in Occupied(u) /\ seats[s].stack = u.seats[s].stack
              /\ seats[s].brokeAtHand = u.seats[s].brokeAtHand
    BY <1>1, <2>7, <2>9 DEF Occupied, EmptySeat, SeatState
  <2>11. HandOK(h, stacks) /\ Running(v)
    <3>1. HandOK(h, stacks)
      BY <2>2, <2>4, <2>5, <2>6 DEF HandOK
    <3>. QED BY <2>9, <3>1, HandRuns DEF Running
  <2>12. \A s \in Seats : WasDealt(v, s) <=> s \in dealt
    BY <2>6, <2>9 DEF WasDealt, DealtIn
  <2>13. MarksOK(v) /\ IdleOK(v) /\ SnapOK(v)
    <3>1. ASSUME NEW s \in Occupied(v)
          PROVE  /\ IF WasDealt(v, s) THEN seats[s].brokeAtHand = 0
                    ELSE seats[s].brokeAtHand > 0 <=> seats[s].stack = 0
                 /\ WasDealt(v, s) => seats[s].stack = stacks[s]
      <4>1. s \in Seats /\ s \in Occupied(u) /\ ~WasDealt(u, s)
        BY <1>1, <2>10, NoHandOK DEF Occupied, WasDealt
      <4>2. u.seats[s].brokeAtHand > 0 <=> u.seats[s].stack = 0
        BY <4>1 DEF RestOK, MarksOK
      <4>. QED BY <2>2, <2>4, <2>10, <2>12, <4>1, <4>2
    <3>. QED BY <2>9, <2>10, <3>1 DEF MarksOK, IdleOK, SnapOK, RestOK
  <2>14. LiveOK(v)
    <3>1. CASE ClockOK(h)
      BY <2>5, <2>9, <3>1 DEF LiveOK, ClockOK, OwesAction, CanAct
    <3>2. CASE Cardinality(dealt) = 2 /\ stacks[button] <= SmallBlind
      <4>1. {s \in Seats : WasDealt(v, s)} = dealt
        BY <2>2, <2>12
      <4>. QED BY <2>3, <2>5, <2>6, <2>9, <3>2, <4>1 DEF LiveOK, ShortButton
    <3>. QED BY <2>5, <3>1, <3>2
  <2>15. TableOK(v)
    BY <1>1, <2>9, <2>11, <2>13, <2>14 DEF TableOK, PlayOK, RestOK
  <2>16. ASSUME NEW s \in Seats
         PROVE  Own(v)[s] + h.totalBet[s] = Own(u)[s]
    <3>1. h.stack[s] + h.totalBet[s] = stacks[s] /\ h.stack[s] \in Nat /\ h.totalBet[s] \in Nat
      BY <2>5, <2>6 DEF ChipsOK, HandState
    <3>2. /\ Own(u)[s] = IF s \in Occupied(u) THEN u.seats[s].stack ELSE 0
          /\ Own(v)[s] = IF s \in Occupied(v) THEN IF s \in dealt THEN h.stack[s] ELSE seats[s].stack
                         ELSE 0
      BY <1>1, <2>9, <2>12, NoHandOK DEF Own, StackOf, WasDealt
    <3>3. CASE s \in Occupied(v)
      BY <2>2, <2>4, <2>10, <3>1, <3>2, <3>3
    <3>4. CASE s \notin Occupied(v)
      <4>1. s \notin Occupied(u) \/ u.seats[s].stack = 0
        BY <1>1, <2>7, <2>9, <3>4 DEF Occupied, SeatState
      <4>2. s \notin dealt /\ Own(u)[s] = 0
        BY <2>2, <3>2, <4>1
      <4>. QED BY <2>4, <3>1, <3>2, <3>4, <4>2
    <3>. QED BY <3>3, <3>4
  <2>17. Held(v) = Held(u)
    <3>1. /\ Own(u) \in [Seats -> Nat] /\ Own(v) \in [Seats -> Nat]
          /\ SumOver(Own(u), Seats) \in Nat /\ SumOver(Own(v), Seats) \in Nat
      BY <1>1, <2>9, OwnType
    <3>2. h.totalBet \in [Seats -> Nat] /\ h.pot = SumOver(h.totalBet, Seats) /\ h.pot \in Nat
      BY <2>6 DEF HandState, PotOK
    <3>3. IsFiniteSet(Seats)
      BY SeatSets
    <3>4. SumOver(Own(u), Seats) = SumOver(Own(v), Seats) + SumOver(h.totalBet, Seats)
      <4>. DEFINE a == Own(u)
                  b == Own(v)
                  c == h.totalBet
      <4>1. \A s \in Seats : b[s] \in Int /\ c[s] \in Int /\ a[s] = b[s] + c[s]
        BY <2>16, <3>1, <3>2
      <4>. HIDE DEF a, b, c
      <4>2. SumOver(a, Seats) = SumOver(b, Seats) + SumOver(c, Seats)
        BY <3>3, <4>1, SumPlus
      <4>. QED BY <4>2 DEF a, b, c
    <3>5. Held(u) = 0 + SumOver(Own(u), Seats) + u.astray
      BY <1>1, NoHandOK DEF Held
    <3>6. Held(v) = h.pot + SumOver(Own(v), Seats) + u.astray
      BY <2>9 DEF Held
    <3>. QED BY <1>1, <3>1, <3>2, <3>4, <3>5, <3>6
  <2>. QED BY <2>9, <2>10, <2>11, <2>13, <2>15, <2>16, <2>17 DEF v
<1>. QED BY <1>2, <1>3

\* What settling leaves: no hand, or the next one dealt, with the folded seats neither
\* richer nor poorer than the new blinds made them.
Settled(u, v) ==
  \/ /\ v.handNum = u.handNum /\ ~Running(v)
     /\ \A s \in Seats : u.hand.status[s] = "Folded" => Own(v)[s] = Own(u)[s]
  \/ /\ v.handNum = u.handNum + 1 /\ Running(v)
     /\ \A s \in Seats : ~v.seats[s].foldPending
     /\ \A s \in Seats : u.hand.status[s] = "Folded"
                           => Own(v)[s] + v.hand.totalBet[s] = Own(u)[s]

\* settleHand: the pot goes to the seats still there, what goes to nobody is astray, and a
\* ready table deals again.
LEMMA SettleOK ==
  ASSUME NEW u, PlayOK(u), NEW best
  PROVE  LET v == SettleHand(u, best)
         IN  TableOK(v) /\ Held(v) = Held(u) /\ SnapOK(v) /\ Settled(u, v)
<1>. DEFINE awards == Awards(u.hand, best)
            seats  == SeatsAfter(u, awards)
            paid   == [u EXCEPT !.seats     = seats,
                                !.turnArmed = FALSE,
                                !.astray    = @ + u.hand.pot - SumOver(awards, Occupied(u))]
            c      == ClearHand(paid)
            r      == RotateButton(c)
<1>1. SettleHand(u, best) = StartHandIfReady(r)
  BY DEF SettleHand
<1>2. /\ u \in TableState /\ HandOK(u.hand, u.startStack) /\ u.hand \in HandState
      /\ u.seats \in [Seats -> SeatState] /\ u.astray \in Int /\ u.hand.pot \in Nat
      /\ u.handNum \in Nat /\ u.handNum > 0 /\ u.hand.stack \in [Seats -> Nat]
      /\ u.button \in Seats /\ Occupied(u) \in SUBSET Seats /\ ~u.stopped
  BY HandRuns DEF PlayOK, TableState, HandState, Occupied
<1>3. /\ awards \in [Seats -> Nat]
      /\ \A s \in Seats : u.hand.status[s] \in {"Folded", "SittingOut"} => awards[s] = 0
  BY <1>2, HandRuns, AwardsType
<1>. HIDE DEF awards
<1>4. SumOver(awards, Occupied(u)) \in Nat /\ IsFiniteSet(Seats)
  BY <1>2, <1>3, SeatSets, SumNat
<1>5. /\ seats \in [Seats -> SeatState]
      /\ \A s \in Seats :
           /\ seats[s].player = u.seats[s].player
           /\ ~WasDealt(u, s) \/ s \notin Occupied(u) => seats[s] = u.seats[s]
           /\ WasDealt(u, s) /\ s \in Occupied(u) =>
                /\ seats[s].stack = u.hand.stack[s] + awards[s]
                /\ seats[s].brokeAtHand =
                     IF u.hand.stack[s] + awards[s] = 0 /\ u.seats[s].brokeAtHand = 0
                     THEN u.handNum ELSE u.seats[s].brokeAtHand
  <2>1. ASSUME NEW s \in Seats
        PROVE  /\ seats[s] \in SeatState /\ seats[s].player = u.seats[s].player
               /\ ~WasDealt(u, s) \/ s \notin Occupied(u) => seats[s] = u.seats[s]
               /\ WasDealt(u, s) /\ s \in Occupied(u) =>
                    /\ seats[s].stack = u.hand.stack[s] + awards[s]
                    /\ seats[s].brokeAtHand =
                         IF u.hand.stack[s] + awards[s] = 0 /\ u.seats[s].brokeAtHand = 0
                         THEN u.handNum ELSE u.seats[s].brokeAtHand
    <3>. DEFINE stack == u.hand.stack[s] + awards[s]
                bust  == stack = 0 /\ u.seats[s].brokeAtHand = 0
    <3>1. stack \in Nat /\ u.seats[s] \in SeatState /\ (s \in Occupied(u) <=> u.seats[s].player # NoPlayer)
      BY <1>2, <1>3 DEF Occupied
    <3>2. seats[s] = IF ~WasDealt(u, s) \/ u.seats[s].player = NoPlayer THEN u.seats[s]
                     ELSE [u.seats[s] EXCEPT !.stack = stack, !.sittingOut = @ \/ bust,
                                             !.brokeAtHand = IF bust THEN u.handNum ELSE @]
      BY DEF SeatsAfter
    <3>. HIDE DEF stack, seats
    <3>3. /\ (u.seats[s].sittingOut \/ bust) \in BOOLEAN
          /\ (IF bust THEN u.handNum ELSE u.seats[s].brokeAtHand) \in Nat
      BY <1>2, <3>1 DEF SeatState
    <3>. HIDE DEF bust
    <3>4. CASE ~WasDealt(u, s) \/ u.seats[s].player = NoPlayer
      BY <3>1, <3>2, <3>4
    <3>5. CASE WasDealt(u, s) /\ u.seats[s].player # NoPlayer
      BY <3>1, <3>2, <3>3, <3>5 DEF SeatState, stack, bust
    <3>. QED BY <3>4, <3>5
  <2>2. seats = [s \in Seats |-> seats[s]]
    BY DEF SeatsAfter
  <2>. HIDE DEF seats
  <2>. QED BY <2>1, <2>2
<1>. HIDE DEF seats
<1>6. /\ c \in TableState /\ c.hand = NoHand /\ c.seats = seats /\ c.turnArmed = FALSE
      /\ c.astray = u.astray + u.hand.pot - SumOver(awards, Occupied(u))
      /\ c.handNum = u.handNum /\ c.subs = u.subs /\ c.idleArmed = u.idleArmed
      /\ c.stopped = u.stopped
  <2>1. /\ NoHand \in HandState /\ NoChips \in [Seats -> Nat]
        /\ [s \in Seats |-> NoPlayer] \in [Seats -> Players \cup {NoPlayer}]
        /\ u.astray + u.hand.pot - SumOver(awards, Occupied(u)) \in Int
    BY <1>2, <1>4, NoHandOK DEF NoChips
  <2>. QED BY <1>2, <1>5, <2>1 DEF ClearHand, TableState
<1>. HIDE DEF c
<1>7. /\ r \in TableState /\ r.hand = NoHand /\ r.seats = seats /\ r.turnArmed = FALSE
      /\ r.astray = u.astray + u.hand.pot - SumOver(awards, Occupied(u))
      /\ r.handNum = u.handNum /\ r.subs = u.subs /\ r.idleArmed = u.idleArmed
      /\ r.stopped = u.stopped
  <2>1. CASE Occupied(c) = {}
    BY <1>6, <2>1 DEF RotateButton
  <2>2. CASE Occupied(c) # {}
    <3>1. Occupied(c) \in SUBSET Seats /\ c.button \in Seats
      BY <1>6 DEF Occupied, TableState
    <3>2. FirstAfter(c.button, Occupied(c)) \in Seats
      BY <2>2, <3>1, FirstAfterIsFirst
    <3>. QED BY <1>6, <2>2, <3>2 DEF RotateButton, TableState
  <2>. QED BY <2>1, <2>2
<1>. HIDE DEF r
<1>8. Occupied(r) = Occupied(u)
  BY <1>5, <1>7 DEF Occupied
<1>9. \A s \in Seats : ~WasDealt(r, s)
  BY <1>7, NoHandOK DEF WasDealt
<1>10. RestOK(r)
  <2>1. ASSUME NEW s \in Occupied(r)
        PROVE  seats[s].brokeAtHand > 0 <=> seats[s].stack = 0
    <3>1. s \in Seats /\ s \in Occupied(u)
      BY <1>8 DEF Occupied
    <3>2. u.hand.stack[s] \in Nat /\ awards[s] \in Nat /\ u.seats[s].brokeAtHand \in Nat
      BY <1>2, <1>3, <3>1 DEF SeatState
    <3>3. IF WasDealt(u, s) THEN u.seats[s].brokeAtHand = 0
          ELSE u.seats[s].brokeAtHand > 0 <=> u.seats[s].stack = 0
      BY <3>1 DEF PlayOK, MarksOK
    <3>. QED BY <1>2, <1>5, <3>1, <3>2, <3>3
  <2>2. MarksOK(r)
    BY <1>7, <1>9, <2>1 DEF MarksOK, Occupied
  <2>3. IdleOK(r)
    BY <1>7, <1>8 DEF IdleOK, PlayOK
  <2>. QED BY <1>2, <1>7, <2>2, <2>3 DEF RestOK, Running
<1>11. \A s \in Seats : Own(r)[s] = Own(u)[s] + (IF s \in Occupied(u) THEN awards[s] ELSE 0)
  <2>1. ASSUME NEW s \in Seats
        PROVE  Own(r)[s] = Own(u)[s] + (IF s \in Occupied(u) THEN awards[s] ELSE 0)
    <3>1. /\ Own(r)[s] = IF s \in Occupied(u) THEN seats[s].stack ELSE 0
          /\ Own(u)[s] = IF s \in Occupied(u)
                         THEN IF WasDealt(u, s) THEN u.hand.stack[s] ELSE u.seats[s].stack ELSE 0
      BY <1>7, <1>8, <1>9 DEF Own, StackOf
    <3>2. u.hand.stack[s] \in Nat /\ u.seats[s].stack \in Nat /\ awards[s] \in Nat
      BY <1>2, <1>3 DEF SeatState
    <3>3. ~WasDealt(u, s) => awards[s] = 0
      BY <1>3 DEF WasDealt
    <3>. QED BY <1>5, <3>1, <3>2, <3>3
  <2>. QED BY <2>1
<1>12. Held(r) = Held(u)
  <2>. DEFINE g == [s \in Seats |-> IF s \in Occupied(u) THEN awards[s] ELSE 0]
              a == Own(r)
              b == Own(u)
  <2>1. \A s \in Seats : g[s] \in Int /\ awards[s] \in Int /\ g[s] = IF s \in Occupied(u) THEN awards[s] ELSE 0
    BY <1>3
  <2>2. /\ b \in [Seats -> Nat] /\ SumOver(b, Seats) \in Nat
        /\ \A s \in Seats : a[s] = b[s] + g[s]
    BY <1>2, <1>11, OwnType
  <2>3. /\ Held(u) = u.hand.pot + SumOver(b, Seats) + u.astray
        /\ Held(r) = 0 + SumOver(a, Seats) + (u.astray + u.hand.pot - SumOver(awards, Occupied(u)))
    BY <1>7, NoHandOK DEF Held
  <2>. HIDE DEF g, a, b
  <2>4. SumOver(a, Seats) = SumOver(b, Seats) + SumOver(g, Seats)
    BY <1>4, <2>1, <2>2, SumPlus
  <2>5. SumOver(awards, Occupied(u)) = SumOver(g, Seats)
    BY <1>2, <1>4, <2>1, SumPart
  <2>. QED BY <1>2, <1>4, <2>2, <2>3, <2>4, <2>5
<1>13. \A s \in Seats : u.hand.status[s] = "Folded" => Own(r)[s] = Own(u)[s]
  <2>1. Own(u) \in [Seats -> Nat]
    BY <1>2, OwnType
  <2>. QED BY <1>3, <1>11, <2>1
<1>. DEFINE v == StartHandIfReady(r)
<1>14. /\ TableOK(v) /\ Held(v) = Held(r) /\ SnapOK(v)
       /\ \/ v = r
          \/ /\ v.handNum = r.handNum + 1 /\ Running(v)
             /\ \A s \in Seats : ~v.seats[s].foldPending
             /\ \A s \in Seats : Own(v)[s] + v.hand.totalBet[s] = Own(r)[s]
  BY <1>10, StartOK
<1>. HIDE DEF v
<1>15. Settled(u, v)
  <2>1. CASE v = r
    BY <1>7, <1>13, <2>1 DEF Settled, Running
  <2>2. CASE v # r
    BY <1>7, <1>13, <1>14, <2>2 DEF Settled
  <2>. QED BY <2>1, <2>2
<1>. QED BY <1>1, <1>12, <1>14, <1>15 DEF v

-----------------------------------------------------------------------------
(* A step of the hand, and the folds it drives *)

\* What a step leaves of a table whose hand it moved on: the hand settled, or the same one
\* still running with nothing more paid and no folded seat back in.
After(u, v) ==
  /\ TableOK(v) /\ Held(v) = Held(u) /\ (SnapOK(u) => SnapOK(v))
  /\ \/ Settled(u, v)
     \/ /\ v.handNum = u.handNum /\ Running(v) /\ v.seats = u.seats
        /\ v.hand.totalBet = u.hand.totalBet /\ v.hand.stack = u.hand.stack
        /\ DealtIn(v.hand) = DealtIn(u.hand)
        /\ CanAct(v.hand) \subseteq CanAct(u.hand)
        /\ \A s \in Seats : u.hand.status[s] = "Folded" => v.hand.status[s] = "Folded"

\* The same seats with the same hand own the same.
LEMMA OwnSame ==
  ASSUME NEW u, NEW v, v.seats = u.seats, v.hand.stack = u.hand.stack,
         DealtIn(v.hand) = DealtIn(u.hand)
  PROVE  Own(v) = Own(u)
<1>1. \A s \in Seats : WasDealt(v, s) <=> WasDealt(u, s)
  <2>1. \A s \in Seats : /\ s \in DealtIn(v.hand) <=> WasDealt(v, s)
                         /\ s \in DealtIn(u.hand) <=> WasDealt(u, s)
    BY DEF DealtIn, WasDealt
  <2>. QED BY <2>1
<1>. QED BY <1>1 DEF Own, StackOf, Occupied

\* A step of the engine: the payment of a seat moves between what it owns and the pot.
LEMMA MovedOK ==
  ASSUME NEW u, PlayOK(u), NEW h, StepOK(h, u.startStack), NEW i \in Seats,
         PaysOnly(u.hand, h, i), ContestOK(h),
         i \in Occupied(u) \/ h.totalBet = u.hand.totalBet
  PROVE  LET m == [u EXCEPT !.hand = h]
         IN  PlayOK(m) /\ Held(m) = Held(u) /\ (SnapOK(u) => SnapOK(m))
<1>. DEFINE m == [u EXCEPT !.hand = h]
<1>1. /\ u \in TableState /\ u.hand \in HandState /\ HandOK(u.hand, u.startStack)
      /\ h \in HandState /\ u.astray \in Int /\ u.startStack \in [Seats -> Nat]
  BY HandRuns DEF PlayOK, TableState, StepOK, ChipsOK
<1>2. /\ m \in TableState /\ m.hand = h /\ m.seats = u.seats /\ m.startStack = u.startStack
      /\ m.handNum = u.handNum /\ m.subs = u.subs /\ m.idleArmed = u.idleArmed
      /\ m.stopped = u.stopped /\ m.astray = u.astray /\ Occupied(m) = Occupied(u)
  BY <1>1 DEF TableState, Occupied
<1>. HIDE DEF m
<1>3. \A s \in Seats : WasDealt(m, s) <=> WasDealt(u, s)
  <2>1. \A s \in Seats : /\ s \in DealtIn(h) <=> WasDealt(m, s)
                         /\ s \in DealtIn(u.hand) <=> WasDealt(u, s)
    BY <1>2 DEF DealtIn, WasDealt
  <2>. QED BY <2>1 DEF PaysOnly
<1>4. HandOK(h, u.startStack)
  BY <1>1, PaysOnlyPot DEF HandOK, StepOK, PaysOnly
<1>5. MarksOK(m) /\ IdleOK(m) /\ (SnapOK(u) => SnapOK(m))
  BY <1>2, <1>3 DEF PlayOK, MarksOK, IdleOK, SnapOK, Occupied
<1>6. PlayOK(m)
  BY <1>2, <1>4, <1>5 DEF PlayOK
<1>7. /\ Own(u) \in [Seats -> Nat] /\ Own(m) \in [Seats -> Nat]
      /\ SumOver(Own(u), Seats) \in Nat /\ IsFiniteSet(Seats)
  BY <1>1, <1>2, OwnType, SeatSets
<1>8. \A s \in Seats \ {i} : Own(m)[s] = Own(u)[s]
  BY <1>2, <1>3 DEF Own, StackOf, PaysOnly
<1>9. Own(m)[i] - Own(u)[i] = u.hand.pot - h.pot
  <2>1. /\ h.stack[i] + h.totalBet[i] = u.startStack[i]
        /\ u.hand.stack[i] + u.hand.totalBet[i] = u.startStack[i]
        /\ h.pot - u.hand.pot = h.totalBet[i] - u.hand.totalBet[i]
        /\ h.stack[i] \in Nat /\ h.totalBet[i] \in Nat /\ u.hand.stack[i] \in Nat
        /\ u.hand.totalBet[i] \in Nat /\ u.startStack[i] \in Nat
        /\ h.pot \in Nat /\ u.hand.pot \in Nat /\ u.seats[i].stack \in Nat
    BY <1>1, <1>4 DEF HandOK, ChipsOK, PaysOnly, HandState, TableState, SeatState
  <2>2. ~WasDealt(u, i) => u.startStack[i] = 0
    BY <1>1 DEF HandOK, DealtIn, WasDealt
  <2>3. /\ Own(u)[i] = IF i \in Occupied(u)
                       THEN IF WasDealt(u, i) THEN u.hand.stack[i] ELSE u.seats[i].stack ELSE 0
        /\ Own(m)[i] = IF i \in Occupied(u)
                       THEN IF WasDealt(u, i) THEN h.stack[i] ELSE u.seats[i].stack ELSE 0
    BY <1>2, <1>3 DEF Own, StackOf
  <2>4. CASE i \in Occupied(u)
    <3>1. CASE WasDealt(u, i)
      <4>1. Own(u)[i] = u.hand.stack[i] /\ Own(m)[i] = h.stack[i]
        BY <2>3, <2>4, <3>1
      <4>. QED BY <2>1, <4>1
    <3>2. CASE ~WasDealt(u, i)
      <4>1. Own(u)[i] = Own(m)[i] /\ Own(u)[i] \in Nat
        BY <1>7, <2>3, <2>4, <3>2
      <4>2. h.totalBet[i] = 0 /\ u.hand.totalBet[i] = 0
        BY <2>1, <2>2, <3>2
      <4>3. h.pot = u.hand.pot /\ h.pot \in Nat
        BY <2>1, <4>2
      <4>4. Own(m)[i] - Own(u)[i] = 0 /\ u.hand.pot - h.pot = 0
        <5>. HIDE DEF Own
        <5>. QED BY <4>1, <4>3
      <4>. QED BY <4>4
    <3>. QED BY <3>1, <3>2
  <2>5. CASE i \notin Occupied(u)
    <3>1. h.totalBet[i] = u.hand.totalBet[i] /\ Own(u)[i] = 0 /\ Own(m)[i] = 0
      BY <2>3, <2>5
    <3>. QED BY <2>1, <3>1
  <2>. QED BY <2>4, <2>5
<1>10. SumOver(Own(m), Seats) = SumOver(Own(u), Seats) + (Own(m)[i] - Own(u)[i])
  <2>. DEFINE a == Own(m)
              b == Own(u)
  <2>1. /\ \A s \in Seats : b[s] \in Int /\ a[s] \in Int
        /\ \A s \in Seats \ {i} : a[s] = b[s]
    BY <1>7, <1>8
  <2>. HIDE DEF a, b
  <2>2. SumOver(a, Seats) = SumOver(b, Seats) + (a[i] - b[i])
    BY <1>7, <2>1, SumChange
  <2>. QED BY <2>2 DEF a, b
<1>11. Held(m) = Held(u)
  <2>1. Held(m) = h.pot + SumOver(Own(m), Seats) + u.astray
    BY <1>2 DEF Held
  <2>2. h.pot \in Nat /\ u.hand.pot \in Nat
    BY <1>1 DEF HandState
  <2>. QED BY <1>1, <1>7, <1>9, <1>10, <2>1, <2>2 DEF Held
<1>. QED BY <1>5, <1>6, <1>11 DEF m

\* applyAction: the moved hand is settled or its next seat is put on the clock.
LEMMA ApplyHandOK ==
  ASSUME NEW u, NEW h, ClockOK(h), NEW best, PlayOK([u EXCEPT !.hand = h])
  PROVE  After([u EXCEPT !.hand = h], ApplyHand(u, h, best))
<1>. DEFINE m == [u EXCEPT !.hand = h]
            v == ApplyHand(u, h, best)
<1>1. PlayOK(m)
  OBVIOUS
<1>2. m.hand = h
  <2>1. m \in TableState
    BY DEF PlayOK
  <2>2. "hand" \in DOMAIN u
    <3>1. DOMAIN m = DOMAIN u /\ "hand" \in DOMAIN m
      BY <2>1 DEF TableState
    <3>. QED BY <3>1
  <2>. QED BY <2>2
<1>3. v = IF h.street = "Showdown" THEN SettleHand(m, best) ELSE [m EXCEPT !.turnArmed = TRUE]
  BY DEF ApplyHand
<1>. HIDE DEF m, v
<1>4. CASE h.street = "Showdown"
  <2>1. /\ TableOK(v) /\ Held(v) = Held(m) /\ SnapOK(v) /\ Settled(m, v)
    BY <1>1, <1>3, <1>4, SettleOK
  <2>2. After(m, v)
    BY <2>1 DEF After
  <2>. QED BY <2>2 DEF m, v
<1>5. CASE h.street # "Showdown"
  <2>1. /\ m \in TableState /\ HandOK(m.hand, m.startStack) /\ m.hand \in HandState
    BY <1>1, HandRuns DEF PlayOK
  <2>2. /\ v \in TableState /\ v.hand = h /\ v.seats = m.seats /\ v.startStack = m.startStack
        /\ v.handNum = m.handNum /\ v.subs = m.subs /\ v.idleArmed = m.idleArmed
        /\ v.stopped = m.stopped /\ v.astray = m.astray /\ v.turnArmed = TRUE
    BY <1>2, <1>3, <1>5, <2>1 DEF TableState
  <2>3. Occupied(v) = Occupied(m) /\ \A s \in Seats : WasDealt(v, s) <=> WasDealt(m, s)
    BY <1>2, <2>2 DEF Occupied, WasDealt
  <2>4. Own(v) = Own(m)
    BY <1>2, <2>2, OwnSame
  <2>5. Held(v) = Held(m)
    BY <1>2, <2>2, <2>4 DEF Held
  <2>6. MarksOK(v) /\ IdleOK(v) /\ (SnapOK(m) => SnapOK(v))
    <3>1. MarksOK(m) /\ IdleOK(m)
      BY <1>1 DEF PlayOK
    <3>. QED BY <2>2, <2>3, <3>1 DEF MarksOK, IdleOK, SnapOK, Occupied
  <2>7. PlayOK(v)
    <3>1. m.handNum > 0 /\ ~m.stopped
      BY <1>1 DEF PlayOK
    <3>. QED BY <1>2, <2>1, <2>2, <2>6, <3>1 DEF PlayOK
  <2>8. LiveOK(v)
    BY <1>5, <2>2 DEF LiveOK, ClockOK, OwesAction, CanAct
  <2>9. Running(v)
    BY <1>2, <2>1, <2>2, HandRuns DEF Running
  <2>10. After(m, v)
    BY <1>2, <2>2, <2>5, <2>6, <2>7, <2>8, <2>9 DEF After, TableOK
  <2>. QED BY <2>10 DEF m, v
<1>. QED BY <1>4, <1>5

\* A live table's hand, as the lemmas about the engine need it.
LEMMA LiveHand ==
  ASSUME NEW u, TableOK(u), Running(u)
  PROVE  /\ PlayOK(u) /\ LiveOK(u) /\ u \in TableState /\ u.hand \in HandState
         /\ u.startStack \in [Seats -> Nat] /\ ChipsOK(u.hand, u.startStack)
         /\ BetsBounded(u.hand) /\ ContestOK(u.hand) /\ u.hand.toAct \in Seats
BY DEF TableOK, RestOK, PlayOK, LiveOK, HandOK, ChipsOK, TableState

\* A fold of the seat on the clock.
LEMMA FoldAfter ==
  ASSUME NEW u, TableOK(u), Running(u), NEW i \in Seats, MayAct(u.hand, i), NEW best
  PROVE  LET v == ApplyHand(u, FoldBy(u.hand, i), best)
         IN  /\ After(u, v)
             /\ Settled(u, v) \/ i \notin CanAct(v.hand)
<1>. DEFINE h == FoldBy(u.hand, i)
            m == [u EXCEPT !.hand = h]
            v == ApplyHand(u, h, best)
<1>1. /\ PlayOK(u) /\ u \in TableState /\ u.hand \in HandState
      /\ u.startStack \in [Seats -> Nat] /\ ChipsOK(u.hand, u.startStack)
      /\ BetsBounded(u.hand) /\ ContestOK(u.hand)
  BY LiveHand
<1>2. StepOK(h, u.startStack)
  BY <1>1, FoldKeepsChips
<1>3. /\ h.stack = u.hand.stack /\ h.totalBet = u.hand.totalBet /\ h.pot = u.hand.pot
      /\ h.status = [u.hand.status EXCEPT ![i] = "Folded"] /\ ContestOK(h)
  BY <1>1, FoldMoves
<1>. HIDE DEF h
<1>4. /\ DealtIn(h) = DealtIn(u.hand) /\ CanAct(h) = CanAct(u.hand) \ {i}
      /\ \A s \in Seats : u.hand.status[s] = "Folded" => h.status[s] = "Folded"
  BY <1>1, <1>3 DEF DealtIn, CanAct, MayAct, HandState
<1>5. PaysOnly(u.hand, h, i)
  BY <1>1, <1>3, <1>4 DEF PaysOnly, HandState
<1>6. PlayOK(m) /\ Held(m) = Held(u) /\ (SnapOK(u) => SnapOK(m))
  BY <1>1, <1>2, <1>3, <1>5, MovedOK
<1>7. m.hand = h /\ m.seats = u.seats /\ m.handNum = u.handNum
  BY <1>1 DEF TableState
<1>8. After(m, v)
  BY <1>2, <1>6, ApplyHandOK DEF StepOK
<1>. HIDE DEF m, v
<1>9. Own(m) = Own(u)
  BY <1>3, <1>4, <1>7, OwnSame
<1>10. Settled(m, v) => Settled(u, v)
  BY <1>4, <1>7, <1>9 DEF Settled
<1>11. CASE Settled(m, v)
  BY <1>6, <1>8, <1>10, <1>11 DEF After, v, h
<1>12. CASE ~Settled(m, v)
  <2>1. /\ v.handNum = u.handNum /\ Running(v) /\ v.seats = u.seats
        /\ v.hand.totalBet = u.hand.totalBet /\ v.hand.stack = u.hand.stack
        /\ DealtIn(v.hand) = DealtIn(u.hand)
        /\ CanAct(v.hand) \subseteq CanAct(u.hand) \ {i}
        /\ \A s \in Seats : u.hand.status[s] = "Folded" => v.hand.status[s] = "Folded"
    BY <1>3, <1>4, <1>7, <1>8, <1>12 DEF After
  <2>2. After(u, v) /\ i \notin CanAct(v.hand)
    BY <1>6, <1>8, <2>1 DEF After
  <2>. QED BY <2>2 DEF v, h
<1>. QED BY <1>11, <1>12

\* Nothing happening is a way for a step to go on.
LEMMA AfterSelf ==
  ASSUME NEW u, TableOK(u)
  PROVE  After(u, u)
<1>1. CASE Running(u)
  BY <1>1 DEF After
<1>2. CASE ~Running(u)
  BY <1>2 DEF After, Settled
<1>. QED BY <1>1, <1>2

\* One more fold of a seat that asked for it.
LEMMA AutoFoldAfter ==
  ASSUME NEW u, NEW v, After(u, v), NEW best
  PROVE  LET w == AutoFold(v, best)
         IN  /\ After(u, w)
             /\ ~Pending(v) => w = v
             /\ Settled(u, v) => ~Pending(v)
             /\ Pending(v) => Settled(u, w) \/ v.hand.toAct \in CanAct(v.hand) \ CanAct(w.hand)
             /\ Pending(v) /\ ~Settled(u, w) => CanAct(w.hand) \subseteq CanAct(v.hand)
<1>. DEFINE w == AutoFold(v, best)
            i == v.hand.toAct
<1>1. ~Pending(v) => w = v
  BY DEF AutoFold, TryFold, Pending
<1>2. Settled(u, v) => ~Pending(v)
  <2>1. ASSUME Running(v) PROVE i \in Seats
    BY <2>1, LiveHand DEF After
  <2>. QED BY <2>1 DEF Settled, Pending
<1>3. ASSUME Pending(v)
      PROVE  /\ After(u, w)
             /\ Settled(u, w) \/ i \in CanAct(v.hand) \ CanAct(w.hand)
             /\ ~Settled(u, w) => CanAct(w.hand) \subseteq CanAct(v.hand)
  <2>1. TableOK(v) /\ Running(v) /\ MayAct(v.hand, i) /\ i \in Seats
    BY <1>3, LiveHand DEF After, Pending
  <2>2. w = ApplyHand(v, FoldBy(v.hand, i), best)
    BY <1>3 DEF AutoFold, TryFold, Pending
  <2>3. After(v, w) /\ (Settled(v, w) \/ i \notin CanAct(w.hand))
    BY <2>1, <2>2, FoldAfter
  <2>. HIDE DEF w
  <2>4. /\ v.handNum = u.handNum /\ v.seats = u.seats
        /\ v.hand.totalBet = u.hand.totalBet /\ v.hand.stack = u.hand.stack
        /\ DealtIn(v.hand) = DealtIn(u.hand) /\ CanAct(v.hand) \subseteq CanAct(u.hand)
        /\ \A s \in Seats : u.hand.status[s] = "Folded" => v.hand.status[s] = "Folded"
    BY <1>2, <1>3 DEF After
  <2>5. Own(v) = Own(u)
    BY <2>4, OwnSame
  <2>6. TableOK(w) /\ Held(w) = Held(u) /\ (SnapOK(u) => SnapOK(w))
    BY <2>3 DEF After
  <2>7. i \in CanAct(v.hand)
    BY <2>1 DEF MayAct, CanAct
  <2>8. CASE Settled(v, w)
    <3>1. Settled(u, w)
      BY <2>4, <2>5, <2>8 DEF Settled
    <3>. QED BY <2>6, <3>1 DEF After
  <2>9. CASE ~Settled(v, w)
    <3>1. /\ w.handNum = v.handNum /\ Running(w) /\ w.seats = v.seats
          /\ w.hand.totalBet = v.hand.totalBet /\ w.hand.stack = v.hand.stack
          /\ DealtIn(w.hand) = DealtIn(v.hand) /\ CanAct(w.hand) \subseteq CanAct(v.hand)
          /\ \A s \in Seats : v.hand.status[s] = "Folded" => w.hand.status[s] = "Folded"
      BY <2>3, <2>9 DEF After
    <3>2. After(u, w)
      BY <2>4, <2>6, <3>1 DEF After
    <3>. QED BY <2>3, <2>7, <2>9, <3>1, <3>2
  <2>. QED BY <2>8, <2>9
<1>4. CASE ~Pending(v)
  <2>. HIDE DEF w
  <2>. QED BY <1>1, <1>4 DEF w
<1>5. CASE Pending(v)
  <2>. HIDE DEF w
  <2>. QED BY <1>2, <1>3, <1>5 DEF w
<1>. QED BY <1>4, <1>5

\* driveAutoFolds as a sequence of folds, one for each seat.
LEMMA DriveIs ==
  ASSUME NEW u, NEW best
  PROVE  \E d : /\ DriveAutoFolds(u, best) = d[NumSeats] /\ d[0] = u
                /\ \A n \in 1 .. NumSeats : d[n] = AutoFold(d[n - 1], best)
<1>. DEFINE N   == 0 .. NumSeats
            Body(d) == [n \in N |-> IF n = 0 THEN u ELSE AutoFold(d[n - 1], best)]
            Upto(d, k) == d[0] = u /\ \A n \in 1 .. k : d[n] = AutoFold(d[n - 1], best)
            K   == {k \in Nat : \E d : Upto(d, k)}
<1>1. 0 \in K
  <2>1. Upto([n \in {0} |-> u], 0)
    OBVIOUS
  <2>. QED BY <2>1
<1>2. ASSUME NEW k \in K PROVE k + 1 \in K
  <2>1. PICK d : Upto(d, k)
    OBVIOUS
  <2>. DEFINE e == [n \in 0 .. k + 1 |-> IF n = k + 1 THEN AutoFold(d[k], best) ELSE d[n]]
  <2>2. k \in Nat /\ 0 \in 0 .. k + 1 /\ 0 # k + 1
    OBVIOUS
  <2>3. e[0] = u
    BY <2>1, <2>2
  <2>4. ASSUME NEW n \in 1 .. k + 1 PROVE e[n] = AutoFold(e[n - 1], best)
    <3>1. n \in 0 .. k + 1 /\ n - 1 \in 0 .. k + 1 /\ n - 1 # k + 1
      BY <2>2
    <3>2. e[n - 1] = d[n - 1]
      BY <3>1
    <3>3. CASE n = k + 1
      BY <2>2, <3>1, <3>2, <3>3
    <3>4. CASE n # k + 1
      <4>1. n \in 1 .. k
        BY <2>2, <3>4
      <4>. QED BY <2>1, <3>1, <3>2, <3>4, <4>1
    <3>. QED BY <3>3, <3>4
  <2>. HIDE DEF e
  <2>5. Upto(e, k + 1)
    BY <2>3, <2>4
  <2>6. \E f : Upto(f, k + 1)
    <3>. HIDE DEF Upto
    <3>. QED BY <2>5
  <2>. QED BY <2>2, <2>6
<1>3. K = Nat
  <2>. HIDE DEF K
  <2>1. K \in SUBSET Nat /\ \A k \in K : k + 1 \in K
    BY <1>2 DEF K
  <2>. QED BY <1>1, <2>1, NatInduct
<1>4. NumSeats \in K
  BY <1>3, NumSeatsAssumption
<1>5. PICK d : Upto(d, NumSeats)
  BY <1>4
<1>. DEFINE e == [n \in N |-> d[n]]
<1>6. e = Body(e)
  <2>1. ASSUME NEW n \in N PROVE e[n] = IF n = 0 THEN u ELSE AutoFold(e[n - 1], best)
    <3>1. CASE n = 0
      BY <1>5, <3>1
    <3>2. CASE n # 0
      <4>1. n \in 1 .. NumSeats /\ n - 1 \in N
        BY <3>2, NumSeatsAssumption
      <4>. QED BY <1>5, <3>2, <4>1
    <3>. QED BY <3>1, <3>2
  <2>. QED BY <2>1
<1>. DEFINE r == CHOOSE f : f = Body(f)
<1>7. r = Body(r)
  <2>. HIDE DEF e, Body
  <2>. QED BY <1>6
<1>8. DriveAutoFolds(u, best) = r[NumSeats]
  BY DEF DriveAutoFolds
<1>. HIDE DEF r
<1>9. \A n \in N : r[n] = IF n = 0 THEN u ELSE AutoFold(r[n - 1], best)
  BY <1>7
<1>10. 0 \in N /\ \A n \in 1 .. NumSeats : n \in N /\ n # 0
  BY NumSeatsAssumption
<1>11. r[0] = u /\ \A n \in 1 .. NumSeats : r[n] = AutoFold(r[n - 1], best)
  BY <1>9, <1>10
<1>. QED BY <1>8, <1>11

\* driveAutoFolds ends with no seat on the clock that asked to sit out: every fold takes
\* one of the seats that can act.
LEMMA DriveOK ==
  ASSUME NEW u, NEW v, After(u, v), NEW best
  PROVE  LET w == DriveAutoFolds(v, best)
         IN  After(u, w) /\ ~Pending(w)
<1>1. PICK d : /\ DriveAutoFolds(v, best) = d[NumSeats] /\ d[0] = v
               /\ \A n \in 1 .. NumSeats : d[n] = AutoFold(d[n - 1], best)
  BY DriveIs
<1>. DEFINE Acting(x) == CanAct(x.hand)
            Good(n) == /\ After(u, d[n])
                       /\ \/ Settled(u, d[n])
                          \/ ~Pending(d[n])
                          \/ Cardinality(Acting(d[n])) + n <= NumSeats
            N == {n \in Nat : n <= NumSeats => Good(n)}
<1>2. \A x : IsFiniteSet(Acting(x)) /\ Cardinality(Acting(x)) \in Nat /\ Cardinality(Acting(x)) <= NumSeats
  <2>1. TAKE x
  <2>2. Acting(x) \in SUBSET Seats
    BY DEF CanAct
  <2>3. IsFiniteSet(Seats) /\ Cardinality(Seats) = NumSeats
    BY NumSeatsAssumption, FS_Interval DEF Seats
  <2>. HIDE DEF Acting
  <2>. QED BY <2>2, <2>3, SeatSets, FS_Subset
<1>3. 0 \in N
  <2>1. Cardinality(Acting(v)) + 0 <= NumSeats
    BY <1>2, NumSeatsAssumption
  <2>. QED BY <1>1, <2>1
<1>4. ASSUME NEW n \in N PROVE n + 1 \in N
  <2>1. SUFFICES ASSUME n + 1 <= NumSeats PROVE Good(n + 1)
    OBVIOUS
  <2>2. n \in Nat /\ n <= NumSeats /\ n + 1 \in 1 .. NumSeats /\ (n + 1) - 1 = n
    BY <2>1, NumSeatsAssumption
  <2>. DEFINE x == d[n]
              y == d[n + 1]
  <2>3. y = AutoFold(x, best)
    BY <1>1, <2>2
  <2>4. Good(n)
    BY <2>2
  <2>. HIDE DEF x, y, Acting
  <2>5. /\ After(u, y)
        /\ ~Pending(x) => y = x
        /\ Settled(u, x) => ~Pending(x)
        /\ Pending(x) => Settled(u, y) \/ x.hand.toAct \in Acting(x) \ Acting(y)
        /\ Pending(x) /\ ~Settled(u, y) => Acting(y) \subseteq Acting(x)
    BY <2>3, <2>4, AutoFoldAfter DEF x, Acting
  <2>6. CASE ~Pending(x)
    <3>1. After(u, y) /\ ~Pending(y)
      BY <2>5, <2>6
    <3>. QED BY <3>1 DEF y
  <2>7. CASE Pending(x) /\ Settled(u, y)
    BY <2>5, <2>7 DEF y
  <2>8. CASE Pending(x) /\ ~Settled(u, y)
    <3>1. Cardinality(Acting(x)) + n <= NumSeats
      BY <2>4, <2>5, <2>8 DEF x
    <3>2. Acting(y) \subseteq Acting(x) \ {x.hand.toAct} /\ x.hand.toAct \in Acting(x)
      BY <2>5, <2>8
    <3>3. /\ Cardinality(Acting(x) \ {x.hand.toAct}) = Cardinality(Acting(x)) - 1
          /\ IsFiniteSet(Acting(x) \ {x.hand.toAct})
      BY <1>2, <3>2, FS_RemoveElement
    <3>4. Cardinality(Acting(y)) <= Cardinality(Acting(x)) - 1
      BY <3>2, <3>3, FS_Subset
    <3>5. Cardinality(Acting(y)) \in Nat /\ Cardinality(Acting(x)) \in Nat
      BY <1>2
    <3>6. Cardinality(Acting(y)) + (n + 1) <= NumSeats
      BY <2>2, <3>1, <3>4, <3>5, NumSeatsAssumption
    <3>. QED BY <2>5, <3>6 DEF y
  <2>. QED BY <2>6, <2>7, <2>8
<1>5. N = Nat
  <2>. HIDE DEF N
  <2>1. N \in SUBSET Nat /\ \A n \in N : n + 1 \in N
    BY <1>4 DEF N
  <2>. QED BY <1>3, <2>1, NatInduct
<1>6. Good(NumSeats)
  <2>1. NumSeats \in N /\ NumSeats <= NumSeats
    BY <1>5, NumSeatsAssumption
  <2>. QED BY <2>1
<1>. DEFINE w == d[NumSeats]
<1>7. After(u, w) /\ (Settled(u, w) \/ ~Pending(w) \/ Cardinality(Acting(w)) + NumSeats <= NumSeats)
  BY <1>6
<1>. HIDE DEF w, N
<1>8. Settled(u, w) => ~Pending(w)
  BY <1>7, AutoFoldAfter
<1>9. Cardinality(Acting(w)) + NumSeats <= NumSeats => ~Pending(w)
  <2>1. Acting(w) = {} => ~Pending(w)
    BY <1>7, LiveHand DEF Pending, MayAct, CanAct, After
  <2>2. Cardinality(Acting(w)) = 0 => Acting(w) = {}
    BY <1>2, FS_EmptySet
  <2>3. Cardinality(Acting(w)) \in Nat
    BY <1>2
  <2>. HIDE DEF Acting
  <2>. QED BY <2>1, <2>2, <2>3, NumSeatsAssumption
<1>. QED BY <1>1, <1>7, <1>8, <1>9 DEF w

-----------------------------------------------------------------------------
(* The handlers' common parts *)

\* A table that only needs startHandIfReady to be one between two handlers.
ReadyOK(u) == (PlayOK(u) /\ LiveOK(u)) \/ RestOK(u)

\* From u to v no seat that asked to sit out has put chips into the hand they share.
Kept(u, v) ==
  /\ u.handNum <= v.handNum
  /\ v.handNum = u.handNum /\ Running(v)
       => \A s \in Seats : u.seats[s].foldPending => v.hand.totalBet[s] = u.hand.totalBet[s]

\* What a handler makes of the table: one between two handlers, with no pending fold on the
\* clock, the same chips, and nothing put in by a seat that asked to sit out.
Handled(u, v) ==
  /\ TableOK(v) /\ ~Pending(v) /\ Kept(u, v)
  /\ Held(v) = Held(u) /\ (SnapOK(u) => SnapOK(v))

\* Fewer seats ready to play do not make the table ready to deal.
LEMMA FewerReady ==
  ASSUME NEW u, ~MayStart(u), NEW v, ~Running(u) \/ Running(v),
         v.handNum = u.handNum, v.autoStart = u.autoStart, v.hostStarted = u.hostStarted,
         EligibleSeats(v) \subseteq EligibleSeats(u)
  PROVE  ~MayStart(v)
<1>1. EligibleSeats(u) \in SUBSET Seats /\ EligibleSeats(v) \in SUBSET Seats
  BY DEF EligibleSeats, Occupied
<1>2. /\ IsFiniteSet(EligibleSeats(u)) /\ Cardinality(EligibleSeats(u)) \in Nat
      /\ Cardinality(EligibleSeats(v)) \in Nat
  BY <1>1, SeatSets
<1>3. Cardinality(EligibleSeats(v)) <= Cardinality(EligibleSeats(u))
  BY <1>2, FS_Subset
<1>. HIDE DEF EligibleSeats
<1>. QED BY <1>2, <1>3 DEF MayStart

\* Between two handlers a table is ready, and it is not about to deal.
LEMMA ReadyTable ==
  ASSUME NEW u
  PROVE  /\ TableOK(u) => ReadyOK(u) /\ ~MayStart(u)
         /\ ReadyOK(u) /\ ~MayStart(u) => TableOK(u)
         /\ ReadyOK(u) => u \in TableState
<1>1. PlayOK(u) => Running(u) /\ u \in TableState
  BY HandRuns DEF PlayOK, Running
<1>. QED BY <1>1 DEF TableOK, ReadyOK, RestOK, MayStart

\* Marks on seats and subscribers that move no chips and no seat.
LEMMA TouchOK ==
  ASSUME NEW u, ReadyOK(u), NEW v \in TableState,
         v.hand = u.hand, v.startStack = u.startStack, v.handNum = u.handNum,
         v.stopped = u.stopped, v.astray = u.astray,
         v.turnArmed = u.turnArmed \/ (Running(u) /\ ShortButton(u)),
         \A s \in Seats : /\ v.seats[s].player = u.seats[s].player
                          /\ v.seats[s].stack = u.seats[s].stack
                          /\ v.seats[s].brokeAtHand = u.seats[s].brokeAtHand,
         IdleOK(v)
  PROVE  ReadyOK(v) /\ Own(v) = Own(u) /\ Held(v) = Held(u) /\ (SnapOK(u) => SnapOK(v))
<1>1. /\ Occupied(v) = Occupied(u) /\ Occupied(u) \subseteq Seats
      /\ \A s \in Seats : WasDealt(v, s) <=> WasDealt(u, s)
  BY DEF Occupied, WasDealt
<1>2. Own(v) = Own(u)
  BY <1>1 DEF Own, StackOf
<1>3. Held(v) = Held(u)
  BY <1>2 DEF Held
<1>4. MarksOK(u) => MarksOK(v)
  BY <1>1 DEF MarksOK
<1>5. SnapOK(u) => SnapOK(v)
  BY <1>1 DEF SnapOK
<1>6. CASE PlayOK(u) /\ LiveOK(u)
  <2>1. {s \in Seats : WasDealt(v, s)} = {s \in Seats : WasDealt(u, s)}
    BY <1>1
  <2>2. ShortButton(u) => ShortButton(v)
    BY <2>1 DEF ShortButton
  <2>3. PlayOK(v)
    BY <1>4, <1>6 DEF PlayOK
  <2>4. LiveOK(v)
    BY <1>6, <2>2 DEF LiveOK
  <2>. QED BY <1>2, <1>3, <1>5, <2>3, <2>4 DEF ReadyOK
<1>7. CASE RestOK(u)
  <2>1. RestOK(v)
    BY <1>4, <1>7 DEF RestOK, Running
  <2>. QED BY <1>2, <1>3, <1>5, <2>1 DEF ReadyOK
<1>. QED BY <1>6, <1>7 DEF ReadyOK

\* The deal at the end of a handler that may have made the table ready.
LEMMA DealOK ==
  ASSUME NEW u, ReadyOK(u), ~Pending(u)
  PROVE  LET v == StartHandIfReady(u)
         IN  Handled(u, v)
<1>. DEFINE v == StartHandIfReady(u)
<1>1. u \in TableState /\ u.handNum \in Nat
  BY ReadyTable DEF TableState
<1>2. CASE ~MayStart(u)
  <2>1. v = u
    BY <1>2 DEF StartHandIfReady
  <2>. HIDE DEF v
  <2>2. TableOK(u) /\ Kept(u, u)
    BY <1>1, <1>2, ReadyTable DEF Kept
  <2>3. Handled(u, v)
    BY <2>1, <2>2 DEF Handled
  <2>. QED BY <2>3 DEF v
<1>3. CASE MayStart(u)
  <2>1. RestOK(u)
    BY <1>3, HandRuns DEF ReadyOK, PlayOK, MayStart, Running
  <2>2. /\ TableOK(v) /\ Held(v) = Held(u) /\ SnapOK(v)
        /\ \/ v = u
           \/ v.handNum = u.handNum + 1 /\ Running(v) /\ \A s \in Seats : ~v.seats[s].foldPending
    BY <2>1, StartOK
  <2>. HIDE DEF v
  <2>3. Kept(u, v)
    BY <1>1, <2>2 DEF Kept
  <2>4. ~Pending(v)
    <3>1. Running(v) => v.hand.toAct \in Seats
      BY <2>2, LiveHand
    <3>. QED BY <2>2, <3>1 DEF Pending
  <2>5. Handled(u, v)
    BY <2>2, <2>3, <2>4 DEF Handled
  <2>. QED BY <2>5 DEF v
<1>. QED BY <1>2, <1>3

\* A later part of a handler keeps what an earlier one kept.
LEMMA KeptThrough ==
  ASSUME NEW u \in TableState, NEW m, NEW w \in TableState, Kept(u, m), After(m, w), m.handNum \in Nat
  PROVE  Kept(u, w)
<1>1. u.handNum \in Nat /\ w.handNum \in Nat
  BY DEF TableState
<1>2. CASE Settled(m, w)
  BY <1>1, <1>2 DEF Settled, Kept
<1>3. CASE ~Settled(m, w)
  <2>1. w.handNum = m.handNum /\ w.hand.totalBet = m.hand.totalBet
    BY <1>3 DEF After
  <2>2. Running(w) => Running(m) \/ \A s \in Seats : m.hand.totalBet[s] = w.hand.totalBet[s]
    BY <2>1
  <2>3. CASE Running(m)
    BY <1>1, <2>1, <2>3 DEF Kept
  <2>4. CASE ~Running(m)
    <3>1. TableOK(w) /\ Running(w) /\ DealtIn(w.hand) = DealtIn(m.hand)
      BY <1>3 DEF After
    <3>2. Cardinality(DealtIn(w.hand)) >= 2 /\ DealtIn(m.hand) = {}
      BY <2>4, <3>1, LiveHand, NoHandOK DEF Running, PlayOK, HandOK
    <3>. QED BY <3>1, <3>2, FS_EmptySet
  <2>. QED BY <2>3, <2>4
<1>. QED BY <1>2, <1>3

\* applyAction with the folds it drives: a step of the engine for seat i is a whole handler.
LEMMA ApplyOK ==
  ASSUME NEW u, PlayOK(u), NEW h, StepOK(h, u.startStack), NEW i \in Seats,
         PaysOnly(u.hand, h, i), ContestOK(h),
         i \in Occupied(u) \/ h.totalBet = u.hand.totalBet,
         h.totalBet = u.hand.totalBet \/ ~u.seats[i].foldPending, NEW best
  PROVE  LET v == Apply(u, h, best)
         IN  Handled(u, v) /\ After([u EXCEPT !.hand = h], v)
<1>. DEFINE m == [u EXCEPT !.hand = h]
            v == Apply(u, h, best)
<1>1. u \in TableState /\ u.handNum \in Nat
  BY DEF PlayOK, TableState
<1>2. m.hand = h /\ m.handNum = u.handNum
  BY <1>1 DEF TableState
<1>3. PlayOK(m) /\ Held(m) = Held(u) /\ (SnapOK(u) => SnapOK(m))
  BY MovedOK
<1>4. After(m, ApplyHand(u, h, best))
  BY <1>3, ApplyHandOK DEF StepOK
<1>5. v = DriveAutoFolds(ApplyHand(u, h, best), best)
  BY DEF Apply
<1>. HIDE DEF m, v
<1>6. After(m, v) /\ ~Pending(v)
  BY <1>4, <1>5, DriveOK
<1>7. Kept(u, m)
  <2>1. \A s \in Seats : u.seats[s].foldPending => h.totalBet[s] = u.hand.totalBet[s]
    BY DEF PaysOnly
  <2>. QED BY <1>1, <1>2, <2>1 DEF Kept
<1>8. v \in TableState
  BY <1>6 DEF After, TableOK, PlayOK, RestOK
<1>9. Kept(u, v)
  BY <1>1, <1>2, <1>6, <1>7, <1>8, KeptThrough
<1>10. Handled(u, v)
  BY <1>3, <1>6, <1>9 DEF Handled, After
<1>. QED BY <1>6, <1>10 DEF m, v

\* A fold through the engine of the seat on the clock.
LEMMA FoldHandled ==
  ASSUME NEW u, PlayOK(u), NEW i \in Seats, MayAct(u.hand, i), NEW best
  PROVE  LET h == FoldBy(u.hand, i)
             m == [u EXCEPT !.hand = h]
             v == Apply(u, h, best)
         IN  /\ Handled(u, v) /\ After(m, v)
             /\ Own(m) = Own(u) /\ m.handNum = u.handNum /\ m.hand.status[i] = "Folded"
             /\ m.hand.totalBet = u.hand.totalBet /\ m.seats = u.seats
<1>. DEFINE h == FoldBy(u.hand, i)
            m == [u EXCEPT !.hand = h]
            v == Apply(u, h, best)
<1>1. /\ u \in TableState /\ u.hand \in HandState
      /\ u.startStack \in [Seats -> Nat] /\ ChipsOK(u.hand, u.startStack)
      /\ BetsBounded(u.hand) /\ ContestOK(u.hand)
  BY DEF PlayOK, HandOK, ChipsOK, TableState
<1>2. StepOK(h, u.startStack)
  BY <1>1, FoldKeepsChips
<1>3. /\ h.stack = u.hand.stack /\ h.totalBet = u.hand.totalBet /\ h.pot = u.hand.pot
      /\ h.status = [u.hand.status EXCEPT ![i] = "Folded"] /\ ContestOK(h)
  BY <1>1, FoldMoves
<1>. HIDE DEF h
<1>4. DealtIn(h) = DealtIn(u.hand)
  BY <1>1, <1>3 DEF DealtIn, MayAct, HandState
<1>5. PaysOnly(u.hand, h, i)
  BY <1>1, <1>3, <1>4 DEF PaysOnly, HandState
<1>6. /\ m.hand = h /\ m.seats = u.seats /\ m.handNum = u.handNum
      /\ h.status[i] = "Folded"
  BY <1>1, <1>3 DEF TableState, HandState
<1>7. Handled(u, v) /\ After(m, v)
  BY <1>2, <1>3, <1>5, ApplyOK
<1>. HIDE DEF m, v
<1>8. Own(m) = Own(u)
  BY <1>3, <1>4, <1>6, OwnSame
<1>. QED BY <1>3, <1>6, <1>7, <1>8 DEF v, m, h

\* handleFold, handleCheck, handleCall, handleBet and handleRaise: a player's action for one
\* of the player's seats.
LEMMA BetOK ==
  ASSUME NEW u, TableOK(u), ~Pending(u), Running(u), NEW s \in Occupied(u), NEW best
  PROVE  /\ MayAct(u.hand, s) => Handled(u, Apply(u, FoldBy(u.hand, s), best))
         /\ CanCheck(u.hand, s) => Handled(u, Apply(u, CheckBy(u.hand, s), best))
         /\ MayAct(u.hand, s) => Handled(u, Apply(u, CallBy(u.hand, s), best))
         /\ \A to \in Nat : CanRaise(u.hand, s, to) => Handled(u, Apply(u, RaiseBy(u.hand, s, to), best))
<1>1. /\ PlayOK(u) /\ u \in TableState /\ u.hand \in HandState /\ s \in Seats
      /\ u.startStack \in [Seats -> Nat] /\ ChipsOK(u.hand, u.startStack)
      /\ BetsBounded(u.hand) /\ ContestOK(u.hand)
  BY LiveHand DEF Occupied
<1>2. MayAct(u.hand, s) => ~u.seats[s].foldPending
  BY DEF Pending, MayAct
<1>3. MayAct(u.hand, s) => Handled(u, Apply(u, FoldBy(u.hand, s), best))
  BY <1>1, FoldHandled
<1>4. ASSUME CanCheck(u.hand, s)
      PROVE  Handled(u, Apply(u, CheckBy(u.hand, s), best))
  <2>. DEFINE h == CheckBy(u.hand, s)
  <2>1. MayAct(u.hand, s)
    BY <1>4 DEF CanCheck
  <2>2. StepOK(h, u.startStack)
    BY <1>1, <2>1, CheckKeepsChips
  <2>3. /\ h.stack = u.hand.stack /\ h.totalBet = u.hand.totalBet /\ h.pot = u.hand.pot
        /\ h.status = u.hand.status /\ ContestOK(h)
    BY <1>1, <2>1, CheckMoves
  <2>. HIDE DEF h
  <2>4. PaysOnly(u.hand, h, s)
    BY <1>1, <2>3 DEF PaysOnly, HandState, DealtIn
  <2>5. Handled(u, Apply(u, h, best))
    BY <1>1, <2>2, <2>3, <2>4, ApplyOK
  <2>. QED BY <2>5 DEF h
<1>5. ASSUME MayAct(u.hand, s)
      PROVE  Handled(u, Apply(u, CallBy(u.hand, s), best))
  <2>. DEFINE h == CallBy(u.hand, s)
  <2>1. StepOK(h, u.startStack)
    BY <1>1, <1>5, CallKeepsChips
  <2>2. PaysOnly(u.hand, h, s) /\ ContestOK(h)
    BY <1>1, <1>5, CallMoves
  <2>. HIDE DEF h
  <2>3. Handled(u, Apply(u, h, best))
    BY <1>1, <1>2, <1>5, <2>1, <2>2, ApplyOK
  <2>. QED BY <2>3 DEF h
<1>6. ASSUME NEW to \in Nat, CanRaise(u.hand, s, to)
      PROVE  Handled(u, Apply(u, RaiseBy(u.hand, s, to), best))
  <2>. DEFINE h == RaiseBy(u.hand, s, to)
  <2>1. MayAct(u.hand, s)
    BY <1>6 DEF CanRaise
  <2>2. StepOK(h, u.startStack)
    BY <1>1, <1>6, RaiseKeepsChips
  <2>3. PaysOnly(u.hand, h, s) /\ ContestOK(h)
    BY <1>1, <1>6, RaiseMoves
  <2>. HIDE DEF h
  <2>4. Handled(u, Apply(u, h, best))
    BY <1>1, <1>2, <2>1, <2>2, <2>3, ApplyOK
  <2>. QED BY <2>4 DEF h
<1>. QED BY <1>3, <1>4, <1>5, <1>6

\* Marks on seats, subscribers and deadlines: who may sit in the next hand at most shrinks,
\* and no seat on the clock is marked to fold.
Marked(u, v) ==
  /\ v \in TableState /\ IdleOK(v)
  /\ v.hand = u.hand /\ v.startStack = u.startStack /\ v.handNum = u.handNum
  /\ v.stopped = u.stopped /\ v.astray = u.astray
  /\ v.autoStart = u.autoStart /\ v.hostStarted = u.hostStarted
  /\ \A s \in Seats :
       /\ v.seats[s].player = u.seats[s].player
       /\ v.seats[s].stack = u.seats[s].stack
       /\ v.seats[s].brokeAtHand = u.seats[s].brokeAtHand
       /\ u.seats[s].sittingOut => v.seats[s].sittingOut
       /\ v.seats[s].foldPending => u.seats[s].foldPending \/ ~MayAct(u.hand, s)

\* The handlers that only mark: handleJoin, handleSitOut between turns, handleDisconnect, the
\* end of a grace period, and a turn that ran out on a seat that cannot act.
LEMMA MarkedOK ==
  ASSUME NEW u, TableOK(u), ~Pending(u), NEW v, Marked(u, v),
         v.turnArmed = u.turnArmed \/ (Running(u) /\ ShortButton(u))
  PROVE  Handled(u, v)
<1>1. /\ ReadyOK(u) /\ ~MayStart(u) /\ u \in TableState /\ u.handNum \in Nat
      /\ v \in TableState /\ v.hand = u.hand /\ v.handNum = u.handNum
  BY ReadyTable DEF Marked, TableState
<1>2. ReadyOK(v) /\ Held(v) = Held(u) /\ (SnapOK(u) => SnapOK(v))
  BY <1>1, TouchOK DEF Marked
<1>3. EligibleSeats(v) \subseteq EligibleSeats(u)
  BY DEF EligibleSeats, Occupied, Marked
<1>4. Running(v) <=> Running(u)
  BY <1>1 DEF Running
<1>5. ~MayStart(v)
  BY <1>1, <1>3, <1>4, FewerReady DEF Marked
<1>6. TableOK(v)
  BY <1>2, <1>5, ReadyTable
<1>7. ~Pending(v)
  <2>1. Running(u) => u.hand.toAct \in Seats
    BY LiveHand
  <2>. QED BY <1>1, <1>4, <2>1 DEF Pending, Marked
<1>8. Kept(u, v)
  BY <1>1 DEF Kept
<1>. QED BY <1>2, <1>6, <1>7, <1>8 DEF Handled

\* A handler that does all its work on the table another has marked.
LEMMA MarkedThen ==
  ASSUME NEW u, ReadyOK(u), NEW m, Marked(u, m),
         m.turnArmed = u.turnArmed \/ (Running(u) /\ ShortButton(u)),
         \A s \in Seats : u.seats[s].foldPending => m.seats[s].foldPending,
         NEW v, Handled(m, v)
  PROVE  Handled(u, v)
<1>1. m \in TableState /\ m.hand = u.hand /\ m.handNum = u.handNum
  BY DEF Marked
<1>2. Held(m) = Held(u) /\ (SnapOK(u) => SnapOK(m))
  BY TouchOK DEF Marked
<1>3. Kept(u, v)
  BY <1>1 DEF Kept, Handled
<1>. QED BY <1>2, <1>3 DEF Handled

\* handleTurnTimeout: the seat to act checks if it can and folds if not; only the button
\* that is all-in with its blind does neither.
LEMMA TimeoutOK ==
  ASSUME NEW u, TableOK(u), ~Pending(u), u.turnArmed, NEW best
  PROVE  Handled(u, TurnTimeout(u, best))
<1>. DEFINE s   == u.hand.toAct
            out == [u EXCEPT !.turnArmed = FALSE,
                             !.seats[s].sittingOut = @ \/ u.seats[s].player # NoPlayer]
<1>1. Running(u)
  BY HandRuns DEF TableOK, RestOK, PlayOK, Running
<1>2. /\ PlayOK(u) /\ LiveOK(u) /\ u \in TableState /\ u.hand \in HandState
      /\ u.startStack \in [Seats -> Nat] /\ ChipsOK(u.hand, u.startStack)
      /\ BetsBounded(u.hand) /\ ContestOK(u.hand) /\ s \in Seats
      /\ u.seats \in [Seats -> SeatState]
  BY <1>1, LiveHand DEF TableState
<1>3. /\ out \in TableState /\ out.hand = u.hand /\ out.startStack = u.startStack
      /\ out.handNum = u.handNum /\ out.stopped = u.stopped /\ out.astray = u.astray
      /\ out.autoStart = u.autoStart /\ out.hostStarted = u.hostStarted
      /\ out.subs = u.subs /\ out.idleArmed = u.idleArmed /\ out.turnArmed = FALSE
      /\ \A i \in Seats : /\ out.seats[i].player = u.seats[i].player
                          /\ out.seats[i].stack = u.seats[i].stack
                          /\ out.seats[i].brokeAtHand = u.seats[i].brokeAtHand
                          /\ out.seats[i].foldPending = u.seats[i].foldPending
                          /\ u.seats[i].sittingOut => out.seats[i].sittingOut
  <2>. DEFINE seats == [u.seats EXCEPT ![s].sittingOut = @ \/ u.seats[s].player # NoPlayer]
  <2>1. out = [u EXCEPT !.turnArmed = FALSE, !.seats = seats]
    BY <1>2 DEF TableState
  <2>2. u.seats[s].sittingOut \in BOOLEAN /\ u.seats[s] \in SeatState
    BY <1>2 DEF SeatState
  <2>3. [u.seats[s] EXCEPT !.sittingOut = @ \/ u.seats[s].player # NoPlayer] \in SeatState
    BY <2>2 DEF SeatState
  <2>4. seats \in [Seats -> SeatState]
    BY <1>2, <2>3
  <2>5. \A i \in Seats : /\ seats[i].player = u.seats[i].player
                         /\ seats[i].stack = u.seats[i].stack
                         /\ seats[i].brokeAtHand = u.seats[i].brokeAtHand
                         /\ seats[i].foldPending = u.seats[i].foldPending
                         /\ u.seats[i].sittingOut => seats[i].sittingOut
    BY <1>2 DEF SeatState
  <2>. HIDE DEF seats, s, out
  <2>. QED BY <1>2, <2>1, <2>4, <2>5 DEF TableState
<1>. HIDE DEF out
<1>4. /\ Occupied(u) \subseteq Seats
      /\ Occupied(out) = Occupied(u) /\ \A i \in Seats : WasDealt(out, i) <=> WasDealt(u, i)
  BY <1>3 DEF Occupied, WasDealt
<1>5. PlayOK(out)
  BY <1>2, <1>3, <1>4 DEF PlayOK, MarksOK, IdleOK
<1>6. IdleOK(out)
  BY <1>5 DEF PlayOK
<1>7. Marked(u, out)
  BY <1>3, <1>6 DEF Marked
<1>8. /\ Own(out) = Own(u) /\ Held(out) = Held(u) /\ (SnapOK(u) => SnapOK(out))
  <2>1. Own(out) = Own(u)
    BY <1>3, <1>4 DEF Own, StackOf
  <2>2. Held(out) = Held(u)
    BY <1>3, <2>1 DEF Held
  <2>. QED BY <1>3, <1>4, <2>1, <2>2 DEF SnapOK
<1>9. ASSUME NEW v, Handled(out, v) PROVE Handled(u, v)
  <2>1. Kept(u, v)
    BY <1>3, <1>9 DEF Kept, Handled
  <2>. QED BY <1>8, <1>9, <2>1 DEF Handled
<1>10. CASE CanCheck(u.hand, s)
  <2>. DEFINE h == CheckBy(u.hand, s)
  <2>1. MayAct(u.hand, s)
    BY <1>10 DEF CanCheck
  <2>2. StepOK(h, u.startStack)
    BY <1>2, <2>1, CheckKeepsChips
  <2>3. /\ h.stack = u.hand.stack /\ h.totalBet = u.hand.totalBet /\ h.pot = u.hand.pot
        /\ h.status = u.hand.status /\ ContestOK(h)
    BY <1>2, <2>1, CheckMoves
  <2>4. TurnTimeout(u, best) = Apply(out, h, best)
    BY <1>10 DEF TurnTimeout, out
  <2>. HIDE DEF h
  <2>5. PaysOnly(u.hand, h, s)
    BY <1>2, <2>3 DEF PaysOnly, HandState, DealtIn
  <2>6. Handled(out, Apply(out, h, best))
    BY <1>2, <1>3, <1>5, <2>2, <2>3, <2>5, ApplyOK
  <2>. QED BY <1>9, <2>4, <2>6
<1>11. CASE ~CanCheck(u.hand, s) /\ MayAct(u.hand, s)
  <2>1. u.hand.committed[s] # u.hand.currentBet
    BY <1>11 DEF CanCheck
  <2>2. TurnTimeout(u, best) = Apply(out, FoldBy(u.hand, s), best)
    BY <1>11, <2>1 DEF TurnTimeout, out
  <2>3. Handled(out, Apply(out, FoldBy(out.hand, s), best))
    BY <1>2, <1>3, <1>5, <1>11, FoldHandled
  <2>. QED BY <1>3, <1>9, <2>2, <2>3
<1>12. CASE ~MayAct(u.hand, s)
  <2>1. TurnTimeout(u, best) = out
    BY <1>12 DEF TurnTimeout, out, CanCheck
  <2>2. ShortButton(u)
    BY <1>2, <1>12 DEF LiveOK, OwesAction, CanAct, MayAct
  <2>3. Handled(u, out)
    BY <1>1, <1>7, <2>2, MarkedOK
  <2>. QED BY <2>1, <2>3
<1>. QED BY <1>10, <1>11, <1>12

\* handleTimer with all that is due: the turn, the grace periods, the idle deadline.
LEMMA TimerOK ==
  ASSUME NEW u, TableOK(u), ~Pending(u), NEW turnDue \in BOOLEAN, turnDue => u.turnArmed,
         NEW due \in SUBSET Seats, NEW idleDue \in BOOLEAN, NEW best
  PROVE  LET acted == GraceExpired(IF turnDue THEN TurnTimeout(u, best) ELSE u, due)
             v     == [acted EXCEPT !.stopped = idleDue]
         IN  Between(v) /\ Kept(u, v) /\ Held(v) = Held(u) /\ (SnapOK(u) => SnapOK(v))
<1>. DEFINE m == IF turnDue THEN TurnTimeout(u, best) ELSE u
            acted == GraceExpired(m, due)
            v == [acted EXCEPT !.stopped = idleDue]
<1>1. u \in TableState /\ u.handNum \in Nat
  BY ReadyTable DEF TableState
<1>2. Handled(u, m)
  <2>1. CASE turnDue
    BY <2>1, TimeoutOK
  <2>2. CASE ~turnDue
    <3>1. Kept(u, u)
      BY <1>1 DEF Kept
    <3>. QED BY <2>2, <3>1 DEF Handled
  <2>. QED BY <2>1, <2>2
<1>. HIDE DEF m
<1>3. /\ TableOK(m) /\ ~Pending(m) /\ m \in TableState /\ IdleOK(m) /\ ~m.stopped
      /\ m.seats \in [Seats -> SeatState]
  BY <1>2 DEF Handled, TableOK, PlayOK, RestOK, TableState
<1>4. /\ acted \in TableState /\ acted.hand = m.hand /\ acted.startStack = m.startStack
      /\ acted.handNum = m.handNum /\ acted.stopped = m.stopped /\ acted.astray = m.astray
      /\ acted.autoStart = m.autoStart /\ acted.hostStarted = m.hostStarted
      /\ acted.turnArmed = m.turnArmed /\ acted.subs = m.subs /\ acted.idleArmed = m.idleArmed
      /\ \A s \in Seats : /\ acted.seats[s].player = m.seats[s].player
                          /\ acted.seats[s].stack = m.seats[s].stack
                          /\ acted.seats[s].brokeAtHand = m.seats[s].brokeAtHand
                          /\ acted.seats[s].foldPending = m.seats[s].foldPending
                          /\ m.seats[s].sittingOut => acted.seats[s].sittingOut
  <2>. DEFINE seats == [s \in Seats |->
                IF s \in due /\ m.seats[s].disconnected
                  THEN [m.seats[s] EXCEPT !.disconnected = FALSE, !.sittingOut = TRUE]
                  ELSE m.seats[s]]
  <2>1. /\ seats \in [Seats -> SeatState]
        /\ \A s \in Seats : /\ seats[s].player = m.seats[s].player
                            /\ seats[s].stack = m.seats[s].stack
                            /\ seats[s].brokeAtHand = m.seats[s].brokeAtHand
                            /\ seats[s].foldPending = m.seats[s].foldPending
                            /\ m.seats[s].sittingOut => seats[s].sittingOut
    BY ZenonT(60), <1>3 DEF SeatState
  <2>2. acted = [m EXCEPT !.seats = seats]
    BY DEF GraceExpired
  <2>. HIDE DEF seats
  <2>. QED BY SMTT(30), <1>3, <2>1, <2>2 DEF TableState
<1>. HIDE DEF acted
<1>5. Occupied(acted) = Occupied(m)
  BY <1>4 DEF Occupied
<1>6. IdleOK(acted)
  BY <1>3, <1>4, <1>5 DEF IdleOK
<1>7. Marked(m, acted)
  BY <1>4, <1>6 DEF Marked
<1>8. Handled(m, acted)
  BY <1>3, <1>4, <1>7, MarkedOK
<1>9. Handled(u, acted)
  <2>1. Kept(u, acted)
    BY <1>2, <1>4 DEF Kept, Handled, Running
  <2>. QED BY <1>2, <1>8, <2>1 DEF Handled
<1>10. /\ v \in TableState /\ v.hand = acted.hand /\ v.seats = acted.seats
       /\ v.startStack = acted.startStack /\ v.handNum = acted.handNum /\ v.astray = acted.astray
       /\ v.subs = acted.subs /\ v.idleArmed = acted.idleArmed /\ v.turnArmed = acted.turnArmed
       /\ v.stopped = idleDue /\ (~idleDue => v = acted)
  BY <1>3, <1>4 DEF TableState
<1>. HIDE DEF v
<1>11. CASE ~idleDue
  <2>1. v = acted
    BY <1>10, <1>11
  <2>2. Between(v) /\ Kept(u, v) /\ Held(v) = Held(u) /\ (SnapOK(u) => SnapOK(v))
    BY <1>3, <1>4, <1>9, <2>1 DEF Handled, Between
  <2>. QED BY <2>2 DEF v, acted, m
<1>12. CASE idleDue
  <2>1. /\ Occupied(v) = Occupied(acted) /\ Occupied(acted) \subseteq Seats /\ (Running(v) <=> Running(acted))
        /\ \A s \in Seats : WasDealt(v, s) <=> WasDealt(acted, s)
    BY <1>10 DEF Occupied, Running, WasDealt
  <2>2. StoppedOK(v)
    <3>1. IdleOK(v)
      BY <1>6, <1>10, <2>1 DEF IdleOK
    <3>2. ASSUME Running(v) PROVE HandOK(v.hand, v.startStack) /\ LiveOK(v)
      <4>1. PlayOK(acted) /\ LiveOK(acted)
        BY <1>8, <2>1, <3>2, LiveHand DEF Handled
      <4>2. {s \in Seats : WasDealt(v, s)} = {s \in Seats : WasDealt(acted, s)}
        BY <2>1
      <4>. QED BY <1>10, <4>1, <4>2 DEF PlayOK, LiveOK, ShortButton
    <3>. QED BY <1>10, <3>1, <3>2 DEF StoppedOK
  <2>3. Own(v) = Own(acted)
    BY <1>10, <2>1 DEF Own, StackOf
  <2>4. Held(v) = Held(acted)
    BY <1>10, <2>3 DEF Held
  <2>5. SnapOK(acted) => SnapOK(v)
    BY <1>10, <2>1 DEF SnapOK
  <2>6. Kept(u, v)
    BY <1>9, <1>10, <2>1 DEF Kept, Handled
  <2>7. Between(v) /\ Kept(u, v) /\ Held(v) = Held(u) /\ (SnapOK(u) => SnapOK(v))
    BY <1>9, <1>10, <1>12, <2>2, <2>4, <2>5, <2>6 DEF Between, Handled
  <2>. QED BY <2>7 DEF v, acted, m
<1>. QED BY <1>11, <1>12

\* What a folded seat owns after the step, with what the next hand took from it already, is
\* what it owned before.
LEMMA FoldedOwns ==
  ASSUME NEW m \in TableState, NEW v, After(m, v), NEW s \in Seats, m.hand.status[s] = "Folded"
  PROVE  Own(v)[s] + (IF v.handNum = m.handNum THEN 0 ELSE v.hand.totalBet[s]) = Own(m)[s]
<1>1. m.handNum \in Nat /\ Own(m)[s] \in Nat
  BY OwnType DEF TableState
<1>2. CASE Settled(m, v)
  <2>1. \/ v.handNum = m.handNum /\ Own(v)[s] = Own(m)[s]
        \/ v.handNum = m.handNum + 1 /\ Own(v)[s] + v.hand.totalBet[s] = Own(m)[s]
    BY <1>2 DEF Settled
  <2>. HIDE DEF Own
  <2>. QED BY <1>1, <2>1
<1>3. CASE ~Settled(m, v)
  <2>1. v.handNum = m.handNum /\ Own(v) = Own(m)
    BY <1>3, OwnSame DEF After
  <2>. HIDE DEF Own
  <2>. QED BY <1>1, <2>1
<1>. QED BY <1>2, <1>3

\* The fold of a leaving seat: on its turn through the engine, else in place, with the hand
\* settled when one seat is left in it.
LEMMA FoldSeatOK ==
  ASSUME NEW u, TableOK(u), ~Pending(u), Running(u), NEW s \in Seats, InHand(u, s), NEW best
  PROVE  LET v == FoldSeat(u, s, best)
         IN  /\ TableOK(v) /\ Kept(u, v) /\ Held(v) = Held(u) /\ (SnapOK(u) => SnapOK(v))
             /\ Own(v)[s] + (IF v.handNum = u.handNum THEN 0 ELSE v.hand.totalBet[s]) = Own(u)[s]
<1>. DEFINE v == FoldSeat(u, s, best)
            h == [u.hand EXCEPT !.status[s] = "Folded"]
<1>1. /\ PlayOK(u) /\ LiveOK(u) /\ u \in TableState /\ u.hand \in HandState
      /\ u.startStack \in [Seats -> Nat] /\ ChipsOK(u.hand, u.startStack)
      /\ BetsBounded(u.hand) /\ ContestOK(u.hand) /\ HandOK(u.hand, u.startStack)
      /\ u.handNum \in Nat /\ Own(u)[s] \in Nat
  BY LiveHand, OwnType DEF PlayOK, TableState
<1>2. CASE u.hand.toAct = s /\ MayAct(u.hand, s)
  <2>. DEFINE m == [u EXCEPT !.hand = FoldBy(u.hand, s)]
              w == Apply(u, FoldBy(u.hand, s), best)
  <2>1. v = w
    BY <1>2 DEF FoldSeat
  <2>2. /\ Handled(u, w) /\ After(m, w)
        /\ Own(m) = Own(u) /\ m.handNum = u.handNum /\ m.hand.status[s] = "Folded"
    BY <1>1, <1>2, FoldHandled
  <2>3. m \in TableState
    <3>1. FoldBy(u.hand, s) \in HandState
      BY <1>1, <1>2, FoldKeepsChips DEF StepOK, ChipsOK
    <3>. QED BY <1>1, <3>1 DEF TableState
  <2>. HIDE DEF m, w
  <2>4. Own(w)[s] + (IF w.handNum = m.handNum THEN 0 ELSE w.hand.totalBet[s]) = Own(m)[s]
    BY <2>2, <2>3, FoldedOwns
  <2>. HIDE DEF v
  <2>5. /\ TableOK(v) /\ Kept(u, v) /\ Held(v) = Held(u) /\ (SnapOK(u) => SnapOK(v))
    BY <2>1, <2>2 DEF Handled
  <2>6. Own(v)[s] + (IF v.handNum = u.handNum THEN 0 ELSE v.hand.totalBet[s]) = Own(u)[s]
    <3>. HIDE DEF Own
    <3>. QED BY <2>1, <2>2, <2>4
  <2>. QED BY <2>5, <2>6 DEF v
<1>3. CASE u.hand.toAct = s /\ ~MayAct(u.hand, s)
  <2>1. v = u
    BY <1>3 DEF FoldSeat
  <2>. HIDE DEF v
  <2>2. Kept(u, v)
    BY <1>1, <2>1 DEF Kept
  <2>3. Own(v)[s] + (IF v.handNum = u.handNum THEN 0 ELSE v.hand.totalBet[s]) = Own(u)[s]
    <3>. HIDE DEF Own
    <3>. QED BY <1>1, <2>1
  <2>. QED BY <2>1, <2>2, <2>3 DEF v
<1>4. ASSUME u.hand.toAct # s
      PROVE  /\ h \in HandState /\ h.stack = u.hand.stack /\ h.totalBet = u.hand.totalBet
             /\ h.pot = u.hand.pot /\ h.committed = u.hand.committed /\ h.acted = u.hand.acted
             /\ h.currentBet = u.hand.currentBet /\ h.board = u.hand.board
             /\ h.toAct = u.hand.toAct /\ h.street = u.hand.street
             /\ h.status = [u.hand.status EXCEPT ![s] = "Folded"]
             /\ DealtIn(h) = DealtIn(u.hand) /\ CanAct(h) = CanAct(u.hand) \ {s}
             /\ NonFolded(h) = NonFolded(u.hand) \ {s}
  <2>1. [u.hand.status EXCEPT ![s] = "Folded"] \in [Seats -> PlayerStatus]
    BY <1>1 DEF HandState, PlayerStatus
  <2>2. /\ h \in HandState /\ h.stack = u.hand.stack /\ h.totalBet = u.hand.totalBet
        /\ h.pot = u.hand.pot /\ h.committed = u.hand.committed /\ h.acted = u.hand.acted
        /\ h.currentBet = u.hand.currentBet /\ h.board = u.hand.board
        /\ h.toAct = u.hand.toAct /\ h.street = u.hand.street
        /\ h.status = [u.hand.status EXCEPT ![s] = "Folded"]
    BY <1>1, <2>1 DEF HandState
  <2>. HIDE DEF h
  <2>3. DealtIn(h) = DealtIn(u.hand)
    BY <1>1, <2>2 DEF DealtIn, HandState, InHand
  <2>4. CanAct(h) = CanAct(u.hand) \ {s} /\ NonFolded(h) = NonFolded(u.hand) \ {s}
    BY <1>1, <2>2 DEF CanAct, NonFolded, HandState
  <2>. QED BY <2>2, <2>3, <2>4
<1>. HIDE DEF h
<1>5. u.hand.toAct # s => /\ Cardinality(NonFolded(h)) \in Nat /\ Cardinality(NonFolded(h)) >= 1
                          /\ NonFolded(h) # {}
  <2>1. NonFolded(u.hand) \in SUBSET Seats /\ s \in NonFolded(u.hand)
    BY DEF NonFolded, InHand
  <2>2. IsFiniteSet(NonFolded(u.hand)) /\ Cardinality(NonFolded(u.hand)) >= 2
        /\ Cardinality(NonFolded(u.hand)) \in Nat
    BY <1>1, <2>1, SeatSets DEF LiveOK, ContestOK
  <2>3. Cardinality(NonFolded(u.hand) \ {s}) = Cardinality(NonFolded(u.hand)) - 1
    BY <2>1, <2>2, FS_RemoveElement
  <2>4. Cardinality(NonFolded(u.hand) \ {s}) # 0
    BY <2>2, <2>3
  <2>5. NonFolded(u.hand) \ {s} # {}
    BY <2>4, FS_EmptySet
  <2>6. u.hand.toAct # s => NonFolded(h) = NonFolded(u.hand) \ {s}
    BY <1>4
  <2>. HIDE DEF NonFolded
  <2>. QED BY <2>2, <2>3, <2>5, <2>6
<1>6. ASSUME NEW g \in HandState, u.hand.toAct # s,
             g.stack = h.stack, g.totalBet = h.totalBet, g.pot = h.pot, g.committed = h.committed,
             g.currentBet = h.currentBet, g.board = h.board, g.status = h.status,
             ContestOK(g)
      PROVE  LET m == [u EXCEPT !.hand = g]
             IN  /\ PlayOK(m) /\ Held(m) = Held(u) /\ (SnapOK(u) => SnapOK(m))
                 /\ Own(m) = Own(u) /\ m.hand = g /\ m.handNum = u.handNum
                 /\ m.seats = u.seats /\ m.startStack = u.startStack /\ m.turnArmed = u.turnArmed
  <2>. DEFINE m == [u EXCEPT !.hand = g]
  <2>1. /\ m \in TableState /\ m.hand = g /\ m.seats = u.seats /\ m.startStack = u.startStack
        /\ m.handNum = u.handNum /\ m.subs = u.subs /\ m.idleArmed = u.idleArmed
        /\ m.stopped = u.stopped /\ m.astray = u.astray /\ m.turnArmed = u.turnArmed
    BY <1>1 DEF TableState
  <2>. HIDE DEF m
  <2>2. DealtIn(g) = DealtIn(u.hand) /\ CanAct(g) = CanAct(u.hand) \ {s}
    BY <1>4, <1>6 DEF DealtIn, CanAct
  <2>3. ChipsOK(g, u.startStack)
    <3>1. CanAct(g) \subseteq CanAct(u.hand) /\ \A i \in Seats : Prior(g, i) = Prior(u.hand, i)
      BY <1>4, <1>6, <2>2 DEF Prior
    <3>. QED BY <1>1, <1>4, <1>6, <3>1 DEF ChipsOK, CanAct
  <2>4. BetsBounded(g) /\ PotOK(g)
    BY <1>1, <1>4, <1>6 DEF BetsBounded, PotOK, HandOK
  <2>5. HandOK(g, u.startStack)
    BY <1>1, <1>6, <2>2, <2>3, <2>4 DEF HandOK
  <2>6. /\ Occupied(m) = Occupied(u) /\ Occupied(u) \subseteq Seats
        /\ \A i \in Seats : WasDealt(m, i) <=> WasDealt(u, i)
    <3>1. \A i \in Seats : /\ i \in DealtIn(g) <=> WasDealt(m, i)
                           /\ i \in DealtIn(u.hand) <=> WasDealt(u, i)
      BY <2>1 DEF DealtIn, WasDealt
    <3>. QED BY <2>1, <2>2, <3>1 DEF Occupied
  <2>7. MarksOK(m) /\ IdleOK(m) /\ (SnapOK(u) => SnapOK(m))
    BY <1>1, <2>1, <2>6 DEF PlayOK, MarksOK, IdleOK, SnapOK
  <2>8. PlayOK(m)
    BY <1>1, <2>1, <2>5, <2>7 DEF PlayOK
  <2>9. Own(m) = Own(u)
    BY <1>4, <1>6, <2>1, <2>2, OwnSame
  <2>10. Held(m) = Held(u)
    BY <1>4, <1>6, <2>1, <2>9 DEF Held
  <2>. QED BY <2>1, <2>7, <2>8, <2>9, <2>10 DEF m
<1>7. CASE u.hand.toAct # s /\ Cardinality(NonFolded(h)) = 1
  <2>. DEFINE g == [h EXCEPT !.street = "Showdown"]
              m == [u EXCEPT !.hand = g]
  <2>1. v = SettleHand(m, best)
    BY <1>7 DEF FoldSeat, h
  <2>2. /\ g \in HandState /\ g.street = "Showdown"
        /\ g.stack = h.stack /\ g.totalBet = h.totalBet /\ g.pot = h.pot /\ g.committed = h.committed
        /\ g.currentBet = h.currentBet /\ g.board = h.board /\ g.status = h.status
    BY <1>4, <1>7 DEF HandState, Street
  <2>. HIDE DEF g
  <2>3. ContestOK(g)
    <3>1. NonFolded(g) = NonFolded(h)
      BY <2>2 DEF NonFolded
    <3>. QED BY <1>5, <1>7, <2>2, <3>1 DEF ContestOK
  <2>4. /\ PlayOK(m) /\ Held(m) = Held(u) /\ (SnapOK(u) => SnapOK(m))
        /\ Own(m) = Own(u) /\ m.hand = g /\ m.handNum = u.handNum
    BY <1>6, <1>7, <2>2, <2>3
  <2>. HIDE DEF m, v
  <2>5. TableOK(v) /\ Held(v) = Held(m) /\ SnapOK(v) /\ Settled(m, v)
    BY <2>1, <2>4, SettleOK
  <2>6. m \in TableState /\ m.hand.status[s] = "Folded"
    BY <1>1, <1>4, <1>7, <2>2, <2>4 DEF PlayOK, HandState
  <2>7. After(m, v)
    BY <2>5 DEF After
  <2>8. Own(v)[s] + (IF v.handNum = m.handNum THEN 0 ELSE v.hand.totalBet[s]) = Own(m)[s]
    BY <2>6, <2>7, FoldedOwns
  <2>9. Kept(u, v)
    BY <1>1, <2>4, <2>5 DEF Kept, Settled
  <2>10. Own(v)[s] + (IF v.handNum = u.handNum THEN 0 ELSE v.hand.totalBet[s]) = Own(u)[s]
    <3>. HIDE DEF Own
    <3>. QED BY <2>4, <2>8
  <2>. QED BY <2>4, <2>5, <2>9, <2>10 DEF v
<1>8. CASE u.hand.toAct # s /\ Cardinality(NonFolded(h)) # 1
  <2>. DEFINE m == [u EXCEPT !.hand = h]
  <2>1. v = m
    BY <1>8 DEF FoldSeat, h
  <2>2. ContestOK(h)
    <3>1. Cardinality(NonFolded(h)) >= 2
      BY <1>5, <1>8
    <3>2. u.hand.board = BoardOn(u.hand.street)
      <4>1. Cardinality(NonFolded(u.hand)) >= 2
        BY <1>1 DEF ContestOK, LiveOK
      <4>. QED BY <1>1, <4>1 DEF ContestOK
    <3>. QED BY <1>4, <1>5, <1>8, <3>1, <3>2 DEF ContestOK
  <2>3. /\ PlayOK(m) /\ Held(m) = Held(u) /\ (SnapOK(u) => SnapOK(m))
        /\ Own(m) = Own(u) /\ m.hand = h /\ m.handNum = u.handNum
        /\ m.seats = u.seats /\ m.startStack = u.startStack /\ m.turnArmed = u.turnArmed
    BY <1>4, <1>6, <1>8, <2>2
  <2>. HIDE DEF m, v
  <2>4. LiveOK(m)
    <3>1. u.hand.toAct \in Seats /\ u.hand.street # "Showdown"
      BY <1>1 DEF LiveOK
    <3>2. h.status[u.hand.toAct] = u.hand.status[u.hand.toAct]
      <4>1. h.status = [u.hand.status EXCEPT ![s] = "Folded"] /\ u.hand.status \in [Seats -> PlayerStatus]
        BY <1>1, <1>4, <1>8 DEF HandState
      <4>. QED BY <1>8, <3>1, <4>1
    <3>3. CASE u.hand.toAct \in OwesAction(u.hand) /\ u.turnArmed
      BY <1>4, <1>8, <2>3, <3>1, <3>3 DEF LiveOK, OwesAction
    <3>4. CASE ShortButton(u)
      <4>1. \A i \in Seats : /\ i \in DealtIn(h) <=> WasDealt(m, i)
                             /\ i \in DealtIn(u.hand) <=> WasDealt(u, i)
        BY <2>3 DEF DealtIn, WasDealt
      <4>2. {i \in Seats : WasDealt(m, i)} = {i \in Seats : WasDealt(u, i)}
        BY <1>4, <1>8, <4>1
      <4>3. ShortButton(m)
        BY <1>4, <1>8, <2>3, <3>2, <3>4, <4>2 DEF ShortButton
      <4>. QED BY <1>4, <1>8, <2>3, <3>1, <4>3 DEF LiveOK
    <3>. QED BY <1>1, <3>3, <3>4 DEF LiveOK
  <2>5. TableOK(m)
    BY <2>3, <2>4 DEF TableOK
  <2>6. Kept(u, m)
    BY <1>1, <1>4, <1>8, <2>3 DEF Kept
  <2>7. Own(m)[s] + (IF m.handNum = u.handNum THEN 0 ELSE m.hand.totalBet[s]) = Own(u)[s]
    <3>. HIDE DEF Own
    <3>. QED BY <1>1, <2>3
  <2>. QED BY <2>1, <2>3, <2>5, <2>6, <2>7 DEF v
<1>. QED BY <1>2, <1>3, <1>7, <1>8

-----------------------------------------------------------------------------
(* Leaving *)

\* A seat that is given up takes nothing with it but what it owned.
LEMMA EmptyOK ==
  ASSUME NEW u, TableOK(u), NEW s \in Seats, NEW v \in TableState,
         v.hand = u.hand, v.startStack = u.startStack, v.handNum = u.handNum,
         v.stopped = u.stopped, v.turnArmed = u.turnArmed, v.idleArmed = u.idleArmed,
         v.autoStart = u.autoStart, v.hostStarted = u.hostStarted,
         v.subs \subseteq u.subs, v.seats = [u.seats EXCEPT ![s] = EmptySeat]
  PROVE  /\ TableOK(v) /\ (SnapOK(u) => SnapOK(v))
         /\ Held(v) + Own(u)[s] = Held(u) + (v.astray - u.astray)
<1>1. /\ ReadyOK(u) /\ ~MayStart(u) /\ u \in TableState /\ u.seats \in [Seats -> SeatState]
      /\ u.astray \in Int /\ v.astray \in Int /\ u.hand.pot \in Nat
  BY ReadyTable DEF TableState, HandState
<1>2. /\ v.seats[s].player = NoPlayer /\ \A i \in Seats \ {s} : v.seats[i] = u.seats[i]
  BY <1>1 DEF EmptySeat
<1>3. /\ Occupied(v) = Occupied(u) \ {s} /\ Occupied(u) \subseteq Seats
      /\ \A i \in Seats : WasDealt(v, i) <=> WasDealt(u, i)
  BY <1>2 DEF Occupied, WasDealt
<1>4. (MarksOK(u) => MarksOK(v)) /\ (SnapOK(u) => SnapOK(v)) /\ (IdleOK(u) => IdleOK(v))
  BY <1>2, <1>3 DEF MarksOK, SnapOK, IdleOK
<1>5. (Running(v) <=> Running(u)) /\ (ShortButton(u) => ShortButton(v))
  <2>1. {i \in Seats : WasDealt(v, i)} = {i \in Seats : WasDealt(u, i)}
    BY <1>3
  <2>. QED BY <2>1 DEF Running, ShortButton
<1>6. (PlayOK(u) => PlayOK(v)) /\ (LiveOK(u) => LiveOK(v)) /\ (RestOK(u) => RestOK(v))
  BY <1>4, <1>5 DEF PlayOK, LiveOK, RestOK
<1>7. EligibleSeats(v) \subseteq EligibleSeats(u)
  BY <1>2, <1>3 DEF EligibleSeats
<1>8. TableOK(v)
  <2>1. ~MayStart(v)
    BY <1>1, <1>5, <1>7, FewerReady
  <2>. QED BY <1>1, <1>6, <2>1, ReadyTable DEF ReadyOK
<1>9. /\ Own(u) \in [Seats -> Nat] /\ Own(v) \in [Seats -> Nat] /\ Own(v)[s] = 0
      /\ \A i \in Seats \ {s} : Own(v)[i] = Own(u)[i]
      /\ SumOver(Own(u), Seats) \in Nat
  <2>1. Own(v)[s] = 0 /\ \A i \in Seats \ {s} : Own(v)[i] = Own(u)[i]
    BY <1>2, <1>3 DEF Own, StackOf
  <2>. QED BY <1>1, <2>1, OwnType
<1>10. SumOver(Own(v), Seats) = SumOver(Own(u), Seats) - Own(u)[s]
  <2>. DEFINE a == Own(u)
              b == Own(v)
  <2>1. /\ \A i \in Seats : a[i] \in Int /\ b[i] \in Int
        /\ \A i \in Seats \ {s} : b[i] = a[i]
        /\ a[s] \in Int /\ b[s] = 0 /\ SumOver(a, Seats) \in Int
    BY <1>9
  <2>2. IsFiniteSet(Seats)
    BY SeatSets
  <2>. HIDE DEF a, b
  <2>3. SumOver(b, Seats) = SumOver(a, Seats) + (b[s] - a[s])
    BY <2>1, <2>2, SumChange
  <2>. QED BY <2>1, <2>3 DEF a, b
<1>11. Held(v) + Own(u)[s] = Held(u) + (v.astray - u.astray)
  <2>1. /\ Held(v) = u.hand.pot + SumOver(Own(v), Seats) + v.astray
        /\ Held(u) = u.hand.pot + SumOver(Own(u), Seats) + u.astray
    BY DEF Held
  <2>2. Own(u)[s] \in Nat
    BY <1>9
  <2>. HIDE DEF Held, Own
  <2>. QED BY <1>1, <1>9, <1>10, <2>1, <2>2
<1>. QED BY <1>4, <1>8, <1>11

\* handleLeave: the chips that leave the table are those credited to the player, and what the
\* credit pays twice is astray.
LEMMA LeaveOK ==
  ASSUME NEW u, TableOK(u), ~Pending(u), NEW p \in Players, NEW s \in SeatsOf(u, p), NEW best
  PROVE  LET live   == InHand(u, s)
             folded == IF live THEN FoldSeat(u, s, best) ELSE u
             again  == ~live \/ folded.handNum # u.handNum
             gone   == [folded EXCEPT
                         !.seats[s] = EmptySeat, !.subs = @ \ {p},
                         !.astray   = @ - (IF again THEN folded.hand.totalBet[s] ELSE 0)]
             v      == RefreshIdle(DriveAutoFolds(gone, best))
             credit == IF live THEN u.hand.stack[s] ELSE u.seats[s].stack
         IN  /\ TableOK(v) /\ ~Pending(v) /\ Kept(u, v) /\ credit \in Nat
             /\ SnapOK(u) => SnapOK(v) /\ Held(v) + credit = Held(u)
<1>. DEFINE live   == InHand(u, s)
            folded == IF live THEN FoldSeat(u, s, best) ELSE u
            again  == ~live \/ folded.handNum # u.handNum
            twice  == IF again THEN folded.hand.totalBet[s] ELSE 0
            gone   == [folded EXCEPT
                        !.seats[s] = EmptySeat, !.subs = @ \ {p}, !.astray = @ - twice]
            w      == DriveAutoFolds(gone, best)
            v      == RefreshIdle(w)
            credit == IF live THEN u.hand.stack[s] ELSE u.seats[s].stack
<1>1. /\ u \in TableState /\ u.hand \in HandState /\ s \in Seats /\ s \in Occupied(u)
      /\ u.seats[s].stack \in Nat /\ u.hand.stack[s] \in Nat /\ u.hand.totalBet[s] \in Nat
      /\ u.handNum \in Nat
  BY ReadyTable, TableAssumption DEF SeatsOf, Occupied, TableState, SeatState, HandState
<1>2. live => Running(u) /\ WasDealt(u, s)
  BY <1>1, NoHandOK DEF InHand, WasDealt, Running
<1>3. /\ TableOK(folded) /\ Kept(u, folded) /\ Held(folded) = Held(u)
      /\ (SnapOK(u) => SnapOK(folded))
      /\ live => Own(folded)[s] + twice = u.hand.stack[s]
  <2>1. CASE live
    <3>1. Own(u)[s] = u.hand.stack[s]
      BY <1>1, <1>2, <2>1 DEF Own, StackOf
    <3>. DEFINE f == FoldSeat(u, s, best)
    <3>2. folded = f
      BY <2>1
    <3>3. /\ TableOK(f) /\ Kept(u, f) /\ Held(f) = Held(u) /\ (SnapOK(u) => SnapOK(f))
          /\ Own(f)[s] + (IF f.handNum = u.handNum THEN 0 ELSE f.hand.totalBet[s]) = Own(u)[s]
      BY <1>1, <1>2, <2>1, FoldSeatOK
    <3>. HIDE DEF f, Own, live
    <3>4. twice = IF f.handNum = u.handNum THEN 0 ELSE f.hand.totalBet[s]
      BY <2>1, <3>2
    <3>. HIDE DEF twice, folded
    <3>. QED BY <3>1, <3>2, <3>3, <3>4
  <2>2. CASE ~live
    <3>1. Kept(u, u)
      BY <1>1 DEF Kept
    <3>. QED BY <2>2, <3>1
  <2>. QED BY <2>1, <2>2
<1>4. SnapOK(u) => Own(folded)[s] + twice = credit
  <2>1. CASE live
    BY <1>3, <2>1
  <2>2. ASSUME ~live, SnapOK(u)
        PROVE  Own(folded)[s] + twice = credit
    <3>1. folded = u /\ twice = u.hand.totalBet[s] /\ credit = u.seats[s].stack
      BY <2>2
    <3>2. CASE WasDealt(u, s)
      <4>1. Own(u)[s] = u.hand.stack[s] /\ u.seats[s].stack = u.startStack[s]
        BY <1>1, <2>2, <3>2 DEF Own, StackOf, SnapOK
      <4>2. Running(u)
        BY <1>1, <3>2, NoHandOK DEF WasDealt, Running
      <4>3. u.hand.stack[s] + u.hand.totalBet[s] = u.startStack[s]
        BY <1>1, <4>2, LiveHand DEF ChipsOK
      <4>. HIDE DEF Own, folded, twice, credit
      <4>. QED BY <3>1, <4>1, <4>3
    <3>3. CASE ~WasDealt(u, s)
      <4>1. Own(u)[s] = u.seats[s].stack
        BY <1>1, <3>3 DEF Own, StackOf
      <4>2. u.hand.totalBet[s] = 0
        <5>1. CASE Running(u)
          <6>1. HandOK(u.hand, u.startStack)
            BY <5>1, LiveHand DEF PlayOK
          <6>. QED BY <1>1, <3>3, <6>1, HandRuns DEF WasDealt
        <5>2. CASE ~Running(u)
          BY <1>1, <5>2, NoHandOK DEF Running
        <5>. QED BY <5>1, <5>2
      <4>. HIDE DEF Own, folded, twice, credit
      <4>. QED BY <1>1, <3>1, <4>1, <4>2
    <3>. QED BY <3>2, <3>3
  <2>. QED BY <2>1, <2>2
<1>5. credit \in Nat
  BY <1>1
<1>6. /\ folded \in TableState /\ folded.astray \in Int /\ folded.handNum \in Nat
      /\ folded.hand.totalBet[s] \in Nat
  <2>1. folded \in TableState
    BY <1>3, ReadyTable
  <2>. HIDE DEF folded
  <2>. QED BY <1>1, <2>1 DEF TableState, HandState
<1>7. twice \in Nat
  BY <1>6
<1>. HIDE DEF folded, twice, credit, live
<1>8. /\ gone \in TableState
      /\ gone.hand = folded.hand /\ gone.startStack = folded.startStack
      /\ gone.handNum = folded.handNum /\ gone.stopped = folded.stopped
      /\ gone.turnArmed = folded.turnArmed /\ gone.idleArmed = folded.idleArmed
      /\ gone.autoStart = folded.autoStart /\ gone.hostStarted = folded.hostStarted
      /\ gone.subs \subseteq folded.subs /\ gone.seats = [folded.seats EXCEPT ![s] = EmptySeat]
      /\ gone.astray = folded.astray - twice
  <2>1. folded.astray - twice \in Int
    BY <1>6, <1>7
  <2>2. [folded.seats EXCEPT ![s] = EmptySeat] \in [Seats -> SeatState]
    <3>1. EmptySeat \in SeatState
      BY DEF EmptySeat, SeatState
    <3>. QED BY <1>6, <3>1 DEF TableState
  <2>3. folded.subs \ {p} \in SUBSET Players
    BY <1>6 DEF TableState
  <2>. QED BY <1>6, <2>1, <2>2, <2>3 DEF TableState
<1>. HIDE DEF gone
<1>9. /\ TableOK(gone) /\ (SnapOK(folded) => SnapOK(gone))
      /\ Held(gone) + Own(folded)[s] = Held(folded) + (gone.astray - folded.astray)
  BY <1>1, <1>3, <1>8, EmptyOK
<1>10. SnapOK(u) => SnapOK(gone) /\ Held(gone) + credit = Held(u)
  <2>1. ASSUME SnapOK(u) PROVE Held(gone) + credit = Held(u)
    <3>1. /\ Held(gone) \in Int /\ Held(folded) \in Int /\ Own(folded)[s] \in Nat
      <4>1. ASSUME NEW x \in TableState PROVE Held(x) \in Int
        <5>1. x.hand.pot \in Nat /\ x.astray \in Int /\ SumOver(Own(x), Seats) \in Nat
          BY OwnType DEF TableState, HandState
        <5>. QED BY <5>1 DEF Held
      <4>. QED BY <1>1, <1>6, <1>8, <4>1, OwnType
    <3>. HIDE DEF Held, Own
    <3>. QED BY <1>3, <1>4, <1>5, <1>6, <1>7, <1>8, <1>9, <2>1, <3>1
  <2>. QED BY <1>3, <1>9, <2>1
<1>11. Kept(u, gone)
  BY <1>3, <1>8 DEF Kept, Running
<1>12. After(gone, w) /\ ~Pending(w)
  BY <1>9, AfterSelf, DriveOK
<1>. HIDE DEF w
<1>13. TableOK(w) /\ Held(w) = Held(gone) /\ (SnapOK(gone) => SnapOK(w)) /\ w \in TableState
  BY <1>12, ReadyTable DEF After
<1>14. Kept(u, w)
  <2>1. gone.handNum \in Nat
    BY <1>8 DEF TableState
  <2>. QED BY <1>1, <1>11, <1>12, <1>13, <2>1, KeptThrough
<1>15. Marked(w, v) /\ v.turnArmed = w.turnArmed /\ v.hand = w.hand /\ v.handNum = w.handNum
  <2>1. (w.subs = {} /\ Occupied(w) = {}) \in BOOLEAN
    OBVIOUS
  <2>2. /\ v \in TableState /\ v.hand = w.hand /\ v.startStack = w.startStack
        /\ v.handNum = w.handNum /\ v.stopped = w.stopped /\ v.astray = w.astray
        /\ v.autoStart = w.autoStart /\ v.hostStarted = w.hostStarted
        /\ v.turnArmed = w.turnArmed /\ v.subs = w.subs /\ v.seats = w.seats
        /\ v.idleArmed = (w.subs = {} /\ Occupied(w) = {})
    BY <1>13, <2>1 DEF RefreshIdle, TableState
  <2>. HIDE DEF v
  <2>3. IdleOK(v)
    BY <2>2 DEF IdleOK, Occupied
  <2>. QED BY <2>2, <2>3 DEF Marked
<1>. HIDE DEF v
<1>16. Handled(w, v)
  BY <1>12, <1>13, <1>15, MarkedOK
<1>17. Kept(u, v)
  BY <1>14, <1>15 DEF Kept, Running
<1>18. /\ TableOK(v) /\ ~Pending(v) /\ Kept(u, v) /\ credit \in Nat
       /\ SnapOK(u) => SnapOK(v) /\ Held(v) + credit = Held(u)
  BY <1>5, <1>10, <1>13, <1>16, <1>17 DEF Handled
<1>. QED BY <1>18 DEF v, w, gone, twice, folded, credit, live

-----------------------------------------------------------------------------
(* The handlers that deal at their end *)

\* A handler that prepares the seats and then deals if that made the table ready.
LEMMA DealtOK ==
  ASSUME NEW u \in TableState, NEW m, ReadyOK(m), ~Pending(m),
         m.hand = u.hand, m.handNum = u.handNum
  PROVE  LET v == StartHandIfReady(m)
         IN  /\ TableOK(v) /\ ~Pending(v) /\ Kept(u, v)
             /\ Held(v) = Held(m) /\ (SnapOK(m) => SnapOK(v))
<1>. DEFINE v == StartHandIfReady(m)
<1>1. Handled(m, v)
  BY DealOK
<1>2. m \in TableState /\ u.handNum \in Nat
  BY ReadyTable DEF TableState
<1>3. v = m \/ v.handNum = m.handNum + 1
  BY <1>2 DEF StartHandIfReady, TableState
<1>. HIDE DEF v
<1>4. Kept(u, v)
  BY <1>2, <1>3 DEF Kept
<1>. QED BY <1>1, <1>4 DEF Handled, v

\* A new stack on one seat that has no chips in the running hand.
LEMMA NewStackOK ==
  ASSUME NEW u, TableOK(u), ~Pending(u), NEW s \in Seats, NEW seat \in SeatState,
         seat.player # NoPlayer, seat.stack > 0, seat.brokeAtHand = 0,
         seat.foldPending => u.seats[s].foldPending,
         NEW m \in TableState,
         m.hand = u.hand, m.startStack = u.startStack, m.handNum = u.handNum,
         m.stopped = u.stopped, m.turnArmed = u.turnArmed, m.astray = u.astray,
         m.seats = [u.seats EXCEPT ![s] = seat], IdleOK(m)
  PROVE  /\ ReadyOK(m) /\ ~Pending(m)
         /\ ~WasDealt(u, s) =>
              /\ SnapOK(u) => SnapOK(m)
              /\ Held(m) = Held(u) + (seat.stack - Own(u)[s])
<1>1. /\ ReadyOK(u) /\ u \in TableState /\ u.seats \in [Seats -> SeatState]
      /\ u.astray \in Int /\ u.hand.pot \in Nat /\ seat.stack \in Nat
  BY ReadyTable DEF TableState, HandState, SeatState
<1>2. /\ m.seats[s] = seat /\ \A i \in Seats \ {s} : m.seats[i] = u.seats[i]
      /\ \A i \in Seats : m.seats[i].foldPending => u.seats[i].foldPending
  BY <1>1
<1>3. /\ Occupied(m) = Occupied(u) \cup {s} /\ Occupied(u) \subseteq Seats
      /\ \A i \in Seats : WasDealt(m, i) <=> WasDealt(u, i)
  BY <1>2 DEF Occupied, WasDealt
<1>4. (MarksOK(u) => MarksOK(m)) /\ (~WasDealt(u, s) /\ SnapOK(u) => SnapOK(m))
  BY <1>2, <1>3 DEF MarksOK, SnapOK
<1>5. (Running(m) <=> Running(u)) /\ (ShortButton(u) => ShortButton(m))
  <2>1. {i \in Seats : WasDealt(m, i)} = {i \in Seats : WasDealt(u, i)}
    BY <1>3
  <2>. QED BY <2>1 DEF Running, ShortButton
<1>6. ReadyOK(m)
  BY <1>1, <1>4, <1>5 DEF ReadyOK, PlayOK, LiveOK, RestOK
<1>7. ~Pending(m)
  <2>1. Running(u) => u.hand.toAct \in Seats
    BY LiveHand
  <2>. QED BY <1>2, <1>5, <2>1 DEF Pending
<1>8. ASSUME ~WasDealt(u, s)
      PROVE  Held(m) = Held(u) + (seat.stack - Own(u)[s])
  <2>. DEFINE a == Own(u)
              b == Own(m)
  <2>1. /\ \A i \in Seats : a[i] \in Int /\ b[i] \in Int
        /\ SumOver(a, Seats) \in Int /\ a[s] \in Int
    BY <1>1, OwnType
  <2>2. b[s] = seat.stack /\ \A i \in Seats \ {s} : b[i] = a[i]
    BY <1>2, <1>3, <1>8 DEF Own, StackOf
  <2>3. IsFiniteSet(Seats)
    BY SeatSets
  <2>4. /\ Held(m) = u.hand.pot + SumOver(b, Seats) + u.astray
        /\ Held(u) = u.hand.pot + SumOver(a, Seats) + u.astray
    BY DEF Held
  <2>. HIDE DEF a, b
  <2>5. SumOver(b, Seats) = SumOver(a, Seats) + (b[s] - a[s])
    BY <2>1, <2>2, <2>3, SumChange
  <2>6. Held(m) = Held(u) + (seat.stack - a[s])
    BY <1>1, <2>1, <2>2, <2>4, <2>5
  <2>. QED BY <2>6 DEF a
<1>. QED BY <1>4, <1>6, <1>7, <1>8

-----------------------------------------------------------------------------
(* One step *)

\* The chips of a player's account move by what is taken out or paid in.
LEMMA LedgerOK ==
  ASSUME NEW l \in [Players -> Nat], NEW p \in Players, NEW n \in Int,
         NEW k \in [Players -> Nat], k[p] = l[p] + n, \A q \in Players \ {p} : k[q] = l[q]
  PROVE  SumOver(k, Players) = SumOver(l, Players) + n
<1>1. IsFiniteSet(Players) /\ \A q \in Players : l[q] \in Int /\ k[q] \in Int
  BY TableAssumption
<1>2. SumOver(k, Players) = SumOver(l, Players) + (k[p] - l[p])
  BY <1>1, SumChange
<1>3. SumOver(l, Players) \in Int /\ l[p] \in Int
  BY <1>1, SumInt
<1>. QED BY <1>2, <1>3

\* What a step has to do to keep the invariant.
LEMMA StepInv ==
  ASSUME TableInv, t' \in TableState, Between(t'), ledger' \in [Players -> Nat], reused' \in BOOLEAN,
         ~reused' => /\ ~reused /\ (SnapOK(t) => SnapOK(t'))
                     /\ SumOver(ledger', Players) + Held(t') = SumOver(ledger, Players) + Held(t)
  PROVE  TableInv'
BY DEF TableInv, TypeOK

\* A handler that neither pays in nor out.
LEMMA HandledInv ==
  ASSUME TableInv, ~t.stopped, Handled(t, t'), UNCHANGED <<ledger, reused>>
  PROVE  TableInv' /\ Kept(t, t')
<1>1. t' \in TableState /\ Between(t')
  BY ReadyTable DEF Handled, Between, TableOK, PlayOK, RestOK
<1>2. TableInv'
  BY <1>1, StepInv DEF Handled, TableInv, TypeOK
<1>. QED BY <1>2 DEF Handled

\* The table a handler finds.
LEMMA TableNow ==
  ASSUME TableInv, ~t.stopped
  PROVE  /\ TableOK(t) /\ ~Pending(t) /\ ReadyOK(t) /\ ~MayStart(t) /\ t \in TableState
         /\ ledger \in [Players -> Nat] /\ IdleOK(t)
         /\ t.seats \in [Seats -> SeatState] /\ t.subs \in SUBSET Players
         /\ t.host \in Players \cup {NoPlayer}
<1>1. /\ TableOK(t) /\ ~Pending(t) /\ t \in TableState /\ ledger \in [Players -> Nat]
  BY DEF TableInv, TypeOK, Between
<1>. QED BY <1>1, ReadyTable DEF TableOK, PlayOK, RestOK, TableState

\* refreshIdle arms the idle deadline of an empty table and clears every other's.
LEMMA RefreshOK ==
  ASSUME NEW m \in TableState
  PROVE  LET v == RefreshIdle(m)
         IN  /\ v \in TableState /\ IdleOK(v)
             /\ v.hand = m.hand /\ v.startStack = m.startStack /\ v.handNum = m.handNum
             /\ v.stopped = m.stopped /\ v.astray = m.astray /\ v.turnArmed = m.turnArmed
             /\ v.autoStart = m.autoStart /\ v.hostStarted = m.hostStarted
             /\ v.subs = m.subs /\ v.seats = m.seats
<1>. DEFINE v == RefreshIdle(m)
<1>1. (m.subs = {} /\ Occupied(m) = {}) \in BOOLEAN
  OBVIOUS
<1>2. /\ v \in TableState /\ v.hand = m.hand /\ v.startStack = m.startStack
      /\ v.handNum = m.handNum /\ v.stopped = m.stopped /\ v.astray = m.astray
      /\ v.autoStart = m.autoStart /\ v.hostStarted = m.hostStarted
      /\ v.turnArmed = m.turnArmed /\ v.subs = m.subs /\ v.seats = m.seats
      /\ v.idleArmed = (m.subs = {} /\ Occupied(m) = {})
  BY <1>1 DEF RefreshIdle, TableState
<1>. HIDE DEF v
<1>3. IdleOK(v)
  BY <1>2 DEF IdleOK, Occupied
<1>. QED BY <1>2, <1>3 DEF v

\* A mark on one seat.
LEMMA SeatMark ==
  ASSUME NEW u \in TableState, NEW s \in Seats, NEW seat \in SeatState,
         seat.player = u.seats[s].player, seat.stack = u.seats[s].stack,
         seat.brokeAtHand = u.seats[s].brokeAtHand,
         u.seats[s].sittingOut => seat.sittingOut,
         seat.foldPending => u.seats[s].foldPending \/ ~MayAct(u.hand, s),
         NEW v \in TableState, IdleOK(v),
         v.hand = u.hand, v.startStack = u.startStack, v.handNum = u.handNum,
         v.stopped = u.stopped, v.astray = u.astray,
         v.autoStart = u.autoStart, v.hostStarted = u.hostStarted,
         v.seats = [u.seats EXCEPT ![s] = seat]
  PROVE  Marked(u, v)
<1>1. u.seats \in [Seats -> SeatState]
  BY DEF TableState
<1>. QED BY <1>1 DEF Marked

\* handleJoin.
LEMMA JoinInv ==
  ASSUME TableInv, NEW p \in Players, Join(p)
  PROVE  TableInv' /\ Kept(t, t')
<1>. DEFINE joined == [t EXCEPT !.subs = @ \cup {p}]
<1>1. ~t.stopped /\ UNCHANGED <<ledger, reused>>
  BY DEF Join
<1>2. TableOK(t) /\ ~Pending(t) /\ t \in TableState /\ t.seats \in [Seats -> SeatState]
  BY <1>1, TableNow
<1>3. CASE SeatsOf(t, p) = {}
  <2>1. t' = RefreshIdle(joined)
    BY <1>3 DEF Join
  <2>2. /\ joined \in TableState /\ joined.seats = t.seats /\ joined.hand = t.hand
        /\ joined.startStack = t.startStack /\ joined.handNum = t.handNum
        /\ joined.stopped = t.stopped /\ joined.astray = t.astray /\ joined.turnArmed = t.turnArmed
        /\ joined.autoStart = t.autoStart /\ joined.hostStarted = t.hostStarted
    BY <1>2 DEF TableState
  <2>. HIDE DEF joined
  <2>3. Marked(t, t') /\ t'.turnArmed = t.turnArmed
    BY <2>1, <2>2, RefreshOK DEF Marked
  <2>. QED BY <1>1, <1>2, <2>3, MarkedOK, HandledInv
<1>4. CASE SeatsOf(t, p) # {}
  <2>1. PICK s \in SeatsOf(t, p) : t' = RefreshIdle([joined EXCEPT !.seats[s].disconnected = FALSE])
    BY <1>4 DEF Join
  <2>. DEFINE seat == [t.seats[s] EXCEPT !.disconnected = FALSE]
              m    == [joined EXCEPT !.seats[s].disconnected = FALSE]
  <2>2. s \in Seats
    BY DEF SeatsOf
  <2>3. /\ seat \in SeatState /\ seat.player = t.seats[s].player /\ seat.stack = t.seats[s].stack
        /\ seat.brokeAtHand = t.seats[s].brokeAtHand /\ seat.sittingOut = t.seats[s].sittingOut
        /\ seat.foldPending = t.seats[s].foldPending
    BY <1>2, <2>2 DEF SeatState
  <2>4. m = [t EXCEPT !.subs = @ \cup {p}, !.seats = [t.seats EXCEPT ![s] = seat]]
    BY <1>2 DEF TableState
  <2>. HIDE DEF m, seat
  <2>5. /\ m \in TableState /\ m.seats = [t.seats EXCEPT ![s] = seat] /\ m.hand = t.hand
        /\ m.startStack = t.startStack /\ m.handNum = t.handNum
        /\ m.stopped = t.stopped /\ m.astray = t.astray /\ m.turnArmed = t.turnArmed
        /\ m.autoStart = t.autoStart /\ m.hostStarted = t.hostStarted
    BY <1>2, <2>3, <2>4 DEF TableState
  <2>6. t' = RefreshIdle(m)
    BY <2>1 DEF m
  <2>. DEFINE v == RefreshIdle(m)
  <2>7. /\ v \in TableState /\ IdleOK(v)
        /\ v.hand = t.hand /\ v.startStack = t.startStack /\ v.handNum = t.handNum
        /\ v.stopped = t.stopped /\ v.astray = t.astray /\ v.turnArmed = t.turnArmed
        /\ v.autoStart = t.autoStart /\ v.hostStarted = t.hostStarted
        /\ v.seats = [t.seats EXCEPT ![s] = seat]
    BY <2>5, RefreshOK
  <2>. HIDE DEF v
  <2>8. Marked(t, v)
    BY <1>2, <2>2, <2>3, <2>7, SeatMark
  <2>9. Handled(t, v)
    BY <1>2, <2>7, <2>8, MarkedOK
  <2>. QED BY <1>1, <2>6, <2>9, HandledInv DEF v
<1>. QED BY <1>3, <1>4

\* handleDisconnect.
LEMMA DisconnectInv ==
  ASSUME TableInv, NEW p \in Players, Disconnect(p)
  PROVE  TableInv' /\ Kept(t, t')
<1>. DEFINE gone == [t EXCEPT !.subs = @ \ {p}]
<1>1. ~t.stopped /\ UNCHANGED <<ledger, reused>>
  BY DEF Disconnect
<1>2. TableOK(t) /\ ~Pending(t) /\ t \in TableState /\ t.seats \in [Seats -> SeatState]
  BY <1>1, TableNow
<1>3. CASE SeatsOf(t, p) = {}
  <2>1. t' = RefreshIdle(gone)
    BY <1>3 DEF Disconnect
  <2>2. /\ gone \in TableState /\ gone.seats = t.seats /\ gone.hand = t.hand
        /\ gone.startStack = t.startStack /\ gone.handNum = t.handNum
        /\ gone.stopped = t.stopped /\ gone.astray = t.astray /\ gone.turnArmed = t.turnArmed
        /\ gone.autoStart = t.autoStart /\ gone.hostStarted = t.hostStarted
    BY <1>2 DEF TableState
  <2>. HIDE DEF gone
  <2>3. Marked(t, t') /\ t'.turnArmed = t.turnArmed
    BY <2>1, <2>2, RefreshOK DEF Marked
  <2>. QED BY <1>1, <1>2, <2>3, MarkedOK, HandledInv
<1>4. CASE SeatsOf(t, p) # {}
  <2>1. PICK s \in SeatsOf(t, p) : t' = RefreshIdle([gone EXCEPT !.seats[s].disconnected = TRUE])
    BY <1>4 DEF Disconnect
  <2>. DEFINE seat == [t.seats[s] EXCEPT !.disconnected = TRUE]
              m    == [gone EXCEPT !.seats[s].disconnected = TRUE]
  <2>2. s \in Seats
    BY DEF SeatsOf
  <2>3. /\ seat \in SeatState /\ seat.player = t.seats[s].player /\ seat.stack = t.seats[s].stack
        /\ seat.brokeAtHand = t.seats[s].brokeAtHand /\ seat.sittingOut = t.seats[s].sittingOut
        /\ seat.foldPending = t.seats[s].foldPending
    BY <1>2, <2>2 DEF SeatState
  <2>4. m = [t EXCEPT !.subs = @ \ {p}, !.seats = [t.seats EXCEPT ![s] = seat]]
    BY <1>2 DEF TableState
  <2>. HIDE DEF m, seat
  <2>5. /\ m \in TableState /\ m.seats = [t.seats EXCEPT ![s] = seat] /\ m.hand = t.hand
        /\ m.startStack = t.startStack /\ m.handNum = t.handNum
        /\ m.stopped = t.stopped /\ m.astray = t.astray /\ m.turnArmed = t.turnArmed
        /\ m.autoStart = t.autoStart /\ m.hostStarted = t.hostStarted
    BY <1>2, <2>3, <2>4 DEF TableState
  <2>6. t' = RefreshIdle(m)
    BY <2>1 DEF m
  <2>. DEFINE v == RefreshIdle(m)
  <2>7. /\ v \in TableState /\ IdleOK(v)
        /\ v.hand = t.hand /\ v.startStack = t.startStack /\ v.handNum = t.handNum
        /\ v.stopped = t.stopped /\ v.astray = t.astray /\ v.turnArmed = t.turnArmed
        /\ v.autoStart = t.autoStart /\ v.hostStarted = t.hostStarted
        /\ v.seats = [t.seats EXCEPT ![s] = seat]
    BY <2>5, RefreshOK
  <2>. HIDE DEF v
  <2>8. Marked(t, v)
    BY <1>2, <2>2, <2>3, <2>7, SeatMark
  <2>9. Handled(t, v)
    BY <1>2, <2>7, <2>8, MarkedOK
  <2>. QED BY <1>1, <2>6, <2>9, HandledInv DEF v
<1>. QED BY <1>3, <1>4

\* handleLeave of a player without a seat.
LEMMA LeaveUnseatedInv ==
  ASSUME TableInv, NEW p \in Players, LeaveUnseated(p)
  PROVE  TableInv' /\ Kept(t, t')
<1>1. ~t.stopped /\ UNCHANGED <<ledger, reused>> /\ t' = [t EXCEPT !.subs = @ \ {p}]
  BY DEF LeaveUnseated
<1>2. /\ TableOK(t) /\ ~Pending(t) /\ t \in TableState /\ IdleOK(t)
      /\ t.subs \in SUBSET Players
  BY <1>1, TableNow
<1>3. /\ t' \in TableState /\ t'.subs = t.subs \ {p} /\ t'.seats = t.seats /\ t'.hand = t.hand
      /\ t'.startStack = t.startStack /\ t'.handNum = t.handNum
      /\ t'.stopped = t.stopped /\ t'.astray = t.astray /\ t'.turnArmed = t.turnArmed
      /\ t'.autoStart = t.autoStart /\ t'.hostStarted = t.hostStarted
      /\ t'.idleArmed = t.idleArmed
  BY <1>1, <1>2 DEF TableState
<1>4. IdleOK(t')
  BY <1>2, <1>3 DEF IdleOK, Occupied
<1>5. Marked(t, t')
  BY <1>3, <1>4 DEF Marked
<1>. QED BY <1>1, <1>2, <1>3, <1>5, MarkedOK, HandledInv

\* handleFold, handleCheck, handleCall, handleBet and handleRaise.
LEMMA BetInv ==
  ASSUME TableInv, NEW p \in Players, NEW s \in Seats,
         \/ Fold(p, s) \/ Check(p, s) \/ Call(p, s)
         \/ \E to \in 1 .. Cardinality(Players) * StartBalance : Raise(p, s, to)
  PROVE  TableInv' /\ Kept(t, t')
<1>1. /\ ~t.stopped /\ Running(t) /\ s \in SeatsOf(t, p) /\ UNCHANGED <<ledger, reused>>
  BY DEF Fold, Check, Call, Raise, Bet
<1>2. /\ TableOK(t) /\ ~Pending(t) /\ s \in Occupied(t)
  BY <1>1, TableNow, TableAssumption DEF SeatsOf, Occupied
<1>3. \E best \in HandStrengths :
        \/ MayAct(t.hand, s) /\ t' = Apply(t, FoldBy(t.hand, s), best)
        \/ CanCheck(t.hand, s) /\ t' = Apply(t, CheckBy(t.hand, s), best)
        \/ MayAct(t.hand, s) /\ t' = Apply(t, CallBy(t.hand, s), best)
        \/ \E to \in Nat : CanRaise(t.hand, s, to) /\ t' = Apply(t, RaiseBy(t.hand, s, to), best)
  <2>1. \A to \in 1 .. Cardinality(Players) * StartBalance : to \in Nat
    OBVIOUS
  <2>2. CASE \/ Fold(p, s) \/ Check(p, s) \/ Call(p, s)
    BY <2>2 DEF Fold, Check, Call, Bet
  <2>3. CASE \E to \in 1 .. Cardinality(Players) * StartBalance : Raise(p, s, to)
    BY <2>1, <2>3 DEF Raise, Bet
  <2>. QED BY <2>2, <2>3
<1>4. Handled(t, t')
  BY <1>1, <1>2, <1>3, BetOK
<1>. QED BY <1>1, <1>4, HandledInv

\* handleLeave of a seated player.
LEMMA LeaveInv ==
  ASSUME TableInv, NEW p \in Players, NEW s \in Seats, Leave(p, s)
  PROVE  TableInv' /\ Kept(t, t')
<1>. DEFINE credit == IF InHand(t, s) THEN t.hand.stack[s] ELSE t.seats[s].stack
<1>1. /\ ~t.stopped /\ s \in SeatsOf(t, p) /\ UNCHANGED reused
      /\ ledger' = [ledger EXCEPT ![p] = @ + credit]
  BY DEF Leave
<1>2. /\ TableOK(t) /\ ~Pending(t) /\ t \in TableState /\ ledger \in [Players -> Nat]
  BY <1>1, TableNow
<1>3. PICK best \in HandStrengths :
        LET live   == InHand(t, s)
            folded == IF live THEN FoldSeat(t, s, best) ELSE t
            again  == ~live \/ folded.handNum # t.handNum
            gone   == [folded EXCEPT
                        !.seats[s] = EmptySeat, !.subs = @ \ {p},
                        !.astray   = @ - (IF again THEN folded.hand.totalBet[s] ELSE 0)]
        IN  t' = RefreshIdle(DriveAutoFolds(gone, best))
  BY DEF Leave
<1>4. /\ TableOK(t') /\ ~Pending(t') /\ Kept(t, t') /\ credit \in Nat
      /\ SnapOK(t) => SnapOK(t') /\ Held(t') + credit = Held(t)
  BY ZenonT(60), <1>1, <1>2, <1>3, LeaveOK
<1>. HIDE DEF credit
<1>5. ledger' \in [Players -> Nat] /\ SumOver(ledger', Players) = SumOver(ledger, Players) + credit
  <2>1. /\ ledger' \in [Players -> Nat] /\ ledger'[p] = ledger[p] + credit
        /\ \A q \in Players \ {p} : ledger'[q] = ledger[q]
    BY <1>1, <1>2, <1>4
  <2>. QED BY <1>2, <1>4, <2>1, LedgerOK
<1>6. t' \in TableState /\ Between(t')
  BY <1>4, ReadyTable DEF Between, TableOK, PlayOK, RestOK
<1>7. SumOver(ledger, Players) \in Int /\ Held(t') \in Int
  <2>1. IsFiniteSet(Players) /\ \A q \in Players : ledger[q] \in Int
    BY <1>2, TableAssumption
  <2>2. t'.hand.pot \in Nat /\ t'.astray \in Int /\ SumOver(Own(t'), Seats) \in Nat
    BY <1>6, OwnType DEF TableState, HandState
  <2>. QED BY <2>1, <2>2, SumInt DEF Held
<1>8. SnapOK(t) => SumOver(ledger', Players) + Held(t') = SumOver(ledger, Players) + Held(t)
  <2>. HIDE DEF Held, SnapOK
  <2>. QED BY <1>4, <1>5, <1>7
<1>9. reused' \in BOOLEAN /\ (~reused' => ~reused /\ SnapOK(t))
  BY <1>1 DEF TableInv, TypeOK
<1>10. TableInv'
  BY <1>4, <1>5, <1>6, <1>8, <1>9, StepInv
<1>. QED BY <1>4, <1>10

\* handleTimer.
LEMMA TimerInv ==
  ASSUME TableInv, NEW turnDue \in BOOLEAN, NEW idleDue \in BOOLEAN, NEW graceDue \in SUBSET Seats,
         OnTimer(turnDue, graceDue, idleDue)
  PROVE  TableInv' /\ Kept(t, t')
<1>1. /\ ~t.stopped /\ UNCHANGED <<ledger, reused>> /\ (turnDue => t.turnArmed)
  BY DEF OnTimer
<1>2. TableOK(t) /\ ~Pending(t)
  BY <1>1, TableNow
<1>3. PICK best \in HandStrengths :
        LET acted == GraceExpired(IF turnDue THEN TurnTimeout(t, best) ELSE t, graceDue)
        IN  t' = [acted EXCEPT !.stopped = idleDue]
  BY DEF OnTimer
<1>4. Between(t') /\ Kept(t, t') /\ Held(t') = Held(t) /\ (SnapOK(t) => SnapOK(t'))
  BY <1>1, <1>2, <1>3, TimerOK
<1>5. t' \in TableState
  BY <1>4 DEF Between, StoppedOK, TableOK, PlayOK, RestOK
<1>6. TableInv'
  BY <1>1, <1>4, <1>5, StepInv DEF TableInv, TypeOK
<1>. QED BY <1>4, <1>6

\* handleStartHand by the host.
LEMMA StartHandInv ==
  ASSUME TableInv, NEW p \in Players, StartHand(p)
  PROVE  TableInv' /\ Kept(t, t')
<1>. DEFINE m == [t EXCEPT !.hostStarted = TRUE]
<1>1. ~t.stopped /\ UNCHANGED <<ledger, reused>> /\ t' = StartHandIfReady(m)
  BY DEF StartHand
<1>2. TableOK(t) /\ ~Pending(t) /\ ReadyOK(t) /\ t \in TableState /\ IdleOK(t)
  BY <1>1, TableNow
<1>3. /\ m \in TableState /\ m.seats = t.seats /\ m.hand = t.hand
      /\ m.startStack = t.startStack /\ m.handNum = t.handNum
      /\ m.stopped = t.stopped /\ m.astray = t.astray /\ m.turnArmed = t.turnArmed
      /\ m.idleArmed = t.idleArmed /\ m.subs = t.subs
  BY <1>2 DEF TableState
<1>. HIDE DEF m
<1>4. IdleOK(m) /\ ~Pending(m)
  BY <1>2, <1>3 DEF IdleOK, Pending, Occupied, Running
<1>5. ReadyOK(m) /\ Held(m) = Held(t) /\ (SnapOK(t) => SnapOK(m))
  BY <1>2, <1>3, <1>4, TouchOK
<1>6. /\ TableOK(t') /\ ~Pending(t') /\ Kept(t, t')
      /\ Held(t') = Held(m) /\ (SnapOK(m) => SnapOK(t'))
  BY <1>1, <1>2, <1>3, <1>4, <1>5, DealtOK
<1>. QED BY <1>1, <1>5, <1>6, HandledInv DEF Handled

\* handleSitIn.
LEMMA SitInInv ==
  ASSUME TableInv, NEW p \in Players, NEW s \in Seats, SitIn(p, s)
  PROVE  TableInv' /\ Kept(t, t')
<1>. DEFINE seat == [t.seats[s] EXCEPT !.sittingOut = FALSE, !.foldPending = FALSE]
            m    == [t EXCEPT !.seats[s].sittingOut = FALSE, !.seats[s].foldPending = FALSE]
<1>1. ~t.stopped /\ UNCHANGED <<ledger, reused>> /\ t' = StartHandIfReady(m)
  BY DEF SitIn
<1>2. /\ TableOK(t) /\ ~Pending(t) /\ ReadyOK(t) /\ t \in TableState /\ IdleOK(t)
      /\ t.seats \in [Seats -> SeatState]
  BY <1>1, TableNow
<1>3. /\ seat \in SeatState /\ seat.player = t.seats[s].player /\ seat.stack = t.seats[s].stack
      /\ seat.brokeAtHand = t.seats[s].brokeAtHand /\ seat.foldPending = FALSE
  BY <1>2 DEF SeatState
<1>4. m = [t EXCEPT !.seats = [t.seats EXCEPT ![s] = seat]]
  BY <1>2 DEF TableState, SeatState
<1>. HIDE DEF m, seat
<1>5. /\ m \in TableState /\ m.seats = [t.seats EXCEPT ![s] = seat] /\ m.hand = t.hand
      /\ m.startStack = t.startStack /\ m.handNum = t.handNum
      /\ m.stopped = t.stopped /\ m.astray = t.astray /\ m.turnArmed = t.turnArmed
      /\ m.idleArmed = t.idleArmed /\ m.subs = t.subs
  BY <1>2, <1>3, <1>4 DEF TableState
<1>6. \A i \in Seats : /\ m.seats[i].player = t.seats[i].player
                       /\ m.seats[i].stack = t.seats[i].stack
                       /\ m.seats[i].brokeAtHand = t.seats[i].brokeAtHand
                       /\ m.seats[i].foldPending => t.seats[i].foldPending
  BY <1>2, <1>3, <1>5
<1>7. IdleOK(m) /\ ~Pending(m)
  <2>1. Running(t) => t.hand.toAct \in Seats
    BY <1>2, LiveHand
  <2>. QED BY <1>2, <1>5, <1>6, <2>1 DEF IdleOK, Pending, Occupied, Running
<1>8. ReadyOK(m) /\ Held(m) = Held(t) /\ (SnapOK(t) => SnapOK(m))
  BY <1>2, <1>5, <1>6, <1>7, TouchOK
<1>9. /\ TableOK(t') /\ ~Pending(t') /\ Kept(t, t')
      /\ Held(t') = Held(m) /\ (SnapOK(m) => SnapOK(t'))
  BY <1>1, <1>2, <1>5, <1>7, <1>8, DealtOK
<1>. QED BY <1>1, <1>8, <1>9, HandledInv DEF Handled

\* handleSitOut: between turns a mark, on the clock a fold.
LEMMA SitOutInv ==
  ASSUME TableInv, NEW p \in Players, NEW s \in Seats, SitOut(p, s)
  PROVE  TableInv' /\ Kept(t, t')
<1>. DEFINE out == [t EXCEPT !.seats[s].sittingOut = TRUE]
<1>1. ~t.stopped /\ UNCHANGED <<ledger, reused>>
  BY DEF SitOut
<1>2. /\ TableOK(t) /\ ~Pending(t) /\ ReadyOK(t) /\ t \in TableState /\ IdleOK(t)
      /\ t.seats \in [Seats -> SeatState]
  BY <1>1, TableNow
<1>3. PICK best \in HandStrengths :
        t' = IF ~InHand(t, s) THEN out
             ELSE IF t.hand.toAct # s
                    THEN [out EXCEPT !.seats[s].foldPending = TRUE]
                    ELSE IF MayAct(t.hand, s) THEN Apply(out, FoldBy(t.hand, s), best)
                         ELSE out
  BY DEF SitOut
<1>4. ASSUME NEW pending \in BOOLEAN, pending => ~MayAct(t.hand, s),
             NEW seat, seat = [t.seats[s] EXCEPT !.sittingOut = TRUE, !.foldPending = @ \/ pending],
             NEW m, m = [t EXCEPT !.seats = [t.seats EXCEPT ![s] = seat]]
      PROVE  /\ Marked(t, m) /\ m.turnArmed = t.turnArmed /\ m.hand = t.hand
             /\ \A i \in Seats : t.seats[i].foldPending => m.seats[i].foldPending
             /\ \A i \in Seats : ~pending /\ m.seats[i].foldPending => t.seats[i].foldPending
  <2>1. /\ seat \in SeatState /\ seat.player = t.seats[s].player /\ seat.stack = t.seats[s].stack
        /\ seat.brokeAtHand = t.seats[s].brokeAtHand /\ seat.sittingOut
        /\ seat.foldPending = (t.seats[s].foldPending \/ pending)
    <3>1. t.seats[s] \in SeatState /\ (t.seats[s].foldPending \/ pending) \in BOOLEAN
      BY <1>2
    <3>. QED BY <1>4, <3>1 DEF SeatState
  <2>2. /\ m \in TableState /\ m.seats = [t.seats EXCEPT ![s] = seat] /\ m.hand = t.hand
        /\ m.startStack = t.startStack /\ m.handNum = t.handNum
        /\ m.stopped = t.stopped /\ m.astray = t.astray /\ m.turnArmed = t.turnArmed
        /\ m.idleArmed = t.idleArmed /\ m.subs = t.subs
        /\ m.autoStart = t.autoStart /\ m.hostStarted = t.hostStarted
    BY <1>2, <1>4, <2>1 DEF TableState
  <2>3. \A i \in Seats : m.seats[i].player = t.seats[i].player
    BY <1>2, <2>1, <2>2
  <2>4. IdleOK(m)
    BY <1>2, <2>2, <2>3 DEF IdleOK, Occupied
  <2>5. Marked(t, m)
    BY ONLY <1>2, <1>4, <2>1, <2>2, <2>4, s \in Seats, SeatMark
  <2>. QED BY <1>2, <2>1, <2>2, <2>5
<1>. DEFINE quiet == [t.seats[s] EXCEPT !.sittingOut = TRUE, !.foldPending = @ \/ FALSE]
            loud  == [t.seats[s] EXCEPT !.sittingOut = TRUE, !.foldPending = @ \/ TRUE]
            q     == [t EXCEPT !.seats = [t.seats EXCEPT ![s] = quiet]]
            l     == [t EXCEPT !.seats = [t.seats EXCEPT ![s] = loud]]
<1>5. out = q
  <2>1. t.seats[s] \in SeatState /\ t.seats[s].foldPending \in BOOLEAN
    BY <1>2 DEF SeatState
  <2>2. quiet = [t.seats[s] EXCEPT !.sittingOut = TRUE]
    BY <2>1 DEF SeatState
  <2>. QED BY <1>2, <2>2 DEF TableState
<1>6. [out EXCEPT !.seats[s].foldPending = TRUE] = l
  <2>1. t.seats[s] \in SeatState
    BY <1>2
  <2>2. loud = [t.seats[s] EXCEPT !.sittingOut = TRUE, !.foldPending = TRUE]
    BY <2>1 DEF SeatState
  <2>. QED BY <1>2, <2>2 DEF TableState, SeatState
<1>7. /\ Marked(t, q) /\ q.turnArmed = t.turnArmed /\ q.hand = t.hand
      /\ \A i \in Seats : t.seats[i].foldPending => q.seats[i].foldPending
      /\ \A i \in Seats : q.seats[i].foldPending => t.seats[i].foldPending
  <2>1. quiet = [t.seats[s] EXCEPT !.sittingOut = TRUE, !.foldPending = @ \/ FALSE]
    OBVIOUS
  <2>2. q = [t EXCEPT !.seats = [t.seats EXCEPT ![s] = quiet]]
    OBVIOUS
  <2>. HIDE DEF quiet, q
  <2>. QED BY ONLY <1>4, <2>1, <2>2, FALSE \in BOOLEAN
<1>8. ~MayAct(t.hand, s) => Marked(t, l) /\ l.turnArmed = t.turnArmed
  <2>1. loud = [t.seats[s] EXCEPT !.sittingOut = TRUE, !.foldPending = @ \/ TRUE]
    OBVIOUS
  <2>2. l = [t EXCEPT !.seats = [t.seats EXCEPT ![s] = loud]]
    OBVIOUS
  <2>. HIDE DEF loud, l
  <2>. QED BY ONLY <1>4, <2>1, <2>2, TRUE \in BOOLEAN
<1>. HIDE DEF out, q, l
<1>9. CASE t' = q
  BY <1>1, <1>2, <1>7, <1>9, MarkedOK, HandledInv
<1>10. CASE t' = l /\ t.hand.toAct # s
  <2>1. ~MayAct(t.hand, s)
    BY <1>10 DEF MayAct
  <2>. QED BY <1>1, <1>2, <1>8, <1>10, <2>1, MarkedOK, HandledInv
<1>11. CASE MayAct(t.hand, s) /\ t' = Apply(q, FoldBy(t.hand, s), best)
  <2>1. Running(t)
    BY <1>11, NoHandOK DEF MayAct, Running
  <2>2. Handled(t, q)
    BY <1>2, <1>7, MarkedOK
  <2>3. PlayOK(q)
    BY <1>7, <2>1, <2>2, LiveHand DEF Handled, Running
  <2>4. Handled(q, t')
    BY <1>7, <1>11, <2>3, FoldHandled
  <2>5. Handled(t, t')
    BY <1>2, <1>7, <2>4, MarkedThen
  <2>. QED BY <1>1, <2>5, HandledInv
<1>. QED BY <1>3, <1>5, <1>6, <1>9, <1>10, <1>11

\* handleSitDown: the buy-in moves from the account to the seat.
LEMMA SitDownInv ==
  ASSUME TableInv, NEW p \in Players, NEW s \in Seats, NEW buyIn \in 1 .. MaxBuyIn,
         SitDown(p, s, buyIn)
  PROVE  TableInv' /\ Kept(t, t')
<1>. DEFINE seat == [EmptySeat EXCEPT !.player = p, !.stack = buyIn]
            j    == [t EXCEPT !.seats[s] = seat, !.subs = @ \cup {p},
                              !.host = IF @ = NoPlayer THEN p ELSE @]
            m    == RefreshIdle(j)
<1>1. /\ ~t.stopped /\ t.seats[s].player = NoPlayer /\ ledger[p] >= buyIn
      /\ ledger' = [ledger EXCEPT ![p] = @ - buyIn]
      /\ t' = StartHandIfReady(m) /\ reused' = (reused \/ WasDealt(t, s))
  BY DEF SitDown
<1>2. /\ TableOK(t) /\ ~Pending(t) /\ t \in TableState /\ ledger \in [Players -> Nat]
      /\ t.seats \in [Seats -> SeatState] /\ t.subs \in SUBSET Players
      /\ t.host \in Players \cup {NoPlayer}
  BY <1>1, TableNow
<1>3. /\ seat \in SeatState /\ seat.player = p /\ p # NoPlayer /\ seat.stack = buyIn
      /\ seat.brokeAtHand = 0 /\ ~seat.foldPending /\ buyIn \in Nat /\ buyIn > 0
  <2>1. buyIn \in Nat /\ buyIn > 0 /\ p # NoPlayer
    BY TableAssumption
  <2>2. /\ EmptySeat \in SeatState /\ EmptySeat.brokeAtHand = 0
        /\ EmptySeat.foldPending = FALSE
    BY DEF EmptySeat, SeatState
  <2>. QED BY <2>1, <2>2 DEF SeatState
<1>. HIDE DEF seat
<1>4. /\ j \in TableState /\ j.seats = [t.seats EXCEPT ![s] = seat] /\ j.hand = t.hand
      /\ j.startStack = t.startStack /\ j.handNum = t.handNum
      /\ j.stopped = t.stopped /\ j.astray = t.astray /\ j.turnArmed = t.turnArmed
  <2>1. /\ [t.seats EXCEPT ![s] = seat] \in [Seats -> SeatState]
        /\ t.subs \cup {p} \in SUBSET Players
        /\ (IF t.host = NoPlayer THEN p ELSE t.host) \in Players \cup {NoPlayer}
    BY <1>2, <1>3
  <2>. QED BY <1>2, <2>1 DEF TableState
<1>. HIDE DEF j
<1>5. /\ m \in TableState /\ m.seats = [t.seats EXCEPT ![s] = seat] /\ m.hand = t.hand
      /\ m.startStack = t.startStack /\ m.handNum = t.handNum
      /\ m.stopped = t.stopped /\ m.astray = t.astray /\ m.turnArmed = t.turnArmed
      /\ IdleOK(m)
  BY <1>4, RefreshOK
<1>. HIDE DEF m
<1>6. /\ ReadyOK(m) /\ ~Pending(m)
      /\ ~WasDealt(t, s) =>
           /\ SnapOK(t) => SnapOK(m)
           /\ Held(m) = Held(t) + (seat.stack - Own(t)[s])
  BY <1>2, <1>3, <1>5, NewStackOK
<1>7. Own(t)[s] = 0
  BY <1>1 DEF Own, Occupied
<1>8. /\ TableOK(t') /\ ~Pending(t') /\ Kept(t, t')
      /\ Held(t') = Held(m) /\ (SnapOK(m) => SnapOK(t'))
  BY <1>1, <1>2, <1>5, <1>6, DealtOK
<1>9. t' \in TableState /\ Between(t')
  BY <1>8, ReadyTable DEF Between, TableOK, PlayOK, RestOK
<1>10. ledger' \in [Players -> Nat] /\ SumOver(ledger', Players) = SumOver(ledger, Players) + (0 - buyIn)
  <2>1. /\ ledger' \in [Players -> Nat] /\ ledger'[p] = ledger[p] + (0 - buyIn)
        /\ \A q \in Players \ {p} : ledger'[q] = ledger[q]
    BY <1>1, <1>2, <1>3
  <2>2. 0 - buyIn \in Int
    BY <1>3
  <2>. QED BY <1>2, <2>1, <2>2, LedgerOK
<1>11. SumOver(ledger, Players) \in Int /\ Held(t) \in Int
  <2>1. IsFiniteSet(Players) /\ \A q \in Players : ledger[q] \in Int
    BY <1>2, TableAssumption
  <2>2. t.hand.pot \in Nat /\ t.astray \in Int /\ SumOver(Own(t), Seats) \in Nat
    BY <1>2, OwnType DEF TableState, HandState
  <2>. QED BY <2>1, <2>2, SumInt DEF Held
<1>12. ~WasDealt(t, s) => SumOver(ledger', Players) + Held(t') = SumOver(ledger, Players) + Held(t)
  <2>. HIDE DEF Held, SnapOK, Own
  <2>. QED BY <1>3, <1>6, <1>7, <1>8, <1>10, <1>11
<1>13. reused' \in BOOLEAN /\ (~reused' => ~reused /\ ~WasDealt(t, s))
  BY <1>1 DEF TableInv, TypeOK
<1>14. TableInv'
  BY <1>6, <1>8, <1>9, <1>10, <1>12, <1>13, StepInv
<1>. QED BY <1>8, <1>14

\* handleRebuy: only between hands.
LEMMA RebuyInv ==
  ASSUME TableInv, NEW p \in Players, NEW s \in Seats, NEW amount \in 1 .. MaxBuyIn,
         Rebuy(p, s, amount)
  PROVE  TableInv' /\ Kept(t, t')
<1>. DEFINE seat == [t.seats[s] EXCEPT !.stack = @ + amount, !.brokeAtHand = 0, !.sittingOut = FALSE]
            m    == [t EXCEPT !.seats[s].stack       = @ + amount,
                              !.seats[s].brokeAtHand = 0,
                              !.seats[s].sittingOut  = FALSE]
<1>1. /\ ~t.stopped /\ s \in SeatsOf(t, p) /\ ~Running(t) /\ ledger[p] >= amount
      /\ ledger' = [ledger EXCEPT ![p] = @ - amount]
      /\ t' = StartHandIfReady(m) /\ UNCHANGED reused
  BY DEF Rebuy
<1>2. /\ TableOK(t) /\ ~Pending(t) /\ t \in TableState /\ ledger \in [Players -> Nat]
      /\ t.seats \in [Seats -> SeatState] /\ IdleOK(t) /\ amount \in Nat /\ amount > 0
      /\ t.seats[s] \in SeatState /\ t.seats[s].stack \in Nat
  BY <1>1, TableNow DEF SeatState
<1>3. /\ seat \in SeatState /\ seat.player = t.seats[s].player
      /\ seat.stack = t.seats[s].stack + amount /\ seat.brokeAtHand = 0
      /\ seat.foldPending = t.seats[s].foldPending
  <2>1. t.seats[s].stack + amount \in Nat
    BY <1>2
  <2>. QED BY <1>2, <2>1 DEF SeatState
<1>4. m = [t EXCEPT !.seats = [t.seats EXCEPT ![s] = seat]]
  BY ZenonT(60), <1>2 DEF TableState, SeatState
<1>. HIDE DEF m, seat
<1>5. /\ m \in TableState /\ m.seats = [t.seats EXCEPT ![s] = seat] /\ m.hand = t.hand
      /\ m.startStack = t.startStack /\ m.handNum = t.handNum
      /\ m.stopped = t.stopped /\ m.astray = t.astray /\ m.turnArmed = t.turnArmed
      /\ m.idleArmed = t.idleArmed /\ m.subs = t.subs
  BY <1>2, <1>3, <1>4 DEF TableState
<1>6. IdleOK(m)
  <2>1. \A i \in Seats : m.seats[i].player = t.seats[i].player
    BY <1>2, <1>3, <1>5
  <2>. QED BY <1>2, <1>5, <2>1 DEF IdleOK, Occupied
<1>7. seat.player # NoPlayer /\ seat.stack > 0
  BY <1>1, <1>2, <1>3, TableAssumption DEF SeatsOf
<1>8. ~WasDealt(t, s)
  BY <1>1, NoHandOK DEF Running, WasDealt
<1>9. /\ ReadyOK(m) /\ ~Pending(m) /\ (SnapOK(t) => SnapOK(m))
      /\ Held(m) = Held(t) + (seat.stack - Own(t)[s])
  BY <1>2, <1>3, <1>5, <1>6, <1>7, <1>8, NewStackOK
<1>10. Own(t)[s] = t.seats[s].stack
  BY <1>1, <1>8, TableAssumption DEF Own, Occupied, StackOf, SeatsOf
<1>11. /\ TableOK(t') /\ ~Pending(t') /\ Kept(t, t')
       /\ Held(t') = Held(m) /\ (SnapOK(m) => SnapOK(t'))
  BY <1>1, <1>2, <1>5, <1>9, DealtOK
<1>12. t' \in TableState /\ Between(t')
  BY <1>11, ReadyTable DEF Between, TableOK, PlayOK, RestOK
<1>13. ledger' \in [Players -> Nat] /\ SumOver(ledger', Players) = SumOver(ledger, Players) + (0 - amount)
  <2>1. /\ ledger' \in [Players -> Nat] /\ ledger'[p] = ledger[p] + (0 - amount)
        /\ \A q \in Players \ {p} : ledger'[q] = ledger[q]
    BY <1>1, <1>2
  <2>2. 0 - amount \in Int
    BY <1>2
  <2>. QED BY <1>2, <2>1, <2>2, LedgerOK
<1>14. SumOver(ledger, Players) \in Int /\ Held(t) \in Int
  <2>1. IsFiniteSet(Players) /\ \A q \in Players : ledger[q] \in Int
    BY <1>2, TableAssumption
  <2>2. t.hand.pot \in Nat /\ t.astray \in Int /\ SumOver(Own(t), Seats) \in Nat
    BY <1>2, OwnType DEF TableState, HandState
  <2>. QED BY <2>1, <2>2, SumInt DEF Held
<1>15. SumOver(ledger', Players) + Held(t') = SumOver(ledger, Players) + Held(t)
  <2>. HIDE DEF Held, SnapOK, Own
  <2>. QED BY <1>2, <1>3, <1>9, <1>10, <1>11, <1>13, <1>14
<1>16. reused' \in BOOLEAN /\ (~reused' => ~reused)
  BY <1>1 DEF TableInv, TypeOK
<1>17. TableInv'
  BY <1>9, <1>11, <1>12, <1>13, <1>15, <1>16, StepInv
<1>. QED BY <1>11, <1>17

\* voidHand: every seat still taken has its stack of before the hand again, and what the
\* others put in is astray.
LEMMA VoidOK ==
  ASSUME NEW u, TableOK(u)
  PROVE  LET v == VoidHand(u)
         IN  /\ v \in TableState /\ v.hand = NoHand /\ IdleOK(v) /\ v.handNum = u.handNum
             /\ Held(v) = Held(u)
<1>. DEFINE seats == [s \in Seats |-> IF WasDealt(u, s) /\ u.seats[s].player # NoPlayer
                                        THEN [u.seats[s] EXCEPT !.stack = u.startStack[s]]
                                        ELSE u.seats[s]]
            lost  == SumOver(u.hand.totalBet, Seats \ Occupied(u))
            v     == VoidHand(u)
<1>1. u \in TableState /\ IdleOK(u)
  BY DEF TableOK, PlayOK, RestOK
<1>2. CASE ~Running(u)
  BY <1>1, <1>2 DEF VoidHand, Running
<1>3. CASE Running(u)
  <2>1. /\ u.hand \in HandState /\ HandOK(u.hand, u.startStack) /\ u.seats \in [Seats -> SeatState]
        /\ u.startStack \in [Seats -> Nat] /\ u.astray \in Int
        /\ u.hand.totalBet \in [Seats -> Nat] /\ u.hand.stack \in [Seats -> Nat]
        /\ Occupied(u) \in SUBSET Seats /\ IsFiniteSet(Seats)
        /\ u.hand.pot = SumOver(u.hand.totalBet, Seats)
    BY <1>1, <1>3, LiveHand, SeatSets DEF PlayOK, HandOK, PotOK, TableState, HandState, Occupied
  <2>2. v = [u EXCEPT !.seats = seats, !.astray = @ + lost, !.hand = NoHand, !.startStack = NoChips,
                      !.dealtTo = [s \in Seats |-> NoPlayer]]
    BY <1>1, <1>3 DEF VoidHand, ClearHand, TableState
  <2>3. /\ seats \in [Seats -> SeatState]
        /\ \A s \in Seats : /\ seats[s].player = u.seats[s].player
                            /\ seats[s].stack = IF WasDealt(u, s) /\ u.seats[s].player # NoPlayer
                                                THEN u.startStack[s] ELSE u.seats[s].stack
    BY <2>1 DEF SeatState
  <2>. DEFINE bets == u.hand.totalBet
              part == SumOver(bets, Occupied(u))
  <2>4. part \in Nat /\ lost \in Nat /\ u.hand.pot = part + lost
    <3>1. /\ \A s \in Seats : bets[s] \in Nat /\ bets[s] \in Int
          /\ Seats \ Occupied(u) \in SUBSET Seats
      BY <2>1
    <3>2. IsFiniteSet(Occupied(u)) /\ IsFiniteSet(Seats \ Occupied(u))
      BY <2>1, <3>1, SeatSets
    <3>3. SumOver(bets, Seats) = SumOver(bets, Occupied(u)) + SumOver(bets, Seats \ Occupied(u))
      <4>. HIDE DEF bets
      <4>. QED BY <2>1, <3>1, SumSplit
    <3>4. part \in Nat /\ lost \in Nat
      BY <2>1, <3>1, <3>2, SumNat
    <3>. QED BY <2>1, <3>3, <3>4
  <2>. HIDE DEF seats, lost
  <2>5. /\ v \in TableState /\ v.hand = NoHand /\ v.seats = seats /\ v.astray = u.astray + lost
        /\ v.handNum = u.handNum /\ v.subs = u.subs /\ v.idleArmed = u.idleArmed
    <3>1. /\ NoHand \in HandState /\ NoChips \in [Seats -> Nat] /\ u.astray + lost \in Int
          /\ [s \in Seats |-> NoPlayer] \in [Seats -> Players \cup {NoPlayer}]
      BY <2>1, <2>4, NoHandOK DEF NoChips
    <3>. QED BY <1>1, <2>2, <2>3, <3>1 DEF TableState
  <2>. HIDE DEF v, part, bets
  <2>6. Occupied(v) = Occupied(u) /\ IdleOK(v)
    BY <1>1, <2>3, <2>5 DEF Occupied, IdleOK
  <2>7. \A s \in Seats : Own(v)[s] = Own(u)[s] + (IF s \in Occupied(u) THEN bets[s] ELSE 0)
    <3>1. TAKE s \in Seats
    <3>2. /\ Own(v)[s] = IF s \in Occupied(u) THEN seats[s].stack ELSE 0
          /\ Own(u)[s] = IF s \in Occupied(u)
                         THEN IF WasDealt(u, s) THEN u.hand.stack[s] ELSE u.seats[s].stack ELSE 0
      BY <2>5, <2>6, NoHandOK DEF Own, StackOf, WasDealt
    <3>3. /\ u.hand.stack[s] + bets[s] = u.startStack[s]
          /\ ~WasDealt(u, s) => bets[s] = 0
          /\ u.seats[s].stack \in Nat
      BY <2>1, HandRuns DEF HandOK, ChipsOK, WasDealt, bets, SeatState
    <3>4. s \in Occupied(u) <=> u.seats[s].player # NoPlayer
      BY DEF Occupied
    <3>. HIDE DEF Own
    <3>. QED BY <2>3, <3>2, <3>3, <3>4
  <2>8. SumOver(Own(v), Seats) = SumOver(Own(u), Seats) + part
    <3>. DEFINE a == Own(u)
                b == Own(v)
                g == [s \in Seats |-> IF s \in Occupied(u) THEN bets[s] ELSE 0]
    <3>1. \A s \in Seats : bets[s] \in Int /\ g[s] = (IF s \in Occupied(u) THEN bets[s] ELSE 0) /\ g[s] \in Int
      BY <2>1 DEF bets
    <3>2. \A s \in Seats : a[s] \in Int /\ b[s] = a[s] + g[s]
      BY <1>1, <2>7, <3>1, OwnType
    <3>. HIDE DEF a, b, g
    <3>3. SumOver(b, Seats) = SumOver(a, Seats) + SumOver(g, Seats)
      BY <2>1, <3>1, <3>2, SumPlus
    <3>4. SumOver(bets, Occupied(u)) = SumOver(g, Seats)
      BY <2>1, <3>1, SumPart
    <3>. QED BY <3>3, <3>4 DEF a, b, part
  <2>9. Held(v) = Held(u)
    <3>1. /\ Held(u) = u.hand.pot + SumOver(Own(u), Seats) + u.astray
          /\ Held(v) = 0 + SumOver(Own(v), Seats) + (u.astray + lost)
      BY <2>5, NoHandOK DEF Held
    <3>2. SumOver(Own(u), Seats) \in Nat
      BY <1>1, OwnType
    <3>. QED BY <2>1, <2>4, <2>8, <3>1, <3>2
  <2>10. v \in TableState /\ v.hand = NoHand /\ IdleOK(v) /\ v.handNum = u.handNum /\ Held(v) = Held(u)
    BY <2>5, <2>6, <2>9
  <2>. QED BY <2>10 DEF v
<1>. QED BY <1>2, <1>3

\* cashOutAll pays the stacks of the taken seats, each to its player.
LEMMA CashOut ==
  ASSUME NEW u \in TableState, u.hand = NoHand, NEW l \in [Players -> Nat],
         NEW k, k = [p \in Players |-> l[p] + SumOver([s \in Seats |-> u.seats[s].stack], SeatsOf(u, p))]
  PROVE  k \in [Players -> Nat] /\ SumOver(k, Players) = SumOver(l, Players) + SumOver(Own(u), Seats)
<1>. DEFINE st   == [s \in Seats |-> u.seats[s].stack]
            F    == [s \in Seats |-> [p \in Players |-> IF u.seats[s].player = p THEN u.seats[s].stack ELSE 0]]
            col(p) == [s \in Seats |-> F[s][p]]
            cols == [p \in Players |-> SumOver(col(p), Seats)]
            rows == [s \in Seats |-> SumOver(F[s], Players)]
<1>1. /\ IsFiniteSet(Players) /\ IsFiniteSet(Seats)
      /\ \A s \in Seats : u.seats[s].stack \in Nat /\ u.seats[s].player \in Players \cup {NoPlayer}
  BY TableAssumption, SeatSets DEF TableState, SeatState
<1>2. /\ F \in [Seats -> [Players -> Int]]
      /\ \A s \in Seats, p \in Players : F[s][p] = IF u.seats[s].player = p THEN u.seats[s].stack ELSE 0
  BY <1>1
<1>3. ASSUME NEW p \in Players
      PROVE  cols[p] = SumOver(st, SeatsOf(u, p)) /\ cols[p] \in Nat
  <2>. DEFINE c == col(p)
  <2>1. SeatsOf(u, p) \in SUBSET Seats
    BY DEF SeatsOf
  <2>2. \A s \in Seats : /\ st[s] \in Int /\ c[s] \in Nat
                         /\ c[s] = IF s \in SeatsOf(u, p) THEN st[s] ELSE 0
    BY <1>1 DEF SeatsOf
  <2>3. cols[p] = SumOver(c, Seats)
    OBVIOUS
  <2>. HIDE DEF st, c, cols
  <2>4. SumOver(st, SeatsOf(u, p)) = SumOver(c, Seats)
    BY <1>1, <2>1, <2>2, SumPart
  <2>5. SumOver(c, Seats) \in Nat
    BY <1>1, <2>2, SumNat
  <2>. QED BY <2>3, <2>4, <2>5
<1>4. ASSUME NEW s \in Seats
      PROVE  rows[s] = Own(u)[s] /\ Own(u)[s] \in Nat
  <2>. DEFINE f == F[s]
  <2>1. \A p \in Players : f[p] \in Int /\ f[p] = IF u.seats[s].player = p THEN u.seats[s].stack ELSE 0
    BY <1>1, <1>2
  <2>2. rows[s] = SumOver(f, Players)
    OBVIOUS
  <2>3. Own(u)[s] = IF u.seats[s].player # NoPlayer THEN u.seats[s].stack ELSE 0
    BY NoHandOK DEF Own, StackOf, WasDealt, Occupied
  <2>. HIDE DEF f, rows
  <2>4. CASE u.seats[s].player = NoPlayer
    <3>1. \A p \in Players : f[p] = 0
      BY <2>1, <2>4, TableAssumption
    <3>2. SumOver(f, Players) = 0
      BY <1>1, <3>1, SumZero
    <3>. QED BY <2>2, <2>3, <2>4, <3>2
  <2>5. CASE u.seats[s].player # NoPlayer
    <3>. DEFINE q == u.seats[s].player
    <3>1. q \in Players
      BY <1>1, <2>5
    <3>2. f[q] = u.seats[s].stack /\ \A p \in Players \ {q} : f[p] = 0
      BY <2>1, <3>1
    <3>. HIDE DEF q
    <3>3. SumOver(f, Players) = f[q] + SumOver(f, Players \ {q})
      BY <1>1, <2>1, <3>1, SumTake
    <3>4. IsFiniteSet(Players \ {q})
      BY <1>1, FS_Subset
    <3>5. SumOver(f, Players \ {q}) = 0
      BY <3>2, <3>4, SumZero
    <3>. QED BY <1>1, <2>2, <2>3, <2>5, <3>2, <3>3, <3>5
  <2>. QED BY <2>4, <2>5
<1>5. SumOver(rows, Seats) = SumOver(cols, Players)
  <2>. HIDE DEF F
  <2>. QED BY <1>1, <1>2, SumSwap
<1>6. SumOver(rows, Seats) = SumOver(Own(u), Seats)
  <2>. DEFINE a == Own(u)
  <2>1. \A s \in Seats : rows[s] = a[s]
    BY <1>4
  <2>. HIDE DEF rows, a
  <2>2. SumOver(rows, Seats) = SumOver(a, Seats)
    BY <1>1, <2>1, SumSame
  <2>. QED BY <2>2 DEF a
<1>7. \A p \in Players : k[p] = l[p] + cols[p] /\ k[p] \in Nat
  <2>1. \A p \in Players : k[p] = l[p] + SumOver(st, SeatsOf(u, p))
    OBVIOUS
  <2>. HIDE DEF st, cols
  <2>. QED BY <1>3, <2>1
<1>8. k \in [Players -> Nat]
  BY <1>7
<1>9. SumOver(k, Players) = SumOver(l, Players) + SumOver(cols, Players)
  <2>1. \A p \in Players : l[p] \in Int /\ cols[p] \in Int /\ k[p] = l[p] + cols[p]
    <3>1. \A p \in Players : l[p] \in Int
      OBVIOUS
    <3>2. \A p \in Players : cols[p] \in Nat
      BY <1>3
    <3>. HIDE DEF cols
    <3>3. \A p \in Players : cols[p] \in Int
      BY <3>2
    <3>. QED BY ONLY <3>1, <3>3, <1>7
  <2>. HIDE DEF cols
  <2>. QED BY ONLY <1>1, <2>1, SumPlus
<1>. QED BY <1>5, <1>6, <1>8, <1>9

\* handleDrain: the hand is voided and every seat cashed out.
LEMMA DrainInv ==
  ASSUME TableInv, Drain
  PROVE  TableInv' /\ Kept(t, t')
<1>. DEFINE void  == VoidHand(t)
            seats == [s \in Seats |-> [void.seats[s] EXCEPT !.stack = 0]]
<1>1. /\ ~t.stopped /\ UNCHANGED reused
      /\ ledger' = [p \in Players |-> ledger[p] +
                      SumOver([s \in Seats |-> void.seats[s].stack], SeatsOf(void, p))]
      /\ t' = [void EXCEPT !.stopped = TRUE, !.seats = seats]
  BY DEF Drain
<1>2. TableOK(t) /\ t \in TableState /\ ledger \in [Players -> Nat]
  BY <1>1, TableNow
<1>3. /\ void \in TableState /\ void.hand = NoHand /\ IdleOK(void) /\ void.handNum = t.handNum
      /\ Held(void) = Held(t)
  BY <1>2, VoidOK
<1>. HIDE DEF void
<1>4. ledger' \in [Players -> Nat] /\ SumOver(ledger', Players) = SumOver(ledger, Players) + SumOver(Own(void), Seats)
  BY <1>1, <1>2, <1>3, CashOut
<1>5. /\ seats \in [Seats -> SeatState]
      /\ \A s \in Seats : seats[s].player = void.seats[s].player /\ seats[s].stack = 0
  BY <1>3 DEF TableState, SeatState
<1>. HIDE DEF seats
<1>6. /\ t' \in TableState /\ t'.hand = NoHand /\ t'.seats = seats /\ t'.stopped
      /\ t'.subs = void.subs /\ t'.idleArmed = void.idleArmed /\ t'.handNum = t.handNum
      /\ t'.astray = void.astray
  BY <1>1, <1>3, <1>5 DEF TableState
<1>7. Occupied(t') = Occupied(void) /\ ~Running(t')
  BY <1>5, <1>6 DEF Occupied, Running
<1>8. IdleOK(t') /\ SnapOK(t')
  BY <1>3, <1>6, <1>7, NoHandOK DEF IdleOK, SnapOK, WasDealt, Occupied
<1>9. Between(t')
  BY <1>6, <1>7, <1>8 DEF Between, StoppedOK
<1>10. SumOver(Own(t'), Seats) = 0
  <2>. DEFINE a == Own(t')
  <2>1. \A s \in Seats : a[s] = 0
    BY <1>5, <1>6, NoHandOK DEF Own, StackOf, WasDealt
  <2>2. IsFiniteSet(Seats)
    BY SeatSets
  <2>. HIDE DEF a
  <2>3. SumOver(a, Seats) = 0
    BY <2>1, <2>2, SumZero
  <2>. QED BY <2>3 DEF a
<1>11. SumOver(ledger', Players) + Held(t') = SumOver(ledger, Players) + Held(t)
  <2>1. Held(t') = 0 + 0 + void.astray
    BY <1>6, <1>10, NoHandOK DEF Held
  <2>2. Held(void) = 0 + SumOver(Own(void), Seats) + void.astray
    BY <1>3, NoHandOK DEF Held
  <2>3. void.astray \in Int /\ SumOver(Own(void), Seats) \in Nat
    BY <1>3, OwnType DEF TableState
  <2>4. SumOver(ledger, Players) \in Int
    <3>1. IsFiniteSet(Players) /\ \A q \in Players : ledger[q] \in Int
      BY <1>2, TableAssumption
    <3>. QED BY <3>1, SumInt
  <2>. HIDE DEF Held, Own
  <2>. QED BY <1>3, <1>4, <2>1, <2>2, <2>3, <2>4
<1>12. Kept(t, t')
  <2>1. t.handNum \in Nat
    BY <1>2 DEF TableState
  <2>. QED BY <1>6, <1>7, <2>1 DEF Kept
<1>13. reused' \in BOOLEAN /\ (~reused' => ~reused)
  BY <1>1 DEF TableInv, TypeOK
<1>14. TableInv'
  BY <1>4, <1>6, <1>8, <1>9, <1>11, <1>13, StepInv
<1>. QED BY <1>12, <1>14

\* A new table.
LEMMA InitInv == Init => TableInv
<1>. SUFFICES ASSUME Init PROVE TableInv
  OBVIOUS
<1>1. PICK autoStart \in BOOLEAN, host \in Players \cup {NoPlayer} : t = NewTable(autoStart, host)
  BY DEF Init
<1>2. ledger = [p \in Players |-> StartBalance] /\ reused = FALSE
  BY DEF Init
<1>3. /\ EmptySeat \in SeatState /\ EmptySeat.player = NoPlayer
      /\ [s \in Seats |-> EmptySeat] \in [Seats -> SeatState]
      /\ NoHand \in HandState /\ NoChips \in [Seats -> Nat]
      /\ [s \in Seats |-> NoPlayer] \in [Seats -> Players \cup {NoPlayer}]
      /\ 0 \in Seats
  BY NoHandOK, NumSeatsAssumption DEF EmptySeat, SeatState, NoChips, Seats
<1>4. /\ t.seats = [s \in Seats |-> EmptySeat] /\ t.subs = {} /\ t.hand = NoHand
      /\ t.stopped = FALSE /\ t.turnArmed = FALSE /\ t.astray = 0
  BY <1>1 DEF NewTable
<1>5. t \in TableState
  BY <1>1, <1>3 DEF NewTable, TableState
<1>6. Occupied(t) = {} /\ ~Running(t)
  BY <1>3, <1>4 DEF Occupied, Running
<1>7. IdleOK(t) /\ MarksOK(t) /\ SnapOK(t)
  BY <1>4, <1>6 DEF IdleOK, MarksOK, SnapOK
<1>8. ~MayStart(t)
  <2>1. EligibleSeats(t) = {}
    BY <1>6 DEF EligibleSeats
  <2>. QED BY <2>1, FS_EmptySet DEF MayStart
<1>9. Between(t)
  BY <1>4, <1>5, <1>6, <1>7, <1>8 DEF Between, TableOK, RestOK, Pending
<1>10. /\ ledger \in [Players -> Nat]
       /\ SumOver(ledger, Players) = StartBalance * Cardinality(Players)
       /\ Cardinality(Players) \in Nat
  <2>1. /\ \A p \in Players : ledger[p] = StartBalance
        /\ ledger \in [Players -> Nat] /\ StartBalance \in Int
    BY <1>2, TableAssumption
  <2>2. IsFiniteSet(Players)
    BY TableAssumption
  <2>. QED BY <2>1, <2>2, SumConst, FS_CardinalityType
<1>11. Held(t) = 0
  <2>. DEFINE a == Own(t)
  <2>1. \A s \in Seats : a[s] = 0
    BY <1>6 DEF Own
  <2>2. IsFiniteSet(Seats)
    BY SeatSets
  <2>3. Held(t) = 0 + SumOver(a, Seats) + 0
    BY <1>4, NoHandOK DEF Held
  <2>. HIDE DEF a
  <2>. QED BY <2>1, <2>2, <2>3, SumZero
<1>12. SumOver(ledger, Players) + Held(t) = Cardinality(Players) * StartBalance
  <2>1. StartBalance \in Nat
    BY TableAssumption
  <2>. QED BY <1>10, <1>11, <2>1
<1>. QED BY <1>2, <1>5, <1>7, <1>9, <1>10, <1>12 DEF TableInv, TypeOK

\* Every handler keeps the invariant, and lets no seat that asked to sit out put chips in.
LEMMA NextInv ==
  ASSUME TableInv, [Next]_vars
  PROVE  TableInv' /\ Kept(t, t')
<1>1. CASE UNCHANGED vars
  <2>1. t' = t /\ ledger' = ledger /\ reused' = reused
    BY <1>1 DEF vars
  <2>2. TableInv'
    BY <2>1 DEF TableInv, TypeOK
  <2>3. t.handNum \in Nat
    BY DEF TableInv, TypeOK, TableState
  <2>. QED BY <2>1, <2>2, <2>3 DEF Kept
<1>2. ASSUME NEW p \in Players, Join(p) \/ LeaveUnseated(p) \/ StartHand(p) \/ Disconnect(p)
      PROVE  TableInv' /\ Kept(t, t')
  BY <1>2, JoinInv, LeaveUnseatedInv, StartHandInv, DisconnectInv
<1>3. ASSUME NEW p \in Players, NEW s \in Seats, Leave(p, s) \/ SitOut(p, s) \/ SitIn(p, s)
      PROVE  TableInv' /\ Kept(t, t')
  BY <1>3, LeaveInv, SitOutInv, SitInInv
<1>4. ASSUME NEW p \in Players, NEW s \in Seats,
             \/ Fold(p, s) \/ Check(p, s) \/ Call(p, s)
             \/ \E to \in 1 .. Cardinality(Players) * StartBalance : Raise(p, s, to)
      PROVE  TableInv' /\ Kept(t, t')
  BY <1>4, BetInv
<1>5. ASSUME NEW p \in Players, NEW s \in Seats, NEW n \in 1 .. MaxBuyIn,
             SitDown(p, s, n) \/ Rebuy(p, s, n)
      PROVE  TableInv' /\ Kept(t, t')
  BY <1>5, SitDownInv, RebuyInv
<1>6. ASSUME NEW turnDue \in BOOLEAN, NEW idleDue \in BOOLEAN, NEW graceDue \in SUBSET Seats,
             OnTimer(turnDue, graceDue, idleDue)
      PROVE  TableInv' /\ Kept(t, t')
  BY <1>6, TimerInv
<1>7. CASE Drain
  BY <1>7, DrainInv
<1>. QED BY <1>1, <1>2, <1>3, <1>4, <1>5, <1>6, <1>7 DEF Next

-----------------------------------------------------------------------------
(* The theorems *)

\* TableInv is inductive: every table the goroutine can reach is one between two handlers or
\* one whose loop has ended, with all of the chips accounted for.
THEOREM TableInvariant == Spec => []TableInv
<1>1. Init => TableInv
  BY InitInv
<1>2. TableInv /\ [Next]_vars => TableInv'
  BY NextInv
<1>. QED BY <1>1, <1>2, PTL DEF Spec

\* The chips of the table are its pot and what its players own.
LEMMA MoneyIs ==
  ASSUME TableInv
  PROVE  ChipsAccounted
<1>1. t \in TableState /\ ledger \in [Players -> Nat]
  BY DEF TableInv, TypeOK
<1>. DEFINE a == Own(t)
            c == [s \in Seats |-> StackOf(t, s)]
<1>2. SumOver(c, Occupied(t)) = SumOver(a, Seats)
  <2>1. \A s \in Seats : c[s] \in Int /\ a[s] = IF s \in Occupied(t) THEN c[s] ELSE 0
    BY <1>1 DEF Own, StackOf, TableState, SeatState, HandState
  <2>2. IsFiniteSet(Seats) /\ Occupied(t) \in SUBSET Seats
    BY SeatSets DEF Occupied
  <2>. HIDE DEF a, c
  <2>. QED BY <2>1, <2>2, SumPart
<1>3. /\ SumOver(ledger, Players) \in Int /\ t.hand.pot \in Nat /\ t.astray \in Int
      /\ SumOver(a, Seats) \in Nat
  <2>1. IsFiniteSet(Players) /\ \A q \in Players : ledger[q] \in Int
    BY <1>1, TableAssumption
  <2>. QED BY <1>1, <2>1, SumInt, OwnType DEF TableState, HandState
<1>4. Money = SumOver(ledger, Players) + t.hand.pot + SumOver(c, Occupied(t))
  BY DEF Money
<1>5. Held(t) = t.hand.pot + SumOver(a, Seats) + t.astray
  BY DEF Held
<1>. HIDE DEF a, c
<1>. QED BY <1>2, <1>3, <1>4, <1>5 DEF TableInv, ChipsAccounted

\* The hand of every table is live.
LEMMA LiveIs ==
  ASSUME TableInv, Running(t)
  PROVE  HandIsLive /\ HandOK(t.hand, t.startStack) /\ LiveOK(t)
<1>1. HandOK(t.hand, t.startStack) /\ LiveOK(t)
  BY LiveHand DEF TableInv, Between, StoppedOK, PlayOK
<1>2. t.hand.toAct \in OwesAction(t.hand) => MayAct(t.hand, t.hand.toAct)
  BY <1>1 DEF LiveOK, OwesAction, CanAct, MayAct
<1>. QED BY <1>1, <1>2 DEF HandIsLive, LiveOK, HandOK, ContestOK

\* Every state is well formed, and joining, leaving, betting, settling, voiding, timers and
\* rebuys make and lose no chip beyond those that are named astray: for any number of seats,
\* players and hands, and any stacks.
THEOREM ChipsAlwaysAccounted == Spec => []SeatsAndChips
<1>1. TableInv => SeatsAndChips
  BY MoneyIs DEF SeatsAndChips, TableInv
<1>. QED BY <1>1, TableInvariant, PTL

\* No handler leaves the table on a hand that is over or on a seat that cannot act, whichever
\* folds, sit-outs and timeouts came together, and the chips stay accounted for.
THEOREM HandsStayLive == Spec => []LiveAndAccounted
<1>1. TableInv => LiveAndAccounted
  BY MoneyIs, LiveIs DEF LiveAndAccounted, HandIsLive
<1>. QED BY <1>1, TableInvariant, PTL

\* What voidHand restores is what each seat was dealt with, in every state of the hand.
THEOREM SnapshotAlwaysExact == Spec => []SnapshotIsExact
<1>1. TableInv => SnapshotIsExact
  <2>. SUFFICES ASSUME TableInv, Running(t), NEW s \in Seats
                PROVE  t.startStack[s] = t.hand.stack[s] + t.hand.totalBet[s]
    BY DEF SnapshotIsExact
  <2>. QED BY LiveIs DEF HandOK, ChipsOK
<1>. QED BY <1>1, TableInvariant, PTL

\* The turn clock runs while a seat can act, and is never left over from a hand that is gone.
THEOREM TurnClockAlwaysRuns == Spec => []TurnClockRuns
<1>1. TableInv => TurnClockRuns
  <2>. SUFFICES ASSUME TableInv PROVE TurnClockRuns
    OBVIOUS
  <2>1. Running(t) /\ ~ShortButton(t) => t.turnArmed
    BY LiveIs DEF LiveOK
  <2>2. t.turnArmed /\ ~t.stopped => Running(t)
    BY HandRuns DEF TableInv, Between, TableOK, RestOK, PlayOK, Running
  <2>. QED BY <2>1, <2>2 DEF TurnClockRuns
<1>. QED BY <1>1, TableInvariant, PTL

\* Whatever handler makes the second seat ready also deals, and broke marks are of seats that
\* are broke.
THEOREM BetweenHandsClean == Spec => []BetweenHands
<1>1. TableInv => BetweenHands
  <2>. SUFFICES ASSUME TableInv PROVE BetweenHands
    OBVIOUS
  <2>1. ReadyTableDeals
    BY TableNow DEF ReadyTableDeals
  <2>2. BrokeIsMarked
    <3>1. ~t.stopped => MarksOK(t)
      BY TableNow DEF ReadyOK, PlayOK, RestOK
    <3>. QED BY <3>1 DEF BrokeIsMarked, MarksOK
  <2>. QED BY <2>1, <2>2 DEF BetweenHands
<1>. QED BY <1>1, TableInvariant, PTL

\* No table with a subscriber or a taken seat is ever about to close as idle.
THEOREM NeverIdleInUse == Spec => []NotIdleInUse
<1>1. TableInv => NotIdleInUse
  BY DEF TableInv, Between, StoppedOK, TableOK, PlayOK, RestOK, IdleOK, NotIdleInUse
<1>. QED BY <1>1, TableInvariant, PTL

\* A seat that asked to sit out puts nothing more into the hand, in whatever order the
\* requests, the turns and the timeouts of the others come.
THEOREM SitOutAlwaysHonoured == Spec => SitOutIsHonoured
<1>1. TableInv /\ [Next]_vars
        => [\A s \in Seats :
              t.seats[s].foldPending /\ t'.seats[s].foldPending /\ t'.handNum = t.handNum
                /\ Running(t') => t'.hand.totalBet[s] = t.hand.totalBet[s]]_vars
  BY NextInv DEF Kept
<1>. QED BY <1>1, TableInvariant, PTL DEF Spec, SitOutIsHonoured

=============================================================================
