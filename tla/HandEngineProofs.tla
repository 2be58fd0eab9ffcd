-------------------------- MODULE HandEngineProofs --------------------------
(***************************************************************************)
(* Proofs about one hand on the engine, for every number of seats, every   *)
(* choice of blinds and every stack.                                       *)
(***************************************************************************)
EXTENDS HandEngine, HandProofs

-----------------------------------------------------------------------------
(* The theorems *)

\* The inductive invariant.
HandInv ==
  /\ HandTypeOK
  /\ phase = "betting" =>
       /\ ChipsOK(hand, start)
       /\ BetsBounded(hand)
       /\ ShortButton \/ ClockOK(hand)

\* Before a deal there is no hand to constrain.
LEMMA HandInvInit == Init => HandInv
<1>1. 0 \in Seats /\ BigBlind \in Nat
  BY NumSeatsAssumption, BlindsAssumption DEF Seats
<1>2. Dealt(NoChips, {}, 0, BigBlind) \in HandState /\ NoChips \in [Seats -> Nat]
  BY <1>1 DEF Dealt, NoChips, HandState, PlayerStatus, Street
<1>. QED BY <1>2 DEF Init, HandInv, HandTypeOK

\* Every deal, action, timeout and settlement keeps the inductive invariant.
LEMMA HandInvNext == HandInv /\ [Next]_vars => HandInv'
<1>. SUFFICES ASSUME HandInv, [Next]_vars PROVE HandInv'
  OBVIOUS
<1>. USE DEF HandInv, HandTypeOK
<1>1. ASSUME NEW stacks \in [Seats -> 0 .. MaxStack], NEW b \in Seats, Deal(stacks, b)
      PROVE  HandInv'
  <2>. DEFINE dealt == {i \in Seats : stacks[i] > 0}
              n == NewHand(stacks, dealt, b, SmallBlind, BigBlind)
  <2>1. stacks \in [Seats -> Nat]
    BY BlindsAssumption
  <2>2. /\ phase' = "betting" /\ hand' = n /\ start' = stacks
        /\ Cardinality(dealt) >= 2 /\ b \in dealt
    BY <1>1 DEF Deal
  <2>3. /\ ChipsOK(n, stacks) /\ BetsBounded(n)
        /\ n.button = b /\ n.street = "Preflop"
        /\ \/ ClockOK(n)
           \/ Cardinality(dealt) = 2 /\ stacks[b] <= SmallBlind
    BY <2>1, <2>2, BlindsAssumption, NewHandOK
  <2>4. ShortButton' \/ ClockOK(n)
    BY <2>2, <2>3 DEF ShortButton
  <2>. QED BY <2>1, <2>2, <2>3, <2>4 DEF ChipsOK
<1>2. ASSUME phase = "betting", StepOK(hand', start),
             UNCHANGED <<phase, start, payout>>
      PROVE  HandInv'
  BY <1>2 DEF StepOK, ChipsOK
<1>3. ASSUME NEW i \in Seats, Fold(i) PROVE HandInv'
  BY <1>2, <1>3, FoldKeepsChips DEF Fold
<1>4. ASSUME NEW i \in Seats, Check(i) PROVE HandInv'
  BY <1>2, <1>4, CheckKeepsChips DEF Check, CanCheck
<1>5. ASSUME NEW i \in Seats, Call(i) PROVE HandInv'
  BY <1>2, <1>5, CallKeepsChips DEF Call
<1>6. ASSUME NEW i \in Seats, NEW to \in 1 .. MaxStack, Raise(i, to) PROVE HandInv'
  <2>1. to \in Nat
    BY BlindsAssumption
  <2>. QED BY <1>2, <1>6, <2>1, RaiseKeepsChips DEF Raise
<1>7. ASSUME NEW best \in [Seats -> 1 .. Strengths], Settle(best) PROVE HandInv'
  BY <1>7 DEF Settle
<1>8. CASE UNCHANGED vars
  BY <1>8 DEF vars, ShortButton
<1>. QED BY <1>1, <1>3, <1>4, <1>5, <1>6, <1>7, <1>8 DEF Next

\* The inductive invariant of the engine: types, accounts, bounded bets, equal
\* closed streets, and a turn that is owed unless the heads-up button is short.
THEOREM HandInvariant == Spec => []HandInv
BY HandInvInit, HandInvNext, PTL DEF Spec

\* The engine keeps its types through the betting.
THEOREM HandTypes == Spec => []HandTypeOK
BY HandInvariant, PTL DEF HandInv

\* No sequence of actions creates or loses a chip of any seat: stack plus
\* contribution is what the seat was dealt with.
THEOREM SeatAccountHolds == Spec => []SeatAccount
<1>1. HandInv => SeatAccount
  BY DEF HandInv, ChipsOK, SeatAccount
<1>. QED BY <1>1, HandInvariant, PTL

\* Unless the heads-up button is all-in with its blind, the seat on the clock can
\* act and owes an action, until the showdown.
THEOREM TurnIsOwedHolds == Spec => []TurnIsOwed
<1>1. HandInv => TurnIsOwed
  BY DEF HandInv, ClockOK, TurnIsOwed
<1>. QED BY <1>1, HandInvariant, PTL

\* On the closed streets the seats that can still act put in equal amounts, and
\* nobody more.
THEOREM PriorStreetsMatchedHolds == Spec => []PriorStreetsMatched
<1>1. HandInv => PriorStreetsMatched
  BY DEF HandInv, ChipsOK, Prior, PriorStreetsMatched
<1>. QED BY <1>1, HandInvariant, PTL

\* Advance leaves a street with more than one seat in the hand only when nobody
\* owes an action.
LEMMA AdvanceClosesStreet ==
  ASSUME NEW h, h \in HandState, Advance(h).street # h.street,
         Cardinality(NonFolded(Advance(h))) > 1
  PROVE  OwesAction(h) = {}
<1>1. CASE Cardinality(NonFolded(h)) <= 1
  <2>1. Advance(h).status = h.status
    BY <1>1 DEF Advance, HandState
  <2>2. NonFolded(Advance(h)) = NonFolded(h)
    BY <2>1 DEF NonFolded
  <2>3. IsFiniteSet(Seats)
    BY FS_Interval, NumSeatsAssumption DEF Seats
  <2>4. Cardinality(NonFolded(h)) \in Nat
    BY <2>3, FS_Subset, FS_CardinalityType DEF NonFolded
  <2>. QED BY <1>1, <2>2, <2>4
<1>2. CASE ~(Cardinality(NonFolded(h)) <= 1) /\ OwesAction(h) # {}
  BY <1>2 DEF Advance, HandState
<1>. QED BY <1>1, <1>2

\* A betting street closes only when every seat that can act, other than the one
\* acting, has acted since the last full raise and matched the bet.
THEOREM StreetClosedHolds == Spec => StreetClosed
<1>. DEFINE others == CanAct(hand) \ {hand.toAct}
            closing == hand'.street # hand.street /\ Cardinality(NonFolded(hand')) > 1
            answered == \A i \in others : hand.acted[i] /\ hand.committed[i] = hand.currentBet
<1>1. HandInv /\ [Next]_vars =>
        [closing /\ phase = "betting" => answered]_vars
  <2>. SUFFICES ASSUME HandInv, Next, closing, phase = "betting" PROVE answered
    BY DEF vars
  <2>1. /\ hand \in HandState /\ ChipsOK(hand, start) /\ BetsBounded(hand)
        /\ start \in [Seats -> Nat]
    BY DEF HandInv, HandTypeOK
  <2>2. ASSUME NEW i \in Seats, Fold(i) PROVE answered
    <3>. DEFINE n == [hand EXCEPT !.status[i] = "Folded", !.acted[i] = TRUE]
    <3>1. hand' = Advance(n) /\ hand.toAct = i
      BY <2>2 DEF Fold, FoldBy, MayAct
    <3>2. /\ n.status = [hand.status EXCEPT ![i] = "Folded"]
          /\ n.acted = [hand.acted EXCEPT ![i] = TRUE]
          /\ n.committed = hand.committed /\ n.currentBet = hand.currentBet
          /\ n.street = hand.street
      BY <2>1 DEF HandState
    <3>3. /\ [hand.status EXCEPT ![i] = "Folded"] \in [Seats -> PlayerStatus]
          /\ [hand.acted EXCEPT ![i] = TRUE] \in [Seats -> BOOLEAN]
      BY <2>1 DEF HandState, PlayerStatus
    <3>4. n \in HandState
      BY <2>1, <3>3 DEF HandState
    <3>. HIDE DEF n
    <3>5. OwesAction(n) = {}
      BY <3>1, <3>2, <3>4, AdvanceClosesStreet
    <3>. QED BY <2>1, <3>1, <3>2, <3>5 DEF OwesAction, CanAct, HandState
  <2>3. ASSUME NEW i \in Seats, Check(i) PROVE answered
    <3>. DEFINE n == [hand EXCEPT !.acted[i] = TRUE]
    <3>1. hand' = Advance(n) /\ hand.toAct = i
      BY <2>3 DEF Check, CheckBy, CanCheck, MayAct
    <3>2. /\ n.status = hand.status /\ n.acted = [hand.acted EXCEPT ![i] = TRUE]
          /\ n.committed = hand.committed /\ n.currentBet = hand.currentBet
          /\ n.street = hand.street /\ n \in HandState
      BY <2>1 DEF HandState
    <3>. HIDE DEF n
    <3>3. OwesAction(n) = {}
      BY <3>1, <3>2, AdvanceClosesStreet
    <3>. QED BY <2>1, <3>1, <3>2, <3>3 DEF OwesAction, CanAct, HandState
  <2>4. ASSUME NEW i \in Seats, Call(i) PROVE answered
    <3>. DEFINE owed == hand.currentBet - hand.committed[i]
                c == Commit(hand, i, owed)
                n == [c EXCEPT !.acted[i] = TRUE]
    <3>1. hand' = Advance(n) /\ hand.toAct = i
      BY <2>4 DEF Call, CallBy, MayAct
    <3>2. owed \in Nat
      BY <2>1 DEF BetsBounded, HandState
    <3>3. /\ c \in HandState
          /\ c.committed = [hand.committed EXCEPT ![i] = @ + Lesser(owed, hand.stack[i])]
          /\ \A j \in Seats \ {i} : c.status[j] = hand.status[j]
      BY <2>1, <3>2, CommitKeepsChips DEF ChipsOK
    <3>4. /\ c.acted = hand.acted /\ c.currentBet = hand.currentBet
          /\ c.street = hand.street
      BY <2>1 DEF Commit, HandState
    <3>. HIDE DEF c
    <3>5. /\ n.status = c.status /\ n.acted = [hand.acted EXCEPT ![i] = TRUE]
          /\ n.committed = c.committed /\ n.currentBet = hand.currentBet
          /\ n.street = hand.street /\ n \in HandState
      BY <3>3, <3>4 DEF HandState
    <3>. HIDE DEF n, owed
    <3>6. OwesAction(n) = {}
      BY <3>1, <3>5, AdvanceClosesStreet
    <3>. QED BY <2>1, <3>1, <3>3, <3>5, <3>6 DEF OwesAction, CanAct, HandState
  <2>5. ASSUME NEW i \in Seats, NEW to \in 1 .. MaxStack, Raise(i, to) PROVE answered
    <3>. DEFINE more == to - hand.committed[i]
                c == Commit(hand, i, more)
                full == IsFullRaise(hand, to)
                flag == [j \in Seats |-> j = i \/ (hand.acted[j] /\ ~full)]
                n == [c EXCEPT !.minRaise = IF full THEN to - hand.currentBet ELSE @,
                               !.currentBet = to, !.acted = flag]
    <3>1. hand' = Advance(n) /\ hand.toAct = i
      BY <2>5 DEF Raise, RaiseBy, CanRaise, MayAct
    <3>2. /\ more \in Nat /\ to > hand.currentBet /\ to \in Nat
          /\ to - hand.currentBet \in Nat
      BY <2>1, <2>5, BlindsAssumption DEF Raise, CanRaise, BetsBounded, HandState
    <3>3. /\ c \in HandState
          /\ c.committed = [hand.committed EXCEPT ![i] = @ + Lesser(more, hand.stack[i])]
          /\ \A j \in Seats \ {i} : c.status[j] = hand.status[j]
      BY <2>1, <3>2, CommitKeepsChips DEF ChipsOK
    <3>4. c.street = hand.street
      BY <2>1 DEF Commit, HandState
    <3>. HIDE DEF c
    <3>5. flag \in [Seats -> BOOLEAN]
      BY <2>1 DEF HandState
    <3>. HIDE DEF flag
    <3>6. /\ n.status = c.status /\ n.committed = c.committed /\ n.currentBet = to
          /\ n.street = hand.street /\ n \in HandState
      BY <3>2, <3>3, <3>4, <3>5 DEF HandState
    <3>. HIDE DEF n, more, full
    <3>7. OwesAction(n) = {}
      BY <3>1, <3>6, AdvanceClosesStreet
    <3>8. \A j \in others : hand.committed[j] = to
      BY <2>1, <3>1, <3>3, <3>6, <3>7 DEF OwesAction, CanAct, HandState
    <3>9. \A j \in others : hand.committed[j] <= hand.currentBet
      BY <2>1 DEF BetsBounded, CanAct
    <3>. QED BY <2>1, <3>2, <3>8, <3>9 DEF HandState, CanAct
  <2>6. ASSUME NEW best \in [Seats -> 1 .. Strengths], Settle(best) PROVE answered
    BY <2>6 DEF Settle
  <2>. QED BY <2>2, <2>3, <2>4, <2>5, <2>6 DEF Next, Deal
<1>. QED BY <1>1, HandInvariant, PTL DEF Spec, StreetClosed

-----------------------------------------------------------------------------
(* The money of a hand *)

\* What holds of the pot and the contest from the deal to the settlement.
MoneyOK(h) == PotOK(h) /\ ContestOK(h) /\ SatOutOK(h)

\* The inductive invariant of the money: the settlement adds its awards, and the hand it
\* pays out stays as the betting left it.
MoneyInv ==
  /\ HandInv
  /\ payout \in [Seats -> Nat]
  /\ phase # "idle" => MoneyOK(hand)
  /\ phase = "settled" =>
       \E best \in [Seats -> 1 .. Strengths] : payout = Awards(hand, best)

\* A step that pays from one seat of the hand keeps what holds of the money.
LEMMA PaysOnlyMoney ==
  ASSUME NEW h \in HandState, NEW n \in HandState, NEW i \in Seats, MoneyOK(h),
         PaysOnly(h, n, i), MayAct(h, i), n.status[i] # "SittingOut", ContestOK(n)
  PROVE  MoneyOK(n)
<1>1. PotOK(n)
  BY PaysOnlyPot DEF MoneyOK
<1>2. SatOutOK(n)
  BY DEF SatOutOK, MoneyOK, PaysOnly
<1>. QED BY <1>1, <1>2 DEF MoneyOK

\* Before a deal nothing was awarded.
LEMMA MoneyInvInit == Init => MoneyInv
BY HandInvInit DEF Init, MoneyInv, NoChips

\* Every deal, action, timeout and settlement keeps the invariant of the money.
LEMMA MoneyInvNext == MoneyInv /\ [Next]_vars => MoneyInv'
<1>. SUFFICES ASSUME MoneyInv, [Next]_vars PROVE MoneyInv'
  OBVIOUS
<1>1. HandInv' /\ hand' \in HandState
  BY HandInvNext DEF MoneyInv, HandInv, HandTypeOK
<1>2. /\ HandInv /\ hand \in HandState /\ payout \in [Seats -> Nat]
      /\ phase # "idle" => MoneyOK(hand)
  BY DEF MoneyInv, HandInv, HandTypeOK
<1>3. ASSUME NEW stacks \in [Seats -> 0 .. MaxStack], NEW b \in Seats, Deal(stacks, b)
      PROVE  MoneyInv'
  <2>. DEFINE dealt == {i \in Seats : stacks[i] > 0}
              n == NewHand(stacks, dealt, b, SmallBlind, BigBlind)
  <2>1. stacks \in [Seats -> Nat]
    BY BlindsAssumption
  <2>2. /\ phase' = "betting" /\ hand' = n /\ start' = stacks /\ payout' = payout
        /\ Cardinality(dealt) >= 2 /\ b \in dealt
    BY <1>3 DEF Deal
  <2>3. ChipsOK(n, stacks)
    BY <2>1, <2>2, BlindsAssumption, NewHandOK
  <2>4. /\ PotOK(n) /\ ContestOK(n)
        /\ \A s \in Seats : n.status[s] # "SittingOut" <=> s \in dealt
    <3>. HIDE DEF n
    <3>1. dealt = {i \in Seats : stacks[i] > 0} /\ Cardinality(dealt) >= 2 /\ b \in dealt
      BY <2>2
    <3>. HIDE DEF dealt
    <3>2. /\ SmallBlind \in Nat /\ BigBlind \in Nat
          /\ 0 < SmallBlind /\ SmallBlind <= BigBlind
      BY BlindsAssumption
    <3>. DEFINE m == NewHand(stacks, dealt, b, SmallBlind, BigBlind)
    <3>3. PotOK(m) /\ ContestOK(m)
      BY ONLY <2>1, <3>1, <3>2, NewHandMoves, b \in Seats
    <3>4. ASSUME NEW s \in Seats PROVE m.status[s] # "SittingOut" <=> s \in dealt
      BY ONLY <2>1, <3>1, <3>2, NewHandMoves, b \in Seats, s \in Seats
    <3>. QED BY <3>3, <3>4 DEF n
  <2>5. SatOutOK(n)
    <3>. SUFFICES ASSUME NEW s \in Seats, n.status[s] = "SittingOut" PROVE n.totalBet[s] = 0
      BY DEF SatOutOK
    <3>. HIDE DEF n
    <3>1. stacks[s] = 0
      BY <2>1, <2>4
    <3>2. n.stack[s] + n.totalBet[s] = 0 /\ n.stack[s] \in Nat /\ n.totalBet[s] \in Nat
      BY <2>3, <3>1 DEF ChipsOK, HandState
    <3>. QED BY <3>2
  <2>. QED BY <1>1, <1>2, <2>2, <2>4, <2>5 DEF MoneyInv, MoneyOK
<1>4. ASSUME NEW i \in Seats, Fold(i) PROVE MoneyInv'
  <2>1. /\ phase = "betting" /\ MayAct(hand, i) /\ hand' = FoldBy(hand, i)
        /\ phase' = phase /\ payout' = payout
    BY <1>4 DEF Fold
  <2>2. MoneyOK(hand)
    BY <1>2, <2>1
  <2>3. /\ hand'.totalBet = hand.totalBet /\ hand'.pot = hand.pot
        /\ hand'.status = [hand.status EXCEPT ![i] = "Folded"]
        /\ ContestOK(hand')
    BY <1>2, <2>1, <2>2, FoldMoves DEF MoneyOK
  <2>4. PotOK(hand') /\ SatOutOK(hand')
    BY <1>2, <2>2, <2>3 DEF MoneyOK, PotOK, SatOutOK, HandState
  <2>. QED BY <1>1, <1>2, <2>1, <2>3, <2>4 DEF MoneyInv, MoneyOK
<1>5. ASSUME NEW i \in Seats, Check(i) PROVE MoneyInv'
  <2>1. /\ phase = "betting" /\ MayAct(hand, i) /\ hand' = CheckBy(hand, i)
        /\ phase' = phase /\ payout' = payout
    BY <1>5 DEF Check, CanCheck
  <2>2. MoneyOK(hand)
    BY <1>2, <2>1
  <2>3. /\ hand'.totalBet = hand.totalBet /\ hand'.pot = hand.pot
        /\ hand'.status = hand.status
        /\ ContestOK(hand')
    BY <1>2, <2>1, <2>2, CheckMoves DEF MoneyOK
  <2>4. PotOK(hand') /\ SatOutOK(hand')
    BY <2>2, <2>3 DEF MoneyOK, PotOK, SatOutOK
  <2>. QED BY <1>1, <1>2, <2>1, <2>3, <2>4 DEF MoneyInv, MoneyOK
<1>6. ASSUME NEW i \in Seats, Call(i) PROVE MoneyInv'
  <2>1. /\ phase = "betting" /\ MayAct(hand, i) /\ hand' = CallBy(hand, i)
        /\ phase' = phase /\ payout' = payout
    BY <1>6 DEF Call
  <2>2. MoneyOK(hand) /\ BetsBounded(hand)
    BY <1>2, <2>1 DEF HandInv
  <2>3. /\ PaysOnly(hand, hand', i) /\ hand'.status[i] \in {"Active", "AllIn"}
        /\ ContestOK(hand')
    BY <1>2, <2>1, <2>2, CallMoves DEF MoneyOK
  <2>4. MoneyOK(hand')
    BY <1>1, <1>2, <2>1, <2>2, <2>3, PaysOnlyMoney
  <2>. QED BY <1>1, <1>2, <2>1, <2>4 DEF MoneyInv
<1>7. ASSUME NEW i \in Seats, NEW to \in 1 .. MaxStack, Raise(i, to) PROVE MoneyInv'
  <2>1. /\ phase = "betting" /\ CanRaise(hand, i, to) /\ hand' = RaiseBy(hand, i, to)
        /\ phase' = phase /\ payout' = payout /\ to \in Nat
    BY <1>7, BlindsAssumption DEF Raise
  <2>2. MoneyOK(hand) /\ BetsBounded(hand) /\ MayAct(hand, i)
    BY <1>2, <2>1 DEF HandInv, CanRaise
  <2>3. /\ PaysOnly(hand, hand', i) /\ hand'.status[i] \in {"Active", "AllIn"}
        /\ ContestOK(hand')
    BY <1>2, <2>1, <2>2, RaiseMoves DEF MoneyOK
  <2>4. MoneyOK(hand')
    BY <1>1, <1>2, <2>1, <2>2, <2>3, PaysOnlyMoney
  <2>. QED BY <1>1, <1>2, <2>1, <2>4 DEF MoneyInv
<1>8. ASSUME NEW best \in [Seats -> 1 .. Strengths], Settle(best) PROVE MoneyInv'
  <2>1. /\ phase = "betting" /\ payout' = Awards(hand, best) /\ hand' = hand
        /\ phase' = "settled"
    BY <1>8 DEF Settle
  <2>2. Awards(hand, best) \in [Seats -> Nat]
    BY <1>2, AwardsType
  <2>. QED BY <1>1, <1>2, <2>1, <2>2 DEF MoneyInv
<1>9. CASE UNCHANGED vars
  BY <1>1, <1>9 DEF vars, MoneyInv
<1>. QED BY <1>3, <1>4, <1>5, <1>6, <1>7, <1>8, <1>9 DEF Next

\* The money invariant holds of every hand, whatever the players do.
THEOREM MoneyInvariant == Spec => []MoneyInv
BY MoneyInvInit, MoneyInvNext, PTL DEF Spec

\* A settled hand pays out its pot, side pots and odd chips included, but for the chips
\* folded seats put in beyond every seat that stayed.
LEMMA PotIsPaidOut ==
  ASSUME NEW h \in HandState, NEW best \in [Seats -> Int], MoneyOK(h)
  PROVE  SumOver(Awards(h, best), Seats)
           = h.pot - (IF Cardinality(NonFolded(h)) = 1 THEN 0 ELSE Unmatched(h))
<1>. DEFINE most == Most(h)
            over == [i \in Seats |-> IF h.totalBet[i] > most THEN h.totalBet[i] - most ELSE 0]
            bets == [j \in Seats |-> Lesser(most, h.totalBet[j])]
<1>1. /\ most \in Nat /\ h.pot \in Nat /\ IsFiniteSet(Seats)
      /\ \A i \in Seats : h.totalBet[i] \in Nat
  <2>1. most \in {0} \cup Levels(h)
    BY PotsUpToMost DEF MoneyOK
  <2>. HIDE DEF most
  <2>. QED BY <2>1, LevelsOK, SeatSets DEF HandState
<1>2. SumOver(Awards(h, best), Seats)
        = IF Cardinality(NonFolded(h)) = 1 THEN h.pot ELSE SumOver(bets, Seats)
  BY AwardsAddUp DEF MoneyOK
<1>3. Unmatched(h) = SumOver(over, Seats)
  BY DEF Unmatched, Total, Most
<1>. HIDE DEF most
<1>4. \A i \in Seats : /\ bets[i] \in Int /\ over[i] \in Int
                       /\ h.totalBet[i] = bets[i] + over[i]
  BY <1>1 DEF Lesser
<1>. HIDE DEF bets, over
<1>5. SumOver(h.totalBet, Seats) = SumOver(bets, Seats) + SumOver(over, Seats)
  BY <1>1, <1>4, SumPlus
<1>6. SumOver(bets, Seats) \in Int /\ SumOver(over, Seats) \in Int
  BY <1>1, <1>4, SumInt
<1>. QED BY <1>1, <1>2, <1>3, <1>5, <1>6 DEF MoneyOK, PotOK

\* What a seat put in above everybody else comes back to it.
LEMMA UncalledComesBack ==
  ASSUME NEW h \in HandState, NEW best \in [Seats -> Int], MoneyOK(h), NEW i \in NonFolded(h)
  PROVE  Awards(h, best)[i] >= h.totalBet[i] - Max({h.totalBet[j] : j \in Seats \ {i}})
<1>. DEFINE B == {h.totalBet[j] : j \in Seats \ {i}}
            m == Max(B)
<1>1. i \in Seats /\ h.pot \in Nat /\ IsFiniteSet(Seats) /\ \A j \in Seats : h.totalBet[j] \in Nat
  BY SeatSets DEF NonFolded, HandState
<1>2. m \in Nat /\ \A j \in Seats \ {i} : h.totalBet[j] <= m
  <2>1. B \in SUBSET Nat /\ B # {}
    <3>1. 0 \in Seats /\ 1 \in Seats
      BY NumSeatsAssumption DEF Seats
    <3>. QED BY <1>1, <3>1
  <2>2. IsFiniteSet(B)
    <3>1. IsFiniteSet(Seats \ {i})
      BY <1>1, FS_Subset
    <3>. QED BY <3>1, ImageFinite
  <2>. HIDE DEF B
  <2>3. m \in B /\ \A y \in B : y <= m
    BY <2>1, <2>2, MaxOfNat
  <2>. QED BY <2>1, <2>3 DEF B
<1>. HIDE DEF m
<1>3. Awards(h, best)[i] \in Nat
  BY <1>1, AwardsType
<1>4. Awards(h, best)[i] >= h.totalBet[i] - m
  <2>1. CASE h.totalBet[i] <= m
    BY <1>1, <1>2, <1>3, <2>1
  <2>2. CASE ~(h.totalBet[i] <= m) /\ Cardinality(NonFolded(h)) = 1
    <3>1. Awards(h, best)[i] = h.pot
      BY <1>1, <2>2 DEF Awards
    <3>2. h.totalBet[i] <= SumOver(h.totalBet, Seats)
      BY <1>1, SumMember
    <3>. QED BY <1>1, <1>2, <3>1, <3>2 DEF MoneyOK, PotOK
  <2>3. CASE ~(h.totalBet[i] <= m) /\ Cardinality(NonFolded(h)) # 1
    <3>1. h.totalBet[i] > m
      BY <1>1, <1>2, <2>3
    <3>. QED BY <1>2, <2>3, <3>1, LayerAlone
  <2>. QED BY <2>1, <2>2, <2>3
<1>. QED BY <1>4 DEF m

\* The money of a hand is settled to the last chip: the pot is the contributions, a contested
\* hand is paid out over a full board, what is paid is the pot, side pots are fair and an
\* uncalled bet comes back (engine/state.go, engine/pots.go).
THEOREM ChipsAreSettled == Spec => []ChipsSettled
<1>1. MoneyInv => ChipsSettled
  <2>. SUFFICES ASSUME MoneyInv PROVE ChipsSettled
    OBVIOUS
  <2>1. HandTypeOK /\ TypeOK /\ hand \in HandState /\ payout \in [Seats -> Nat]
    BY DEF MoneyInv, HandInv, HandTypeOK, TypeOK
  <2>2. phase # "idle" => MoneyOK(hand)
    BY DEF MoneyInv
  <2>3. PotIsContributions
    BY <2>2 DEF PotIsContributions, MoneyOK, PotOK, Total
  <2>4. ContestedBoardIsFull
    <3>1. Cardinality(NonFolded(hand)) \in Nat
          /\ (NonFolded(hand) # {} => Cardinality(NonFolded(hand)) # 0)
      <4>1. NonFolded(hand) \in SUBSET Seats
        BY DEF NonFolded
      <4>. QED BY <4>1, SeatSets
    <3>. QED BY <2>2, <3>1 DEF ContestedBoardIsFull, MoneyOK, ContestOK
  <2>5. ASSUME phase = "settled"
        PROVE  \E best \in [Seats -> Int] : payout = Awards(hand, best)
    <3>1. PICK best \in [Seats -> 1 .. Strengths] : payout = Awards(hand, best)
      BY <2>5 DEF MoneyInv
    <3>2. best \in [Seats -> Int]
      BY BlindsAssumption
    <3>. QED BY <3>1, <3>2
  <2>6. PotPaidOut
    <3>. SUFFICES ASSUME phase = "settled"
                  PROVE  Total(payout) = hand.pot -
                           (IF Cardinality(NonFolded(hand)) = 1 THEN 0 ELSE Unmatched(hand))
      BY DEF PotPaidOut
    <3>1. PICK best \in [Seats -> Int] : payout = Awards(hand, best)
      BY <2>5
    <3>. QED BY <2>1, <2>2, <3>1, PotIsPaidOut DEF Total
  <2>7. SidePotsFair
    <3>. SUFFICES ASSUME phase = "settled", Cardinality(NonFolded(hand)) > 1, NEW i \in Seats
                  PROVE  payout[i] <=
                           IF hand.status[i] \in {"Active", "AllIn"}
                           THEN Total([j \in Seats |-> Lesser(hand.totalBet[i], hand.totalBet[j])])
                           ELSE 0
      BY DEF SidePotsFair
    <3>1. PICK best \in [Seats -> Int] : payout = Awards(hand, best)
      BY <2>5
    <3>2. CASE hand.status[i] \in {"Active", "AllIn"}
      <4>1. Cardinality(NonFolded(hand)) # 1
        OBVIOUS
      <4>. QED BY <2>1, <3>1, <3>2, <4>1, AwardsBounded DEF Total
    <3>3. CASE hand.status[i] \notin {"Active", "AllIn"}
      <4>1. hand.status[i] = "Folded"
            \/ (hand.status[i] = "SittingOut" /\ hand.totalBet[i] = 0)
        BY <2>1, <2>2, <3>3 DEF MoneyOK, SatOutOK, HandState, PlayerStatus
      <4>2. payout[i] = 0
        BY <2>1, <3>1, <4>1, AwardsType
      <4>. QED BY <3>3, <4>2
    <3>. QED BY <3>2, <3>3
  <2>8. UncalledBetReturned
    <3>. SUFFICES ASSUME phase = "settled", NEW i \in NonFolded(hand)
                  PROVE  payout[i] >=
                           hand.totalBet[i] - Max({hand.totalBet[j] : j \in Seats \ {i}})
      BY DEF UncalledBetReturned
    <3>1. PICK best \in [Seats -> Int] : payout = Awards(hand, best)
      BY <2>5
    <3>. QED BY <2>1, <2>2, <3>1, UncalledComesBack
  <2>. QED BY <2>1, <2>3, <2>4, <2>6, <2>7, <2>8 DEF ChipsSettled
<1>. QED BY <1>1, MoneyInvariant, PTL

-----------------------------------------------------------------------------
(* Raises *)

\* Moving the action on within a street leaves the bet to match alone.
LEMMA AdvanceKeepsBet ==
  ASSUME NEW h \in HandState, h.street # "Showdown", Advance(h).street = h.street
  PROVE  Advance(h).currentBet = h.currentBet
<1>1. CASE Cardinality(NonFolded(h)) <= 1
  BY <1>1 DEF Advance, HandState
<1>2. CASE ~(Cardinality(NonFolded(h)) <= 1) /\ OwesAction(h) # {}
  BY <1>2 DEF Advance, HandState
<1>3. CASE ~(Cardinality(NonFolded(h)) <= 1) /\ OwesAction(h) = {}
  <2>. DEFINE runOut == Cardinality(CanAct(h)) <= 1
              street == IF runOut THEN "Showdown" ELSE FollowingStreet(h.street)
  <2>1. Advance(h) = NextStreet(h)
    BY <1>3 DEF Advance
  <2>2. NextStreet(h).street = street
    BY DEF NextStreet, ResetStreet, HandState
  <2>3. street # h.street
    BY DEF FollowingStreet, HandState, Street
  <2>. QED BY <2>1, <2>2, <2>3
<1>. QED BY <1>1, <1>2, <1>3

\* While a street lasts the bet to match only grows, and by less than the last full raise
\* only when the raiser is all-in (engine/state.go, ActionBet and ActionRaise).
THEOREM RaisesAreFullHolds == Spec => RaisesAreFull
<1>. DEFINE raised == /\ hand'.currentBet > hand.currentBet
                      /\ \/ hand'.currentBet - hand.currentBet >= hand.minRaise
                         \/ hand'.status[hand.toAct] = "AllIn"
            same == phase = "betting" /\ hand'.street = hand.street
<1>1. MoneyInv /\ [Next]_vars =>
        [same /\ hand'.currentBet # hand.currentBet => raised]_vars
  <2>. SUFFICES ASSUME MoneyInv, Next, same, hand'.currentBet # hand.currentBet PROVE raised
    BY DEF vars
  <2>1. /\ hand \in HandState /\ MoneyOK(hand) /\ BetsBounded(hand) /\ ChipsOK(hand, start)
        /\ start \in [Seats -> Nat]
    BY DEF MoneyInv, HandInv, HandTypeOK
  <2>2. ASSUME NEW i \in Seats, Fold(i) PROVE FALSE
    <3>. DEFINE n == [hand EXCEPT !.status[i] = "Folded", !.acted[i] = TRUE]
    <3>1. hand' = Advance(n) /\ hand.street # "Showdown"
      BY <2>2 DEF Fold, FoldBy, MayAct
    <3>2. /\ [hand.status EXCEPT ![i] = "Folded"] \in [Seats -> PlayerStatus]
          /\ [hand.acted EXCEPT ![i] = TRUE] \in [Seats -> BOOLEAN]
      BY <2>1 DEF HandState, PlayerStatus
    <3>3. n \in HandState /\ n.street = hand.street /\ n.currentBet = hand.currentBet
      BY <2>1, <3>2 DEF HandState
    <3>. HIDE DEF n
    <3>. QED BY <3>1, <3>3, AdvanceKeepsBet
  <2>3. ASSUME NEW i \in Seats, Check(i) PROVE FALSE
    <3>. DEFINE n == [hand EXCEPT !.acted[i] = TRUE]
    <3>1. hand' = Advance(n) /\ hand.street # "Showdown"
      BY <2>3 DEF Check, CheckBy, CanCheck, MayAct
    <3>2. [hand.acted EXCEPT ![i] = TRUE] \in [Seats -> BOOLEAN]
      BY <2>1 DEF HandState
    <3>3. n \in HandState /\ n.street = hand.street /\ n.currentBet = hand.currentBet
      BY <2>1, <3>2 DEF HandState
    <3>. HIDE DEF n
    <3>. QED BY <3>1, <3>3, AdvanceKeepsBet
  <2>4. ASSUME NEW i \in Seats, Call(i) PROVE FALSE
    <3>. DEFINE owed == hand.currentBet - hand.committed[i]
                c == Commit(hand, i, owed)
                n == [c EXCEPT !.acted[i] = TRUE]
    <3>1. hand' = Advance(n) /\ hand.street # "Showdown"
      BY <2>4 DEF Call, CallBy, MayAct
    <3>2. owed \in Nat
      BY <2>1 DEF BetsBounded, HandState
    <3>3. c \in HandState /\ c.street = hand.street /\ c.currentBet = hand.currentBet
      BY <2>1, <3>2, CommitMoves
    <3>4. [c.acted EXCEPT ![i] = TRUE] \in [Seats -> BOOLEAN]
      BY <3>3 DEF HandState
    <3>. HIDE DEF c
    <3>5. n \in HandState /\ n.street = hand.street /\ n.currentBet = hand.currentBet
      BY <3>3, <3>4 DEF HandState
    <3>. HIDE DEF n
    <3>. QED BY <3>1, <3>5, AdvanceKeepsBet
  <2>5. ASSUME NEW i \in Seats, NEW to \in 1 .. MaxStack, Raise(i, to) PROVE raised
    <3>. DEFINE more == to - hand.committed[i]
                c == Commit(hand, i, more)
                full == IsFullRaise(hand, to)
                flag == [j \in Seats |-> j = i \/ (hand.acted[j] /\ ~full)]
                n == [c EXCEPT !.minRaise = IF full THEN to - hand.currentBet ELSE @,
                               !.currentBet = to, !.acted = flag]
    <3>1. /\ hand' = Advance(n) /\ hand' = RaiseBy(hand, i, to)
          /\ CanRaise(hand, i, to) /\ to \in Nat
      BY <2>5, BlindsAssumption DEF Raise, RaiseBy
    <3>2. hand.street # "Showdown" /\ hand.toAct = i /\ to > hand.currentBet
          /\ (full \/ to = hand.committed[i] + hand.stack[i])
      BY <3>1 DEF CanRaise, MayAct
    <3>3. more \in Nat /\ to - hand.currentBet \in Nat
      BY <2>1, <3>1, <3>2 DEF BetsBounded, HandState
    <3>4. c \in HandState /\ c.street = hand.street
      BY <2>1, <3>3, CommitMoves
    <3>5. flag \in [Seats -> BOOLEAN]
      BY <2>1 DEF HandState
    <3>. HIDE DEF c, flag
    <3>6. n \in HandState /\ n.street = hand.street /\ n.currentBet = to
      BY <3>1, <3>3, <3>4, <3>5 DEF HandState
    <3>. HIDE DEF n
    <3>7. hand'.currentBet = to
      BY <3>1, <3>2, <3>6, AdvanceKeepsBet
    <3>8. to = hand.committed[i] + hand.stack[i] => hand'.status[i] = "AllIn"
      BY <2>1, <3>1, RaiseMoves DEF MoneyOK
    <3>9. full => to - hand.currentBet >= hand.minRaise
      BY <2>1, <3>1 DEF IsFullRaise, HandState
    <3>. QED BY <2>1, <3>2, <3>7, <3>8, <3>9
  <2>6. ASSUME NEW best \in [Seats -> 1 .. Strengths], Settle(best) PROVE FALSE
    BY <2>6 DEF Settle
  <2>. QED BY <2>2, <2>3, <2>4, <2>5, <2>6 DEF Next, Deal
<1>. QED BY <1>1, MoneyInvariant, PTL DEF Spec, RaisesAreFull

=============================================================================
