-------------------------------- MODULE Table --------------------------------
(***************************************************************************)
(* A cash table (server/internal/table): one goroutine that takes inbound  *)
(* commands, timer expiries and a drain request one at a time.  The record *)
(* t is the code's Table struct; an action is a whole handler, with the    *)
(* hands it settles and the next hand it deals.                            *)
(*                                                                         *)
(* The clock is abstracted to which deadlines are armed: an armed deadline *)
(* may be found due at any time, with or without the others.               *)
(***************************************************************************)
EXTENDS Hand

CONSTANTS
  Players, NoPlayer,
  SmallBlind, BigBlind,
  MaxBuyIn,             \* 1000 big blinds in the code
  BrokeUnseatAfter,     \* brokeUnseatAfterHands: 3 in the code
  StartBalance,         \* what each player's ledger account holds at first
  MaxHands,             \* bound: hands dealt in one behaviour
  Strengths             \* bound: how many different hand values

ASSUME TableAssumption ==
  /\ NoPlayer \notin Players /\ IsFiniteSet(Players)
  /\ SmallBlind \in Nat /\ BigBlind \in Nat /\ 0 < SmallBlind /\ SmallBlind <= BigBlind
  /\ MaxBuyIn \in Nat /\ BigBlind <= MaxBuyIn
  /\ BrokeUnseatAfter \in Nat \ {0}
  /\ StartBalance \in Nat /\ MaxHands \in Nat /\ Strengths \in Nat

VARIABLES
  t,        \* the table
  ledger,   \* [Players -> Nat], the chip balances of package economy
  reused    \* history: a seat dealt in the running hand was taken by a newcomer

vars == <<t, ledger, reused>>

-----------------------------------------------------------------------------
(* State *)

SeatState ==
  [player : Players \cup {NoPlayer}, stack : Nat, sittingOut : BOOLEAN,
   foldPending : BOOLEAN, disconnected : BOOLEAN, brokeAtHand : Nat]

EmptySeat == [player |-> NoPlayer, stack |-> 0, sittingOut |-> FALSE,
              foldPending |-> FALSE, disconnected |-> FALSE, brokeAtHand |-> 0]

NoChips == [s \in Seats |-> 0]
NoHand  == Dealt(NoChips, {}, 0, BigBlind)

\* dealtTo is what the hand's record knows of who was dealt in where.  astray is
\* history: the chips that left the pots for nobody, less those paid twice.
TableState ==
  [seats : [Seats -> SeatState], subs : SUBSET Players, hand : HandState,
   startStack : [Seats -> Nat], dealtTo : [Seats -> Players \cup {NoPlayer}],
   button : Seats, handNum : Nat, host : Players \cup {NoPlayer},
   autoStart : BOOLEAN, hostStarted : BOOLEAN,
   turnArmed : BOOLEAN, idleArmed : BOOLEAN, stopped : BOOLEAN, astray : Int]

NewTable(autoStart, host) ==
  [seats |-> [s \in Seats |-> EmptySeat], subs |-> {}, hand |-> NoHand,
   startStack |-> NoChips, dealtTo |-> [s \in Seats |-> NoPlayer],
   button |-> 0, handNum |-> 0, host |-> host,
   autoStart |-> autoStart, hostStarted |-> FALSE,
   turnArmed |-> FALSE, idleArmed |-> TRUE, stopped |-> FALSE, astray |-> 0]

Occupied(u)   == {s \in Seats : u.seats[s].player # NoPlayer}
SeatsOf(u, p) == {s \in Seats : u.seats[s].player = p}
Running(u)    == u.hand # NoHand
InHand(u, s)  == u.hand.status[s] \in {"Active", "AllIn"}
WasDealt(u, s) == u.hand.status[s] # "SittingOut"

EligibleSeats(u) ==
  {s \in Occupied(u) : u.seats[s].stack > 0 /\ ~u.seats[s].sittingOut}

-----------------------------------------------------------------------------
(* Dealing and settling *)

MayStart(u) ==
  /\ ~Running(u)
  /\ Cardinality(EligibleSeats(u)) >= 2
  /\ u.autoStart \/ u.hostStarted
  /\ u.handNum < MaxHands

\* The seats once those broke for long enough are unseated; a fresh hand carries
\* no pending folds.
SeatsAtDeal(u, handNum) ==
  [s \in Seats |->
    LET seat == u.seats[s]
    IN  IF /\ seat.player # NoPlayer /\ seat.stack = 0 /\ seat.brokeAtHand > 0
           /\ handNum - seat.brokeAtHand >= BrokeUnseatAfter
          THEN EmptySeat
          ELSE [seat EXCEPT !.foldPending = FALSE]]

\* Mutant: the snapshot of the stacks is taken after the blinds.
StartHandIfReadySnapshotLate(u) ==
  LET dealt  == EligibleSeats(u)
      button == IF u.button \in dealt THEN u.button ELSE FirstAfter(u.button, dealt)
      stacks == [s \in Seats |-> IF s \in dealt THEN u.seats[s].stack ELSE 0]
      hand   == NewHand(stacks, dealt, button, SmallBlind, BigBlind)
  IN  IF ~MayStart(u) THEN u
      ELSE [u EXCEPT
             !.hand       = hand,
             !.seats      = SeatsAtDeal(u, u.handNum + 1),
             !.startStack = hand.stack,
             !.dealtTo    = [s \in Seats |-> IF s \in dealt THEN u.seats[s].player
                                             ELSE NoPlayer],
             !.button     = button,
             !.handNum    = @ + 1,
             !.turnArmed  = TRUE]

StartHandIfReady(u) ==
  LET dealt  == EligibleSeats(u)
      button == IF u.button \in dealt THEN u.button ELSE FirstAfter(u.button, dealt)
      stacks == [s \in Seats |-> IF s \in dealt THEN u.seats[s].stack ELSE 0]
  IN  IF ~MayStart(u) THEN u
      ELSE [u EXCEPT
             !.hand       = NewHand(stacks, dealt, button, SmallBlind, BigBlind),
             !.seats      = SeatsAtDeal(u, u.handNum + 1),
             !.startStack = stacks,
             !.dealtTo    = [s \in Seats |-> IF s \in dealt THEN u.seats[s].player
                                             ELSE NoPlayer],
             !.button     = button,
             !.handNum    = @ + 1,
             !.turnArmed  = TRUE]

\* Mutant: only the seats that won something get their stack of the hand.
SeatsAfterWinnersOnly(u, awards) ==
  [s \in Seats |->
    LET seat == u.seats[s]
    IN  IF awards[s] = 0 \/ seat.player = NoPlayer THEN seat
        ELSE [seat EXCEPT !.stack = u.hand.stack[s] + awards[s]]]

\* The stacks of the hand go back to the seats that are still occupied; a seat
\* that lost its last chip sits out and starts its count to being unseated.
SeatsAfter(u, awards) ==
  [s \in Seats |->
    LET seat  == u.seats[s]
        stack == u.hand.stack[s] + awards[s]
        bust  == stack = 0 /\ seat.brokeAtHand = 0
    IN  IF ~WasDealt(u, s) \/ seat.player = NoPlayer THEN seat
        ELSE [seat EXCEPT !.stack       = stack,
                          !.sittingOut  = @ \/ bust,
                          !.brokeAtHand = IF bust THEN u.handNum ELSE @]]

ClearHand(u) ==
  [u EXCEPT !.hand = NoHand, !.startStack = NoChips,
            !.dealtTo = [s \in Seats |-> NoPlayer]]

RotateButton(u) ==
  IF Occupied(u) = {} THEN u
  ELSE [u EXCEPT !.button = FirstAfter(u.button, Occupied(u))]

\* Mutant: settling does not stop the turn clock.
SettleHandClockRuns(u, best) ==
  LET awards == Awards(u.hand, best)
      paid   == [u EXCEPT !.seats  = SeatsAfter(u, awards),
                          !.astray = @ + u.hand.pot - SumOver(awards, Occupied(u))]
  IN  StartHandIfReady(RotateButton(ClearHand(paid)))

SettleHand(u, best) ==
  LET awards == Awards(u.hand, best)
      paid   == [u EXCEPT !.seats     = SeatsAfter(u, awards),
                          !.turnArmed = FALSE,
                          !.astray    = @ + u.hand.pot - SumOver(awards, Occupied(u))]
  IN  StartHandIfReady(RotateButton(ClearHand(paid)))

\* Mutant: only a new street sets the turn clock.
ApplyHandClockOnStreet(u, h, best) ==
  LET after == [u EXCEPT !.hand = h]
  IN  IF h.street = "Showdown" THEN SettleHand(after, best)
      ELSE [after EXCEPT !.turnArmed = @ \/ h.street # u.hand.street]

\* One action through the engine, then the settlement or the next turn.
ApplyHand(u, h, best) ==
  LET after == [u EXCEPT !.hand = h]
  IN  IF h.street = "Showdown" THEN SettleHand(after, best)
      ELSE [after EXCEPT !.turnArmed = TRUE]

\* The engine refuses a fold out of turn or of a seat that cannot act, and the
\* callers drop the error.
TryFold(u, s, best) ==
  IF MayAct(u.hand, s) THEN ApplyHand(u, FoldBy(u.hand, s), best) ELSE u

AutoFold(u, best) ==
  IF Running(u) /\ u.seats[u.hand.toAct].foldPending
    THEN TryFold(u, u.hand.toAct, best) ELSE u

\* Folds the seats that asked to sit out, for as long as one is on the clock.
DriveAutoFolds(u, best) ==
  LET drive[n \in 0 .. NumSeats] == IF n = 0 THEN u ELSE AutoFold(drive[n - 1], best)
  IN  drive[NumSeats]

\* Mutant: pending folds wait for the next turn timeout.
ApplyWithoutDrive(u, h, best) == ApplyHand(u, h, best)

Apply(u, h, best) == DriveAutoFolds(ApplyHand(u, h, best), best)

RefreshIdle(u) ==
  [u EXCEPT !.idleArmed = u.subs = {} /\ Occupied(u) = {}]

\* Mutant: a fold out of turn does not end the hand.
FoldSeatNoSettle(u, s, best) ==
  IF u.hand.toAct = s
    THEN IF MayAct(u.hand, s) THEN Apply(u, FoldBy(u.hand, s), best) ELSE u
    ELSE [u EXCEPT !.hand.status[s] = "Folded"]

\* A leaving seat folds on its turn through the engine; out of turn it is marked
\* folded in place, and the hand is settled if only one seat is left in it.
FoldSeat(u, s, best) ==
  LET h == [u.hand EXCEPT !.status[s] = "Folded"]
  IN  IF u.hand.toAct = s
        THEN IF MayAct(u.hand, s) THEN Apply(u, FoldBy(u.hand, s), best) ELSE u
        ELSE IF Cardinality(NonFolded(h)) = 1
               THEN SettleHand([u EXCEPT !.hand = [h EXCEPT !.street = "Showdown"]], best)
               ELSE [u EXCEPT !.hand = h]

\* Every seat still occupied gets its stack from before the hand back.
VoidHand(u) ==
  IF ~Running(u) THEN u
  ELSE ClearHand([u EXCEPT
         !.seats  = [s \in Seats |-> IF WasDealt(u, s) /\ @[s].player # NoPlayer
                                       THEN [@[s] EXCEPT !.stack = u.startStack[s]]
                                       ELSE @[s]],
         !.astray = @ + SumOver(u.hand.totalBet, Seats \ Occupied(u))])

-----------------------------------------------------------------------------
(* Handlers *)

HandStrengths == [Seats -> 1 .. Strengths]

Init ==
  /\ \E autoStart \in BOOLEAN, host \in Players \cup {NoPlayer} :
       t = NewTable(autoStart, host)
  /\ ledger = [p \in Players |-> StartBalance]
  /\ reused = FALSE

Join(p) ==
  /\ ~t.stopped
  /\ LET joined == [t EXCEPT !.subs = @ \cup {p}]
     IN  IF SeatsOf(t, p) = {} THEN t' = RefreshIdle(joined)
         ELSE \E s \in SeatsOf(t, p) :
                t' = RefreshIdle([joined EXCEPT !.seats[s].disconnected = FALSE])
  /\ UNCHANGED <<ledger, reused>>

\* Mutant: sitting down does not clear the idle deadline.
SitDownIdle(p, s, buyIn) ==
  /\ ~t.stopped
  /\ t.seats[s].player = NoPlayer
  /\ buyIn \in BigBlind .. MaxBuyIn
  /\ ledger[p] >= buyIn
  /\ ledger' = [ledger EXCEPT ![p] = @ - buyIn]
  /\ t' = StartHandIfReady(
            [t EXCEPT !.seats[s] = [EmptySeat EXCEPT !.player = p, !.stack = buyIn],
                      !.subs     = @ \cup {p},
                      !.host     = IF @ = NoPlayer THEN p ELSE @])
  /\ reused' = (reused \/ WasDealt(t, s))

SitDown(p, s, buyIn) ==
  /\ ~t.stopped
  /\ t.seats[s].player = NoPlayer
  /\ buyIn \in BigBlind .. MaxBuyIn
  /\ ledger[p] >= buyIn
  /\ ledger' = [ledger EXCEPT ![p] = @ - buyIn]
  /\ t' = StartHandIfReady(RefreshIdle(
            [t EXCEPT !.seats[s] = [EmptySeat EXCEPT !.player = p, !.stack = buyIn],
                      !.subs     = @ \cup {p},
                      !.host     = IF @ = NoPlayer THEN p ELSE @]))
  /\ reused' = (reused \/ WasDealt(t, s))

\* A player's command acts for one of the player's seats, whichever seatOf's
\* walk over a map meets first.
Bet(p, s, h) ==
  /\ ~t.stopped /\ Running(t) /\ s \in SeatsOf(t, p)
  /\ \E best \in HandStrengths : t' = Apply(t, h, best)
  /\ UNCHANGED <<ledger, reused>>

Fold(p, s)  == MayAct(t.hand, s) /\ Bet(p, s, FoldBy(t.hand, s))
Check(p, s) == CanCheck(t.hand, s) /\ Bet(p, s, CheckBy(t.hand, s))
Call(p, s)  == MayAct(t.hand, s) /\ Bet(p, s, CallBy(t.hand, s))
Raise(p, s, to) == CanRaise(t.hand, s, to) /\ Bet(p, s, RaiseBy(t.hand, s, to))

\* Without a seat, leaving only unsubscribes.
LeaveUnseated(p) ==
  /\ ~t.stopped
  /\ SeatsOf(t, p) = {} /\ p \in t.subs
  /\ t' = [t EXCEPT !.subs = @ \ {p}]
  /\ UNCHANGED <<ledger, reused>>

\* A seat still in the hand folds and takes its stack of the hand; any other takes
\* the stack it had between hands.  What that pays twice is the bets of a seat that
\* had folded, or the blind of a seat the next hand was just dealt to.
Leave(p, s) ==
  /\ ~t.stopped
  /\ s \in SeatsOf(t, p)
  /\ \E best \in HandStrengths :
       LET live   == InHand(t, s)
           folded == IF live THEN FoldSeat(t, s, best) ELSE t
           again  == ~live \/ folded.handNum # t.handNum
           gone   == [folded EXCEPT
                       !.seats[s] = EmptySeat, !.subs = @ \ {p},
                       !.astray   = @ - (IF again THEN folded.hand.totalBet[s] ELSE 0)]
       IN  t' = RefreshIdle(DriveAutoFolds(gone, best))
  /\ ledger' = [ledger EXCEPT ![p] = @ + IF InHand(t, s) THEN t.hand.stack[s]
                                         ELSE t.seats[s].stack]
  /\ UNCHANGED reused

StartHand(p) ==
  /\ ~t.stopped
  /\ p = t.host
  /\ t' = StartHandIfReady([t EXCEPT !.hostStarted = TRUE])
  /\ UNCHANGED <<ledger, reused>>

Rebuy(p, s, amount) ==
  /\ ~t.stopped
  /\ s \in SeatsOf(t, p)
  /\ ~Running(t)
  /\ amount > 0 /\ t.seats[s].stack + amount \in BigBlind .. MaxBuyIn
  /\ ledger[p] >= amount
  /\ ledger' = [ledger EXCEPT ![p] = @ - amount]
  /\ t' = StartHandIfReady([t EXCEPT !.seats[s].stack       = @ + amount,
                                     !.seats[s].brokeAtHand = 0,
                                     !.seats[s].sittingOut  = FALSE])
  /\ UNCHANGED reused

SitOut(p, s) ==
  /\ ~t.stopped
  /\ s \in SeatsOf(t, p)
  /\ \E best \in HandStrengths :
       LET out == [t EXCEPT !.seats[s].sittingOut = TRUE]
       IN  t' = IF ~InHand(t, s) THEN out
                ELSE IF t.hand.toAct # s
                       THEN [out EXCEPT !.seats[s].foldPending = TRUE]
                       ELSE IF MayAct(t.hand, s) THEN Apply(out, FoldBy(t.hand, s), best)
                            ELSE out
  /\ UNCHANGED <<ledger, reused>>

\* Mutant: sitting in again does not deal.
SitInWaits(p, s) ==
  /\ ~t.stopped
  /\ s \in SeatsOf(t, p)
  /\ t' = [t EXCEPT !.seats[s].sittingOut = FALSE, !.seats[s].foldPending = FALSE]
  /\ UNCHANGED <<ledger, reused>>

SitIn(p, s) ==
  /\ ~t.stopped
  /\ s \in SeatsOf(t, p)
  /\ t' = StartHandIfReady([t EXCEPT !.seats[s].sittingOut  = FALSE,
                                     !.seats[s].foldPending = FALSE])
  /\ UNCHANGED <<ledger, reused>>

\* Submitted by the gateway when the socket closes.
Disconnect(p) ==
  /\ ~t.stopped
  /\ LET gone == [t EXCEPT !.subs = @ \ {p}]
     IN  IF SeatsOf(t, p) = {} THEN t' = RefreshIdle(gone)
         ELSE \E s \in SeatsOf(t, p) :
                t' = RefreshIdle([gone EXCEPT !.seats[s].disconnected = TRUE])
  /\ UNCHANGED <<ledger, reused>>

\* The turn clock ran out: the seat to act sits out and checks if that is legal,
\* else folds.  The deadline is already cleared, and only a step of the hand sets
\* it again.
TurnTimeout(u, best) ==
  LET s   == u.hand.toAct
      out == [u EXCEPT !.turnArmed = FALSE,
                       !.seats[s].sittingOut = @ \/ u.seats[s].player # NoPlayer]
  IN  IF CanCheck(u.hand, s) THEN Apply(out, CheckBy(u.hand, s), best)
      ELSE IF MayAct(u.hand, s) /\ u.hand.committed[s] # u.hand.currentBet
             THEN Apply(out, FoldBy(u.hand, s), best)
             ELSE out

GraceExpired(u, due) ==
  [u EXCEPT !.seats = [s \in Seats |->
     IF s \in due /\ @[s].disconnected
       THEN [@[s] EXCEPT !.disconnected = FALSE, !.sittingOut = TRUE]
       ELSE @[s]]]

\* One expiry of the loop's timer deals with every deadline that is due.
OnTimer(turnDue, graceDue, idleDue) ==
  /\ ~t.stopped
  /\ turnDue \/ graceDue # {} \/ idleDue
  /\ turnDue => t.turnArmed
  /\ \A s \in graceDue : t.seats[s].disconnected
  /\ idleDue => t.idleArmed
  /\ \E best \in HandStrengths :
       LET acted == GraceExpired(IF turnDue THEN TurnTimeout(t, best) ELSE t, graceDue)
       IN  t' = [acted EXCEPT !.stopped = idleDue]
  /\ UNCHANGED <<ledger, reused>>

\* Server shutdown: the hand is voided, the seats are cashed out, the loop ends.
Drain ==
  /\ ~t.stopped
  /\ LET void == VoidHand(t)
     IN  /\ ledger' = [p \in Players |-> ledger[p] +
                         SumOver([s \in Seats |-> void.seats[s].stack], SeatsOf(void, p))]
         /\ t' = [void EXCEPT !.stopped = TRUE,
                              !.seats = [s \in Seats |-> [@[s] EXCEPT !.stack = 0]]]
  /\ UNCHANGED reused

Next ==
  \/ \E p \in Players :
       \/ Join(p) \/ LeaveUnseated(p) \/ StartHand(p) \/ Disconnect(p)
       \/ \E s \in Seats :
            \/ Fold(p, s) \/ Check(p, s) \/ Call(p, s)
            \/ Leave(p, s) \/ SitOut(p, s) \/ SitIn(p, s)
            \/ \E n \in 1 .. MaxBuyIn : SitDown(p, s, n) \/ Rebuy(p, s, n)
            \/ \E to \in 1 .. Cardinality(Players) * StartBalance : Raise(p, s, to)
  \/ \E turnDue, idleDue \in BOOLEAN, graceDue \in SUBSET Seats :
       OnTimer(turnDue, graceDue, idleDue)
  \/ Drain

Spec == Init /\ [][Next]_vars

\* The timer of a running table fires in the end; players owe nothing.  This is
\* weak fairness of the expiry, with what enables it written out.
TurnExpires ==
  \E idleDue \in BOOLEAN, graceDue \in SUBSET Seats : OnTimer(TRUE, graceDue, idleDue)

TurnClockFair == <>[](t.turnArmed /\ ~t.stopped) => []<><<TurnExpires>>_vars

-----------------------------------------------------------------------------
(* Properties *)

TypeOK ==
  /\ t \in TableState
  /\ ledger \in [Players -> Nat]
  /\ reused \in BOOLEAN

\* What a seat can call its own: its stack of the running hand if it was dealt in.
StackOf(u, s) == IF WasDealt(u, s) THEN u.hand.stack[s] ELSE u.seats[s].stack

Money ==
  SumOver(ledger, Players) + t.hand.pot + SumOver([s \in Seats |-> StackOf(t, s)], Occupied(t))

\* Chips are neither made nor lost by joining, leaving, settling, voiding, timers
\* or rebuys, beyond what astray names: pots paid to a seat that is gone or to no
\* layer, a departed seat's bets in a voided hand, bets refunded to a leaver who
\* had folded, and the blind of a leaver the next hand was dealt to.
ChipsAccounted == ~reused => Money + t.astray = Cardinality(Players) * StartBalance

\* The table's state is well formed and its chips are accounted for.
SeatsAndChips == TypeOK /\ ChipsAccounted

\* The stacks voidHand restores: what was dealt is behind the seat or in the pot.
SnapshotIsExact ==
  Running(t) => \A s \in Seats : t.startStack[s] = t.hand.stack[s] + t.hand.totalBet[s]

\* The hand that cannot begin: the heads-up button is all-in with its small blind.
ShortButton(u) ==
  /\ u.hand.street = "Preflop" /\ u.hand.status[u.hand.toAct] = "AllIn"
  /\ u.startStack[u.hand.toAct] <= SmallBlind
  /\ Cardinality({s \in Seats : WasDealt(u, s)}) = 2

\* No handler leaves a hand that is over, or on a seat that cannot act: the folds
\* of leavers in and out of turn, sit-outs and timeouts all settle or move on.
HandIsLive ==
  Running(t) =>
    /\ t.hand.street # "Showdown"
    /\ Cardinality(NonFolded(t.hand)) >= 2
    /\ MayAct(t.hand, t.hand.toAct) \/ ShortButton(t)

\* Folds that end or advance a hand keep it live, and keep the chips accounted for.
LiveAndAccounted == HandIsLive /\ ChipsAccounted

\* The turn deadline is set while a seat can act and cleared with the hand, so a
\* hand never waits for good and no deadline of an old hand strikes a new one.
TurnClockRuns ==
  /\ Running(t) /\ ~ShortButton(t) => t.turnArmed
  /\ t.turnArmed /\ ~t.stopped => Running(t)

\* Two seats ready to play never wait for a hand: whatever handler makes the
\* second one ready also deals.
ReadyTableDeals == ~t.stopped => ~MayStart(t)

\* A table with a subscriber or a seat taken is never about to close as idle.
NotIdleInUse == t.idleArmed => t.subs = {} /\ Occupied(t) = {}

\* A seat between hands has its broke mark exactly while it has no chips, so the
\* eviction neither spares a broke seat nor counts from an old bust.
BrokeIsMarked ==
  \A s \in Occupied(t) :
    ~WasDealt(t, s) /\ ~t.stopped => (t.seats[s].brokeAtHand > 0 <=> t.seats[s].stack = 0)

\* Between two hands nothing is left of the last one: a table with two seats ready has
\* dealt, and broke marks are of seats that are broke now.
BetweenHands == ReadyTableDeals /\ BrokeIsMarked

\* Once a seat asked to sit out it puts nothing more into the hand, even when the
\* request came between two other seats' turns.
SitOutIsHonoured ==
  [][\A s \in Seats :
       t.seats[s].foldPending /\ t'.seats[s].foldPending /\ t'.handNum = t.handNum
         /\ Running(t') => t'.hand.totalBet[s] = t.hand.totalBet[s]]_vars

\* A hand in which a seat can act ends, by the turn clock alone if need be.
HandEnds ==
  \A n \in 1 .. MaxHands :
    t.handNum = n /\ Running(t) /\ ~ShortButton(t) ~> ~(Running(t) /\ t.handNum = n)

\* What handleLeave's comment promises: the committed chips of a leaver stay in the
\* pot, so no hand that is under way has made chips.
ChipsConserved == Running(t) /\ ~reused => Money <= Cardinality(Players) * StartBalance

=============================================================================
