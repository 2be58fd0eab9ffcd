------------------------------ MODULE SitAndGo ------------------------------
(***************************************************************************)
(* One sit-and-go (server/internal/tourney): the registrations a Manager   *)
(* collects, the controller a tournament table calls after every hand, and *)
(* the prizes.  REST calls take the locks m.mu and s.mu separately, so an  *)
(* SNG may be reaped between a Register's lookup and its signup.           *)
(*                                                                         *)
(* The table is reduced to who sits where with which stack, a hand to its  *)
(* outcome: the chips of the dealt chairs, redistributed as side pots allow*)
(* (HandEngine!SidePotsFair).  The clock is reduced to whether the TTL of  *)
(* the present status has passed; the blind levels, which neither places   *)
(* nor prizes depend on, are left out.                                     *)
(***************************************************************************)
EXTENDS Sums, FiniteSets, Sequences, Functions

CONSTANTS
  Players,
  Entrants,         \* Cfg.Seats: how many players start the tournament
  BuyIn,
  StartingStack,
  PayoutPct,        \* percentages of the pool, first place first
  StartBalance,
  MaxCalls,         \* bound: Register calls between their two locks at a time
  TableBuyIns,      \* bound: what sit_down may bring to the tournament table
  MaxMoves          \* bound: players who leave the table, and sit-downs, together

\* The percentages are those of DefaultPayoutPct, the only ones a config is built with: no
\* place pays less than the next.
ASSUME SitAndGoAssumption ==
  /\ IsFiniteSet(Players)
  /\ Entrants \in 2 .. 9 /\ Entrants <= Cardinality(Players)
  /\ BuyIn \in Nat \ {0} /\ StartingStack \in Nat \ {0} /\ StartBalance \in Nat
  /\ PayoutPct \in Seq(Nat) /\ Len(PayoutPct) \in 1 .. Entrants
  /\ SumOver(PayoutPct, DOMAIN PayoutPct) = 100
  /\ \A i, j \in DOMAIN PayoutPct : i < j => PayoutPct[i] >= PayoutPct[j]
  /\ TableBuyIns \subseteq Nat \ {0} /\ MaxMoves \in Nat /\ MaxCalls \in Nat

VARIABLES
  listed,      \* the Manager still has the SNG in its map
  status,
  registered,  \* players in registration order
  prizePool,
  overdue,     \* the TTL of the present status has passed
  pc,          \* [Players -> {"idle", "found"}]: a Register between its two locks
  ledger,
  seated,      \* [subset of Chairs -> Nat]: the stacks at the table, between hands
  sitter,      \* [the same chairs -> Players]: who sits there
  pot,         \* what leavers put into the running hand
  dealing,     \* the table's loop runs and has not seen the tournament end
  up,          \* the table's loop runs
  eliminated, batch,
  finishers,   \* sequence of [player, place, batch, start]
  late,        \* history: somebody signed up after the reaping
  leaves,      \* history: how often somebody left the table
  returns,     \* history: how often somebody sat down at the table
  leaked       \* history: chips leavers took to the ledger, less those sat down with

sngVars   == <<listed, status, registered, prizePool, overdue, pc>>
tableVars == <<seated, sitter, pot, dealing, up>>
ctlVars   == <<eliminated, batch, finishers>>
histVars  == <<late, leaves, returns, leaked>>
vars      == <<sngVars, tableVars, ctlVars, histVars, ledger>>

Statuses == {"Registering", "Running", "Complete"}
Chairs   == 1 .. Entrants    \* the code numbers them from 0
NoSeats  == [s \in {} |-> 0]

Init ==
  /\ listed = TRUE /\ status = "Registering" /\ registered = <<>>
  /\ prizePool = 0 /\ overdue = FALSE
  /\ pc = [p \in Players |-> "idle"]
  /\ ledger = [p \in Players |-> StartBalance]
  /\ seated = NoSeats /\ sitter = NoSeats /\ pot = 0 /\ dealing = FALSE /\ up = FALSE
  /\ eliminated = 0 /\ batch = 0 /\ finishers = <<>>
  /\ late = FALSE /\ leaves = 0 /\ returns = 0 /\ leaked = 0

-----------------------------------------------------------------------------
(* Registration *)

Refunded == [p \in Players |-> ledger[p] + IF p \in Range(registered) THEN BuyIn ELSE 0]

Expire ==
  /\ ~overdue /\ status # "Running"
  /\ overdue' = TRUE
  /\ UNCHANGED <<listed, status, registered, prizePool, pc, ledger,
                 tableVars, ctlVars, histVars>>

\* Any Create, Register or List reaps first, under both locks.
Reapable == listed /\ overdue /\ status # "Running"

Reap ==
  /\ Reapable
  /\ listed' = FALSE
  /\ IF status = "Registering"
       THEN registered' = <<>> /\ ledger' = Refunded
       ELSE UNCHANGED <<registered, ledger>>
  /\ UNCHANGED <<status, prizePool, overdue, pc, tableVars, ctlVars, histVars>>

\* Register, first part: the lookup under m.mu.  A reap that comes due in the same
\* call is the action Reap, after which the lookup fails.  Of an SNG that is closed by
\* now the lookup changes nothing, here or later.
Find(p) ==
  /\ pc[p] = "idle" /\ listed /\ ~Reapable
  /\ Cardinality({q \in Players : pc[q] = "found"}) < MaxCalls
  /\ status = "Registering"
  /\ pc' = [pc EXCEPT ![p] = "found"]
  /\ UNCHANGED <<listed, status, registered, prizePool, overdue, ledger,
                 tableVars, ctlVars, histVars>>

\* The players sit in the order of their registration.
Seating == [s \in Chairs |-> StartingStack]

\* Register, second part, under s.mu: a closed SNG, a second registration and an
\* empty account are refused; the last seat starts the tournament.  The calls that
\* still wait for s.mu then are refused, which changes nothing.
Signup(p) ==
  LET accepted == /\ status = "Registering" /\ p \notin Range(registered)
                  /\ ledger[p] >= BuyIn
      full     == Len(registered) + 1 = Entrants
  IN  /\ pc[p] = "found"
      /\ pc' = [q \in Players |-> IF q = p \/ (accepted /\ full) THEN "idle" ELSE pc[q]]
      /\ IF ~accepted
           THEN UNCHANGED <<registered, prizePool, ledger, late, status, overdue, tableVars>>
           ELSE /\ registered' = Append(registered, p)
                /\ prizePool'  = prizePool + BuyIn
                /\ ledger'     = [ledger EXCEPT ![p] = @ - BuyIn]
                /\ late'       = (late \/ ~listed)
                /\ status'     = IF full THEN "Running" ELSE status
                /\ overdue'    = (overdue /\ ~full)
                /\ seated'     = IF full THEN Seating ELSE seated
                /\ sitter'     = IF full THEN registered' ELSE sitter
                /\ dealing'    = full
                /\ up'         = full
                /\ UNCHANGED pot
      /\ UNCHANGED <<listed, ctlVars, leaves, returns, leaked>>

-----------------------------------------------------------------------------
(* The controller *)

\* The place each busted seat finishes in: a bigger stack before the hand finishes
\* higher, and equal stacks go by seat.
Outlasts(s, u) ==
  \/ seated[s] > seated[u]
  \/ seated[s] = seated[u] /\ s < u

PlaceOf(s, busted) ==
  Entrants - eliminated - Cardinality({u \in busted : Outlasts(s, u)})

\* Mutant: simultaneous busts take their places in seat order.
FinishersOfBySeat(busted) ==
  [i \in 1 .. Cardinality(busted) |->
    LET s == CHOOSE q \in busted : Cardinality({u \in busted : u < q}) = i - 1
    IN  [player |-> sitter[s], place |-> Entrants - eliminated - Cardinality(busted) + i,
         batch |-> batch + 1, start |-> seated[s]]]

\* The records of the busted seats, best place first.
FinishersOf(busted) ==
  [i \in 1 .. Cardinality(busted) |->
    LET place == Entrants - eliminated - Cardinality(busted) + i
        s     == CHOOSE q \in busted : PlaceOf(q, busted) = place
    IN  [player |-> sitter[s], place |-> place, batch |-> batch + 1, start |-> seated[s]]]

\* computePrizes: the rounding remainder goes to the first place.
Cuts == [i \in DOMAIN PayoutPct |-> (prizePool * PayoutPct[i]) \div 100]

PrizeOfPlace(place) ==
  LET rest == prizePool - SumOver(Cuts, DOMAIN PayoutPct)
  IN  IF place \notin DOMAIN PayoutPct THEN 0
      ELSE Cuts[place] + IF place = 1 THEN rest ELSE 0

\* The winner has the place 1 and a batch of its own.
WinnerOf(alive) ==
  [i \in 1 .. Cardinality(alive) |->
    LET s == CHOOSE q \in alive : TRUE
    IN  [player |-> sitter[s], place |-> 1, batch |-> 0, start |-> seated[s]]]

Tied(f, g) == f.batch = g.batch /\ f.start = g.start

\* The finishers who tied with f, and what their places win.
Group(f, fs)  == {g \in Range(fs) : Tied(f, g)}
PrizesOf(gs)  == SumOver([g \in gs |-> PrizeOfPlace(g.place)], gs)

\* Mutant: the odd chips of a tie are not paid.
PrizeWithoutOddChips(f, fs) == PrizesOf(Group(f, fs)) \div Cardinality(Group(f, fs))

\* Finishers who tied pool their prizes and share them; the odd chips go to the
\* better places.
Prize(f, fs) ==
  LET group == Group(f, fs)
      n     == Cardinality(group)
  IN  PrizesOf(group) \div n
        + (IF Cardinality({g \in group : g.place < f.place}) < PrizesOf(group) % n
             THEN 1 ELSE 0)

\* A player with several finishes, one for each time it sat down, is credited the
\* prize of the last one for every one of them (payByPlayer).
PrizeFor(p, fs) ==
  LET mine == {i \in DOMAIN fs : fs[i].player = p}
  IN  IF mine = {} THEN 0 ELSE Cardinality(mine) * Prize(fs[Max(mine)], fs)

-----------------------------------------------------------------------------
(* The table *)

\* What a folded seat may have put in that no seat of S, all-in for less, covers.
Uncovered(S, dealt) ==
  LET most == Max({seated[q] : q \in S})
      over == [s \in dealt \ S |-> IF seated[s] > most THEN seated[s] - most ELSE 0]
  IN  SumOver(over, dealt \ S)

\* The chips that may vanish: in layers that nobody left in the hand is eligible for,
\* or won by a seat that is gone but was not folded, to which each other seat may
\* lose as much as it had put in.
MostLost(dealt) ==
  LET allIn == {S \in SUBSET dealt : Cardinality(S) >= 2}
  IN  pot * (Cardinality(dealt) + 1) + Max({0} \cup {Uncovered(S, dealt) : S \in allIn})

\* What a seat may win of the others: no more from another than it risked itself.
Reach(s, dealt) ==
  SumOver([u \in dealt |-> IF seated[s] < seated[u] THEN seated[s] ELSE seated[u]], dealt)

AtStake(dealt) == SumOver(seated, dealt) + pot

\* What a hand may leave the dealt seats with.
Outcomes(dealt) ==
  {r \in [dealt -> 0 .. AtStake(dealt)] :
    /\ SumOver(r, dealt) \in AtStake(dealt) - MostLost(dealt) .. AtStake(dealt)
    /\ \A s \in dealt : r[s] <= Reach(s, dealt) + pot}

\* What the controller does when the table reports `stack': it places the seats that
\* busted, and pays when at most one is left.
OnHandComplete(stack, accounts) ==
  LET busted == {s \in DOMAIN stack : stack[s] = 0}
      alive  == DOMAIN stack \ busted
      done   == Cardinality(alive) <= 1
      placed == finishers \o FinishersOf(busted)
      final  == IF done THEN placed \o WinnerOf(alive) ELSE placed
  IN  /\ batch'      = IF busted # {} THEN batch + 1 ELSE batch
      /\ eliminated' = eliminated + Cardinality(busted)
      /\ finishers'  = final
      /\ status'     = IF done THEN "Complete" ELSE status
      /\ dealing'    = (dealing /\ ~done)
      /\ ledger'     = IF done THEN [p \in Players |-> accounts[p] + PrizeFor(p, final)]
                       ELSE accounts

\* The stacks the table reports after a hand of the seats dealt in.
StacksAfter(dealt, outcome) ==
  [s \in DOMAIN seated |-> IF s \in dealt THEN outcome[s] ELSE seated[s]]

\* Only the chairs of S stay taken, with these stacks.
Stay(S, stack) ==
  /\ seated' = Restrict(stack, S)
  /\ sitter' = Restrict(sitter, S)

\* A hand among the seats that were not sitting out, alone if all others left.
PlayHand(dealt, outcome) ==
  LET stack == StacksAfter(dealt, outcome)
  IN  /\ dealing
      /\ OnHandComplete(stack, ledger)
      /\ Stay({s \in DOMAIN seated : stack[s] > 0}, stack)
      /\ pot'    = 0
      /\ UNCHANGED <<listed, registered, prizePool, overdue, pc, up, histVars>>

Moves == leaves + returns

\* handleSitDown asks neither whether the table is a tournament's nor whether the player
\* already sits: whoever finds a seat free, eliminated or not, buys in from the ledger.
SitDown(p, s, buyIn) ==
  /\ up /\ Moves < MaxMoves
  /\ s \notin DOMAIN seated
  /\ ledger[p] >= buyIn
  /\ ledger'  = [ledger EXCEPT ![p] = @ - buyIn]
  /\ seated'  = [u \in DOMAIN seated \cup {s} |-> IF u = s THEN buyIn ELSE seated[u]]
  /\ sitter'  = [u \in DOMAIN seated \cup {s} |-> IF u = s THEN p ELSE sitter[u]]
  /\ returns' = returns + 1
  /\ leaked'  = leaked - buyIn
  /\ UNCHANGED <<sngVars, ctlVars, pot, dealing, up, late, leaves>>

\* handleLeave at a tournament table: the seat goes without the controller's
\* knowledge, and its chips go to the ledger but for those it leaves in the pot of
\* a hand that goes on.  Heads-up that is the hand of a short button.
Leave(s, inPot) ==
  /\ up /\ Moves < MaxMoves /\ s \in DOMAIN seated
  /\ inPot \in 0 .. seated[s]
  /\ inPot > 0 =>
       /\ dealing
       /\ \/ Cardinality(DOMAIN seated) > 2
          \/ pot > 0
          \/ Cardinality(DOMAIN seated) = 2 /\ inPot = seated[s]
  /\ pot'    = pot + inPot
  /\ Stay(DOMAIN seated \ {s}, seated)
  /\ ledger' = [ledger EXCEPT ![sitter[s]] = @ + seated[s] - inPot]
  /\ leaves' = leaves + 1
  /\ leaked' = leaked + seated[s] - inPot
  /\ UNCHANGED <<sngVars, ctlVars, late, returns, dealing, up>>

\* A leave that ends the hand settles it before the seat goes: the controller still
\* sees the leaver, who is placed if nothing is left of the stack, and is otherwise
\* dealt the next hand, whose pot gets the leaver's blind.
LeaveEndsHand(s, dealt, outcome, blind) ==
  LET stack == StacksAfter(dealt, outcome)
      rest  == {u \in DOMAIN seated \ {s} : stack[u] > 0}
  IN  /\ dealing /\ Moves < MaxMoves /\ s \in dealt
      /\ outcome[s] <= seated[s] /\ \A u \in dealt \ {s} : outcome[u] > 0
      /\ Cardinality({u \in dealt : outcome[u] > seated[u]}) <= 1
      /\ blind \in 0 .. outcome[s]
      /\ Cardinality(rest) = 1 /\ outcome[s] > 0 => blind > 0
      /\ OnHandComplete(stack, [ledger EXCEPT ![sitter[s]] = @ + outcome[s]])
      /\ Stay(rest, stack)
      /\ pot'    = blind
      /\ leaves' = IF outcome[s] > 0 THEN leaves + 1 ELSE leaves
      /\ leaked' = leaked + outcome[s]
      /\ UNCHANGED <<listed, registered, prizePool, overdue, pc, up, late, returns>>

-----------------------------------------------------------------------------
(* Shutdown of the process: the tables drain, then the Manager refunds *)

\* A tournament table voids its hand and cashes out nobody.
DrainTable ==
  /\ up
  /\ up' = FALSE /\ dealing' = FALSE
  /\ UNCHANGED <<sngVars, ctlVars, histVars, ledger, seated, sitter, pot>>

\* Mutant: the shutdown refunds a paid-out tournament as well.
ShutdownRefundsAll ==
  /\ listed /\ ~up /\ \A p \in Players : pc[p] = "idle"
  /\ listed' = FALSE
  /\ registered' = <<>> /\ ledger' = Refunded
  /\ UNCHANGED <<status, prizePool, overdue, pc, tableVars, ctlVars, histVars>>

\* After the HTTP server and the tables: what has not paid out is refunded.
Shutdown ==
  /\ listed /\ ~up /\ \A p \in Players : pc[p] = "idle"
  /\ listed' = FALSE
  /\ IF status # "Complete"
       THEN registered' = <<>> /\ ledger' = Refunded
       ELSE UNCHANGED <<registered, ledger>>
  /\ UNCHANGED <<status, prizePool, overdue, pc, tableVars, ctlVars, histVars>>

Next ==
  \/ Expire \/ Reap \/ DrainTable \/ Shutdown
  \/ \E p \in Players : Find(p) \/ Signup(p)
  \/ \E dealt \in SUBSET DOMAIN seated :
       /\ Cardinality(dealt) >= 2 \/ (pot > 0 /\ Cardinality(dealt) = 1)
       /\ \E outcome \in Outcomes(dealt) :
            \/ PlayHand(dealt, outcome)
            \/ \E s \in Chairs, blind \in 0 .. StartingStack * Entrants :
                 LeaveEndsHand(s, dealt, outcome, blind)
  \/ \E s \in Chairs, n \in 0 .. StartingStack * Entrants : Leave(s, n)
  \/ \E p \in Players, s \in Chairs, buyIn \in TableBuyIns : SitDown(p, s, buyIn)

Spec == Init /\ [][Next]_vars

-----------------------------------------------------------------------------
(* Properties *)

Finisher == [player : Players, place : Int, batch : Nat, start : Nat]

TypeOK ==
  /\ listed \in BOOLEAN /\ status \in Statuses /\ overdue \in BOOLEAN
  /\ registered \in Seq(Players) /\ prizePool \in Nat
  /\ pc \in [Players -> {"idle", "found"}]
  /\ ledger \in [Players -> Nat]
  /\ DOMAIN seated \subseteq Chairs /\ seated \in [DOMAIN seated -> Nat \ {0}]
  /\ sitter \in [DOMAIN seated -> Players]
  /\ pot \in Nat /\ dealing \in BOOLEAN /\ up \in BOOLEAN
  /\ eliminated \in 0 .. Entrants + returns /\ batch \in 0 .. eliminated
  /\ finishers \in Seq(Finisher)
  /\ late \in BOOLEAN /\ leaves \in Nat /\ returns \in Nat /\ leaked \in Int

\* The prizes of places in which nobody finished.
Unclaimed == prizePool - PrizesOf(Range(finishers))

Held == IF status = "Complete" THEN Unclaimed ELSE BuyIn * Len(registered)

\* Every buy-in is on an account, held for the tournament, refunded once or paid
\* out as a prize once, ties and rounding included; only chips that leavers take
\* from the table, less those brought to it, come on top.  With two finishes of one
\* player the prizes are not the pool.
BuyInsAccounted ==
  ~late /\ (status = "Complete" => returns = 0) =>
    SumOver(ledger, Players) + Held = Cardinality(Players) * StartBalance + leaked

\* The tournament was played by its entrants alone, to the end.
Undisturbed == leaves = 0 /\ returns = 0

\* With nobody gone from the table, the whole pool is paid.
PoolPaidOut ==
  status = "Complete" /\ Undisturbed => Unclaimed = 0

\* Buy-ins, refunds and prizes add up, whatever order signups, reaping, hands, leaves and
\* the shutdown come in.
MoneyAccounted == TypeOK /\ BuyInsAccounted /\ PoolPaidOut

\* No two players finish in the same place, and all places are taken if nobody left.
PlacesFilled ==
  returns = 0 =>
    /\ \A i, j \in DOMAIN finishers : i # j =>
         /\ finishers[i].place # finishers[j].place
         /\ finishers[i].player # finishers[j].player
    /\ status = "Complete" /\ Undisturbed =>
         {finishers[i].place : i \in DOMAIN finishers} = 1 .. Entrants

\* Who lasts longer finishes higher, and of those who bust in one hand who had more.
PlacesOrdered ==
  \A f, g \in Range(finishers) :
    \/ f.batch > g.batch /\ g.batch > 0
    \/ f.batch = 0 /\ g.batch > 0 /\ returns = 0
    \/ f.batch = g.batch /\ f.start > g.start
    => f.place < g.place

\* A better place never pays less, and a tie is split but for one chip.
PrizesFollowPlaces ==
  status = "Complete" /\ returns = 0 =>
    \A f, g \in Range(finishers) :
      f.place < g.place =>
        /\ Prize(f, finishers) >= Prize(g, finishers)
        /\ Tied(f, g) => Prize(f, finishers) - Prize(g, finishers) <= 1

\* Places and prizes are those of the order in which players busted.
StandingsAreFair == PlacesFilled /\ PlacesOrdered /\ PrizesFollowPlaces

ChairsOf(p) == {s \in DOMAIN seated : sitter[s] = p}

\* Once the prizes are paid nothing more is refunded: not by the reaper, not at
\* shutdown; an account changes only with its owner's seats.
PaidOnce ==
  [][status = "Complete" =>
       \A p \in Players : ledger'[p] # ledger[p] => ChairsOf(p)' # ChairsOf(p)]_vars

\* What reap's comment says and a racing Register breaks (no run checks it): an SNG that
\* is torn down has refunded its buy-ins.
ReapedHoldsNothing == ~listed /\ status = "Registering" => registered = <<>>

=============================================================================
