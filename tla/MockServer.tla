----------------------------- MODULE MockServer ------------------------------
(***************************************************************************)
(* The demo table that a build without a server plays against              *)
(* (client/src/net/mockServer.ts): a script of timers around one player.   *)
(* m is the mock's state; every operator is a callback of a timer or a     *)
(* command, and gives the state after it with the events it emitted.       *)
(*                                                                         *)
(* Cards, names and sequence numbers are left out.                         *)
(***************************************************************************)
EXTENDS Integers, Sequences, SequencesExt

DemoSeats == 0 .. 5
Hero      == 0
SB        == 10
BB        == 20

Dealt == <<2000, 1840, 2260, 1500, 3100, 990>>   \* by seat, from the first
None  == -1

\* What a timer is for; the streets are those it advances the hand to.
TimerKind == {"deal", "fold", "call", "actor", "confirm", "Flop", "Turn", "River", "showdown",
              "reveal"}

\* A confirmation is of a stack and an amount, those of the player's seat as long as same.
TimerRecord == [ms : Nat, what : TimerKind, same : BOOLEAN, stack : Int, amount : Int]

Mock ==
  [hand   : Nat,                       \* hands dealt so far
   stack  : [DemoSeats -> Int],
   last   : [DemoSeats -> Int],        \* amount of lastAction
   out    : BOOLEAN,                   \* the player sits out
   pot    : Int,
   street : {"none", "Preflop", "Flop", "Turn", "River"},
   timers : Seq(TimerRecord)]

Timer(ms, what) == [ms |-> ms, what |-> what, same |-> FALSE, stack |-> 0, amount |-> 0]

After(m, ms, what) == [m EXCEPT !.timers = Append(@, Timer(ms, what))]

\* A script of timers, started together.
Script(m, steps) == FoldLeft(LAMBDA n, s : After(n, s[1], s[2]), m, steps)

\* The mock of a player who comes to the table, n hands after the first.
Connect(n) ==
  Script([hand |-> n, stack |-> [i \in DemoSeats |-> 0], last |-> [i \in DemoSeats |-> 0],
          out |-> FALSE, pot |-> 0, street |-> "none", timers |-> <<>>],
         << <<260, "deal">> >>)

\* Browsers fire a timer only after those that were set before it for no longer.
MayFire(m, i) == \A j \in 1 .. i - 1 : m.timers[j].ms > m.timers[i].ms

Gives(m, events) == [m |-> m, ev |-> events]

Out(m) == IF m.out THEN {Hero} ELSE {}

Snapshot(m, turn) ==
  [type |-> "table_snapshot", stack |-> m.stack, last |-> m.last, out |-> Out(m), pot |-> m.pot,
   street |-> m.street, turn |-> turn, mine |-> Hero, running |-> TRUE]

SeatUpdate(m) ==
  [type |-> "seat_update", stack |-> m.stack, last |-> m.last, out |-> Out(m)]

BetPlaced(m, i, amount, stack, turn) ==
  [type |-> "bet_placed", seat |-> i, amount |-> amount, stack |-> stack, pot |-> m.pot,
   turn |-> turn, hand |-> m.hand]

\* A confirmation under way reads the player's seat when it fires, as long as the seat is
\* the object it was made with.
Reread(m) ==
  [m EXCEPT !.timers = [i \in DOMAIN @ |->
     IF @[i].same THEN [@[i] EXCEPT !.stack = m.stack[Hero], !.amount = m.last[Hero]]
     ELSE @[i]]]

\* The seats are new objects.
Copied(m) == [m EXCEPT !.timers = [i \in DOMAIN @ |-> [@[i] EXCEPT !.same = FALSE]]]

\* The deal forgets what the last hand paid, but none of its timers.
DealHand(m) ==
  LET d == [Copied(m) EXCEPT
              !.hand = @ + 1, !.stack = [i \in DemoSeats |-> Dealt[i + 1]],
              !.last = [i \in DemoSeats |-> CASE i = 3 -> SB [] i = 4 -> BB [] OTHER -> 0],
              !.out = FALSE, !.pot = SB + BB, !.street = "Preflop"]
  IN  Gives(Script(d, << <<700, "fold">>, <<1400, "call">>, <<2100, "actor">> >>),
            <<Snapshot(d, 5), [type |-> "hand_dealt", seat |-> Hero], [type |-> "table_status"]>>)

BotAction(m, i, put) ==
  LET n == [m EXCEPT !.stack[i] = @ - put, !.pot = @ + put, !.last[i] = put]
  IN  Gives(n, <<BetPlaced(n, i, put, n.stack[i], None)>>)

Advance(m, street) ==
  LET n == [Copied(m) EXCEPT !.street = street, !.last = [i \in DemoSeats |-> 0]]
  IN  Gives(n, <<[type |-> "street_advanced", street |-> street, pot |-> n.pot, turn |-> Hero]>>)

\* The player wins whatever is in the pot, which stays there until the next deal.
Showdown(m) ==
  Gives(Script(m, << <<500, "reveal">>, <<2600, "deal">> >>),
        <<[type |-> "showdown", won |-> [i \in DemoSeats |-> IF i = Hero THEN m.pot ELSE 0]]>>)

Fire(m, i) ==
  LET t == m.timers[i]
      n == [m EXCEPT !.timers = RemoveAt(@, i)]
  IN  CASE t.what = "deal"     -> DealHand(n)
        [] t.what = "fold"     -> BotAction(n, 5, 0)
        [] t.what = "call"     -> BotAction(n, 1, BB)
        [] t.what = "actor"    -> Gives(n, <<Snapshot(n, Hero)>>)
        [] t.what = "confirm"  -> Gives(n, <<BetPlaced(n, Hero, t.amount, t.stack, 1)>>)
        [] t.what = "showdown" -> Showdown(n)
        [] t.what = "reveal"   -> Gives(n, <<[type |-> "fair_reveal", hand |-> n.hand]>>)
        [] OTHER               -> Advance(n, t.what)

-----------------------------------------------------------------------------
(* Commands: send *)

\* Every bet that does not fold starts a whole run-out, whatever is under way.
PlaceBet(m, bet) ==
  LET more == bet.amount - m.last[Hero]
      put  == CASE bet.kind \in {"fold", "check"} -> 0
                [] bet.kind = "call"              -> BB
                [] OTHER                          -> IF more > 0 THEN more ELSE 0
      n    == Reread([m EXCEPT !.stack[Hero] = @ - put, !.pot = @ + put,
                               !.last[Hero] = IF bet.kind = "call" THEN BB ELSE bet.amount])
      c    == [n EXCEPT !.timers = Append(@, [ms |-> 140, what |-> "confirm", same |-> TRUE,
                                              stack |-> n.stack[Hero], amount |-> n.last[Hero]])]
  IN  Gives(IF bet.kind = "fold" THEN After(c, 600, "deal")
            ELSE Script(c, << <<900, "call">>, <<1500, "Flop">>, <<2600, "Turn">>,
                              <<3700, "River">>, <<4800, "showdown">> >>), <<>>)

SitOut(m, away) == LET n == [m EXCEPT !.out = away] IN Gives(n, <<SeatUpdate(n)>>)

Rebuy(m, amount) ==
  LET n == Reread([m EXCEPT !.stack[Hero] = @ + amount, !.out = FALSE])
  IN  IF amount \in BB .. 1000 * BB THEN Gives(n, <<SeatUpdate(n)>>)
      ELSE Gives(m, <<[type |-> "error", code |-> "brief"]>>)

=============================================================================
