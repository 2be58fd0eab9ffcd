------------------------------- MODULE Protocol -------------------------------
(***************************************************************************)
(* The messages between a table view and whatever runs its table           *)
(* (client/src/net/protocol.ts), as far as the store tells them apart.     *)
(* Left out are the table's name, cards, names, button, blinds, deadlines  *)
(* and sequence numbers, and what a command carries but for a bet.         *)
(*                                                                         *)
(* A message is told by its shape: the store has no rule for any other.    *)
(***************************************************************************)
EXTENDS Integers

CONSTANT TableSeats    \* the seats of the table

None == -1

SeatOrNone == TableSeats \cup {None}
Street     == {"none", "Preflop", "Flop", "Turn", "River", "Showdown"}

-----------------------------------------------------------------------------
(* Commands *)

BetKind == {"check", "call", "bet", "raise", "fold"}

\* The amount is what the action bar says, which only a bet or a raise is about.
PlaceBetCmd == [type : {"place_bet"}, bet : [kind : BetKind, amount : Int]]

Command ==
  PlaceBetCmd
  \cup [type : {"join_table", "sit_down", "leave_table", "resync", "start_hand",
                "rebuy", "sit_out", "sit_in"}]

-----------------------------------------------------------------------------
(* Events.  A seat's state is its stack, the amount of its last action and whether it     *)
(* sits out; a list of them is a function of the seats for each.  Chips are numbers of any *)
(* sign: the demo lets the player bet more than it has.                                    *)

\* To one player: the seat it was dealt to.
HandDealt == [type : {"hand_dealt"}, seat : TableSeats]

\* The hand is not in the message; it is there for the hand history.
BetPlaced ==
  [type : {"bet_placed"}, seat : TableSeats, amount : Int, stack : Int, pot : Int,
   turn : SeatOrNone, hand : Nat]

StreetAdvanced == [type : {"street_advanced"}, street : Street, pot : Int, turn : SeatOrNone]

Showdown == [type : {"showdown"}, won : [TableSeats -> Int]]

\* How the table stands.
TableSnapshot ==
  [type : {"table_snapshot"}, stack : [TableSeats -> Int], last : [TableSeats -> Int],
   out : SUBSET TableSeats, pot : Int, street : Street, turn : SeatOrNone, mine : SeatOrNone,
   running : BOOLEAN]

\* All seats, not those that changed.
SeatUpdate ==
  [type : {"seat_update"}, stack : [TableSeats -> Int], last : [TableSeats -> Int],
   out : SUBSET TableSeats]

FairReveal == [type : {"fair_reveal"}, hand : Nat]

\* Most are shown for a moment, those that end a connection until the page is reloaded.
ErrorEvent == [type : {"error"}, code : {"brief", "fatal"}]

TableStatus == [type : {"table_status"}]

BlindsUp      == [type : {"blinds_up"}, level : Nat]
Elimination   == [type : {"elimination"}, seat : TableSeats, place : Nat \ {0}]
TourneyResult == [type : {"tourney_result"}]

=============================================================================
