------------------------------- MODULE MCTable -------------------------------
(***************************************************************************)
(* Model checking instances of Table: an empty two-seat table with its     *)
(* whole life, and a full three-seat private room whose host is about to   *)
(* start, where nobody else comes and every connection stays up.           *)
(***************************************************************************)
EXTENDS Table, TLC

CONSTANTS ann, bob, cyd

SymmetricPlayers == Permutations(Players)

SeatedAt(s) == CASE s = 0 -> ann [] s = 1 -> bob [] OTHER -> cyd
BuyInAt(s)  == IF s = 2 THEN 3 ELSE 2

\* Reached by SitDown three times.
SeatedInit ==
  /\ t = [NewTable(FALSE, ann) EXCEPT
            !.seats = [s \in Seats |-> [EmptySeat EXCEPT !.player = SeatedAt(s),
                                                         !.stack  = BuyInAt(s)]],
            !.subs  = Players, !.idleArmed = FALSE]
  /\ ledger = [p \in Players |->
                 StartBalance - BuyInAt(CHOOSE s \in Seats : SeatedAt(s) = p)]
  /\ reused = FALSE

SeatedNext ==
  \/ \E p \in Players :
       \/ StartHand(p)
       \/ \E s \in Seats :
            \/ Fold(p, s) \/ Check(p, s) \/ Call(p, s)
            \/ Leave(p, s) \/ SitOut(p, s) \/ SitIn(p, s)
            \/ \E to \in 1 .. Cardinality(Players) * StartBalance : Raise(p, s, to)
  \/ OnTimer(TRUE, {}, FALSE)
  \/ Drain

SeatedSpec == SeatedInit /\ [][SeatedNext]_vars /\ TurnClockFair
=============================================================================
