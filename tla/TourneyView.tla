----------------------------- MODULE TourneyView -----------------------------
(***************************************************************************)
(* What the store keeps of a tournament (client/src/store/gameStore.ts)    *)
(* and when the screens of client/src/components/tourney show it.          *)
(***************************************************************************)
EXTENDS Integers

Nobody == -1

Tourney ==
  [level  : Nat,
   place  : Nat,                        \* myPlace, 0 for none
   banner : BOOLEAN,                    \* blindsUp
   last   : Nat \cup {Nobody},          \* the seat of lastElimination
   result : BOOLEAN]

EmptyTourney == [level |-> 0, place |-> 0, banner |-> FALSE, last |-> Nobody, result |-> FALSE]

OnBlindsUp(t, level) == [t EXCEPT !.level = level, !.banner = TRUE]

\* The player is recognised by the seat; an elimination replaces the one before.
OnElimination(t, seat, place, mine) ==
  [t EXCEPT !.last = seat, !.place = IF seat = mine THEN place ELSE @]

OnTourneyResult(t) == [t EXCEPT !.result = TRUE]

ClearBlindsUpBanner(t) == [t EXCEPT !.banner = FALSE]
ClearElimination(t)    == [t EXCEPT !.last = Nobody]

\* EliminationToast is for the others; PlacementScreen gives way to StandingsOverlay.
ToastShown(t, mine) == t.last # Nobody /\ t.last # mine
PlacementShown(t)   == t.place # 0 /\ ~t.result
StandingsShown(t)   == t.result

=============================================================================
