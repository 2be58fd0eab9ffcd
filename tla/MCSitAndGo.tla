----------------------------- MODULE MCSitAndGo -----------------------------
(* Model checking instance of SitAndGo: three players and three paid places. *)
EXTENDS SitAndGo, TLC

ThreePlaces == <<50, 40, 10>>
SymmetricPlayers == Permutations(Players)
=============================================================================
