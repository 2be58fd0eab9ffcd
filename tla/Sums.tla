-------------------------------- MODULE Sums --------------------------------
(* Sums of chips: over seats, players or places. *)
EXTENDS Integers, FiniteSetsExt

SumOver(f, S) == MapThenSumSet(LAMBDA x : f[x], S)

=============================================================================
