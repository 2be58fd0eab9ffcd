------------------------------- MODULE MCMesh -------------------------------
(***************************************************************************)
(* The instances of Mesh that TLC checks.  What the chips and cards decide *)
(* is made to depend on how many events there were, so that the ways a     *)
(* hand may go break different seats, one at a time.                       *)
(***************************************************************************)
EXTENDS Mesh

\* Who still plays is all-in after the betting.
MCAllIn(c) == c.dealt \ c.out

MCPaid(c) == Seats \ {(c.events + c.hands) % NumSeats}
=============================================================================
