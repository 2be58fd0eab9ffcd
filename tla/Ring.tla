--------------------------------- MODULE Ring ---------------------------------
(***************************************************************************)
(* The seats of a table and their order.  The engine walks around the seats *)
(* with cyclic loops, and so do the local core and the mesh, each with its  *)
(* own: they all look for the next seat of some set.                        *)
(***************************************************************************)
EXTENDS Integers, FiniteSetsExt

CONSTANT NumSeats    \* seats of the table, numbered from 0

ASSUME NumSeatsAssumption == NumSeats \in Nat /\ NumSeats >= 2

Seats  == 0 .. NumSeats - 1
Nobody == -1

\* How many steps to the left of seat `from' seat i sits: 1 .. NumSeats, the
\* seat itself coming last.
Distance(from, i) == IF i > from THEN i - from ELSE i - from + NumSeats

\* The first member of S to the left of `from': the lowest seat above it, else the
\* lowest of all, or Nobody.
FirstAfter(from, S) ==
  LET left == {i \in S : i > from}
  IN  IF S = {} THEN Nobody ELSE Min(IF left = {} THEN S ELSE left)

=============================================================================
