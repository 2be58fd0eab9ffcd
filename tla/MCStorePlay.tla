----------------------------- MODULE MCStorePlay -----------------------------
(* The instance of StorePlay that TLC checks. *)
EXTENDS StorePlay

\* The seats that are left split, or all but the middle one do.
OneOutcome == {[s \in Seats |-> IF s = 1 THEN 1 ELSE 2]}
=============================================================================
