------------------------------ MODULE MCSession ------------------------------
(* Model checking instance of Session: one client, and the other subscribers. *)
EXTENDS Session
=============================================================================
