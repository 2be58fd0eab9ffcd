---------------------------- MODULE MCHandEngine ----------------------------
(* Model checking instance of HandEngine: the constants are in the cfgs. *)
EXTENDS HandEngine
=============================================================================
