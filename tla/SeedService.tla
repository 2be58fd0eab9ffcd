----------------------------- MODULE SeedService -----------------------------
(***************************************************************************)
(* What the mesh takes a fair-seed round for (client/src/local/mesh.ts):   *)
(* each peer that coordinates opens a round, the round gets complete, and  *)
(* its seed is delivered once; or the peer loses the role and drops it.    *)
(* Mesh is written on this; FairSeed implements it with messages.          *)
(***************************************************************************)
CONSTANT Coordinators

VARIABLE round    \* [Coordinators -> what the peer has under way]

Init == round = [c \in Coordinators |-> "none"]

Step(c, from, to) == round[c] = from /\ round' = [round EXCEPT ![c] = to]

Open(c)     == Step(c, "none", "open")
Complete(c) == Step(c, "open", "complete")
Deliver(c)  == Step(c, "complete", "none")
Abandon(c)  == Step(c, "open", "none")

Next == \E c \in Coordinators : Open(c) \/ Complete(c) \/ Deliver(c) \/ Abandon(c)

\* An open round does not stay open, and a complete one is delivered.
Progress ==
  \A c \in Coordinators : WF_round(Complete(c) \/ Abandon(c)) /\ WF_round(Deliver(c))

Spec == Init /\ [][Next]_round /\ Progress

=============================================================================
