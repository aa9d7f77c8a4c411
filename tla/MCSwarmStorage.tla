--------------------------- MODULE MCSwarmStorage ---------------------------
(* Instances of SwarmStorage for TLC.                                      *)
EXTENDS SwarmStorage, TLC

CONSTANTS u1, u2, u3, risk, executor

\* Two updates of one agent, as a handler and stop() make them, and one of
\* another.
TwoAgents == (u1 :> executor @@ u2 :> executor @@ u3 :> risk)

\* The appends are interchangeable, and so are the two updates of one agent.
Alike == Permutations(Appends) \cup Permutations({u1, u2})
=============================================================================
