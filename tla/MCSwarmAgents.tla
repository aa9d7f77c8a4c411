---------------------------- MODULE MCSwarmAgents ----------------------------
(* Instances of SwarmAgents for TLC: see the Agents*.cfg files.            *)
EXTENDS SwarmAgents
=============================================================================
