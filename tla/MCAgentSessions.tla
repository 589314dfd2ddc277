-------------------------- MODULE MCAgentSessions --------------------------
(* Instances of AgentSessions for TLC. *)
EXTENDS AgentSessions, TLC

Symmetry == Permutations(Agent) \cup Permutations(Ws)
=============================================================================
