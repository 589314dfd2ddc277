------------------------ MODULE MCGuacamoleSessions ------------------------
(* Instances of GuacamoleSessions for TLC. *)
EXTENDS GuacamoleSessions, TLC

\* Agents are never chosen: New takes requests, tokens, tunnels and closes only.
Symmetry == Permutations(Agent)
=============================================================================
