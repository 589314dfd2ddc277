--------------------------- MODULE MCDeployments ---------------------------
(* Instances of Deployments for TLC. *)
EXTENDS Deployments, TLC

\* For invariants only.
Symmetry == Permutations(Deployment) \cup Permutations(Agent)
=============================================================================
