---------------------- MODULE MCGuacamoleProvisioning ----------------------
(* Instances of GuacamoleProvisioning for TLC. *)
EXTENDS GuacamoleProvisioning, TLC

CONSTANTS a1, a2, u1, o1

Plain(kind, a) == [kind |-> kind, agent |-> a, who |-> None, owner |-> None,
                   recorded |-> FALSE, files |-> TRUE]

ForUser(a) == [Plain("user", a) EXCEPT !.who = u1]

\* Every kind of request for one agent, and for another whatever gives it a
\* group and a connection of its own.
MCCall ==
    {Plain("deploy", a1), [Plain("patch", a1) EXCEPT !.files = FALSE],
     Plain("plain", a1), [Plain("plain", a1) EXCEPT !.owner = o1, !.recorded = TRUE],
     ForUser(a1), [ForUser(a1) EXCEPT !.owner = o1, !.recorded = TRUE],
     Plain("deploy", a2)}

Symmetry == Permutations(Request)
=============================================================================
