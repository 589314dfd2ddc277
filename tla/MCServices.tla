----------------------------- MODULE MCServices -----------------------------
(***************************************************************************)
(* An instance of Services for TLC.  In a behaviour one of the services    *)
(* acts and the others stay in their initial state, in which none of their *)
(* fair actions is enabled.                                                *)
(***************************************************************************)
EXTENDS Services

VARIABLE service   \* the one that acts

MCInit == service \in {"deployments", "frontends", "windows"} /\ ServicesInit

MCNext ==
    /\ \/ service = "deployments" /\ DeploymentsAct
       \/ service = "frontends" /\ FrontendsAct
       \/ service = "windows" /\ WindowsAct
    /\ UNCHANGED service

MCSpec ==
    /\ MCInit /\ [][MCNext]_<<service, servicesVars>>
    /\ Fairness /\ Frontends!Fairness /\ Windows!Fairness
=============================================================================
