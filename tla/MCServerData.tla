---------------------------- MODULE MCServerData ----------------------------
(***************************************************************************)
(* An instance of ServerData for TLC.  Its parts share no state, so that   *)
(* it is enough if in a behaviour one of them acts and the others stay in  *)
(* their initial state.                                                    *)
(***************************************************************************)
EXTENDS MCTaskPipeline, ServerData

VARIABLE service   \* the part that acts

\* A service that does not act has one initial state.
Pinned ==
    /\ service # "tasks" => pipeline = [i \in {0, 1} |-> "stop"]
    /\ service # "artifacts" => github.sum = 1
    /\ service # "logins" => /\ identity.mode = "allow_all"
                             /\ identity.tenant = CHOOSE t \in Tenant : TRUE

MCInit ==
    /\ service \in {"tasks", "store", "settings", "artifacts", "logins"}
    /\ DataInit
    /\ Pinned

MCNext ==
    /\ \/ service = "tasks" /\ TasksAct
       \/ service = "store" /\ StoreActs
       \/ service = "settings" /\ SettingsAct
       \/ service = "artifacts" /\ ArtifactsAct
       \/ service = "logins" /\ LoginsAct
    /\ UNCHANGED service

MCSpec == MCInit /\ [][MCNext]_<<service, dataVars>>
=============================================================================
