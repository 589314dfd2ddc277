------------------------------ MODULE Services ------------------------------
(***************************************************************************)
(* Three services side by side that share no state with each other: the    *)
(* deployments, whose module is extended, the frontends, and the agent as  *)
(* a Windows service.  Their steps interleave.                             *)
(***************************************************************************)
EXTENDS Deployments

CONSTANTS
    Frontend, VM,                       \* VM: the agents of FrontendSessions
    MaxChanges, MaxLost, MaxWire        \* MaxLost: its MaxDrops

ASSUME FrontendAssumption == MaxChanges \in Nat /\ MaxLost \in Nat /\ MaxWire \in Nat

VARIABLES
    session, clients, watched, watchers, table, signalled, sending, shown,
    link, live, wire, tracking, drops,
    main, control, thread, status, running, ticking, starts, stops, event

Frontends == INSTANCE FrontendSessions
    WITH Agent <- VM, MaxDrops <- MaxLost, seen <- shown

Windows == INSTANCE AgentService

frontendVars == <<session, clients, watched, watchers, table, signalled, sending, shown,
                  link, live, wire, tracking, drops>>
windowsVars == <<main, control, thread, status, running, ticking, starts, stops, event>>

servicesVars == <<vars, frontendVars, windowsVars>>

ServicesInit == Init /\ Frontends!Init /\ Windows!Init

DeploymentsAct == Next /\ UNCHANGED <<frontendVars, windowsVars>>

FrontendsAct == Frontends!Next /\ UNCHANGED <<vars, windowsVars>>

WindowsAct == Windows!Next /\ UNCHANGED <<vars, frontendVars>>

ServicesNext == DeploymentsAct \/ FrontendsAct \/ WindowsAct

ServicesSpec == ServicesInit /\ [][ServicesNext]_servicesVars

-----------------------------------------------------------------------------
(* The properties of the instances, by the names their modules give them.  *)

\* The services' tables are well formed: typed, the two tables of watching agree
\* and name sessions that will still leave them (network_handler.py,
\* frontend_session.py), and the life cycle's component is stopped as often as it
\* was started (life_cycle_manager.py).
ServicesInv ==
    /\ TypeOK /\ Frontends!TypeOK /\ Windows!TypeOK
    /\ Frontends!WatchersAreSessions
    /\ Windows!StoppedAsStarted

\* See FrontendSessions: an online agent with a watcher tracks its windows.
WatchedIsTracked == Frontends!WatchedIsTracked

\* See FrontendSessions: a connected frontend is sent the table as it has become.
FrontendCatchesUp == Frontends!FrontendCatchesUp

\* See AgentService: the service stops when it is asked to.
StopEndsService == Windows!StopEndsService
=============================================================================
