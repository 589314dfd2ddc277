--------------------------- MODULE FrontendSessions ---------------------------
(***************************************************************************)
(* The websocket sessions of frontends (network/frontend_session.py), what *)
(* they are sent (server.py: the snapshot broadcaster), and which of them  *)
(* watch the process manager of an agent                                   *)
(* (process_monitoring/network_handler.py): the agent collects window      *)
(* data while at least one frontend watches it.                            *)
(*                                                                         *)
(* The contents of the runtime table are a version number, 0 is the empty  *)
(* table.  A change and the signal to the broadcaster are one step here;   *)
(* AgentSessions takes them apart.  A message to an agent is on the wire   *)
(* when send_text is called, before the caller goes on.                    *)
(***************************************************************************)
EXTENDS Naturals, Sequences

CONSTANTS
    Frontend,
    Agent,
    MaxChanges,   \* bound: changes of the runtime table
    MaxDrops,     \* bound: lost connections of agents
    MaxWire       \* bound: messages under way to an agent

VARIABLES
    session,   \* of each frontend: closed, greeted, open, gone (not noticed yet), leaving
    clients,   \* frontend_clients
    watched,   \* frontend_watched_agents
    watchers,  \* process_manager_watchers
    table,     \* the version of the runtime table
    signalled, \* frontend_snapshot_event
    sending,   \* the snapshot being broadcast, and who is still to get it
    seen,      \* the version each frontend was sent last
    link,      \* of each agent: down, registered (handshake not over), online
    live,      \* the agent is at the other end of its registered socket
    wire,      \* set_window_tracking messages under way to each agent
    tracking,  \* VmAgent._window_tracking_enabled
    drops

frontends == <<session, clients, watched, watchers>>
snapshots == <<table, signalled, sending, seen>>
agents == <<link, live, wire, tracking, drops>>
vars == <<frontends, snapshots, agents>>

TypeOK ==
    /\ session \in [Frontend -> {"closed", "greeted", "open", "gone", "leaving"}]
    /\ clients \subseteq Frontend
    /\ watched \in [Frontend -> SUBSET Agent]
    /\ watchers \in [Agent -> SUBSET Frontend]
    /\ table \in 0..MaxChanges
    /\ signalled \in BOOLEAN
    /\ sending \in [version : 0..MaxChanges, left : SUBSET Frontend]
    /\ seen \in [Frontend -> 0..MaxChanges]
    /\ link \in [Agent -> {"down", "registered", "online"}]
    /\ live \in [Agent -> BOOLEAN]
    /\ wire \in [Agent -> Seq(BOOLEAN)] /\ \A a \in Agent : Len(wire[a]) <= MaxWire
    /\ tracking \in [Agent -> BOOLEAN]
    /\ drops \in 0..MaxDrops

Init ==
    /\ session = [f \in Frontend |-> "closed"]
    /\ clients = {}
    /\ watched = [f \in Frontend |-> {}]
    /\ watchers = [a \in Agent |-> {}]
    /\ table = 0
    /\ signalled = FALSE
    /\ sending = [version |-> 0, left |-> {}]
    /\ seen = [f \in Frontend |-> 0]
    /\ link = [a \in Agent |-> "down"]
    /\ live = [a \in Agent |-> FALSE]
    /\ wire = [a \in Agent |-> <<>>]
    /\ tracking = [a \in Agent |-> FALSE]
    /\ drops = 0

-----------------------------------------------------------------------------
(* Messages to an agent *)

\* _send_to_agent of set_window_tracking: nothing without a registered socket;
\* on one whose other end is gone the message is lost, and when the send raises
\* the agent is unregistered.
Tell(a, enabled) ==
    \/ link[a] = "down" /\ UNCHANGED <<wire, link>>
    \/ /\ link[a] # "down" /\ live[a]
       /\ Len(wire[a]) < MaxWire
       /\ wire' = [wire EXCEPT ![a] = Append(@, enabled)]
       /\ UNCHANGED link
    \/ link[a] # "down" /\ ~live[a] /\ UNCHANGED <<wire, link>>
    \/ link[a] # "down" /\ ~live[a] /\ link' = [link EXCEPT ![a] = "down"] /\ UNCHANGED wire

Untold == UNCHANGED <<wire, link>>

-----------------------------------------------------------------------------
(* Frontends *)

\* run_frontend_ws_session sends auth_ok; names are used again only when the
\* socket that had it is no client and no broadcast is about to send to it.
Greet(f) ==
    /\ session[f] = "closed" /\ f \notin sending.left \cup clients
    /\ session' = [session EXCEPT ![f] = "greeted"]
    /\ seen' = [seen EXCEPT ![f] = 0]
    /\ UNCHANGED <<clients, watched, watchers, table, signalled, sending, agents>>

\* Faulty: the frontend joins without a first snapshot.
JoinBlank(f) ==
    /\ session[f] = "greeted"
    /\ session' = [session EXCEPT ![f] = "open"]
    /\ clients' = clients \cup {f}
    /\ watched' = [watched EXCEPT ![f] = {}]
    /\ UNCHANGED <<watchers, snapshots, agents>>

\* It becomes a client and is sent the table as it is, if there is anything.  When
\* that send raises, the session is over, and no finally clause strikes it off.
Join(f) ==
    /\ session[f] = "greeted"
    /\ clients' = clients \cup {f}
    /\ watched' = [watched EXCEPT ![f] = {}]
    /\ \/ /\ session' = [session EXCEPT ![f] = "open"]
          /\ seen' = [seen EXCEPT ![f] = table]
       \/ /\ session' = [session EXCEPT ![f] = "closed"]
          /\ UNCHANGED seen
    /\ UNCHANGED <<watchers, table, signalled, sending, agents>>

\* add_watcher: the first watcher of an agent turns its tracking on.
Watch(f, a) ==
    /\ session[f] = "open" /\ a \notin watched[f]
    /\ watched' = [watched EXCEPT ![f] = @ \cup {a}]
    /\ watchers' = [watchers EXCEPT ![a] = @ \cup {f}]
    /\ IF watchers[a] = {} THEN Tell(a, TRUE) ELSE Untold
    /\ UNCHANGED <<session, clients, snapshots, live, tracking, drops>>

\* remove_watcher: the last one turns it off.
RemoveWatcher(f, a) ==
    /\ watched' = [watched EXCEPT ![f] = @ \ {a}]
    /\ watchers' = [watchers EXCEPT ![a] = @ \ {f}]
    /\ IF watchers[a] = {f} THEN Tell(a, FALSE) ELSE Untold

Unwatch(f, a) ==
    /\ session[f] = "open"
    /\ RemoveWatcher(f, a)
    /\ UNCHANGED <<session, clients, snapshots, live, tracking, drops>>

\* The browser is gone; the session will notice, or a broadcast fails first.
Disconnect(f) ==
    /\ session[f] \in {"greeted", "open"}
    /\ session' = [session EXCEPT ![f] = IF session[f] = "open" THEN "gone" ELSE "closed"]
    /\ UNCHANGED <<clients, watched, watchers, snapshots, agents>>

Notice(f) ==
    /\ session[f] = "gone"
    /\ session' = [session EXCEPT ![f] = "leaving"]
    /\ UNCHANGED <<clients, watched, watchers, snapshots, agents>>

\* remove_all_watchers: one agent after the other, a send each.
LeaveAgent(f, a) ==
    /\ session[f] = "leaving" /\ a \in watched[f]
    /\ RemoveWatcher(f, a)
    /\ UNCHANGED <<session, clients, snapshots, live, tracking, drops>>

\* Faulty: closes the session while the frontend may still be watching.
LeaveAtOnce(f) ==
    /\ session[f] = "leaving"
    /\ session' = [session EXCEPT ![f] = "closed"]
    /\ watched' = [watched EXCEPT ![f] = {}]
    /\ clients' = clients \ {f}
    /\ UNCHANGED <<watchers, snapshots, agents>>

\* The end of the session.
Leave(f) ==
    /\ session[f] = "leaving" /\ watched[f] = {}
    /\ session' = [session EXCEPT ![f] = "closed"]
    /\ clients' = clients \ {f}
    /\ UNCHANGED <<watched, watchers, snapshots, agents>>

-----------------------------------------------------------------------------
(* Snapshots *)

\* An agent's heartbeat, handshake or end changes the table and signals it.
Change ==
    /\ table < MaxChanges
    /\ table' = table + 1
    /\ signalled' = TRUE
    /\ UNCHANGED <<sending, seen, frontends, agents>>

\* _frontend_snapshot_broadcaster: clear, then build the snapshot for those who
\* are clients now.
BeginBroadcast ==
    /\ signalled /\ sending.left = {}
    /\ signalled' = FALSE
    /\ sending' = [version |-> table, left |-> clients]
    /\ UNCHANGED <<table, seen, frontends, agents>>

\* broadcast_to_frontends, to one of them; one that is gone is struck off.
SendSnapshot(f) ==
    /\ f \in sending.left
    /\ sending' = [sending EXCEPT !.left = @ \ {f}]
    /\ IF session[f] = "open"
       THEN seen' = [seen EXCEPT ![f] = sending.version] /\ UNCHANGED clients
       ELSE clients' = clients \ {f} /\ UNCHANGED seen
    /\ UNCHANGED <<table, signalled, session, watched, watchers, agents>>

-----------------------------------------------------------------------------
(* Agents *)

\* A handshake registers the new socket; whatever was on an old one is lost.
Register(a) ==
    /\ ~live[a]
    /\ live' = [live EXCEPT ![a] = TRUE]
    /\ link' = [link EXCEPT ![a] = "registered"]
    /\ wire' = [wire EXCEPT ![a] = <<>>]
    /\ UNCHANGED <<tracking, drops, frontends, snapshots>>

\* Faulty: the rest of the handshake does not look for watchers.
OnlineUnwatched(a) ==
    /\ link[a] = "registered" /\ live[a]
    /\ link' = [link EXCEPT ![a] = "online"]
    /\ UNCHANGED <<wire, live, tracking, drops, frontends, snapshots>>

\* The rest of the handshake: with watchers the tracking is turned on again.
Online(a) ==
    /\ link[a] = "registered" /\ live[a]
    /\ watchers[a] # {} => Len(wire[a]) < MaxWire
    /\ link' = [link EXCEPT ![a] = "online"]
    /\ wire' = [wire EXCEPT ![a] = IF watchers[a] # {} THEN Append(@, TRUE) ELSE @]
    /\ UNCHANGED <<live, tracking, drops, frontends, snapshots>>

\* VmAgent._set_window_tracking.
Track(a) ==
    /\ live[a] /\ wire[a] # <<>>
    /\ tracking' = [tracking EXCEPT ![a] = Head(wire[a])]
    /\ wire' = [wire EXCEPT ![a] = Tail(@)]
    /\ UNCHANGED <<link, live, drops, frontends, snapshots>>

\* The connection breaks, with the agent or without it.
Drop(a) ==
    /\ drops < MaxDrops
    /\ live[a]
    /\ drops' = drops + 1
    /\ live' = [live EXCEPT ![a] = FALSE]
    /\ wire' = [wire EXCEPT ![a] = <<>>]
    /\ \/ UNCHANGED tracking
       \/ tracking' = [tracking EXCEPT ![a] = FALSE]
    /\ UNCHANGED <<link, frontends, snapshots>>

\* The server's end of the session: cleanup_connection, or the watchdog.
CleanUp(a) ==
    /\ link[a] # "down" /\ ~live[a]
    /\ link' = [link EXCEPT ![a] = "down"]
    /\ UNCHANGED <<live, wire, tracking, drops, frontends, snapshots>>

-----------------------------------------------------------------------------

Next ==
    \/ \E f \in Frontend :
          \/ Greet(f) \/ Join(f) \/ Disconnect(f) \/ Notice(f) \/ Leave(f) \/ SendSnapshot(f)
          \/ \E a \in Agent : Watch(f, a) \/ Unwatch(f, a) \/ LeaveAgent(f, a)
    \/ \E a \in Agent : Register(a) \/ Online(a) \/ Track(a) \/ Drop(a) \/ CleanUp(a)
    \/ Change \/ BeginBroadcast

Spec == Init /\ [][Next]_vars

\* The broadcaster's task runs, and its sends end.
Fairness ==
    /\ WF_vars(BeginBroadcast)
    /\ \A f \in Frontend : WF_vars(SendSnapshot(f))

FairSpec == Spec /\ Fairness

-----------------------------------------------------------------------------
(* Properties *)

\* An agent that is online and has received every message tracks its windows if
\* a frontend watches it: no order of watching, leaving, losing the connection
\* and handshaking again leaves a watcher without data.
WatchedIsTracked ==
    \A a \in Agent :
        link[a] = "online" /\ live[a] /\ wire[a] = <<>> /\ watchers[a] # {} => tracking[a]

\* The two tables of watching agree, and name sessions that will still remove
\* what they have added: a closed frontend watches nothing.
WatchersAreSessions ==
    \A f \in Frontend, a \in Agent :
        /\ f \in watchers[a] <=> a \in watched[f]
        /\ f \in watchers[a] => session[f] \in {"open", "gone", "leaving"}

\* A frontend that stays connected is sent the runtime table as it has become,
\* though changes are coalesced and a broadcast is under way when it joins.
FrontendCatchesUp ==
    \A f \in Frontend : (session[f] = "open") ~> (session[f] # "open" \/ seen[f] = table)
=============================================================================
