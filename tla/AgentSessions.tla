--------------------------- MODULE AgentSessions ---------------------------
(***************************************************************************)
(* The server's view of its agents.  Three records say whether an agent is *)
(* connected, and several coroutines update them across awaits:            *)
(*                                                                         *)
(*   active   AgentRuntime.active_agents: the socket tasks are sent on     *)
(*   conn     AgentRuntime.latest_stats[..]["__agent_connection"]          *)
(*   reg      the connection_status column of the registry database        *)
(*                                                                         *)
(* The coroutines are one websocket session per connection                 *)
(* (run_agent_ws_session with AgentLifecycleEventHandler), the heartbeat   *)
(* watchdog, the senders that go through _send_to_agent, and the frontend  *)
(* snapshot broadcaster.  They run on one event loop: a step below is what *)
(* a coroutine does from one await to the next, so steps of different      *)
(* coroutines interleave exactly at awaits.  A database write takes effect *)
(* in the step in which its await returns; the order of two writes that    *)
(* are both under way is left open.                                        *)
(*                                                                         *)
(* A member of Ws is a websocket object.  It stands for another connection *)
(* once its session has ended and no coroutine or table refers to it.      *)
(***************************************************************************)
EXTENDS Naturals, FiniteSets

CONSTANTS
    Agent,      \* agent ids
    Ws,         \* websocket objects
    None        \* Python's None where a websocket is expected

ASSUME NoneAssumption == None \notin Ws

VARIABLES
    \* The transport: "open" (frames arrive), "hung" (the connection is up and
    \* nothing arrives), "drain" (closed by one side, one frame may still be
    \* delivered to the pending receive), "closed".
    sock,
    \* Where the session's coroutine waits: see Point.
    sess,
    \* The agent that opened the connection (client_id of its handshake).
    who,
    \* The socket a session awaits: the previous one it closes, or the target
    \* of its set_window_tracking.
    held,
    active, conn, silent,
    reg,
    \* The watchdog: the rest of its list of timed-out agents, and the socket
    \* it is closing (None while it sleeps).
    wdTodo, wdSock,
    \* Sockets with an _send_to_agent call under way.
    sends,
    \* frontend_snapshot_event, and the connection state frontends were sent.
    snapEvent, shown

vars == <<sock, sess, who, held, active, conn, silent, reg, wdTodo, wdSock,
          sends, snapEvent, shown>>

-----------------------------------------------------------------------------
(* Await points of a session.                                              *)
(*   none       no session                                                 *)
(*   greet      receive_text, handshake not yet seen                       *)
(*   auth       authorize_agent and get_expected_hostname_for_agent        *)
(*   ack        client_id and authenticated set, sending auth_result ok    *)
(*   closePrev  registered, closing the socket it replaced                 *)
(*   online     the handshake's upsert_agent                               *)
(*   track      set_window_tracking                                        *)
(*   loop       receive_text, authenticated                                *)
(*   beat       heartbeat merged: hostname lookup and upsert_agent         *)
(*   cleanup    cleanup_connection's upsert_agent                          *)
Point == {"none", "greet", "auth", "ack", "closePrev", "online", "track",
          "loop", "beat", "cleanup"}

\* Points at which state.client_id is set: cleanup_connection will act.
Named == {"ack", "closePrev", "online", "track", "loop", "beat", "cleanup"}

\* Points after register_agent has run for the session.
Registered == Named \ {"ack"}

Transport == {"open", "hung", "drain", "closed"}

Down == {"drain", "closed"}

TypeOK ==
    /\ sock \in [Ws -> Transport]
    /\ sess \in [Ws -> Point]
    /\ who \in [Ws -> Agent]
    /\ held \in [Ws -> Ws \cup {None}]
    /\ active \in [Agent -> Ws \cup {None}]
    /\ conn \in [Agent -> {"absent", "yes", "no"}]
    /\ silent \in [Agent -> BOOLEAN]
    /\ reg \in [Agent -> {"none", "offline", "online"}]
    /\ wdTodo \in SUBSET Agent
    /\ wdSock \in Ws \cup {None}
    /\ sends \in SUBSET Ws
    /\ snapEvent \in BOOLEAN
    /\ shown \in [Agent -> {"absent", "yes", "no"}]
    \* A coroutine that waits on another socket has one, and no other has.
    /\ \A w \in Ws : held[w] # None <=> sess[w] \in {"closePrev", "track"}

Init ==
    /\ sock = [w \in Ws |-> "closed"]
    /\ sess = [w \in Ws |-> "none"]
    /\ who \in {[w \in Ws |-> a] : a \in Agent}
    /\ held = [w \in Ws |-> None]
    /\ active = [a \in Agent |-> None]
    /\ conn = [a \in Agent |-> "absent"]
    /\ silent = [a \in Agent |-> FALSE]
    /\ reg = [a \in Agent |-> "none"]
    /\ wdTodo = {}
    /\ wdSock = None
    /\ sends = {}
    /\ snapEvent = FALSE
    /\ shown = [a \in Agent |-> "absent"]

-----------------------------------------------------------------------------
(* AgentRuntime and transport, as operators on the tables.                 *)

\* ws.close() by the server, or the peer's close frame.
AfterClose(s) == CASE s = "open" -> "drain"
                   [] s = "hung" -> "closed"
                   [] OTHER -> s

\* A frame taken by the pending receive_text.
AfterFrame(s) == IF s = "drain" THEN "closed" ELSE s

\* Faulty: the entry is left as it is.
ResetConnForgotten(a) == conn

\* reset_agent_runtime_state: a stored connection entry is kept and marked
\* disconnected; an agent never seen has none.
ResetConn(a) ==
    [conn EXCEPT ![a] = IF conn[a] = "absent" THEN "absent" ELSE "no"]

\* Faulty: the current socket is not compared with ws.
MayUnregisterAnyone(a, w) == TRUE

\* Faulty: the comparison is the wrong way round.
MayUnregisterOthers(a, w) == active[a] # w

\* unregister_agent(agent_id, ws): a newer socket of the agent is left alone.
MayUnregister(a, w) == active[a] \in {None, w}

Unregister(a, w) ==
    IF MayUnregister(a, w)
    THEN /\ active' = [active EXCEPT ![a] = None]
         /\ conn' = ResetConn(a)
         /\ silent' = [silent EXCEPT ![a] = FALSE]
    ELSE UNCHANGED <<active, conn, silent>>

\* mark_agent_connection_state(agent_id, True): last_seen is now.
MarkConnected(a) ==
    /\ conn' = [conn EXCEPT ![a] = "yes"]
    /\ silent' = [silent EXCEPT ![a] = FALSE]

\* No coroutine, table or pending call refers to w.
Unreferenced(w) ==
    /\ sess[w] = "none"
    /\ \A a \in Agent : active[a] # w
    /\ \A v \in Ws : held[v] # w
    /\ wdSock # w
    /\ w \notin sends

-----------------------------------------------------------------------------
(* The network and the agents.                                             *)

\* An agent opens /ws; the endpoint accepts, greets and enters the loop.
Connect(w, a) ==
    /\ Unreferenced(w)
    /\ sock' = [sock EXCEPT ![w] = "open"]
    /\ sess' = [sess EXCEPT ![w] = "greet"]
    /\ who' = [who EXCEPT ![w] = a]
    /\ UNCHANGED <<held, active, conn, silent, reg, wdTodo, wdSock, sends,
                   snapEvent, shown>>

Transfer(w, from, to) ==
    /\ sess[w] # "none"
    /\ sock[w] \in from
    /\ sock' = [sock EXCEPT ![w] = to]
    /\ UNCHANGED <<sess, who, held, active, conn, silent, reg, wdTodo, wdSock,
                   sends, snapEvent, shown>>

\* The agent's side closes; a frame sent before may still be delivered.
PeerClose(w) == Transfer(w, {"open", "hung"}, "drain")

\* The agent stops sending: its main loop is stuck, or its host is gone and
\* the transport has not noticed.  It may come back.
Hang(w) == Transfer(w, {"open"}, "hung")

Resume(w) == Transfer(w, {"hung"}, "open")

\* The websocket library's ping timeout closes a connection whose peer is gone.
Keepalive(w) == Transfer(w, {"hung"}, "closed")

\* HEARTBEAT_TIMEOUT_SECONDS pass since last_seen: not while a session that
\* reads heartbeats has an agent that sends them.
Tick(a) ==
    /\ conn[a] = "yes"
    /\ ~silent[a]
    /\ \A w \in Ws : who[w] = a => \/ sock[w] # "open"
                                   \/ sess[w] \notin {"loop", "beat"}
    /\ silent' = [silent EXCEPT ![a] = TRUE]
    /\ UNCHANGED <<sock, sess, who, held, active, conn, reg, wdTodo, wdSock,
                   sends, snapEvent, shown>>

-----------------------------------------------------------------------------
(* The agent's websocket session.                                          *)

Goto(w, p) == sess' = [sess EXCEPT ![w] = p]

\* A frame other than a handshake before authentication: closed with 4401,
\* and cleanup_connection does nothing without a client_id.
FirstFrameRejected(w) ==
    /\ sess[w] = "greet"
    /\ sock[w] \in {"open", "drain"}
    /\ sock' = [sock EXCEPT ![w] = "closed"]
    /\ Goto(w, "none")
    /\ UNCHANGED <<who, held, active, conn, silent, reg, wdTodo, wdSock, sends,
                   snapEvent, shown>>

\* _handle_handshake up to its first await.
Handshake(w) ==
    /\ sess[w] = "greet"
    /\ sock[w] \in {"open", "drain"}
    /\ sock' = [sock EXCEPT ![w] = AfterFrame(@)]
    /\ Goto(w, "auth")
    /\ UNCHANGED <<who, held, active, conn, silent, reg, wdTodo, wdSock, sends,
                   snapEvent, shown>>

\* authorize_agent refuses, or the hostname is not the expected one: an expired
\* bootstrap token and a wrong host write connection_status offline, the other
\* reasons write nothing; auth_result error, close, and no client_id to clean.
HandshakeRejected(w) ==
    /\ sess[w] = "auth"
    /\ reg' \in {reg, [reg EXCEPT ![who[w]] = "offline"]}
    /\ sock' = [sock EXCEPT ![w] = "closed"]
    /\ Goto(w, "none")
    /\ UNCHANGED <<who, held, active, conn, silent, wdTodo, wdSock, sends,
                   snapEvent, shown>>

HandshakeAccepted(w) ==
    /\ sess[w] = "auth"
    /\ Goto(w, "ack")
    /\ UNCHANGED <<sock, who, held, active, conn, silent, reg, wdTodo, wdSock,
                   sends, snapEvent, shown>>

\* The auth_result is sent; register_agent up to the close of the socket it
\* replaces.
Register(w) ==
    LET a == who[w]
        previous == active[a]
    IN /\ sess[w] = "ack"
       /\ active' = [active EXCEPT ![a] = w]
       /\ MarkConnected(a)
       /\ IF previous \notin {None, w}
          THEN /\ held' = [held EXCEPT ![w] = previous]
               /\ Goto(w, "closePrev")
          ELSE /\ Goto(w, "online")
               /\ UNCHANGED held
       /\ UNCHANGED <<sock, who, reg, wdTodo, wdSock, sends, snapEvent, shown>>

\* Sending auth_result raises: run_agent_ws_session logs it and goes back to
\* receive_text with client_id already set.
AckFails(w) ==
    /\ sess[w] = "ack"
    /\ sock[w] \in Down
    /\ Goto(w, "loop")
    /\ UNCHANGED <<sock, who, held, active, conn, silent, reg, wdTodo, wdSock,
                   sends, snapEvent, shown>>

PreviousClosed(w) ==
    /\ sess[w] = "closePrev"
    /\ sock' = [sock EXCEPT ![held[w]] = AfterClose(@)]
    /\ held' = [held EXCEPT ![w] = None]
    /\ Goto(w, "online")
    /\ UNCHANGED <<who, active, conn, silent, reg, wdTodo, wdSock, sends,
                   snapEvent, shown>>

\* The handshake's upsert is written.  With a frontend watching the process
\* manager, set_window_tracking sends on whatever socket is active now.
HandshakeOnline(w) ==
    LET a == who[w]
    IN /\ sess[w] = "online"
       /\ reg' = [reg EXCEPT ![a] = "online"]
       /\ \/ /\ Goto(w, "loop")
             /\ snapEvent' = TRUE
             /\ UNCHANGED held
          \/ /\ active[a] # None
             /\ held' = [held EXCEPT ![w] = active[a]]
             /\ Goto(w, "track")
             /\ UNCHANGED snapEvent
       /\ UNCHANGED <<sock, who, active, conn, silent, wdTodo, wdSock, sends,
                      shown>>

\* set_window_tracking returns; its send may have failed (see SendFails).
TrackingSet(w) ==
    /\ sess[w] = "track"
    /\ \/ UNCHANGED <<active, conn, silent>>
       \/ /\ sock[held[w]] \in Down
          /\ Unregister(who[w], held[w])
    /\ held' = [held EXCEPT ![w] = None]
    /\ snapEvent' = TRUE
    /\ Goto(w, "loop")
    /\ UNCHANGED <<sock, who, reg, wdTodo, wdSock, sends, shown>>

\* Faulty: the connection entry is left to register_agent.
HeartbeatUnmarked(w) ==
    /\ sess[w] = "loop"
    /\ sock[w] \in {"open", "drain"}
    /\ sock' = [sock EXCEPT ![w] = AfterFrame(@)]
    /\ Goto(w, "beat")
    /\ UNCHANGED <<who, held, active, conn, silent, reg, wdTodo, wdSock, sends,
                   snapEvent, shown>>

\* _handle_heartbeat up to its first await: merge_heartbeat marks the agent
\* connected before anything is checked.
Heartbeat(w) ==
    /\ sess[w] = "loop"
    /\ sock[w] \in {"open", "drain"}
    /\ sock' = [sock EXCEPT ![w] = AfterFrame(@)]
    /\ MarkConnected(who[w])
    /\ Goto(w, "beat")
    /\ UNCHANGED <<who, held, active, reg, wdTodo, wdSock, sends, snapEvent,
                   shown>>

HeartbeatStored(w) ==
    /\ sess[w] = "beat"
    /\ reg' = [reg EXCEPT ![who[w]] = "online"]
    /\ snapEvent' = TRUE
    /\ Goto(w, "loop")
    /\ UNCHANGED <<sock, who, held, active, conn, silent, wdTodo, wdSock, sends,
                   shown>>

\* The heartbeat's hostname is not the expected one: offline is written, the
\* socket is closed with 4403 and the session ends through its finally.
HeartbeatMismatch(w) ==
    /\ sess[w] = "beat"
    /\ reg' = [reg EXCEPT ![who[w]] = "offline"]
    /\ sock' = [sock EXCEPT ![w] = "closed"]
    /\ Goto(w, "cleanup")
    /\ UNCHANGED <<who, held, active, conn, silent, wdTodo, wdSock, sends,
                   snapEvent, shown>>

\* receive_text reports the disconnect.
Disconnect(w) ==
    /\ sock[w] \in Down
    /\ \/ sess[w] = "greet" /\ Goto(w, "none")
       \/ sess[w] = "loop" /\ Goto(w, "cleanup")
    /\ sock' = [sock EXCEPT ![w] = "closed"]
    /\ UNCHANGED <<who, held, active, conn, silent, reg, wdTodo, wdSock, sends,
                   snapEvent, shown>>

\* Faulty: the runtime is cleaned up, the registry is not.
CleanupRuntimeOnly(w) ==
    /\ sess[w] = "cleanup"
    /\ Unregister(who[w], w)
    /\ snapEvent' = (snapEvent \/ MayUnregister(who[w], w))
    /\ Goto(w, "none")
    /\ UNCHANGED <<sock, who, held, reg, wdTodo, wdSock, sends, shown>>

\* cleanup_connection: offline is written whichever socket is current, then
\* unregister_agent runs without another await, and the session ends.
Cleanup(w) ==
    /\ sess[w] = "cleanup"
    /\ reg' = [reg EXCEPT ![who[w]] = "offline"]
    /\ Unregister(who[w], w)
    /\ snapEvent' = (snapEvent \/ MayUnregister(who[w], w))
    /\ Goto(w, "none")
    /\ UNCHANGED <<sock, who, held, wdTodo, wdSock, sends, shown>>

-----------------------------------------------------------------------------
(* Senders, the watchdog and the broadcaster.                              *)

\* _send_to_agent: the socket is looked up, then awaited.
SendBegin(a) ==
    /\ active[a] # None
    /\ sends' = sends \cup {active[a]}
    /\ UNCHANGED <<sock, sess, who, held, active, conn, silent, reg, wdTodo,
                   wdSock, snapEvent, shown>>

SendDone(w) ==
    /\ w \in sends
    /\ sends' = sends \ {w}
    /\ UNCHANGED <<sock, sess, who, held, active, conn, silent, reg, wdTodo,
                   wdSock, snapEvent, shown>>

\* Faulty: the frontends are not told.
SendFailsQuietly(w) ==
    /\ w \in sends
    /\ sock[w] \in Down
    /\ sends' = sends \ {w}
    /\ Unregister(who[w], w)
    /\ UNCHANGED <<sock, sess, who, held, reg, wdTodo, wdSock, snapEvent, shown>>

\* send_text raises on a closed socket.
SendFails(w) ==
    /\ w \in sends
    /\ sock[w] \in Down
    /\ sends' = sends \ {w}
    /\ Unregister(who[w], w)
    /\ snapEvent' = TRUE
    /\ UNCHANGED <<sock, sess, who, held, reg, wdTodo, wdSock, shown>>

\* Faulty: the connected flag is tested the wrong way round.
TimedOutDisconnected == {a \in Agent : conn[a] # "yes" /\ silent[a]}

\* get_timed_out_agents.
TimedOut == {a \in Agent : conn[a] = "yes" /\ silent[a]}

\* The watchdog's loop up to its next await: agents without a socket are
\* passed over, the next one loses its socket, which is then closed.
NextVictim(todo) ==
    \E a \in todo :
       /\ active[a] # None
       /\ active' = [active EXCEPT ![a] = None]
       /\ wdSock' = active[a]
       /\ \E skipped \in SUBSET {b \in todo : active[b] = None} :
             wdTodo' = todo \ ({a} \cup skipped)

WatchdogScan ==
    /\ wdSock = None
    /\ NextVictim(TimedOut)
    /\ UNCHANGED <<sock, sess, who, held, conn, silent, reg, sends, snapEvent,
                   shown>>

\* timeout_agent after its close: the agent is reset whatever happened
\* meanwhile, and the loop goes on.  After its last agent the watchdog sets the
\* snapshot event, having changed something.
WatchdogClosed ==
    LET a == who[wdSock]
    IN /\ wdSock # None
       /\ sock' = [sock EXCEPT ![wdSock] = AfterClose(@)]
       /\ conn' = ResetConn(a)
       /\ silent' = [silent EXCEPT ![a] = FALSE]
       /\ \/ /\ NextVictim(wdTodo)
             /\ UNCHANGED snapEvent
          \/ /\ \A b \in wdTodo : active[b] = None
             /\ wdTodo' = {}
             /\ wdSock' = None
             /\ snapEvent' = TRUE
             /\ UNCHANGED active
       /\ UNCHANGED <<sess, who, held, reg, sends, shown>>

\* _frontend_snapshot_broadcaster: clear, then build the snapshot.
Broadcast ==
    /\ snapEvent
    /\ snapEvent' = FALSE
    /\ shown' = conn
    /\ UNCHANGED <<sock, sess, who, held, active, conn, silent, reg, wdTodo,
                   wdSock, sends>>

-----------------------------------------------------------------------------
\* What the server does on its own once a frame, a failure or a timer is there.
SessionStep(w) ==
    \/ HandshakeRejected(w) \/ HandshakeAccepted(w)
    \/ Register(w) \/ AckFails(w) \/ PreviousClosed(w)
    \/ HandshakeOnline(w) \/ TrackingSet(w)
    \/ HeartbeatStored(w) \/ HeartbeatMismatch(w)
    \/ Disconnect(w) \/ Cleanup(w)

Next ==
    \/ \E w \in Ws :
          \/ \E a \in Agent : Connect(w, a)
          \/ PeerClose(w) \/ Hang(w) \/ Resume(w) \/ Keepalive(w)
          \/ FirstFrameRejected(w) \/ Handshake(w) \/ Heartbeat(w)
          \/ SessionStep(w)
          \/ SendDone(w) \/ SendFails(w)
    \/ \E a \in Agent : Tick(a) \/ SendBegin(a)
    \/ WatchdogScan \/ WatchdogClosed
    \/ Broadcast

Spec == Init /\ [][Next]_vars

(* Scheduling.  The event loop runs every coroutine whose await is done,   *)
(* awaits on the database and on sends end, an agent with an open socket   *)
(* answers the greeting and sends heartbeats, and time passes.             *)
Fairness ==
    /\ \A w \in Ws :
          /\ WF_vars(SessionStep(w))
          /\ WF_vars(Handshake(w) \/ FirstFrameRejected(w))
          /\ WF_vars(Heartbeat(w))
          /\ WF_vars(SendDone(w) \/ SendFails(w))
    /\ \A a \in Agent : WF_vars(Tick(a))
    /\ WF_vars(WatchdogScan)
    /\ WF_vars(WatchdogClosed)
    /\ WF_vars(Broadcast)

FairSpec == Spec /\ Fairness

-----------------------------------------------------------------------------
(* Properties.                                                             *)

\* The socket tasks are sent on belongs to a session of that agent that has
\* registered it and will still run cleanup_connection for it: no dead socket
\* stays in active_agents, and no agent's tasks go to another agent's socket
\* (agent_runtime.py register_agent, unregister_agent; network/agent_session.py
\* finally).
ActiveIsServed ==
    \A a \in Agent : \A w \in Ws :
        active[a] = w => who[w] = a /\ sess[w] \in Registered

\* A coroutine is about to close w: the watchdog, or the session replacing it.
BeingClosed(w) ==
    \/ wdSock = w
    \/ \E v \in Ws : sess[v] = "closePrev" /\ held[v] = w

\* A connection that is up and registered is the one in active_agents, or is
\* being closed: an agent is never left connected, with its heartbeats
\* accepted, while tasks for it fail with "Agent not connected".
NoOrphanedConnection ==
    \A w \in Ws :
        /\ sess[w] \in Registered
        /\ sock[w] \in {"open", "hung"}
        /\ active[who[w]] # w
        => BeingClosed(w)

\* An agent the frontend sees as connected has a socket tasks can be sent on;
\* otherwise a coroutine that will reset the entry is on its way: the watchdog,
\* or the cleanup of a session whose transport is down
\* (agent_runtime.py timeout_agent, reset_agent_runtime_state).
ConnectedIsReachable ==
    \A a \in Agent :
        conn[a] = "yes" /\ active[a] = None
        => \/ wdSock # None /\ who[wdSock] = a
           \/ \E w \in Ws : /\ who[w] = a
                            /\ sess[w] \in Named
                            /\ sock[w] \in Down

\* A registry row says online only while a session of that agent exists that
\* will write offline when it ends (agents/lifecycle_handler.py
\* cleanup_connection): rows do not stay online after the last disconnect.
OnlineHasSession ==
    \A a \in Agent :
        reg[a] = "online" => \E w \in Ws : who[w] = a /\ sess[w] \in Named

\* Frontends are never left showing a lost agent as connected: whenever they do,
\* the snapshot event is set or the watchdog will set it at the end of its round
\* (server.py _heartbeat_watchdog, _send_to_agent, _frontend_snapshot_broadcaster;
\* network/agent_session.py finally).  The opposite staleness is possible for a
\* while: a heartbeat with a wrong hostname on a replaced socket marks the agent
\* connected and sets no event; see StableAgentReachable.
NoLostSnapshot ==
    \A a \in Agent :
        shown[a] = "yes" /\ conn[a] # "yes" => snapEvent \/ wdSock # None

\* A connection that stays up, with heartbeats arriving.
Stable(w) == sess[w] # "none" /\ sock[w] = "open"

\* An agent whose connection stays up ends up as the dispatch target, and shown
\* as connected, for good, whatever races its reconnection won or lost against
\* the watchdog, old sessions and failing sends.
StableAgentReachable ==
    \A w \in Ws : \A a \in Agent :
        <>[](Stable(w) /\ who[w] = a)
            => <>[](active[a] = w /\ conn[a] = "yes" /\ shown[a] = "yes")

\* ... and the registry says online again and again (a rejected handshake under
\* the same id may write offline in between).
StableAgentOnline ==
    \A w \in Ws : \A a \in Agent :
        <>[](Stable(w) /\ who[w] = a) => []<>(reg[a] = "online")

\* Both together: an agent whose connection stays up is served, in the runtime
\* table (agent_runtime.py register_agent) and in the registry
\* (agents/lifecycle_handler.py heartbeat).
StableAgentServed == StableAgentReachable /\ StableAgentOnline

\* No connection of a brings frames any more.
Gone(a) == \A w \in Ws : who[w] = a /\ sess[w] # "none" => sock[w] # "open"

\* An agent that stops sending is in the end shown as disconnected, and is no
\* longer a dispatch target once its transport is down (docs/ARCHITECTURE.md,
\* Heartbeat Timeout).
SilentAgentShownOffline ==
    \A a \in Agent : <>[]Gone(a) => <>[](conn[a] # "yes" /\ shown[a] # "yes")
=============================================================================
