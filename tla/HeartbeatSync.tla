--------------------------- MODULE HeartbeatSync ---------------------------
(***************************************************************************)
(* How the server's picture of an agent's processes follows the agent      *)
(* (vm_agent/src/core/{agent,process_manager,abstract_proces}.py,          *)
(* network/agent_client.py; the server's agent_runtime.py).                *)
(*                                                                         *)
(* The agent's life cycle ticks its table of processes once a second.  Its *)
(* main loop, once a second too but on its own, sends a heartbeat: what    *)
(* has changed since the last report, or everything if the connection is   *)
(* new (a sync).  A report counts as made even if the connection is down   *)
(* and it is dropped.  The server merges the heartbeats of an agent into   *)
(* one table, and empties it when the registered connection ends.          *)
(*                                                                         *)
(* One Windows session of one agent is modelled.  Telemetry is one value   *)
(* that may change, static data is known or not.  A process id is used     *)
(* once.                                                                   *)
(***************************************************************************)
EXTENDS Integers, Sequences, FiniteSets

CONSTANTS
    Obj,        \* process objects (AbstractProcess)
    Monitored,  \* the ones that are MonitoredProcess
    Pid,
    Val,        \* telemetry readings
    MaxConn,    \* connections made, numbered from 1
    MaxWire,    \* bound on the heartbeats under way on a connection
    MaxTable,   \* bound on the size of the table
    None

ASSUME MonitoredAssumption == Monitored \subseteq Obj
ASSUME ConnAssumption == MaxConn \in Nat \ {0} /\ MaxWire \in Nat /\ MaxTable \in Nat
ASSUME NoneAssumption == None \notin Pid \cup Val
ASSUME FiniteAssumption == IsFiniteSet(Obj)

VARIABLES
    alive, used,   \* Windows: the processes that run, and the ids that have been used
    obj,           \* the objects; pid = None: not in the table
    reported,      \* _last_reported_pids
    link,          \* the connection manager: status and number of the connection
    init,          \* AgentClient.init
    syncSent,      \* _sync_sent_for_current_connection
    wire,          \* what each connection has under way
    srv,           \* the server's session of each connection
    registered,    \* active_agents: the connection registered, or 0
    view,          \* latest_stats: the processes of the session
    \* Observation: the last sync merged came over the registered connection, and
    \* since then no heartbeat was lost.
    clean

agentVars == <<obj, reported>>
linkVars == <<link, init, syncSent>>
serverVars == <<srv, registered, view>>
vars == <<alive, used, agentVars, linkVars, wire, serverVars, clean>>

Conn == 1..MaxConn

Row == [static : BOOLEAN, val : Val \cup {None}, up : BOOLEAN]

ASSUME NoRowAssumption == None \notin Row

Rows == [Pid -> Row \cup {None}]

Message == [kind : {"handshake"}] \cup
           [kind : {"heartbeat"}, sync : BOOLEAN, count : Nat, rows : Rows]

TypeOK ==
    /\ alive \subseteq used /\ used \subseteq Pid
    /\ obj \in [Obj -> [pid : Pid \cup {None}, up : BOOLEAN, denied : BOOLEAN,
                        change : BOOLEAN, val : Val \cup {None}, sent : Val \cup {None}]]
    /\ reported \subseteq Pid
    /\ link \in [status : {"down", "up"}, conn : 0..MaxConn]
    /\ init \in BOOLEAN /\ syncSent \in BOOLEAN
    /\ wire \in [Conn -> Seq(Message)]
    /\ srv \in [Conn -> {"none", "open", "auth", "ended"}]
    /\ registered \in 0..MaxConn
    /\ view \in Rows
    /\ clean \in BOOLEAN

NoRows == [p \in Pid |-> None]

Unused == [pid |-> None, up |-> FALSE, denied |-> FALSE, change |-> FALSE,
           val |-> None, sent |-> None]

Init ==
    /\ alive = {} /\ used = {}
    /\ obj = [o \in Obj |-> Unused]
    /\ reported = {}
    /\ link = [status |-> "down", conn |-> 0] 
    /\ init = FALSE /\ syncSent = FALSE
    /\ wire = [c \in Conn |-> <<>>]
    /\ srv = [c \in Conn |-> "none"] /\ registered = 0
    /\ view = NoRows
    /\ clean = FALSE

-----------------------------------------------------------------------------
(* The agent's process table.                                              *)

Table == {o \in Obj : obj[o].pid # None}

Pids == {obj[o].pid : o \in Table}

HasRoom == Cardinality(Table) < MaxTable

\* Which unused id or object is taken does not matter.
Fresh(S) == IF S = {} THEN {} ELSE {CHOOSE x \in S : TRUE}

\* on_start of a process the agent has a handle of: its data are read anew.
OnStart(x, p, v) == [x EXCEPT !.pid = p, !.up = TRUE, !.change = TRUE, !.val = v]

\* A program the server asked for (_start_process, _start_monitored_process).
StartProgram(o, p, v) ==
    /\ o \in Obj \ Table /\ obj[o] = Unused /\ HasRoom /\ p \in Fresh(Pid \ used)
    /\ alive' = alive \cup {p} /\ used' = used \cup {p}
    /\ obj' = [obj EXCEPT ![o] = OnStart(@, p, v)]
    /\ UNCHANGED <<reported, linkVars, wire, serverVars, clean>>

\* A process found by discover_processes_per_session, as the tick that looked for
\* it leaves it: not due for telemetry yet, or not to be opened (access denied).
Discover(o, p, v, denied) ==
    /\ o \in Obj \ (Table \cup Monitored) /\ obj[o] = Unused /\ HasRoom /\ p \in Fresh(Pid \ used)
    /\ alive' = alive \cup {p} /\ used' = used \cup {p}
    /\ obj' = [obj EXCEPT ![o] = [OnStart(@, p, v) EXCEPT !.denied = denied,
                                                         !.up = ~denied, !.change = FALSE]]
    /\ UNCHANGED <<reported, linkVars, wire, serverVars, clean>>

Exit(p) ==
    /\ p \in alive
    /\ alive' = alive \ {p}
    /\ UNCHANGED <<used, agentVars, linkVars, wire, serverVars, clean>>

\* on_tick of a process that still runs: v is the new reading, None if there is none
\* or it is not due.
TickedRunning(x, v) ==
    IF v # None /\ v # x.sent THEN [x EXCEPT !.change = TRUE, !.val = v]
    ELSE [x EXCEPT !.change = FALSE]

\* Faulty: an object stays in the table when its process has ended.
TickedKeeping(x, v, monitored) ==
    IF x.pid = None THEN x
    ELSE IF x.up /\ x.pid \in alive THEN TickedRunning(x, v)
    ELSE [x EXCEPT !.up = FALSE, !.change = x.up]

\* on_tick of ProcessManager for one process.  A dead one leaves the table; a
\* monitored one stays.
Ticked(x, v, monitored) ==
    IF x.pid = None THEN x
    ELSE IF x.denied THEN IF x.pid \in alive THEN [x EXCEPT !.change = FALSE] ELSE Unused
    ELSE IF x.up /\ x.pid \in alive THEN TickedRunning(x, v)
    ELSE IF ~monitored THEN Unused
    ELSE [x EXCEPT !.up = FALSE, !.change = x.up]

\* The life cycle's tick: every process of the session.
Tick(v) ==
    /\ obj' = [o \in Obj |-> Ticked(obj[o], v[o], o \in Monitored)]
    /\ UNCHANGED <<alive, used, reported, linkVars, wire, serverVars, clean>>

\* A tick that starts a monitored process, down for long enough, under a new id.
TickRestarts(v, r, p) ==
    /\ r \in Table \cap Monitored /\ ~obj[r].up /\ p \in Fresh(Pid \ used) /\ v[r] # None
    /\ alive' = alive \cup {p} /\ used' = used \cup {p}
    /\ obj' = [o \in Obj |-> IF o = r THEN OnStart(obj[r], p, v[r])
                             ELSE Ticked(obj[o], v[o], o \in Monitored)]
    /\ UNCHANGED <<reported, linkVars, wire, serverVars, clean>>

-----------------------------------------------------------------------------
(* The heartbeat.                                                          *)

\* to_json_only_change: what is sent of an object, None if nothing.
Delta(x, sync) ==
    IF ~sync /\ ~x.change THEN None
    ELSE [static |-> sync \/ x.sent = None, up |-> x.up,
          val |-> IF sync \/ x.sent = None \/ x.val # x.sent THEN x.val ELSE None]

HolderOf(p) == CHOOSE o \in Table : obj[o].pid = p

Gone == [static |-> FALSE, up |-> FALSE, val |-> None]

\* Faulty: what is gone is not reported.
StatusKeepingGone(sync) ==
    [p \in Pid |-> IF p \in Pids THEN Delta(obj[HolderOf(p)], sync) ELSE None]

\* get_status: the processes with something to report and, unless everything is
\* sent, the ones that have left the table since the last report.
Status(sync) ==
    [p \in Pid |-> IF p \in Pids THEN Delta(obj[HolderOf(p)], sync)
                   ELSE IF ~sync /\ p \in reported THEN Gone
                   ELSE None]

\* _last_send_state is set for what was reported, delivered or not.
Sent(sync) ==
    [o \in Obj |-> IF o \in Table /\ Delta(obj[o], sync) # None
                   THEN [obj[o] EXCEPT !.sent = obj[o].val] ELSE obj[o]]

Beat(sync) == [kind |-> "heartbeat", sync |-> sync, count |-> Cardinality(Table),
               rows |-> Status(sync)]

\* send_event: dropped unless the connection is up.
Send(m) ==
    IF link.status = "up"
    THEN wire' = [wire EXCEPT ![link.conn] = Append(@, m)]
    ELSE wire' = wire

Report(sync) ==
    /\ link.status = "up" => Len(wire[link.conn]) < MaxWire
    /\ Send(Beat(sync))
    /\ obj' = Sent(sync)
    /\ reported' = Pids
    /\ clean' = (clean /\ link.status = "up")

\* _consume_pending_sync and heartbeat
MainLoopBeats ==
    /\ init
    /\ Report(~syncSent)
    /\ syncSent' = TRUE
    /\ UNCHANGED <<alive, used, link, init, serverVars>>

\* The main loop passes while no session is initialised.
MainLoopWaits ==
    /\ ~init
    /\ syncSent' = FALSE
    /\ UNCHANGED <<alive, used, agentVars, link, init, wire, serverVars, clean>>

\* _set_window_tracking: a sync of its own, whatever the main loop has sent.
TrackingEnabled ==
    /\ link.status = "up" /\ init
    /\ Report(TRUE)
    /\ UNCHANGED <<alive, used, linkVars, serverVars>>

-----------------------------------------------------------------------------
(* The connection.                                                         *)

\* The read loop ends, and what is under way may be lost from some point on.
\* init is still set while the connection manager waits to retry.
Break(n) ==
    /\ link.status = "up" /\ n \in 0..Len(wire[link.conn])
    /\ link' = [link EXCEPT !.status = "down"]
    /\ wire' = [wire EXCEPT ![link.conn] = SubSeq(@, 1, n)]
    /\ clean' = FALSE
    /\ UNCHANGED <<alive, used, agentVars, init, syncSent, serverVars>>

\* connection_manager tries again: a new AgentConnection is opened.
Reconnect ==
    /\ link.status = "down" /\ link.conn < MaxConn
    /\ init' = FALSE
    /\ link' = [status |-> "up", conn |-> link.conn + 1]
    /\ srv' = [srv EXCEPT ![link.conn + 1] = "open"]
    /\ UNCHANGED <<alive, used, agentVars, syncSent, wire, registered, view, clean>>

\* The server's handshake arrives, and is answered.
Greeted ==
    /\ link.status = "up" /\ ~init
    /\ init' = TRUE
    /\ Send([kind |-> "handshake"])
    /\ UNCHANGED <<alive, used, agentVars, link, syncSent, serverVars, clean>>

-----------------------------------------------------------------------------
(* The server.                                                             *)

\* _handle_handshake: the agent is registered; its table is left as it is.
Accept(c) ==
    /\ srv[c] \in {"open", "auth"} /\ wire[c] # <<>> /\ Head(wire[c]).kind = "handshake"
    /\ wire' = [wire EXCEPT ![c] = Tail(@)]
    /\ srv' = [srv EXCEPT ![c] = "auth"]
    /\ registered' = c
    /\ clean' = FALSE
    /\ UNCHANGED <<alive, used, agentVars, linkVars, view>>

\* One row of merge_heartbeat, without sync.
Merged(old, new) ==
    IF new = None THEN old
    ELSE IF ~new.up THEN None
    ELSE IF old = None THEN new
    ELSE [static |-> old.static \/ new.static, up |-> TRUE,
          val |-> IF new.val # None THEN new.val ELSE old.val]

MergedView(m) ==
    IF m.sync THEN m.rows
    ELSE IF m.rows = NoRows /\ m.count = 0 THEN NoRows
    ELSE [p \in Pid |-> Merged(view[p], m.rows[p])]

MergeHeartbeat(c) ==
    /\ srv[c] = "auth" /\ wire[c] # <<>> /\ Head(wire[c]).kind = "heartbeat"
    /\ wire' = [wire EXCEPT ![c] = Tail(@)]
    /\ view' = MergedView(Head(wire[c]))
    /\ clean' = (c = registered /\ c = link.conn /\ link.status = "up"
                 /\ (clean \/ Head(wire[c]).sync))
    /\ UNCHANGED <<alive, used, agentVars, linkVars, srv, registered>>

\* reset_agent_runtime_state
Reset == view' = NoRows

\* cleanup_connection: a session whose agent has registered another connection
\* leaves the table alone.
SessionEnds(c) ==
    /\ srv[c] \in {"open", "auth"} /\ (link.conn # c \/ link.status # "up")
    /\ srv' = [srv EXCEPT ![c] = "ended"]
    /\ wire' = [wire EXCEPT ![c] = <<>>]
    /\ IF srv[c] = "auth" /\ registered \in {0, c}
       THEN Reset /\ registered' = 0 /\ clean' = FALSE
       ELSE UNCHANGED <<registered, view, clean>>
    /\ UNCHANGED <<alive, used, agentVars, linkVars>>

\* timeout_agent, for a connection whose heartbeats no longer arrive
TimeoutAgent ==
    /\ registered # 0
    /\ registered' = 0
    /\ Reset /\ clean' = FALSE
    /\ UNCHANGED <<alive, used, agentVars, linkVars, wire, srv>>

-----------------------------------------------------------------------------
MainLoop == MainLoopBeats \/ MainLoopWaits

Reading == [Obj -> Val \cup {None}]

TickStep == \E v \in Reading : Tick(v)

Receive(c) == Accept(c) \/ MergeHeartbeat(c)

Next ==
    \/ \E o \in Obj, p \in Pid, v \in Val :
          StartProgram(o, p, v) \/ \E denied \in BOOLEAN : Discover(o, p, v, denied)
    \/ \E p \in Pid : Exit(p)
    \/ TickStep
    \/ \E v \in Reading, o \in Obj, p \in Pid : TickRestarts(v, o, p)
    \/ MainLoop
    \/ TrackingEnabled
    \/ \E n \in 0..MaxWire + 1 : Break(n)
    \/ Reconnect \/ Greeted
    \/ \E c \in Conn : Receive(c) \/ SessionEnds(c)
    \/ TimeoutAgent

Spec == Init /\ [][Next]_vars

(* Both loops of the agent run every second, and the server reads what it  *)
(* is sent.                                                                *)
FairSpec ==
    /\ Spec
    /\ WF_vars(TickStep) /\ WF_vars(MainLoop)
    /\ \A c \in Conn : WF_vars(Receive(c))

-----------------------------------------------------------------------------
(* Properties.                                                             *)

Quiet == link.status = "up" /\ wire[link.conn] = <<>>

\* Deltas add up: once a sync has been merged, and as long as no heartbeat is lost,
\* the server shows, whenever nothing is under way, only processes the agent last
\* reported, each with the reading the agent last sent of it.  (A monitored process
\* that was restarted is shown without the readings its former self had sent.)
ViewFollowsReports ==
    clean /\ Quiet => \A p \in Pid : view[p] # None =>
        /\ p \in reported
        /\ p \in Pids /\ HolderOf(p) \notin Monitored => view[p].val = obj[HolderOf(p)].sent

\* The state is well typed and the server's picture is the one the agent reported
\* (get_status on the agent, merge_heartbeat on the server).
ViewOK == TypeOK /\ ViewFollowsReports

ShownRunning(p) == view[p] # None /\ view[p].up

\* A process that has ended is no longer shown as running, or a heartbeat was lost
\* (on_tick, get_status, merge_heartbeat).  A monitored process is excepted until it
\* is restarted: the tick after the one that noticed its end takes the notice back,
\* and if both come between two heartbeats the end is not reported.
DeadLeavesView ==
    \A p \in Pid : (p \in used \ alive /\ clean) ~>
        (~ShownRunning(p) \/ ~clean \/ \E o \in Monitored : obj[o].pid = p)
=============================================================================
