--------------------------- MODULE AgentProcesses ---------------------------
(***************************************************************************)
(* The agent's tables of processes (vm_agent/src/core/: session_manager,   *)
(* user_session, process_manager, abstract_proces, monitored_proces).      *)
(*                                                                         *)
(* The life cycle ticks once a second.  Every 30th tick looks for new      *)
(* sessions and processes; every tick visits the processes of the system   *)
(* session and of each user's session, drops the ones that have ended and  *)
(* starts monitored ones again that have been down for a while.  The agent *)
(* is one thread, so commands come between ticks; Windows does not wait:   *)
(* users sign in and out and processes start and end at any time.          *)
(*                                                                         *)
(* A session's explorer runs as long as the session.  A process id or a    *)
(* session id is used once.  A monitored program is started once, and its  *)
(* name stands for its executable and the mark on its command line, which  *)
(* other processes may carry.                                              *)
(***************************************************************************)
EXTENDS Integers

CONSTANTS
    User, Sid, Pid,
    Prog,           \* programs that may be monitored
    System,         \* the owner of the system session
    RestartAfter,   \* ticks a monitored process is down before it is restarted (5)
    DeniedLimit,    \* ticks a process that cannot be opened is kept (60)
    None

ASSUME LimitsAssumption == RestartAfter \in Nat \ {0} /\ DeniedLimit \in Nat
ASSUME NamesAssumption == None \notin User \cup Sid \cup Pid \cup Prog /\ System \notin User

VARIABLES
    user,      \* Windows: the user of each session; None: not started, or over
    usedSid,   \* Windows: the sessions that have been started
    proc,      \* Windows: the processes
    sess,      \* _sessions: what the agent keeps of each user's session
    tab,       \* _procs of each session
    todo,      \* <<owner, pid>> of the monitored processes this tick has still to restart
    \* Observation: programs that were started, and of those the ones a running
    \* process was taken over for, or that ended with the code "access denied".
    started, adopted, denied

osVars == <<user, usedSid, proc>>
ghosts == <<started, adopted, denied>>
vars == <<osVars, sess, tab, todo, ghosts>>

Owner == User \cup {System}

Process == [state : {"unused", "up", "ended", "denied"}, sid : Sid \cup {System, None},
            tag : Prog \cup {None}, closed : BOOLEAN]

Object == [prog : Prog \cup {None}, pid : Pid, status : {"running", "failed", "denied"},
           handle : BOOLEAN, down : 0..RestartAfter + DeniedLimit]

Session == [sid : Sid, token : Sid \cup {None}, explorer : Sid \cup {None}]

ASSUME NoneAssumption == None \notin Object /\ None \notin Session

TypeOK ==
    /\ user \in [Sid -> User \cup {None}] /\ usedSid \subseteq Sid
    /\ proc \in [Pid -> Process]
    /\ sess \in [User -> Session \cup {None}]
    /\ tab \in [Owner -> [Pid -> Object \cup {None}]]
    /\ todo \subseteq Owner \X Pid
    /\ started \subseteq Prog /\ adopted \subseteq started /\ denied \subseteq started

Init ==
    /\ user = [s \in Sid |-> None] /\ usedSid = {}
    /\ proc = [p \in Pid |-> [state |-> "unused", sid |-> None, tag |-> None, closed |-> FALSE]]
    /\ sess = [u \in User |-> None]
    /\ tab = [o \in Owner |-> [p \in Pid |-> None]]
    /\ todo = {}
    /\ started = {} /\ adopted = {} /\ denied = {}

-----------------------------------------------------------------------------
(* Windows.                                                                *)

Up(s) == s = System \/ (s \in Sid /\ user[s] # None)

Live == {p \in Pid : proc[p].state = "up"}

\* Which unused id is taken does not matter.
Fresh(S) == IF S = {} THEN {} ELSE {CHOOSE x \in S : TRUE}

FreshPid == Fresh({p \in Pid : proc[p].state = "unused"})

Running(s, g, closed) == [state |-> "up", sid |-> s, tag |-> g, closed |-> closed]

LogOn(u, s) ==
    /\ s \in Fresh(Sid \ usedSid) /\ \A r \in Sid : user[r] # u
    /\ user' = [user EXCEPT ![s] = u] /\ usedSid' = usedSid \cup {s}
    /\ UNCHANGED <<proc, sess, tab, todo, ghosts>>

LogOff(s) ==
    /\ user[s] # None
    /\ user' = [user EXCEPT ![s] = None]
    /\ proc' = [p \in Pid |-> IF p \in Live /\ proc[p].sid = s
                              THEN [proc[p] EXCEPT !.state = "ended"] ELSE proc[p]]
    /\ UNCHANGED <<usedSid, sess, tab, todo, ghosts>>

\* A process the agent did not start: a protected one of the system session, which may
\* not be opened, or one of a user, which may carry a mark.
Spawn(p, s, g, closed) ==
    /\ p \in FreshPid /\ Up(s) /\ (closed <=> s = System) /\ (closed => g = None)
    /\ proc' = [proc EXCEPT ![p] = Running(s, g, closed)]
    /\ UNCHANGED <<user, usedSid, sess, tab, todo, ghosts>>

\* A process ends; its exit code may be 5, "access denied".
Exit(p, code) ==
    /\ p \in Live /\ code \in {"ended", "denied"}
    /\ proc' = [proc EXCEPT ![p].state = code]
    /\ denied' = denied \cup {g \in started : code = "denied" /\ \E o \in Owner, k \in Pid :
                                  tab[o][k] # None /\ tab[o][k].prog = g /\ tab[o][k].pid = p}
    /\ UNCHANGED <<user, usedSid, sess, tab, todo, started, adopted>>

-----------------------------------------------------------------------------
(* Objects and their state.                                                *)

\* set_pid and on_start of a process that was found.
Found(p) == [prog |-> None, pid |-> p, status |-> IF proc[p].closed THEN "denied" ELSE "running",
             handle |-> ~proc[p].closed, down |-> 0]

\* on_start of a process that was started.
Begun(g, p) == [prog |-> g, pid |-> p, status |-> "running", handle |-> TRUE, down |-> 0]

\* _check_state, get_exit_code and set_state: "denied" is never left, an object
\* without a handle has failed.
StatusOf(x) ==
    IF x.status = "denied" THEN "denied"
    ELSE IF ~x.handle THEN "failed"
    ELSE CASE proc[x.pid].state = "up"     -> "running"
           [] proc[x.pid].state = "denied" -> "denied"
           [] OTHER                        -> "failed"

\* Faulty: the time a monitored process is down is not counted.
TickedUncounted(x) ==
    [x EXCEPT !.status = StatusOf(x), !.down = IF StatusOf(x) = "denied" THEN @ + 1 ELSE @]

\* on_tick of an object; down_time counts for denied and monitored ones.
Ticked(x) ==
    LET st == StatusOf(x) IN
    [x EXCEPT !.status = st,
              !.down = IF st = "denied" \/ (st = "failed" /\ x.prog # None /\ @ < RestartAfter)
                       THEN @ + 1 ELSE @]

-----------------------------------------------------------------------------
(* Looking for sessions and processes.                                     *)

\* _refresh_sessions: the session a user has now.
RefreshedSession(u) ==
    LET now == {s \in Sid : user[s] = u} IN
    IF now = {} THEN sess[u]
    ELSE LET s == CHOOSE s \in now : TRUE IN
         IF sess[u] = None THEN [sid |-> s, token |-> None, explorer |-> None]
         ELSE [sess[u] EXCEPT !.sid = s]

\* close_all_processes, for a session whose id has changed: monitored ones stay.
Closed(t, u) == [p \in Pid |-> IF t[u][p] # None /\ t[u][p].prog # None THEN t[u][p] ELSE None]

RefreshedTable ==
    [o \in Owner |->
        IF o # System /\ sess[o] # None /\ sess[o].sid # RefreshedSession(o).sid
        THEN Closed(tab, o) ELSE tab[o]]

\* Faulty: monitored ones are dropped too.
StaleAny(x, p) == x # None /\ p \notin Live

\* reconcile_live_processes: what is no longer there is dropped, monitored ones stay.
Stale(x, p) == x # None /\ x.prog = None /\ p \notin Live

Managed(t, p) == \E o \in Owner : t[o][p] # None

\* The table for a new process: its session's, or the system's if it is not known.
HomeOf(p, ss) ==
    IF \E u \in User : ss[u] # None /\ ss[u].sid = proc[p].sid
    THEN CHOOSE u \in User : ss[u] # None /\ ss[u].sid = proc[p].sid
    ELSE System

\* discover_processes_per_session
Discovered(t, ss) ==
    [o \in Owner |-> [p \in Pid |->
        IF Stale(t[o][p], p) THEN None
        ELSE IF p \in Live /\ ~Managed(t, p) /\ HomeOf(p, ss) = o THEN Found(p)
        ELSE t[o][p]]]

-----------------------------------------------------------------------------
(* Starting a process in a session (_create_process): with the token of    *)
(* the session's explorer if one is known and thought to run, else with    *)
(* the token taken from the session when it was first needed.              *)

TokenOf(o) == IF sess[o].token # None THEN sess[o].token ELSE sess[o].sid

CanCreate(o) ==
    /\ FreshPid # {}
    /\ Up(TokenOf(o))
    /\ sess[o].explorer # None => Up(sess[o].explorer)

SessionFor(o) == IF sess[o].explorer # None THEN sess[o].explorer ELSE TokenOf(o)

WithToken(o) == [sess EXCEPT ![o].token = IF Up(TokenOf(o)) THEN TokenOf(o) ELSE @]

IsHealthy(o) == \A p \in Pid : tab[o][p] # None /\ tab[o][p].prog # None
                                   => tab[o][p].status = "running"

Idle == todo = {}

\* _start_process, for a program that is not monitored (g = None), and
\* _start_monitored_process.  A start that raises changes nothing else.
StartProcess(u, g, p) ==
    /\ Idle /\ sess[u] # None /\ IsHealthy(u) /\ g \notin started
    /\ sess' = WithToken(u)
    /\ IF CanCreate(u)
       THEN /\ p \in FreshPid
            /\ proc' = [proc EXCEPT ![p] = Running(SessionFor(u), g, FALSE)]
            /\ tab' = [tab EXCEPT ![u][p] = Begun(g, p)]
            /\ started' = started \cup ({g} \ {None})
       ELSE UNCHANGED <<proc, tab, started>>
    /\ UNCHANGED <<user, usedSid, todo, adopted, denied>>

-----------------------------------------------------------------------------
(* A tick.                                                                 *)

Keys(t, o) == {p \in Pid : t[o][p] # None}

\* on_tick of UserSession: a session that is over is passed by, if its explorer had
\* been found.
Visited(o, ss) == o = System \/ (ss[o] # None /\ (ss[o].explorer = None \/ Up(ss[o].sid)))

\* The explorer is looked up until one is known.
WithExplorer(x) ==
    IF x = None \/ ~Up(x.sid) \/ x.explorer # None THEN x ELSE [x EXCEPT !.explorer = x.sid]

Drops(x) ==
    \/ x.status = "denied" /\ x.down > DeniedLimit
    \/ x.status = "failed" /\ x.prog = None

Restarts(x) == x.status = "failed" /\ x.prog # None /\ x.down >= RestartAfter

\* on_tick of ProcessManager, but for the restarts
TickedTable(t, ss) ==
    [o \in Owner |-> [p \in Pid |->
        IF t[o][p] = None \/ ~Visited(o, ss) THEN t[o][p]
        ELSE LET x == Ticked(t[o][p]) IN IF Drops(x) THEN None ELSE x]]

\* on_tick of SessionManager; every 30th looks for sessions and processes first.
Tick(due) ==
    /\ Idle
    /\ \E ss \in {IF due THEN [u \in User |-> RefreshedSession(u)] ELSE sess} :
       \E t \in {IF due THEN Discovered(RefreshedTable, ss) ELSE tab} :
          /\ sess' = [u \in User |-> WithExplorer(ss[u])]
          /\ tab' = TickedTable(t, ss)
          /\ todo' = {e \in Owner \X Pid : LET x == t[e[1]][e[2]] IN
                        x # None /\ Restarts(Ticked(x)) /\ Visited(e[1], ss)}
    /\ UNCHANGED <<osVars, ghosts>>

\* A running process with the same executable and the mark.
Twins(t, o, p, g) ==
    {q \in Keys(t, o) \ {p} : t[o][q].status = "running" /\ proc[q].tag = g}

\* Faulty: the old entry is left in the table.
ReboundKeepingOld(t, o, p, x) == [t EXCEPT ![o][x.pid] = x]

\* rebind_process
Rebound(t, o, p, x) == [t EXCEPT ![o][p] = None, ![o][x.pid] = x]

\* on_restart finds a twin: the object takes over its id, without opening it.  If the
\* twin's own object comes later in the list being ticked and the twin has ended,
\* that object drops the entry, which is no longer its own.
Adopt(o, p, q, later) ==
    /\ <<o, p>> \in todo
    /\ \E x \in {tab[o][p]}, t \in {Discovered(tab, sess)} :
          /\ q \in Twins(t, o, p, x.prog)
          /\ tab' = IF later /\ q \notin Live THEN [t EXCEPT ![o][p] = None, ![o][q] = None]
                    ELSE Rebound(t, o, p, [x EXCEPT !.pid = q, !.handle = FALSE])
          /\ adopted' = adopted \cup {x.prog}
    /\ todo' = todo \ {<<o, p>>}
    /\ UNCHANGED <<osVars, sess, started, denied>>

\* on_restart starts the program again, under a new id, or raises: the next tick
\* tries again.
Restart(o, p, n) ==
    /\ <<o, p>> \in todo /\ o # System
    /\ \E x \in {tab[o][p]}, t \in {Discovered(tab, sess)} :
          /\ Twins(t, o, p, x.prog) = {}
          /\ IF CanCreate(o)
             THEN /\ n \in FreshPid
                  /\ proc' = [proc EXCEPT ![n] = Running(SessionFor(o), x.prog, FALSE)]
                  /\ tab' = Rebound(t, o, p, Begun(x.prog, n))
             ELSE proc' = proc /\ tab' = t
    /\ sess' = WithToken(o)
    /\ todo' = todo \ {<<o, p>>}
    /\ UNCHANGED <<user, usedSid, ghosts>>

TickGoesOn == \E o \in Owner, p, q \in Pid :
    Restart(o, p, q) \/ \E later \in BOOLEAN : Adopt(o, p, q, later)

Next ==
    \/ \E u \in User, s \in Sid : LogOn(u, s)
    \/ \E s \in Sid : LogOff(s)
    \/ \E p \in Pid, s \in Sid \cup {System}, g \in Prog \cup {None}, c \in BOOLEAN :
          Spawn(p, s, g, c)
    \/ \E p \in Pid, code \in {"ended", "denied"} : Exit(p, code)
    \/ \E u \in User, g \in Prog \cup {None}, p \in Pid : StartProcess(u, g, p)
    \/ \E due \in BOOLEAN : Tick(due)
    \/ TickGoesOn

Spec == Init /\ [][Next]_vars

(* The life cycle goes on, and every 30th tick comes.                      *)
FairSpec == Spec /\ WF_vars(TickGoesOn) /\ SF_vars(Tick(TRUE))

-----------------------------------------------------------------------------
(* Properties.                                                             *)

\* The tables agree with the objects in them (start_process, rebind_process,
\* discover_processes_per_session): an object is kept under its own id, no process is in
\* two tables, and a monitored program has at most one object.
EntriesDistinct ==
    /\ \A o \in Owner, p \in Pid : tab[o][p] # None => tab[o][p].pid = p
    /\ \A o, r \in Owner, p \in Pid : tab[o][p] # None /\ tab[r][p] # None => o = r
    /\ \A o, r \in Owner, p, q \in Pid :
          /\ tab[o][p] # None /\ tab[r][q] # None
          /\ tab[o][p].prog = tab[r][q].prog /\ tab[o][p].prog # None
          => o = r /\ p = q

\* The tables are well formed after every start, take-over, restart and discovery:
\* typed, and without an entry that contradicts another.
TablesOK == TypeOK /\ EntriesDistinct

\* A monitored program stays in the table of its session, whatever becomes of its
\* processes and of the session (close_all_processes, reconcile_live_processes, on_tick).
\* Two cases are excepted: an exit code that reads as "access denied", and the
\* entry of a twin that was taken over.
MonitoredKept ==
    \A g \in started \ (adopted \cup denied) :
        \E u \in User, p \in Pid : tab[u][p] # None /\ tab[u][p].prog = g

\* A process that has ended leaves the tables unless it is monitored
\* (reconcile_live_processes, on_tick), in sessions that are over too.
DeadIsForgotten ==
    \A p \in Pid : (proc[p].state \in {"ended", "denied"}) ~>
        (\A o \in Owner : tab[o][p] = None \/ tab[o][p].prog # None)

Has(u, g, status) == \E p \in Pid :
    tab[u][p] # None /\ tab[u][p].prog = g /\ tab[u][p].status \in status

\* A monitored program that is down runs again (on_tick, on_restart), as long as its
\* session lets the agent start processes.
MonitoredComesBack ==
    \A u \in User, g \in Prog : Has(u, g, {"failed"}) ~>
        (Has(u, g, {"running", "denied"}) \/ sess[u] = None \/ ~CanCreate(u) \/ g \in adopted)

\* Together: the ticks deal with every process that ends; it is forgotten, or, if it
\* is monitored, started again (on_tick, reconcile_live_processes, on_restart).
EndedIsHandled == DeadIsForgotten /\ MonitoredComesBack
=============================================================================
