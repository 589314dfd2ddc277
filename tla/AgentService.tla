----------------------------- MODULE AgentService -----------------------------
(***************************************************************************)
(* The agent as a Windows service: three threads that share fields without *)
(* a lock.  The service's main thread makes the agent, starts its thread   *)
(* and waits for an event (service/agent_service.py); the control thread   *)
(* runs SvcStop when Windows asks for it, at any moment; the agent's       *)
(* thread starts the life cycle, loops while its status is RUNNING, and    *)
(* stops the life cycle (core/agent.py, core/life_cycle_manager.py).       *)
(*                                                                         *)
(* stop() and the agent's thread write the same status: a stop that comes  *)
(* before the loop is overwritten, and the agent's thread, a daemon, ends  *)
(* with the process.  The only component of the life cycle is the          *)
(* SessionManager.                                                         *)
(***************************************************************************)
EXTENDS Integers

VARIABLES
    main,     \* the main thread: off, making, made, waiting, over, failed
    control,  \* the control thread: idle, flagged, joining, setting, done
    thread,   \* the agent's thread
    status,   \* VmAgent._status
    running,  \* LifecycleManager._running
    ticking,  \* its tick loop's task is not over
    starts,   \* calls of the component's on_start and on_stop
    stops,
    event     \* hWaitStop is set

vars == <<main, control, thread, status, running, ticking, starts, stops, event>>

TypeOK ==
    /\ main \in {"off", "making", "made", "waiting", "over", "failed"}
    /\ control \in {"idle", "flagged", "joining", "setting", "done"}
    /\ thread \in {"none", "begun", "validate", "connect", "start", "loop",
                   "stop", "await", "components", "again", "over", "killed"}
    /\ status \in {"initializing", "running", "stopped", "error"}
    /\ running \in BOOLEAN
    /\ ticking \in BOOLEAN
    /\ starts \in 0..1
    /\ stops \in 0..1
    /\ event \in BOOLEAN

Init ==
    /\ main = "off"
    /\ control = "idle"
    /\ thread = "none"
    /\ status = "initializing"
    /\ running = FALSE
    /\ ticking = FALSE
    /\ starts = 0
    /\ stops = 0
    /\ event = FALSE

lifecycle == <<running, ticking, starts, stops>>

-----------------------------------------------------------------------------
(* The main thread *)

\* Windows starts the service: SvcDoRun.
SvcDoRun ==
    /\ main = "off"
    /\ main' = "making"
    /\ UNCHANGED <<control, thread, status, lifecycle, event>>

\* VmAgent(), which may raise: the service has crashed.
MakeAgent ==
    /\ main = "making"
    /\ main' \in {"made", "failed"}
    /\ UNCHANGED <<control, thread, status, lifecycle, event>>

StartThread ==
    /\ main = "made"
    /\ main' = "waiting"
    /\ thread' = "begun"
    /\ UNCHANGED <<control, status, lifecycle, event>>

\* The event is seen, and the process ends with whatever the daemon thread does.
WaitOver ==
    /\ main = "waiting" /\ event
    /\ main' = "over"
    /\ event' = FALSE
    /\ thread' = IF thread = "over" THEN "over" ELSE "killed"
    /\ UNCHANGED <<control, status, lifecycle>>

-----------------------------------------------------------------------------
(* The control thread *)

\* SvcStop, at any time after SERVICE_RUNNING was reported.
SvcStop ==
    /\ control = "idle" /\ main \in {"making", "made", "waiting"}
    /\ control' = "flagged"
    /\ UNCHANGED <<main, thread, status, lifecycle, event>>

\* VmAgent.stop, if there is an agent yet.
StopAgent ==
    /\ control = "flagged"
    /\ status' = IF main = "making" THEN status ELSE "stopped"
    /\ control' = "joining"
    /\ UNCHANGED <<main, thread, lifecycle, event>>

Alive == thread \notin {"none", "over", "killed"}

\* Faulty: waits for the agent's thread without a timeout.
JoinForever ==
    /\ control = "joining"
    /\ ~Alive
    /\ control' = "setting"
    /\ UNCHANGED <<main, thread, status, lifecycle, event>>

\* The thread is over, was not started, or is given up after ten seconds.
Join ==
    /\ control = "joining"
    /\ control' = "setting"
    /\ UNCHANGED <<main, thread, status, lifecycle, event>>

SetEvent ==
    /\ control = "setting"
    /\ event' = TRUE
    /\ control' = "done"
    /\ UNCHANGED <<main, thread, status, lifecycle>>

-----------------------------------------------------------------------------
(* The agent's thread *)

\* run
Run ==
    /\ thread = "begun"
    /\ status' = "initializing"
    /\ thread' = "validate"
    /\ UNCHANGED <<main, control, lifecycle, event>>

\* _validate_runtime_host raises on another host than the package's.
Validate ==
    /\ thread = "validate"
    /\ \/ thread' = "connect" /\ UNCHANGED status
       \/ thread' = "stop" /\ status' = "error"
    /\ UNCHANGED <<main, control, lifecycle, event>>

\* The client's task and the executor are made, LifecycleManager.start runs.
StartLifecycle ==
    /\ thread = "connect"
    /\ running' = TRUE /\ ticking' = TRUE
    /\ starts' = starts + 1
    /\ thread' = "start"
    /\ UNCHANGED <<main, control, status, stops, event>>

Started ==
    /\ thread = "start"
    /\ status' = "running"
    /\ thread' = "loop"
    /\ UNCHANGED <<main, control, lifecycle, event>>

\* A round of the main loop finds that it is to end, or a fatal connection error.
EndLoop ==
    /\ thread = "loop"
    /\ \/ status # "running" /\ UNCHANGED status
       \/ status = "running" /\ status' = "error"
    /\ thread' = "stop"
    /\ UNCHANGED <<main, control, lifecycle, event>>

\* The server refuses the agent: _handle_auth_result.
Refused ==
    /\ thread = "loop"
    /\ status' = "error"
    /\ UNCHANGED <<main, control, thread, lifecycle, event>>

\* LifecycleManager.stop, called in the finally clause and once more after it.
StopLifecycle ==
    /\ thread \in {"stop", "again"}
    /\ thread' = CASE running -> "await"
                   [] ~running /\ thread = "stop" -> "again"
                   [] OTHER -> "over"
    /\ running' = FALSE
    /\ UNCHANGED <<main, control, status, ticking, starts, stops, event>>

\* The tick loop's task was cancelled, and ends.
TickLoopEnds ==
    /\ thread = "await"
    /\ ticking' = FALSE
    /\ thread' = "components"
    /\ UNCHANGED <<main, control, status, running, starts, stops, event>>

StopComponents ==
    /\ thread = "components"
    /\ stops' = stops + 1
    /\ thread' = IF stops = 0 THEN "again" ELSE "over"
    /\ UNCHANGED <<main, control, status, running, ticking, starts, event>>

-----------------------------------------------------------------------------

ControlStep == StopAgent \/ Join \/ SetEvent

AgentStep ==
    \/ Run \/ Validate \/ StartLifecycle \/ Started
    \/ (status # "running" /\ EndLoop)
    \/ StopLifecycle \/ TickLoopEnds \/ StopComponents

Next ==
    \/ SvcDoRun \/ MakeAgent \/ StartThread \/ WaitOver
    \/ SvcStop \/ ControlStep
    \/ AgentStep \/ EndLoop \/ Refused

Spec == Init /\ [][Next]_vars

\* Windows runs the threads, and VmAgent() returns or raises.
Fairness ==
    /\ WF_vars(MakeAgent) /\ WF_vars(StartThread) /\ WF_vars(WaitOver)
    /\ WF_vars(ControlStep) /\ WF_vars(AgentStep)

-----------------------------------------------------------------------------
(* Properties *)

\* The service stops when it is asked to, wherever the other threads are: also
\* when stop() came before there was an agent or was overwritten by its thread.
StopEndsService == (control # "idle") ~> (main \in {"over", "failed"})

\* The component is stopped as often as it was started, once, whichever way the
\* agent's thread came to its end: refused, on a wrong host, or told to stop; and
\* never while it is still ticked.
StoppedAsStarted ==
    /\ stops <= starts
    /\ stops = 1 => ~ticking
    /\ thread = "over" => stops = starts
=============================================================================
