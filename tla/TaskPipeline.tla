---------------------------- MODULE TaskPipeline ----------------------------
(***************************************************************************)
(* Tasks and pipeline runs across server and agent: task API, dispatch,    *)
(* cancellation, the websocket between server and agent, the agent's       *)
(* executor (TaskExecutor), the server's task_status handler and           *)
(* TaskService.advance_pipeline.                                           *)
(*                                                                         *)
(* One agent, one pipeline with one run, and single tasks beside it.  Each *)
(* coroutine of the server advances from await to await; a database write  *)
(* takes effect when its await returns.  The connection delivers in order  *)
(* and loses what is in flight when it breaks; the agent drops what it     *)
(* wants to send while it is disconnected (send_event).  After a           *)
(* reconnection the handler of the old session may still be at work beside *)
(* the new one.                                                            *)
(***************************************************************************)
EXTENDS TaskExecutor, FiniteSets

CONSTANTS
    Pipelines,  \* pipelines to consider: functions from step_index to on_fail
    NoStep,     \* step_index of a task outside any pipeline
    NoTask,     \* no task
    MaxSingle,  \* bound: tasks created outside the pipeline
    MaxCancels, \* bound: tasks an operator cancels
    MaxDrops    \* bound: connection losses

ASSUME PipelinesAssumption ==
    \A p \in Pipelines :
        /\ DOMAIN p \subseteq Nat
        /\ \E i \in DOMAIN p : \A j \in DOMAIN p : i <= j

ASSUME NullAssumption == NoStep \notin Nat /\ NoTask \notin Task

ASSUME MaxDropsAssumption == MaxDrops \in Nat

VARIABLES
    \* The pipeline's definition: on_fail of each step.
    pipeline,
    \* tasks.status, and tasks.step_index.
    row, stepOf,
    \* create_and_dispatch of each task:
    \*   none, row (inserting), send (about to send), sending, markRun, markFail
    \*   (writing the status), refused (the caller has yet to fail the run),
    \*   over
    disp,
    \* api_cancel_task of each task: none, sending, mark, over.
    can,
    \* pipeline_runs.status and current_step.
    run, runStep,
    \* The handler of task_status in the current and in the previous session:
    \* its await point, the event it handles, and the task it dispatches.
    hnd,
    \* The connection and what is in flight on it.
    link, down, up, drops

serverVars == <<pipeline, row, stepOf, disp, can, run, runStep, hnd>>
linkVars == <<link, down, up, drops>>
vars == <<executorVars, serverVars, linkVars>>

Session == {"current", "previous"}

Idle == [at |-> "idle", t |-> NoTask, status |-> "none", next |-> NoTask]

Init ==
    /\ ExecutorInit
    /\ pipeline \in Pipelines
    /\ row = [t \in Task |-> "none"]
    /\ stepOf = [t \in Task |-> NoStep]
    /\ disp = [t \in Task |-> "none"]
    /\ can = [t \in Task |-> "none"]
    /\ run = "none"
    /\ runStep = NoStep
    /\ hnd = [s \in Session |-> Idle]
    /\ link = TRUE
    /\ down = <<>>
    /\ up = <<>>
    /\ drops = 0

RowStatus == Status \cup {"none", "queued"}

TypeOK ==
    /\ ExecutorTypeOK
    /\ pipeline \in Pipelines
    /\ row \in [Task -> RowStatus]
    /\ stepOf \in [Task -> DOMAIN pipeline \cup {NoStep}]
    /\ disp \in [Task -> {"none", "row", "send", "sending", "markRun",
                          "markFail", "refused", "over"}]
    /\ can \in [Task -> {"none", "sending", "mark", "over"}]
    /\ run \in {"none", "running", "completed", "failed"}
    /\ hnd \in [Session ->
                  [at : {"idle", "update", "read", "failRun", "completeRun",
                         "nextRun", "wait"},
                   t : Task \cup {NoTask}, status : Status \cup {"none"},
                   next : Task \cup {NoTask}]]
    /\ link \in BOOLEAN
    /\ drops \in 0..MaxDrops
    /\ down \in Seq([kind : {"execute", "cancel"}, t : Task])
    /\ up \in Seq([t : Task, status : Status])

-----------------------------------------------------------------------------
(* The websocket.                                                          *)

\* Frames in flight are lost, in both directions.
Drop ==
    /\ link
    /\ drops < MaxDrops
    /\ link' = FALSE
    /\ drops' = drops + 1
    /\ down' = <<>>
    /\ up' = <<>>
    /\ UNCHANGED <<executorVars, serverVars>>

\* A new session starts; the old one's handler finishes what it is doing.
Reconnect ==
    /\ ~link
    /\ hnd["previous"] = Idle
    /\ link' = TRUE
    /\ hnd' = [s \in Session |-> IF s = "current" THEN Idle ELSE hnd["current"]]
    /\ UNCHANGED <<executorVars, pipeline, row, stepOf, disp, can, run, runStep,
                   down, up, drops>>

\* The reports of an executor step, if any, go on the wire when connected.
Transmit ==
    /\ \/ reports' = reports /\ up' = up
       \/ \E t \in Task :
             /\ reports'[t] # reports[t]
             /\ up' = IF link
                      THEN Append(up, [t |-> t, status |-> LastReport'[t]])
                      ELSE up
    /\ UNCHANGED <<link, drops>>

\* The agent takes the next command (_execute_task, _cancel_task).
AgentReceives ==
    /\ down # <<>>
    /\ down' = Tail(down)
    /\ LET t == Head(down).t
       IN \/ Head(down).kind = "execute" /\ (Accept(t) \/ NoSession(t))
          \/ Head(down).kind = "cancel" /\ (Cancel(t) \/ CancelIgnored(t))
    /\ Transmit
    /\ UNCHANGED serverVars

AgentWorks(t) ==
    /\ ExecutorStep(t)
    /\ Transmit
    /\ UNCHANGED <<serverVars, down>>

-----------------------------------------------------------------------------
(* Dispatch: create_and_dispatch, as called by the task API, the pipeline  *)
(* API and advance_pipeline.                                               *)

Fresh(t) == disp[t] = "none"

At(f, t, p) == [f EXCEPT ![t] = p]

\* api_create_task
CreateTask(t) ==
    /\ Fresh(t)
    /\ Cardinality({u \in Task : ~Fresh(u) /\ stepOf[u] = NoStep}) < MaxSingle
    /\ disp' = At(disp, t, "row")
    /\ UNCHANGED <<executorVars, pipeline, row, stepOf, can, run, runStep, hnd,
                   linkVars>>

\* steps[0]: the steps are read ordered by step_index.
FirstStep == CHOOSE i \in DOMAIN pipeline : \A j \in DOMAIN pipeline : i <= j

\* api_run_pipeline: the run is stored, marked running, and its first step's
\* task is created.
RunPipeline(t) ==
    /\ run = "none"
    /\ Fresh(t)
    /\ run' = "running"
    /\ runStep' = 0
    /\ stepOf' = [stepOf EXCEPT ![t] = FirstStep]
    /\ disp' = At(disp, t, "row")
    /\ UNCHANGED <<executorVars, pipeline, row, can, hnd, linkVars>>

RowStored(t) ==
    /\ disp[t] = "row"
    /\ row' = At(row, t, "queued")
    /\ disp' = At(disp, t, "send")
    /\ UNCHANGED <<executorVars, pipeline, stepOf, can, run, runStep, hnd,
                   linkVars>>

\* The agent handler looks the socket up and sends, or there is none.
Send(t) ==
    /\ disp[t] = "send"
    /\ IF link
       THEN /\ down' = Append(down, [kind |-> "execute", t |-> t])
            /\ disp' = At(disp, t, "sending")
       ELSE /\ disp' = At(disp, t, "markFail")
            /\ UNCHANGED down
    /\ UNCHANGED <<executorVars, pipeline, row, stepOf, can, run, runStep, hnd,
                   link, up, drops>>

\* send_text returns, or raises when the connection broke: the frame may have
\* arrived all the same.
SendReturns(t) ==
    /\ disp[t] = "sending"
    /\ \/ disp' = At(disp, t, "markRun")
       \/ ~link /\ disp' = At(disp, t, "markFail")
    /\ UNCHANGED <<executorVars, pipeline, row, stepOf, can, run, runStep, hnd,
                   linkVars>>

MarkRunning(t) ==
    /\ disp[t] = "markRun"
    /\ row' = At(row, t, "running")
    /\ disp' = At(disp, t, "over")
    /\ UNCHANGED <<executorVars, pipeline, stepOf, can, run, runStep, hnd,
                   linkVars>>

\* Not accepted: a pipeline's task leaves its caller to fail the run.
MarkFailed(t) ==
    /\ disp[t] = "markFail"
    /\ row' = At(row, t, "failed")
    /\ disp' = At(disp, t, IF stepOf[t] = NoStep THEN "over" ELSE "refused")
    /\ UNCHANGED <<executorVars, pipeline, stepOf, can, run, runStep, hnd,
                   linkVars>>

\* api_run_pipeline and advance_pipeline after a dispatch not accepted, whatever
\* the step's on_fail says.  The former writes current_step 0.
FailRunRefused(t) ==
    /\ disp[t] = "refused"
    /\ run' = "failed"
    /\ runStep' = IF stepOf[t] = FirstStep THEN 0 ELSE stepOf[t]
    /\ disp' = At(disp, t, "over")
    /\ UNCHANGED <<executorVars, pipeline, row, stepOf, can, hnd, linkVars>>

-----------------------------------------------------------------------------
(* api_cancel_task.                                                        *)

CancelBegin(t) ==
    /\ can[t] = "none"
    /\ Cardinality({u \in Task : can[u] # "none"}) < MaxCancels
    /\ row[t] \in {"queued", "running"}
    /\ IF link
       THEN /\ down' = Append(down, [kind |-> "cancel", t |-> t])
            /\ can' = At(can, t, "sending")
       ELSE /\ can' = At(can, t, "over")
            /\ UNCHANGED down
    /\ UNCHANGED <<executorVars, pipeline, row, stepOf, disp, run, runStep, hnd,
                   link, up, drops>>

CancelSent(t) ==
    /\ can[t] = "sending"
    /\ \/ can' = At(can, t, "mark")
       \/ ~link /\ can' = At(can, t, "over")
    /\ UNCHANGED <<executorVars, pipeline, row, stepOf, disp, run, runStep, hnd,
                   linkVars>>

\* The status is not read again after the await.
CancelMarked(t) ==
    /\ can[t] = "mark"
    /\ row' = At(row, t, "cancelled")
    /\ can' = At(can, t, "over")
    /\ UNCHANGED <<executorVars, pipeline, stepOf, disp, run, runStep, hnd,
                   linkVars>>

-----------------------------------------------------------------------------
(* _handle_task_status and advance_pipeline, in a session's coroutine.     *)

Handle(s, at) == [hnd EXCEPT ![s].at = at]

\* The current session's receive loop takes the next report.
Receive ==
    /\ hnd["current"] = Idle
    /\ up # <<>>
    /\ up' = Tail(up)
    /\ hnd' = [hnd EXCEPT !["current"] =
                  [at |-> "update", t |-> Head(up).t, status |-> Head(up).status,
                   next |-> NoTask]]
    /\ UNCHANGED <<executorVars, pipeline, row, stepOf, disp, can, run, runStep,
                   link, down, drops>>

\* Faulty: only success advances it.
AdvancesOnSuccess(status) == status = "completed"

\* Reports that advance the pipeline.
Advances(status) == status \in {"completed", "failed", "timeout"}

\* update_task_status: whatever the row says now is replaced.
StatusStored(s) ==
    /\ hnd[s].at = "update"
    /\ row' = At(row, hnd[s].t, hnd[s].status)
    /\ hnd' = IF Advances(hnd[s].status) THEN Handle(s, "read")
                                         ELSE [hnd EXCEPT ![s] = Idle]
    /\ UNCHANGED <<executorVars, pipeline, stepOf, disp, can, run, runStep,
                   linkVars>>

\* Faulty: on_fail is not consulted.
StopsIgnored(t, status) == FALSE

\* A failed or timed-out step whose on_fail is "stop" ends the run; "retry" is
\* treated as "continue".
Stops(t, status) ==
    status \in {"failed", "timeout"} /\ pipeline[stepOf[t]] = "stop"

\* Faulty: the current step is run again.
NextIndexRepeats(t) == stepOf[t]

NextIndex(t) == stepOf[t] + 1

RunIsOver(t) == stepOf[t] = NoStep \/ run # "running"

\* The reads of advance_pipeline, and what it decides on them.
Advance(s) ==
    LET t == hnd[s].t
    IN /\ hnd[s].at = "read"
       /\ \/ RunIsOver(t) /\ hnd' = [hnd EXCEPT ![s] = Idle]
          \/ ~RunIsOver(t) /\ Stops(t, hnd[s].status) /\ hnd' = Handle(s, "failRun")
          \/ /\ ~RunIsOver(t) /\ ~Stops(t, hnd[s].status)
             /\ NextIndex(t) \notin DOMAIN pipeline
             /\ hnd' = Handle(s, "completeRun")
          \/ /\ ~RunIsOver(t) /\ ~Stops(t, hnd[s].status)
             /\ NextIndex(t) \in DOMAIN pipeline
             /\ hnd' = Handle(s, "nextRun")
       /\ UNCHANGED <<executorVars, pipeline, row, stepOf, disp, can, run,
                      runStep, linkVars>>

FailRun(s) ==
    /\ hnd[s].at = "failRun"
    /\ run' = "failed"
    /\ runStep' = stepOf[hnd[s].t]
    /\ hnd' = [hnd EXCEPT ![s] = Idle]
    /\ UNCHANGED <<executorVars, pipeline, row, stepOf, disp, can, linkVars>>

CompleteRun(s) ==
    /\ hnd[s].at = "completeRun"
    /\ run' = "completed"
    /\ runStep' = stepOf[hnd[s].t]
    /\ hnd' = [hnd EXCEPT ![s] = Idle]
    /\ UNCHANGED <<executorVars, pipeline, row, stepOf, disp, can, linkVars>>

\* The run is marked running at the next step, and that step's task is created
\* and dispatched by this coroutine.
StartNext(s, t) ==
    /\ hnd[s].at = "nextRun"
    /\ Fresh(t)
    /\ run' = "running"
    /\ runStep' = NextIndex(hnd[s].t)
    /\ stepOf' = [stepOf EXCEPT ![t] = NextIndex(hnd[s].t)]
    /\ disp' = At(disp, t, "row")
    /\ hnd' = [hnd EXCEPT ![s].at = "wait", ![s].next = t]
    /\ UNCHANGED <<executorVars, pipeline, row, can, linkVars>>

NextDispatched(s) ==
    /\ hnd[s].at = "wait"
    /\ disp[hnd[s].next] = "over"
    /\ hnd' = [hnd EXCEPT ![s] = Idle]
    /\ UNCHANGED <<executorVars, pipeline, row, stepOf, disp, can, run, runStep,
                   linkVars>>

-----------------------------------------------------------------------------
DispatchStep(t) ==
    \/ RowStored(t) \/ Send(t) \/ SendReturns(t)
    \/ MarkRunning(t) \/ MarkFailed(t) \/ FailRunRefused(t)

CancelStep(t) == CancelSent(t) \/ CancelMarked(t)

HandlerStep(s) ==
    \/ StatusStored(s) \/ Advance(s) \/ FailRun(s) \/ CompleteRun(s)
    \/ (\E t \in Task : StartNext(s, t)) \/ NextDispatched(s)

Next ==
    \/ Drop \/ Reconnect \/ AgentReceives \/ Receive
    \/ \E t \in Task :
          \/ AgentWorks(t)
          \/ CreateTask(t) \/ RunPipeline(t) \/ DispatchStep(t)
          \/ CancelBegin(t) \/ CancelStep(t)
    \/ \E s \in Session : HandlerStep(s)

Spec == Init /\ [][Next]_vars

(* Both event loops run every coroutine whose await is done, delivery on a *)
(* connection that stays up is not delayed forever, the agent reconnects,  *)
(* and a task's process ends or times out.                                 *)
Fairness ==
    /\ WF_vars(AgentReceives) /\ WF_vars(Receive) /\ WF_vars(Reconnect)
    /\ \A t \in Task :
          WF_vars(AgentWorks(t)) /\ WF_vars(DispatchStep(t)) /\ WF_vars(CancelStep(t))
    /\ \A s \in Session : WF_vars(HandlerStep(s))

FairSpec == Spec /\ Fairness

-----------------------------------------------------------------------------
(* Properties.                                                             *)

\* The verdict the agent reported for t, whatever became of the report.
Concluded(t) == LastReport[t] \in Verdict

TaskOf(i) == {t \in Task : stepOf[t] = i}

\* No step of a run is started twice: every report advances the pipeline at
\* most once, across reconnections, cancellations and timeouts
\* (tasks/service.py advance_pipeline, process/task_executor.py).
NoDuplicateStep ==
    \A i \in DOMAIN pipeline : Cardinality(TaskOf(i)) <= 1

\* A step is created only after the agent's verdict on the step before it, and
\* not if that verdict ends the run.
StepsInOrder ==
    \A t \in Task : \A u \in Task :
        /\ stepOf[t] # NoStep
        /\ stepOf[u] # NoStep
        /\ stepOf[t] = stepOf[u] + 1
        => Concluded(u) /\ ~(LastReport[u] # "completed"
                             /\ pipeline[stepOf[u]] = "stop")

\* Two steps of one run never execute on the agent at the same time.
OneStepAtATime ==
    \A t \in Task : \A u \in Task :
        /\ t # u
        /\ stepOf[t] # NoStep
        /\ stepOf[u] # NoStep
        => ~(phase[t] \in Executing /\ phase[u] \in Executing)

\* Together: the steps of a run are executed in sequence, each of them once, by
\* whatever sessions and coroutines advance it (tasks/service.py advance_pipeline).
StepsInSequence == NoDuplicateStep /\ StepsInOrder /\ OneStepAtATime

\* A run recorded as completed executed its last step to a verdict, and no
\* verdict on the way was one its policy stops at.
CompletedIsHonest ==
    run = "completed" =>
        /\ \A t \in Task : stepOf[t] # NoStep =>
              /\ Concluded(t)
              /\ LastReport[t] = "completed" \/ pipeline[stepOf[t]] # "stop"
        /\ \E t \in Task :
              stepOf[t] # NoStep /\ stepOf[t] + 1 \notin DOMAIN pipeline

\* A cancellation, a lost connection, or a script file that could not be written
\* (which the agent reports to nobody).
Disturbed ==
    \/ ~link
    \/ \E t \in Task : can[t] # "none"
    \/ \E t \in Task : phase[t] = "done" /\ reports[t] = <<>>

\* Every run is decided, whatever else the agent is asked to do, if nothing
\* disturbs it: no report is left unhandled and no coroutine waits for another
\* forever (tasks/service.py advance_pipeline, tasks/network_handler.py).
RunDecided ==
    run = "running" ~> run \in {"completed", "failed"} \/ Disturbed

\* docs/ARCHITECTURE.md:445: on a task_status event the server will "update task
\* status": the verdict is in the row in the end, if nothing disturbs it.
VerdictRecorded ==
    \A t \in Task :
        Concluded(t) ~> (row[t] = LastReport[t] /\ disp[t] = "over") \/ Disturbed
=============================================================================
