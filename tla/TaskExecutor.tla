--------------------------- MODULE TaskExecutor ----------------------------
(***************************************************************************)
(* The agent's task executor (vm_agent/src/process/task_executor.py) with  *)
(* the two event listeners of core/agent.py that feed it.  One coroutine   *)
(* per task waits for the process, its output tailers and the timeout; a   *)
(* cancellation is another coroutine that finds the execution in _running. *)
(* Steps are what runs between awaits.  Sending a report and leaving       *)
(* _running happen in one step: nothing is awaited between them.           *)
(*                                                                         *)
(* Output streaming is not modelled: it reports no status.                 *)
(***************************************************************************)
EXTENDS Naturals, Sequences

CONSTANTS
    Task,       \* task ids
    MaxReports  \* bound: reports of one task after which no more cancellations

ASSUME MaxReportsAssumption == MaxReports \in Nat

VARIABLES
    \* Where the task's coroutine is:
    \*   idle      no execute_task event yet
    \*   queued    asyncio task created
    \*   running   in wait_for: process, tailers, timeout
    \*   exited    process and tailers ended, final gather
    \*   expired   timeout raised, process terminated, final gather
    \*   done      finally block over, not in _running
    phase,
    \* execution.cancelled
    cancelled,
    \* The statuses handed to _send, oldest first.
    reports

executorVars == <<phase, cancelled, reports>>

\* Execution is in _running.
Executing == {"running", "exited", "expired"}

Phase == {"idle", "queued", "done"} \cup Executing

Status == {"running", "completed", "failed", "timeout", "cancelled"}

Verdict == {"completed", "failed", "timeout"}

ExecutorInit ==
    /\ phase = [t \in Task |-> "idle"]
    /\ cancelled = [t \in Task |-> FALSE]
    /\ reports = [t \in Task |-> <<>>]

Report(t, status) == reports' = [reports EXCEPT ![t] = Append(@, status)]

Enter(t, p) == phase' = [phase EXCEPT ![t] = p]

-----------------------------------------------------------------------------
\* _execute_task without a healthy session for the requested user.
NoSession(t) ==
    /\ phase[t] = "idle"
    /\ Report(t, "failed")
    /\ Enter(t, "done")
    /\ UNCHANGED cancelled

\* _execute_task: the coroutine is scheduled.
Accept(t) ==
    /\ phase[t] = "idle"
    /\ Enter(t, "queued")
    /\ UNCHANGED <<cancelled, reports>>

\* The script cannot be written: the exception is raised before the try block,
\* so nothing is reported.
ScriptWriteFails(t) ==
    /\ phase[t] = "queued"
    /\ Enter(t, "done")
    /\ UNCHANGED <<cancelled, reports>>

\* _start_managed_task raises.
LaunchFails(t) ==
    /\ phase[t] = "queued"
    /\ Report(t, "failed")
    /\ Enter(t, "done")
    /\ UNCHANGED cancelled

\* The process runs, and the execution is in _running.
Launch(t) ==
    /\ phase[t] = "queued"
    /\ Report(t, "running")
    /\ Enter(t, "running")
    /\ UNCHANGED cancelled

ProcessExits(t) ==
    /\ phase[t] = "running"
    /\ Enter(t, "exited")
    /\ UNCHANGED <<cancelled, reports>>

\* asyncio.TimeoutError: TerminateProcess, whether or not it was cancelled.
TimeoutFires(t) ==
    /\ phase[t] = "running"
    /\ Enter(t, "expired")
    /\ UNCHANGED <<cancelled, reports>>

ReportTimeout(t) ==
    /\ phase[t] = "expired"
    /\ Report(t, "timeout")
    /\ Enter(t, "done")
    /\ UNCHANGED cancelled

\* Faulty: a nonzero exit code is not reported.
FinishOnSuccessOnly(t) ==
    /\ phase[t] = "exited"
    /\ \/ UNCHANGED reports
       \/ ~cancelled[t] /\ Report(t, "completed")
    /\ Enter(t, "done")
    /\ UNCHANGED cancelled

\* After the final gather: a cancelled execution returns silently.
Finish(t) ==
    /\ phase[t] = "exited"
    /\ IF cancelled[t]
       THEN UNCHANGED reports
       ELSE \/ Report(t, "completed")
            \/ Report(t, "failed")
    /\ Enter(t, "done")
    /\ UNCHANGED cancelled

\* Waiting or reading the exit code raises: the except clause of execute.
RunFails(t) ==
    /\ \/ phase[t] = "running"
       \/ phase[t] = "exited" /\ ~cancelled[t]
    /\ Report(t, "failed")
    /\ Enter(t, "done")
    /\ UNCHANGED cancelled

\* Faulty: executions are looked up by id only, finished ones included.
CancelAnything(t) ==
    /\ phase[t] \in Executing \cup {"done"}
    /\ Len(reports[t]) < MaxReports
    /\ cancelled' = [cancelled EXCEPT ![t] = TRUE]
    /\ Report(t, "cancelled")
    /\ UNCHANGED phase

\* cancel: TerminateProcess, and the report at once.
Cancel(t) ==
    /\ phase[t] \in Executing
    /\ Len(reports[t]) < MaxReports
    /\ cancelled' = [cancelled EXCEPT ![t] = TRUE]
    /\ Report(t, "cancelled")
    /\ UNCHANGED phase

\* cancel of a task that is not in _running is ignored.  A task that is queued
\* is not such a task: asyncio starts coroutines in the order they were created,
\* so execute has run to its first await by the time cancel looks.
CancelIgnored(t) ==
    /\ phase[t] \in {"idle", "done"}
    /\ UNCHANGED executorVars

-----------------------------------------------------------------------------
\* What the executor does without further input.
ExecutorStep(t) ==
    \/ ScriptWriteFails(t) \/ LaunchFails(t) \/ Launch(t)
    \/ ProcessExits(t) \/ TimeoutFires(t)
    \/ ReportTimeout(t) \/ Finish(t) \/ RunFails(t)

ExecutorNext ==
    \E t \in Task : NoSession(t) \/ Accept(t) \/ Cancel(t) \/ ExecutorStep(t)

ExecutorSpec == ExecutorInit /\ [][ExecutorNext]_executorVars

\* The timeout bounds the wait, so every started coroutine ends.
FairExecutorSpec ==
    ExecutorSpec /\ \A t \in Task : WF_executorVars(ExecutorStep(t))

-----------------------------------------------------------------------------
ExecutorTypeOK ==
    /\ phase \in [Task -> Phase]
    /\ cancelled \in [Task -> BOOLEAN]
    /\ reports \in [Task -> Seq(Status)]

\* The last report of each task, "none" before the first: what TaskReports sees.
LastReport ==
    [t \in Task |-> IF reports[t] = <<>> THEN "none"
                                         ELSE reports[t][Len(reports[t])]]

Abstract == INSTANCE TaskReports WITH last <- LastReport

\* The executor's reports follow the protocol the server relies on: one start,
\* cancellations only between the start and the verdict, one verdict at most
\* and nothing after it (task_executor.py execute, cancel, _run_with_timeout).
ImplementsTaskReports == Abstract!Spec

\* A verdict is given in the step that ends the execution, never while the task
\* can still be cancelled, and a task whose cancellation was reported got no
\* "completed" (execute's finally block; the cancelled test after the gather).
VerdictEndsExecution ==
    \A t \in Task :
        /\ LastReport[t] \in Verdict => phase[t] = "done"
        /\ cancelled[t] => LastReport[t] \notin {"running", "completed"}

\* A process that was started ends in a verdict, unless its cancellation was
\* reported: no started task is silently dropped.
StartedIsConcluded ==
    \A t \in Task :
        phase[t] = "running"
            ~> phase[t] = "done" /\ (cancelled[t] \/ LastReport[t] \in Verdict)
=============================================================================
