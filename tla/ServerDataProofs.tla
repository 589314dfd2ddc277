-------------------------- MODULE ServerDataProofs --------------------------
(***************************************************************************)
(* The properties of ServerData and of the task parts it is built from,    *)
(* for every value of the constants: sets of tasks, pipelines and bounds.  *)
(*                                                                         *)
(* The executor: its types, the inductive invariant that ties the last     *)
(* report to the place of the coroutine, and that it implements            *)
(* TaskReports.                                                            *)
(*                                                                         *)
(* The pipeline: the steps of a run are executed in sequence, each once.   *)
(* The invariant follows a verdict from the agent to the run: it is under  *)
(* way in one place at most (a frame, or the handler of one of the two     *)
(* sessions), it is the one the agent gave, and a step that has a          *)
(* successor has none under way any more.  So a handler that starts a step *)
(* holds the verdict of the run's last step.                               *)
(*                                                                         *)
(* Every other part has an inductive invariant of its own.  At the end the *)
(* parts are put together: a step of one leaves the variables of the       *)
(* others, and so their invariants, alone.                                 *)
(***************************************************************************)
EXTENDS ServerData, FiniteSetTheorems, TLAPS

-----------------------------------------------------------------------------
(* The executor.                                                           *)

\* The last report says where the coroutine is: nothing was reported before the
\* launch, "running" or "cancelled" while the task is in _running, and no
\* cancelled task ever gets "completed" (execute, cancel, _run_with_timeout).
ReportsFollowPhase ==
    \A t \in Task :
        /\ phase[t] \in {"idle", "queued"}
              => LastReport[t] = "none" /\ ~cancelled[t]
        /\ phase[t] \in Executing
              => LastReport[t] = IF cancelled[t] THEN "cancelled" ELSE "running"
        /\ phase[t] = "done"
              => /\ LastReport[t] # "running"
                 /\ cancelled[t] => LastReport[t] # "completed"

IInv == ExecutorTypeOK /\ ReportsFollowPhase

\* Appending to a sequence of statuses makes the new one the last.
LEMMA AppendIsLast ==
    ASSUME NEW s \in Seq(Status), NEW x \in Status
    PROVE  /\ Append(s, x) \in Seq(Status)
           /\ Append(s, x) # <<>>
           /\ Append(s, x)[Len(Append(s, x))] = x
  OBVIOUS

\* Handing a status to _send makes it the task's last report and leaves the
\* reports of the other tasks alone.
LEMMA ReportIsLast ==
    ASSUME ExecutorTypeOK, NEW t \in Task, NEW st \in Status, Report(t, st)
    PROVE  /\ reports' \in [Task -> Seq(Status)]
           /\ LastReport' = [LastReport EXCEPT ![t] = st]
  <1>1. reports \in [Task -> Seq(Status)]
    BY DEF ExecutorTypeOK
  <1>2. reports' = [reports EXCEPT ![t] = Append(reports[t], st)]
    BY DEF Report
  <1>3. /\ Append(reports[t], st) \in Seq(Status)
        /\ Append(reports[t], st) # <<>>
        /\ Append(reports[t], st)[Len(Append(reports[t], st))] = st
    BY <1>1, AppendIsLast
  <1>4. reports' \in [Task -> Seq(Status)]
    BY <1>1, <1>2, <1>3
  <1>5. ASSUME NEW u \in Task
        PROVE  LastReport'[u] = IF u = t THEN st ELSE LastReport[u]
    <2>1. CASE u = t
      <3>1. reports'[u] = Append(reports[t], st)
        BY <1>1, <1>2, <2>1
      <3> QED
        BY <1>3, <2>1, <3>1 DEF LastReport
    <2>2. CASE u # t
      <3>1. reports'[u] = reports[u]
        BY <1>1, <1>2, <2>2
      <3> QED
        BY <2>2, <3>1 DEF LastReport
    <2> QED
      BY <2>1, <2>2
  <1> QED
    BY <1>4, <1>5 DEF LastReport

\* A step that reports nothing leaves the last reports alone.
LEMMA SilentKeepsLast ==
    ASSUME UNCHANGED reports
    PROVE  LastReport' = LastReport
  BY DEF LastReport

\* No execution, and no report, before the first command.
LEMMA InitIInv == ExecutorInit => IInv
  <1> SUFFICES ASSUME ExecutorInit PROVE IInv
    OBVIOUS
  <1>1. <<>> \in Seq(Status)
    OBVIOUS
  <1>2. ExecutorTypeOK
    BY <1>1 DEF ExecutorInit, ExecutorTypeOK, Phase
  <1>3. ReportsFollowPhase
    BY DEF ExecutorInit, ReportsFollowPhase, LastReport, Executing
  <1> QED
    BY <1>2, <1>3 DEF IInv

\* Every step of the executor keeps the invariant and is a step of TaskReports,
\* or leaves the last reports unchanged.
LEMMA StepIInv ==
    ASSUME IInv, [ExecutorNext]_executorVars
    PROVE  IInv' /\ [Abstract!Next]_LastReport
  <1> USE DEF IInv, ReportsFollowPhase, Enter, Executing
  <1>a. ExecutorTypeOK
    OBVIOUS
  <1>t. /\ phase \in [Task -> Phase]
        /\ cancelled \in [Task -> BOOLEAN]
        /\ LastReport = [t \in Task |-> LastReport[t]]
    BY DEF ExecutorTypeOK, LastReport
  <1>1. ASSUME NEW t \in Task, NoSession(t)
        PROVE  IInv' /\ [Abstract!Next]_LastReport
    <2>1. /\ reports' \in [Task -> Seq(Status)]
          /\ LastReport' = [LastReport EXCEPT ![t] = "failed"]
      BY <1>1, <1>a, ReportIsLast DEF NoSession, Status
    <2>2. ExecutorTypeOK'
      BY <1>1, <2>1, <1>t DEF NoSession, ExecutorTypeOK, Phase
    <2>3. ReportsFollowPhase'
      BY <1>1, <2>1, <1>t DEF NoSession
    <2>4. Abstract!Refuse(t)
      BY <1>1, <2>1, <1>t DEF NoSession, Abstract!Refuse, Abstract!Report
    <2> QED
      BY <2>2, <2>3, <2>4 DEF Abstract!Next
  <1>2. ASSUME NEW t \in Task, Accept(t)
        PROVE  IInv' /\ [Abstract!Next]_LastReport
    <2>1. LastReport' = LastReport
      BY <1>2, SilentKeepsLast DEF Accept
    <2>2. ExecutorTypeOK'
      BY <1>2, <1>t DEF Accept, ExecutorTypeOK, Phase
    <2>3. ReportsFollowPhase'
      BY <1>2, <2>1, <1>t DEF Accept
    <2> QED
      BY <2>1, <2>2, <2>3
  <1>3. ASSUME NEW t \in Task, Cancel(t)
        PROVE  IInv' /\ [Abstract!Next]_LastReport
    <2>1. /\ reports' \in [Task -> Seq(Status)]
          /\ LastReport' = [LastReport EXCEPT ![t] = "cancelled"]
      BY <1>3, <1>a, ReportIsLast DEF Cancel, Status
    <2>2. ExecutorTypeOK'
      BY <1>3, <2>1, <1>t DEF Cancel, ExecutorTypeOK
    <2>3. ReportsFollowPhase'
      BY <1>3, <2>1, <1>t DEF Cancel
    <2>4. Abstract!Cancelled(t)
      BY <1>3, <2>1, <1>t DEF Cancel, Abstract!Cancelled, Abstract!Report
    <2> QED
      BY <2>2, <2>3, <2>4 DEF Abstract!Next
  <1>4. ASSUME NEW t \in Task, ScriptWriteFails(t)
        PROVE  IInv' /\ [Abstract!Next]_LastReport
    <2>1. LastReport' = LastReport
      BY <1>4, SilentKeepsLast DEF ScriptWriteFails
    <2>2. ExecutorTypeOK'
      BY <1>4, <1>t DEF ScriptWriteFails, ExecutorTypeOK, Phase
    <2>3. ReportsFollowPhase'
      BY <1>4, <2>1, <1>t DEF ScriptWriteFails
    <2> QED
      BY <2>1, <2>2, <2>3
  <1>5. ASSUME NEW t \in Task, LaunchFails(t)
        PROVE  IInv' /\ [Abstract!Next]_LastReport
    <2>1. /\ reports' \in [Task -> Seq(Status)]
          /\ LastReport' = [LastReport EXCEPT ![t] = "failed"]
      BY <1>5, <1>a, ReportIsLast DEF LaunchFails, Status
    <2>2. ExecutorTypeOK'
      BY <1>5, <2>1, <1>t DEF LaunchFails, ExecutorTypeOK, Phase
    <2>3. ReportsFollowPhase'
      BY <1>5, <2>1, <1>t DEF LaunchFails
    <2>4. Abstract!Refuse(t)
      BY <1>5, <2>1, <1>t DEF LaunchFails, Abstract!Refuse, Abstract!Report
    <2> QED
      BY <2>2, <2>3, <2>4 DEF Abstract!Next
  <1>6. ASSUME NEW t \in Task, Launch(t)
        PROVE  IInv' /\ [Abstract!Next]_LastReport
    <2>1. /\ reports' \in [Task -> Seq(Status)]
          /\ LastReport' = [LastReport EXCEPT ![t] = "running"]
      BY <1>6, <1>a, ReportIsLast DEF Launch, Status
    <2>2. ExecutorTypeOK'
      BY <1>6, <2>1, <1>t DEF Launch, ExecutorTypeOK, Phase
    <2>3. ReportsFollowPhase'
      BY <1>6, <2>1, <1>t DEF Launch
    <2>4. Abstract!Start(t)
      BY <1>6, <2>1, <1>t DEF Launch, Abstract!Start, Abstract!Report
    <2> QED
      BY <2>2, <2>3, <2>4 DEF Abstract!Next
  <1>7. ASSUME NEW t \in Task, ProcessExits(t) \/ TimeoutFires(t)
        PROVE  IInv' /\ [Abstract!Next]_LastReport
    <2>1. LastReport' = LastReport
      BY <1>7, SilentKeepsLast DEF ProcessExits, TimeoutFires
    <2>2. ExecutorTypeOK'
      BY <1>7, <1>t DEF ProcessExits, TimeoutFires, ExecutorTypeOK, Phase
    <2>3. ReportsFollowPhase'
      BY <1>7, <2>1, <1>t DEF ProcessExits, TimeoutFires
    <2> QED
      BY <2>1, <2>2, <2>3
  <1>8. ASSUME NEW t \in Task, ReportTimeout(t)
        PROVE  IInv' /\ [Abstract!Next]_LastReport
    <2>1. /\ reports' \in [Task -> Seq(Status)]
          /\ LastReport' = [LastReport EXCEPT ![t] = "timeout"]
      BY <1>8, <1>a, ReportIsLast DEF ReportTimeout, Status
    <2>2. ExecutorTypeOK'
      BY <1>8, <2>1, <1>t DEF ReportTimeout, ExecutorTypeOK, Phase
    <2>3. ReportsFollowPhase'
      BY <1>8, <2>1, <1>t DEF ReportTimeout
    <2>4. Abstract!Conclude(t)
      BY <1>8, <2>1, <1>t
         DEF ReportTimeout, Abstract!Conclude, Abstract!Report, Abstract!Verdict
    <2> QED
      BY <2>2, <2>3, <2>4 DEF Abstract!Next
  <1>9. ASSUME NEW t \in Task, Finish(t)
        PROVE  IInv' /\ [Abstract!Next]_LastReport
    <2>1. CASE cancelled[t]
      <3>1. LastReport' = LastReport
        BY <1>9, <2>1, SilentKeepsLast DEF Finish
      <3>2. ExecutorTypeOK'
        BY <1>9, <2>1, <1>t DEF Finish, ExecutorTypeOK, Phase
      <3>3. ReportsFollowPhase'
        BY <1>9, <2>1, <3>1, <1>t DEF Finish
      <3> QED
        BY <3>1, <3>2, <3>3
    <2>2. CASE ~cancelled[t]
      <3>1. PICK v \in {"completed", "failed"} : Report(t, v)
        BY <1>9, <2>2 DEF Finish
      <3>2. /\ reports' \in [Task -> Seq(Status)]
            /\ LastReport' = [LastReport EXCEPT ![t] = v]
        BY <3>1, <1>a, ReportIsLast DEF Status
      <3>3. ExecutorTypeOK'
        BY <1>9, <3>2, <1>t DEF Finish, ExecutorTypeOK, Phase
      <3>4. ReportsFollowPhase'
        BY <1>9, <2>2, <3>2, <1>t DEF Finish
      <3>5. Abstract!Conclude(t)
        BY <1>9, <3>2, <1>t
           DEF Finish, Abstract!Conclude, Abstract!Report, Abstract!Verdict
      <3> QED
        BY <3>3, <3>4, <3>5 DEF Abstract!Next
    <2> QED
      BY <2>1, <2>2
  <1>10. ASSUME NEW t \in Task, RunFails(t)
         PROVE  IInv' /\ [Abstract!Next]_LastReport
    <2>1. /\ reports' \in [Task -> Seq(Status)]
          /\ LastReport' = [LastReport EXCEPT ![t] = "failed"]
      BY <1>10, <1>a, ReportIsLast DEF RunFails, Status
    <2>2. ExecutorTypeOK'
      BY <1>10, <2>1, <1>t DEF RunFails, ExecutorTypeOK, Phase
    <2>3. ReportsFollowPhase'
      BY <1>10, <2>1, <1>t DEF RunFails
    <2>4. Abstract!Conclude(t)
      BY <1>10, <2>1, <1>t
         DEF RunFails, Abstract!Conclude, Abstract!Report, Abstract!Verdict
    <2> QED
      BY <2>2, <2>3, <2>4 DEF Abstract!Next
  <1>11. CASE UNCHANGED executorVars
    <2>1. LastReport' = LastReport
      BY <1>11, SilentKeepsLast DEF executorVars
    <2>2. ExecutorTypeOK'
      BY <1>11 DEF executorVars, ExecutorTypeOK
    <2>3. ReportsFollowPhase'
      BY <1>11, <2>1 DEF executorVars
    <2> QED
      BY <2>1, <2>2, <2>3
  <1> QED
    BY <1>1, <1>2, <1>3, <1>4, <1>5, <1>6, <1>7, <1>8, <1>9, <1>10, <1>11
       DEF ExecutorNext, ExecutorStep

\* The inductive invariant holds in every state of the executor.
THEOREM ExecutorInvariant == ExecutorSpec => []IInv
  <1>1. IInv /\ [ExecutorNext]_executorVars => IInv'
    BY StepIInv
  <1> QED
    BY InitIInv, <1>1, PTL DEF ExecutorSpec

\* The executor's variables keep their types: it reports no status the server
\* does not know (task_executor.py _send).
THEOREM ExecutorTypeCorrect == ExecutorSpec => []ExecutorTypeOK
  <1>1. IInv => ExecutorTypeOK
    BY DEF IInv
  <1> QED
    BY ExecutorInvariant, <1>1, PTL

\* A verdict comes with the end of the execution, and a task whose cancellation
\* was reported is never reported completed (execute's finally block, the test
\* of execution.cancelled).
THEOREM VerdictEndsExecutionCorrect == ExecutorSpec => []VerdictEndsExecution
  <1>1. IInv => VerdictEndsExecution
    BY DEF IInv, ReportsFollowPhase, VerdictEndsExecution, ExecutorTypeOK,
           Phase, Executing, Verdict
  <1> QED
    BY ExecutorInvariant, <1>1, PTL

\* The executor implements the report protocol the server relies on: one start,
\* cancellations only while it runs, one verdict at most, then silence.
THEOREM ExecutorRefinesTaskReports == ExecutorSpec => ImplementsTaskReports
  <1>1. ExecutorInit => Abstract!Init
    BY DEF ExecutorInit, Abstract!Init, LastReport
  <1>2. IInv /\ [ExecutorNext]_executorVars => [Abstract!Next]_LastReport
    BY StepIInv
  <1> QED
    BY ExecutorInvariant, <1>1, <1>2, PTL
       DEF ExecutorSpec, ImplementsTaskReports, Abstract!Spec

-----------------------------------------------------------------------------
(* The pipeline's inductive invariant.                                     *)

\* A session's handler has a verdict it has not finished acting on.
HasVerdict(s) == hnd[s].at \notin {"idle", "wait"} /\ hnd[s].status \in Verdict

\* The verdict on t is on its way: on the wire, or in a handler's hands.
Due(t) ==
    \/ \E i \in 1..Len(up) : up[i].t = t /\ up[i].status \in Verdict
    \/ \E s \in Session : HasVerdict(s) /\ hnd[s].t = t

\* A verdict under way is the one the agent gave (send_event, _handle_task_status).
DueIsTrue ==
    /\ \A i \in 1..Len(up) : up[i].status \in Verdict => LastReport[up[i].t] = up[i].status
    /\ \A s \in Session :
          HasVerdict(s) => hnd[s].t \in Task /\ LastReport[hnd[s].t] = hnd[s].status

\* A verdict is under way once: on the wire at one place, or in one handler.
DueOnce ==
    /\ \A i, j \in 1..Len(up) :
          up[i].status \in Verdict /\ up[j].status \in Verdict /\ up[i].t = up[j].t => i = j
    /\ \A s, r \in Session :
          HasVerdict(s) /\ HasVerdict(r) /\ hnd[s].t = hnd[r].t => s = r
    /\ \A s \in Session : \A i \in 1..Len(up) :
          HasVerdict(s) /\ up[i].status \in Verdict => hnd[s].t # up[i].t

\* What advance_pipeline has read and decided, by where the handler is.
HandlerKnows ==
    \A s \in Session :
        /\ hnd[s].at = "update" => hnd[s].t \in Task /\ hnd[s].status \in Status
        /\ hnd[s].at \in {"read", "failRun", "completeRun", "nextRun"}
              => hnd[s].t \in Task /\ hnd[s].status \in Verdict
        /\ hnd[s].at \in {"failRun", "completeRun", "nextRun"}
              => stepOf[hnd[s].t] # NoStep
        /\ hnd[s].at \in {"completeRun", "nextRun"}
              => hnd[s].status = "completed" \/ pipeline[stepOf[hnd[s].t]] # "stop"
        /\ hnd[s].at = "completeRun" => stepOf[hnd[s].t] + 1 \notin DOMAIN pipeline
        /\ hnd[s].at = "nextRun" => stepOf[hnd[s].t] + 1 \in DOMAIN pipeline

\* The agent's verdict on t is known and not one the run stops at.
Passed(t) ==
    Concluded(t) /\ (LastReport[t] = "completed" \/ pipeline[stepOf[t]] # "stop")

\* Steps are unique, and each but the last has passed and its verdict been used up.
StepsSettled ==
    /\ \A t, u \in Task : stepOf[t] # NoStep /\ stepOf[u] = stepOf[t] => t = u
    /\ \A t, u \in Task :
          stepOf[t] # NoStep /\ stepOf[u] # NoStep /\ stepOf[t] < stepOf[u]
          => Passed(t) /\ ~Due(t)

\* Only a run has steps, and only a task that has been created is one.
StepsBelong ==
    /\ run = "none" => \A t \in Task : stepOf[t] = NoStep
    /\ \A t \in Task : disp[t] = "none" => stepOf[t] = NoStep

PipelineInv ==
    /\ TypeOK
    /\ ReportsFollowPhase
    /\ DueIsTrue /\ DueOnce
    /\ HandlerKnows
    /\ StepsSettled /\ StepsBelong
    /\ CompletedIsHonest

-----------------------------------------------------------------------------
(* What a step does to the executor's reports and to the wire.             *)

\* Taking the first element of a sequence.
LEMMA HeadOfSeq ==
    ASSUME NEW S, NEW q \in Seq(S), q # <<>>
    PROVE  /\ Head(q) \in S /\ Tail(q) \in Seq(S)
           /\ Len(q) \in Nat /\ Len(q) > 0 /\ Head(q) = q[1]
           /\ Len(Tail(q)) = Len(q) - 1
           /\ \A i \in 1..Len(Tail(q)) : Tail(q)[i] = q[i + 1] /\ i + 1 \in 1..Len(q)
  OBVIOUS

\* Adding an element to a sequence.
LEMMA AppendToSeq ==
    ASSUME NEW S, NEW q \in Seq(S), NEW x \in S
    PROVE  /\ Append(q, x) \in Seq(S)
           /\ Len(q) \in Nat /\ Len(Append(q, x)) = Len(q) + 1
           /\ Append(q, x)[Len(q) + 1] = x
           /\ \A i \in 1..Len(q) : Append(q, x)[i] = q[i]
  OBVIOUS

\* Every step of server, wire or agent is one of the executor, or leaves it alone.
LEMMA NextExecutes ==
    ASSUME TypeOK, [Next]_vars
    PROVE  [ExecutorNext]_executorVars
  <1>1. CASE AgentReceives
    <2>1. Head(down) \in [kind : {"execute", "cancel"}, t : Task]
      BY <1>1, HeadOfSeq DEF AgentReceives, TypeOK
    <2> QED
      BY <1>1, <2>1 DEF AgentReceives, CancelIgnored, ExecutorNext
  <1>2. ASSUME NEW t \in Task, AgentWorks(t) PROVE [ExecutorNext]_executorVars
    BY <1>2 DEF AgentWorks, ExecutorNext
  <1>3. CASE UNCHANGED executorVars
    BY <1>3
  <1>4. CASE UNCHANGED vars
    BY <1>4 DEF vars
  <1>5. CASE Drop \/ Reconnect \/ Receive
    BY <1>5, <1>3 DEF Drop, Reconnect, Receive
  <1>6. ASSUME NEW t \in Task,
               CreateTask(t) \/ RunPipeline(t) \/ DispatchStep(t) \/ CancelBegin(t) \/ CancelStep(t)
        PROVE  [ExecutorNext]_executorVars
    BY <1>6, <1>3
       DEF CreateTask, RunPipeline, DispatchStep, CancelBegin, CancelStep, RowStored, Send,
           SendReturns, MarkRunning, MarkFailed, FailRunRefused, CancelSent, CancelMarked
  <1>7. ASSUME NEW s \in Session, HandlerStep(s) PROVE [ExecutorNext]_executorVars
    BY <1>7, <1>3
       DEF HandlerStep, StatusStored, Advance, FailRun, CompleteRun, StartNext, NextDispatched
  <1> QED
    BY <1>1, <1>2, <1>4, <1>5, <1>6, <1>7 DEF Next

\* A step of the executor reports one status at most, of a task without a verdict.
LEMMA ReportsOne ==
    ASSUME IInv, [ExecutorNext]_executorVars
    PROVE  \/ UNCHANGED reports
           \/ \E t \in Task, st \in Status : Report(t, st) /\ LastReport[t] \notin Verdict
  <1> USE DEF IInv, ReportsFollowPhase, Executing, Verdict, Status
  <1>1. CASE UNCHANGED executorVars
    BY <1>1 DEF executorVars
  <1>2. ASSUME NEW t \in Task, NoSession(t) \/ LaunchFails(t)
        PROVE  Report(t, "failed") /\ LastReport[t] \notin Verdict
    BY <1>2 DEF NoSession, LaunchFails
  <1>3. ASSUME NEW t \in Task,
               Accept(t) \/ ScriptWriteFails(t) \/ ProcessExits(t) \/ TimeoutFires(t)
        PROVE  UNCHANGED reports
    BY <1>3 DEF Accept, ScriptWriteFails, ProcessExits, TimeoutFires
  <1>4. ASSUME NEW t \in Task, Cancel(t)
        PROVE  Report(t, "cancelled") /\ LastReport[t] \notin Verdict
    BY <1>4 DEF Cancel
  <1>5. ASSUME NEW t \in Task, Launch(t)
        PROVE  Report(t, "running") /\ LastReport[t] \notin Verdict
    BY <1>5 DEF Launch
  <1>6. ASSUME NEW t \in Task, ReportTimeout(t)
        PROVE  Report(t, "timeout") /\ LastReport[t] \notin Verdict
    BY <1>6 DEF ReportTimeout
  <1>7. ASSUME NEW t \in Task, Finish(t)
        PROVE  \/ UNCHANGED reports
               \/ /\ Report(t, "completed") \/ Report(t, "failed")
                  /\ LastReport[t] \notin Verdict
    BY <1>7 DEF Finish
  <1>8. ASSUME NEW t \in Task, RunFails(t)
        PROVE  Report(t, "failed") /\ LastReport[t] \notin Verdict
    BY <1>8 DEF RunFails
  <1> QED
    BY <1>1, <1>2, <1>3, <1>4, <1>5, <1>6, <1>7, <1>8 DEF ExecutorNext, ExecutorStep

\* A verdict is final (execute's finally block).
LEMMA VerdictStays ==
    ASSUME IInv, [ExecutorNext]_executorVars, NEW u \in Task, Concluded(u)
    PROVE  LastReport'[u] = LastReport[u]
  <1>1. CASE UNCHANGED reports
    BY <1>1, SilentKeepsLast
  <1>2. ASSUME NEW t \in Task, NEW st \in Status, Report(t, st), LastReport[t] \notin Verdict
        PROVE  LastReport'[u] = LastReport[u]
    <2>1. LastReport' = [LastReport EXCEPT ![t] = st]
      BY <1>2, ReportIsLast DEF IInv
    <2>2. u # t
      BY <1>2 DEF Concluded
    <2> QED
      BY <2>1, <2>2 DEF LastReport
  <1> QED
    BY <1>1, <1>2, ReportsOne

\* What the agent reports goes on the wire as it is, or is dropped (send_event).
LEMMA WireStep ==
    ASSUME IInv, [ExecutorNext]_executorVars, Transmit
    PROVE  \/ LastReport' = LastReport /\ up' = up
           \/ \E t \in Task, st \in Status :
                 /\ LastReport[t] \notin Verdict
                 /\ LastReport' = [LastReport EXCEPT ![t] = st]
                 /\ up' \in {up, Append(up, [t |-> t, status |-> st])}
  <1>1. CASE UNCHANGED reports
    BY <1>1, SilentKeepsLast DEF Transmit
  <1>2. ASSUME NEW t \in Task, NEW st \in Status, Report(t, st), LastReport[t] \notin Verdict
        PROVE  /\ LastReport' = [LastReport EXCEPT ![t] = st]
               /\ up' \in {up, Append(up, [t |-> t, status |-> st])}
    <2>1. LastReport' = [LastReport EXCEPT ![t] = st]
      BY <1>2, ReportIsLast DEF IInv
    <2>2. reports \in [Task -> Seq(Status)] /\ reports' = [reports EXCEPT ![t] = Append(@, st)]
      BY <1>2 DEF IInv, ExecutorTypeOK, Report
    <2>3. \A u \in Task : reports'[u] # reports[u] => u = t
      BY <2>2
    <2>4. LastReport'[t] = st
      BY <2>1 DEF LastReport
    <2> QED
      BY <2>1, <2>3, <2>4 DEF Transmit
  <1> QED
    BY <1>1, <1>2, ReportsOne

-----------------------------------------------------------------------------
(* Types.                                                                  *)

Command == [kind : {"execute", "cancel"}, t : Task]

Message == [t : Task, status : Status]

\* The agent's steps keep the types of the wire.
LEMMA WireType ==
    ASSUME TypeOK, ReportsFollowPhase, [ExecutorNext]_executorVars, Transmit
    PROVE  up' \in Seq(Message) /\ ExecutorTypeOK' /\ link' = link /\ drops' = drops
  <1>1. IInv /\ up \in Seq(Message)
    BY DEF IInv, TypeOK, Message
  <1>2. ExecutorTypeOK'
    BY <1>1, StepIInv DEF IInv
  <1>3. \A t \in Task, st \in Status : [t |-> t, status |-> st] \in Message
    BY DEF Message
  <1>4. up' \in Seq(Message)
    <2>1. CASE up' = up
      BY <1>1, <2>1
    <2>2. ASSUME NEW t \in Task, NEW st \in Status,
                 up' = Append(up, [t |-> t, status |-> st])
          PROVE  up' \in Seq(Message)
      BY <1>1, <1>3, <2>2, AppendToSeq
    <2> QED
      BY <1>1, <2>1, <2>2, WireStep
  <1> QED
    BY <1>2, <1>4 DEF Transmit

Handler ==
    [at : {"idle", "update", "read", "failRun", "completeRun", "nextRun", "wait"},
     t : Task \cup {NoTask}, status : Status \cup {"none"}, next : Task \cup {NoTask}]

\* The handlers stay handlers wherever one of them goes.
LEMMA HandlerType ==
    ASSUME TypeOK, NEW s \in Session
    PROVE  /\ hnd \in [Session -> Handler] /\ Idle \in Handler
           /\ [hnd EXCEPT ![s] = Idle] \in [Session -> Handler]
           /\ \A p \in {"read", "failRun", "completeRun", "nextRun"} :
                 Handle(s, p) \in [Session -> Handler]
           /\ \A t \in Task :
                 [hnd EXCEPT ![s].at = "wait", ![s].next = t] \in [Session -> Handler]
  <1>1. hnd \in [Session -> Handler] /\ Idle \in Handler
    BY DEF TypeOK, Handler, Idle
  <1> QED
    BY <1>1 DEF Handler, Handle

\* Every step keeps TypeOK.
LEMMA PipelineTypeStep ==
    ASSUME TypeOK, ReportsFollowPhase, HandlerKnows, [Next]_vars
    PROVE  TypeOK'
  <1> USE NullAssumption, MaxDropsAssumption
  <1>e. [ExecutorNext]_executorVars
    BY NextExecutes
  <1>s. <<>> \in Seq(Command) /\ <<>> \in Seq(Message)
    OBVIOUS
  <1>1. CASE Drop
    <2>1. drops' \in 0..MaxDrops
      BY <1>1 DEF Drop, TypeOK
    <2>2. down' \in Seq(Command) /\ up' \in Seq(Message)
      BY <1>1, <1>s DEF Drop
    <2> QED
      BY <1>1, <2>1, <2>2
         DEF Drop, TypeOK, ExecutorTypeOK, executorVars, serverVars, Command, Message
  <1>2. CASE Reconnect
    BY <1>2 DEF Reconnect, TypeOK, ExecutorTypeOK, executorVars, Session, Idle
  <1>3. CASE AgentReceives
    <2>1. down' \in Seq(Command)
      BY <1>3, HeadOfSeq DEF AgentReceives, TypeOK, Command
    <2>2. up' \in Seq(Message) /\ ExecutorTypeOK' /\ link' = link /\ drops' = drops
      BY <1>3, <1>e, WireType DEF AgentReceives
    <2> QED
      BY <1>3, <2>1, <2>2 DEF AgentReceives, TypeOK, serverVars, Command, Message
  <1>4. ASSUME NEW t \in Task, AgentWorks(t) PROVE TypeOK'
    <2>1. up' \in Seq(Message) /\ ExecutorTypeOK' /\ link' = link /\ drops' = drops
      BY <1>4, <1>e, WireType DEF AgentWorks
    <2> QED
      BY <1>4, <2>1 DEF AgentWorks, TypeOK, serverVars, Message
  <1>5. CASE Receive
    <2>1. Head(up) \in Message /\ up' \in Seq(Message)
      BY <1>5, HeadOfSeq DEF Receive, TypeOK, Message
    <2> QED
      BY <1>5, <2>1 DEF Receive, TypeOK, ExecutorTypeOK, executorVars, Message, Session
  <1>6. ASSUME NEW t \in Task, CreateTask(t) PROVE TypeOK'
    BY <1>6 DEF CreateTask, At, TypeOK, ExecutorTypeOK, executorVars, linkVars
  <1>7. ASSUME NEW t \in Task, RunPipeline(t) PROVE TypeOK'
    <2>2. FirstStep \in DOMAIN pipeline
      BY PipelinesAssumption DEF FirstStep, TypeOK
    <2> QED
      BY <1>7, <2>2 DEF RunPipeline, At, TypeOK, ExecutorTypeOK, executorVars, linkVars
  <1>8. ASSUME NEW t \in Task, Send(t) PROVE TypeOK'
    <2>1. [kind |-> "execute", t |-> t] \in Command
      BY DEF Command
    <2>2. down' \in Seq(Command)
      <3>1. down \in Seq(Command)
        BY DEF TypeOK, Command
      <3> QED
        BY <1>8, <2>1, <3>1, AppendToSeq DEF Send
    <2> QED
      BY <1>8, <2>2 DEF Send, At, TypeOK, ExecutorTypeOK, executorVars, Command
  <1>9. ASSUME NEW t \in Task,
               RowStored(t) \/ SendReturns(t) \/ MarkRunning(t) \/ MarkFailed(t) \/ FailRunRefused(t)
        PROVE  TypeOK'
    BY <1>9
       DEF RowStored, SendReturns, MarkRunning, MarkFailed, FailRunRefused, At, RowStatus, Status,
           TypeOK, ExecutorTypeOK, executorVars, linkVars
  <1>10. ASSUME NEW t \in Task, CancelBegin(t) PROVE TypeOK'
    <2>1. [kind |-> "cancel", t |-> t] \in Command
      BY DEF Command
    <2>2. down' \in Seq(Command)
      <3>1. down \in Seq(Command)
        BY DEF TypeOK, Command
      <3> QED
        BY <1>10, <2>1, <3>1, AppendToSeq DEF CancelBegin
    <2> QED
      BY <1>10, <2>2 DEF CancelBegin, At, TypeOK, ExecutorTypeOK, executorVars, Command
  <1>11. ASSUME NEW t \in Task, CancelSent(t) \/ CancelMarked(t) PROVE TypeOK'
    BY <1>11 DEF CancelSent, CancelMarked, At, RowStatus, Status, TypeOK, ExecutorTypeOK,
                 executorVars, linkVars
  <1>h. ASSUME hnd' \in [Session -> Handler], UNCHANGED <<executorVars, pipeline, can, linkVars>>,
               row' \in [Task -> RowStatus], UNCHANGED <<stepOf, disp>>,
               run' \in {"none", "running", "completed", "failed"}
        PROVE  TypeOK'
    BY <1>h DEF TypeOK, ExecutorTypeOK, executorVars, linkVars, Handler
  <1>12. ASSUME NEW s \in Session, StatusStored(s) PROVE TypeOK'
    <2>1. hnd[s].t \in Task /\ hnd[s].status \in Status
      BY <1>12 DEF StatusStored, HandlerKnows
    <2>2. row' \in [Task -> RowStatus]
      BY <1>12, <2>1 DEF StatusStored, At, TypeOK, RowStatus
    <2>3. hnd' \in [Session -> Handler]
      BY <1>12, HandlerType DEF StatusStored
    <2> QED
      BY <1>12, <2>2, <2>3, <1>h DEF StatusStored, TypeOK
  <1>13. ASSUME NEW s \in Session, Advance(s) PROVE TypeOK'
    <2>0. \/ hnd' = [hnd EXCEPT ![s] = Idle]
          \/ \E p \in {"read", "failRun", "completeRun", "nextRun"} : hnd' = Handle(s, p)
      BY <1>13 DEF Advance
    <2>h. /\ [hnd EXCEPT ![s] = Idle] \in [Session -> Handler]
          /\ \A p \in {"read", "failRun", "completeRun", "nextRun"} :
                Handle(s, p) \in [Session -> Handler]
      BY HandlerType
    <2>1. hnd' \in [Session -> Handler]
      BY ONLY <2>0, <2>h
    <2>2. UNCHANGED <<executorVars, pipeline, row, stepOf, disp, can, run, linkVars>>
      BY <1>13 DEF Advance
    <2> QED
      BY <2>1, <2>2, <1>h DEF TypeOK
  <1>14. ASSUME NEW s \in Session, FailRun(s) \/ CompleteRun(s) \/ NextDispatched(s) PROVE TypeOK'
    <2>0. hnd' = [hnd EXCEPT ![s] = Idle]
      BY <1>14 DEF FailRun, CompleteRun, NextDispatched
    <2>1. hnd' \in [Session -> Handler]
      BY <2>0, HandlerType
    <2>2. /\ UNCHANGED <<executorVars, pipeline, row, stepOf, disp, can, linkVars>>
          /\ run' \in {run, "failed", "completed"}
      BY <1>14 DEF FailRun, CompleteRun, NextDispatched
    <2> QED
      BY <2>1, <2>2, <1>h DEF TypeOK
  <1>15. ASSUME NEW s \in Session, NEW t \in Task, StartNext(s, t) PROVE TypeOK'
    <2>1. hnd' \in [Session -> Handler]
      BY <1>15, HandlerType DEF StartNext
    <2>2. NextIndex(hnd[s].t) \in DOMAIN pipeline
      BY <1>15 DEF StartNext, NextIndex, HandlerKnows
    <2>3. stepOf' \in [Task -> DOMAIN pipeline \cup {NoStep}]
      BY <1>15, <2>2 DEF StartNext, TypeOK
    <2> QED
      BY <1>15, <2>1, <2>3 DEF StartNext, At, TypeOK, ExecutorTypeOK, executorVars, linkVars, Handler
  <1>16. CASE UNCHANGED vars
    BY <1>16 DEF vars, executorVars, serverVars, linkVars, TypeOK, ExecutorTypeOK
  <1> QED
    BY <1>1, <1>2, <1>3, <1>4, <1>5, <1>6, <1>7, <1>8, <1>9, <1>10, <1>11, <1>12, <1>13, <1>14,
       <1>15, <1>16
       DEF Next, DispatchStep, CancelStep, HandlerStep
-----------------------------------------------------------------------------
(* Verdicts under way.                                                     *)

\* No handler takes up a verdict and none comes on the wire.
LEMMA NothingNewDue ==
    ASSUME DueIsTrue, DueOnce, LastReport' = LastReport, up' = up \/ up' = <<>>,
           \A s \in Session : HasVerdict(s)' =>
               HasVerdict(s) /\ hnd'[s].t = hnd[s].t /\ hnd'[s].status = hnd[s].status
    PROVE  DueIsTrue' /\ DueOnce' /\ \A t \in Task : Due(t)' => Due(t)
  <1>1. \A i \in 1..Len(up') : i \in 1..Len(up) /\ up'[i] = up[i]
    OBVIOUS
  <1>2. DueIsTrue'
    BY <1>1 DEF DueIsTrue
  <1>3. DueOnce'
    BY <1>1 DEF DueOnce
  <1>4. \A t \in Task : Due(t)' => Due(t)
    BY <1>1 DEF Due
  <1> QED
    BY <1>2, <1>3, <1>4

\* The settled steps stay settled: no verdict is withdrawn or handed out again.
LEMMA SettledStay ==
    ASSUME StepsSettled, UNCHANGED <<pipeline, stepOf>>,
           \A t \in Task : Concluded(t) => LastReport'[t] = LastReport[t],
           \A t \in Task : Concluded(t) /\ Due(t)' => Due(t)
    PROVE  StepsSettled'
  BY DEF StepsSettled, Passed, Concluded

\* A step of create_and_dispatch, api_create_task or api_cancel_task.
LEMMA SideStep ==
    ASSUME PipelineInv, UNCHANGED <<executorVars, pipeline, stepOf, hnd, up>>,
           run' \in {run, "failed"}, \A t \in Task : disp'[t] = "none" => disp[t] = "none"
    PROVE  /\ DueIsTrue' /\ DueOnce' /\ HandlerKnows'
           /\ StepsSettled' /\ StepsBelong' /\ CompletedIsHonest'
  <1>1. LastReport' = LastReport
    BY SilentKeepsLast DEF executorVars
  <1>2. DueIsTrue' /\ DueOnce' /\ \A t \in Task : Due(t)' => Due(t)
    BY <1>1, NothingNewDue DEF PipelineInv, HasVerdict
  <1>3. HandlerKnows'
    BY DEF PipelineInv, HandlerKnows
  <1>4. StepsSettled'
    BY <1>1, <1>2, SettledStay DEF PipelineInv
  <1>5. StepsBelong'
    BY DEF PipelineInv, StepsBelong
  <1>6. CompletedIsHonest'
    BY <1>1 DEF PipelineInv, CompletedIsHonest, Concluded
  <1> QED
    BY <1>2, <1>3, <1>4, <1>5, <1>6

\* A step of the agent: a new verdict concerns a task that had none.
LEMMA AgentStep ==
    ASSUME PipelineInv, [ExecutorNext]_executorVars, Transmit, UNCHANGED serverVars
    PROVE  /\ DueIsTrue' /\ DueOnce' /\ HandlerKnows'
           /\ StepsSettled' /\ StepsBelong' /\ CompletedIsHonest'
  <1>i. IInv /\ up \in Seq(Message)
    BY DEF PipelineInv, IInv, TypeOK, Message
  <1>u. UNCHANGED <<pipeline, row, stepOf, disp, can, run, runStep, hnd>>
    BY DEF serverVars
  <1>v. \A u \in Task : Concluded(u) => LastReport'[u] = LastReport[u]
    BY <1>i, VerdictStays
  <1>1. DueIsTrue' /\ DueOnce' /\ \A u \in Task : Concluded(u) /\ Due(u)' => Due(u)
    <2>1. CASE LastReport' = LastReport /\ up' = up
      BY <2>1, <1>u, NothingNewDue DEF PipelineInv, HasVerdict
    <2>2. ASSUME NEW t \in Task, NEW st \in Status, LastReport[t] \notin Verdict,
                 LastReport' = [LastReport EXCEPT ![t] = st],
                 up' \in {up, Append(up, [t |-> t, status |-> st])}
          PROVE  DueIsTrue' /\ DueOnce' /\ \A u \in Task : Concluded(u) /\ Due(u)' => Due(u)
      <3>1. /\ \A u \in Task : u # t => LastReport'[u] = LastReport[u]
            /\ LastReport'[t] = st
        BY <2>2 DEF LastReport
      <3>2. [t |-> t, status |-> st] \in Message
        BY DEF Message
      <3>3. /\ Len(up) \in Nat
            /\ \A i \in 1..Len(up) : up[i] \in Message
            /\ \A i \in 1..Len(up') :
                  \/ i \in 1..Len(up) /\ up'[i] = up[i]
                  \/ i = Len(up) + 1 /\ up'[i].t = t /\ up'[i].status = st
        BY <1>i, <2>2, <3>2, AppendToSeq
      <3>4. /\ \A i \in 1..Len(up) : up[i].status \in Verdict => up[i].t # t /\ up[i].t \in Task
            /\ \A s \in Session : HasVerdict(s) => hnd[s].t # t /\ hnd[s].t \in Task
        BY <2>2, <3>3 DEF PipelineInv, DueIsTrue, HasVerdict, Message
      <3>5. \A s \in Session : HasVerdict(s)' <=> HasVerdict(s)
        BY <1>u DEF HasVerdict
      <3>6. DueIsTrue'
        BY <1>u, <3>1, <3>3, <3>4, <3>5 DEF PipelineInv, DueIsTrue
      <3>7. DueOnce'
        BY <1>u, <3>3, <3>4, <3>5 DEF PipelineInv, DueOnce
      <3>8. \A u \in Task : Concluded(u) /\ Due(u)' => Due(u)
        BY <1>u, <2>2, <3>3, <3>5 DEF Due, Concluded
      <3> QED
        BY <3>6, <3>7, <3>8
    <2> QED
      BY <1>i, <2>1, <2>2, WireStep
  <1>2. HandlerKnows'
    BY <1>u DEF PipelineInv, HandlerKnows
  <1>3. StepsSettled'
    BY <1>1, <1>u, <1>v, SettledStay DEF PipelineInv
  <1>4. StepsBelong'
    BY <1>u DEF PipelineInv, StepsBelong
  <1>5. CompletedIsHonest'
    BY <1>u, <1>v DEF PipelineInv, CompletedIsHonest, Concluded
  <1> QED
    BY <1>1, <1>2, <1>3, <1>4, <1>5
-----------------------------------------------------------------------------
(* One lemma per step that moves a verdict.                                *)

\* What a step of the server or of the wire has to keep.
LEMMA DropStep ==
    ASSUME PipelineInv, Drop
    PROVE  /\ DueIsTrue' /\ DueOnce' /\ HandlerKnows'
           /\ StepsSettled' /\ StepsBelong' /\ CompletedIsHonest'
  <1>u. /\ UNCHANGED <<executorVars, pipeline, row, stepOf, disp, can, run, runStep, hnd>>
        /\ up' = <<>>
    BY DEF Drop, serverVars
  <1>1. LastReport' = LastReport
    BY <1>u, SilentKeepsLast DEF executorVars
  <1>2. DueIsTrue' /\ DueOnce' /\ \A t \in Task : Due(t)' => Due(t)
    BY <1>u, <1>1, NothingNewDue DEF PipelineInv, HasVerdict
  <1>3. HandlerKnows'
    BY <1>u DEF PipelineInv, HandlerKnows
  <1>4. StepsSettled'
    BY <1>u, <1>1, <1>2, SettledStay DEF PipelineInv
  <1>5. StepsBelong' /\ CompletedIsHonest'
    BY <1>u, <1>1 DEF PipelineInv, StepsBelong, CompletedIsHonest, Concluded
  <1> QED
    BY <1>2, <1>3, <1>4, <1>5

\* A new session: what the old one's handler is doing it finishes.
LEMMA ReconnectStep ==
    ASSUME PipelineInv, Reconnect
    PROVE  /\ DueIsTrue' /\ DueOnce' /\ HandlerKnows'
           /\ StepsSettled' /\ StepsBelong' /\ CompletedIsHonest'
  <1>u. /\ UNCHANGED <<executorVars, pipeline, row, stepOf, disp, can, run, runStep, up>>
        /\ hnd'["current"] = Idle /\ hnd'["previous"] = hnd["current"]
    BY DEF Reconnect, Session
  <1>1. LastReport' = LastReport
    BY <1>u, SilentKeepsLast DEF executorVars
  <1>2. /\ ~HasVerdict("current")'
        /\ HasVerdict("previous")' <=> HasVerdict("current")
    BY <1>u DEF HasVerdict, Idle
  <1>3. DueIsTrue'
    BY <1>u, <1>1, <1>2 DEF PipelineInv, DueIsTrue, Session
  <1>4. DueOnce'
    BY <1>u, <1>2 DEF PipelineInv, DueOnce, Session
  <1>5. \A t \in Task : Due(t)' => Due(t)
    BY <1>u, <1>2 DEF Due, Session
  <1>6. HandlerKnows'
    BY <1>u DEF PipelineInv, HandlerKnows, Session, Idle
  <1>7. StepsSettled'
    BY <1>u, <1>1, <1>5, SettledStay DEF PipelineInv
  <1>8. StepsBelong' /\ CompletedIsHonest'
    BY <1>u, <1>1 DEF PipelineInv, StepsBelong, CompletedIsHonest, Concluded
  <1> QED
    BY <1>3, <1>4, <1>6, <1>7, <1>8

\* A report passes from the wire to the handler (_handle_task_status).
LEMMA ReceiveStep ==
    ASSUME PipelineInv, Receive
    PROVE  /\ DueIsTrue' /\ DueOnce' /\ HandlerKnows'
           /\ StepsSettled' /\ StepsBelong' /\ CompletedIsHonest'
  <1> DEFINE c == "current"
             m == Head(up)
  <1>u. /\ UNCHANGED <<executorVars, pipeline, row, stepOf, disp, can, run, runStep>>
        /\ hnd[c] = Idle /\ up # <<>> /\ up' = Tail(up)
    BY DEF Receive
  <1>m. /\ m \in Message /\ m = up[1] /\ 1 \in 1..Len(up)
        /\ \A i \in 1..Len(up') : up'[i] = up[i + 1] /\ i + 1 \in 1..Len(up) /\ i + 1 # 1
        /\ \A i \in 1..Len(up') : i \in Nat
    <2>1. up \in Seq(Message)
      BY DEF PipelineInv, TypeOK, Message
    <2> QED
      BY <1>u, <2>1, HeadOfSeq
  <1>h. /\ hnd'[c] = [at |-> "update", t |-> m.t, status |-> m.status, next |-> NoTask]
        /\ \A s \in Session : s # c => hnd'[s] = hnd[s]
        /\ c \in Session
    BY DEF Receive, PipelineInv, TypeOK, Session
  <1> HIDE DEF c, m
  <1>1. LastReport' = LastReport
    BY <1>u, SilentKeepsLast DEF executorVars
  <1>2. /\ ~HasVerdict(c)
        /\ HasVerdict(c)' => m.status \in Verdict /\ hnd'[c].t = m.t /\ hnd'[c].status = m.status
        /\ \A s \in Session : s # c => (HasVerdict(s)' <=> HasVerdict(s))
    BY <1>u, <1>h DEF HasVerdict, Idle
  <1>3. DueIsTrue'
    BY <1>1, <1>2, <1>m, <1>h DEF PipelineInv, DueIsTrue, Message
  <1>4. DueOnce'
    <2>1. \A i, j \in 1..Len(up') :
             up'[i].status \in Verdict /\ up'[j].status \in Verdict /\ up'[i].t = up'[j].t => i = j
      BY <1>m DEF PipelineInv, DueOnce
    <2>2. \A i \in 1..Len(up') :
             m.status \in Verdict /\ up'[i].status \in Verdict => up'[i].t # m.t
      BY <1>m DEF PipelineInv, DueOnce
    <2>3. \A s \in Session : HasVerdict(s) /\ m.status \in Verdict => hnd[s].t # m.t
      BY <1>m DEF PipelineInv, DueOnce
    <2>4. \A s \in Session : \A i \in 1..Len(up') :
             HasVerdict(s) /\ up'[i].status \in Verdict => hnd[s].t # up'[i].t
      BY <1>m DEF PipelineInv, DueOnce
    <2>5. \A s, r \in Session : HasVerdict(s) /\ HasVerdict(r) /\ hnd[s].t = hnd[r].t => s = r
      BY DEF PipelineInv, DueOnce
    <2>6. \A s, r \in Session : HasVerdict(s)' /\ HasVerdict(r)' /\ hnd'[s].t = hnd'[r].t => s = r
      BY <1>2, <1>h, <2>3, <2>5
    <2>7. \A s \in Session : \A i \in 1..Len(up') :
             HasVerdict(s)' /\ up'[i].status \in Verdict => hnd'[s].t # up'[i].t
      BY <1>2, <1>h, <2>2, <2>4
    <2> QED
      BY <2>1, <2>6, <2>7 DEF DueOnce
  <1>5. \A t \in Task : Due(t)' => Due(t)
    <2>1. ASSUME NEW t \in Task, NEW i \in 1..Len(up'), up'[i].t = t, up'[i].status \in Verdict
          PROVE  Due(t)
      BY <2>1, <1>m DEF Due
    <2>2. ASSUME NEW t \in Task, NEW s \in Session, HasVerdict(s)', hnd'[s].t = t
          PROVE  Due(t)
      BY <2>2, <1>2, <1>m, <1>h DEF Due
    <2> QED
      BY <2>1, <2>2 DEF Due
  <1>6. HandlerKnows'
    BY <1>u, <1>h, <1>m DEF PipelineInv, HandlerKnows, Message
  <1>7. StepsSettled'
    BY <1>u, <1>1, <1>5, SettledStay DEF PipelineInv
  <1>8. StepsBelong' /\ CompletedIsHonest'
    BY <1>u, <1>1 DEF PipelineInv, StepsBelong, CompletedIsHonest, Concluded
  <1> QED
    BY <1>3, <1>4, <1>6, <1>7, <1>8
\* A handler goes on with the verdict it has, or lets go of it.
LEMMA HandlerMoves ==
    ASSUME PipelineInv, NEW s \in Session,
           UNCHANGED <<executorVars, pipeline, stepOf, disp, up>>,
           \A r \in Session : r # s => hnd'[r] = hnd[r],
           HasVerdict(s)' =>
               HasVerdict(s) /\ hnd'[s].t = hnd[s].t /\ hnd'[s].status = hnd[s].status,
           run' # "none" \/ run' = run
    PROVE  LastReport' = LastReport /\ DueIsTrue' /\ DueOnce' /\ StepsSettled' /\ StepsBelong'
  <1>1. LastReport' = LastReport
    BY SilentKeepsLast DEF executorVars
  <1>2. DueIsTrue' /\ DueOnce' /\ \A t \in Task : Due(t)' => Due(t)
    BY <1>1, NothingNewDue DEF PipelineInv, HasVerdict
  <1>3. StepsSettled'
    BY <1>1, <1>2, SettledStay DEF PipelineInv
  <1>4. StepsBelong'
    BY DEF PipelineInv, StepsBelong
  <1> QED
    BY <1>1, <1>2, <1>3, <1>4

\* The verdict a handler holds is the agent's, and no later step exists yet.
LEMMA HeldVerdict ==
    ASSUME PipelineInv, NEW s \in Session, HasVerdict(s), hnd[s].t \in Task,
           stepOf[hnd[s].t] # NoStep,
           hnd[s].status = "completed" \/ pipeline[stepOf[hnd[s].t]] # "stop"
    PROVE  /\ Passed(hnd[s].t)
           /\ \A w \in Task : stepOf[w] # NoStep =>
                 Passed(w) /\ (w = hnd[s].t \/ (stepOf[w] < stepOf[hnd[s].t] /\ ~Due(w)))
  <1> DEFINE u == hnd[s].t
  <1>1. Passed(u)
    BY DEF PipelineInv, DueIsTrue, HasVerdict, Passed, Concluded
  <1>2. Due(u)
    BY DEF Due
  <1>3. ASSUME NEW w \in Task, stepOf[w] # NoStep
        PROVE  stepOf[w] \in Nat
    BY <1>3, PipelinesAssumption DEF PipelineInv, TypeOK
  <1>4. ASSUME NEW w \in Task, stepOf[w] # NoStep
        PROVE  Passed(w) /\ (w = u \/ (stepOf[w] < stepOf[u] /\ ~Due(w)))
    <2>1. stepOf[w] < stepOf[u] \/ stepOf[w] = stepOf[u] \/ stepOf[u] < stepOf[w]
      BY <1>3, <1>4
    <2> QED
      BY <1>1, <1>2, <1>4, <2>1 DEF PipelineInv, StepsSettled
  <1> QED
    BY <1>1, <1>4

\* update_task_status: only a report that is no verdict is let go of.
LEMMA StatusStoredStep ==
    ASSUME PipelineInv, NEW s \in Session, StatusStored(s)
    PROVE  /\ DueIsTrue' /\ DueOnce' /\ HandlerKnows'
           /\ StepsSettled' /\ StepsBelong' /\ CompletedIsHonest'
  <1>u. /\ UNCHANGED <<executorVars, pipeline, stepOf, disp, up, run>>
        /\ hnd[s].at = "update"
    BY DEF StatusStored, linkVars
  <1>h. hnd \in [Session -> Handler]
    BY HandlerType DEF PipelineInv
  <1>1. /\ \A r \in Session : r # s => hnd'[r] = hnd[r]
        /\ \/ /\ hnd'[s].at = "read" /\ hnd'[s].t = hnd[s].t /\ hnd'[s].status = hnd[s].status
              /\ hnd[s].status \in Verdict
           \/ hnd'[s] = Idle
    <2>1. CASE hnd[s].status \in Verdict
      BY <1>h, <2>1 DEF StatusStored, Handle, Handler, Advances, Verdict
    <2>2. CASE hnd[s].status \notin Verdict
      BY <1>h, <2>2 DEF StatusStored, Advances, Verdict
    <2> QED
      BY <2>1, <2>2
  <1>2. HasVerdict(s)' =>
           HasVerdict(s) /\ hnd'[s].t = hnd[s].t /\ hnd'[s].status = hnd[s].status
    BY <1>u, <1>1 DEF HasVerdict, Idle
  <1>3. LastReport' = LastReport /\ DueIsTrue' /\ DueOnce' /\ StepsSettled' /\ StepsBelong'
    BY <1>u, <1>1, <1>2, HandlerMoves
  <1>4. HandlerKnows'
    BY <1>u, <1>1 DEF PipelineInv, HandlerKnows, Idle
  <1>5. CompletedIsHonest'
    BY <1>u, <1>3 DEF PipelineInv, CompletedIsHonest, Concluded
  <1> QED
    BY <1>3, <1>4, <1>5

\* The reads of advance_pipeline.
LEMMA AdvanceStep ==
    ASSUME PipelineInv, NEW s \in Session, Advance(s)
    PROVE  /\ DueIsTrue' /\ DueOnce' /\ HandlerKnows'
           /\ StepsSettled' /\ StepsBelong' /\ CompletedIsHonest'
  <1>u. /\ UNCHANGED <<executorVars, pipeline, stepOf, disp, up, run>>
        /\ hnd[s].at = "read"
    BY DEF Advance, linkVars
  <1>h. hnd \in [Session -> Handler]
    BY HandlerType DEF PipelineInv
  <1>d. hnd[s].t \in Task /\ hnd[s].status \in Verdict
    BY <1>u DEF PipelineInv, HandlerKnows
  <1>0. \/ hnd' = [hnd EXCEPT ![s] = Idle]
        \/ hnd' = Handle(s, "failRun") /\ stepOf[hnd[s].t] # NoStep
        \/ /\ hnd' = Handle(s, "completeRun") /\ stepOf[hnd[s].t] # NoStep
           /\ hnd[s].status = "completed" \/ pipeline[stepOf[hnd[s].t]] # "stop"
           /\ stepOf[hnd[s].t] + 1 \notin DOMAIN pipeline
        \/ /\ hnd' = Handle(s, "nextRun") /\ stepOf[hnd[s].t] # NoStep
           /\ hnd[s].status = "completed" \/ pipeline[stepOf[hnd[s].t]] # "stop"
           /\ stepOf[hnd[s].t] + 1 \in DOMAIN pipeline
    BY <1>d DEF Advance, RunIsOver, Stops, NextIndex, Verdict
  <1>1. /\ \A r \in Session : r # s => hnd'[r] = hnd[r]
        /\ \/ hnd'[s] = Idle
           \/ /\ hnd'[s].t = hnd[s].t /\ hnd'[s].status = hnd[s].status
              /\ stepOf[hnd[s].t] # NoStep
              /\ \/ hnd'[s].at = "failRun"
                 \/ /\ hnd[s].status = "completed" \/ pipeline[stepOf[hnd[s].t]] # "stop"
                    /\ \/ hnd'[s].at = "completeRun" /\ stepOf[hnd[s].t] + 1 \notin DOMAIN pipeline
                       \/ hnd'[s].at = "nextRun" /\ stepOf[hnd[s].t] + 1 \in DOMAIN pipeline
    BY <1>0, <1>h DEF Handle, Handler
  <1>2. HasVerdict(s)' =>
           HasVerdict(s) /\ hnd'[s].t = hnd[s].t /\ hnd'[s].status = hnd[s].status
    BY <1>u, <1>1 DEF HasVerdict, Idle
  <1>3. LastReport' = LastReport /\ DueIsTrue' /\ DueOnce' /\ StepsSettled' /\ StepsBelong'
    BY <1>u, <1>1, <1>2, HandlerMoves
  <1>4. HandlerKnows'
    BY <1>u, <1>1, <1>d DEF PipelineInv, HandlerKnows, Idle
  <1>5. CompletedIsHonest'
    BY <1>u, <1>3 DEF PipelineInv, CompletedIsHonest, Concluded
  <1> QED
    BY <1>3, <1>4, <1>5

\* The ends of advance_pipeline: the run is failed, completed, or has gone on.
LEMMA HandlerEndsStep ==
    ASSUME PipelineInv, NEW s \in Session, FailRun(s) \/ CompleteRun(s) \/ NextDispatched(s)
    PROVE  /\ DueIsTrue' /\ DueOnce' /\ HandlerKnows'
           /\ StepsSettled' /\ StepsBelong' /\ CompletedIsHonest'
  <1>u. /\ UNCHANGED <<executorVars, pipeline, stepOf, disp, up>>
        /\ hnd' = [hnd EXCEPT ![s] = Idle]
        /\ run' # "none" \/ run' = run
    BY DEF FailRun, CompleteRun, NextDispatched, linkVars
  <1>1. hnd'[s] = Idle /\ \A r \in Session : r # s => hnd'[r] = hnd[r]
    BY <1>u, HandlerType DEF PipelineInv
  <1>2. ~HasVerdict(s)'
    BY <1>1 DEF HasVerdict, Idle
  <1>3. LastReport' = LastReport /\ DueIsTrue' /\ DueOnce' /\ StepsSettled' /\ StepsBelong'
    BY <1>u, <1>1, <1>2, HandlerMoves
  <1>4. HandlerKnows'
    BY <1>u, <1>1 DEF PipelineInv, HandlerKnows, Idle
  <1>5. CompletedIsHonest'
    <2>1. CASE FailRun(s)
      BY <2>1 DEF FailRun, CompletedIsHonest
    <2>2. CASE NextDispatched(s)
      BY <1>u, <1>3, <2>2 DEF NextDispatched, PipelineInv, CompletedIsHonest, Concluded
    <2>3. CASE CompleteRun(s)
      <3>1. /\ HasVerdict(s) /\ hnd[s].t \in Task /\ stepOf[hnd[s].t] # NoStep
            /\ hnd[s].status = "completed" \/ pipeline[stepOf[hnd[s].t]] # "stop"
            /\ stepOf[hnd[s].t] + 1 \notin DOMAIN pipeline
        BY <2>3 DEF CompleteRun, PipelineInv, HandlerKnows, HasVerdict
      <3>2. \A w \in Task : stepOf[w] # NoStep => Passed(w)
        BY <3>1, HeldVerdict
      <3> QED
        BY <1>u, <1>3, <3>1, <3>2 DEF CompletedIsHonest, Passed, Concluded
    <2> QED
      BY <2>1, <2>2, <2>3
  <1> QED
    BY <1>3, <1>4, <1>5
\* api_run_pipeline: the first step of a run that had none.
LEMMA RunPipelineStep ==
    ASSUME PipelineInv, NEW t \in Task, RunPipeline(t)
    PROVE  /\ DueIsTrue' /\ DueOnce' /\ HandlerKnows'
           /\ StepsSettled' /\ StepsBelong' /\ CompletedIsHonest'
  <1>u. /\ UNCHANGED <<executorVars, pipeline, hnd, up>>
        /\ run = "none" /\ run' = "running"
    BY DEF RunPipeline, linkVars
  <1>n. \A w \in Task : stepOf[w] = NoStep
    BY <1>u DEF PipelineInv, StepsBelong
  <1>1. LastReport' = LastReport
    BY <1>u, SilentKeepsLast DEF executorVars
  <1>2. DueIsTrue' /\ DueOnce'
    BY <1>u, <1>1, NothingNewDue DEF PipelineInv, HasVerdict
  <1>3. /\ \A w \in Task : w # t => stepOf'[w] = NoStep /\ disp'[w] = disp[w]
        /\ disp'[t] = "row" /\ stepOf'[t] = FirstStep
    BY <1>n DEF RunPipeline, PipelineInv, TypeOK, At
  <1>4. FirstStep \in Nat
    BY PipelinesAssumption DEF PipelineInv, TypeOK, FirstStep
  <1>5. HandlerKnows'
    BY <1>u, <1>n DEF PipelineInv, HandlerKnows
  <1>6. StepsSettled'
    BY <1>3, <1>4, NullAssumption DEF StepsSettled
  <1>7. StepsBelong'
    BY <1>u, <1>3 DEF PipelineInv, StepsBelong
  <1>8. CompletedIsHonest'
    BY <1>u DEF CompletedIsHonest
  <1> QED
    BY <1>2, <1>5, <1>6, <1>7, <1>8

\* advance_pipeline creates the next step's task, with the last step's verdict.
LEMMA StartNextStep ==
    ASSUME PipelineInv, NEW s \in Session, NEW t \in Task, StartNext(s, t)
    PROVE  /\ DueIsTrue' /\ DueOnce' /\ HandlerKnows'
           /\ StepsSettled' /\ StepsBelong' /\ CompletedIsHonest'
  <1>0. PICK u \in Task, k \in DOMAIN pipeline : u = hnd[s].t /\ k = stepOf[u]
    BY DEF StartNext, PipelineInv, HandlerKnows, TypeOK
  <1>u. /\ UNCHANGED <<executorVars, pipeline, up>>
        /\ run' = "running" /\ disp[t] = "none"
    BY DEF StartNext, linkVars, Fresh
  <1>h. hnd \in [Session -> Handler]
    BY HandlerType DEF PipelineInv
  <1>1. /\ HasVerdict(s) /\ u \in Task /\ k # NoStep
        /\ hnd[s].status = "completed" \/ pipeline[k] # "stop"
        /\ k + 1 \in DOMAIN pipeline
    BY <1>0 DEF StartNext, PipelineInv, HandlerKnows, HasVerdict
  <1>2. /\ hnd'[s].at = "wait" /\ \A r \in Session : r # s => hnd'[r] = hnd[r]
        /\ \A w \in Task : w # t => stepOf'[w] = stepOf[w] /\ disp'[w] = disp[w]
        /\ stepOf'[t] = k + 1 /\ disp'[t] = "row"
    BY <1>0, <1>h DEF StartNext, NextIndex, At, PipelineInv, TypeOK, Handler
  <1>3. stepOf[t] = NoStep /\ u # t
    BY <1>0, <1>u, <1>1 DEF PipelineInv, StepsBelong
  <1>4. /\ Passed(u)
        /\ \A w \in Task : stepOf[w] # NoStep => Passed(w) /\ (w = u \/ (stepOf[w] < k /\ ~Due(w)))
    BY <1>0, <1>1, HeldVerdict
  <1>5. \A w \in Task : stepOf[w] # NoStep => stepOf[w] \in Nat
    BY PipelinesAssumption DEF PipelineInv, TypeOK
  <1>6. LastReport' = LastReport
    BY <1>u, SilentKeepsLast DEF executorVars
  <1>7. ~HasVerdict(s)'
    BY <1>2 DEF HasVerdict
  <1>8. DueIsTrue' /\ DueOnce' /\ \A w \in Task : Due(w)' => Due(w)
    BY <1>u, <1>2, <1>6, <1>7, NothingNewDue DEF PipelineInv, HasVerdict
  <1>9. ~Due(u)'
    <2>1. \A i \in 1..Len(up) : up[i].status \in Verdict => up[i].t # u
      BY <1>0, <1>1 DEF PipelineInv, DueOnce
    <2>2. \A r \in Session : HasVerdict(r) /\ hnd[r].t = u => r = s
      BY <1>0, <1>1 DEF PipelineInv, DueOnce
    <2>3. \A r \in Session : HasVerdict(r)' => r # s /\ HasVerdict(r) /\ hnd'[r].t = hnd[r].t
      BY <1>2, <1>7 DEF HasVerdict
    <2> QED
      BY <1>u, <2>1, <2>2, <2>3 DEF Due
  <1>10. HandlerKnows'
    <2>1. ASSUME NEW r \in Session, hnd[r].at \in {"failRun", "completeRun", "nextRun"}
          PROVE  hnd[r].t # t
      BY <1>3, <2>1 DEF PipelineInv, HandlerKnows
    <2> QED
      BY <1>u, <1>2, <2>1 DEF PipelineInv, HandlerKnows
  <1>11. StepsSettled'
    <2>k. k \in Nat
      BY <1>0, <1>1, <1>5
    <2>1. \A w \in Task : w # t /\ stepOf'[w] # NoStep =>
             /\ Passed(w)' /\ ~Due(w)'
             /\ stepOf'[w] \in Nat /\ stepOf'[w] < k + 1
      <3>1. ASSUME NEW w \in Task, w # t, stepOf'[w] # NoStep
            PROVE  Passed(w)' /\ ~Due(w)' /\ stepOf'[w] \in Nat /\ stepOf'[w] < k + 1
        <4>1. stepOf[w] # NoStep /\ stepOf'[w] = stepOf[w]
          BY <1>2, <3>1
        <4>2. Passed(w)'
          BY <1>4, <1>6, <1>u, <4>1 DEF Passed, Concluded
        <4>3. stepOf'[w] \in Nat /\ stepOf'[w] < k + 1
          BY <1>0, <1>4, <1>5, <2>k, <4>1
        <4> QED
          BY <1>4, <1>8, <1>9, <4>1, <4>2, <4>3
      <3> QED
        BY <3>1
    <2>2. \A v, w \in Task : v # t /\ w # t /\ stepOf'[v] # NoStep /\ stepOf'[w] = stepOf'[v] => v = w
      BY <1>2 DEF PipelineInv, StepsSettled
    <2> QED
      BY <1>2, <2>k, <2>1, <2>2 DEF StepsSettled
  <1>12. StepsBelong'
    BY <1>u, <1>2 DEF PipelineInv, StepsBelong
  <1>13. CompletedIsHonest'
    BY <1>u DEF CompletedIsHonest
  <1> QED
    BY <1>8, <1>10, <1>11, <1>12, <1>13
-----------------------------------------------------------------------------
(* The invariant and what follows from it.                                 *)

\* No run, no task and no report to begin with.
LEMMA InitPipelineInv == Init => PipelineInv
  <1> SUFFICES ASSUME Init PROVE PipelineInv
    OBVIOUS
  <1>1. IInv
    BY InitIInv DEF Init
  <1>2. <<>> \in Seq(Command) /\ <<>> \in Seq(Message) /\ Len(up) = 0
    BY DEF Init
  <1>3. hnd = [s \in Session |-> Idle] /\ \A s \in Session : ~HasVerdict(s)
    BY DEF Init, HasVerdict, Idle
  <1>4. TypeOK
    BY <1>1, <1>2, <1>3, MaxDropsAssumption
       DEF Init, IInv, TypeOK, RowStatus, Command, Message, Idle
  <1>5. DueIsTrue /\ DueOnce
    BY <1>2, <1>3 DEF DueIsTrue, DueOnce
  <1>6. HandlerKnows
    BY <1>3 DEF HandlerKnows, Idle
  <1>7. StepsSettled /\ StepsBelong /\ CompletedIsHonest
    BY DEF Init, StepsSettled, StepsBelong, CompletedIsHonest
  <1> QED
    BY <1>1, <1>4, <1>5, <1>6, <1>7 DEF PipelineInv, IInv

\* Every step of server, wire and agent keeps the invariant.
LEMMA StepPipelineInv ==
    ASSUME PipelineInv, [Next]_vars
    PROVE  PipelineInv'
  <1> DEFINE Rest == /\ DueIsTrue /\ DueOnce /\ HandlerKnows
                     /\ StepsSettled /\ StepsBelong /\ CompletedIsHonest
  <1>e. [ExecutorNext]_executorVars
    BY NextExecutes DEF PipelineInv
  <1>t. TypeOK'
    BY PipelineTypeStep DEF PipelineInv
  <1>r. ReportsFollowPhase'
    BY <1>e, StepIInv DEF PipelineInv, IInv, TypeOK
  <1>1. ASSUME Drop PROVE Rest'
    BY <1>1, DropStep
  <1>2. ASSUME Reconnect PROVE Rest'
    BY <1>2, ReconnectStep
  <1>3. ASSUME AgentReceives PROVE Rest'
    BY <1>3, <1>e, AgentStep DEF AgentReceives
  <1>4. ASSUME NEW t \in Task, AgentWorks(t) PROVE Rest'
    BY <1>4, <1>e, AgentStep DEF AgentWorks
  <1>5. ASSUME Receive PROVE Rest'
    BY <1>5, ReceiveStep
  <1>6. ASSUME NEW t \in Task, CreateTask(t) \/ DispatchStep(t) PROVE Rest'
    <2>1. /\ UNCHANGED <<executorVars, pipeline, stepOf, hnd, up>>
          /\ run' \in {run, "failed"}
          /\ \E p \in {"row", "send", "sending", "markRun", "markFail", "refused", "over"} :
                disp' = At(disp, t, p)
      BY <1>6 DEF CreateTask, DispatchStep, RowStored, Send, SendReturns, MarkRunning, MarkFailed,
                  FailRunRefused, linkVars
    <2>2. \A u \in Task : disp'[u] = "none" => disp[u] = "none"
      BY <2>1 DEF At, PipelineInv, TypeOK
    <2> QED
      BY <2>1, <2>2, SideStep
  <1>7. ASSUME NEW t \in Task, RunPipeline(t) PROVE Rest'
    BY <1>7, RunPipelineStep
  <1>8. ASSUME NEW t \in Task, CancelBegin(t) \/ CancelStep(t) PROVE Rest'
    <2>1. UNCHANGED <<executorVars, pipeline, stepOf, hnd, up, run, disp>>
      BY <1>8 DEF CancelBegin, CancelStep, CancelSent, CancelMarked, linkVars
    <2> QED
      BY <2>1, SideStep
  <1>9. ASSUME NEW s \in Session, HandlerStep(s) PROVE Rest'
    BY <1>9, StatusStoredStep, AdvanceStep, HandlerEndsStep, StartNextStep DEF HandlerStep
  <1>10. ASSUME UNCHANGED vars PROVE Rest'
    <2>1. UNCHANGED <<executorVars, pipeline, stepOf, hnd, up, run, disp>>
      BY <1>10 DEF vars, serverVars, linkVars
    <2> QED
      BY <2>1, SideStep
  <1>11. Rest'
    BY <1>1, <1>2, <1>3, <1>4, <1>5, <1>6, <1>7, <1>8, <1>9, <1>10 DEF Next
  <1> QED
    BY <1>t, <1>r, <1>11 DEF PipelineInv

\* The inductive invariant holds throughout: a verdict is under way once at most,
\* it is the agent's, and every step but the last of a run has used its own up
\* (process/task_executor.py, tasks/network_handler.py, tasks/service.py).
THEOREM PipelineInvariant == Spec => []PipelineInv
  <1>1. PipelineInv /\ [Next]_vars => PipelineInv'
    BY StepPipelineInv
  <1> QED
    BY InitPipelineInv, <1>1, PTL DEF Spec

\* Rows, steps, handlers and frames keep their types: no handler works on a step
\* the pipeline does not have (tasks/service.py advance_pipeline).
THEOREM PipelineTypeCorrect == Spec => []TypeOK
  <1>1. PipelineInv => TypeOK
    BY DEF PipelineInv
  <1> QED
    BY PipelineInvariant, <1>1, PTL

\* The steps of a run are executed in sequence, each of them once, whatever
\* sessions, reconnections, cancellations and coroutines advance it
\* (tasks/service.py advance_pipeline).
THEOREM StepsInSequenceCorrect == Spec => []StepsInSequence
  <1>1. ASSUME PipelineInv PROVE StepsInSequence
    <2>1. NoDuplicateStep
      <3>1. ASSUME NEW i \in DOMAIN pipeline PROVE Cardinality(TaskOf(i)) <= 1
        <4>0. i # NoStep
          BY <1>1, PipelinesAssumption, NullAssumption DEF PipelineInv, TypeOK
        <4>1. CASE TaskOf(i) = {}
          BY <4>1, FS_EmptySet
        <4>2. ASSUME NEW t \in TaskOf(i) PROVE Cardinality(TaskOf(i)) <= 1
          <5>1. TaskOf(i) = {t}
            BY <1>1, <4>0, <4>2 DEF TaskOf, PipelineInv, StepsSettled
          <5>2. Cardinality({t}) = 1
            BY FS_Singleton
          <5> QED
            BY <5>1, <5>2
        <4> QED
          BY <4>1, <4>2
      <3> QED
        BY <3>1 DEF NoDuplicateStep
    <2>2. \A t \in Task : stepOf[t] # NoStep => stepOf[t] \in Nat
      BY <1>1, PipelinesAssumption DEF PipelineInv, TypeOK
    <2>3. StepsInOrder
      <3>1. ASSUME NEW t \in Task, NEW u \in Task, stepOf[t] # NoStep, stepOf[u] # NoStep,
                   stepOf[t] = stepOf[u] + 1
            PROVE  Passed(u)
        <4>1. stepOf[u] < stepOf[t]
          BY <2>2, <3>1
        <4> QED
          BY <1>1, <3>1, <4>1 DEF PipelineInv, StepsSettled
      <3> QED
        BY <3>1 DEF StepsInOrder, Passed
    <2>4. OneStepAtATime
      <3>1. \A t \in Task : Passed(t) => phase[t] \notin Executing
        BY <1>1 DEF PipelineInv, ReportsFollowPhase, Passed, Concluded, Verdict
      <3>2. ASSUME NEW t \in Task, NEW u \in Task, t # u, stepOf[t] # NoStep, stepOf[u] # NoStep
            PROVE  Passed(t) \/ Passed(u)
        <4>1. stepOf[t] < stepOf[u] \/ stepOf[u] < stepOf[t] \/ stepOf[t] = stepOf[u]
          BY <2>2, <3>2
        <4> QED
          BY <1>1, <3>2, <4>1 DEF PipelineInv, StepsSettled
      <3> QED
        BY <3>1, <3>2 DEF OneStepAtATime
    <2> QED
      BY <2>1, <2>3, <2>4 DEF StepsInSequence
  <1> QED
    BY PipelineInvariant, <1>1, PTL

\* A run is recorded as completed only after its last step's verdict, and never
\* over one its policy stops at (tasks/service.py advance_pipeline).
THEOREM CompletedIsHonestCorrect == Spec => []CompletedIsHonest
  <1>1. PipelineInv => CompletedIsHonest
    BY DEF PipelineInv
  <1> QED
    BY PipelineInvariant, <1>1, PTL

\* Composed with server and wire, the executor still gives a verdict only as it
\* ends, and no "completed" to a task it reported cancelled (execute, cancel).
THEOREM PipelineVerdictEndsExecution == Spec => []VerdictEndsExecution
  <1>1. PipelineInv => VerdictEndsExecution
    BY DEF PipelineInv, TypeOK, ReportsFollowPhase, VerdictEndsExecution, ExecutorTypeOK,
           Phase, Executing, Verdict
  <1> QED
    BY PipelineInvariant, <1>1, PTL

\* The whole system's reports follow the protocol of TaskReports: what the server
\* relies on holds of the agent it is connected to (task_executor.py).
THEOREM PipelineRefinesTaskReports == Spec => ImplementsTaskReports
  <1>1. Init => Abstract!Init
    BY DEF Init, ExecutorInit, Abstract!Init, LastReport
  <1>2. PipelineInv /\ [Next]_vars => [Abstract!Next]_LastReport
    BY NextExecutes, StepIInv DEF PipelineInv, IInv, TypeOK
  <1> QED
    BY PipelineInvariant, <1>1, <1>2, PTL DEF Spec, ImplementsTaskReports, Abstract!Spec

-----------------------------------------------------------------------------
(* The telemetry store, for any retentions (rows are kept longer than the  *)
(* age at which they are summarised) and any number of crashes, stops and  *)
(* failing statements.                                                     *)

\* Rows are of the past, and while the loop sleeps of minutes before it wakes.
RowsArePast ==
    /\ at <= minute
    /\ \A m \in work.metrics \cup disk.metrics : m <= minute
    /\ loop = "asleep" => \A m \in work.metrics : m < wake

LoopInv == Store!TypeOK /\ RowsArePast /\ Store!LoopReplacesNothing

\* The minutes that were ever written and are not in a table are accounted for in
\* its hours, as far as hours are kept.
Accounted(tables) ==
    \A m \in written \ tables.metrics :
        tables.hourly[Store!HourOf(m)] # {} \/ Store!HourOf(m) < minute - KeepHourly

\* Before anything is deleted, everything that is old enough has been summarised.
OldIsSummarised ==
    loop = "delete" =>
        \A m \in work.metrics : m < at - Day => work.hourly[Store!HourOf(m)] # {}

RetentionInv == Accounted(work) /\ Accounted(disk) /\ OldIsSummarised

StoreInv == LoopInv /\ RetentionInv

\* An hour begins in a minute the model has.
LEMMA HourOfMinute ==
    ASSUME NEW m \in Store!Minute
    PROVE  Store!HourOf(m) \in Store!Minute
  <1>1. Hour \in Nat \ {0} /\ m \in Nat /\ LastMinute \in Nat /\ m <= LastMinute
    BY StoreAssumption DEF Store!Minute
  <1>2. (m \div Hour) * Hour \in 0..m
    BY <1>1
  <1> QED
    BY <1>1, <1>2 DEF Store!HourOf, Store!Minute

\* The tables are empty at the start.
LEMMA StoreInit == ASSUME Store!Init PROVE StoreInv
  <1>1. ring \in BOOLEAN
    BY Zenon DEF Store!Init
  <1>2. work \in Store!Tables
    BY StoreAssumption DEF Store!Init, Store!Tables, Store!Minute
  <1>3. /\ minute \in Store!Minute /\ wake \in Nat /\ at \in Store!Minute
        /\ storeFaults \in 0..MaxStoreFaults
        /\ loop = "asleep" /\ disk = work /\ written = {}
    BY StoreAssumption DEF Store!Init, Store!Minute
  <1>4. Store!TypeOK
    BY <1>1, <1>2, <1>3 DEF Store!TypeOK
  <1> QED
    BY <1>4
       DEF Store!Init, StoreInv, LoopInv, RowsArePast, Store!LoopReplacesNothing, RetentionInv,
           Accounted, OldIsSummarised

\* Steps that leave both tables alone and do not go to sleep.
LEMMA StoreQuietSteps ==
    ASSUME StoreInv, Store!Tick \/ Store!Push \/ Store!Flush
    PROVE  StoreInv'
  <1> USE StoreAssumption DEF StoreInv, LoopInv, Store!TypeOK, Store!Minute, Store!Tables,
              RowsArePast, Store!LoopReplacesNothing, RetentionInv, Accounted, OldIsSummarised
  <1>1. CASE Store!Tick
    <2>1. \A m \in written : Store!HourOf(m) \in Int
      BY HourOfMinute
    <2> QED
      BY <1>1, <2>1, SMTT(30) DEF Store!Tick
  <1>2. CASE Store!Push
    <2>1. ring' \in BOOLEAN
      BY <1>2, Zenon DEF Store!Push
    <2> QED
      BY <1>2, <2>1 DEF Store!Push
  <1>3. CASE Store!Flush
    <2>1. ring' \in BOOLEAN
      BY <1>3, Zenon DEF Store!Flush
    <2>2. loop' \in {"insert", "aggregate"} /\ at' = minute /\ minute >= wake /\ loop = "asleep"
      BY <1>3 DEF Store!Flush
    <2>3. UNCHANGED <<minute, wake, work, disk, written, storeFaults>>
      BY <1>3 DEF Store!Flush
    <2>4. at' \notin work'.metrics
      BY <2>2, <2>3
    <2> QED
      BY <2>1, <2>2, <2>3, <2>4
  <1> QED
    BY <1>1, <1>2, <1>3

\* Commits of the tables, with a new row or without.
LEMMA StoreWritingSteps ==
    ASSUME StoreInv, Store!RecordEvent \/ Store!Insert
    PROVE  StoreInv'
  <1> USE StoreAssumption DEF StoreInv, LoopInv, Store!TypeOK, Store!Minute, Store!Tables,
              RowsArePast, Store!LoopReplacesNothing, RetentionInv, Accounted, OldIsSummarised
  <1>1. CASE Store!RecordEvent
    BY <1>1 DEF Store!RecordEvent, Store!Committed
  <1>2. CASE Store!Insert
    <2>1. /\ work'.metrics = work.metrics \cup {at} /\ work'.hourly = work.hourly
          /\ work' \in Store!Tables /\ disk' = work' /\ written' = written \cup work'.metrics
      BY <1>2 DEF Store!Insert, Store!Committed
    <2>2. /\ loop' \in {"aggregate", "off"} /\ at' = minute
          /\ UNCHANGED <<minute, ring, wake, storeFaults>>
      BY <1>2 DEF Store!Insert
    <2>3. Accounted(work)'
      BY <2>1, <2>2
    <2>4. Store!TypeOK'
      BY <2>1, <2>2
    <2>5. RowsArePast'
      BY <2>1, <2>2
    <2> QED
      BY <2>1, <2>2, <2>3, <2>4, <2>5
  <1> QED
    BY <1>1, <1>2

\* After summarising, every minute older than a day is in its hour.
LEMMA AggregateKeeps ==
    ASSUME StoreInv, Store!Aggregate
    PROVE  StoreInv'
  <1> USE StoreAssumption DEF StoreInv, LoopInv, Store!TypeOK, RowsArePast, RetentionInv
  <1>1. /\ work'.metrics = work.metrics
        /\ work'.hourly = [h \in Store!Minute |->
                           IF Store!Summary(h) # {} THEN Store!Summary(h) ELSE work.hourly[h]]
        /\ loop' = "delete" /\ UNCHANGED <<minute, ring, wake, at, disk, written, storeFaults>>
    BY DEF Store!Aggregate, Store!Tables
  <1>2. work' \in Store!Tables
    <2>1. \A h \in Store!Minute : Store!Summary(h) \subseteq Store!Minute
      BY DEF Store!Summary, Store!Tables
    <2> QED
      BY <2>1 DEF Store!Aggregate, Store!Tables
  <1>3. \A m \in written \cup work.metrics : Store!HourOf(m) \in Store!Minute
    BY HourOfMinute DEF Store!Tables
  <1>4. \A h \in Store!Minute : work.hourly[h] # {} => work'.hourly[h] # {}
    BY <1>1
  <1>5. Accounted(work)'
    BY <1>1, <1>3, <1>4 DEF Accounted
  <1>6. OldIsSummarised'
    <2> SUFFICES ASSUME NEW m \in work.metrics, m < at - Day
                 PROVE  work'.hourly[Store!HourOf(m)] # {}
      BY <1>1 DEF OldIsSummarised
    <2>1. m \in Store!Summary(Store!HourOf(m))
      BY DEF Store!Summary
    <2> QED
      BY <1>1, <1>3, <2>1
  <1> QED
    BY <1>1, <1>2, <1>5, <1>6 DEF Store!LoopReplacesNothing, Accounted

\* What is deleted has been summarised, and its hour is deleted only when it is
\* past the retention of hours.
LEMMA DeleteKeeps ==
    ASSUME StoreInv, Store!Delete
    PROVE  StoreInv'
  <1> USE StoreAssumption DEF StoreInv, LoopInv, Store!TypeOK, RowsArePast, RetentionInv
  <1>1. /\ work'.metrics = {m \in work.metrics : m >= at - Keep}
        /\ work'.hourly = [h \in Store!Minute |->
                           IF h < at - KeepHourly THEN {} ELSE work.hourly[h]]
        /\ disk' = work' /\ written' = written \cup work'.metrics
        /\ loop' = "asleep" /\ wake' = minute + 1
        /\ UNCHANGED <<minute, ring, at, storeFaults>>
    BY DEF Store!Delete, Store!Committed, Store!Sleeps
  <1>2. work' \in Store!Tables
    BY DEF Store!Delete, Store!Tables
  <1>3. \A m \in written \cup work.metrics :
           m \in Int /\ Store!HourOf(m) \in Store!Minute /\ Store!HourOf(m) \in Int
    BY HourOfMinute DEF Store!Tables, Store!Minute
  <1>4. at \in Int /\ minute \in Int /\ \A m \in work'.metrics : m <= minute /\ m < wake'
    BY <1>1, <1>3 DEF Store!Minute, Store!Tables
  <1>5. Accounted(work)'
    <2> SUFFICES ASSUME NEW m \in written' \ work'.metrics
                 PROVE  work'.hourly[Store!HourOf(m)] # {} \/ Store!HourOf(m) < minute - KeepHourly
      BY <1>1 DEF Accounted
    <2>1. m \in written /\ Store!HourOf(m) \in Store!Minute /\ Store!HourOf(m) \in Int
      BY <1>1, <1>3
    <2>2. work.hourly[Store!HourOf(m)] # {} \/ Store!HourOf(m) < minute - KeepHourly
      <3>1. CASE m \in work.metrics
        <4>1. m < at - Day
          BY <1>1, <1>3, <1>4, <3>1
        <4> QED
          BY <3>1, <4>1 DEF OldIsSummarised, Store!Delete
      <3>2. CASE m \notin work.metrics
        BY <2>1, <3>2 DEF Accounted
      <3> QED
        BY <3>1, <3>2
    <2>3. Store!HourOf(m) < at - KeepHourly => Store!HourOf(m) < minute - KeepHourly
      BY <1>4, <2>1
    <2> QED
      BY <1>1, <2>1, <2>2, <2>3
  <1>6. RowsArePast' /\ Store!LoopReplacesNothing' /\ OldIsSummarised'
    BY <1>1, <1>4 DEF Store!LoopReplacesNothing, OldIsSummarised
  <1>7. Store!TypeOK'
    <2>1. wake' \in Nat
      BY <1>1 DEF Store!Minute
    <2>2. written' \subseteq Store!Minute
      BY <1>1, <1>2 DEF Store!Tables
    <2> QED
      BY <1>1, <1>2, <2>1, <2>2
  <1>8. Accounted(disk)'
    BY <1>1, <1>5 DEF Accounted
  <1> QED
    BY <1>5, <1>6, <1>7, <1>8

\* A failing statement leaves the open transaction as it is; a stop or a crash
\* goes back to what was committed.
LEMMA StoreFaultsKeep ==
    ASSUME StoreInv, Store!Fails \/ Store!Stop \/ Store!Crash \/ Store!Start
    PROVE  StoreInv'
  <1> USE StoreAssumption DEF StoreInv, LoopInv, Store!TypeOK, RowsArePast, RetentionInv
  <1>1. UNCHANGED <<minute, disk, written>> /\ work' \in {work, disk} /\ at' \in {at, minute}
    BY DEF Store!Fails, Store!Stop, Store!Crash, Store!Start
  <1>2. storeFaults' \in 0..MaxStoreFaults
    BY DEF Store!Fails, Store!Stop, Store!Crash, Store!Start, Store!Fault
  <1>3. ring' \in BOOLEAN
    BY Zenon DEF Store!Fails, Store!Stop, Store!Crash, Store!Start
  <1>4. \/ loop' = "asleep" /\ wake' = minute + 1
        \/ loop' \in {"final", "off"} /\ wake' = wake
    BY DEF Store!Fails, Store!Stop, Store!Crash, Store!Start, Store!Sleeps
  <1>5. wake' \in Nat
    BY <1>4 DEF Store!Minute
  <1>6. Store!TypeOK'
    BY <1>1, <1>2, <1>3, <1>4, <1>5
  <1>7. \A m \in work'.metrics : m <= minute /\ m < minute + 1
    BY <1>1 DEF Store!Tables, Store!Minute
  <1>8. RowsArePast' /\ Store!LoopReplacesNothing'
    BY <1>1, <1>4, <1>7 DEF Store!LoopReplacesNothing, Store!Minute
  <1> QED
    BY <1>1, <1>4, <1>6, <1>8 DEF Accounted, OldIsSummarised

\* Every step preserves the invariant.
LEMMA StoreStep == ASSUME StoreInv, [Store!Next]_Store!vars PROVE StoreInv'
  <1>1. CASE UNCHANGED Store!vars
    BY <1>1
       DEF Store!vars, StoreInv, LoopInv, Store!TypeOK, RowsArePast, Store!LoopReplacesNothing,
           RetentionInv, Accounted, OldIsSummarised
  <1> QED
    BY <1>1, StoreQuietSteps, StoreWritingSteps, AggregateKeeps, DeleteKeeps, StoreFaultsKeep
       DEF Store!Next

\* The inductive invariant.
THEOREM StoreInvariant == Store!Spec => []StoreInv
  BY StoreInit, StoreStep, PTL DEF Store!Spec

\* The flush loop never replaces a row, so no samples of an earlier flush are
\* lost: it sleeps a whole minute before it reads the time again
\* (telemetry_db.py _flush_loop).
THEOREM LoopReplacesNothingCorrect == Store!Spec => []Store!LoopReplacesNothing
  <1>1. StoreInv => Store!LoopReplacesNothing
    BY DEF StoreInv, LoopInv
  <1> QED
    BY <1>1, StoreInvariant, PTL

\* Across failures, crashes and the commits of others a minute is deleted only
\* when its hour has been summarised (telemetry_db.py _cleanup_old).
THEOREM StoreDeletedIsSummarised == Store!Spec => []Store!DeletedIsSummarised
  <1>1. StoreInv => Store!DeletedIsSummarised
    BY DEF StoreInv, RetentionInv, Accounted, Store!DeletedIsSummarised
  <1> QED
    BY <1>1, StoreInvariant, PTL
-----------------------------------------------------------------------------
(* The settings, for any number of overlapping requests.  The invariant    *)
(* says what the lock is for: the one request that saves or has saved      *)
(* holds it, and until it lets go the settings in memory are the ones its  *)
(* own were made from.                                                     *)

\* Past the lock.
Inside(r) == edit[r].at \in {"saving", "saved"}

\* The lock excludes: whoever is past it holds it.
LockHeld == \A r \in Request : Inside(r) => holder = r

\* A request that goes on has its patch, and its settings from the time it has
\* the lock, or from the beginning if it has an identity part.
HasSettings ==
    \A r \in Request :
        /\ edit[r].at = "waiting" \/ Inside(r) => edit[r].patch \in Settings!Patch
        /\ \/ Inside(r)
           \/ edit[r].at = "waiting" /\ edit[r].patch.identity # None
           => edit[r].next \in Settings!Settings

\* What has been saved is what the row holds, and only then is memory behind.
SavedIsStored ==
    /\ \A r \in Request : edit[r].at = "saved" => stored = edit[r].next
    /\ (\A r \in Request : edit[r].at # "saved") => settings = stored

\* An update's settings are made from the ones in memory now.
MadeFromMemory ==
    \A r \in Request :
        Inside(r) /\ edit[r].patch.identity = None => edit[r].next = Settings!Merged(settings,
        edit[r].patch)

SettingsInv == Settings!TypeOK /\ LockHeld /\ HasSettings /\ SavedIsStored /\ MadeFromMemory

\* Done and New are requests.
LEMMA NewDoneType == Settings!New \in Settings!Handler /\ Settings!Done \in Settings!Handler
  BY DEF Settings!New, Settings!Done, Settings!Handler

\* What update writes is a record of settings.
LEMMA MergedType ==
    ASSUME NEW s \in Settings!Settings, NEW p \in Settings!Patch
    PROVE  Settings!Merged(s, p) \in Settings!Settings
  <1>1. Settings!Set(p.deployment, s.deployment) \in BOOLEAN /\ Settings!Set(p.guacamole,
  s.guacamole) \in BOOLEAN
    BY DEF Settings!Set, Settings!Patch, Settings!Settings
  <1> QED
    BY <1>1 DEF Settings!Merged, Settings!Settings

\* What replace writes is one too.
LEMMA ReplacementType ==
    ASSUME NEW s \in Settings!Settings, NEW p \in Settings!Patch, p.identity # None
    PROVE  Settings!ReplacementFor(s, p) \in Settings!Settings
  <1>1. p.identity \in Settings!Identity
    BY DEF Settings!Patch
  <1>2. /\ Settings!Set(p.deployment, s.deployment) \in BOOLEAN
        /\ Settings!Set(p.identity.tenant, s.tenant) \in Tenant \cup {NoTenant}
        /\ (s.locked \/ p.identity.activate) \in BOOLEAN
    BY <1>1 DEF Settings!Set, Settings!Patch, Settings!Settings, Settings!Identity
  <1> QED
    BY <1>2 DEF Settings!ReplacementFor, Settings!IdentityAfter, Settings!Settings

\* No request is under way at the start.
LEMMA SettingsInit == Settings!Init => SettingsInv
  <1> SUFFICES ASSUME Settings!Init PROVE SettingsInv
    OBVIOUS
  <1>1. Settings!Defaults \in Settings!Settings
    BY DEF Settings!Defaults, Settings!Settings
  <1>2. Settings!TypeOK
    BY <1>1, NewDoneType DEF Settings!Init, Settings!TypeOK
  <1> QED
    BY <1>2
       DEF Settings!Init, SettingsInv, LockHeld, Inside, HasSettings, SavedIsStored,
           MadeFromMemory, Settings!New

\* A request up to the lock changes nothing but itself.
LEMMA ReceiveKeeps ==
    ASSUME SettingsInv, NEW r \in Request, NEW p \in Settings!Patch, Settings!Receive(r, p)
    PROVE  SettingsInv'
  <1> DEFINE next == IF p.identity = None THEN None ELSE Settings!ReplacementFor(settings, p)
             to == IF p.identity # None /\ ~Settings!ValidIdentity(settings, p.identity)
                   THEN Settings!Done ELSE [at |-> "waiting", patch |-> p, next |-> next]
  <1>1. /\ edit[r].at = "new"
        /\ edit' = [edit EXCEPT ![r] = to]
        /\ UNCHANGED <<settings, stored, holder>>
    BY DEF Settings!Receive, Settings!Moves
  <1>2. p.identity # None => next \in Settings!Settings
    BY ReplacementType DEF SettingsInv, Settings!TypeOK
  <1>3. next \in Settings!Settings \cup {None}
    BY <1>2
  <1>4. /\ to \in Settings!Handler
        /\ to.at \in {"waiting", "done"}
        /\ to.at = "waiting" => to.patch = p /\ to.next = next
    <2> HIDE DEF next
    <2> QED
      BY <1>3, NewDoneType DEF Settings!Handler, Settings!Done, Settings!New
  <1> HIDE DEF to, next
  <1> QED
    BY <1>1, <1>2, <1>4
    DEF SettingsInv, Settings!TypeOK, LockHeld, Inside, HasSettings, SavedIsStored, MadeFromMemory

\* The lock is taken when nobody is past it.
LEMMA SettingsLockKeeps ==
    ASSUME SettingsInv, NEW r \in Request, Settings!Lock(r)
    PROVE  SettingsInv'
  <1> DEFINE p == edit[r].patch
             to == IF p.identity # None THEN [edit[r] EXCEPT !.at = "saving"]
                   ELSE IF p.deployment = None /\ p.guacamole = None THEN Settings!Done
                   ELSE [edit[r] EXCEPT !.at = "saving", !.next = Settings!Merged(settings, p)]
  <1>1. /\ edit[r].at = "waiting" /\ holder = None
        /\ edit' = [edit EXCEPT ![r] = to]
        /\ holder' = IF to.at = "saving" THEN r ELSE holder
        /\ UNCHANGED <<settings, stored>>
    <2>1. Settings!Done.at # "saving"
      BY DEF Settings!Done, Settings!New
    <2>2. edit[r] \in Settings!Handler
      BY DEF SettingsInv, Settings!TypeOK
    <2> QED
      BY <2>1, <2>2 DEF Settings!Lock, Settings!Moves, Settings!Handler
  <1>2. p \in Settings!Patch /\ edit[r] \in Settings!Handler /\ settings \in Settings!Settings
    BY <1>1 DEF SettingsInv, Settings!TypeOK, HasSettings
  <1>3. Settings!Merged(settings, p) \in Settings!Settings
    BY <1>2, MergedType
  <1>4. /\ to \in Settings!Handler
        /\ to.at \in {"saving", "done"}
        /\ to.at = "saving" =>
              /\ to.patch = p
              /\ to.next \in Settings!Settings
              /\ p.identity = None => to.next = Settings!Merged(settings, p)
    BY <1>1, <1>2, <1>3, NewDoneType
       DEF Settings!Handler, Settings!Done, Settings!New, SettingsInv, HasSettings
  <1>5. \A q \in Request : ~Inside(q)
    BY <1>1, NoneAssumption DEF SettingsInv, LockHeld
  <1> HIDE DEF to
  <1> QED
    BY <1>1, <1>2, <1>4, <1>5
    DEF SettingsInv, Settings!TypeOK, LockHeld, Inside, HasSettings, SavedIsStored, MadeFromMemory

\* The row is written, or the request fails and lets go.
LEMMA SaveKeeps ==
    ASSUME SettingsInv, NEW r \in Request, Settings!Save(r)
    PROVE  SettingsInv'
  <1>1. /\ edit[r].at = "saving" /\ holder = r /\ edit[r] \in Settings!Handler
        /\ edit[r].patch \in Settings!Patch /\ edit[r].next \in Settings!Settings
        /\ UNCHANGED settings
    BY DEF Settings!Save, SettingsInv, Settings!TypeOK, LockHeld, Inside, HasSettings
  <1>2. \A q \in Request : Inside(q) => q = r
    BY <1>1 DEF SettingsInv, LockHeld
  <1>3. settings = stored
    BY <1>1, <1>2 DEF SettingsInv, SavedIsStored, Inside
  <1>4. CASE stored' = edit[r].next /\ Settings!Moves(r,
  [edit[r] EXCEPT !.at = "saved"]) /\ UNCHANGED holder
    <2> DEFINE to == [edit[r] EXCEPT !.at = "saved"]
    <2>1. /\ to \in Settings!Handler /\ to.at = "saved"
          /\ to.patch = edit[r].patch /\ to.next = edit[r].next
      BY <1>1 DEF Settings!Handler
    <2>2. edit' = [edit EXCEPT ![r] = to]
      BY <1>4 DEF Settings!Moves
    <2> HIDE DEF to
    <2> QED
      BY <1>1, <1>2, <1>4, <2>1, <2>2
      DEF SettingsInv, Settings!TypeOK, LockHeld, Inside, HasSettings, SavedIsStored, MadeFromMemory
  <1>5. CASE Settings!Moves(r, Settings!Done) /\ holder' = None /\ UNCHANGED stored
    <2>1. Settings!Done \in Settings!Handler /\ Settings!Done.at = "done"
      BY NewDoneType DEF Settings!Done, Settings!New
    <2>2. edit' = [edit EXCEPT ![r] = Settings!Done]
      BY <1>5 DEF Settings!Moves
    <2> QED
      BY <1>1, <1>2, <1>3, <1>5, <2>1, <2>2
      DEF SettingsInv, Settings!TypeOK, LockHeld, Inside, HasSettings, SavedIsStored, MadeFromMemory
  <1> QED
    BY <1>4, <1>5 DEF Settings!Save

\* Memory follows the row, and the lock is free.
LEMMA FinishKeeps ==
    ASSUME SettingsInv, NEW r \in Request, Settings!Finish(r)
    PROVE  SettingsInv'
  <1>1. /\ edit[r].at = "saved" /\ holder = r /\ stored = edit[r].next
        /\ edit[r].next \in Settings!Settings
        /\ settings' = edit[r].next /\ holder' = None /\ stored' = stored
        /\ edit' = [edit EXCEPT ![r] = Settings!Done]
    BY DEF Settings!Finish, Settings!Moves, SettingsInv, LockHeld, Inside, HasSettings,
           SavedIsStored
  <1>2. \A q \in Request : Inside(q) => q = r
    BY <1>1 DEF SettingsInv, LockHeld
  <1>3. Settings!Done \in Settings!Handler /\ Settings!Done.at = "done"
    BY NewDoneType DEF Settings!Done, Settings!New
  <1> QED
    BY <1>1, <1>2, <1>3
    DEF SettingsInv, Settings!TypeOK, LockHeld, Inside, HasSettings, SavedIsStored, MadeFromMemory

\* Nobody is under way after a restart, and memory is what the row holds.
LEMMA RestartKeeps ==
    ASSUME SettingsInv, Settings!Restart
    PROVE  SettingsInv'
  <1>1. Settings!New.at = "new" /\ Settings!Done.at = "done"
    BY DEF Settings!New, Settings!Done
  <1>2. edit' \in [Request -> Settings!Handler] /\ \A r \in Request : edit'[r].at \in {"new",
  "done"}
    BY <1>1, NewDoneType DEF Settings!Restart
  <1> QED
    BY <1>2
       DEF Settings!Restart, SettingsInv, Settings!TypeOK, LockHeld, Inside, HasSettings,
           SavedIsStored, MadeFromMemory

\* Every step preserves the invariant.
LEMMA SettingsStep == ASSUME SettingsInv,
[Settings!Next]_Settings!vars PROVE SettingsInv'
  <1>1. CASE UNCHANGED Settings!vars
    BY <1>1
    DEF Settings!vars, SettingsInv, Settings!TypeOK, LockHeld, Inside, HasSettings, SavedIsStored,
        MadeFromMemory
  <1> QED
    BY <1>1, ReceiveKeeps, SettingsLockKeeps, SaveKeeps, FinishKeeps, RestartKeeps DEF Settings!Next

\* The inductive invariant, of a service whose lock has no request named None.
THEOREM SettingsInvariant == Settings!Spec => []SettingsInv
  BY SettingsInit, SettingsStep, PTL DEF Settings!Spec

\* The settings in memory and in the row are settings, whatever is merged into
\* them, and every request is where the handler can be (settings_router.py).
THEOREM SettingsTypeCorrect == Settings!Spec => []Settings!TypeOK
  <1>1. SettingsInv => Settings!TypeOK
    BY DEF SettingsInv
  <1> QED
    BY <1>1, SettingsInvariant, PTL

\* What the server answers from is what a restart would load, except between
\* ServerSettingsDB.save and the assignment after it (settings_service.py).
THEOREM MemoryIsStoredCorrect == Settings!Spec => []Settings!MemoryIsStored
  <1>1. SettingsInv => Settings!MemoryIsStored
    BY DEF SettingsInv, SavedIsStored, Settings!MemoryIsStored
  <1> QED
    BY <1>1, SettingsInvariant, PTL

\* An update changes the fields its patch names and no other, however many
\* requests it overlaps with (settings_service.py update, under its lock).
THEOREM SettingsUpdateIsConfined == Settings!Spec => Settings!UpdateIsConfined
  <1> DEFINE Confined(r) ==
        edit[r].at = "saved" /\ edit[r].patch.identity = None /\ settings' # settings
          => /\ settings'.deployment = Settings!Set(edit[r].patch.deployment, settings.deployment)
             /\ settings'.guacamole = Settings!Set(edit[r].patch.guacamole, settings.guacamole)
             /\ settings'.tenant = settings.tenant
             /\ settings'.locked = settings.locked
  <1>1. ASSUME SettingsInv, [Settings!Next]_Settings!vars, NEW r \in Request
        PROVE  Confined(r)
    <2> SUFFICES ASSUME edit[r].at = "saved", edit[r].patch.identity = None, settings' # settings
                 PROVE  settings' = Settings!Merged(settings, edit[r].patch)
      <3>1. settings \in Settings!Settings
        BY <1>1 DEF SettingsInv, Settings!TypeOK
      <3> QED
        BY <3>1 DEF Settings!Merged, Settings!Settings
    <2>1. /\ holder = r /\ stored = edit[r].next
          /\ edit[r].next = Settings!Merged(settings, edit[r].patch)
      BY <1>1 DEF SettingsInv, LockHeld, Inside, SavedIsStored, MadeFromMemory
    <2>2. CASE Settings!Restart
      BY <2>1, <2>2 DEF Settings!Restart
    <2>3. ASSUME NEW q \in Request, Settings!Finish(q)
          PROVE  settings' = Settings!Merged(settings, edit[r].patch)
      <3>1. q = r
        BY <1>1, <2>1, <2>3 DEF Settings!Finish, SettingsInv, LockHeld, Inside
      <3> QED
        BY <2>1, <2>3, <3>1 DEF Settings!Finish
    <2> QED
      BY <1>1, <2>2, <2>3
         DEF Settings!Next, Settings!vars, Settings!Receive, Settings!Lock, Settings!Save
  <1>2. ASSUME SettingsInv, [Settings!Next]_Settings!vars
        PROVE  [\A r \in Request : Confined(r)]_Settings!vars
    BY <1>1, <1>2
  <1> QED
    BY <1>2, SettingsInvariant, PTL DEF Settings!Spec, Settings!UpdateIsConfined
-----------------------------------------------------------------------------
(* The cached artifacts, for any number of requests and of parts.  The     *)
(* invariant says what being alone is worth: nobody else is at work, so    *)
(* that what a request has written so far is what the file begins with.    *)

\* A request that has been alone is.
AloneIsAlone ==
    \A r, q \in Request : download[r].alone /\ Artifacts!Busy(r) /\ Artifacts!Busy(q) => q = r

\* What a request that is alone has downloaded is in the cached file.
AloneWrites ==
    \A r \in Request :
        download[r].alone /\ download[r].at = "write"
          => /\ download[r].linked /\ download[r].version \in Artifacts!Version
             /\ file \in [1..Chunks -> Artifacts!Part]
             /\ \A i \in 1..download[r].pos : file[i] = download[r].version

\* A request that looks at the file has read the row.
SumIsRead ==
    \A r \in Request :
        download[r].at \in {"check", "hash", "open", "write", "serve"} => download[r].sum # None

\* A file that is written to is the cached one, or has lost its path.
LinkedIsThere == \A r \in Request : download[r].linked => file \in [1..Chunks -> Artifacts!Part]

ArtifactsInv ==
    /\ Artifacts!TypeOK /\ LinkedIsThere
    /\ AloneIsAlone /\ AloneWrites /\ SumIsRead
    /\ Artifacts!AloneServesWhole

\* A file of one version has its hash.
LEMMA HashOfWhole ==
    ASSUME NEW f \in [1..Chunks -> Artifacts!Part], NEW v \in Artifacts!Version,
           \A i \in 1..Chunks : f[i] = v
    PROVE  Artifacts!Hash(f) = v
  <1>1. 1 \in 1..Chunks
    BY DownloadAssumption
  <1>2. f[1] = v /\ \E w \in Artifacts!Version : \A i \in 1..Chunks : f[i] = w
    BY <1>1
  <1> QED
    BY <1>2 DEF Artifacts!Hash

\* No request is under way at the start.
LEMMA ArtifactsInit == Artifacts!Init => ArtifactsInv
  <1> SUFFICES ASSUME Artifacts!Init PROVE ArtifactsInv
    OBVIOUS
  <1>1. Artifacts!Idle \in Artifacts!Handler
    BY DownloadAssumption DEF Artifacts!Idle, Artifacts!Handler, Artifacts!Sum
  <1>2. \A r \in Request : download[r] = Artifacts!Idle /\ download[r].at = "idle"
    BY DEF Artifacts!Init, Artifacts!Idle
  <1>3. 1 \in Artifacts!Version
    BY DownloadAssumption DEF Artifacts!Version
  <1>4. github \in [asset : Artifacts!Version, sum : Artifacts!Version \cup {Artifacts!NoSum},
                    listed : BOOLEAN]
    <2>1. github \in [asset : {1}, sum : {Artifacts!NoSum, 1}, listed : {TRUE}]
      BY Zenon DEF Artifacts!Init
    <2>2. {TRUE} \subseteq BOOLEAN
      BY Zenon
    <2> QED
      BY <1>3, <2>1, <2>2
  <1>5. Artifacts!TypeOK
    BY <1>1, <1>4, DownloadAssumption DEF Artifacts!Init, Artifacts!TypeOK
  <1> QED
    BY <1>2, <1>5
       DEF ArtifactsInv, AloneIsAlone, AloneWrites, SumIsRead, LinkedIsThere,
           Artifacts!AloneServesWhole, Artifacts!Busy, Artifacts!Idle

\* A step that takes one request on and keeps file, in one place or to the next.
LEMMA RequestMoves ==
    ASSUME ArtifactsInv, NEW r \in Request, NEW to \in Artifacts!Handler,
           download' = [download EXCEPT ![r] = to], Artifacts!Busy(r),
           to.alone = download[r].alone \/ to = Artifacts!Idle, UNCHANGED file,
           to.at # "write", to.linked => download[r].linked,
           to.at \in {"check", "hash", "open", "serve"} => to.sum # None,
           to.at = "serve" /\ to.alone /\ to.sum # Artifacts!NoSum
             => file # None /\ Artifacts!Hash(file) = to.sum
    PROVE  /\ AloneIsAlone' /\ AloneWrites' /\ SumIsRead' /\ LinkedIsThere'
           /\ Artifacts!AloneServesWhole'
  <1>1. download \in [Request -> Artifacts!Handler]
    BY DEF ArtifactsInv, Artifacts!TypeOK
  <1>2. /\ download'[r] = to
        /\ \A q \in Request : q # r => download'[q] = download[q]
    BY <1>1
  <1>3. AloneIsAlone'
    BY <1>2 DEF ArtifactsInv, AloneIsAlone, Artifacts!Busy, Artifacts!Idle
  <1>4. AloneWrites'
    BY <1>2 DEF ArtifactsInv, AloneWrites
  <1>5. SumIsRead'
    BY <1>2 DEF ArtifactsInv, SumIsRead
  <1>6. LinkedIsThere'
    BY <1>2 DEF ArtifactsInv, LinkedIsThere
  <1>7. Artifacts!AloneServesWhole'
    BY <1>2 DEF ArtifactsInv, Artifacts!AloneServesWhole
  <1> QED
    BY <1>3, <1>4, <1>5, <1>6, <1>7
\* The steps of one request, types apart.
LEMMA RequestStep ==
    ASSUME ArtifactsInv, Artifacts!TypeOK', NEW r \in Request,
           \/ Artifacts!FetchReleases(r) \/ Artifacts!UpsertRelease(r) \/ Artifacts!ResolveRelease(r)
           \/ Artifacts!CheckCache(r) \/ Artifacts!HashCache(r) \/ Artifacts!BreakDownload(r)
           \/ Artifacts!Serve(r)
    PROVE  /\ AloneIsAlone' /\ AloneWrites' /\ SumIsRead' /\ LinkedIsThere'
           /\ Artifacts!AloneServesWhole'
  <1>1. /\ download \in [Request -> Artifacts!Handler] /\ download[r] \in Artifacts!Handler
        /\ download' \in [Request -> Artifacts!Handler]
    BY DEF ArtifactsInv, Artifacts!TypeOK
  <1>2. PICK to : download' = [download EXCEPT ![r] = to]
    BY DEF Artifacts!FetchReleases, Artifacts!UpsertRelease, Artifacts!ResolveRelease,
           Artifacts!CheckCache, Artifacts!HashCache, Artifacts!BreakDownload, Artifacts!Serve,
           Artifacts!Sets, Artifacts!Goes, Artifacts!Ends
  <1>3. to = download'[r] /\ to \in Artifacts!Handler
    BY <1>1, <1>2
  <1>4. Artifacts!Busy(r) /\ UNCHANGED file
    BY DEF Artifacts!FetchReleases, Artifacts!UpsertRelease, Artifacts!ResolveRelease,
           Artifacts!CheckCache, Artifacts!HashCache, Artifacts!BreakDownload, Artifacts!Serve,
           Artifacts!Busy
  <1>5. /\ to.alone = download[r].alone \/ to = Artifacts!Idle
        /\ to.at # "write"
        /\ to.linked => download[r].linked
        /\ to.at \in {"check", "hash", "open", "serve"} => to.sum # None
        /\ to.at = "serve" /\ to.sum # Artifacts!NoSum
             => file # None /\ Artifacts!Hash(file) = to.sum
    <2> USE DEF Artifacts!Sets, Artifacts!Goes, Artifacts!Ends, Artifacts!Idle, Artifacts!Handler
    <2>s. download[r].at \in {"check", "hash", "open", "write", "serve"} => download[r].sum # None
      BY DEF ArtifactsInv, SumIsRead
    <2>1. CASE Artifacts!FetchReleases(r)
      <3>1. \/ download'[r] = [download[r] EXCEPT !.at = "upsert", !.sum = github.sum]
            \/ download'[r] = [download[r] EXCEPT !.at = "resolve"]
        BY <1>1, <2>1 DEF Artifacts!FetchReleases
      <3> QED
        BY <1>1, <1>3, <3>1
    <2>2. CASE Artifacts!UpsertRelease(r)
      BY <1>1, <1>3, <2>2 DEF Artifacts!UpsertRelease
    <2>3. CASE Artifacts!ResolveRelease(r)
      <3>1. \/ /\ download'[r] = [download[r] EXCEPT !.at = "check", !.sum = releaseRow]
               /\ releaseRow # None
            \/ download'[r] = Artifacts!Idle
        BY <1>1, <2>3 DEF Artifacts!ResolveRelease
      <3>2. CASE download'[r] = Artifacts!Idle
        BY <1>3, <3>2
      <3>3. CASE /\ download'[r] = [download[r] EXCEPT !.at = "check", !.sum = releaseRow]
                 /\ releaseRow # None
        BY <1>1, <1>3, <3>3
      <3> QED
        BY <3>1, <3>2, <3>3
    <2>4. CASE Artifacts!CheckCache(r)
      BY <1>1, <1>3, <2>4, <2>s DEF Artifacts!CheckCache
    <2>5. CASE Artifacts!HashCache(r)
      BY <1>1, <1>3, <2>5, <2>s DEF Artifacts!HashCache
    <2>6. CASE Artifacts!BreakDownload(r) \/ Artifacts!Serve(r)
      BY <1>1, <1>3, <2>6 DEF Artifacts!BreakDownload, Artifacts!Serve
    <2> QED
      BY <2>1, <2>2, <2>3, <2>4, <2>5, <2>6
  <1> QED
    BY <1>2, <1>3, <1>4, <1>5, RequestMoves
\* A request that comes is alone, or ends the others' being so.
LEMMA ArriveStep ==
    ASSUME ArtifactsInv, NEW r \in Request, Artifacts!Arrive(r)
    PROVE  /\ AloneIsAlone' /\ AloneWrites' /\ SumIsRead' /\ LinkedIsThere'
           /\ Artifacts!AloneServesWhole'
  <1>1. download \in [Request -> Artifacts!Handler]
    BY DEF ArtifactsInv, Artifacts!TypeOK
  <1>2. UNCHANGED file /\ ~Artifacts!Busy(r)
    BY DEF Artifacts!Arrive
  <1>3. /\ download'[r].at = "fetch" /\ ~download'[r].linked
        /\ download'[r].alone => \A q \in Request \ {r} : ~Artifacts!Busy(q)
    <2>1. download'[r] = [Artifacts!Idle EXCEPT !.at = "fetch",
                                                !.alone = {q \in Request \ {r} : Artifacts!Busy(q)} = {}]
      BY DEF Artifacts!Arrive
    <2>2. download'[r].alone => {q \in Request \ {r} : Artifacts!Busy(q)} = {}
      BY <2>1 DEF Artifacts!Idle
    <2> QED
      BY <2>1, <2>2 DEF Artifacts!Idle
  <1>4. ASSUME NEW q \in Request, q # r
        PROVE  /\ download'[q].at = download[q].at /\ download'[q].sum = download[q].sum
               /\ download'[q].linked = download[q].linked
               /\ ~(download'[q].alone /\ Artifacts!Busy(q))
    <2>1. download'[q] = [download[q] EXCEPT !.alone =
                            @ /\ q \notin {x \in Request \ {r} : Artifacts!Busy(x)}]
      BY <1>4 DEF Artifacts!Arrive
    <2>2. download[q] \in Artifacts!Handler
      BY <1>1
    <2> QED
      BY <1>4, <2>1, <2>2 DEF Artifacts!Handler
  <1>5. AloneIsAlone'
    BY <1>3, <1>4 DEF AloneIsAlone, Artifacts!Busy
  <1>6. AloneWrites' /\ Artifacts!AloneServesWhole'
    BY <1>2, <1>3, <1>4 DEF AloneWrites, Artifacts!AloneServesWhole, Artifacts!Busy
  <1>7. SumIsRead'
    BY <1>3, <1>4 DEF ArtifactsInv, SumIsRead
  <1>8. LinkedIsThere'
    BY <1>2, <1>3, <1>4 DEF ArtifactsInv, LinkedIsThere
  <1> QED
    BY <1>5, <1>6, <1>7, <1>8

\* The file is emptied, and grows part by part.
LEMMA DownloadStep ==
    ASSUME ArtifactsInv, Artifacts!TypeOK', NEW r \in Request,
           Artifacts!OpenDownload(r) \/ Artifacts!WriteChunk(r)
    PROVE  /\ AloneIsAlone' /\ AloneWrites' /\ SumIsRead' /\ LinkedIsThere'
           /\ Artifacts!AloneServesWhole'
  <1>1. /\ download \in [Request -> Artifacts!Handler] /\ download[r] \in Artifacts!Handler
        /\ download' \in [Request -> Artifacts!Handler] /\ Chunks \in Nat
    BY DownloadAssumption DEF ArtifactsInv, Artifacts!TypeOK
  <1>b. Artifacts!Busy(r)
    BY DEF Artifacts!OpenDownload, Artifacts!WriteChunk, Artifacts!Busy
  <1>2. /\ \A q \in Request : q # r => download'[q] = download[q]
        /\ \/ download'[r] = Artifacts!Idle
           \/ /\ download'[r].at = "write" /\ download'[r].alone = download[r].alone
              /\ download'[r].sum = download[r].sum /\ download[r].at \in {"open", "write"}
    <2>1. CASE Artifacts!OpenDownload(r)
      <3>1. /\ \A q \in Request : q # r => download'[q] = download[q]
            /\ \/ download'[r] = Artifacts!Idle
               \/ download'[r] = [download[r] EXCEPT !.at = "write", !.version = github.asset,
                                                     !.pos = 0, !.linked = TRUE]
        BY <1>1, <2>1 DEF Artifacts!OpenDownload, Artifacts!Sets, Artifacts!Ends
      <3>2. download[r].at = "open"
        BY <2>1 DEF Artifacts!OpenDownload
      <3> QED
        BY <1>1, <3>1, <3>2 DEF Artifacts!Handler
    <2>2. CASE Artifacts!WriteChunk(r)
      BY <1>1, <2>2 DEF Artifacts!WriteChunk, Artifacts!Sets, Artifacts!Handler
    <2> QED
      BY <2>1, <2>2
  <1>3. AloneIsAlone'
    BY <1>2, <1>b DEF ArtifactsInv, AloneIsAlone, Artifacts!Busy, Artifacts!Idle
  <1>4. \A q \in Request : q # r /\ Artifacts!Busy(q) => ~download[q].alone /\ ~download'[q].alone
    BY <1>2, <1>b DEF ArtifactsInv, AloneIsAlone
  <1>5. Artifacts!AloneServesWhole'
    BY <1>2, <1>4 DEF Artifacts!AloneServesWhole, Artifacts!Busy, Artifacts!Idle
  <1>6. AloneWrites'
    <2> SUFFICES ASSUME download'[r].alone, download'[r].at = "write"
                 PROVE  /\ download'[r].linked /\ download'[r].version \in Artifacts!Version
                        /\ file' \in [1..Chunks -> Artifacts!Part]
                        /\ \A i \in 1..download'[r].pos : file'[i] = download'[r].version
      BY <1>2, <1>4 DEF AloneWrites, Artifacts!Busy
    <2>1. CASE Artifacts!OpenDownload(r)
      <3>1. /\ file' = [i \in 1..Chunks |-> None]
            /\ download'[r] = [download[r] EXCEPT !.at = "write", !.version = github.asset, !.pos = 0,
                                                  !.linked = TRUE]
        BY <1>1, <2>1 DEF Artifacts!OpenDownload, Artifacts!Sets, Artifacts!Ends, Artifacts!Idle
      <3>2. /\ download'[r].linked /\ download'[r].version = github.asset
            /\ download'[r].pos = 0
        BY <1>1, <3>1 DEF Artifacts!Handler
      <3>3. github.asset \in Artifacts!Version
        BY DEF ArtifactsInv, Artifacts!TypeOK
      <3> QED
        BY <3>1, <3>2, <3>3 DEF Artifacts!Part
    <2>2. CASE Artifacts!WriteChunk(r)
      <3>1. /\ download'[r] = [download[r] EXCEPT !.pos = @ + 1]
            /\ download[r].pos < Chunks /\ download[r].pos \in 0..Chunks
            /\ download[r].at = "write"
            /\ file' = IF download[r].linked
                       THEN [file EXCEPT ![download[r].pos + 1] = download[r].version] ELSE file
        BY <1>1, <2>2 DEF Artifacts!WriteChunk, Artifacts!Sets, Artifacts!Handler
      <3>2. /\ download'[r].linked = download[r].linked
            /\ download'[r].version = download[r].version
            /\ download'[r].pos = download[r].pos + 1
            /\ download'[r].alone = download[r].alone
        BY <1>1, <3>1 DEF Artifacts!Handler
      <3>3. /\ download[r].linked /\ download[r].version \in Artifacts!Version
            /\ file \in [1..Chunks -> Artifacts!Part]
            /\ \A i \in 1..download[r].pos : file[i] = download[r].version
        BY <3>1, <3>2 DEF ArtifactsInv, AloneWrites
      <3> QED
        BY <1>1, <3>1, <3>2, <3>3 DEF Artifacts!Part
    <2> QED
      BY <2>1, <2>2
  <1>7. SumIsRead'
    BY <1>2 DEF ArtifactsInv, SumIsRead, Artifacts!Idle
  <1>8. LinkedIsThere'
    <2>0. download[r].version \in Artifacts!Part
      BY <1>1 DEF Artifacts!Handler, Artifacts!Sum, Artifacts!Part
    <2>1. file' \in [1..Chunks -> Artifacts!Part] \/ (file' = file /\ download'[r] = Artifacts!Idle)
                                                 \/ (file' = file /\ ~download'[r].linked)
      <3>1. CASE Artifacts!OpenDownload(r)
        BY <1>1, <3>1
           DEF Artifacts!OpenDownload, Artifacts!Part, Artifacts!Sets, Artifacts!Ends
      <3>2. CASE Artifacts!WriteChunk(r)
        <4>1. download'[r].linked = download[r].linked
          BY <1>1, <3>2 DEF Artifacts!WriteChunk, Artifacts!Sets, Artifacts!Handler
        <4> QED
          BY <2>0, <3>2, <4>1 DEF Artifacts!WriteChunk, ArtifactsInv, LinkedIsThere
      <3> QED
        BY <3>1, <3>2
    <2> QED
      BY <1>2, <2>1 DEF ArtifactsInv, LinkedIsThere, Artifacts!Idle
  <1> QED
    BY <1>3, <1>5, <1>6, <1>7, <1>8

\* The download has ended: what is served has been hashed.
LEMMA FinishDownloadStep ==
    ASSUME ArtifactsInv, Artifacts!TypeOK', NEW r \in Request, Artifacts!FinishDownload(r)
    PROVE  /\ AloneIsAlone' /\ AloneWrites' /\ SumIsRead' /\ LinkedIsThere'
           /\ Artifacts!AloneServesWhole'
  <1>1. /\ download \in [Request -> Artifacts!Handler] /\ download[r] \in Artifacts!Handler
        /\ download[r].at = "write" /\ Artifacts!Busy(r)
    BY DEF ArtifactsInv, Artifacts!TypeOK, Artifacts!FinishDownload, Artifacts!Busy
  <1> DEFINE got == IF download[r].pos = Chunks THEN download[r].version ELSE None
  <1>2. CASE download[r].sum # Artifacts!NoSum /\ got # download[r].sum
    <2>1. download' = [q \in Request |-> IF q = r THEN Artifacts!Idle
                                         ELSE [download[q] EXCEPT !.linked = FALSE]]
      BY <1>2 DEF Artifacts!FinishDownload
    <2>2. /\ download'[r] = Artifacts!Idle
          /\ \A q \in Request : q # r =>
                /\ download'[q].at = download[q].at /\ download'[q].alone = download[q].alone
                /\ download'[q].sum = download[q].sum /\ ~download'[q].linked
      <3>1. \A q \in Request : download[q] \in Artifacts!Handler
        BY <1>1
      <3> QED
        BY <2>1, <3>1 DEF Artifacts!Handler
    <2>3. AloneIsAlone'
      BY <2>2 DEF ArtifactsInv, AloneIsAlone, Artifacts!Busy, Artifacts!Idle
    <2>4. \A q \in Request : q # r /\ Artifacts!Busy(q) => ~download[q].alone
      BY <1>1 DEF ArtifactsInv, AloneIsAlone
    <2>5. AloneWrites' /\ Artifacts!AloneServesWhole'
      BY <2>2, <2>4 DEF AloneWrites, Artifacts!AloneServesWhole, Artifacts!Busy, Artifacts!Idle
    <2>6. SumIsRead'
      BY <2>2 DEF ArtifactsInv, SumIsRead, Artifacts!Idle
    <2>7. LinkedIsThere'
      BY <2>2 DEF LinkedIsThere, Artifacts!Idle
    <2> QED
      BY <2>3, <2>5, <2>6, <2>7
  <1>3. CASE ~(download[r].sum # Artifacts!NoSum /\ got # download[r].sum)
    <2> DEFINE to == [download[r] EXCEPT !.at = "serve"]
    <2>1. download' = [download EXCEPT ![r] = to] /\ UNCHANGED file
      BY <1>3 DEF Artifacts!FinishDownload, Artifacts!Goes, Artifacts!Sets
    <2>2. /\ to \in Artifacts!Handler /\ to.alone = download[r].alone /\ to.sum = download[r].sum
          /\ to.linked = download[r].linked
      BY <1>1 DEF Artifacts!Handler
    <2>3. to.at = "serve"
      BY <1>1 DEF Artifacts!Handler
    <2>4. ASSUME to.alone, to.sum # Artifacts!NoSum
          PROVE  file # None /\ Artifacts!Hash(file) = to.sum
      <3>1. got = download[r].sum /\ download[r].alone
        BY <1>3, <2>2, <2>4
      <3>2. /\ download[r].version \in Artifacts!Version
            /\ file \in [1..Chunks -> Artifacts!Part]
            /\ \A i \in 1..download[r].pos : file[i] = download[r].version
        BY <1>1, <3>1 DEF ArtifactsInv, AloneWrites
      <3>3. file # None
        BY <3>2, NoneAssumption DEF Artifacts!Part, Artifacts!Version
      <3>4. CASE download[r].pos = Chunks
        BY <2>2, <3>1, <3>2, <3>3, <3>4, HashOfWhole
      <3>5. CASE download[r].pos # Chunks
        BY <1>1, <3>1, <3>5 DEF ArtifactsInv, SumIsRead
      <3> QED
        BY <3>4, <3>5
    <2>5. to.sum # None
      BY <1>1, <2>2 DEF ArtifactsInv, SumIsRead
    <2> HIDE DEF to
    <2> QED
      BY <1>1, <2>1, <2>2, <2>3, <2>4, <2>5, RequestMoves
  <1> QED
    BY <1>2, <1>3
\* The types: every step of a request leaves requests and file well formed.
LEMMA ArtifactsTypeStep ==
    ASSUME ArtifactsInv, [Artifacts!Next]_Artifacts!vars
    PROVE  Artifacts!TypeOK'
  <1> USE DownloadAssumption DEF ArtifactsInv
  <1>1. /\ download \in [Request -> Artifacts!Handler]
        /\ \A r \in Request : download[r] \in Artifacts!Handler
        /\ github \in [asset : Artifacts!Version, sum : Artifacts!Version \cup {Artifacts!NoSum},
                       listed : BOOLEAN]
        /\ releaseRow \in Artifacts!Version \cup {Artifacts!NoSum, None}
        /\ file = None \/ file \in [1..Chunks -> Artifacts!Part]
        /\ downloadFaults \in 0..MaxDownloadFaults
    BY DEF Artifacts!TypeOK
  <1>2. Artifacts!Idle \in Artifacts!Handler
    BY DEF Artifacts!Idle, Artifacts!Handler, Artifacts!Sum
  <1>3. Artifacts!Fault => downloadFaults' \in 0..MaxDownloadFaults
    BY <1>1 DEF Artifacts!Fault
  <1>4. ASSUME NEW r \in Request, NEW to \in Artifacts!Handler, Artifacts!Sets(r, to)
        PROVE  download' \in [Request -> Artifacts!Handler]
    BY <1>1, <1>4 DEF Artifacts!Sets
  <1>5. ASSUME NEW r \in Request, Artifacts!Ends(r)
        PROVE  download' \in [Request -> Artifacts!Handler]
    BY <1>2, <1>4, <1>5 DEF Artifacts!Ends
  <1>6. ASSUME NEW r \in Request,
               NEW p \in {"resolve", "readback", "open", "serve", "hash"}, Artifacts!Goes(r, p)
        PROVE  download' \in [Request -> Artifacts!Handler]
    <2>1. [download[r] EXCEPT !.at = p] \in Artifacts!Handler
      BY <1>1 DEF Artifacts!Handler
    <2> QED
      BY <2>1, <1>4, <1>6 DEF Artifacts!Goes
  <1>7. CASE Artifacts!Upload \/ Artifacts!PublishSum \/ Artifacts!Unlist
    <2>1. github' \in [asset : Artifacts!Version, sum : Artifacts!Version \cup {Artifacts!NoSum},
                       listed : BOOLEAN]
      <3>1. PICK b \in BOOLEAN : b = FALSE
        BY Zenon
      <3>2. CASE Artifacts!Upload
        BY <1>1, <3>2 DEF Artifacts!Upload, Artifacts!Version
      <3>3. CASE Artifacts!PublishSum
        BY <1>1, <3>3 DEF Artifacts!PublishSum
      <3>4. CASE Artifacts!Unlist
        <4>1. github' = [github EXCEPT !.listed = b]
          BY <3>1, <3>4 DEF Artifacts!Unlist
        <4> QED
          BY ONLY <1>1, <4>1
      <3> QED
        BY <1>7, <3>2, <3>3, <3>4
    <2> QED
      BY <1>1, <1>7, <2>1
         DEF Artifacts!Upload, Artifacts!PublishSum, Artifacts!Unlist, Artifacts!TypeOK
  <1>8. ASSUME NEW r \in Request, Artifacts!Arrive(r) PROVE Artifacts!TypeOK'
    <2>1. download' \in [Request -> Artifacts!Handler]
      <3> DEFINE others == {q \in Request \ {r} : Artifacts!Busy(q)}
                 alone == others = {}
                 kept(q) == download[q].alone /\ q \notin others
      <3>1. download' = [q \in Request |->
                           IF q = r THEN [Artifacts!Idle EXCEPT !.at = "fetch", !.alone = alone]
                           ELSE [download[q] EXCEPT !.alone = kept(q)]]
        BY <1>8 DEF Artifacts!Arrive
      <3>2. alone \in BOOLEAN /\ \A q \in Request : kept(q) \in BOOLEAN
        BY Zenon
      <3> HIDE DEF alone, kept
      <3>3. [Artifacts!Idle EXCEPT !.at = "fetch", !.alone = alone] \in Artifacts!Handler
        BY <1>2, <3>2 DEF Artifacts!Handler
      <3>4. ASSUME NEW q \in Request
            PROVE  [download[q] EXCEPT !.alone = kept(q)] \in Artifacts!Handler
        BY <1>1, <3>2 DEF Artifacts!Handler
      <3> QED
        BY <3>1, <3>3, <3>4
    <2> QED
      BY <1>1, <1>8, <2>1 DEF Artifacts!Arrive, Artifacts!TypeOK
  <1>9. ASSUME NEW r \in Request, Artifacts!FetchReleases(r) \/ Artifacts!UpsertRelease(r)
        PROVE  Artifacts!TypeOK'
    <2>1. [download[r] EXCEPT !.at = "upsert", !.sum = github.sum] \in Artifacts!Handler
      BY <1>1 DEF Artifacts!Handler, Artifacts!Sum
    <2>2. CASE Artifacts!FetchReleases(r)
      <3>1. download' \in [Request -> Artifacts!Handler]
        BY <2>1, <2>2, <1>4, <1>6 DEF Artifacts!FetchReleases
      <3>2. downloadFaults' \in 0..MaxDownloadFaults
        BY <1>1, <1>3, <2>2 DEF Artifacts!FetchReleases
      <3> QED
        BY <1>1, <2>2, <3>1, <3>2 DEF Artifacts!FetchReleases, Artifacts!TypeOK
    <2>3. CASE Artifacts!UpsertRelease(r)
      <3>1. download' \in [Request -> Artifacts!Handler]
        BY <2>3, <1>6 DEF Artifacts!UpsertRelease
      <3>2. releaseRow' \in Artifacts!Version \cup {Artifacts!NoSum, None}
        BY <1>1, <2>3 DEF Artifacts!UpsertRelease, Artifacts!Handler, Artifacts!Sum
      <3> QED
        BY <1>1, <2>3, <3>1, <3>2 DEF Artifacts!UpsertRelease, Artifacts!TypeOK
    <2> QED
      BY <1>9, <2>2, <2>3
  <1>10. ASSUME NEW r \in Request, Artifacts!ResolveRelease(r) PROVE Artifacts!TypeOK'
    <2>1. [download[r] EXCEPT !.at = "check", !.sum = releaseRow] \in Artifacts!Handler
      BY <1>1 DEF Artifacts!Handler, Artifacts!Sum
    <2>2. download' \in [Request -> Artifacts!Handler]
      BY <1>4, <1>5, <1>10, <2>1 DEF Artifacts!ResolveRelease
    <2> QED
      BY <1>1, <1>10, <2>2 DEF Artifacts!ResolveRelease, Artifacts!TypeOK
  <1>11. ASSUME NEW r \in Request,
                \/ Artifacts!CheckCache(r) \/ Artifacts!HashCache(r) \/ Artifacts!Serve(r)
                \/ Artifacts!BreakDownload(r)
         PROVE  Artifacts!TypeOK'
    <2>1. \/ Artifacts!Ends(r)
          \/ \E p \in {"resolve", "readback", "open", "serve", "hash"} : Artifacts!Goes(r, p)
      BY <1>11 DEF Artifacts!CheckCache, Artifacts!HashCache, Artifacts!Serve, Artifacts!BreakDownload
    <2>2. download' \in [Request -> Artifacts!Handler]
      BY <1>5, <1>6, <2>1
    <2>3. /\ UNCHANGED <<github, releaseRow, file>>
          /\ downloadFaults' \in 0..MaxDownloadFaults
      BY <1>1, <1>3, <1>11
         DEF Artifacts!CheckCache, Artifacts!HashCache, Artifacts!Serve, Artifacts!BreakDownload
    <2> QED
      BY <1>1, <2>2, <2>3 DEF Artifacts!TypeOK
  <1>12. ASSUME NEW r \in Request, Artifacts!OpenDownload(r) PROVE Artifacts!TypeOK'
    <2>0. PICK b \in BOOLEAN : b = TRUE
      BY Zenon
    <2>1. [download[r] EXCEPT !.at = "write", !.version = github.asset, !.pos = 0, !.linked = b]
             \in Artifacts!Handler
      <3>1. download[r] \in Artifacts!Handler /\ github.asset \in Artifacts!Sum /\ 0 \in 0..Chunks
        BY <1>1 DEF Artifacts!Sum
      <3> QED
        BY ONLY <3>1, <2>0 DEF Artifacts!Handler
    <2>2. download' \in [Request -> Artifacts!Handler]
      BY <1>4, <1>5, <1>12, <2>0, <2>1 DEF Artifacts!OpenDownload
    <2>3. file' = None \/ file' \in [1..Chunks -> Artifacts!Part]
      BY <1>1, <1>12 DEF Artifacts!OpenDownload, Artifacts!Part
    <2>4. downloadFaults' \in 0..MaxDownloadFaults
      BY <1>1, <1>3, <1>12 DEF Artifacts!OpenDownload
    <2> QED
      BY <1>1, <1>12, <2>2, <2>3, <2>4 DEF Artifacts!OpenDownload, Artifacts!TypeOK
  <1>13. ASSUME NEW r \in Request, Artifacts!WriteChunk(r) PROVE Artifacts!TypeOK'
    <2>1. [download[r] EXCEPT !.pos = @ + 1] \in Artifacts!Handler
      BY <1>1, <1>13 DEF Artifacts!WriteChunk, Artifacts!Handler
    <2>2. download' \in [Request -> Artifacts!Handler]
      BY <1>4, <1>13, <2>1 DEF Artifacts!WriteChunk
    <2>3. download[r].version \in Artifacts!Part
      BY <1>1 DEF Artifacts!Handler, Artifacts!Sum, Artifacts!Part
    <2>4. file' = None \/ file' \in [1..Chunks -> Artifacts!Part]
      BY <1>1, <1>13, <2>3 DEF Artifacts!WriteChunk, LinkedIsThere
    <2> QED
      BY <1>1, <1>13, <2>2, <2>4 DEF Artifacts!WriteChunk, Artifacts!TypeOK
  <1>14. ASSUME NEW r \in Request, Artifacts!FinishDownload(r) PROVE Artifacts!TypeOK'
    <2>1. downloadFaults' \in 0..MaxDownloadFaults /\ UNCHANGED <<github, releaseRow>>
      BY <1>1, <1>3, <1>14 DEF Artifacts!FinishDownload
    <2>2. file' \in {file, None}
      BY <1>14 DEF Artifacts!FinishDownload
    <2>3. \/ Artifacts!Goes(r, "serve")
          \/ download' = [q \in Request |-> IF q = r THEN Artifacts!Idle
                                            ELSE [download[q] EXCEPT !.linked = FALSE]]
      BY <1>14 DEF Artifacts!FinishDownload
    <2>4. ASSUME NEW q \in Request PROVE [download[q] EXCEPT !.linked = FALSE] \in Artifacts!Handler
      <3>1. FALSE \in BOOLEAN
        BY Zenon
      <3> QED
        BY <1>1, <3>1 DEF Artifacts!Handler
    <2>5. download' \in [Request -> Artifacts!Handler]
      BY <1>2, <1>6, <2>3, <2>4
    <2> QED
      BY <1>1, <2>1, <2>2, <2>5 DEF Artifacts!TypeOK
  <1>15. CASE Artifacts!Crash
    <2>1. download' \in [Request -> Artifacts!Handler]
      BY <1>2, <1>15 DEF Artifacts!Crash
    <2> QED
      BY <1>1, <1>3, <1>15, <2>1 DEF Artifacts!Crash, Artifacts!TypeOK
  <1>16. CASE UNCHANGED Artifacts!vars
    BY <1>1, <1>16 DEF Artifacts!vars, Artifacts!TypeOK
  <1> QED
    BY <1>7, <1>8, <1>9, <1>10, <1>11, <1>12, <1>13, <1>14, <1>15, <1>16 DEF Artifacts!Next

\* Every step preserves the invariant.
LEMMA ArtifactsStep ==
    ASSUME ArtifactsInv, [Artifacts!Next]_Artifacts!vars
    PROVE  ArtifactsInv'
  <1>t. Artifacts!TypeOK'
    BY ArtifactsTypeStep
  <1>1. CASE /\ UNCHANGED file
             /\ \/ UNCHANGED download
                \/ \A r \in Request : download'[r] = Artifacts!Idle
    BY <1>t, <1>1 DEF ArtifactsInv, AloneIsAlone, AloneWrites, SumIsRead, LinkedIsThere,
                      Artifacts!AloneServesWhole, Artifacts!Busy, Artifacts!Idle
  <1>2. CASE Artifacts!Upload \/ Artifacts!PublishSum \/ Artifacts!Unlist \/ Artifacts!Crash
    BY <1>1, <1>2
       DEF Artifacts!Upload, Artifacts!PublishSum, Artifacts!Unlist, Artifacts!Crash
  <1>3. CASE UNCHANGED Artifacts!vars
    BY <1>1, <1>3 DEF Artifacts!vars
  <1> QED
    BY <1>t, <1>2, <1>3, RequestStep, ArriveStep, DownloadStep, FinishDownloadStep
       DEF Artifacts!Next, ArtifactsInv

\* The invariant of the downloads, with the property it is for
\* (deployment_service.py get_release_artifact_proxy).
THEOREM ArtifactsInvariant == Artifacts!Spec => []ArtifactsInv
  BY ArtifactsInit, ArtifactsStep, PTL DEF Artifacts!Spec
-----------------------------------------------------------------------------
(* The logins, for any number of them, any users and tenants.              *)

\* A login that was finished is not pending any more.
FinishedIsNotPending ==
    \A s \in Login : finished[s] = 0 \/ (finished[s] = 1 /\ pending[s] = None)

LoginsInv == Logins!TypeOK /\ FinishedIsNotPending

IdentityRecord ==
    [tenant : Tenant \cup {NoTenant}, locked : BOOLEAN, mode : Logins!Mode, mapped : SUBSET User]

CacheRecord == [tenant : Tenant \cup {None}, at : 0..LastTime]

\* Fields of TypeOK, by name.
LEMMA LoginsFields ==
    ASSUME Logins!TypeOK
    PROVE  /\ clock \in 0..LastTime /\ clock \in Nat /\ identity \in IdentityRecord
           /\ cache \in CacheRecord
           /\ pending \in [Login -> Nat \cup {None}] /\ finished \in [Login -> Nat]
           /\ codes \subseteq Logins!Code /\ spent \subseteq codes
           /\ sessions \subseteq Logins!Session
  BY TimesAssumption DEF Logins!TypeOK, IdentityRecord, CacheRecord

\* The metadata's tenant, and what is kept of it.
LEMMA MetadataType ==
    ASSUME Logins!TypeOK
    PROVE  /\ Logins!Metadata \in Tenant \cup {None}
           /\ Logins!Cached \in CacheRecord
  <1>1. /\ clock \in 0..LastTime /\ cache \in CacheRecord
        /\ cache.tenant \in Tenant \cup {None}
        /\ identity.tenant \in Tenant \cup {NoTenant}
    BY LoginsFields DEF CacheRecord, IdentityRecord
  <1>2. Logins!Metadata \in Tenant \cup {None}
    BY <1>1 DEF Logins!Metadata
  <1>3. [tenant |-> Logins!Metadata, at |-> clock] \in CacheRecord
    BY <1>1, <1>2 DEF CacheRecord
  <1> QED
    BY <1>1, <1>2, <1>3 DEF Logins!Cached

\* No login has been begun at the start.
LEMMA LoginsInit == Logins!Init => LoginsInv
  <1> SUFFICES ASSUME Logins!Init PROVE LoginsInv
    OBVIOUS
  <1>1. identity \in IdentityRecord
    <2>1. PICK b \in BOOLEAN : b = FALSE
      BY Zenon
    <2>2. identity \in [tenant : Tenant, locked : {b}, mode : Logins!Mode, mapped : {{}}]
      BY <2>1 DEF Logins!Init
    <2> QED
      BY ONLY <2>1, <2>2 DEF IdentityRecord
  <1>2. cache \in CacheRecord /\ clock \in 0..LastTime
    BY TimesAssumption DEF Logins!Init, Logins!NoCache, CacheRecord
  <1>3. /\ pending \in [Login -> Nat \cup {None}] /\ finished \in [Login -> Nat]
        /\ codes = {} /\ spent = {} /\ sessions = {}
        /\ \A s \in Login : finished[s] = 0
    BY DEF Logins!Init
  <1> QED
    BY <1>1, <1>2, <1>3
       DEF LoginsInv, Logins!TypeOK, FinishedIsNotPending, IdentityRecord, CacheRecord

\* Every step keeps the types.
LEMMA LoginsTypeStep ==
    ASSUME LoginsInv, [Logins!Next]_Logins!vars
    PROVE  Logins!TypeOK'
  <1> DEFINE T == /\ clock \in 0..LastTime /\ identity \in IdentityRecord /\ cache \in CacheRecord
                  /\ pending \in [Login -> Nat \cup {None}] /\ finished \in [Login -> Nat]
                  /\ codes \subseteq Logins!Code /\ spent \subseteq codes
                  /\ sessions \subseteq Logins!Session
  <1>1. T /\ clock \in Nat
    BY LoginsFields DEF LoginsInv
  <1>2. SUFFICES T'
    BY DEF Logins!TypeOK, IdentityRecord, CacheRecord
  <1>l. Logins!Live(sessions) \subseteq Logins!Session
    BY <1>1 DEF Logins!Live
  <1>m. Logins!Metadata \in Tenant \cup {None} /\ Logins!Cached \in CacheRecord
    BY MetadataType DEF LoginsInv
  <1>b. PICK yes \in BOOLEAN : yes = TRUE
    BY Zenon
  <1>3. ASSUME NEW t \in Tenant \cup {NoTenant}, Logins!ChangeTenant(t) PROVE T'
    <2>1. identity' \in IdentityRecord
      BY <1>1, <1>3 DEF Logins!ChangeTenant, IdentityRecord
    <2> QED
      BY <1>1, <1>3, <2>1 DEF Logins!ChangeTenant
  <1>4. ASSUME NEW u \in User, Logins!MapUser(u) PROVE T'
    <2>1. identity' \in IdentityRecord
      BY <1>1, <1>4 DEF Logins!MapUser, IdentityRecord
    <2> QED
      BY <1>1, <1>4, <2>1 DEF Logins!MapUser
  <1>5. ASSUME Logins!Activate PROVE T'
    <2>1. identity' = [identity EXCEPT !.locked = yes]
      BY <1>5, <1>b DEF Logins!Activate
    <2>2. identity' \in IdentityRecord
      BY ONLY <1>1, <1>b, <2>1 DEF IdentityRecord
    <2> QED
      BY <1>1, <1>5, <2>2 DEF Logins!Activate
  <1>6. ASSUME Logins!LocalLogin PROVE T'
    <2>1. [user |-> "local", tenant |-> None, login |-> None, role |-> "admin",
           sees |-> yes, expires |-> clock + SessionTtl] \in Logins!Session
      BY <1>1, TimesAssumption DEF Logins!Session
    <2>2. sessions' \subseteq Logins!Session
      BY <1>6, <1>b, <1>l, <2>1 DEF Logins!LocalLogin, Logins!Opened
    <2> QED
      BY <1>1, <1>6, <2>2 DEF Logins!LocalLogin
  <1>7. ASSUME NEW s \in Login, Logins!BeginLogin(s) PROVE T'
    <2>1. \A u \in User : [state |-> s, tenant |-> Logins!Metadata, user |-> u, n |-> 1] \in Logins!Code
      BY <1>m, <1>7 DEF Logins!Code, Logins!BeginLogin
    <2>2. codes' \subseteq Logins!Code /\ codes \subseteq codes'
      BY <1>1, <1>7, <2>1 DEF Logins!BeginLogin
    <2>3. pending' \in [Login -> Nat \cup {None}]
      BY <1>1, <1>7, TimesAssumption DEF Logins!BeginLogin
    <2> QED
      BY <1>1, <1>m, <1>7, <2>2, <2>3 DEF Logins!BeginLogin
  <1>8. ASSUME NEW c \in codes, Logins!AuthorizeAgain(c) PROVE T'
    <2>1. [c EXCEPT !.n = 2] \in Logins!Code
      BY <1>1 DEF Logins!Code
    <2> QED
      BY <1>1, <1>8, <2>1 DEF Logins!AuthorizeAgain
  <1>9. ASSUME NEW c \in codes, Logins!FinishLogin(c) PROVE T'
    <2>c. c \in Logins!Code /\ c.state \in Login /\ c.user \in User /\ c.tenant \in Tenant
      BY <1>1 DEF Logins!Code
    <2>1. pending' \in [Login -> Nat \cup {None}]
      BY <1>1, <1>9, <2>c DEF Logins!FinishLogin, Logins!Unexpired
    <2>2. cache' \in CacheRecord
      BY <1>1, <1>m, <1>9 DEF Logins!FinishLogin
    <2>3. spent' \subseteq codes /\ UNCHANGED <<clock, identity, codes>>
      BY <1>1, <1>9 DEF Logins!FinishLogin
    <2>4. finished' \in [Login -> Nat]
      BY <1>1, <1>9, <2>c DEF Logins!FinishLogin
    <2>5. Logins!SessionOf(c) \in Logins!Session
      <3>1. Logins!MaySee(c.user) \in BOOLEAN
        BY Zenon DEF Logins!MaySee
      <3>2. (IF c.user \in identity.mapped THEN "admin" ELSE "viewer") \in {"admin", "viewer"}
        OBVIOUS
      <3>3. clock + SessionTtl \in Nat
        BY <1>1, TimesAssumption
      <3> QED
        BY <2>c, <3>1, <3>2, <3>3 DEF Logins!SessionOf, Logins!Session
    <2>6. sessions' \subseteq Logins!Session
      BY <1>1, <1>l, <1>9, <2>5 DEF Logins!FinishLogin, Logins!Opened
    <2> QED
      BY <1>1, <2>1, <2>2, <2>3, <2>4, <2>6
  <1>10. ASSUME NEW x \in sessions, Logins!Logout(x) PROVE T'
    BY <1>1, <1>l, <1>10 DEF Logins!Logout
  <1>11. ASSUME Logins!UseSession PROVE T'
    BY <1>1, <1>l, <1>11 DEF Logins!UseSession
  <1>12. ASSUME Logins!TimePasses PROVE T'
    BY <1>1, <1>12, TimesAssumption DEF Logins!TimePasses
  <1>13. ASSUME Logins!Restart PROVE T'
    <2>1. cache' \in CacheRecord
      BY <1>13, TimesAssumption DEF Logins!Restart, Logins!NoCache, CacheRecord
    <2> QED
      BY <1>1, <1>13, <2>1 DEF Logins!Restart
  <1>14. ASSUME UNCHANGED Logins!vars PROVE T'
    BY <1>1, <1>14 DEF Logins!vars
  <1> QED
    BY <1>3, <1>4, <1>5, <1>6, <1>7, <1>8, <1>9, <1>10, <1>11, <1>12, <1>13, <1>14 DEF Logins!Next

\* Every step preserves the invariant: finish_microsoft_login takes the pending
\* login out, and a state is never begun again.
LEMMA LoginsStep ==
    ASSUME LoginsInv, [Logins!Next]_Logins!vars
    PROVE  LoginsInv'
  <1>t. Logins!TypeOK'
    BY LoginsTypeStep
  <1>f. pending \in [Login -> Nat \cup {None}] /\ finished \in [Login -> Nat]
    BY DEF LoginsInv, Logins!TypeOK
  <1>1. CASE UNCHANGED <<pending, finished>>
    BY <1>t, <1>1 DEF LoginsInv, FinishedIsNotPending
  <1>2. ASSUME NEW s \in Login, Logins!BeginLogin(s) PROVE FinishedIsNotPending'
    BY <1>f, <1>2 DEF LoginsInv, FinishedIsNotPending, Logins!BeginLogin
  <1>3. ASSUME NEW c \in codes, Logins!FinishLogin(c) PROVE FinishedIsNotPending'
    <2>1. c.state \in Login
      BY DEF LoginsInv, Logins!TypeOK, Logins!Code
    <2>2. \A s \in Login \ {c.state} :
              finished'[s] = finished[s] /\ (pending'[s] = pending[s] \/ pending'[s] = None)
      BY <1>f, <1>3, <2>1 DEF Logins!FinishLogin, Logins!Unexpired
    <2>3. /\ pending'[c.state] = None
          /\ \/ finished'[c.state] = finished[c.state]
             \/ finished'[c.state] = finished[c.state] + 1 /\ pending[c.state] # None
      BY <1>f, <1>3, <2>1 DEF Logins!FinishLogin, Logins!Unexpired
    <2> QED
      BY <2>2, <2>3 DEF LoginsInv, FinishedIsNotPending
  <1>4. ASSUME Logins!Restart PROVE FinishedIsNotPending'
    BY <1>4 DEF LoginsInv, FinishedIsNotPending, Logins!Restart
  <1>5. ASSUME NEW t \in Tenant \cup {NoTenant}, Logins!ChangeTenant(t)
        PROVE  UNCHANGED <<pending, finished>>
    BY <1>5 DEF Logins!ChangeTenant
  <1>6. ASSUME NEW u \in User, Logins!MapUser(u) PROVE UNCHANGED <<pending, finished>>
    BY <1>6 DEF Logins!MapUser
  <1>7. ASSUME NEW c \in codes, Logins!AuthorizeAgain(c) PROVE UNCHANGED <<pending, finished>>
    BY <1>7 DEF Logins!AuthorizeAgain
  <1>8. ASSUME NEW x \in sessions, Logins!Logout(x) PROVE UNCHANGED <<pending, finished>>
    BY <1>8 DEF Logins!Logout
  <1>9. ASSUME \/ Logins!Activate \/ Logins!LocalLogin \/ Logins!UseSession \/ Logins!TimePasses
               \/ UNCHANGED Logins!vars
        PROVE  UNCHANGED <<pending, finished>>
    BY <1>9 DEF Logins!Activate, Logins!LocalLogin, Logins!UseSession, Logins!TimePasses, Logins!vars
  <1> QED
    BY <1>t, <1>1, <1>2, <1>3, <1>4, <1>5, <1>6, <1>7, <1>8, <1>9 DEF Logins!Next, LoginsInv

\* The logins stay well formed, and a login opens one session at most, however
\* often its callback comes (users/service.py finish_microsoft_login).
THEOREM LoginsInvariant == Logins!Spec => []LoginsInv
  BY LoginsInit, LoginsStep, PTL DEF Logins!Spec

\* A new session of a tenant is one of the tenant the settings name.
LEMMA NewSessionFits ==
    ASSUME [Logins!Next]_Logins!vars, NEW x \in sessions' \ sessions,
           x.tenant # None, identity.tenant # NoTenant
    PROVE  x.tenant = identity.tenant
  <1>l. Logins!Live(sessions) \subseteq sessions
    BY DEF Logins!Live
  <1>1. ASSUME Logins!LocalLogin PROVE FALSE
    BY <1>1, <1>l DEF Logins!LocalLogin, Logins!Opened
  <1>2. ASSUME NEW c \in codes, Logins!FinishLogin(c) PROVE x.tenant = identity.tenant
    <2>1. x = Logins!SessionOf(c) /\ Logins!AcceptsClaims(c)
      BY <1>2, <1>l DEF Logins!FinishLogin, Logins!Opened
    <2> QED
      BY <2>1 DEF Logins!SessionOf, Logins!AcceptsClaims
  <1>3. ASSUME \/ \E t \in Tenant \cup {NoTenant} : Logins!ChangeTenant(t)
               \/ \E u \in User : Logins!MapUser(u)
               \/ \E s \in Login : Logins!BeginLogin(s)
               \/ \E c \in codes : Logins!AuthorizeAgain(c)
               \/ Logins!Activate \/ Logins!TimePasses \/ UNCHANGED Logins!vars
        PROVE  FALSE
    BY <1>3 DEF Logins!ChangeTenant, Logins!MapUser, Logins!BeginLogin, Logins!AuthorizeAgain,
                Logins!Activate, Logins!TimePasses, Logins!vars
  <1>4. ASSUME Logins!UseSession \/ Logins!Restart \/ \E y \in sessions : Logins!Logout(y) PROVE FALSE
    BY <1>4, <1>l DEF Logins!UseSession, Logins!Restart, Logins!Logout
  <1> QED
    BY <1>1, <1>2, <1>3, <1>4 DEF Logins!Next

\* A session begins in the tenant the settings name at that moment, whatever the
\* cached metadata said before (users/service.py finish_microsoft_login).
THEOREM LoginsSessionFitsTenant == Logins!Spec => Logins!SessionFitsTenant
  <1>1. ASSUME [Logins!Next]_Logins!vars
        PROVE  [\A x \in sessions' \ sessions :
                  x.tenant # None /\ identity.tenant # NoTenant
                    => x.tenant = identity.tenant]_Logins!vars
    BY <1>1, NewSessionFits
  <1> QED
    BY <1>1, PTL DEF Logins!Spec, Logins!SessionFitsTenant
-----------------------------------------------------------------------------
(* The parts together.  A step of the server is one of a single part, and  *)
(* leaves the others alone, so that every behaviour of the server is a     *)
(* behaviour of each of its parts.                                         *)

\* A step of the server is a step of each part, or leaves it alone.
LEMMA DataSteps ==
    ASSUME [DataNext]_dataVars
    PROVE  /\ [Next]_vars
           /\ [Store!Next]_Store!vars
           /\ [Settings!Next]_Settings!vars
           /\ [Artifacts!Next]_Artifacts!vars
           /\ [Logins!Next]_Logins!vars
  <1>1. ASSUME UNCHANGED storeVars PROVE UNCHANGED Store!vars
    BY <1>1 DEF storeVars, Store!vars
  <1>2. ASSUME UNCHANGED settingsVars PROVE UNCHANGED Settings!vars
    BY <1>2 DEF settingsVars, Settings!vars
  <1>3. ASSUME UNCHANGED artifactVars PROVE UNCHANGED Artifacts!vars
    BY <1>3 DEF artifactVars, Artifacts!vars
  <1>4. ASSUME UNCHANGED loginVars PROVE UNCHANGED Logins!vars
    BY <1>4 DEF loginVars, Logins!vars
  <1> QED
    BY <1>1, <1>2, <1>3, <1>4
       DEF DataNext, dataVars, TasksAct, StoreActs, SettingsAct, ArtifactsAct, LoginsAct

\* The server implements each of its parts.
THEOREM DataImplementsParts ==
    DataSpec => Spec /\ Store!Spec /\ Settings!Spec /\ Artifacts!Spec /\ Logins!Spec
  BY DataSteps, PTL
     DEF DataSpec, DataInit, Spec, Store!Spec, Settings!Spec, Artifacts!Spec, Logins!Spec

\* The server's records are well formed, those of all parts at once.
THEOREM ServerDataInvCorrect == DataSpec => []ServerDataInv
  <1>1. PipelineInv => TypeOK /\ ExecutorTypeOK /\ VerdictEndsExecution
    BY DEF PipelineInv, TypeOK, ReportsFollowPhase, VerdictEndsExecution, ExecutorTypeOK,
           Phase, Executing, Verdict
  <1>2. StoreInv => Store!TypeOK /\ Store!LoopReplacesNothing
    BY DEF StoreInv, LoopInv
  <1>3. SettingsInv => Settings!TypeOK /\ Settings!MemoryIsStored
    BY DEF SettingsInv, SavedIsStored, Settings!MemoryIsStored
  <1>4. ArtifactsInv => Artifacts!TypeOK
    BY DEF ArtifactsInv
  <1>5. LoginsInv => Logins!TypeOK /\ Logins!OneSessionPerLogin
    BY DEF LoginsInv, FinishedIsNotPending, Logins!OneSessionPerLogin
  <1> QED
    BY <1>1, <1>2, <1>3, <1>4, <1>5, DataImplementsParts, PipelineInvariant, StoreInvariant,
       SettingsInvariant, ArtifactsInvariant, LoginsInvariant, PTL DEF ServerDataInv

\* The server deletes a minute of telemetry only when its hour is summarised.
THEOREM DeletedIsSummarisedCorrect == DataSpec => []DeletedIsSummarised
  BY DataImplementsParts, StoreDeletedIsSummarised, PTL DEF DeletedIsSummarised

\* The server's settings change only where an update says so.
THEOREM UpdateIsConfinedCorrect == DataSpec => UpdateIsConfined
  BY DataImplementsParts, SettingsUpdateIsConfined, PTL DEF UpdateIsConfined

\* Whatever overlapping requests, broken downloads, crashes and new uploads left
\* in the cached file, a request that is alone sends the whole binary with the
\* published hash (deployment_service.py get_release_artifact_proxy).
THEOREM AloneServesWholeCorrect == DataSpec => []AloneServesWhole
  <1>1. ArtifactsInv => AloneServesWhole
    BY DEF ArtifactsInv, AloneServesWhole
  <1> QED
    BY <1>1, DataImplementsParts, ArtifactsInvariant, PTL

\* The server opens no session of a tenant the settings do not name.
THEOREM SessionFitsTenantCorrect == DataSpec => SessionFitsTenant
  BY DataImplementsParts, LoginsSessionFitsTenant, PTL DEF SessionFitsTenant
=============================================================================
