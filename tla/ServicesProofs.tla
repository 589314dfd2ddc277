--------------------------- MODULE ServicesProofs ---------------------------
(***************************************************************************)
(* The properties of Services, for every value of the constants.  Each     *)
(* service has an inductive invariant of its own; at the end the services  *)
(* are put together.                                                       *)
(***************************************************************************)
EXTENDS Services, Integers, SequenceTheorems, TLAPS

-----------------------------------------------------------------------------
(* The deployments, for any sets of deployments and agents and any number  *)
(* of crashes.  The invariant adds to the types what the coroutines'       *)
(* places say of the rows (RowFollowsCoroutines) and what recovery has     *)
(* still to do (RecoveryComplete).  Without the first a late write could   *)
(* revive a decided deployment; without the second recovery could miss one.*)

DeploymentsInv == TypeOK /\ RowFollowsCoroutines /\ RecoveryComplete /\ ActiveIsWorkedOn

\* The initial states satisfy the invariant.
LEMMA DeploymentsInit == Init => DeploymentsInv
  BY MaxCrashesAssumption
  DEF Init, DeploymentsInv, TypeOK, CallPoint, WorkerPoint, AgentRow, AgentStatus,
      RowFollowsCoroutines, RecoveryComplete, ActiveIsWorkedOn, Active, Busy

\* prepare_deployment, from await to await, keeps it.
LEMMA CallInv ==
    ASSUME DeploymentsInv, NEW d \in Deployment,
           CallStep(d) \/ \E a \in Agent : Prepare(d, a)
    PROVE  DeploymentsInv'
  <1> USE NoneAssumption DEF DeploymentsInv, At
  <1>0. agentOf[d] \in Agent \/ call[d] = "none"
    BY DEF TypeOK
  <1>1. ASSUME NEW a \in Agent, Prepare(d, a) PROVE DeploymentsInv'
    BY <1>1 DEF Prepare, TypeOK, CallPoint, RowFollowsCoroutines,
                RecoveryComplete, ActiveIsWorkedOn, Active, Busy
  <1>2. CASE ReleaseResolved(d)
    <2>1. TypeOK'
      BY <1>2 DEF ReleaseResolved, TypeOK, CallPoint
    <2>2. RowFollowsCoroutines' /\ RecoveryComplete' /\ ActiveIsWorkedOn'
      BY <1>2 DEF ReleaseResolved, TypeOK, RowFollowsCoroutines,
                  RecoveryComplete, ActiveIsWorkedOn, Active, Busy
    <2> QED
      BY <2>1, <2>2
  <1>3. CASE AgentProvisioning(d)
    <2>1. TypeOK'
      BY <1>0, <1>3 DEF AgentProvisioning, SetAgent, TypeOK, CallPoint,
                        AgentRow, AgentStatus
    <2>2. RowFollowsCoroutines' /\ RecoveryComplete' /\ ActiveIsWorkedOn'
      BY <1>3 DEF AgentProvisioning, TypeOK, RowFollowsCoroutines,
                  RecoveryComplete, ActiveIsWorkedOn, Active, Busy
    <2> QED
      BY <2>1, <2>2
  <1>4. CASE TokenStored(d)
    BY <1>0, <1>4 DEF TokenStored, TypeOK, CallPoint, RowFollowsCoroutines,
                      RecoveryComplete, ActiveIsWorkedOn, Active, Busy
  <1>5. CASE RowCreated(d)
    BY <1>5 DEF RowCreated, TypeOK, CallPoint, RowFollowsCoroutines,
                RecoveryComplete, ActiveIsWorkedOn, Active, Busy
  <1>6. CASE LinkRead(d)
    BY <1>0, <1>6 DEF LinkRead, TypeOK, CallPoint, RowFollowsCoroutines,
                      RecoveryComplete, ActiveIsWorkedOn, Active, Busy
  <1>7. CASE LinkWritten(d)
    <2>1. TypeOK'
      BY <1>0, <1>7 DEF LinkWritten, SetAgent, TypeOK, CallPoint, AgentRow
    <2>2. RowFollowsCoroutines' /\ RecoveryComplete' /\ ActiveIsWorkedOn'
      BY <1>7 DEF LinkWritten, TypeOK, RowFollowsCoroutines,
                  RecoveryComplete, ActiveIsWorkedOn, Active, Busy
    <2> QED
      BY <2>1, <2>2
  <1>8. CASE TaskCreated(d)
    BY <1>8 DEF TaskCreated, TypeOK, CallPoint, RowFollowsCoroutines,
                RecoveryComplete, ActiveIsWorkedOn, Active, Busy
  <1>9. CASE Dispatched(d)
    BY <1>9 DEF Dispatched, TypeOK, CallPoint, WorkerPoint,
                RowFollowsCoroutines, RecoveryComplete, ActiveIsWorkedOn,
                Active, Busy
  <1>10. CASE MarkRunning(d)
    BY <1>10 DEF MarkRunning, TypeOK, CallPoint, RowFollowsCoroutines,
                 RecoveryComplete, ActiveIsWorkedOn, Active, Busy
  <1> QED
    BY <1>1, <1>2, <1>3, <1>4, <1>5, <1>6, <1>7, <1>8, <1>9, <1>10 DEF CallStep

\* _run_prepare keeps it.
LEMMA WorkerInv ==
    ASSUME DeploymentsInv, NEW d \in Deployment, WorkerStep(d)
    PROVE  DeploymentsInv'
  <1> USE NoneAssumption DEF DeploymentsInv, At
  <1>0. agentOf[d] \in Agent
    BY DEF WorkerStep, PackageMade, DeploymentReady, TaskCompleted, AgentReady,
           DeploymentFailed, TaskFailed, FailedRead, FailedWritten, TypeOK,
           RowFollowsCoroutines
  <1>1. CASE PackageMade(d)
    BY <1>1 DEF PackageMade, TypeOK, WorkerPoint, RowFollowsCoroutines,
                RecoveryComplete, ActiveIsWorkedOn, Active, Busy
  <1>2. CASE DeploymentReady(d)
    BY <1>2 DEF DeploymentReady, TypeOK, WorkerPoint, RowFollowsCoroutines,
                RecoveryComplete, ActiveIsWorkedOn, Active, Busy
  <1>3. CASE TaskCompleted(d)
    BY <1>3 DEF TaskCompleted, TypeOK, WorkerPoint, RowFollowsCoroutines,
                RecoveryComplete, ActiveIsWorkedOn, Active, Busy
  <1>4. CASE AgentReady(d)
    <2>1. TypeOK'
      BY <1>0, <1>4 DEF AgentReady, SetAgent, TypeOK, WorkerPoint, AgentRow,
                        AgentStatus
    <2>2. RowFollowsCoroutines' /\ RecoveryComplete' /\ ActiveIsWorkedOn'
      BY <1>4 DEF AgentReady, TypeOK, RowFollowsCoroutines,
                  RecoveryComplete, ActiveIsWorkedOn, Active, Busy
    <2> QED
      BY <2>1, <2>2
  <1>5. CASE DeploymentFailed(d)
    BY <1>5 DEF DeploymentFailed, TypeOK, WorkerPoint, RowFollowsCoroutines,
                RecoveryComplete, ActiveIsWorkedOn, Active, Busy
  <1>6. CASE TaskFailed(d)
    BY <1>6 DEF TaskFailed, TypeOK, WorkerPoint, RowFollowsCoroutines,
                RecoveryComplete, ActiveIsWorkedOn, Active, Busy
  <1>7. CASE FailedRead(d)
    BY <1>0, <1>7 DEF FailedRead, TypeOK, WorkerPoint, RowFollowsCoroutines,
                      RecoveryComplete, ActiveIsWorkedOn, Active, Busy
  <1>8. CASE FailedWritten(d)
    <2>1. TypeOK'
      BY <1>0, <1>8 DEF FailedWritten, TypeOK, WorkerPoint, AgentRow,
                        AgentStatus
    <2>2. RowFollowsCoroutines' /\ RecoveryComplete' /\ ActiveIsWorkedOn'
      BY <1>8 DEF FailedWritten, TypeOK, RowFollowsCoroutines,
                  RecoveryComplete, ActiveIsWorkedOn, Active, Busy
    <2> QED
      BY <2>1, <2>2
  <1> QED
    BY <1>1, <1>2, <1>3, <1>4, <1>5, <1>6, <1>7, <1>8 DEF WorkerStep

\* A crash, the restart and each step of the recovery keep it.
LEMMA RecoveryInv ==
    ASSUME DeploymentsInv, Crash \/ RecoveryStep
    PROVE  DeploymentsInv'
  <1> USE NoneAssumption, MaxCrashesAssumption DEF DeploymentsInv, At
  <1>1. CASE Crash
    <2>1. TypeOK'
      BY <1>1 DEF Crash, Lost, TypeOK, CallPoint, WorkerPoint
    <2>2. RowFollowsCoroutines' /\ RecoveryComplete' /\ ActiveIsWorkedOn'
      BY <1>1 DEF Crash, Lost, TypeOK, RowFollowsCoroutines,
                  RecoveryComplete, ActiveIsWorkedOn, Active, Busy
    <2> QED
      BY <2>1, <2>2
  <1>2. CASE Restart
    BY <1>2 DEF Restart, TypeOK, RowFollowsCoroutines, RecoveryComplete,
                ActiveIsWorkedOn, Active, Busy
  <1>3. CASE Serve
    BY <1>3 DEF Serve, TypeOK, RowFollowsCoroutines, RecoveryComplete,
                ActiveIsWorkedOn, Active, Busy
  <1>4. ASSUME NEW d \in Deployment, RecoverDeployment(d) PROVE DeploymentsInv'
    <2>1. TypeOK'
      BY <1>4 DEF RecoverDeployment, TypeOK
    <2>2. dep[d] \in {"queued", "preparing"} /\ ~Busy(d) /\ server = "recovering"
      BY <1>4 DEF RecoverDeployment, RecoveryComplete, Active
    <2>3. RowFollowsCoroutines'
      BY <1>4, <2>2 DEF RecoverDeployment, TypeOK, RowFollowsCoroutines, Busy
    <2>4. RecoveryComplete' /\ ActiveIsWorkedOn'
      BY <1>4, <2>2 DEF RecoverDeployment, TypeOK, RecoveryComplete,
                        ActiveIsWorkedOn, Active, Busy
    <2> QED
      BY <2>1, <2>3, <2>4
  <1>5. ASSUME NEW d \in Deployment, RecoverAgent(d) PROVE DeploymentsInv'
    <2>1. agentOf[d] \in Agent
      BY <1>5 DEF RecoverAgent, RecoveryComplete, RowFollowsCoroutines, TypeOK
    <2>2. TypeOK'
      BY <1>5, <2>1 DEF RecoverAgent, SetAgent, TypeOK, AgentRow, AgentStatus
    <2>3. RowFollowsCoroutines' /\ RecoveryComplete' /\ ActiveIsWorkedOn'
      BY <1>5 DEF RecoverAgent, TypeOK, RowFollowsCoroutines,
                  RecoveryComplete, ActiveIsWorkedOn, Active, Busy
    <2> QED
      BY <2>2, <2>3
  <1> QED
    BY <1>1, <1>2, <1>3, <1>4, <1>5 DEF RecoveryStep

\* The invariant holds in every reachable state.
THEOREM DeploymentsInvariant == Spec => []DeploymentsInv
  <1>1. DeploymentsInv /\ [Next]_vars => DeploymentsInv'
    <2> SUFFICES ASSUME DeploymentsInv, [Next]_vars PROVE DeploymentsInv'
      OBVIOUS
    <2>1. CASE Next
      BY <2>1, CallInv, WorkerInv, RecoveryInv DEF Next
    <2>2. CASE UNCHANGED vars
      BY <2>2 DEF vars, DeploymentsInv, TypeOK, RowFollowsCoroutines, RecoveryComplete,
                  ActiveIsWorkedOn, Active, Busy
    <2> QED
      BY <2>1, <2>2
  <1> QED
    BY <1>1, DeploymentsInit, PTL DEF Spec

\* Every row, coroutine and pending recovery is of its kind at every moment, an
\* agent is known from a request's first await on, and no more crashes happen
\* than are counted (deployment_service.py).
THEOREM DeploymentsTypeCorrect == Spec => []TypeOK
  BY DeploymentsInvariant, PTL DEF DeploymentsInv

\* While requests are served, every deployment recorded as active has a
\* coroutine at work on it: recovery leaves none that would block later requests.
THEOREM ActiveIsWorkedOnCorrect == Spec => []ActiveIsWorkedOn
  BY DeploymentsInvariant, PTL DEF DeploymentsInv

\* No step changes a decided deployment or moves one to another agent.
LEMMA DecidedStays ==
    ASSUME DeploymentsInv, Next, NEW d \in Deployment, dep[d] \in {"ready", "failed"}
    PROVE  dep'[d] = dep[d] /\ agentOf'[d] = agentOf[d]
  <1> USE DEF DeploymentsInv, At, TypeOK, RowFollowsCoroutines
  <1>1. CASE \E e \in Deployment : CallStep(e) \/ \E a \in Agent : Prepare(e, a)
    BY <1>1 DEF CallStep, Prepare, ReleaseResolved, AgentProvisioning,
                TokenStored, RowCreated, LinkRead, LinkWritten, TaskCreated,
                Dispatched, MarkRunning
  <1>2. CASE \E e \in Deployment : WorkerStep(e)
    BY <1>2 DEF WorkerStep, PackageMade, DeploymentReady, TaskCompleted,
                AgentReady, DeploymentFailed, TaskFailed, FailedRead,
                FailedWritten
  <1>3. CASE Crash \/ RecoveryStep
    BY <1>3 DEF Crash, RecoveryStep, Restart, Serve, RecoverDeployment,
                RecoverAgent, RecoveryComplete, Active
  <1> QED
    BY <1>1, <1>2, <1>3 DEF Next

\* No step of any request, worker or recovery changes a decided deployment.
THEOREM OutcomeIsFinalCorrect == Spec => OutcomeIsFinal
  <1>1. DeploymentsInv /\ [Next]_vars =>
           [\A d \in Deployment : dep[d] \in {"ready", "failed"} => dep'[d] = dep[d]]_vars
    BY DecidedStays
  <1> QED
    BY <1>1, DeploymentsInvariant, PTL DEF Spec, OutcomeIsFinal

-----------------------------------------------------------------------------
(* The agents' statuses.  What upsert_agent read must be as honest as what *)
(* it overwrites, and only a deployment past its first write to the agent  *)
(* accounts for "provisioning".                                            *)

Reports(a, st) ==
    /\ st = "ready_for_install" =>
          \E d \in Deployment : agentOf[d] = a /\ dep[d] = "ready"
    /\ st = "deploy_failed" =>
          \E d \in Deployment : agentOf[d] = a /\ dep[d] = "failed"

Provisioned(d) ==
    \/ call[d] \in {"token", "row", "link", "linkWrite", "task", "dispatch", "markRun"}
    \/ worker[d] \notin {"none", "over"}

RowsReport == \A a \in Agent : Reports(a, agentRow[a].status)

ReadsReport ==
    \A d \in Deployment :
        call[d] = "linkWrite" => Reports(agentOf[d], seen[d].status)

ProvisioningInProgress ==
    \A a \in Agent :
        agentRow[a].status = "provisioning" /\ crashes = 0 =>
            \E d \in Deployment : agentOf[d] = a /\ Provisioned(d)

StatusInv == RowsReport /\ ReadsReport /\ ProvisioningInProgress

\* An outcome that has been reported stays reported.
LEMMA ReportsStays ==
    ASSUME DeploymentsInv, Next, NEW a, NEW st, Reports(a, st)
    PROVE  Reports(a, st)'
  BY DecidedStays DEF Reports

\* Steps of prepare_deployment keep the statuses honest.
LEMMA CallStatus ==
    ASSUME DeploymentsInv, StatusInv, Next, NEW d \in Deployment,
           CallStep(d) \/ \E a \in Agent : Prepare(d, a)
    PROVE  StatusInv'
  <1> USE DEF DeploymentsInv, StatusInv, At
  <1>0. \A a, st : Reports(a, st) => Reports(a, st)'
    BY ReportsStays
  <1>1. ASSUME NEW a \in Agent, Prepare(d, a) PROVE StatusInv'
    BY <1>0, <1>1 DEF Prepare, TypeOK, RowFollowsCoroutines, RowsReport,
                      ReadsReport, ProvisioningInProgress, Provisioned
  <1>2. CASE ReleaseResolved(d)
    BY <1>0, <1>2 DEF ReleaseResolved, TypeOK, RowFollowsCoroutines, RowsReport,
                      ReadsReport, ProvisioningInProgress, Provisioned
  <1>3. CASE AgentProvisioning(d)
    <2>1. RowsReport' /\ ReadsReport'
      BY <1>0, <1>3 DEF AgentProvisioning, SetAgent, TypeOK, RowsReport,
                        ReadsReport, Reports
    <2>2. ProvisioningInProgress'
      BY <1>3 DEF AgentProvisioning, SetAgent, TypeOK, RowFollowsCoroutines,
                  ProvisioningInProgress, Provisioned
    <2> QED
      BY <2>1, <2>2
  <1>4. CASE TokenStored(d) \/ RowCreated(d) \/ TaskCreated(d)
    BY <1>0, <1>4 DEF TokenStored, RowCreated, TaskCreated, TypeOK, RowsReport,
                      ReadsReport, ProvisioningInProgress, Provisioned
  <1>5. CASE LinkRead(d)
    BY <1>0, <1>5 DEF LinkRead, TypeOK, RowsReport, ReadsReport,
                      ProvisioningInProgress, Provisioned
  <1>6. CASE LinkWritten(d)
    <2>1. RowsReport' /\ ReadsReport'
      BY <1>0, <1>6 DEF LinkWritten, SetAgent, TypeOK, RowsReport, ReadsReport
    <2>2. ProvisioningInProgress'
      BY <1>6 DEF LinkWritten, SetAgent, TypeOK, ProvisioningInProgress,
                  Provisioned
    <2> QED
      BY <2>1, <2>2
  <1>7. CASE Dispatched(d)
    BY <1>0, <1>7 DEF Dispatched, TypeOK, RowsReport, ReadsReport,
                      ProvisioningInProgress, Provisioned
  <1>8. CASE MarkRunning(d)
    BY <1>0, <1>8 DEF MarkRunning, TypeOK, RowFollowsCoroutines, RowsReport,
                      ReadsReport, ProvisioningInProgress, Provisioned
  <1> QED
    BY <1>1, <1>2, <1>3, <1>4, <1>5, <1>6, <1>7, <1>8 DEF CallStep

\* Steps of _run_prepare do.
LEMMA WorkerStatus ==
    ASSUME DeploymentsInv, StatusInv, Next, NEW d \in Deployment, WorkerStep(d)
    PROVE  StatusInv'
  <1> USE DEF DeploymentsInv, StatusInv, At
  <1>0. \A a, st : Reports(a, st) => Reports(a, st)'
    BY ReportsStays
  <1>1. CASE PackageMade(d) \/ DeploymentReady(d) \/ TaskCompleted(d)
             \/ DeploymentFailed(d) \/ TaskFailed(d)
    BY <1>0, <1>1 DEF PackageMade, DeploymentReady, TaskCompleted,
                      DeploymentFailed, TaskFailed, TypeOK, RowsReport,
                      ReadsReport, ProvisioningInProgress, Provisioned
  <1>2. CASE AgentReady(d)
    <2>1. RowsReport' /\ ReadsReport'
      BY <1>0, <1>2 DEF AgentReady, SetAgent, TypeOK, RowFollowsCoroutines,
                        RowsReport, ReadsReport, Reports
    <2>2. ProvisioningInProgress'
      BY <1>2 DEF AgentReady, SetAgent, TypeOK, RowFollowsCoroutines,
                  ProvisioningInProgress, Provisioned
    <2> QED
      BY <2>1, <2>2
  <1>3. CASE FailedRead(d)
    BY <1>0, <1>3 DEF FailedRead, TypeOK, RowFollowsCoroutines, RowsReport,
                      ReadsReport, ProvisioningInProgress, Provisioned
  <1>4. CASE FailedWritten(d)
    <2>1. RowsReport' /\ ReadsReport'
      BY <1>0, <1>4 DEF FailedWritten, TypeOK, RowFollowsCoroutines,
                        RowsReport, ReadsReport, Reports
    <2>2. ProvisioningInProgress'
      BY <1>4 DEF FailedWritten, TypeOK, RowFollowsCoroutines,
                  ProvisioningInProgress, Provisioned
    <2> QED
      BY <2>1, <2>2
  <1> QED
    BY <1>1, <1>2, <1>3, <1>4 DEF WorkerStep

\* A crash and the recovery do.
LEMMA RecoveryStatus ==
    ASSUME DeploymentsInv, StatusInv, Next, Crash \/ RecoveryStep
    PROVE  StatusInv'
  <1> USE DEF DeploymentsInv, StatusInv, At
  <1>0. \A a, st : Reports(a, st) => Reports(a, st)'
    BY ReportsStays
  <1>1. CASE Crash
    BY <1>0, <1>1, MaxCrashesAssumption
       DEF Crash, Lost, TypeOK, RowsReport, ReadsReport, ProvisioningInProgress
  <1>2. CASE Restart \/ Serve \/ \E d \in Deployment : RecoverDeployment(d)
    BY <1>0, <1>2 DEF Restart, Serve, RecoverDeployment, TypeOK, RowsReport,
                      ReadsReport, ProvisioningInProgress, Provisioned
  <1>3. ASSUME NEW d \in Deployment, RecoverAgent(d) PROVE StatusInv'
    <2>1. dep[d] = "failed"
      BY <1>3, NoneAssumption DEF RecoverAgent, RecoveryComplete
    <2>2. RowsReport' /\ ReadsReport'
      BY <1>0, <1>3, <2>1 DEF RecoverAgent, SetAgent, TypeOK, RowsReport,
                              ReadsReport, Reports
    <2>3. ProvisioningInProgress'
      BY <1>3 DEF RecoverAgent, SetAgent, TypeOK, ProvisioningInProgress,
                  Provisioned
    <2> QED
      BY <2>2, <2>3
  <1> QED
    BY <1>1, <1>2, <1>3 DEF RecoveryStep

\* Overlapping requests, stale write-backs and recovery never make an agent's
\* status report an outcome none of its deployments had, nor, before the first
\* crash, a preparation that is over.
THEOREM AgentStatusIsHonestCorrect == Spec => []AgentStatusIsHonest
  <1>1. Init => StatusInv
    BY DEF Init, StatusInv, RowsReport, Reports, ReadsReport,
           ProvisioningInProgress
  <1>2. DeploymentsInv /\ StatusInv /\ [Next]_vars => StatusInv'
    <2> SUFFICES ASSUME DeploymentsInv, StatusInv, [Next]_vars PROVE StatusInv'
      OBVIOUS
    <2>1. CASE Next
      BY <2>1, CallStatus, WorkerStatus, RecoveryStatus DEF Next
    <2>2. CASE UNCHANGED vars
      BY <2>2 DEF vars, StatusInv, RowsReport, Reports, ReadsReport,
                  ProvisioningInProgress, Provisioned
    <2> QED
      BY <2>1, <2>2
  <1>3. StatusInv => AgentStatusIsHonest
    BY DEF StatusInv, RowsReport, Reports, ProvisioningInProgress, Provisioned,
           AgentStatusIsHonest, Busy
  <1> QED
    BY <1>1, <1>2, <1>3, DeploymentsInvariant, PTL DEF Spec

-----------------------------------------------------------------------------
(* The frontends, for any number of them and of agents.  WatchedIsTracked  *)
(* is not inductive: what holds at every moment is that the last message   *)
(* under way to a watched agent turns its tracking on (LastSaysTrack).     *)

\* The tables of watching, the sessions and the messages have their types.
WatchTypes ==
    /\ session \in [Frontend -> {"closed", "greeted", "open", "gone", "leaving"}]
    /\ watched \in [Frontend -> SUBSET VM]
    /\ watchers \in [VM -> SUBSET Frontend]
    /\ link \in [VM -> {"down", "registered", "online"}]
    /\ live \in [VM -> BOOLEAN]
    /\ wire \in [VM -> Seq(BOOLEAN)]
    /\ tracking \in [VM -> BOOLEAN]

\* Of an agent that has them all the messages say that it is to track.
Says(w, t) == IF w = <<>> THEN t = TRUE ELSE w[Len(w)] = TRUE

LastSaysTrack ==
    \A a \in VM :
        link[a] = "online" /\ live[a] = TRUE /\ watchers[a] # {} => Says(wire[a], tracking[a])

FrontendsInv == WatchTypes /\ Frontends!WatchersAreSessions /\ LastSaysTrack

-----------------------------------------------------------------------------
\* A message that is appended is the last one.
LEMMA AppendLast ==
    ASSUME NEW w \in Seq(BOOLEAN), NEW b \in BOOLEAN
    PROVE  /\ Append(w, b) \in Seq(BOOLEAN)
           /\ Append(w, b) # <<>>
           /\ Append(w, b)[Len(Append(w, b))] = b
  OBVIOUS

\* The last element of a sequence is the last of its tail, or its only one.
LEMMA LastOfTail ==
    ASSUME NEW S, NEW w \in Seq(S), w # <<>>
    PROVE  IF Tail(w) = <<>> THEN Head(w) = w[Len(w)]
                             ELSE Tail(w)[Len(Tail(w))] = w[Len(w)]
  <1>1. /\ Len(w) \in Nat \ {0} /\ Head(w) = w[1]
        /\ Tail(w) \in Seq(S) /\ Len(Tail(w)) = Len(w) - 1
        /\ \A i \in 1..Len(Tail(w)) : Tail(w)[i] = w[i + 1]
    BY HeadTailProperties, EmptySeq
  <1>2. CASE Tail(w) = <<>>
    <2>1. Len(Tail(w)) = 0
      BY <1>2, EmptySeq
    <2>2. Len(w) \in Nat /\ Len(w) - 1 = 0
      BY <1>1, <2>1
    <2>3. Len(w) = 1
      BY <2>2
    <2> QED
      BY <1>1, <1>2, <2>3
  <1>3. CASE Tail(w) # <<>>
    <2>1. Len(Tail(w)) \in 1..Len(Tail(w)) /\ Len(Tail(w)) + 1 = Len(w)
      BY <1>1, <1>3, EmptySeq
    <2> QED
      BY <1>1, <1>3, <2>1
  <1> QED
    BY <1>2, <1>3

\* Receiving the first message keeps what the last one says.
LEMMA TailLast ==
    ASSUME NEW w \in Seq(BOOLEAN), NEW t \in BOOLEAN, w # <<>>, Says(w, t)
    PROVE  Says(Tail(w), Head(w))
  BY LastOfTail DEF Says

\* Nobody watches at the start.
LEMMA FrontendsInit == Frontends!Init => FrontendsInv
  BY DEF Frontends!Init, FrontendsInv, WatchTypes, Frontends!WatchersAreSessions, LastSaysTrack

\* What an attempt to tell an agent does to its link and its messages: on a live
\* connection it is the last message, otherwise it changes nothing the agent has.
LEMMA TellEffect ==
    ASSUME FrontendsInv, NEW a \in VM, NEW b \in BOOLEAN, Frontends!Tell(a, b)
    PROVE  /\ link' \in [VM -> {"down", "registered", "online"}]
           /\ wire' \in [VM -> Seq(BOOLEAN)]
           /\ \A x \in VM : x # a => link'[x] = link[x] /\ wire'[x] = wire[x]
           /\ link'[a] = "online" => link[a] = "online"
           /\ link'[a] = "online" /\ live[a] = TRUE =>
                 wire'[a] # <<>> /\ wire'[a][Len(wire'[a])] = b
  <1> USE DEF FrontendsInv, WatchTypes
  <1>1. CASE link[a] = "down" /\ UNCHANGED <<wire, link>>
    BY <1>1
  <1>2. CASE /\ link[a] # "down" /\ live[a]
             /\ wire' = [wire EXCEPT ![a] = Append(@, b)] /\ UNCHANGED link
    BY <1>2, AppendLast
  <1>3. CASE link[a] # "down" /\ ~live[a] /\ UNCHANGED <<wire, link>>
    BY <1>3
  <1>4. CASE link[a] # "down" /\ ~live[a] /\ link' = [link EXCEPT ![a] = "down"] /\ UNCHANGED wire
    BY <1>4
  <1> QED
    BY <1>1, <1>2, <1>3, <1>4 DEF Frontends!Tell

-----------------------------------------------------------------------------
\* Frontends that come and go do not touch what they watch; one that joins was
\* watching nothing.
LEMMA ComeAndGo ==
    ASSUME FrontendsInv, NEW f \in Frontend,
           \/ Frontends!Greet(f) \/ Frontends!Join(f) \/ Frontends!Disconnect(f)
           \/ Frontends!Notice(f) \/ Frontends!Leave(f)
    PROVE  FrontendsInv'
  <1> USE DEF FrontendsInv, WatchTypes, Frontends!WatchersAreSessions, LastSaysTrack,
             Frontends!agents, Frontends!snapshots
  <1>1. CASE Frontends!Greet(f)
    BY <1>1 DEF Frontends!Greet
  <1>2. CASE Frontends!Join(f)
    BY <1>2, SMTT(30) DEF Frontends!Join
  <1>3. CASE Frontends!Disconnect(f)
    BY <1>3 DEF Frontends!Disconnect
  <1>4. CASE Frontends!Notice(f)
    BY <1>4 DEF Frontends!Notice
  <1>5. CASE Frontends!Leave(f)
    BY <1>5 DEF Frontends!Leave
  <1> QED
    BY <1>1, <1>2, <1>3, <1>4, <1>5

\* The first watcher tells the agent to track; a later one relies on the first.
LEMMA WatchKeeps ==
    ASSUME FrontendsInv, NEW f \in Frontend, NEW a \in VM, Frontends!Watch(f, a)
    PROVE  FrontendsInv'
  <1> USE DEF FrontendsInv, WatchTypes
  <1>1. /\ session[f] = "open"
        /\ watched' = [watched EXCEPT ![f] = @ \cup {a}]
        /\ watchers' = [watchers EXCEPT ![a] = @ \cup {f}]
        /\ UNCHANGED <<session, live, tracking>>
    BY DEF Frontends!Watch
  <1>2. Frontends!WatchersAreSessions'
    BY <1>1 DEF Frontends!WatchersAreSessions
  <1>3. CASE watchers[a] = {} /\ Frontends!Tell(a, TRUE)
    <2>1. LastSaysTrack'
      BY <1>1, <1>3, TellEffect, ZenonT(60) DEF LastSaysTrack, Says
    <2> QED
      BY <1>1, <1>2, <1>3, <2>1, TellEffect
  <1>4. CASE watchers[a] # {} /\ Frontends!Untold
    BY <1>1, <1>2, <1>4 DEF LastSaysTrack, Frontends!Untold
  <1> QED
    BY <1>3, <1>4 DEF Frontends!Watch

\* The last watcher tells the agent to stop, and then nobody watches it.
LEMMA RemoveKeeps ==
    ASSUME FrontendsInv, NEW f \in Frontend, NEW a \in VM, Frontends!RemoveWatcher(f, a),
           UNCHANGED <<session, live, tracking>>
    PROVE  FrontendsInv'
  <1> USE DEF FrontendsInv, WatchTypes
  <1>1. /\ watched' = [watched EXCEPT ![f] = @ \ {a}]
        /\ watchers' = [watchers EXCEPT ![a] = @ \ {f}]
    BY DEF Frontends!RemoveWatcher
  <1>2. Frontends!WatchersAreSessions'
    BY <1>1 DEF Frontends!WatchersAreSessions
  <1>3. CASE watchers[a] = {f} /\ Frontends!Tell(a, FALSE)
    <2>1. watchers'[a] = {}
      BY <1>1, <1>3
    <2>2. LastSaysTrack'
      BY <1>1, <1>3, <2>1, TellEffect DEF LastSaysTrack
    <2> QED
      BY <1>1, <1>2, <1>3, <2>2, TellEffect
  <1>4. CASE watchers[a] # {f} /\ Frontends!Untold
    BY <1>1, <1>2, <1>4 DEF LastSaysTrack, Frontends!Untold
  <1> QED
    BY <1>3, <1>4 DEF Frontends!RemoveWatcher

\* Connections made, greeted, lost and given up; messages received.
LEMMA AgentKeeps ==
    ASSUME FrontendsInv, NEW a \in VM,
           \/ Frontends!Register(a) \/ Frontends!Online(a) \/ Frontends!Track(a)
           \/ Frontends!Drop(a) \/ Frontends!CleanUp(a)
    PROVE  FrontendsInv'
  <1> USE DEF FrontendsInv, WatchTypes, Frontends!WatchersAreSessions, Frontends!frontends,
  Frontends!snapshots
  <1>1. CASE Frontends!Register(a)
    BY <1>1 DEF Frontends!Register, LastSaysTrack
  <1>2. CASE Frontends!Online(a)
    <2>1. watchers[a] # {} => wire'[a] = Append(wire[a], TRUE)
      BY <1>2 DEF Frontends!Online
    <2>2. Append(wire[a], TRUE) \in Seq(BOOLEAN) /\ Says(Append(wire[a], TRUE), tracking[a])
      BY AppendLast DEF Says
    <2> QED
      BY <1>2, <2>1, <2>2 DEF Frontends!Online, LastSaysTrack
  <1>3. CASE Frontends!Track(a)
    <2>1. Tail(wire[a]) \in Seq(BOOLEAN) /\ Head(wire[a]) \in BOOLEAN
      BY <1>3, HeadTailProperties DEF Frontends!Track
    <2>2. Says(wire[a], tracking[a]) => Says(Tail(wire[a]), Head(wire[a]))
      BY <1>3, TailLast DEF Frontends!Track
    <2> QED
      BY <1>3, <2>1, <2>2 DEF Frontends!Track, LastSaysTrack
  <1>4. CASE Frontends!Drop(a)
    <2>1. /\ live' \in [VM -> BOOLEAN] /\ live'[a] = FALSE
          /\ \A x \in VM : x # a => live'[x] = live[x]
      BY <1>4 DEF Frontends!Drop
    <2>2. /\ wire' \in [VM -> Seq(BOOLEAN)]
          /\ \A x \in VM : x # a => wire'[x] = wire[x]
      BY <1>4, EmptySeq DEF Frontends!Drop
    <2>3. /\ tracking' \in [VM -> BOOLEAN]
          /\ \A x \in VM : x # a => tracking'[x] = tracking[x]
      BY <1>4 DEF Frontends!Drop
    <2> QED
      BY <1>4, <2>1, <2>2, <2>3 DEF Frontends!Drop, LastSaysTrack
  <1>5. CASE Frontends!CleanUp(a)
    BY <1>5 DEF Frontends!CleanUp, LastSaysTrack
  <1> QED
    BY <1>1, <1>2, <1>3, <1>4, <1>5

\* Every step preserves the invariant.
LEMMA FrontendsStep == ASSUME FrontendsInv, [Frontends!Next]_Frontends!vars PROVE FrontendsInv'
  <1>1. ASSUME NEW f \in Frontend, NEW a \in VM, Frontends!Unwatch(f,
  a) \/ Frontends!LeaveAgent(f, a)
        PROVE  FrontendsInv'
    BY <1>1, RemoveKeeps DEF Frontends!Unwatch, Frontends!LeaveAgent
  <1>2. CASE \/ Frontends!Change \/ Frontends!BeginBroadcast
             \/ \E f \in Frontend : Frontends!SendSnapshot(f)
             \/ UNCHANGED Frontends!vars
    <2>1. UNCHANGED <<session, watched, watchers, link, live, wire, tracking>>
      BY <1>2
         DEF Frontends!Change, Frontends!BeginBroadcast, Frontends!SendSnapshot, Frontends!vars,
             Frontends!frontends, Frontends!snapshots, Frontends!agents
    <2> QED
      BY <2>1 DEF FrontendsInv, WatchTypes, Frontends!WatchersAreSessions, LastSaysTrack
  <1> QED
    BY <1>1, <1>2, ComeAndGo, WatchKeeps, AgentKeeps DEF Frontends!Next

\* The inductive invariant.
THEOREM FrontendsInvariant == Frontends!Spec => []FrontendsInv
  BY FrontendsInit, FrontendsStep, PTL DEF Frontends!Spec

\* Telling an agent keeps the wire within its bound.
LEMMA TellType ==
    ASSUME Frontends!TypeOK, NEW a \in VM, NEW b \in BOOLEAN, Frontends!Tell(a, b)
    PROVE  /\ link' \in [VM -> {"down", "registered", "online"}]
           /\ wire' \in [VM -> Seq(BOOLEAN)] /\ \A x \in VM : Len(wire'[x]) <= MaxWire
  <1> USE DEF Frontends!TypeOK
  <1>1. ASSUME Len(wire[a]) < MaxWire, wire' = [wire EXCEPT ![a] = Append(@, b)]
        PROVE  wire' \in [VM -> Seq(BOOLEAN)] /\ \A x \in VM : Len(wire'[x]) <= MaxWire
    <2>1. Append(wire[a], b) \in Seq(BOOLEAN) /\ Len(Append(wire[a], b)) = Len(wire[a]) + 1
      OBVIOUS
    <2> QED
      BY <1>1, <2>1, FrontendAssumption
  <1> QED
    BY <1>1 DEF Frontends!Tell

\* What frontends do, and what they are sent.
LEMMA FrontendTypes ==
    ASSUME Frontends!TypeOK, NEW f \in Frontend,
           \/ Frontends!Greet(f) \/ Frontends!Join(f) \/ Frontends!Disconnect(f)
           \/ Frontends!Notice(f) \/ Frontends!Leave(f) \/ Frontends!SendSnapshot(f)
    PROVE  Frontends!TypeOK'
  <1> USE FrontendAssumption DEF Frontends!TypeOK, Frontends!agents, Frontends!snapshots
  <1>1. CASE Frontends!Greet(f)
    BY <1>1 DEF Frontends!Greet
  <1>2. CASE Frontends!Join(f)
    BY <1>2, ZenonT(60) DEF Frontends!Join
  <1>3. CASE Frontends!Disconnect(f)
    BY <1>3 DEF Frontends!Disconnect
  <1>4. CASE Frontends!Notice(f)
    BY <1>4 DEF Frontends!Notice
  <1>5. CASE Frontends!Leave(f)
    BY <1>5 DEF Frontends!Leave
  <1>6. CASE Frontends!SendSnapshot(f)
    BY <1>6 DEF Frontends!SendSnapshot
  <1> QED
    BY <1>1, <1>2, <1>3, <1>4, <1>5, <1>6

\* What they watch.
LEMMA WatchingTypes ==
    ASSUME Frontends!TypeOK, NEW f \in Frontend, NEW a \in VM,
           Frontends!Watch(f, a) \/ Frontends!Unwatch(f, a) \/ Frontends!LeaveAgent(f, a)
    PROVE  Frontends!TypeOK'
  <1>1. /\ watched' \in [Frontend -> SUBSET VM] /\ watchers' \in [VM -> SUBSET Frontend]
        /\ UNCHANGED <<session, clients, Frontends!snapshots, live, tracking, drops>>
    <2>1. CASE Frontends!Watch(f, a)
      BY <2>1 DEF Frontends!TypeOK, Frontends!Watch
    <2>2. ASSUME Frontends!RemoveWatcher(f, a)
          PROVE  watched' \in [Frontend -> SUBSET VM] /\ watchers' \in [VM -> SUBSET Frontend]
      BY <2>2 DEF Frontends!TypeOK, Frontends!RemoveWatcher
    <2> QED
      BY <2>1, <2>2 DEF Frontends!Unwatch, Frontends!LeaveAgent
  <1>2. \/ \E b \in BOOLEAN : Frontends!Tell(a, b)
        \/ UNCHANGED <<wire, link>>
    BY DEF Frontends!Watch, Frontends!Unwatch, Frontends!LeaveAgent, Frontends!RemoveWatcher,
           Frontends!Untold
  <1>3. /\ link' \in [VM -> {"down", "registered", "online"}]
        /\ wire' \in [VM -> Seq(BOOLEAN)] /\ \A x \in VM : Len(wire'[x]) <= MaxWire
    BY <1>2, TellType DEF Frontends!TypeOK
  <1> QED
    BY <1>1, <1>3 DEF Frontends!TypeOK, Frontends!snapshots

\* What becomes of the agents' connections.
LEMMA ConnectionTypes ==
    ASSUME Frontends!TypeOK, NEW a \in VM,
           \/ Frontends!Register(a) \/ Frontends!Online(a) \/ Frontends!Track(a)
           \/ Frontends!Drop(a) \/ Frontends!CleanUp(a)
    PROVE  Frontends!TypeOK'
  <1> USE FrontendAssumption DEF Frontends!TypeOK, Frontends!frontends, Frontends!snapshots
  <1>0. <<>> \in Seq(BOOLEAN) /\ Len(<<>>) = 0
    BY EmptySeq
  <1>1. CASE Frontends!Register(a)
    BY <1>0, <1>1 DEF Frontends!Register
  <1>2. CASE Frontends!Online(a)
    <2>1. /\ Append(wire[a], TRUE) \in Seq(BOOLEAN)
          /\ Len(Append(wire[a], TRUE)) = Len(wire[a]) + 1
      OBVIOUS
    <2>2. CASE watchers[a] # {}
      <3>1. wire' = [wire EXCEPT ![a] = Append(wire[a], TRUE)] /\ Len(wire[a]) < MaxWire
        BY <1>2, <2>2 DEF Frontends!Online
      <3>2. wire' \in [VM -> Seq(BOOLEAN)] /\ \A x \in VM : Len(wire'[x]) <= MaxWire
        BY <2>1, <3>1
      <3> QED
        BY <1>2, <3>2 DEF Frontends!Online
    <2>3. CASE watchers[a] = {}
      BY <1>2, <2>3 DEF Frontends!Online
    <2> QED
      BY <2>2, <2>3
  <1>3. CASE Frontends!Track(a)
    <2>1. /\ Tail(wire[a]) \in Seq(BOOLEAN) /\ Head(wire[a]) \in BOOLEAN
          /\ Len(Tail(wire[a])) = Len(wire[a]) - 1 /\ Len(wire[a]) \in Nat
      BY <1>3, HeadTailProperties DEF Frontends!Track
    <2>2. wire' \in [VM -> Seq(BOOLEAN)] /\ \A x \in VM : Len(wire'[x]) <= MaxWire
      BY <1>3, <2>1 DEF Frontends!Track
    <2> QED
      BY <1>3, <2>1, <2>2 DEF Frontends!Track
  <1>4. CASE Frontends!Drop(a)
    <2>1. drops' \in 0..MaxLost /\ live' \in [VM -> BOOLEAN]
      BY <1>4 DEF Frontends!Drop
    <2>2. wire' \in [VM -> Seq(BOOLEAN)] /\ \A x \in VM : Len(wire'[x]) <= MaxWire
      BY <1>0, <1>4 DEF Frontends!Drop
    <2>3. tracking' \in [VM -> BOOLEAN]
      BY <1>4 DEF Frontends!Drop
    <2> QED
      BY <1>4, <2>1, <2>2, <2>3 DEF Frontends!Drop
  <1>5. CASE Frontends!CleanUp(a)
    BY <1>5 DEF Frontends!CleanUp
  <1> QED
    BY <1>1, <1>2, <1>3, <1>4, <1>5

\* Sessions, snapshots and messages have their types, and no more messages are
\* under way to an agent than the bound allows (frontend_session.py, server.py).
THEOREM FrontendsTypeCorrect == Frontends!Spec => []Frontends!TypeOK
  <1>1. Frontends!Init => Frontends!TypeOK
    <2> SUFFICES ASSUME Frontends!Init PROVE Frontends!TypeOK
      OBVIOUS
    <2>1. signalled \in BOOLEAN
      BY Zenon DEF Frontends!Init
    <2> QED
      BY <2>1, FrontendAssumption, EmptySeq DEF Frontends!Init, Frontends!TypeOK
  <1>2. ASSUME Frontends!TypeOK, [Frontends!Next]_Frontends!vars PROVE Frontends!TypeOK'
    <2>1. CASE Frontends!Change
      <3>1. signalled' \in BOOLEAN
        BY <2>1, Zenon DEF Frontends!Change
      <3> QED
        BY <1>2, <2>1, <3>1, FrontendAssumption
           DEF Frontends!TypeOK, Frontends!Change, Frontends!frontends, Frontends!agents
    <2>2. CASE Frontends!BeginBroadcast
      <3>1. signalled' \in BOOLEAN
        BY <2>2, Zenon DEF Frontends!BeginBroadcast
      <3> QED
        BY <1>2, <2>2, <3>1
           DEF Frontends!TypeOK, Frontends!BeginBroadcast, Frontends!frontends, Frontends!agents
    <2>3. CASE UNCHANGED Frontends!vars
      BY <1>2, <2>3 DEF Frontends!TypeOK, Frontends!vars, Frontends!frontends,
                        Frontends!snapshots, Frontends!agents
    <2> QED
      BY <1>2, <2>1, <2>2, <2>3, FrontendTypes, WatchingTypes, ConnectionTypes
         DEF Frontends!Next
  <1> QED
    BY <1>1, <1>2, PTL DEF Frontends!Spec

\* frontend_watched_agents and process_manager_watchers agree, and name sessions
\* that will still take out what they have put in (runtime_watchers.py,
\* frontend_session.py).
THEOREM WatchersAreSessionsCorrect == Frontends!Spec => []Frontends!WatchersAreSessions
  <1>1. FrontendsInv => Frontends!WatchersAreSessions
    BY DEF FrontendsInv
  <1> QED
    BY <1>1, FrontendsInvariant, PTL

\* An online agent that somebody watches and that has received its messages
\* tracks its windows, through every order of watching, leaving and reconnecting
\* (add_watcher, remove_watcher, the handshake's set_window_tracking).
THEOREM FrontendsWatchedIsTracked == Frontends!Spec => []Frontends!WatchedIsTracked
  <1>1. FrontendsInv => Frontends!WatchedIsTracked
    <2> SUFFICES ASSUME FrontendsInv, NEW a \in VM, link[a] = "online", live[a], wire[a] = <<>>,
                        watchers[a] # {}
                 PROVE  tracking[a]
      BY DEF Frontends!WatchedIsTracked
    <2>1. live[a] = TRUE
      BY DEF FrontendsInv, WatchTypes
    <2>2. Says(wire[a], tracking[a])
      BY <2>1 DEF FrontendsInv, LastSaysTrack
    <2>3. tracking[a] = TRUE
      BY <2>2 DEF Says
    <2> QED
      BY <2>3
  <1> QED
    BY <1>1, FrontendsInvariant, PTL

-----------------------------------------------------------------------------
(* The Windows service.  How often the component was started and stopped   *)
(* follows from where the agent's thread is (ThreadFits).                  *)

\* Before LifecycleManager.start.
NotStarted == starts = 0 /\ stops = 0 /\ running = FALSE /\ ticking = FALSE

\* Between its start and its stop.
Started1 == starts = 1 /\ stops = 0

\* After its stop, or if it was never started.
Settled == starts = stops /\ running = FALSE /\ ticking = FALSE

\* What the agent's thread has done to the life cycle where it is.
ThreadFits ==
    /\ thread \in {"none", "begun", "validate", "connect"} => NotStarted
    /\ thread \in {"start", "loop"} => Started1 /\ running = TRUE
    /\ thread = "stop" => NotStarted \/ (Started1 /\ running = TRUE)
    /\ thread = "await" => Started1 /\ running = FALSE
    /\ thread = "components" => Started1 /\ running = FALSE /\ ticking = FALSE
    /\ thread \in {"again", "over"} => Settled
    /\ thread = "killed" => stops <= starts /\ (stops = 1 => ticking = FALSE)

\* The thread is started once.
MainFits == main \in {"off", "making", "made", "failed"} => thread = "none"

WindowsInv == Windows!TypeOK /\ ThreadFits /\ MainFits

-----------------------------------------------------------------------------
\* The invariant holds when the service has not been started.
LEMMA WindowsInit == Windows!Init => WindowsInv
  <1> SUFFICES ASSUME Windows!Init PROVE WindowsInv
    OBVIOUS
  <1> USE DEF Windows!Init
  <1>1. Windows!TypeOK
    <2>1. starts \in 0..1 /\ stops \in 0..1
      OBVIOUS
    <2> QED
      BY <2>1, Zenon DEF Windows!TypeOK
  <1>2. ThreadFits
    BY DEF ThreadFits, NotStarted
  <1>3. MainFits
    BY DEF MainFits
  <1> QED
    BY <1>1, <1>2, <1>3 DEF WindowsInv

\* Steps of the main and of the control thread leave the life cycle alone; the
\* first of them starts the agent's thread, the last ends it where it is.
LEMMA OtherThreads ==
    ASSUME WindowsInv,
           \/ Windows!SvcDoRun \/ Windows!MakeAgent \/ Windows!StartThread
           \/ Windows!WaitOver \/ Windows!SvcStop \/ Windows!ControlStep
    PROVE  WindowsInv'
  <1> USE DEF WindowsInv, Windows!TypeOK, ThreadFits, MainFits, NotStarted, Started1, Settled,
  Windows!lifecycle
  <1>1. CASE Windows!SvcDoRun
    BY <1>1 DEF Windows!SvcDoRun
  <1>2. CASE Windows!MakeAgent
    BY <1>2 DEF Windows!MakeAgent
  <1>3. CASE Windows!StartThread
    BY <1>3 DEF Windows!StartThread
  <1>4. CASE Windows!WaitOver
    <2>1. stops <= starts /\ (stops = 1 => ticking = FALSE)
      OBVIOUS
    <2>2. thread' \in {"over", "killed"} /\ (thread' = "over" => thread = "over")
      BY <1>4 DEF Windows!WaitOver
    <2> QED
      BY <1>4, <2>1, <2>2 DEF Windows!WaitOver
  <1>5. CASE Windows!SvcStop
    BY <1>5 DEF Windows!SvcStop
  <1>6. CASE Windows!StopAgent
    BY <1>6 DEF Windows!StopAgent
  <1>7. CASE Windows!Join
    BY <1>7 DEF Windows!Join
  <1>8. CASE Windows!SetEvent
    BY <1>8 DEF Windows!SetEvent
  <1> QED
    BY <1>1, <1>2, <1>3, <1>4, <1>5, <1>6, <1>7, <1>8 DEF Windows!ControlStep

\* Steps of the agent's thread, up to the end of its loop.
LEMMA ThreadRuns ==
    ASSUME WindowsInv,
           \/ Windows!Run \/ Windows!Validate \/ Windows!StartLifecycle
           \/ Windows!Started \/ Windows!EndLoop \/ Windows!Refused
    PROVE  WindowsInv'
  <1> USE DEF WindowsInv, Windows!TypeOK, ThreadFits, MainFits, NotStarted, Started1, Settled,
  Windows!lifecycle
  <1>1. CASE Windows!Run
    BY <1>1 DEF Windows!Run
  <1>2. CASE Windows!Validate
    BY <1>2 DEF Windows!Validate
  <1>3. CASE Windows!StartLifecycle
    BY <1>3 DEF Windows!StartLifecycle
  <1>4. CASE Windows!Started
    BY <1>4 DEF Windows!Started
  <1>5. CASE Windows!EndLoop
    BY <1>5 DEF Windows!EndLoop
  <1>6. CASE Windows!Refused
    BY <1>6 DEF Windows!Refused
  <1> QED
    BY <1>1, <1>2, <1>3, <1>4, <1>5, <1>6

\* The finally clause and the second stop after it: what the first call has
\* stopped the second one leaves alone.
LEMMA ThreadStops ==
    ASSUME WindowsInv, Windows!StopLifecycle \/ Windows!TickLoopEnds \/ Windows!StopComponents
    PROVE  WindowsInv'
  <1> USE DEF WindowsInv, Windows!TypeOK, ThreadFits, MainFits, NotStarted, Started1, Settled,
  Windows!lifecycle
  <1>1. CASE Windows!StopLifecycle
    BY <1>1 DEF Windows!StopLifecycle
  <1>2. CASE Windows!TickLoopEnds
    BY <1>2 DEF Windows!TickLoopEnds
  <1>3. CASE Windows!StopComponents
    BY <1>3 DEF Windows!StopComponents
  <1> QED
    BY <1>1, <1>2, <1>3

\* Every step of the three threads preserves the invariant.
LEMMA WindowsStep == ASSUME WindowsInv, [Windows!Next]_Windows!vars PROVE WindowsInv'
  <1>1. CASE \/ Windows!SvcDoRun \/ Windows!MakeAgent \/ Windows!StartThread
             \/ Windows!WaitOver \/ Windows!SvcStop \/ Windows!ControlStep
    BY <1>1, OtherThreads
  <1>2. CASE Windows!AgentStep \/ Windows!EndLoop \/ Windows!Refused
    BY <1>2, ThreadRuns, ThreadStops DEF Windows!AgentStep
  <1>3. CASE UNCHANGED Windows!vars
    BY <1>3
       DEF Windows!vars, WindowsInv, Windows!TypeOK, ThreadFits, MainFits, NotStarted, Started1,
           Settled
  <1> QED
    BY <1>1, <1>2, <1>3 DEF Windows!Next

\* The inductive invariant.
THEOREM WindowsInvariant == Windows!Spec => []WindowsInv
  BY WindowsInit, WindowsStep, PTL DEF Windows!Spec

\* The fields the three threads share have their types, and the component is
\* started once at most and stopped once at most (life_cycle_manager.py).
THEOREM WindowsTypeCorrect == Windows!Spec => []Windows!TypeOK
  <1>1. WindowsInv => Windows!TypeOK
    BY DEF WindowsInv
  <1> QED
    BY <1>1, WindowsInvariant, PTL

\* The component is stopped as often as it was started, whichever way the agent's
\* thread came to its end, and not while it is ticked (agent.py run, its finally
\* clause and the stop after it; life_cycle_manager.py stop).
THEOREM StoppedAsStartedCorrect == Windows!Spec => []Windows!StoppedAsStarted
  <1>1. WindowsInv => Windows!StoppedAsStarted
    BY DEF WindowsInv, Windows!TypeOK, ThreadFits, MainFits, NotStarted, Started1, Settled,
           Windows!StoppedAsStarted
  <1> QED
    BY <1>1, WindowsInvariant, PTL
-----------------------------------------------------------------------------
(* The services together: a step of one leaves the others alone.           *)

\* A step is one of each service, or leaves it alone.
LEMMA ServicesSteps ==
    ASSUME [ServicesNext]_servicesVars
    PROVE  /\ [Next]_vars
           /\ [Frontends!Next]_Frontends!vars
           /\ [Windows!Next]_Windows!vars
  <1>1. ASSUME UNCHANGED frontendVars PROVE UNCHANGED Frontends!vars
    BY <1>1 DEF frontendVars, Frontends!vars, Frontends!frontends, Frontends!snapshots,
                Frontends!agents
  <1>2. ASSUME UNCHANGED windowsVars PROVE UNCHANGED Windows!vars
    BY <1>2 DEF windowsVars, Windows!vars
  <1> QED
    BY <1>1, <1>2 DEF ServicesNext, servicesVars, DeploymentsAct, FrontendsAct, WindowsAct

\* Side by side, the services implement each of their specifications.
THEOREM ServicesImplementParts ==
    ServicesSpec => Spec /\ Frontends!Spec /\ Windows!Spec
  BY ServicesSteps, PTL DEF ServicesSpec, ServicesInit, Spec, Frontends!Spec, Windows!Spec

\* The services' tables are well formed: their types, the agreement of the two
\* tables of watching, and the life cycle's stops and starts.
THEOREM ServicesInvCorrect == ServicesSpec => []ServicesInv
  <1>1. DeploymentsInv => TypeOK
    BY DEF DeploymentsInv
  <1> QED
    BY <1>1, ServicesImplementParts, DeploymentsInvariant, FrontendsTypeCorrect,
       WatchersAreSessionsCorrect, WindowsTypeCorrect, StoppedAsStartedCorrect, PTL
       DEF ServicesInv

\* An online agent that somebody watches and that has received its messages
\* tracks its windows (see FrontendsWatchedIsTracked).
THEOREM WatchedIsTrackedCorrect == ServicesSpec => []WatchedIsTracked
  BY ServicesImplementParts, FrontendsWatchedIsTracked, PTL DEF WatchedIsTracked
=============================================================================
