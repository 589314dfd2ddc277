---------------------------- MODULE Deployments ----------------------------
(***************************************************************************)
(* Deployment preparation on the server (services/deployment_service.py):  *)
(* POST /api/deployments/prepare, the background coroutine that prepares   *)
(* the package, and the recovery at the next start of the server.          *)
(*                                                                         *)
(* prepare_deployment and _run_prepare advance from await to await.        *)
(* Several requests run at once: _active_lock covers only the test for an  *)
(* active deployment.  A crash loses every coroutine; the rows of the two  *)
(* databases stay as the last completed write left them.                   *)
(*                                                                         *)
(* Not modelled: the contents of the package, and releases.  A deployment  *)
(* task's payload, built by prepare_deployment itself, is complete, so     *)
(* dispatch_task always accepts it.                                        *)
(***************************************************************************)
EXTENDS Naturals, FiniteSets

CONSTANTS
    Deployment,  \* deployment ids
    Agent,       \* agent ids
    None,        \* no deployment, no agent
    MaxCrashes   \* bound: server crashes

ASSUME MaxCrashesAssumption == MaxCrashes \in Nat

ASSUME NoneAssumption == None \notin Deployment \cup Agent

VARIABLES
    \* "up", "recovering" (lifespan before serving), "down"
    server,
    crashes,
    \* prepare_deployment of each deployment: the await it is at
    call,
    \* _run_prepare of each deployment: the await it is at
    worker,
    \* recover_interrupted_deployments: what is left of the list it read, and
    \* the deployment whose agent it has yet to update
    recovery,
    agentOf,
    \* agent_deployments.status, and status of the deployment's row in tasks
    dep, task,
    \* agents.status and agents.last_deployment_id; the deployment whose
    \* bootstrap token is stored for the agent
    agentRow, token,
    \* The agent's row as upsert_agent read it, to be merged and written back.
    seen

vars == <<server, crashes, call, worker, recovery, agentOf, dep, task, agentRow,
          token, seen>>

CallPoint ==
    {"none", "release", "agent", "token", "row", "link", "linkWrite", "task",
     "dispatch", "markRun", "over"}

WorkerPoint ==
    {"none", "package", "ready", "readyTask", "readyAgent", "fail", "failTask",
     "failAgent", "failAgentWrite", "over"}

AgentStatus == {"registered", "provisioning", "ready_for_install", "deploy_failed"}

AgentRow == [status : AgentStatus, last : Deployment \cup {None}]

Init ==
    /\ server = "up"
    /\ crashes = 0
    /\ call = [d \in Deployment |-> "none"]
    /\ worker = [d \in Deployment |-> "none"]
    /\ recovery = [left |-> {}, at |-> None]
    /\ agentOf = [d \in Deployment |-> None]
    /\ dep = [d \in Deployment |-> "none"]
    /\ task = [d \in Deployment |-> "none"]
    /\ agentRow = [a \in Agent |-> [status |-> "registered", last |-> None]]
    /\ token = [a \in Agent |-> None]
    /\ seen = [d \in Deployment |-> [status |-> "registered", last |-> None]]

TypeOK ==
    /\ server \in {"up", "recovering", "down"}
    /\ crashes \in 0..MaxCrashes
    /\ call \in [Deployment -> CallPoint]
    /\ worker \in [Deployment -> WorkerPoint]
    /\ recovery \in [left : SUBSET Deployment, at : Deployment \cup {None}]
    /\ agentOf \in [Deployment -> Agent \cup {None}]
    /\ \A d \in Deployment : call[d] # "none" => agentOf[d] \in Agent
    /\ dep \in [Deployment -> {"none", "queued", "preparing", "ready", "failed"}]
    /\ task \in [Deployment -> {"none", "queued", "running", "completed", "failed"}]
    /\ agentRow \in [Agent -> AgentRow]
    /\ token \in [Agent -> Deployment \cup {None}]
    /\ seen \in [Deployment -> AgentRow]

-----------------------------------------------------------------------------
\* get_active_deployment(s)
Active == {d \in Deployment : dep[d] \in {"queued", "preparing"}}

At(f, d, p) == [f EXCEPT ![d] = p]

\* upsert_agent with a status and a deployment.
SetAgent(d, status) ==
    agentRow' = [agentRow EXCEPT ![agentOf[d]] = [status |-> status, last |-> d]]

\* prepare_deployment: no other deployment is active.
Prepare(d, a) ==
    /\ server = "up"
    /\ call[d] = "none"
    /\ Active = {}
    /\ agentOf' = [agentOf EXCEPT ![d] = a]
    /\ call' = At(call, d, "release")
    /\ UNCHANGED <<server, crashes, worker, recovery, dep, task, agentRow, token,
                   seen>>

\* The release is resolved and the Guacamole target provisioned; either may
\* raise, and the request ends.
ReleaseResolved(d) ==
    /\ call[d] = "release"
    /\ call' \in {At(call, d, "agent"), At(call, d, "over")}
    /\ UNCHANGED <<server, crashes, worker, recovery, agentOf, dep, task,
                   agentRow, token, seen>>

AgentProvisioning(d) ==
    /\ call[d] = "agent"
    /\ SetAgent(d, "provisioning")
    /\ call' = At(call, d, "token")
    /\ UNCHANGED <<server, crashes, worker, recovery, agentOf, dep, task, token,
                   seen>>

TokenStored(d) ==
    /\ call[d] = "token"
    /\ token' = [token EXCEPT ![agentOf[d]] = d]
    /\ call' = At(call, d, "row")
    /\ UNCHANGED <<server, crashes, worker, recovery, agentOf, dep, task,
                   agentRow, seen>>

RowCreated(d) ==
    /\ call[d] = "row"
    /\ dep' = At(dep, d, "queued")
    /\ call' = At(call, d, "link")
    /\ UNCHANGED <<server, crashes, worker, recovery, agentOf, task, agentRow,
                   token, seen>>

\* create_deployment's upsert_agent gives no status: the one read is written
\* back.
LinkRead(d) ==
    /\ call[d] = "link"
    /\ seen' = At(seen, d, agentRow[agentOf[d]])
    /\ call' = At(call, d, "linkWrite")
    /\ UNCHANGED <<server, crashes, worker, recovery, agentOf, dep, task,
                   agentRow, token>>

LinkWritten(d) ==
    /\ call[d] = "linkWrite"
    /\ SetAgent(d, seen[d].status)
    /\ call' = At(call, d, "task")
    /\ UNCHANGED <<server, crashes, worker, recovery, agentOf, dep, task, token,
                   seen>>

TaskCreated(d) ==
    /\ call[d] = "task"
    /\ task' = At(task, d, "queued")
    /\ call' = At(call, d, "dispatch")
    /\ UNCHANGED <<server, crashes, worker, recovery, agentOf, dep, agentRow,
                   token, seen>>

\* dispatch_task: the deployment is preparing and the coroutine is created.
Dispatched(d) ==
    /\ call[d] = "dispatch"
    /\ dep' = At(dep, d, "preparing")
    /\ worker' = At(worker, d, "package")
    /\ call' = At(call, d, "markRun")
    /\ UNCHANGED <<server, crashes, recovery, agentOf, task, agentRow, token,
                   seen>>

\* TaskService.dispatch.  The write is queued before the worker runs.
MarkRunning(d) ==
    /\ call[d] = "markRun"
    /\ task' = At(task, d, "running")
    /\ call' = At(call, d, "over")
    /\ UNCHANGED <<server, crashes, worker, recovery, agentOf, dep, agentRow,
                   token, seen>>

-----------------------------------------------------------------------------
(* _run_prepare.                                                           *)

\* Download, checksum and files: any failure raises.
PackageMade(d) ==
    /\ worker[d] = "package"
    /\ worker' \in {At(worker, d, "ready"), At(worker, d, "fail")}
    /\ UNCHANGED <<server, crashes, call, recovery, agentOf, dep, task, agentRow,
                   token, seen>>

\* The deployment's row, then the task's, then the agent's.
DeploymentReady(d) ==
    /\ worker[d] = "ready"
    /\ dep' = At(dep, d, "ready")
    /\ worker' = At(worker, d, "readyTask")
    /\ UNCHANGED <<server, crashes, call, recovery, agentOf, task, agentRow,
                   token, seen>>

TaskCompleted(d) ==
    /\ worker[d] = "readyTask"
    /\ call[d] = "over"
    /\ task' = At(task, d, "completed")
    /\ worker' = At(worker, d, "readyAgent")
    /\ UNCHANGED <<server, crashes, call, recovery, agentOf, dep, agentRow,
                   token, seen>>

AgentReady(d) ==
    /\ worker[d] = "readyAgent"
    /\ SetAgent(d, "ready_for_install")
    /\ worker' = At(worker, d, "over")
    /\ UNCHANGED <<server, crashes, call, recovery, agentOf, dep, task, token,
                   seen>>

\* Faulty: a failed preparation is left for the next start's recovery.
DeploymentFailedSilently(d) ==
    /\ worker[d] = "fail"
    /\ worker' = At(worker, d, "over")
    /\ UNCHANGED <<server, crashes, call, recovery, agentOf, dep, task, agentRow,
                   token, seen>>

DeploymentFailed(d) ==
    /\ worker[d] = "fail"
    /\ dep' = At(dep, d, "failed")
    /\ worker' = At(worker, d, "failTask")
    /\ UNCHANGED <<server, crashes, call, recovery, agentOf, task, agentRow,
                   token, seen>>

TaskFailed(d) ==
    /\ worker[d] = "failTask"
    /\ call[d] = "over"
    /\ task' = At(task, d, "failed")
    /\ worker' = At(worker, d, "failAgent")
    /\ UNCHANGED <<server, crashes, call, recovery, agentOf, dep, agentRow,
                   token, seen>>

\* This upsert_agent gives no deployment: the one read is written back.
FailedRead(d) ==
    /\ worker[d] = "failAgent"
    /\ seen' = At(seen, d, agentRow[agentOf[d]])
    /\ worker' = At(worker, d, "failAgentWrite")
    /\ UNCHANGED <<server, crashes, call, recovery, agentOf, dep, task, agentRow,
                   token>>

\* Faulty: the status is not given either, so the one read is written back.
FailedWrittenAsRead(d) ==
    /\ worker[d] = "failAgentWrite"
    /\ agentRow' = [agentRow EXCEPT ![agentOf[d]] = seen[d]]
    /\ worker' = At(worker, d, "over")
    /\ UNCHANGED <<server, crashes, call, recovery, agentOf, dep, task, token,
                   seen>>

FailedWritten(d) ==
    /\ worker[d] = "failAgentWrite"
    /\ agentRow' = [agentRow EXCEPT ![agentOf[d]] =
                       [status |-> "deploy_failed", last |-> seen[d].last]]
    /\ worker' = At(worker, d, "over")
    /\ UNCHANGED <<server, crashes, call, recovery, agentOf, dep, task, token,
                   seen>>

-----------------------------------------------------------------------------
(* Crash, restart and recovery.                                            *)

Lost(point) == IF point = "none" THEN "none" ELSE "over"

Crash ==
    /\ server # "down"
    /\ crashes < MaxCrashes
    /\ crashes' = crashes + 1
    /\ server' = "down"
    /\ call' = [d \in Deployment |-> Lost(call[d])]
    /\ worker' = [d \in Deployment |-> Lost(worker[d])]
    /\ recovery' = [left |-> {}, at |-> None]
    /\ UNCHANGED <<agentOf, dep, task, agentRow, token, seen>>

\* Faulty: every deployment is taken for an interrupted one.
RestartWithAll ==
    /\ server = "down"
    /\ server' = "recovering"
    /\ recovery' = [left |-> {d \in Deployment : dep[d] # "none"}, at |-> None]
    /\ UNCHANGED <<crashes, call, worker, agentOf, dep, task, agentRow, token, seen>>

\* lifespan: recovery runs before the first request is served.
Restart ==
    /\ server = "down"
    /\ server' = "recovering"
    /\ recovery' = [left |-> Active, at |-> None]
    /\ UNCHANGED <<crashes, call, worker, agentOf, dep, task, agentRow, token, seen>>

\* The task's row is left as it is.
RecoverDeployment(d) ==
    /\ server = "recovering"
    /\ recovery.at = None
    /\ d \in recovery.left
    /\ dep' = At(dep, d, "failed")
    /\ recovery' = [left |-> recovery.left \ {d}, at |-> d]
    /\ UNCHANGED <<server, crashes, call, worker, agentOf, task, agentRow, token,
                   seen>>

RecoverAgent(d) ==
    /\ server = "recovering"
    /\ recovery.at = d
    /\ SetAgent(d, "deploy_failed")
    /\ recovery' = [recovery EXCEPT !.at = None]
    /\ UNCHANGED <<server, crashes, call, worker, agentOf, dep, task, token, seen>>

Serve ==
    /\ server = "recovering"
    /\ recovery = [left |-> {}, at |-> None]
    /\ server' = "up"
    /\ UNCHANGED <<crashes, call, worker, recovery, agentOf, dep, task, agentRow,
                   token, seen>>

-----------------------------------------------------------------------------
CallStep(d) ==
    \/ ReleaseResolved(d) \/ AgentProvisioning(d) \/ TokenStored(d)
    \/ RowCreated(d) \/ LinkRead(d) \/ LinkWritten(d) \/ TaskCreated(d)
    \/ Dispatched(d) \/ MarkRunning(d)

WorkerStep(d) ==
    \/ PackageMade(d) \/ DeploymentReady(d) \/ TaskCompleted(d) \/ AgentReady(d)
    \/ DeploymentFailed(d) \/ TaskFailed(d) \/ FailedRead(d) \/ FailedWritten(d)

RecoveryStep ==
    \/ Restart \/ Serve
    \/ \E d \in Deployment : RecoverDeployment(d) \/ RecoverAgent(d)

Next ==
    \/ \E d \in Deployment :
          (\E a \in Agent : Prepare(d, a)) \/ CallStep(d) \/ WorkerStep(d)
    \/ Crash
    \/ RecoveryStep

Spec == Init /\ [][Next]_vars

(* The event loop runs every coroutine whose await is done (urlopen has a  *)
(* timeout), and the service is restarted and starts up.                   *)
Fairness ==
    /\ \A d \in Deployment : WF_vars(CallStep(d)) /\ WF_vars(WorkerStep(d))
    /\ WF_vars(RecoveryStep)

FairSpec == Spec /\ Fairness

-----------------------------------------------------------------------------
(* Properties.                                                             *)

Busy(d) == call[d] \notin {"none", "over"} \/ worker[d] \notin {"none", "over"}

\* While the server serves requests, a deployment that is recorded as active has
\* a coroutine at work on it: otherwise every later request would be refused for
\* good (prepare_deployment's test, recover_interrupted_deployments).
ActiveIsWorkedOn ==
    server = "up" => \A d \in Active : Busy(d)

\* A deployment's outcome is final: neither recovery, nor a worker that recovery
\* took for dead, nor a later request changes it.
OutcomeIsFinal ==
    [][\A d \in Deployment : dep[d] \in {"ready", "failed"} => dep'[d] = dep[d]]_vars

\* The agent's status reports an outcome one of its deployments really had, and
\* without crashes it says "provisioning" only as long as one is in progress,
\* although upsert_agent writes back what it read earlier.
AgentStatusIsHonest ==
    \A a \in Agent :
        /\ agentRow[a].status = "ready_for_install" =>
              \E d \in Deployment : agentOf[d] = a /\ dep[d] = "ready"
        /\ agentRow[a].status = "deploy_failed" =>
              \E d \in Deployment : agentOf[d] = a /\ dep[d] = "failed"
        /\ agentRow[a].status = "provisioning" /\ crashes = 0 =>
              \E d \in Deployment : agentOf[d] = a /\ Busy(d)

\* Every deployment is decided, crashes notwithstanding: an interrupted one is
\* failed by the recovery of some later start.
DeploymentDecided ==
    \A d \in Deployment : d \in Active ~> dep[d] \in {"ready", "failed"}

\* Where the coroutines of a deployment are says what its row holds.
RowFollowsCoroutines ==
    \A d \in Deployment :
        /\ call[d] \in {"none", "release", "agent", "token", "row"} => dep[d] = "none"
        /\ call[d] \in {"link", "linkWrite", "task", "dispatch"} => dep[d] = "queued"
        /\ call[d] \notin {"markRun", "over"} => worker[d] = "none"
        /\ call[d] = "markRun" =>
              worker[d] \in {"package", "ready", "readyTask", "fail", "failTask"}
        /\ worker[d] \in {"package", "ready", "fail"} => dep[d] = "preparing"
        /\ worker[d] \in {"readyTask", "readyAgent"} => dep[d] = "ready"
        /\ worker[d] \in {"failTask", "failAgent", "failAgentWrite"} => dep[d] = "failed"

\* No coroutine outlives the server, and recovery has left what is active.
RecoveryComplete ==
    /\ server # "up" => \A d \in Deployment : ~Busy(d)
    /\ server = "recovering" => recovery.left = Active
    /\ recovery.at # None => dep[recovery.at] = "failed"

\* docs/ARCHITECTURE.md:639, of a request made while a deployment is active:
\* "a second deployment does not start".
SecondDoesNotStart == Cardinality(Active) <= 1
=============================================================================
