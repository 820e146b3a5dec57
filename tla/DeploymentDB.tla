---------------------------- MODULE DeploymentDB ----------------------------
(***************************************************************************)
(* The shared state of one deployment: its Deployment row, the             *)
(* DeploymentTarget rows of its devices, and the queues and channels that  *)
(* connect the API, the Celery tasks and the agents.  Rows of different    *)
(* deployments never touch each other, so one deployment is modelled.      *)
(* (deployment, device) is unique, so a target is known by its device.     *)
(***************************************************************************)
EXTENDS Integers, FiniteSets, WavePlan

CONSTANTS
    Devices,               \* the devices of the inventory
    MaxFailurePercentage,  \* Deployment.max_failure_percentage, a whole number
    FaultKinds,            \* the faults that may happen
    MaxFaults              \* bound: how many happen in a behaviour

ASSUME DevicesAssumption == Devices # {} /\ IsFiniteSet(Devices)
ASSUME PercentageAssumption == MaxFailurePercentage \in Nat
ASSUME FaultsAssumption ==
    MaxFaults \in Nat /\ FaultKinds \subseteq {"orchestrator", "reporter", "broker"}

DeploymentStatus == {"draft", "scheduled", "in_progress", "paused", "completed",
                     "failed", "cancelled", "rolling_back"}

\* "absent": there is no row.  rolled_back is in the choices and never written.
TargetStatus == {"absent", "queued", "in_progress", "completed", "failed", "skipped"}

\* The columns of the deployment row the code decides on or recomputes.
DeploymentRow == [status: DeploymentStatus, total: Nat, completed: Nat,
                  failed: Nat, current_wave: Nat]

VARIABLES
    dep,       \* the deployment row
    tgt,       \* status of the target row of each device
    wave,      \* wave_number of the target row of each device
    started,   \* how many times started_at of the row has been set
    aged,      \* targets whose started_at is older than WAVE_TIMEOUT_MINUTES
    members,   \* the devices of the target groups
    health,    \* metadata["last_health_check"] of each device
    orchQ,     \* orchestrate_deployment messages in the broker
    cancelQ,   \* cancel_deployment_task messages in the broker
    cmds,      \* START_DEPLOYMENT commands on their way to each agent
    res,       \* results on their way from the agent to report_device_result
    faults     \* faults so far

rows     == <<tgt, wave, started, aged, members>>
channels == <<orchQ, cancelQ, cmds, res>>
dbVars   == <<dep, tgt, wave, started, aged, members, health, orchQ, cancelQ,
              cmds, res, faults>>

NewDeployment == [status |-> "draft", total |-> 0, completed |-> 0,
                  failed |-> 0, current_wave |-> 0]

\* "none": no health check was ever requested; "asked": HEALTH_CHECK was sent
\* and nothing is recorded; the others are recorded reports.
HealthRecord == {"none", "asked", "good", "bad"}

DBTypeOK ==
    /\ dep \in DeploymentRow
    /\ tgt \in [Devices -> TargetStatus]
    /\ wave \in [Devices -> Nat]
    /\ started \in [Devices -> Nat]
    /\ aged \subseteq Devices
    /\ members \subseteq Devices
    /\ health \in [Devices -> HealthRecord]
    /\ orchQ \in Nat
    /\ cancelQ \in Nat
    /\ cmds \in [Devices -> Nat]
    /\ res \in [Devices \X BOOLEAN -> Nat]
    /\ faults \in Nat

\* A deployment just created by the API; its groups may hold no device at all.
DBInit ==
    /\ dep = NewDeployment
    /\ tgt = [d \in Devices |-> "absent"]
    /\ wave = [d \in Devices |-> 0]
    /\ started = [d \in Devices |-> 0]
    /\ aged = {}
    /\ members \in {{}, Devices}
    /\ health = [d \in Devices |-> "none"]
    /\ orchQ = 0
    /\ cancelQ = 0
    /\ cmds = [d \in Devices |-> 0]
    /\ res = [r \in Devices \X BOOLEAN |-> 0]
    /\ faults = 0

Rows == {d \in Devices : tgt[d] # "absent"}
InStatus(s) == {d \in Devices : tgt[d] = s}
Queued == InStatus("queued")
QueuedIn(w) == {d \in Queued : wave[d] = w}

\* deployment.failure_rate > deployment.max_failure_percentage, without the
\* division: a deployment with no devices has failure rate 0.
FailureRateExceeded ==
    dep.total # 0 /\ dep.failed * 100 > MaxFailurePercentage * dep.total

\* A fault (a lost worker, an unreachable broker) uses up the budget.
Fault(kind) == kind \in FaultKinds /\ faults < MaxFaults /\ faults' = faults + 1
=============================================================================
