--------------------------- MODULE DeploymentApi ----------------------------
(***************************************************************************)
(* The requests of DeploymentViewSet that change a deployment, the task    *)
(* cancel enqueues and the periodic task that starts scheduled             *)
(* deployments.  A view reads the whole row, checks its status and later   *)
(* saves the whole row back: what others wrote in between is overwritten.  *)
(***************************************************************************)
EXTENDS DeploymentDB

CONSTANTS
    Views,          \* request handlers that may run at the same time
    Operations,     \* the operations the users may request
    MaxRequests     \* bound: requests in a behaviour

AllOperations == {"approve", "execute", "pause", "resume", "rollback", "update", "cancel"}

ASSUME OperationsAssumption == Operations \subseteq AllOperations
ASSUME RequestsAssumption == MaxRequests \in Nat

VARIABLES
    request,    \* the request each handler is serving, "none" when it is free
    row,        \* the deployment row it has read
    requests,   \* requests so far
    cancelPC,   \* where cancel_deployment_task is
    cancelling, \* the targets of its queryset not yet saved
    schedPC     \* where process_scheduled_deployments is

apiVars == <<request, row, requests, cancelPC, cancelling, schedPC>>

ApiTypeOK ==
    /\ request \in [Views -> AllOperations \cup {"none"}]
    /\ row \in [Views -> DeploymentRow]
    /\ requests \in Nat
    /\ cancelPC \in {"idle", "save", "query", "loop"}
    /\ cancelling \subseteq Devices
    /\ schedPC \in {"idle", "save", "enqueue"}

ApiInit ==
    /\ request = [v \in Views |-> "none"]
    /\ row = [v \in Views |-> NewDeployment]
    /\ requests = 0
    /\ cancelPC = "idle"
    /\ cancelling = {}
    /\ schedPC = "idle"

\* The statuses in which each view does not answer 400; update checks nothing.
\* (Whether a draft may be executed also depends on a setting and the user's
\* role: with the setting off, its default, it may.)
AcceptedIn(op) ==
    CASE op = "approve"  -> {"draft"}
      [] op = "execute"  -> {"scheduled", "draft"}
      [] op = "pause"    -> {"in_progress"}
      [] op = "resume"   -> {"paused"}
      [] op = "rollback" -> {"completed", "failed"}
      [] op = "cancel"   -> DeploymentStatus
                              \ {"completed", "failed", "cancelled", "rolling_back"}
      [] OTHER           -> DeploymentStatus

\* The status each view saves, given the status it read.
SavedStatus(op, status) ==
    CASE op = "approve"  -> "scheduled"
      [] op = "execute"  -> "in_progress"
      [] op = "pause"    -> "paused"
      [] op = "resume"   -> "in_progress"
      [] op = "rollback" -> "rolling_back"
      [] OTHER           -> status
-----------------------------------------------------------------------------
\* get_object() and the status check.
Read(v, op) ==
    /\ op # "cancel"
    /\ request[v] = "none"
    /\ requests < MaxRequests
    /\ dep.status \in AcceptedIn(op)
    /\ request' = [request EXCEPT ![v] = op]
    /\ row' = [row EXCEPT ![v] = dep]
    /\ requests' = requests + 1
    /\ UNCHANGED <<dbVars, cancelPC, cancelling, schedPC>>

SaveRow(v) ==
    /\ request[v] # "none"
    /\ dep' = [row[v] EXCEPT !.status = SavedStatus(request[v], @)]
    /\ request' = [request EXCEPT ![v] = "none"]
    /\ row' = [row EXCEPT ![v] = NewDeployment]
    /\ UNCHANGED <<rows, health, cancelQ, cmds, res, requests, cancelPC, cancelling, schedPC>>

\* deployment.save(), of every column; execute then enqueues the orchestrator.
Save(v) ==
    /\ SaveRow(v)
    /\ orchQ' = IF request[v] = "execute" THEN orchQ + 1 ELSE orchQ
    /\ UNCHANGED faults

\* The broker cannot be reached: the row is saved and nothing is enqueued.
SaveOnly(v) ==
    /\ request[v] = "execute"
    /\ SaveRow(v)
    /\ Fault("broker")
    /\ UNCHANGED orchQ

\* cancel only checks the status and enqueues the task.
RequestCancel ==
    /\ "cancel" \in Operations
    /\ requests < MaxRequests
    /\ dep.status \in AcceptedIn("cancel")
    /\ requests' = requests + 1
    /\ cancelQ' = cancelQ + 1
    /\ UNCHANGED <<dep, rows, health, orchQ, cmds, res, faults,
                   request, row, cancelPC, cancelling, schedPC>>
-----------------------------------------------------------------------------
\* cancel_deployment_task: read the deployment,
CancelRead ==
    /\ cancelPC = "idle"
    /\ cancelQ > 0
    /\ cancelQ' = cancelQ - 1
    /\ cancelPC' = IF dep.status \in {"completed", "failed"} THEN "idle" ELSE "save"
    /\ UNCHANGED <<dep, rows, health, orchQ, cmds, res, faults,
                   request, row, requests, cancelling, schedPC>>

\* save its status,
CancelSave ==
    /\ cancelPC = "save"
    /\ dep' = [dep EXCEPT !.status = "cancelled"]
    /\ cancelPC' = "query"
    /\ UNCHANGED <<rows, health, channels, faults, request, row, requests, cancelling, schedPC>>

\* read the targets that are queued or in progress,
CancelQuery ==
    /\ cancelPC = "query"
    /\ cancelling' = Queued \cup InStatus("in_progress")
    /\ cancelPC' = IF cancelling' = {} THEN "idle" ELSE "loop"
    /\ UNCHANGED <<dbVars, request, row, requests, schedPC>>

\* and skip them one by one, whatever they have become.  The agent only logs
\* the CANCEL_DEPLOYMENT command published for those in progress.
CancelTarget(d) ==
    /\ d \in cancelling
    /\ tgt' = [tgt EXCEPT ![d] = "skipped"]
    /\ cancelling' = cancelling \ {d}
    /\ cancelPC' = IF cancelling = {d} THEN "idle" ELSE "loop"
    /\ UNCHANGED <<dep, wave, started, aged, members, health, channels, faults,
                   request, row, requests, schedPC>>
-----------------------------------------------------------------------------
\* process_scheduled_deployments, once scheduled_at has come: read,
SchedRead ==
    /\ schedPC = "idle"
    /\ dep.status = "scheduled"
    /\ schedPC' = "save"
    /\ UNCHANGED <<dbVars, request, row, requests, cancelPC, cancelling>>

\* save the status, whatever it has become, in a transaction of its own,
SchedSave ==
    /\ schedPC = "save"
    /\ dep' = [dep EXCEPT !.status = "in_progress"]
    /\ schedPC' = "enqueue"
    /\ UNCHANGED <<rows, health, channels, faults, request, row, requests, cancelPC, cancelling>>

\* and, that committed, enqueue the orchestrator;
SchedEnqueue ==
    /\ schedPC = "enqueue"
    /\ orchQ' = orchQ + 1
    /\ schedPC' = "idle"
    /\ UNCHANGED <<dep, rows, health, cancelQ, cmds, res, faults,
                   request, row, requests, cancelPC, cancelling>>

\* or never: the broker cannot be reached, or the task is lost before the call.
\* The row is in progress, so no later run of the task looks at it again.
SchedLost ==
    /\ schedPC = "enqueue"
    /\ Fault("broker")
    /\ schedPC' = "idle"
    /\ UNCHANGED <<dep, rows, health, channels, request, row, requests, cancelPC, cancelling>>
=============================================================================
