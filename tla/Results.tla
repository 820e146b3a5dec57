------------------------------ MODULE Results -------------------------------
(***************************************************************************)
(* What comes back from the devices: the agent that runs a deployment, the *)
(* channels that carry its command and its result, the                     *)
(* report_device_result workers and the monitor of stuck waves.            *)
(***************************************************************************)
EXTENDS DeploymentDB

CONSTANTS
    Workers,      \* slots that run report_device_result
    Responders,   \* devices whose agent is connected when HEALTH_CHECK is sent
    Slow          \* devices that may take longer than WAVE_TIMEOUT_MINUTES

ASSUME RespondersAssumption == Responders \subseteq Devices
ASSUME SlowAssumption == Slow \subseteq Devices

VARIABLES
    job,     \* the result each worker has read the target for: {} or {<<d, ok>>}
    stuck    \* targets monitor_stuck_waves has read and not yet saved

resultVars == <<job, stuck>>

ResultsTypeOK ==
    /\ job \in [Workers -> SUBSET (Devices \X BOOLEAN)]
    /\ stuck \subseteq Devices

ResultsInit ==
    /\ job = [k \in Workers |-> {}]
    /\ stuck = {}

-----------------------------------------------------------------------------
\* Redis pub/sub and the agent's socket deliver at most once.
LoseCommand(d) ==
    /\ cmds[d] > 0
    /\ cmds' = [cmds EXCEPT ![d] = @ - 1]
    /\ UNCHANGED <<dep, rows, health, orchQ, cancelQ, res, faults, resultVars>>

\* run_deployment: install every patch, send one patch_result.  The realtime
\* service posts it to ingest_patch_result, which enqueues the report.
AgentRuns(d, ok) ==
    /\ cmds[d] > 0
    /\ cmds' = [cmds EXCEPT ![d] = @ - 1]
    /\ res' = [res EXCEPT ![<<d, ok>>] = @ + 1]
    /\ UNCHANGED <<dep, rows, health, orchQ, cancelQ, faults, resultVars>>

\* send_json drops a message while disconnected, and a failed POST is logged.
LoseResult(d, ok) ==
    /\ res[<<d, ok>>] > 0
    /\ res' = [res EXCEPT ![<<d, ok>>] = @ - 1]
    /\ UNCHANGED <<dep, rows, health, orchQ, cancelQ, cmds, faults, resultVars>>

\* run_health_check answers a HEALTH_CHECK and ingest_health_check stores it.
HealthReport(d, h) ==
    /\ d \in Responders
    /\ health[d] # "none"
    /\ health' = [health EXCEPT ![d] = h]
    /\ UNCHANGED <<dep, rows, channels, faults, resultVars>>
-----------------------------------------------------------------------------
\* Mutant: the task no longer looks whether the target is recorded already.
ReportReadUnguarded(k, d, ok) ==
    /\ job[k] = {}
    /\ res[<<d, ok>>] > 0
    /\ res' = [res EXCEPT ![<<d, ok>>] = @ - 1]
    /\ job' = [job EXCEPT ![k] = {<<d, ok>>}]
    /\ UNCHANGED <<dep, rows, health, orchQ, cancelQ, cmds, faults, stuck>>

\* A worker takes a result and reads the target outside the transaction; a
\* target that is past IN_PROGRESS is already recorded and the message is done.
ReportRead(k, d, ok) ==
    /\ job[k] = {}
    /\ res[<<d, ok>>] > 0
    /\ res' = [res EXCEPT ![<<d, ok>>] = @ - 1]
    /\ job' = [job EXCEPT ![k] =
                 IF tgt[d] \in {"in_progress", "queued"} THEN {<<d, ok>>} ELSE {}]
    /\ UNCHANGED <<dep, rows, health, orchQ, cancelQ, cmds, faults, stuck>>

\* The transaction: save the row that was read, increment one counter.
Record(d, ok) ==
    /\ tgt' = [tgt EXCEPT ![d] = IF ok THEN "completed" ELSE "failed"]
    /\ dep' = IF ok THEN [dep EXCEPT !.completed = @ + 1]
                    ELSE [dep EXCEPT !.failed = @ + 1]

\* acks_late: the message is acknowledged after the transaction ...
ReportWrite(k, d, ok) ==
    /\ <<d, ok>> \in job[k]
    /\ Record(d, ok)
    /\ job' = [job EXCEPT ![k] = {}]
    /\ UNCHANGED <<wave, started, aged, members, health, channels, faults, stuck>>

\* ... so a worker lost before the acknowledgement gets it delivered again,
\* whether the transaction had committed or not.
ReportWriteNoAck(k, d, ok) ==
    /\ <<d, ok>> \in job[k]
    /\ Fault("reporter")
    /\ Record(d, ok)
    /\ job' = [job EXCEPT ![k] = {}]
    /\ res' = [res EXCEPT ![<<d, ok>>] = @ + 1]
    /\ UNCHANGED <<wave, started, aged, members, health, orchQ, cancelQ, cmds, stuck>>

ReportCrash(k, d, ok) ==
    /\ <<d, ok>> \in job[k]
    /\ Fault("reporter")
    /\ job' = [job EXCEPT ![k] = {}]
    /\ res' = [res EXCEPT ![<<d, ok>>] = @ + 1]
    /\ UNCHANGED <<dep, rows, health, orchQ, cancelQ, cmds, stuck>>
-----------------------------------------------------------------------------
\* WAVE_TIMEOUT_MINUTES pass since started_at was set.
Age(d) ==
    /\ d \in Slow
    /\ started[d] > 0
    /\ d \notin aged
    /\ aged' = aged \cup {d}
    /\ UNCHANGED <<dep, tgt, wave, started, members, health, channels, faults, resultVars>>

\* Mutant: the monitor only looks at deployments that are in progress.
MonitorReadActive ==
    /\ stuck = {}
    /\ dep.status = "in_progress"
    /\ stuck' = InStatus("in_progress") \cap aged
    /\ stuck' # {}
    /\ UNCHANGED <<dbVars, job>>

\* monitor_stuck_waves, every ten minutes: read the stuck targets ...
MonitorRead ==
    /\ stuck = {}
    /\ stuck' = InStatus("in_progress") \cap aged
    /\ stuck' # {}
    /\ UNCHANGED <<dbVars, job>>

\* Mutant: one increment per deployment instead of one per target.
MonitorWriteOnce ==
    /\ stuck # {}
    /\ tgt' = [d \in Devices |-> IF d \in stuck THEN "failed" ELSE tgt[d]]
    /\ dep' = [dep EXCEPT !.failed = @ + 1]
    /\ stuck' = {}
    /\ UNCHANGED <<wave, started, aged, members, health, channels, faults, job>>

\* ... then, in one transaction, fail them all and add their number.
MonitorWrite ==
    /\ stuck # {}
    /\ tgt' = [d \in Devices |-> IF d \in stuck THEN "failed" ELSE tgt[d]]
    /\ dep' = [dep EXCEPT !.failed = @ + Cardinality(stuck)]
    /\ stuck' = {}
    /\ UNCHANGED <<wave, started, aged, members, health, channels, faults, job>>
=============================================================================
