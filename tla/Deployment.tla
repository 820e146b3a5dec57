----------------------------- MODULE Deployment -----------------------------
(***************************************************************************)
(* One deployment from creation to its end: the API, the orchestrator, the *)
(* result workers, the monitor and the agents, all working on the same     *)
(* rows.  What the system does is the union of what its components do.     *)
(***************************************************************************)
EXTENDS Orchestrator, Results, DeploymentApi

vars == <<dbVars, orchVars, resultVars, apiVars>>

TypeOK == DBTypeOK /\ OrchTypeOK /\ ResultsTypeOK /\ ApiTypeOK

Init == DBInit /\ OrchInit /\ ResultsInit /\ ApiInit

Orchestration ==
    /\ \E o \in Orchestrators : OrchStep(o) \/ Crash(o)
    /\ UNCHANGED <<resultVars, apiVars>>

Device(d) ==
    \/ LoseCommand(d)
    \/ Age(d)
    \/ \E ok \in BOOLEAN : AgentRuns(d, ok) \/ LoseResult(d, ok)
    \/ \E h \in {"good", "bad"} : HealthReport(d, h)

Reporting(k, d, ok) ==
    \/ ReportRead(k, d, ok)
    \/ ReportWrite(k, d, ok)
    \/ ReportWriteNoAck(k, d, ok)
    \/ ReportCrash(k, d, ok)

Outcomes ==
    /\ \/ \E d \in Devices : Device(d)
       \/ \E k \in Workers, d \in Devices, ok \in BOOLEAN : Reporting(k, d, ok)
       \/ MonitorRead
       \/ MonitorWrite
    /\ UNCHANGED <<orchVars, apiVars>>

Requests ==
    \/ \E v \in Views : \/ \E op \in Operations : Read(v, op)
                        \/ Save(v)
                        \/ SaveOnly(v)
    \/ RequestCancel

CancelTask ==
    \/ CancelRead
    \/ CancelSave
    \/ CancelQuery
    \/ \E d \in Devices : CancelTarget(d)

Schedule == SchedRead \/ SchedSave \/ SchedEnqueue \/ SchedLost

Control ==
    /\ Requests \/ CancelTask \/ Schedule
    /\ UNCHANGED <<orchVars, resultVars>>

Next == Orchestration \/ Outcomes \/ Control

Spec == Init /\ [][Next]_vars

\* Workers run what is in their queues, beat runs the monitor, time passes and
\* a request that was read is answered; nobody has to crash, and no user has
\* to request anything.
Fairness ==
    /\ \A o \in Orchestrators :
          WF_vars(OrchStep(o) /\ UNCHANGED <<resultVars, apiVars>>)
    /\ \A k \in Workers : WF_vars(
          /\ \E d \in Devices, ok \in BOOLEAN : ReportRead(k, d, ok) \/ ReportWrite(k, d, ok)
          /\ UNCHANGED <<orchVars, apiVars>>)
    /\ \A d \in Devices : WF_vars(Age(d) /\ UNCHANGED <<orchVars, apiVars>>)
    /\ WF_vars((MonitorRead \/ MonitorWrite) /\ UNCHANGED <<orchVars, apiVars>>)
    /\ \A v \in Views : WF_vars(Save(v) /\ UNCHANGED <<orchVars, resultVars>>)
    /\ WF_vars(CancelTask /\ UNCHANGED <<orchVars, resultVars>>)

FairSpec == Spec /\ Fairness

-----------------------------------------------------------------------------
(* Safety *)

Dispatched == {d \in Devices : tgt[d] \in {"in_progress", "completed", "failed"}}

\* No device is sent the patch while a device of an earlier wave still waits in
\* the queue: orchestrate_deployment walks the waves in order, and stays in
\* order when it is run twice at once, is killed and run again, or when the
\* deployment is paused, cancelled or overwritten under it.
WavesInOrder ==
    \A d \in Dispatched, q \in Queued : wave[d] <= wave[q]

\* A deployment is called completed only when no target is left in the queue:
\* what the final query of orchestrate_deployment looks for.
CompletedLeavesNoneQueued ==
    dep.status = "completed" => Queued = {}

\* "Re-entrant: safe to call multiple times": no device is sent the deployment
\* a second time (execute_wave saves started_at once per row).
AtMostOneStart == \A d \in Devices : started[d] <= 1

\* The counters of the deployment are the numbers of recorded targets: every
\* result is counted once, although its message may be delivered many times
\* (report_device_result, acks_late).
CountersExact ==
    /\ dep.completed = Cardinality(InStatus("completed"))
    /\ dep.failed = Cardinality(InStatus("failed"))

\* No increment is ever lost to a concurrent one: a target recorded by
\* report_device_result or by the monitor is in the counter (F() expressions).
NoLostIncrement ==
    /\ dep.completed >= Cardinality(InStatus("completed"))
    /\ dep.failed >= Cardinality(InStatus("failed"))

\* A target of which a result is on its way, or being recorded, has been
\* started: the QUEUED branch of the guard of report_device_result is never
\* the one that lets a result in.
ResultsOfStarted ==
    \A d \in Queued : started[d] = 0 /\ \A ok \in BOOLEAN :
        /\ res[<<d, ok>>] = 0
        /\ \A k \in Workers : <<d, ok>> \notin job[k]

-----------------------------------------------------------------------------
(* What a step may never do *)

\* The targets a slot is about to dispatch.
Due(o) == IF pc[o] = "dispatch" THEN batch[o] ELSE {}

\* "Idempotent: if all targets are already past QUEUED, returns immediately": a
\* task never takes up a device that was already sent the deployment, however
\* many tasks overlap, are killed and run again.  It may be sent it twice only
\* by tasks that had all taken it up before the first of them sent it.
NoLateStart ==
    [][\A o \in Orchestrators : \A d \in Due(o)' : started[d] > 0 => d \in Due(o)]_vars

\* The slot is interrupted in the sleep after its wave.
OutOfTime(o) ==
    /\ pc[o] \in {"wave", "dispatch"}
    /\ \E w \in todo[o] : CurrentWave(o, w) /\ TimeIsUp(o, w)

\* A task that returns leaves no deployment in progress behind: whichever of its
\* return statements it took, the deployment is completed, failed, or no longer
\* for it to run (orchestrate_deployment marks it "when all waves done").  A
\* task may only give up by an exception: the health poll's TypeError, the soft
\* time limit, or the loss of its worker.
TaskSettles ==
    [][\A o \in Orchestrators :
          pc[o] # "idle" /\ pc'[o] = "idle" =>
              \/ dep'.status # "in_progress"
              \/ PollRaises(o) \/ OutOfTime(o) \/ Crash(o)]_vars

\* Those who have taken up the target of a device and are going to write it.
Holders(d) ==
    ({"slot"} \X {o \in Orchestrators : d \in Due(o)})
      \cup ({"worker"} \X {k \in Workers : \E ok \in BOOLEAN : <<d, ok>> \in job[k]})
      \cup ({"task"} \X {t \in {"monitor", "cancel"} :
                          IF t = "monitor" THEN d \in stuck ELSE d \in cancelling})

Outcome == InStatus("completed") \cup InStatus("failed")

\* By how much the counters of the deployment differ from its targets.
Gap == <<dep.completed - Cardinality(InStatus("completed")),
         dep.failed - Cardinality(InStatus("failed"))>>

StaleSave(v) ==
    /\ SaveRow(v)
    /\ row[v].completed # dep.completed \/ row[v].failed # dep.failed

\* Nobody takes up a target that is recorded already, and the counters and the
\* recorded targets go apart in two ways only: a view saves counters it read
\* before the last increment, or a task writes a target it took up before the
\* result was recorded (report_device_result looks for ALREADY_RECORDED in a
\* read outside its transaction).
CountersFollow ==
    [][/\ \A d \in Outcome : Holders(d)' \subseteq Holders(d)
       /\ Gap' # Gap => \/ \E v \in Views : StaleSave(v)
                        \/ \E d \in Outcome : Holders(d)' # Holders(d)]_vars

-----------------------------------------------------------------------------
(* Liveness *)

\* A device sent the patch does not stay in progress for ever, whatever the
\* network, the agent or the workers lose: monitor_stuck_waves fails it.
NoTargetStuck ==
    \A d \in Devices : tgt[d] = "in_progress" ~> tgt[d] # "in_progress"
=============================================================================
