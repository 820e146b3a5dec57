---------------------------- MODULE Orchestrator ----------------------------
(***************************************************************************)
(* orchestrate_deployment and the execute_wave it calls, as run by the     *)
(* workers of the "critical" queue.  Each element of Orchestrators is a    *)
(* worker slot; a slot runs one task at a time and several slots may run   *)
(* the task for the same deployment.  Every action is one database access  *)
(* of the task together with the local computation around it.              *)
(***************************************************************************)
EXTENDS DeploymentDB

CONSTANTS
    Orchestrators,      \* worker slots
    Strategy, WaveSize, CanaryPercentage, WaveDelayMinutes,  \* deployment columns
    RowLockNeedsTransaction,  \* TRUE on PostgreSQL, FALSE on SQLite
    AcksLate            \* whether a lost worker's message is delivered again

ASSUME StrategyAssumption == Strategy \in Strategies
ASSUME ColumnsAssumption ==
    WaveSize \in Nat /\ CanaryPercentage \in Int /\ WaveDelayMinutes \in Nat
ASSUME LockAssumption == RowLockNeedsTransaction \in BOOLEAN /\ AcksLate \in BOOLEAN

VARIABLES
    pc,      \* where the task of each slot is
    todo,    \* the waves of its loop not yet finished, the current one included
    batch,   \* the targets of the queryset it is iterating over
    slept    \* minutes it has slept between waves

orchVars == <<pc, todo, batch, slept>>

\* CELERY_TASK_SOFT_TIME_LIMIT, in minutes
SoftTimeLimit == 55

OrchPC == {"idle", "build", "plan", "check", "pending", "gate", "wave", "poll",
           "evaluate", "dispatch"}

OrchTypeOK ==
    /\ pc \in [Orchestrators -> OrchPC]
    /\ todo \in [Orchestrators -> SUBSET Nat]
    /\ batch \in [Orchestrators -> SUBSET Devices]
    /\ slept \in [Orchestrators -> 0 .. SoftTimeLimit]

OrchInit ==
    /\ pc = [o \in Orchestrators |-> "idle"]
    /\ todo = [o \in Orchestrators |-> {}]
    /\ batch = [o \in Orchestrators |-> {}]
    /\ slept = [o \in Orchestrators |-> 0]

Goto(o, from, to) == pc[o] = from /\ pc' = [pc EXCEPT ![o] = to]

\* The task returns or dies: its locals are gone.
Return(o, from) ==
    /\ Goto(o, from, "idle")
    /\ todo' = [todo EXCEPT ![o] = {}]
    /\ batch' = [batch EXCEPT ![o] = {}]
    /\ slept' = [slept EXCEPT ![o] = 0]

Continue(o, from, to) == Goto(o, from, to) /\ UNCHANGED <<todo, batch, slept>>

\* Mutant: wave_numbers without order_by.
CurrentWaveUnsorted(o, w) == w \in todo[o]

\* The wave the loop is at: wave_numbers is sorted.
CurrentWave(o, w) == w \in todo[o] /\ \A v \in todo[o] : w <= v

-----------------------------------------------------------------------------
\* A worker takes the message.  select_for_update() is evaluated outside
\* transaction.atomic(): on PostgreSQL Django raises and the task has failed,
\* elsewhere no lock is taken.  The status check and the existence check of
\* _build_wave_targets use what was read here.
Start(o) ==
    /\ pc[o] = "idle"
    /\ orchQ > 0
    /\ orchQ' = orchQ - 1
    /\ pc' = [pc EXCEPT ![o] =
                IF RowLockNeedsTransaction \/ dep.status # "in_progress" THEN "idle"
                ELSE IF Rows = {} THEN "build" ELSE "plan"]
    /\ UNCHANGED <<todo, batch, slept, dep, rows, health, cancelQ, cmds, res, faults>>

\* _build_wave_targets, no device: the deployment is completed at once.
BuildNothing(o) ==
    /\ members = {}
    /\ Return(o, "build")
    /\ dep' = [dep EXCEPT !.status = "completed"]
    /\ UNCHANGED <<rows, health, channels, faults>>

\* Mutant: bulk_create updates the rows that exist instead of leaving them alone.
BuildOverwriting(o) ==
    /\ members # {}
    /\ Continue(o, "build", "plan")
    /\ tgt' = [d \in Devices |-> IF d \in members THEN "queued" ELSE tgt[d]]
    /\ dep' = [dep EXCEPT !.total = Cardinality(members)]
    /\ UNCHANGED <<wave, started, aged, members, health, channels, faults>>

\* _build_wave_targets: bulk_create leaves rows that exist alone, then the
\* rows are counted.  The list order of the set of devices is arbitrary.
Build(o) ==
    /\ members # {}
    /\ Continue(o, "build", "plan")
    /\ LET n == Cardinality(members)
       IN  \E order \in [members -> 1 .. n],
              plan \in WavePlans(Strategy, n, WaveSize, CanaryPercentage) :
             LET planned == {d \in members : \E w \in 0 .. n : <<order[d], w>> \in plan}
                 created == {d \in planned : tgt[d] = "absent"}
             IN  /\ \A d, e \in members : order[d] = order[e] => d = e
                 /\ tgt' = [d \in Devices |-> IF d \in created THEN "queued" ELSE tgt[d]]
                 /\ wave' = [d \in Devices |->
                        IF d \in created
                        THEN CHOOSE w \in 0 .. n : <<order[d], w>> \in plan
                        ELSE wave[d]]
    /\ dep' = [dep EXCEPT !.total = Cardinality({d \in Devices : tgt'[d] # "absent"})]
    /\ UNCHANGED <<started, aged, members, health, channels, faults>>

\* After refresh_from_db: NO_TARGETS if completed, else read the wave numbers.
Plan(o) ==
    /\ IF dep.status = "completed"
       THEN Return(o, "plan")
       ELSE /\ Goto(o, "plan", "check")
            /\ todo' = [todo EXCEPT ![o] = {wave[d] : d \in Rows}]
            /\ UNCHANGED <<batch, slept>>
    /\ UNCHANGED dbVars

\* Top of the loop: re-check the live status before each wave.
CheckStatus(o) ==
    /\ todo[o] # {}
    /\ IF dep.status = "in_progress"
       THEN Continue(o, "check", "pending")
       ELSE Return(o, "check")
    /\ UNCHANGED dbVars

\* The wave is finished without being executed.
Skip(o, w) ==
    /\ todo' = [todo EXCEPT ![o] = @ \ {w}]
    /\ pc' = [pc EXCEPT ![o] = "check"]
    /\ UNCHANGED slept

CheckPending(o) ==
    /\ pc[o] = "pending"
    /\ \E w \in todo[o] :
         /\ CurrentWave(o, w)
         /\ IF QueuedIn(w) = {}
            THEN Skip(o, w) /\ UNCHANGED batch
            ELSE Continue(o, "pending", "gate")
    /\ UNCHANGED dbVars

\* refresh_from_db, then the failure threshold: fail the deployment, whatever
\* its status has become, or record the current wave and execute it.
CheckThreshold(o) ==
    /\ \E w \in todo[o] :
         /\ CurrentWave(o, w)
         /\ IF FailureRateExceeded
            THEN Return(o, "gate") /\ dep' = [dep EXCEPT !.status = "failed"]
            ELSE Continue(o, "gate", "wave") /\ dep' = [dep EXCEPT !.current_wave = w]
    /\ UNCHANGED <<rows, health, channels, faults>>

\* The task sleeps after a wave unless it was the last.
Delay(o, w) == IF todo[o] = {w} \/ Strategy = "immediate" THEN 0 ELSE WaveDelayMinutes

\* The soft time limit interrupts the sleep.
TimeIsUp(o, w) == slept[o] + Delay(o, w) > SoftTimeLimit

\* The wave is over; an interrupted task fails and its message is not delivered
\* again.
EndWave(o, w, from) ==
    IF TimeIsUp(o, w)
    THEN Return(o, from)
    ELSE /\ Goto(o, from, "check")
         /\ todo' = [todo EXCEPT ![o] = @ \ {w}]
         /\ batch' = [batch EXCEPT ![o] = {}]
         /\ slept' = [slept EXCEPT ![o] = @ + Delay(o, w)]
-----------------------------------------------------------------------------
\* execute_wave: read the queued targets of the wave, ask each for a report.
BeginWave(o) ==
    /\ \E w \in todo[o] :
         /\ CurrentWave(o, w)
         /\ IF QueuedIn(w) = {}
            THEN EndWave(o, w, "wave") /\ UNCHANGED health
            ELSE /\ Goto(o, "wave", "poll")
                 /\ batch' = [batch EXCEPT ![o] = QueuedIn(w)]
                 /\ health' = [d \in Devices |->
                        IF d \in QueuedIn(w) /\ health[d] = "none" THEN "asked" ELSE health[d]]
                 /\ UNCHANGED <<todo, slept>>
    /\ UNCHANGED <<dep, rows, channels, faults>>

Recorded(d) == health[d] \in {"good", "bad"}

\* The poll breaks at the first target with no timestamp; a target with one is
\* compared as `ts < cutoff`, a float with a string, which raises TypeError.
PollRaises(o) ==
    /\ \E d \in batch[o] : Recorded(d)
    /\ Return(o, "poll")
    /\ UNCHANGED dbVars

PollTimesOut(o) ==
    /\ \E d \in batch[o] : ~Recorded(d)
    /\ Continue(o, "poll", "evaluate")
    /\ UNCHANGED dbVars

\* What ingest_health_check stores, and what execute_wave looks up with a
\* default that passes when the key is not there.
StoredKeys == {"cpu_usage", "ram_usage", "disk_usage", "status", "timestamp"}
PreflightKeys == {"disk_free_pct", "cpu_pct", "memory_pct"}
FailsPreflight(d) == health[d] = "bad" /\ PreflightKeys \cap StoredKeys # {}

\* Mutant: the second query forgets the status filter.
EvaluateUnfiltered(o) ==
    /\ \E w \in todo[o] :
         /\ CurrentWave(o, w)
         /\ Goto(o, "evaluate", "dispatch")
         /\ batch' = [batch EXCEPT ![o] = {d \in Rows : wave[d] = w}]
    /\ UNCHANGED <<todo, slept, dbVars>>

\* Skip the unhealthy targets of the cached queryset, then query again for
\* those still queued.
Evaluate(o) ==
    /\ \E w \in todo[o] :
         /\ CurrentWave(o, w)
         /\ Goto(o, "evaluate", "dispatch")
         /\ tgt' = [d \in Devices |->
                      IF d \in batch[o] /\ FailsPreflight(d) THEN "skipped" ELSE tgt[d]]
         /\ batch' = [batch EXCEPT ![o] = {d \in Devices : tgt'[d] = "queued" /\ wave[d] = w}]
    /\ UNCHANGED <<todo, slept, dep, wave, started, aged, members, health, channels, faults>>

\* One iteration of the dispatch loop: save the row, whatever its status is
\* now, and publish.  The command may be lost afterwards (LoseCommand), which
\* is also what a crash between the save and the publish amounts to.
Dispatch(o, d) ==
    /\ d \in batch[o]
    /\ pc[o] = "dispatch"
    /\ tgt' = [tgt EXCEPT ![d] = "in_progress"]
    /\ started' = [started EXCEPT ![d] = @ + 1]
    /\ aged' = aged \ {d}
    /\ cmds' = [cmds EXCEPT ![d] = @ + 1]
    /\ batch' = [batch EXCEPT ![o] = @ \ {d}]
    /\ UNCHANGED <<pc, todo, slept, dep, wave, members, health, orchQ, cancelQ, res, faults>>

FinishWave(o) ==
    /\ batch[o] = {}
    /\ \E w \in todo[o] : CurrentWave(o, w) /\ EndWave(o, w, "dispatch")
    /\ UNCHANGED dbVars
-----------------------------------------------------------------------------
\* All waves processed: if nothing is queued the status is overwritten.
Finish(o) ==
    /\ todo[o] = {}
    /\ Return(o, "check")
    /\ dep' = IF Queued # {} THEN dep
              ELSE [dep EXCEPT !.status =
                      IF InStatus("failed") # {} /\ FailureRateExceeded
                      THEN "failed" ELSE "completed"]
    /\ UNCHANGED <<rows, health, channels, faults>>

\* The worker process is lost.
Crash(o) ==
    /\ pc[o] # "idle"
    /\ Fault("orchestrator")
    /\ Return(o, pc[o])
    /\ orchQ' = IF AcksLate THEN orchQ + 1 ELSE orchQ
    /\ UNCHANGED <<dep, rows, health, cancelQ, cmds, res>>

OrchStep(o) ==
    \/ Start(o) \/ BuildNothing(o) \/ Build(o) \/ Plan(o)
    \/ CheckStatus(o) \/ CheckPending(o) \/ CheckThreshold(o)
    \/ BeginWave(o) \/ PollRaises(o) \/ PollTimesOut(o) \/ Evaluate(o)
    \/ (\E d \in Devices : Dispatch(o, d))
    \/ FinishWave(o) \/ Finish(o)
=============================================================================
