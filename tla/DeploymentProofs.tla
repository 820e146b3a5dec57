-------------------------- MODULE DeploymentProofs --------------------------
(***************************************************************************)
(* What is proved of a deployment, for any finite set of devices, any      *)
(* number of worker slots, views and requests, any strategy and wave size, *)
(* and any faults: its types, the inductive invariant IInv with one lemma  *)
(* per component, the properties that follow from it, how often a device   *)
(* is started, what a task leaves behind, where counters and targets part, *)
(* and that it implements WaveGate; and of its planner, for any number of  *)
(* devices, any wave size and any percentage: the slices partition the     *)
(* devices, are numbered without a gap and keep to their sizes.            *)
(***************************************************************************)
EXTENDS DeploymentInvariant, WavePlanning, TLAPS, FiniteSetTheorems

-----------------------------------------------------------------------------
(* The types *)

\* The number of devices in a set of devices is a number.
LEMMA DeviceSetsFinite ==
    \A S \in SUBSET Devices : IsFiniteSet(S) /\ Cardinality(S) \in Nat
BY DevicesAssumption, FS_Subset, FS_CardinalityType

\* A slot whose task returns holds no wave and no target.
LEMMA ReturnTypes ==
    ASSUME OrchTypeOK, NEW o \in Orchestrators, NEW from, Return(o, from)
    PROVE  OrchTypeOK'
BY DEF OrchTypeOK, Return, Goto, OrchPC, SoftTimeLimit

\* A slot that goes on to the next step keeps its locals.
LEMMA ContinueTypes ==
    ASSUME OrchTypeOK, NEW o \in Orchestrators, NEW from, NEW to \in OrchPC,
           Continue(o, from, to)
    PROVE  OrchTypeOK'
BY DEF OrchTypeOK, Continue, Goto

\* The end of a wave leaves the slot at the top of its loop, or idle.
LEMMA EndWaveTypes ==
    ASSUME OrchTypeOK, NEW o \in Orchestrators, NEW w, NEW from, EndWave(o, w, from)
    PROVE  OrchTypeOK'
<1>1. Delay(o, w) \in Nat
  BY ColumnsAssumption DEF Delay
<1>2. CASE TimeIsUp(o, w)
  BY <1>2, ReturnTypes DEF EndWave
<1>3. CASE ~TimeIsUp(o, w)
  <2>1. slept[o] + Delay(o, w) \in 0 .. SoftTimeLimit
    BY <1>1, <1>3 DEF TimeIsUp, OrchTypeOK, SoftTimeLimit
  <2> QED
    BY <1>3, <2>1 DEF EndWave, OrchTypeOK, Goto, OrchPC
<1> QED
  BY <1>2, <1>3

\* The status of the row may be set to any deployment status.
LEMMA StatusTypes ==
    ASSUME NEW r \in DeploymentRow, NEW s \in DeploymentStatus
    PROVE  [r EXCEPT !.status = s] \in DeploymentRow
BY DEF DeploymentRow
-----------------------------------------------------------------------------
\* Every step of an orchestrator slot keeps the types.
LEMMA OrchTypes ==
    ASSUME TypeOK, NEW o \in Orchestrators, OrchStep(o) \/ Crash(o),
           UNCHANGED <<resultVars, apiVars>>
    PROVE  TypeOK'
<1> USE DEF TypeOK
<1>1. ResultsTypeOK' /\ ApiTypeOK'
  BY DEF ResultsTypeOK, ApiTypeOK, resultVars, apiVars
<1>2. CASE Start(o)
  BY <1>1, <1>2 DEF Start, DBTypeOK, OrchTypeOK, OrchPC, rows
<1>3. CASE BuildNothing(o)
  <2>1. DBTypeOK'
    BY <1>3, StatusTypes
       DEF BuildNothing, DBTypeOK, rows, channels, DeploymentStatus
  <2> QED
    BY <1>1, <1>3, <2>1, ReturnTypes DEF BuildNothing
<1>4. CASE Build(o)
  <2>1. OrchTypeOK'
    BY <1>4, ContinueTypes DEF Build, OrchPC
  <2>2. dep' \in DeploymentRow
    <3>1. Cardinality({d \in Devices : tgt'[d] # "absent"}) \in Nat
      BY DeviceSetsFinite
    <3> QED
      BY <1>4, <3>1 DEF Build, DBTypeOK, DeploymentRow
  <2>3. tgt' \in [Devices -> TargetStatus]
    BY <1>4 DEF Build, DBTypeOK, TargetStatus
  <2>4. wave' \in [Devices -> Nat]
    <3> DEFINE n == Cardinality(members)
    <3>1. n \in Nat
      BY DeviceSetsFinite DEF DBTypeOK
    <3>2. PICK order \in [members -> 1 .. n],
               plan \in WavePlans(Strategy, n, WaveSize, CanaryPercentage) :
            wave' = [d \in Devices |->
                IF d \in {e \in {f \in members : \E w \in 0 .. n : <<order[f], w>> \in plan} :
                            tgt[e] = "absent"}
                THEN CHOOSE w \in 0 .. n : <<order[d], w>> \in plan
                ELSE wave[d]]
      BY <1>4 DEF Build
    <3> HIDE DEF n
    <3>3. \A d \in Devices : wave'[d] \in Nat
      <4> TAKE d \in Devices
      <4>1. CASE d \in members /\ \E w \in 0 .. n : <<order[d], w>> \in plan
        <5> DEFINE c == CHOOSE w \in 0 .. n : <<order[d], w>> \in plan
        <5>1. c \in 0 .. n
          BY <4>1
        <5>2. wave'[d] = c \/ wave'[d] = wave[d]
          BY <3>2
        <5>3. wave[d] \in Nat
          BY DEF DBTypeOK
        <5> HIDE DEF c
        <5> QED
          BY <3>1, <5>1, <5>2, <5>3
      <4>2. CASE ~(d \in members /\ \E w \in 0 .. n : <<order[d], w>> \in plan)
        BY <3>2, <4>2 DEF DBTypeOK
      <4> QED
        BY <4>1, <4>2
    <3>4. wave' = [d \in Devices |-> wave'[d]]
      BY <3>2
    <3> QED
      BY <3>3, <3>4
  <2> QED
    BY <1>1, <1>4, <2>1, <2>2, <2>3, <2>4 DEF Build, DBTypeOK, channels
<1>5. CASE Plan(o)
  <2>1. OrchTypeOK'
    <3>1. CASE Return(o, "plan")
      BY <3>1, ReturnTypes
    <3>2. CASE /\ Goto(o, "plan", "check")
               /\ todo' = [todo EXCEPT ![o] = {wave[d] : d \in Rows}]
               /\ UNCHANGED <<batch, slept>>
      <4>1. {wave[d] : d \in Rows} \in SUBSET Nat
        BY DEF Rows, DBTypeOK
      <4> QED
        BY <3>2, <4>1 DEF OrchTypeOK, Goto, OrchPC
    <3> QED
      BY <1>5, <3>1, <3>2 DEF Plan
  <2> QED
    BY <1>1, <1>5, <2>1 DEF Plan, DBTypeOK, dbVars
<1>6. CASE CheckStatus(o)
  BY <1>1, <1>6, ReturnTypes, ContinueTypes DEF CheckStatus, DBTypeOK, dbVars, OrchPC
<1>7. CASE CheckPending(o)
  <2>1. OrchTypeOK'
    <3>1. PICK w \in todo[o] : IF QueuedIn(w) = {}
                               THEN Skip(o, w) /\ UNCHANGED batch
                               ELSE Continue(o, "pending", "gate")
      BY <1>7 DEF CheckPending
    <3>2. CASE Skip(o, w) /\ UNCHANGED batch
      BY <3>2 DEF Skip, OrchTypeOK, OrchPC
    <3>3. CASE Continue(o, "pending", "gate")
      BY <3>3, ContinueTypes DEF OrchPC
    <3> QED
      BY <3>1, <3>2, <3>3
  <2> QED
    BY <1>1, <1>7, <2>1 DEF CheckPending, DBTypeOK, dbVars
<1>8. CASE CheckThreshold(o)
  <2>1. PICK w \in todo[o] :
           IF FailureRateExceeded
           THEN Return(o, "gate") /\ dep' = [dep EXCEPT !.status = "failed"]
           ELSE Continue(o, "gate", "wave") /\ dep' = [dep EXCEPT !.current_wave = w]
    BY <1>8 DEF CheckThreshold
  <2>2. OrchTypeOK'
    BY <2>1, ReturnTypes, ContinueTypes DEF OrchPC
  <2>3. w \in Nat
    BY <2>1 DEF OrchTypeOK
  <2>4. dep' \in DeploymentRow
    BY <2>1, <2>3 DEF DBTypeOK, DeploymentRow, DeploymentStatus
  <2> QED
    BY <1>1, <1>8, <2>2, <2>4 DEF CheckThreshold, DBTypeOK, rows, channels
<1>9. CASE BeginWave(o)
  <2>1. PICK w \in todo[o] :
          IF QueuedIn(w) = {}
          THEN EndWave(o, w, "wave") /\ UNCHANGED health
          ELSE /\ Goto(o, "wave", "poll")
               /\ batch' = [batch EXCEPT ![o] = QueuedIn(w)]
               /\ health' = [d \in Devices |->
                      IF d \in QueuedIn(w) /\ health[d] = "none" THEN "asked" ELSE health[d]]
               /\ UNCHANGED <<todo, slept>>
    BY <1>9 DEF BeginWave
  <2>2. health' \in [Devices -> HealthRecord]
    BY <2>1 DEF DBTypeOK, HealthRecord
  <2>3. QueuedIn(w) \subseteq Devices
    BY DEF QueuedIn, Queued, InStatus
  <2>4. OrchTypeOK'
    <3>1. CASE QueuedIn(w) = {}
      BY <2>1, <3>1, EndWaveTypes
    <3>2. CASE QueuedIn(w) # {}
      BY <2>1, <2>3, <3>2 DEF OrchTypeOK, Goto, OrchPC
    <3> QED
      BY <3>1, <3>2
  <2> QED
    BY <1>1, <1>9, <2>2, <2>4 DEF BeginWave, DBTypeOK, rows, channels
<1>10. CASE PollRaises(o)
  BY <1>1, <1>10, ReturnTypes DEF PollRaises, DBTypeOK, dbVars
<1>11. CASE PollTimesOut(o)
  BY <1>1, <1>11, ContinueTypes DEF PollTimesOut, DBTypeOK, dbVars, OrchPC
<1>12. CASE Evaluate(o)
  <2>1. tgt' \in [Devices -> TargetStatus]
    BY <1>12 DEF Evaluate, DBTypeOK, TargetStatus
  <2>2. OrchTypeOK'
    BY <1>12 DEF Evaluate, OrchTypeOK, Goto, OrchPC
  <2> QED
    BY <1>1, <1>12, <2>1, <2>2 DEF Evaluate, DBTypeOK, channels
<1>13. ASSUME NEW d \in Devices, Dispatch(o, d) PROVE TypeOK'
  BY <1>1, <1>13 DEF Dispatch, DBTypeOK, OrchTypeOK, TargetStatus
<1>14. CASE FinishWave(o)
  BY <1>1, <1>14, EndWaveTypes DEF FinishWave, DBTypeOK, dbVars
<1>15. CASE Finish(o)
  <2>1. dep' \in DeploymentRow
    BY <1>15, StatusTypes DEF Finish, DBTypeOK, DeploymentStatus
  <2> QED
    BY <1>1, <1>15, <2>1, ReturnTypes DEF Finish, DBTypeOK, rows, channels
<1>16. CASE Crash(o)
  BY <1>1, <1>16, ReturnTypes DEF Crash, Fault, DBTypeOK, rows
<1> QED
  BY <1>2, <1>3, <1>4, <1>5, <1>6, <1>7, <1>8, <1>9, <1>10, <1>11, <1>12, <1>13,
     <1>14, <1>15, <1>16 DEF OrchStep
-----------------------------------------------------------------------------
\* Every step of the agents, the result workers and the monitor keeps the types.
LEMMA OutcomeTypes ==
    ASSUME TypeOK, Outcomes
    PROVE  TypeOK'
<1> USE DEF TypeOK
<1>1. OrchTypeOK' /\ ApiTypeOK'
  BY DEF Outcomes, OrchTypeOK, ApiTypeOK, orchVars, apiVars
<1>2. ASSUME NEW d \in Devices, Device(d) PROVE TypeOK'
  <2>1. CASE LoseCommand(d)
    BY <1>1, <2>1 DEF LoseCommand, DBTypeOK, ResultsTypeOK, rows, resultVars
  <2>2. CASE Age(d)
    BY <1>1, <2>2 DEF Age, DBTypeOK, ResultsTypeOK, channels, resultVars
  <2>3. ASSUME NEW ok \in BOOLEAN, AgentRuns(d, ok) PROVE TypeOK'
    BY <1>1, <2>3 DEF AgentRuns, DBTypeOK, ResultsTypeOK, rows, resultVars
  <2>4. ASSUME NEW ok \in BOOLEAN, LoseResult(d, ok) PROVE TypeOK'
    BY <1>1, <2>4 DEF LoseResult, DBTypeOK, ResultsTypeOK, rows, resultVars
  <2>5. ASSUME NEW h \in {"good", "bad"}, HealthReport(d, h) PROVE TypeOK'
    BY <1>1, <2>5 DEF HealthReport, DBTypeOK, ResultsTypeOK, HealthRecord, rows,
                      channels, resultVars
  <2> QED
    BY <1>2, <2>1, <2>2, <2>3, <2>4, <2>5 DEF Device
<1>3. ASSUME NEW k \in Workers, NEW d \in Devices, NEW ok \in BOOLEAN, Reporting(k, d, ok)
      PROVE  TypeOK'
  <2>1. CASE ReportRead(k, d, ok)
    BY <1>1, <2>1 DEF ReportRead, DBTypeOK, ResultsTypeOK, rows
  <2>2. CASE ReportWrite(k, d, ok)
    <3>1. dep' \in DeploymentRow /\ tgt' \in [Devices -> TargetStatus]
      BY <2>2 DEF ReportWrite, Record, DBTypeOK, DeploymentRow, TargetStatus
    <3> QED
      BY <1>1, <2>2, <3>1 DEF ReportWrite, DBTypeOK, ResultsTypeOK, channels
  <2>3. CASE ReportWriteNoAck(k, d, ok)
    <3>1. dep' \in DeploymentRow /\ tgt' \in [Devices -> TargetStatus]
      BY <2>3 DEF ReportWriteNoAck, Record, DBTypeOK, DeploymentRow, TargetStatus
    <3> QED
      BY <1>1, <2>3, <3>1 DEF ReportWriteNoAck, Fault, DBTypeOK, ResultsTypeOK
  <2>4. CASE ReportCrash(k, d, ok)
    BY <1>1, <2>4 DEF ReportCrash, Fault, DBTypeOK, ResultsTypeOK, rows
  <2> QED
    BY <1>3, <2>1, <2>2, <2>3, <2>4 DEF Reporting
<1>4. CASE MonitorRead
  BY <1>1, <1>4 DEF MonitorRead, DBTypeOK, ResultsTypeOK, InStatus, dbVars
<1>5. CASE MonitorWrite
  <2>1. Cardinality(stuck) \in Nat
    BY DeviceSetsFinite DEF ResultsTypeOK
  <2>2. dep' \in DeploymentRow /\ tgt' \in [Devices -> TargetStatus]
    BY <1>5, <2>1 DEF MonitorWrite, DBTypeOK, DeploymentRow, TargetStatus
  <2> QED
    BY <1>1, <1>5, <2>2 DEF MonitorWrite, DBTypeOK, ResultsTypeOK, channels
<1> QED
  BY <1>2, <1>3, <1>4, <1>5 DEF Outcomes
-----------------------------------------------------------------------------
\* Every step of the API, the cancel task and the scheduler keeps the types.
LEMMA ControlTypes ==
    ASSUME TypeOK, Control
    PROVE  TypeOK'
<1> USE DEF TypeOK
<1>1. OrchTypeOK' /\ ResultsTypeOK'
  BY DEF Control, OrchTypeOK, ResultsTypeOK, orchVars, resultVars
<1>2. ASSUME NEW v \in Views, NEW op \in Operations, Read(v, op) PROVE TypeOK'
  BY <1>1, <1>2, OperationsAssumption DEF Read, DBTypeOK, ApiTypeOK, dbVars
<1>3. ASSUME NEW v \in Views, SaveRow(v) PROVE dep' \in DeploymentRow /\ ApiTypeOK'
  <2>1. SavedStatus(request[v], row[v].status) \in DeploymentStatus
    BY DEF SavedStatus, ApiTypeOK, DeploymentRow, DeploymentStatus
  <2>2. dep' \in DeploymentRow
    BY <1>3, <2>1 DEF SaveRow, ApiTypeOK, DeploymentRow
  <2>3. NewDeployment \in DeploymentRow
    BY DEF NewDeployment, DeploymentRow, DeploymentStatus
  <2> QED
    BY <1>3, <2>2, <2>3 DEF SaveRow, ApiTypeOK
<1>4. ASSUME NEW v \in Views, Save(v) PROVE TypeOK'
  <2>1. dep' \in DeploymentRow /\ ApiTypeOK'
    BY <1>3, <1>4 DEF Save
  <2>2. UNCHANGED <<rows, health, cancelQ, cmds, res, faults>> /\ orchQ' \in Nat
    BY <1>4 DEF Save, SaveRow, DBTypeOK
  <2> QED
    BY <1>1, <2>1, <2>2 DEF DBTypeOK, rows
<1>5. ASSUME NEW v \in Views, SaveOnly(v) PROVE TypeOK'
  <2>1. dep' \in DeploymentRow /\ ApiTypeOK'
    BY <1>3, <1>5 DEF SaveOnly
  <2>2. UNCHANGED <<rows, health, orchQ, cancelQ, cmds, res>> /\ faults' \in Nat
    BY <1>5 DEF SaveOnly, SaveRow, Fault, DBTypeOK
  <2> QED
    BY <1>1, <2>1, <2>2 DEF DBTypeOK, rows
<1>6. CASE RequestCancel
  BY <1>1, <1>6 DEF RequestCancel, DBTypeOK, ApiTypeOK, rows
<1>7. CASE CancelRead
  BY <1>1, <1>7 DEF CancelRead, DBTypeOK, ApiTypeOK, rows
<1>8. CASE CancelSave
  BY <1>1, <1>8, StatusTypes
     DEF CancelSave, DBTypeOK, ApiTypeOK, rows, channels, DeploymentStatus
<1>9. CASE CancelQuery
  BY <1>1, <1>9 DEF CancelQuery, DBTypeOK, ApiTypeOK, Queued, InStatus, dbVars
<1>10. ASSUME NEW d \in Devices, CancelTarget(d) PROVE TypeOK'
  BY <1>1, <1>10 DEF CancelTarget, DBTypeOK, ApiTypeOK, TargetStatus, channels
<1>11. CASE SchedRead
  BY <1>1, <1>11 DEF SchedRead, DBTypeOK, ApiTypeOK, dbVars
<1>12. CASE SchedSave
  <2>1. dep' \in DeploymentRow
    BY <1>12, StatusTypes DEF SchedSave, DBTypeOK, DeploymentStatus
  <2> QED
    BY <1>1, <1>12, <2>1 DEF SchedSave, DBTypeOK, ApiTypeOK, rows, channels
<1>13. CASE SchedEnqueue
  BY <1>1, <1>13 DEF SchedEnqueue, DBTypeOK, ApiTypeOK, rows
<1>14. CASE SchedLost
  BY <1>1, <1>14 DEF SchedLost, Fault, DBTypeOK, ApiTypeOK, rows, channels
<1> QED
  BY <1>2, <1>4, <1>5, <1>6, <1>7, <1>8, <1>9, <1>10, <1>11, <1>12, <1>13, <1>14
     DEF Control, Requests, CancelTask, Schedule
-----------------------------------------------------------------------------
\* A new deployment has the right types.
LEMMA InitTypes == Init => TypeOK
<1> SUFFICES ASSUME Init PROVE TypeOK
  OBVIOUS
<1>1. DBTypeOK
  BY DEF Init, DBInit, DBTypeOK, NewDeployment, DeploymentRow, DeploymentStatus,
         TargetStatus, HealthRecord
<1>2. OrchTypeOK /\ ResultsTypeOK
  BY DEF Init, OrchInit, OrchTypeOK, OrchPC, SoftTimeLimit, ResultsInit, ResultsTypeOK
<1>3. ApiTypeOK
  BY DEF Init, ApiInit, ApiTypeOK, NewDeployment, DeploymentRow, DeploymentStatus
<1> QED
  BY <1>1, <1>2, <1>3 DEF TypeOK

\* Every step keeps the types.
LEMMA NextTypes == TypeOK /\ [Next]_vars => TypeOK'
<1> SUFFICES ASSUME TypeOK, [Next]_vars PROVE TypeOK'
  OBVIOUS
<1>1. CASE Orchestration
  BY <1>1, OrchTypes DEF Orchestration
<1>2. CASE Outcomes
  BY <1>2, OutcomeTypes
<1>3. CASE Control
  BY <1>3, ControlTypes
<1>4. CASE UNCHANGED vars
  BY <1>4 DEF TypeOK, DBTypeOK, OrchTypeOK, ResultsTypeOK, ApiTypeOK, vars, dbVars,
              orchVars, resultVars, apiVars
<1> QED
  BY <1>1, <1>2, <1>3, <1>4 DEF Next

\* Every state the deployment can reach has its type: in particular no view,
\* task or worker ever saves a status that is not one of the choices.
THEOREM TypeCorrect == Spec => []TypeOK
BY InitTypes, NextTypes, PTL DEF Spec
-----------------------------------------------------------------------------
(* The planner *)

\* Division with a positive divisor.
LEMMA Division ==
    ASSUME NEW a \in Nat, NEW b \in Nat, b > 0
    PROVE  /\ a \div b \in Nat
           /\ (a \div b) * b <= a
           /\ a < ((a \div b) + 1) * b
<1>1. a = b * (a \div b) + (a % b)
  BY Z3
<1>2. a \div b \in Int
  BY Z3
<1>3. a % b \in 0 .. (b - 1)
  BY Z3
<1>4. a \div b >= 0
  BY Z3
<1> QED
  BY <1>1, <1>2, <1>3, <1>4, Z3

\* Two slices of the same size do not overlap.
LEMMA SlicesDisjoint ==
    ASSUME NEW i \in Nat, NEW size \in Nat, size > 0, NEW v \in Nat, NEW w \in Nat,
           v * size < i, i <= (v + 1) * size, w * size < i, i <= (w + 1) * size
    PROVE  v = w
<1>1. ASSUME NEW x \in Nat, NEW y \in Nat, x < y PROVE (x + 1) * size <= y * size
  <2>1. PICK k \in Nat : y = x + 1 + k
    <3>1. y - x - 1 \in Nat /\ y = x + 1 + (y - x - 1)
      BY <1>1, Z3
    <3> QED
      BY <3>1
  <2>2. y * size = (x + 1) * size + k * size /\ k * size >= 0
    BY <2>1, Z3
  <2> QED
    BY <2>2, Z3
<1>2. (v + 1) * size \in Nat /\ (w + 1) * size \in Nat /\ v * size \in Nat /\ w * size \in Nat
  BY Z3
<1>3. ~(v < w) /\ ~(w < v)
  BY <1>1, <1>2, Z3
<1> QED
  BY <1>3, Z3

\* Every device after `skip` is in exactly one slice.
LEMMA ChunkedPartitions ==
    ASSUME NEW skip \in Nat, NEW n \in Nat, NEW size \in Nat, size > 0, NEW start \in Nat
    PROVE  /\ \A p \in Chunked(skip, n, size, start) :
                 p[1] \in skip + 1 .. skip + n /\ p[2] \in start .. start + n
           /\ \A p \in Chunked(skip, n, size, start) : p = <<p[1], p[2]>>
           /\ \A i \in skip + 1 .. skip + n :
                 \E w \in start .. start + n : <<i, w>> \in Chunked(skip, n, size, start)
           /\ \A p, q \in Chunked(skip, n, size, start) : p[1] = q[1] => p = q
<1> DEFINE C == Chunked(skip, n, size, start)
           In(i, w) == /\ i \in 1 .. n /\ w \in ChunkIndices(n, size)
                       /\ w * size < i /\ i <= (w + 1) * size
<1>1. ASSUME NEW p \in C
      PROVE  \E i, w : In(i, w) /\ p = <<skip + i, start + w>>
  BY DEF Chunked
<1>2. ASSUME NEW i, NEW w, In(i, w) PROVE <<skip + i, start + w>> \in C
  <2>1. <<i, w>> \in (1 .. n) \X ChunkIndices(n, size)
    BY <1>2
  <2> QED
    BY <1>2, <2>1 DEF Chunked
<1>3. ASSUME NEW i, NEW w, In(i, w) PROVE i \in 1 .. n /\ w \in 0 .. n - 1
  BY <1>3 DEF ChunkIndices
<1>4. \A p \in C : /\ p[1] \in skip + 1 .. skip + n /\ p[2] \in start .. start + n
                   /\ p = <<p[1], p[2]>>
  <2> TAKE p \in C
  <2>1. PICK i, w : In(i, w) /\ p = <<skip + i, start + w>>
    BY <1>1
  <2>2. i \in 1 .. n /\ w \in 0 .. n - 1
    BY <2>1, <1>3
  <2> HIDE DEF In
  <2> QED
    BY <2>1, <2>2
<1>5. ASSUME NEW j \in skip + 1 .. skip + n
      PROVE  \E w \in start .. start + n : <<j, w>> \in C
  <2> DEFINE i == j - skip
             w == (i - 1) \div size
  <2>1. i \in 1 .. n /\ i - 1 \in Nat
    OBVIOUS
  <2>2. w \in Nat /\ w * size <= i - 1 /\ i - 1 < (w + 1) * size
    BY <2>1, Division
  <2>3. w <= w * size
    <3> HIDE DEF w
    <3>1. w * size = w + w * (size - 1)
      BY <2>2, Z3
    <3>2. w * (size - 1) >= 0
      BY <2>2, Z3
    <3>3. w * (size - 1) \in Int
      BY <2>2
    <3> QED
      BY <2>2, <3>1, <3>2, <3>3
  <2>4. w * size \in Nat /\ (w + 1) * size \in Nat
    <3> HIDE DEF w
    <3> QED
      BY <2>2, Z3
  <2>5. In(i, w)
    <3> HIDE DEF w, i
    <3>1. w * size < i /\ i <= (w + 1) * size /\ w * size < n /\ w \in 0 .. n - 1
      BY <2>1, <2>2, <2>3, <2>4
    <3> QED
      BY <2>1, <3>1 DEF ChunkIndices
  <2>6. <<skip + i, start + w>> \in C
    BY <2>5, <1>2
  <2>7. skip + i = j /\ start + w \in start .. start + n
    <3>1. w \in 0 .. n - 1
      BY <2>5, <1>3
    <3> HIDE DEF w
    <3> QED
      BY <3>1
  <2> QED
    BY <2>6, <2>7
<1>6. ASSUME NEW p \in C, NEW q \in C, p[1] = q[1] PROVE p = q
  <2>1. PICK i, v : In(i, v) /\ p = <<skip + i, start + v>>
    BY <1>1
  <2>2. PICK j, w : In(j, w) /\ q = <<skip + j, start + w>>
    BY <1>1
  <2>3. i \in 1 .. n /\ v \in 0 .. n - 1 /\ j \in 1 .. n /\ w \in 0 .. n - 1
    BY <2>1, <2>2, <1>3
  <2>4. i = j
    <3>1. skip + i = skip + j
      BY <1>6, <2>1, <2>2
    <3> QED
      BY <2>3, <3>1
  <2>5. v = w
    BY <2>1, <2>2, <2>3, <2>4, SlicesDisjoint
  <2> QED
    BY <2>1, <2>2, <2>4, <2>5
<1> QED
  BY <1>4, <1>5, <1>6
-----------------------------------------------------------------------------
\* A plan is a total function from positions to waves.
Partition(n, plan) ==
    /\ \A p \in plan : /\ p[1] \in 1 .. n /\ p[2] \in 0 .. n
                       /\ p = <<p[1], p[2]>>
    /\ \A i \in 1 .. n : \E w \in 0 .. n : <<i, w>> \in plan
    /\ \A p, q \in plan : p[1] = q[1] => p = q

\* The wave size the code slices with is positive.
LEMMA EffectiveSizePositive ==
    ASSUME NEW s \in Nat
    PROVE  EffectiveSize(s) \in Nat /\ EffectiveSize(s) > 0
BY DEF EffectiveSize

LEMMA CanarySizesPositive ==
    ASSUME NEW n \in Nat, NEW pct \in Int
    PROVE  \A c \in CanarySizes(n, pct) : c \in Nat /\ c > 0
<1>1. (n * pct) \div 100 \in Int
  <2>1. n * pct \in Int
    OBVIOUS
  <2> QED
    BY <2>1, Z3
<1> QED
  BY <1>1 DEF CanarySizes

LEMMA CanaryPartition ==
    ASSUME NEW n \in Nat, NEW s \in Nat, NEW c \in Nat, c > 0
    PROVE  Partition(n, CanaryPlan(n, s, c))
<1> DEFINE first == IF c < n THEN c ELSE n
           A == {<<i, 0>> : i \in 1 .. first}
           B == Chunked(first, n - first, EffectiveSize(s), 1)
<1>1. first \in Nat /\ n - first \in Nat /\ first + (n - first) = n
  OBVIOUS
<1>2. CanaryPlan(n, s, c) = A \cup B
  BY DEF CanaryPlan
<1>3. EffectiveSize(s) \in Nat /\ EffectiveSize(s) > 0
  BY EffectiveSizePositive
<1>4. n - first = 0 \/ first > 0
  OBVIOUS
<1> HIDE DEF first
<1>5. /\ \A p \in B : p[1] \in first + 1 .. n /\ p[2] \in 1 .. 1 + (n - first)
                     /\ p = <<p[1], p[2]>>
      /\ \A i \in first + 1 .. n : \E w \in 1 .. 1 + (n - first) : <<i, w>> \in B
      /\ \A p, q \in B : p[1] = q[1] => p = q
  BY <1>1, <1>3, ChunkedPartitions
<1>6. \A p \in A : p[1] \in 1 .. first /\ p[2] = 0 /\ p = <<p[1], p[2]>>
  OBVIOUS
<1>7. \A i \in 1 .. first : <<i, 0>> \in A
  OBVIOUS
<1> HIDE DEF A, B
<1>8. \A p \in B : p[2] \in 0 .. n
  BY <1>1, <1>4, <1>5
<1>9. \A p \in A \cup B : p[1] \in 1 .. n /\ p[2] \in 0 .. n /\ p = <<p[1], p[2]>>
  BY <1>1, <1>5, <1>6, <1>8
<1>10. \A i \in 1 .. n : \E w \in 0 .. n : <<i, w>> \in A \cup B
  <2> SUFFICES ASSUME NEW i \in 1 .. n PROVE \E w \in 0 .. n : <<i, w>> \in A \cup B
    OBVIOUS
  <2>1. CASE i \in 1 .. first
    BY <1>1, <1>7, <2>1
  <2>2. CASE i \in first + 1 .. n
    <3>1. PICK w \in 1 .. 1 + (n - first) : <<i, w>> \in B
      BY <1>5, <2>2
    <3> QED
      BY <1>1, <1>4, <3>1
  <2> QED
    BY <1>1, <2>1, <2>2
<1>11. ASSUME NEW p \in A \cup B, NEW q \in A \cup B, p[1] = q[1] PROVE p = q
  <2>1. CASE p \in A /\ q \in A
    BY <1>6, <1>11, <2>1
  <2>2. CASE p \in B /\ q \in B
    BY <1>5, <1>11, <2>2
  <2>3. ~(p \in A /\ q \in B) /\ ~(p \in B /\ q \in A)
    BY <1>1, <1>5, <1>6, <1>11
  <2> QED
    BY <2>1, <2>2, <2>3
<1> QED
  BY <1>2, <1>9, <1>10, <1>11 DEF Partition

\* Every plan _build_wave_targets can produce gives each device one wave.
THEOREM PlansPartition ==
    \A s \in Strategies, n \in Nat, size \in Nat, pct \in Int :
       \A p \in WavePlans(s, n, size, pct) : Partition(n, p)
<1> SUFFICES ASSUME NEW s \in Strategies, NEW n \in Nat, NEW size \in Nat, NEW pct \in Int
             PROVE  \A p \in WavePlans(s, n, size, pct) : Partition(n, p)
  OBVIOUS
<1>1. Partition(n, ImmediatePlan(n))
  BY DEF Partition, ImmediatePlan
<1>2. Partition(n, RollingPlan(n, size))
  <2>1. EffectiveSize(size) \in Nat /\ EffectiveSize(size) > 0
    BY EffectiveSizePositive
  <2> DEFINE C == Chunked(0, n, EffectiveSize(size), 0)
  <2>2. /\ \A p \in C : p[1] \in 0 + 1 .. 0 + n /\ p[2] \in 0 .. 0 + n
        /\ \A p \in C : p = <<p[1], p[2]>>
        /\ \A i \in 0 + 1 .. 0 + n : \E w \in 0 .. 0 + n : <<i, w>> \in C
        /\ \A p, q \in C : p[1] = q[1] => p = q
    BY <2>1, ChunkedPartitions
  <2>3. RollingPlan(n, size) = C
    BY DEF RollingPlan
  <2> HIDE DEF C
  <2> QED
    BY <2>2, <2>3 DEF Partition
<1>3. \A c \in CanarySizes(n, pct) : Partition(n, CanaryPlan(n, size, c))
  BY CanarySizesPositive, CanaryPartition
<1> QED
  BY <1>1, <1>2, <1>3 DEF WavePlans, Strategies
-----------------------------------------------------------------------------
(* The sizes of the waves *)

WavesOf(C) == {p[2] : p \in C}
DevicesIn(C, w) == {i \in {p[1] : p \in C} : <<i, w>> \in C}

\* The waves of C are start .. last, at most size long, all but the last full.
Cut(C, start, last, size) ==
    /\ WavesOf(C) = start .. last
    /\ \A w \in start .. last : Cardinality(DevicesIn(C, w)) <= size
    /\ \A w \in start .. last : w < last => Cardinality(DevicesIn(C, w)) = size

\* The slices are numbered without a gap; all have the wave size but the last,
\* which is not larger.
LEMMA SliceSizes ==
    ASSUME NEW skip \in Nat, NEW n \in Nat, n > 0, NEW size \in Nat, size > 0,
           NEW start \in Nat
    PROVE  \E last \in Nat :
             Cut(Chunked(skip, n, size, start), start, start + last, size)
<1> DEFINE C == Chunked(skip, n, size, start)
           last == (n - 1) \div size
           To(v) == IF v = last THEN n ELSE (v + 1) * size
<1>1. last \in Nat /\ last * size <= n - 1 /\ n - 1 < (last + 1) * size
  <2>1. n - 1 \in Nat
    OBVIOUS
  <2> QED
    BY <2>1, Division
<1>2. ASSUME NEW v \in Nat PROVE v * size \in Nat /\ (v + 1) * size = v * size + size
  BY Z3
<1> HIDE DEF last
<1>3. ASSUME NEW v \in Nat, NEW u \in Nat, v < u PROVE (v + 1) * size <= u * size
  <2>1. PICK k \in Nat : u = v + 1 + k
    <3>1. u - v - 1 \in Nat /\ u = v + 1 + (u - v - 1)
      BY <1>3
    <3> QED
      BY <3>1
  <2>2. u * size = (v + 1) * size + k * size /\ k * size >= 0
    BY <2>1, Z3
  <2>3. k * size \in Nat /\ (v + 1) * size \in Nat
    BY <1>2
  <2> QED
    BY <2>2, <2>3
<1>4. ASSUME NEW v \in Nat PROVE v * size < n <=> v <= last
  <2>1. CASE v <= last
    <3>1. v * size <= last * size
      <4>1. CASE v = last
        BY <1>1, <1>2, <4>1
      <4>2. CASE v < last
        <5>1. (v + 1) * size <= last * size
          BY <1>1, <1>3, <4>2
        <5> QED
          BY <1>1, <1>2, <5>1
      <4> QED
        BY <1>1, <2>1, <4>1, <4>2
    <3> QED
      BY <1>1, <1>2, <2>1, <3>1
  <2>2. CASE last < v
    <3>1. (last + 1) * size <= v * size
      BY <1>1, <1>3, <2>2
    <3> QED
      BY <1>1, <1>2, <2>2, <3>1
  <2> QED
    BY <1>1, <2>1, <2>2
<1>5. ASSUME NEW v \in 0 .. last
      PROVE  /\ v \in ChunkIndices(n, size) /\ v * size \in Nat /\ To(v) \in Nat
             /\ v * size < To(v) /\ To(v) <= n /\ To(v) - v * size <= size
             /\ v < last => To(v) - v * size = size
             /\ \A i \in 1 .. n : i <= (v + 1) * size <=> i <= To(v)
  <2>1. v \in Nat /\ v * size \in Nat /\ (v + 1) * size = v * size + size /\ v * size < n
    BY <1>1, <1>2, <1>4
  <2>2. v <= n - 1
    <3>1. v * size >= v
      <4>1. v * size = v + v * (size - 1) /\ v * (size - 1) >= 0 /\ v * (size - 1) \in Int
        BY <2>1, Z3
      <4> QED
        BY <2>1, <4>1
    <3> QED
      BY <2>1, <3>1
  <2>3. CASE v = last
    BY <1>1, <2>1, <2>2, <2>3 DEF ChunkIndices
  <2>4. CASE v < last
    <3>1. (v + 1) * size < n
      <4>1. v + 1 <= last /\ v + 1 \in Nat
        BY <1>1, <2>1, <2>4
      <4> QED
        BY <1>4, <4>1
    <3> QED
      BY <2>1, <2>2, <2>4, <3>1 DEF ChunkIndices
  <2> QED
    BY <1>1, <2>3, <2>4
<1>6. ASSUME NEW v, v \in ChunkIndices(n, size) PROVE v \in 0 .. last
  <2>1. v \in Nat /\ v * size < n
    BY <1>6 DEF ChunkIndices
  <2> QED
    BY <1>1, <1>4, <2>1
<1>7. \A i, w : <<i, w>> \in C <=> \E j \in 1 .. n, v \in 0 .. last :
        i = skip + j /\ w = start + v /\ v * size < j /\ j <= To(v)
  <2>1. ASSUME NEW i, NEW w, <<i, w>> \in C
        PROVE  \E j \in 1 .. n, v \in 0 .. last :
                 i = skip + j /\ w = start + v /\ v * size < j /\ j <= To(v)
    <3>1. PICK j \in 1 .. n, v \in ChunkIndices(n, size) :
            <<i, w>> = <<skip + j, start + v>> /\ v * size < j /\ j <= (v + 1) * size
      BY <2>1 DEF Chunked
    <3>2. v \in 0 .. last
      BY <1>6
    <3> HIDE DEF To
    <3> QED
      BY <1>5, <3>1, <3>2
  <2>2. ASSUME NEW j \in 1 .. n, NEW v \in 0 .. last, v * size < j, j <= To(v)
        PROVE  <<skip + j, start + v>> \in C
    <3>1. v \in ChunkIndices(n, size) /\ j <= (v + 1) * size
      BY <1>5, <2>2
    <3>2. <<j, v>> \in (1 .. n) \X ChunkIndices(n, size)
      BY <3>1
    <3> QED
      BY <2>2, <3>1, <3>2 DEF Chunked
  <2> HIDE DEF C, To
  <2> QED
    BY <2>1, <2>2
<1>8. \A p \in C : p = <<p[1], p[2]>>
  BY DEF Chunked
<1> HIDE DEF C
<1>9. WavesOf(C) = start .. start + last
  <2>1. ASSUME NEW w \in start .. start + last PROVE w \in WavesOf(C)
    <3> DEFINE v == w - start
               j == To(v)
    <3>1. v \in 0 .. last /\ start + v = w
      BY <1>1
    <3> HIDE DEF v, To
    <3>2. j \in 1 .. n /\ v * size < j
      BY <1>5, <3>1
    <3>3. <<skip + j, w>> \in C
      BY <1>7, <3>1, <3>2
    <3> QED
      BY <3>3 DEF WavesOf
  <2>2. ASSUME NEW p \in C PROVE p[2] \in start .. start + last
    <3>1. <<p[1], p[2]>> \in C
      BY <1>8
    <3>2. PICK v \in 0 .. last : p[2] = start + v
      BY <1>7, <3>1
    <3> QED
      BY <1>1, <3>2
  <2> QED
    BY <2>1, <2>2 DEF WavesOf
<1>10. ASSUME NEW w \in start .. start + last
       PROVE  /\ Cardinality(DevicesIn(C, w)) <= size
              /\ w < start + last => Cardinality(DevicesIn(C, w)) = size
  <2> DEFINE v == w - start
             a == v * size
             b == To(v)
  <2>1. v \in 0 .. last /\ start + v = w /\ v \in Nat
    BY <1>1
  <2> HIDE DEF v, To
  <2>2. /\ a \in Nat /\ b \in Nat /\ a < b /\ b <= n /\ b - a <= size
        /\ v < last => b - a = size
    BY <1>5, <2>1
  <2>3. ASSUME NEW i PROVE <<i, w>> \in C <=> i \in skip + a + 1 .. skip + b
    <3>1. <<i, w>> \in C <=> \E j \in 1 .. n, u \in 0 .. last :
            i = skip + j /\ w = start + u /\ u * size < j /\ j <= To(u)
      BY <1>7
    <3>2. ASSUME NEW u \in 0 .. last, w = start + u PROVE u = v
      BY <1>1, <2>1, <3>2
    <3>3. <<i, w>> \in C <=> \E j \in 1 .. n : i = skip + j /\ a < j /\ j <= b
      BY <2>1, <3>1, <3>2
    <3> HIDE DEF a, b
    <3>4. ASSUME NEW j \in 1 .. n, i = skip + j, a < j, j <= b
          PROVE  i \in skip + a + 1 .. skip + b
      BY <2>2, <3>4
    <3>5. ASSUME i \in skip + a + 1 .. skip + b
          PROVE  i - skip \in 1 .. n /\ i = skip + (i - skip) /\ a < i - skip /\ i - skip <= b
      BY <2>2, <3>5
    <3> QED
      BY <3>3, <3>4, <3>5
  <2>4. DevicesIn(C, w) = skip + a + 1 .. skip + b
    <3>1. ASSUME NEW i, <<i, w>> \in C PROVE i \in {p[1] : p \in C}
      BY <3>1
    <3> HIDE DEF a, b
    <3> QED
      BY <2>3, <3>1 DEF DevicesIn
  <2> HIDE DEF a, b
  <2>5. Cardinality(DevicesIn(C, w)) = b - a
    <3> DEFINE x == skip + a + 1
               y == skip + b
    <3>1. x \in Int /\ y \in Int /\ y - x + 1 = b - a /\ ~(x > y)
      BY <2>2
    <3>2. DevicesIn(C, w) = x .. y
      BY <2>4
    <3> HIDE DEF x, y
    <3>3. Cardinality(x .. y) = IF x > y THEN 0 ELSE y - x + 1
      BY <3>1, FS_Interval
    <3> QED
      BY <3>1, <3>2, <3>3
  <2>6. w < start + last => v < last
    BY <1>1, <2>1
  <2> QED
    BY <2>2, <2>5, <2>6
<1> QED
  BY <1>1, <1>9, <1>10 DEF C, Cut

\* What WaveSizesRespected says of the plan C of n devices.
Sized(C, s, n, ws, pct) ==
    LET first == IF s = "canary" THEN 1 ELSE 0
        last  == Cardinality(WavesOf(C)) - 1
        size  == EffectiveSize(ws)
        canary == Cardinality(DevicesIn(C, 0))
    IN  /\ WavesOf(C) = 0 .. last
        /\ s # "immediate" =>
             /\ \A w \in first .. last : Cardinality(DevicesIn(C, w)) <= size
             /\ \A w \in first .. last - 1 : Cardinality(DevicesIn(C, w)) = size
        /\ s = "canary" => canary = 1 \/ canary * 100 <= pct * n

LEMMA WaveCount ==
    ASSUME NEW L \in Nat
    PROVE  Cardinality(0 .. L) - 1 = L
<1>1. Cardinality(0 .. L) = IF 0 > L THEN 0 ELSE L - 0 + 1
  BY FS_Interval
<1> QED
  BY <1>1

\* No slice is cut with a negative size, nor from no devices.
LEMMA NoSlices ==
    ASSUME NEW skip, NEW n \in Nat, NEW size \in Int, n = 0 \/ size < 0, NEW start
    PROVE  Chunked(skip, n, size, start) = {}
<1>1. ChunkIndices(n, size) = {}
  BY DEF ChunkIndices
<1> QED
  BY <1>1 DEF Chunked

LEMMA WaveZero ==
    ASSUME NEW C, NEW i, <<i, 0>> \in C, \A p \in C : p[2] = 0
    PROVE  WavesOf(C) = 0 .. 0
<1>1. \A x : x \in WavesOf(C) <=> x = 0
  <2>1. <<i, 0>>[2] = 0
    OBVIOUS
  <2> QED
    BY <2>1 DEF WavesOf
<1>2. \A x : x \in 0 .. 0 <=> x = 0
  OBVIOUS
<1> QED
  BY <1>1, <1>2

LEMMA ImmediateSized ==
    ASSUME NEW n \in Nat, n > 0, NEW ws, NEW pct
    PROVE  Sized(ImmediatePlan(n), "immediate", n, ws, pct)
<1>1. <<1, 0>> \in ImmediatePlan(n)
  BY DEF ImmediatePlan
<1>2. \A p \in ImmediatePlan(n) : p[2] = 0
  BY DEF ImmediatePlan
<1>3. WavesOf(ImmediatePlan(n)) = 0 .. 0
  BY <1>1, <1>2, WaveZero
<1> QED
  BY <1>3, WaveCount DEF Sized

\* Rolling and maintenance: slices only.
LEMMA RollingSized ==
    ASSUME NEW s \in {"rolling", "maintenance"}, NEW n \in Nat, n > 0,
           NEW ws \in Int, NEW pct
    PROVE  Sized(RollingPlan(n, ws), s, n, ws, pct)
<1> DEFINE C == RollingPlan(n, ws)
           size == EffectiveSize(ws)
<1>1. C = Chunked(0, n, size, 0)
  BY DEF RollingPlan
<1>2. size \in Int /\ size # 0
  BY DEF EffectiveSize
<1> HIDE DEF C, size
<1>3. CASE size < 0
  <2>1. C = {}
    BY <1>1, <1>2, <1>3, NoSlices
  <2>2. WavesOf(C) = {} /\ Cardinality(WavesOf(C)) - 1 = -1
    BY <2>1, FS_EmptySet DEF WavesOf
  <2> QED
    BY <2>2 DEF Sized, C
<1>4. CASE size > 0
  <2>1. size \in Nat /\ 0 \in Nat
    BY <1>2, <1>4
  <2>2. \E L \in Nat : Cut(Chunked(0, n, size, 0), 0, 0 + L, size)
    BY <2>1, <1>4, SliceSizes
  <2>3. PICK L \in Nat : Cut(C, 0, L, size)
    BY <1>1, <2>2
  <2>4. Cardinality(WavesOf(C)) - 1 = L
    BY <2>3, WaveCount DEF Cut
  <2>5. \A w \in 0 .. L - 1 : w \in 0 .. L /\ w < L
    OBVIOUS
  <2> QED
    BY <2>3, <2>4, <2>5 DEF Sized, Cut, C, size
<1> QED
  BY <1>2, <1>3, <1>4

\* max(1, int(...)) is 1, or at most the percentage.
LEMMA CanarySmall ==
    ASSUME NEW n \in Nat, NEW pct \in Int, NEW c \in CanarySizes(n, pct)
    PROVE  c = 1 \/ c * 100 <= pct * n
<1> DEFINE t == n * pct
           e == t \div 100
<1>1. t \in Int /\ t = pct * n
  OBVIOUS
<1> HIDE DEF t
<1>2. e \in Int /\ e * 100 <= t
  BY <1>1, Z3
<1>3. c \in {1, e, e - 1}
  BY <1>1, <1>2 DEF CanarySizes, t
<1> HIDE DEF e
<1>4. c = 1 \/ c * 100 <= t
  BY <1>2, <1>3, <1>1
<1> QED
  BY <1>1, <1>4

\* The canary, then slices of the others.
LEMMA CanarySized ==
    ASSUME NEW n \in Nat, n > 0, NEW ws \in Int, NEW pct \in Int,
           NEW c \in CanarySizes(n, pct)
    PROVE  Sized(CanaryPlan(n, ws, c), "canary", n, ws, pct)
<1> DEFINE size == EffectiveSize(ws)
           first == IF c < n THEN c ELSE n
           m == n - first
           A == {<<i, 0>> : i \in 1 .. first}
           B == Chunked(first, m, size, 1)
           C == A \cup B
<1>1. c \in Nat /\ c > 0
  BY CanarySizesPositive
<1>2. first \in Nat /\ first > 0 /\ m \in Nat /\ first <= c /\ first <= n
  BY <1>1
<1>3. CanaryPlan(n, ws, c) = C
  BY DEF CanaryPlan
<1>4. size \in Int /\ size # 0
  BY DEF EffectiveSize
<1>5. first = 1 \/ first * 100 <= pct * n
  <2>1. pct * n \in Int
    OBVIOUS
  <2> DEFINE q == pct * n
  <2> HIDE DEF q, first
  <2>2. c = 1 \/ c * 100 <= q
    BY CanarySmall DEF q
  <2> QED
    BY <1>1, <1>2, <2>1, <2>2 DEF q
<1> HIDE DEF first, m, size, B
<1>6. ASSUME \A p \in B : p[2] # 0 PROVE Cardinality(DevicesIn(C, 0)) = first
  <2>1. ASSUME NEW i PROVE <<i, 0>> \in C <=> i \in 1 .. first
    BY <1>6
  <2>2. ASSUME NEW i \in 1 .. first PROVE i \in {p[1] : p \in C}
    <3>1. <<i, 0>> \in C /\ <<i, 0>>[1] = i
      OBVIOUS
    <3> HIDE DEF C
    <3> QED
      BY <3>1
  <2> HIDE DEF C
  <2>3. DevicesIn(C, 0) = 1 .. first
    BY <2>1, <2>2 DEF DevicesIn
  <2>4. Cardinality(1 .. first) = IF 1 > first THEN 0 ELSE first - 1 + 1
    BY <1>2, FS_Interval
  <2> QED
    BY <1>2, <2>3, <2>4
<1>7. <<1, 0>> \in A /\ \A p \in A : p[2] = 0
  BY <1>2
<1>8. CASE m = 0 \/ size < 0
  <2>1. B = {}
    BY <1>2, <1>4, <1>8, NoSlices DEF B
  <2>2. WavesOf(C) = 0 .. 0
    BY <1>7, <2>1, WaveZero
  <2>3. Cardinality(WavesOf(C)) - 1 = 0
    BY <2>2, WaveCount
  <2>4. Cardinality(DevicesIn(C, 0)) = first
    BY <1>6, <2>1
  <2> HIDE DEF C
  <2> QED
    BY <1>3, <1>5, <2>2, <2>3, <2>4 DEF Sized
<1>9. CASE m > 0 /\ size > 0
  <2>1. size \in Nat /\ 1 \in Nat
    BY <1>4, <1>9
  <2>2. \E L \in Nat : Cut(Chunked(first, m, size, 1), 1, 1 + L, size)
    BY <1>2, <2>1, <1>9, SliceSizes
  <2>3. PICK L \in Nat : Cut(B, 1, 1 + L, size)
    BY <2>2 DEF B
  <2>4. WavesOf(C) = 0 .. (1 + L)
    <3>1. WavesOf(B) = 1 .. 1 + L
      BY <2>3 DEF Cut
    <3>2. \A x : x \in WavesOf(C) <=> x = 0 \/ x \in WavesOf(B)
      <4>1. WavesOf(A) = 0 .. 0
        BY <1>7, WaveZero
      <4>2. \A x : x \in WavesOf(C) <=> x \in WavesOf(A) \/ x \in WavesOf(B)
        BY DEF WavesOf
      <4> HIDE DEF A, C
      <4>3. \A x : x \in 0 .. 0 <=> x = 0
        OBVIOUS
      <4> QED
        BY <4>1, <4>2, <4>3
    <3>3. \A x : x = 0 \/ x \in 1 .. 1 + L <=> x \in 0 .. (1 + L)
      OBVIOUS
    <3> QED
      BY <3>1, <3>2, <3>3
  <2>5. 1 + L \in Nat /\ 1 + L - 1 = L
    OBVIOUS
  <2>6. Cardinality(WavesOf(C)) - 1 = 1 + L
    BY <2>4, <2>5, WaveCount
  <2>7. \A p \in B : p[2] # 0
    <3>1. \A p \in B : p[2] \in 1 .. 1 + L
      BY <2>3 DEF WavesOf, Cut
    <3> QED
      BY <3>1
  <2>8. Cardinality(DevicesIn(C, 0)) = first
    BY <1>6, <2>7
  <2>9. ASSUME NEW w \in 1 .. 1 + L PROVE DevicesIn(C, w) = DevicesIn(B, w)
    <3>1. \A i : <<i, w>> \in C <=> <<i, w>> \in B
      BY <1>7
    <3>2. \A i : <<i, w>> \in B => i \in {p[1] : p \in B} /\ i \in {p[1] : p \in C}
      BY <3>1
    <3> HIDE DEF C
    <3> QED
      BY <3>1, <3>2 DEF DevicesIn
  <2> HIDE DEF C
  <2>10. \A w \in 1 .. 1 + L : Cardinality(DevicesIn(C, w)) <= size
    BY <2>3, <2>9 DEF Cut
  <2>11. \A w \in 1 .. 1 + L - 1 : w \in 1 .. 1 + L /\ w < 1 + L
    BY <2>5
  <2>12. \A w \in 1 .. 1 + L - 1 : Cardinality(DevicesIn(C, w)) = size
    BY <2>3, <2>9, <2>11 DEF Cut
  <2> QED
    BY <1>3, <1>5, <2>4, <2>6, <2>8, <2>10, <2>12 DEF Sized, size
<1> QED
  BY <1>2, <1>4, <1>8, <1>9

\* Every plan of n devices gives each of them a wave.
LEMMA PlansComplete ==
    ASSUME NEW s \in Strategies, NEW n \in Nat, NEW size \in Nat, NEW pct \in Int
    PROVE  \A p \in WavePlans(s, n, size, pct) :
              \A i \in 1 .. n : \E w \in 0 .. n : <<i, w>> \in p
BY PlansPartition DEF Partition
-----------------------------------------------------------------------------
(* The planner as a computation: any inputs, whatever deployment they are  *)
(* columns of.                                                             *)

\* _build_wave_targets: with wave sizes that are not negative, every device
\* gets exactly one row, whatever the numbers are.
THEOREM EveryDeviceOnceHolds ==
    ASSUME Sizes \subseteq Nat
    PROVE  PlanSpec => []EveryDeviceOnce
<1> DEFINE Inv == /\ strategy \in Strategies /\ total \in Nat
                  /\ waveSize \in Nat /\ percentage \in Int
                  /\ (built => Partition(total, targets))
<1>1. PlanInit => Inv
  BY InputsAssumption DEF PlanInit
<1>2. Inv /\ [PlanNext]_planVars => Inv'
  <2> SUFFICES ASSUME Inv, [PlanNext]_planVars PROVE Inv'
    OBVIOUS
  <2>1. CASE BuildPlan
    BY <2>1, PlansPartition DEF BuildPlan, planInputs
  <2>2. CASE UNCHANGED planVars
    BY <2>2 DEF planVars, planInputs
  <2> QED
    BY <2>1, <2>2 DEF PlanNext
<1>3. Inv => EveryDeviceOnce
  BY DEF EveryDeviceOnce, Partition, Positions
<1> QED
  BY <1>1, <1>2, <1>3, PTL DEF PlanSpec

\* _build_wave_targets: the waves are numbered without a gap, none but the last
\* is smaller than wave_size, none but the canary may be larger, and the canary
\* keeps to its percentage or is a single device - whatever the numbers are.
THEOREM WaveSizesRespectedHolds == PlanSpec => []WaveSizesRespected
<1> DEFINE Inv == /\ strategy \in Strategies /\ total \in Nat
                  /\ waveSize \in Int /\ percentage \in Int
                  /\ (built => Sized(targets, strategy, total, waveSize, percentage))
<1>1. PlanInit => Inv
  BY InputsAssumption DEF PlanInit
<1>2. Inv /\ [PlanNext]_planVars => Inv'
  <2> SUFFICES ASSUME Inv, [PlanNext]_planVars PROVE Inv'
    OBVIOUS
  <2>1. CASE BuildPlan
    <3>1. Sized(targets', strategy, total, waveSize, percentage)
      <4>1. CASE strategy = "immediate"
        BY <2>1, <4>1, ImmediateSized DEF BuildPlan, WavePlans
      <4>2. CASE strategy = "canary"
        BY <2>1, <4>2, CanarySized DEF BuildPlan, WavePlans
      <4>3. CASE strategy \in {"rolling", "maintenance"}
        BY <2>1, <4>3, RollingSized DEF BuildPlan, WavePlans
      <4> QED
        BY <4>1, <4>2, <4>3 DEF Strategies
    <3> QED
      BY <2>1, <3>1 DEF BuildPlan, planInputs
  <2>2. CASE UNCHANGED planVars
    BY <2>2 DEF planVars, planInputs
  <2> QED
    BY <2>1, <2>2 DEF PlanNext
<1>3. Inv => WaveSizesRespected
  BY DEF WaveSizesRespected, Sized, WavesUsed, WavesOf, InWave, DevicesIn, Positions
<1> QED
  BY <1>1, <1>2, <1>3, PTL DEF PlanSpec
-----------------------------------------------------------------------------
(* Steps of one slot that leave the rows alone *)

\* What the other slots hold.
OthersUnchanged(o) ==
    \A p \in Orchestrators : p # o =>
        pc'[p] = pc[p] /\ todo'[p] = todo[p] /\ batch'[p] = batch[p]

\* If a slot moves and no row does, only what the slot itself holds matters.
LEMMA SlotStep ==
    ASSUME IInv, TypeOK', NEW o \in Orchestrators, OthersUnchanged(o),
           UNCHANGED <<tgt, wave, started, members, cmds, res, resultVars, apiVars>>,
           SlotInv(o)',
           dep'.status = "completed" => dep.status = "completed" \/ Settled
    PROVE  IInv'
<1>1. Rows' = Rows /\ Queued' = Queued /\ Dispatched' = Dispatched
      /\ \A w : QueuedIn(w)' = QueuedIn(w)
  BY DEF Rows, Queued, InStatus, Dispatched, QueuedIn
<1>2. RowsOfMembers'
  BY <1>1 DEF IInv, RowsOfMembers, apiVars
<1>3. Quiet'
  BY <1>1 DEF IInv, Quiet, resultVars
<1>4. StartedInOrder'
  BY <1>1 DEF IInv, StartedInOrder
<1>5. ASSUME NEW p \in Orchestrators PROVE SlotInv(p)'
  <2>1. CASE p = o
    BY <2>1
  <2>2. CASE p # o
    <3>1. SlotInv(p) /\ pc'[p] = pc[p] /\ todo'[p] = todo[p] /\ batch'[p] = batch[p]
      BY <2>2 DEF IInv, OthersUnchanged
    <3> QED
      BY <1>1, <3>1
         DEF SlotInv, RowsExist, WavesAhead, BatchIsCurrent, CurrentWave
  <2> QED
    BY <2>1, <2>2
<1>6. CompletedSettled'
  BY <1>1 DEF IInv, CompletedSettled, Settled, apiVars
<1> QED
  BY <1>2, <1>3, <1>4, <1>5, <1>6 DEF IInv

\* A task that returns holds nothing.
LEMMA ReturnStep ==
    ASSUME IInv, TypeOK', NEW o \in Orchestrators, NEW from, Return(o, from),
           UNCHANGED <<tgt, wave, started, members, cmds, res, resultVars, apiVars>>,
           dep'.status = "completed" => dep.status = "completed" \/ Settled
    PROVE  IInv'
<1>1. OthersUnchanged(o) /\ pc'[o] = "idle" /\ batch'[o] = {}
  BY DEF OthersUnchanged, Return, Goto, IInv, TypeOK, OrchTypeOK
<1>2. SlotInv(o)'
  BY <1>1 DEF SlotInv, RowsExist, WavesAhead, BatchIsCurrent
<1> QED
  BY <1>1, <1>2, SlotStep

\* A task that goes on keeps the waves it had ahead.
LEMMA ContinueStep ==
    ASSUME IInv, TypeOK', NEW o \in Orchestrators, NEW from, NEW to,
           from \notin {"idle", "build", "plan"}, to # "dispatch", Continue(o, from, to),
           UNCHANGED <<tgt, wave, started, members, cmds, res, resultVars, apiVars>>,
           dep'.status = dep.status
    PROVE  IInv'
<1>1. /\ OthersUnchanged(o) /\ pc'[o] = to /\ pc[o] = from
      /\ todo'[o] = todo[o] /\ batch'[o] = batch[o]
  BY DEF OthersUnchanged, Continue, Goto, IInv, TypeOK, OrchTypeOK
<1>2. SlotInv(o)'
  <2>1. Rows' = Rows /\ Queued' = Queued
    BY DEF Rows, Queued, InStatus
  <2> QED
    BY <1>1, <2>1 DEF IInv, SlotInv, RowsExist, WavesAhead, BatchIsCurrent
<1> QED
  BY <1>1, <1>2, SlotStep

\* A wave may be taken off the loop when nothing of it is queued.
LEMMA WaveDone ==
    ASSUME IInv, NEW o \in Orchestrators, pc[o] \notin {"idle", "build", "plan"},
           NEW w, QueuedIn(w) = {},
           pc'[o] = "check", todo'[o] = todo[o] \ {w}, batch'[o] \subseteq batch[o],
           UNCHANGED <<tgt, wave>>
    PROVE  SlotInv(o)'
<1>1. Rows' = Rows /\ Queued' = Queued
  BY DEF Rows, Queued, InStatus
<1>2. \A q \in Queued : wave[q] # w
  BY DEF QueuedIn
<1> QED
  BY <1>1, <1>2 DEF IInv, SlotInv, RowsExist, WavesAhead, BatchIsCurrent

\* The end of a wave of which nothing is queued.
LEMMA EndWaveStep ==
    ASSUME IInv, TypeOK', NEW o \in Orchestrators, NEW w, NEW from,
           from \notin {"idle", "build", "plan"}, QueuedIn(w) = {}, EndWave(o, w, from),
           UNCHANGED <<tgt, wave, started, members, cmds, res, resultVars, apiVars>>,
           dep'.status = dep.status
    PROVE  IInv'
<1>1. CASE Return(o, from)
  BY <1>1, ReturnStep
<1>2. CASE /\ Goto(o, from, "check")
           /\ todo' = [todo EXCEPT ![o] = @ \ {w}]
           /\ batch' = [batch EXCEPT ![o] = {}]
  <2>1. /\ OthersUnchanged(o) /\ pc'[o] = "check" /\ pc[o] = from
        /\ todo'[o] = todo[o] \ {w} /\ batch'[o] = {}
    BY <1>2 DEF OthersUnchanged, Goto, IInv, TypeOK, OrchTypeOK
  <2>2. SlotInv(o)'
    BY <2>1, WaveDone
  <2> QED
    BY <2>1, <2>2, SlotStep
<1> QED
  BY <1>1, <1>2 DEF EndWave
-----------------------------------------------------------------------------
(* The steps of the orchestrator *)

\* _build_wave_targets: all the members get a row, or none does.
LEMMA BuildStep ==
    ASSUME IInv, TypeOK', NEW o \in Orchestrators, Build(o),
           UNCHANGED <<resultVars, apiVars>>
    PROVE  IInv'
<1> DEFINE n == Cardinality(members)
<1>1. members \in SUBSET Devices /\ n \in Nat
  BY DeviceSetsFinite DEF IInv, TypeOK, DBTypeOK
<1>2. PICK order \in [members -> 1 .. n],
           plan \in WavePlans(Strategy, n, WaveSize, CanaryPercentage) :
        LET planned == {d \in members : \E w \in 0 .. n : <<order[d], w>> \in plan}
            created == {d \in planned : tgt[d] = "absent"}
        IN  /\ tgt' = [d \in Devices |-> IF d \in created THEN "queued" ELSE tgt[d]]
            /\ wave' = [d \in Devices |->
                   IF d \in created
                   THEN CHOOSE w \in 0 .. n : <<order[d], w>> \in plan
                   ELSE wave[d]]
  BY DEF Build
<1>3. UNCHANGED <<started, members, cmds, res, job, stuck, cancelling, row, todo, batch>>
      /\ members # {}
  BY DEF Build, Continue, channels, resultVars, apiVars
<1>4. /\ OthersUnchanged(o) /\ pc[o] = "build" /\ pc'[o] = "plan"
      /\ todo'[o] = todo[o] /\ batch'[o] = batch[o]
  BY DEF OthersUnchanged, Build, Continue, Goto, IInv, TypeOK, OrchTypeOK
<1>5. dep'.status = dep.status
  BY DEF Build, IInv, TypeOK, DBTypeOK, DeploymentRow
<1>6. \A d \in members : \E w \in 0 .. n : <<order[d], w>> \in plan
  <2>1. \A i \in 1 .. n : \E w \in 0 .. n : <<i, w>> \in plan
    BY <1>1, <1>2, PlansComplete, StrategyAssumption, ColumnsAssumption
  <2> QED
    BY <1>2, <2>1
<1>7. \A d \in Devices : tgt'[d] = IF d \in members /\ tgt[d] = "absent"
                                   THEN "queued" ELSE tgt[d]
  BY <1>2, <1>6
<1>8. \A d \in Devices : tgt[d] # "absent" => wave'[d] = wave[d]
  BY <1>2
<1>9. Rows' = members /\ (Rows = {} \/ Rows = members)
  BY <1>1, <1>7 DEF Rows, IInv, RowsOfMembers
<1>10. Dispatched' = Dispatched
  BY <1>7 DEF Dispatched
<1>11. CASE Rows = {}
  <2>1. \A d \in Devices : tgt[d] = "absent" /\ started[d] = 0
    BY <1>11 DEF Rows, IInv, Quiet
  <2>2. Quiet'
    BY <1>3, <1>10, <2>1 DEF IInv, Quiet
  <2>3. StartedInOrder'
    BY <1>3, <2>1 DEF StartedInOrder, Queued, InStatus
  <2>4. ASSUME NEW p \in Orchestrators PROVE SlotInv(p)'
    <3>1. pc[p] \in {"idle", "build"} /\ batch[p] = {}
      BY <1>11 DEF IInv, SlotInv, RowsExist
    <3>2. pc'[p] \in {"idle", "build", "plan"} /\ batch'[p] = {}
      BY <1>4, <3>1 DEF OthersUnchanged
    <3> QED
      BY <1>3, <1>9, <3>2 DEF SlotInv, RowsExist, WavesAhead, BatchIsCurrent
  <2>5. ~Settled
    BY <1>3, <1>11 DEF Settled
  <2>6. CompletedSettled'
    BY <1>3, <1>5, <2>5 DEF IInv, CompletedSettled
  <2>7. RowsOfMembers'
    BY <1>3, <1>9, <1>11 DEF IInv, RowsOfMembers
  <2> QED
    BY <2>2, <2>3, <2>4, <2>6, <2>7 DEF IInv
<1>12. CASE Rows = members
  <2>1. tgt' = tgt /\ wave' = wave
    <3>1. \A d \in Devices : tgt'[d] = tgt[d]
      BY <1>7, <1>12 DEF Rows
    <3>2. \A d \in members : tgt[d] # "absent"
      BY <1>12 DEF Rows
    <3>3. \A d \in Devices : wave'[d] = wave[d]
      BY <1>2, <3>2
    <3> QED
      BY <1>2, <3>1, <3>3 DEF IInv, TypeOK, DBTypeOK
  <2>2. SlotInv(o)'
    <3>1. Rows' # {}
      BY <1>3, <1>9
    <3>2. Rows' = Rows
      BY <2>1 DEF Rows
    <3> QED
      BY <1>4, <3>1, <3>2 DEF IInv, SlotInv, RowsExist, WavesAhead, BatchIsCurrent
  <2>3. UNCHANGED <<cmds, res, started, members>>
    BY <1>3
  <2> QED
    BY <1>4, <1>5, <2>1, <2>2, <2>3, SlotStep
<1> QED
  BY <1>9, <1>11, <1>12
\* The batch that is about to be dispatched is the current wave.
LEMMA EvaluateStep ==
    ASSUME IInv, TypeOK', NEW o \in Orchestrators, Evaluate(o),
           UNCHANGED <<resultVars, apiVars>>
    PROVE  IInv'
<1>1. PICK w \in todo[o] : /\ CurrentWave(o, w)
                           /\ batch' = [batch EXCEPT ![o] =
                                {d \in Devices : tgt'[d] = "queued" /\ wave[d] = w}]
  BY DEF Evaluate
<1>2. tgt' = tgt
  BY DEF Evaluate, FailsPreflight, PreflightKeys, StoredKeys, IInv, TypeOK, DBTypeOK
<1>3. UNCHANGED <<dep, wave, started, members, cmds, res>>
  BY DEF Evaluate, channels
<1>4. /\ OthersUnchanged(o) /\ pc[o] = "evaluate" /\ pc'[o] = "dispatch"
      /\ todo'[o] = todo[o]
      /\ batch'[o] = {d \in Devices : tgt[d] = "queued" /\ wave[d] = w}
  BY <1>1, <1>2 DEF OthersUnchanged, Evaluate, Goto, IInv, TypeOK, OrchTypeOK
<1>5. Rows' = Rows /\ Queued' = Queued /\ \A v : QueuedIn(v)' = QueuedIn(v)
  BY <1>2, <1>3 DEF Rows, Queued, InStatus, QueuedIn
<1>6. todo[o] \subseteq Nat /\ wave \in [Devices -> Nat]
  BY DEF IInv, TypeOK, OrchTypeOK, DBTypeOK
<1>7. BatchIsCurrent(o)'
  <2>1. \A d \in batch'[o], v \in todo[o] : wave[d] <= v
    BY <1>1, <1>4 DEF CurrentWave
  <2>2. \A v \in todo[o] : CurrentWave(o, v) => v = w
    BY <1>1, <1>6 DEF CurrentWave
  <2>3. \A v \in todo[o] : CurrentWave(o, v)' => CurrentWave(o, v)
    BY <1>4 DEF CurrentWave
  <2>4. QueuedIn(w) \subseteq batch'[o]
    BY <1>4 DEF QueuedIn, Queued, InStatus
  <2> QED
    BY <1>3, <1>4, <1>5, <2>1, <2>2, <2>3, <2>4 DEF BatchIsCurrent
<1>8. SlotInv(o)'
  <2>1. batch'[o] \subseteq Rows
    BY <1>4 DEF Rows
  <2> QED
    BY <1>3, <1>4, <1>5, <1>7, <2>1 DEF IInv, SlotInv, RowsExist, WavesAhead
<1> QED
  BY <1>2, <1>3, <1>4, <1>8, SlotStep

\* The target that is started is in no later wave than what stays queued.
LEMMA DispatchStep ==
    ASSUME IInv, TypeOK', NEW o \in Orchestrators, NEW d \in Devices, Dispatch(o, d),
           UNCHANGED <<resultVars, apiVars>>
    PROVE  IInv'
<1>1. d \in batch[o] /\ pc[o] = "dispatch" /\ d \in Rows
  BY DEF Dispatch, IInv, SlotInv
<1>2. /\ \A e \in Devices : tgt'[e] = IF e = d THEN "in_progress" ELSE tgt[e]
      /\ \A e \in Devices : started'[e] = IF e = d THEN started[d] + 1 ELSE started[e]
      /\ \A e \in Devices : e # d => cmds'[e] = cmds[e]
      /\ UNCHANGED <<pc, todo, dep, wave, members, res, job, stuck, cancelling, row>>
  BY DEF Dispatch, IInv, TypeOK, DBTypeOK, resultVars, apiVars
<1>3. batch'[o] = batch[o] \ {d} /\ \A p \in Orchestrators : p # o => batch'[p] = batch[p]
  BY DEF Dispatch, IInv, TypeOK, OrchTypeOK
<1>4. started'[d] > 0 /\ started[d] \in Nat
  BY <1>2 DEF IInv, TypeOK, DBTypeOK
<1>5. Rows' = Rows
  BY <1>1, <1>2 DEF Rows
<1>6. Queued' = Queued \ {d}
  BY <1>2 DEF Queued, InStatus
<1>7. RowsOfMembers'
  BY <1>2, <1>5 DEF IInv, RowsOfMembers
<1>8. Quiet'
  <2>1. \A e \in Devices : e # d => (e \in Dispatched' <=> e \in Dispatched)
    BY <1>2 DEF Dispatched
  <2> QED
    BY <1>2, <1>4, <2>1 DEF IInv, Quiet
<1>9. StartedInOrder'
  <2>1. \A q \in Queued : wave[d] <= wave[q]
    BY <1>1 DEF IInv, SlotInv, WavesAhead, BatchIsCurrent
  <2> QED
    BY <1>2, <1>6, <2>1 DEF IInv, StartedInOrder
<1>10. ASSUME NEW p \in Orchestrators PROVE SlotInv(p)'
  <2>1. SlotInv(p) /\ batch'[p] \in {batch[p], batch[p] \ {d}}
    BY <1>3 DEF IInv
  <2>2. \A w : QueuedIn(w)' = QueuedIn(w) \ {d}
    BY <1>2, <1>6 DEF QueuedIn
  <2>3. BatchIsCurrent(p)'
    BY <1>2, <2>1, <2>2 DEF SlotInv, BatchIsCurrent, CurrentWave
  <2> QED
    BY <1>2, <1>5, <1>6, <2>1, <2>3 DEF SlotInv, RowsExist, WavesAhead
<1>11. CompletedSettled'
  BY <1>2, <1>5, <1>6 DEF IInv, CompletedSettled, Settled
<1> QED
  BY <1>7, <1>8, <1>9, <1>10, <1>11 DEF IInv

\* Every step of the orchestrator keeps the invariant.
LEMMA OrchestratorStep ==
    ASSUME IInv, TypeOK', NEW o \in Orchestrators, OrchStep(o) \/ Crash(o),
           UNCHANGED <<resultVars, apiVars>>
    PROVE  IInv'
<1> USE DEF rows, channels, dbVars
<1>1. CASE Start(o)
  <2>1. OthersUnchanged(o) /\ todo'[o] = todo[o] /\ batch'[o] = batch[o]
    BY <1>1 DEF OthersUnchanged, Start, IInv, TypeOK, OrchTypeOK
  <2>2. pc'[o] = "idle" \/ (Rows = {} /\ pc'[o] = "build") \/ (Rows # {} /\ pc'[o] = "plan")
    BY <1>1 DEF Start, IInv, TypeOK, OrchTypeOK
  <2>3. SlotInv(o)'
    <3>1. Rows' = Rows
      BY <1>1 DEF Start, Rows
    <3> QED
      BY <2>1, <2>2, <3>1 DEF IInv, SlotInv, RowsExist, WavesAhead, BatchIsCurrent
  <2> QED
    BY <1>1, <2>1, <2>3, SlotStep DEF Start
<1>2. CASE BuildNothing(o)
  <2>1. Settled
    <3>1. Rows = {}
      BY <1>2 DEF BuildNothing, IInv, RowsOfMembers
    <3> QED
      BY <1>2, <3>1 DEF BuildNothing, Settled, Rows, Queued, InStatus
  <2> QED
    BY <1>2, <2>1, ReturnStep DEF BuildNothing
<1>3. CASE Build(o)
  BY <1>3, BuildStep
<1>4. CASE Plan(o)
  <2>1. CASE Return(o, "plan")
    BY <1>4, <2>1, ReturnStep DEF Plan
  <2>2. CASE /\ Goto(o, "plan", "check")
             /\ todo' = [todo EXCEPT ![o] = {wave[d] : d \in Rows}]
             /\ UNCHANGED <<batch, slept>>
    <3>1. /\ OthersUnchanged(o) /\ pc[o] = "plan" /\ pc'[o] = "check"
          /\ todo'[o] = {wave[d] : d \in Rows} /\ batch'[o] = batch[o]
      BY <2>2 DEF OthersUnchanged, Goto, IInv, TypeOK, OrchTypeOK
    <3>2. UNCHANGED <<tgt, wave, started, members, cmds, res, dep>>
      BY <1>4 DEF Plan
    <3>3. Rows' = Rows /\ Queued' = Queued /\ Queued \subseteq Rows
      BY <3>2 DEF Rows, Queued, InStatus
    <3>4. SlotInv(o)'
      BY <3>1, <3>2, <3>3 DEF IInv, SlotInv, RowsExist, WavesAhead, BatchIsCurrent
    <3> QED
      BY <3>1, <3>2, <3>4, SlotStep
  <2> QED
    BY <1>4, <2>1, <2>2 DEF Plan
<1>5. CASE CheckStatus(o)
  <2>1. CASE Return(o, "check")
    BY <1>5, <2>1, ReturnStep DEF CheckStatus
  <2>2. CASE Continue(o, "check", "pending")
    BY <1>5, <2>2, ContinueStep DEF CheckStatus
  <2> QED
    BY <1>5, <2>1, <2>2 DEF CheckStatus
<1>6. CASE CheckPending(o)
  <2>1. PICK w \in todo[o] : IF QueuedIn(w) = {}
                             THEN Skip(o, w) /\ UNCHANGED batch
                             ELSE Continue(o, "pending", "gate")
    BY <1>6 DEF CheckPending
  <2>2. CASE QueuedIn(w) = {}
    <3>1. /\ OthersUnchanged(o) /\ pc[o] = "pending" /\ pc'[o] = "check"
          /\ todo'[o] = todo[o] \ {w} /\ batch'[o] = batch[o]
      BY <1>6, <2>1, <2>2 DEF CheckPending, Skip, OthersUnchanged, IInv, TypeOK, OrchTypeOK
    <3>2. UNCHANGED <<tgt, wave, started, members, cmds, res, dep>>
      BY <1>6 DEF CheckPending
    <3>3. SlotInv(o)'
      BY <2>2, <3>1, <3>2, WaveDone
    <3> QED
      BY <3>1, <3>2, <3>3, SlotStep
  <2>3. CASE Continue(o, "pending", "gate")
    BY <1>6, <2>3, ContinueStep DEF CheckPending
  <2> QED
    BY <2>1, <2>2, <2>3
<1>7. CASE CheckThreshold(o)
  <2>1. CASE Return(o, "gate") /\ dep' = [dep EXCEPT !.status = "failed"]
    <3>1. dep'.status # "completed"
      BY <2>1 DEF IInv, TypeOK, DBTypeOK, DeploymentRow
    <3> QED
      BY <1>7, <2>1, <3>1, ReturnStep DEF CheckThreshold
  <2>2. ASSUME NEW w, Continue(o, "gate", "wave") /\ dep' = [dep EXCEPT !.current_wave = w]
        PROVE  IInv'
    <3>1. dep'.status = dep.status
      BY <2>2 DEF IInv, TypeOK, DBTypeOK, DeploymentRow
    <3> QED
      BY <1>7, <2>2, <3>1, ContinueStep DEF CheckThreshold
  <2> QED
    BY <1>7, <2>1, <2>2 DEF CheckThreshold
<1>8. CASE BeginWave(o)
  <2>1. PICK w \in todo[o] :
          IF QueuedIn(w) = {}
          THEN EndWave(o, w, "wave")
          ELSE /\ Goto(o, "wave", "poll")
               /\ batch' = [batch EXCEPT ![o] = QueuedIn(w)]
               /\ UNCHANGED <<todo, slept>>
    BY <1>8 DEF BeginWave
  <2>2. UNCHANGED <<tgt, wave, started, members, cmds, res, dep>>
    BY <1>8 DEF BeginWave
  <2>3. CASE QueuedIn(w) = {}
    BY <2>1, <2>2, <2>3, EndWaveStep
  <2>4. CASE QueuedIn(w) # {}
    <3>1. /\ OthersUnchanged(o) /\ pc[o] = "wave" /\ pc'[o] = "poll"
          /\ todo'[o] = todo[o] /\ batch'[o] = QueuedIn(w)
      BY <2>1, <2>4 DEF OthersUnchanged, Goto, IInv, TypeOK, OrchTypeOK
    <3>2. Rows' = Rows /\ Queued' = Queued /\ QueuedIn(w) \subseteq Rows
      BY <2>2 DEF Rows, Queued, InStatus, QueuedIn
    <3>3. SlotInv(o)'
      BY <2>2, <3>1, <3>2 DEF IInv, SlotInv, RowsExist, WavesAhead, BatchIsCurrent
    <3> QED
      BY <2>2, <3>1, <3>3, SlotStep
  <2> QED
    BY <2>3, <2>4
<1>9. CASE PollRaises(o)
  BY <1>9, ReturnStep DEF PollRaises
<1>10. CASE PollTimesOut(o)
  BY <1>10, ContinueStep DEF PollTimesOut
<1>11. CASE Evaluate(o)
  BY <1>11, EvaluateStep
<1>12. ASSUME NEW d \in Devices, Dispatch(o, d) PROVE IInv'
  BY <1>12, DispatchStep
<1>13. CASE FinishWave(o)
  <2>1. PICK w \in todo[o] : CurrentWave(o, w) /\ EndWave(o, w, "dispatch")
    BY <1>13 DEF FinishWave
  <2>2. pc[o] = "dispatch" /\ batch[o] = {}
    BY <1>13, <2>1 DEF FinishWave, EndWave, Return, Goto
  <2>3. QueuedIn(w) = {}
    BY <2>1, <2>2 DEF IInv, SlotInv, BatchIsCurrent
  <2> QED
    BY <1>13, <2>1, <2>3, EndWaveStep DEF FinishWave
<1>14. CASE Finish(o)
  <2>1. pc[o] = "check" /\ todo[o] = {}
    BY <1>14 DEF Finish, Return, Goto
  <2>2. Settled
    BY <2>1 DEF IInv, SlotInv, RowsExist, WavesAhead, Settled
  <2> QED
    BY <1>14, <2>2, ReturnStep DEF Finish
<1>15. CASE Crash(o)
  BY <1>15, ReturnStep DEF Crash, Fault
<1> QED
  BY <1>1, <1>2, <1>3, <1>4, <1>5, <1>6, <1>7, <1>8, <1>9, <1>10, <1>11, <1>12,
     <1>13, <1>14, <1>15 DEF OrchStep
-----------------------------------------------------------------------------
(* The steps of everyone else *)

\* Nobody but the orchestrator queues a target, and the fewer are queued, the
\* less there is to keep in order.
LEMMA RowStep ==
    ASSUME IInv, TypeOK', UNCHANGED <<orchVars, wave, started, members>>,
           Rows' = Rows, Queued' \subseteq Queued, Quiet', cancelling' \subseteq Rows,
           dep'.status = "completed" => Settled,
           \A v \in Views : row'[v].status = "completed" => Settled
    PROVE  IInv'
<1>1. RowsOfMembers'
  BY DEF IInv, RowsOfMembers
<1>2. StartedInOrder'
  BY DEF IInv, StartedInOrder
<1>3. \A w : QueuedIn(w)' \subseteq QueuedIn(w)
  BY DEF QueuedIn
<1>4. ASSUME NEW o \in Orchestrators PROVE SlotInv(o)'
  <2>1. SlotInv(o) /\ UNCHANGED <<pc, todo, batch, wave>>
    BY DEF IInv, orchVars
  <2>2. BatchIsCurrent(o)'
    BY <1>3, <2>1 DEF SlotInv, BatchIsCurrent, CurrentWave
  <2> QED
    BY <2>1, <2>2 DEF SlotInv, RowsExist, WavesAhead
<1>5. CompletedSettled'
  BY DEF CompletedSettled, Settled
<1> QED
  BY <1>1, <1>2, <1>4, <1>5 DEF IInv

\* What is being recorded of a target changes only its own row, and the target
\* has been started.
LEMMA RecordedStep ==
    ASSUME IInv, NEW S \in SUBSET Devices, \A d \in S : started[d] > 0,
           NEW s \in TargetStatus \ {"absent", "queued"},
           tgt' = [d \in Devices |-> IF d \in S THEN s ELSE tgt[d]]
    PROVE  Rows' = Rows /\ Queued' \subseteq Queued
           /\ \A d \in Devices : d \in Dispatched' => d \in Dispatched \/ d \in S
<1>1. \A d \in S : tgt[d] # "absent"
  BY DEF IInv, Quiet
<1> QED
  BY <1>1 DEF Rows, Queued, InStatus, Dispatched

\* Every step of the agents, the result workers and the monitor keeps the invariant.
LEMMA OutcomeStep ==
    ASSUME IInv, TypeOK', Outcomes
    PROVE  IInv'
<1> USE DEF rows, channels, dbVars, resultVars
<1>1. UNCHANGED <<orchVars, apiVars, wave, started, members>>
  <2>1. UNCHANGED <<orchVars, apiVars>>
    BY DEF Outcomes
  <2>2. UNCHANGED <<wave, started, members>>
    BY ZenonT(30) DEF Outcomes, Device, Reporting, LoseCommand, Age, AgentRuns, LoseResult,
           HealthReport, ReportRead, ReportWrite, ReportWriteNoAck, ReportCrash,
           MonitorRead, MonitorWrite
  <2> QED
    BY <2>1, <2>2
<1>2. cancelling' \subseteq Rows /\ \A v \in Views : row'[v].status = "completed" => Settled
  BY <1>1 DEF apiVars, IInv, RowsOfMembers, CompletedSettled
<1>3. dep.status = "completed" => Settled
  BY DEF IInv, CompletedSettled
<1>4. dep \in DeploymentRow /\ tgt \in [Devices -> TargetStatus] /\ started \in [Devices -> Nat]
  BY DEF IInv, TypeOK, DBTypeOK
<1>5. ASSUME UNCHANGED <<tgt, dep>>, Quiet' PROVE IInv'
  <2>1. Rows' = Rows /\ Queued' = Queued
    BY <1>5 DEF Rows, Queued, InStatus
  <2> QED
    BY <1>1, <1>2, <1>3, <1>5, <2>1, RowStep
<1>6. ASSUME NEW S \in SUBSET Devices, \A d \in S : started[d] > 0,
             NEW s \in {"completed", "failed"},
             tgt' = [d \in Devices |-> IF d \in S THEN s ELSE tgt[d]],
             dep'.status = dep.status,
             cmds' = cmds,
             \A d \in Devices : d \in stuck' => d \in stuck,
             \A d \in Devices, ok \in BOOLEAN :
                /\ res'[<<d, ok>>] # res[<<d, ok>>] => d \in S
                /\ \A k \in Workers : <<d, ok>> \in job'[k] => <<d, ok>> \in job[k]
      PROVE  IInv'
  <2>1. /\ Rows' = Rows /\ Queued' \subseteq Queued
        /\ \A d \in Devices : d \in Dispatched' => d \in Dispatched \/ d \in S
    BY <1>6, RecordedStep DEF TargetStatus
  <2>2. Quiet'
    <3>1. \A d \in Devices : started'[d] = 0 => d \notin S
      BY <1>1, <1>6
    <3>2. \A d \in Devices : tgt'[d] \in {"absent", "queued"} => tgt'[d] = tgt[d]
      BY <1>6
    <3> QED
      BY <1>1, <1>6, <2>1, <3>1, <3>2 DEF IInv, Quiet
  <2> QED
    BY <1>1, <1>2, <1>3, <1>6, <2>1, <2>2, RowStep
<1>7. Dispatched' = Dispatched \/ tgt' # tgt
  BY DEF Dispatched
<1>8. ASSUME NEW d \in Devices, Device(d) PROVE IInv'
  <2>1. UNCHANGED <<tgt, dep, job, stuck>>
    BY <1>8 DEF Device, LoseCommand, Age, AgentRuns, LoseResult, HealthReport
  <2>2. \A e \in Devices : started[e] = 0 =>
            cmds'[e] = 0 /\ \A ok \in BOOLEAN : res'[<<e, ok>>] = 0
    <3>1. CASE LoseCommand(d)
      BY <3>1 DEF LoseCommand, IInv, Quiet, TypeOK, DBTypeOK
    <3>2. CASE Age(d)
      BY <3>2 DEF Age, IInv, Quiet
    <3>3. ASSUME NEW ok \in BOOLEAN, AgentRuns(d, ok)
          PROVE  \A e \in Devices : started[e] = 0 =>
                    cmds'[e] = 0 /\ \A x \in BOOLEAN : res'[<<e, x>>] = 0
      BY <3>3 DEF AgentRuns, IInv, Quiet, TypeOK, DBTypeOK
    <3>4. ASSUME NEW ok \in BOOLEAN, LoseResult(d, ok)
          PROVE  \A e \in Devices : started[e] = 0 =>
                    cmds'[e] = 0 /\ \A x \in BOOLEAN : res'[<<e, x>>] = 0
      BY <3>4 DEF LoseResult, IInv, Quiet, TypeOK, DBTypeOK
    <3>5. ASSUME NEW h, HealthReport(d, h)
          PROVE  \A e \in Devices : started[e] = 0 =>
                    cmds'[e] = 0 /\ \A x \in BOOLEAN : res'[<<e, x>>] = 0
      BY <3>5 DEF HealthReport, IInv, Quiet
    <3> QED
      BY <1>8, <3>1, <3>2, <3>3, <3>4, <3>5 DEF Device
  <2>3. Quiet'
    BY <1>1, <1>7, <2>1, <2>2 DEF IInv, Quiet
  <2> QED
    BY <1>5, <2>1, <2>3
<1>9. ASSUME NEW k \in Workers, NEW d \in Devices, NEW ok \in BOOLEAN, Reporting(k, d, ok)
      PROVE  IInv'
  <2>1. CASE ReportRead(k, d, ok)
    <3>1. started[d] > 0
      BY <1>4, <2>1 DEF ReportRead, IInv, Quiet
    <3>2. UNCHANGED <<tgt, dep, cmds, stuck>>
      BY <2>1 DEF ReportRead
    <3>3. \A e \in Devices : started[e] = 0 => \A x \in BOOLEAN :
              res'[<<e, x>>] = 0 /\ \A j \in Workers : <<e, x>> \notin job'[j]
      BY <2>1, <3>1 DEF ReportRead, IInv, Quiet, TypeOK, DBTypeOK, ResultsTypeOK
    <3>4. Quiet'
      BY <1>1, <1>7, <3>2, <3>3 DEF IInv, Quiet
    <3> QED
      BY <1>5, <3>2, <3>4
  <2>2. ASSUME <<d, ok>> \in job[k] PROVE started[d] > 0
    BY <1>4, <2>2 DEF IInv, Quiet
  <2>3. ASSUME Record(d, ok)
        PROVE  /\ dep'.status = dep.status
               /\ \E s \in {"completed", "failed"} :
                    tgt' = [e \in Devices |-> IF e \in {d} THEN s ELSE tgt[e]]
    BY <1>4, <2>3 DEF Record, DeploymentRow
  <2>4. CASE ReportWrite(k, d, ok)
    <3>1. \A j \in Workers : job'[j] \subseteq job[j]
      BY <2>4 DEF ReportWrite, IInv, TypeOK, ResultsTypeOK
    <3> QED
      BY <1>6, <2>2, <2>3, <2>4, <3>1 DEF ReportWrite
  <2>5. CASE ReportWriteNoAck(k, d, ok)
    <3>1. \A j \in Workers : job'[j] \subseteq job[j]
      BY <2>5 DEF ReportWriteNoAck, IInv, TypeOK, ResultsTypeOK
    <3>2. \A e \in Devices, x \in BOOLEAN : res'[<<e, x>>] # res[<<e, x>>] => e \in {d}
      BY <2>5 DEF ReportWriteNoAck, IInv, TypeOK, DBTypeOK
    <3> QED
      BY <1>6, <2>2, <2>3, <2>5, <3>1, <3>2, ZenonT(30) DEF ReportWriteNoAck
  <2>6. CASE ReportCrash(k, d, ok)
    <3>1. \A j \in Workers : job'[j] \subseteq job[j]
      BY <2>6 DEF ReportCrash, IInv, TypeOK, ResultsTypeOK
    <3>2. \A e \in Devices, x \in BOOLEAN : res'[<<e, x>>] # res[<<e, x>>] => e = d
      BY <2>6 DEF ReportCrash, IInv, TypeOK, DBTypeOK
    <3>3. UNCHANGED <<tgt, dep, cmds, stuck>>
      BY <2>6 DEF ReportCrash
    <3>4. Quiet'
      BY <1>1, <1>7, <2>2, <2>6, <3>1, <3>2, <3>3 DEF ReportCrash, IInv, Quiet
    <3> QED
      BY <1>5, <3>3, <3>4
  <2> QED
    BY <1>9, <2>1, <2>4, <2>5, <2>6 DEF Reporting
<1>10. CASE MonitorRead
  <2>1. \A d \in stuck' : started[d] # 0
    BY <1>10 DEF MonitorRead, InStatus, IInv, Quiet, Dispatched
  <2>2. UNCHANGED <<tgt, dep, cmds, res, job>>
    BY <1>10 DEF MonitorRead
  <2>3. Quiet'
    BY <1>1, <1>7, <2>1, <2>2 DEF IInv, Quiet
  <2> QED
    BY <1>5, <2>2, <2>3
<1>11. CASE MonitorWrite
  <2>1. stuck \in SUBSET Devices /\ \A d \in stuck : started[d] > 0
    BY <1>4 DEF IInv, Quiet, TypeOK, ResultsTypeOK
  <2>2. dep'.status = dep.status
    BY <1>4, <1>11 DEF MonitorWrite, DeploymentRow
  <2> QED
    BY <1>6, <1>11, <2>1, <2>2 DEF MonitorWrite
<1> QED
  BY <1>8, <1>9, <1>10, <1>11 DEF Outcomes
\* Every step of the API, the cancel task and the scheduler keeps the invariant.
LEMMA ControlStep ==
    ASSUME IInv, TypeOK', Control
    PROVE  IInv'
<1> USE DEF rows, channels, dbVars
<1>1. UNCHANGED <<orchVars, job, stuck, wave, started, members, cmds, res>>
  <2>1. UNCHANGED <<orchVars, resultVars>>
    BY DEF Control
  <2>2. UNCHANGED <<wave, started, members, cmds, res>>
    BY DEF Control, Requests, CancelTask, Read, Save, SaveOnly, SaveRow, RequestCancel,
           CancelRead, CancelSave, CancelQuery, CancelTarget, Schedule, SchedRead, SchedSave,
           SchedEnqueue, SchedLost
  <2> QED
    BY <2>1, <2>2 DEF resultVars
<1>2. /\ dep.status = "completed" => Settled
      /\ \A v \in Views : row[v].status = "completed" => Settled
      /\ cancelling \subseteq Rows
  BY DEF IInv, CompletedSettled, RowsOfMembers
<1>3. /\ dep \in DeploymentRow /\ tgt \in [Devices -> TargetStatus]
      /\ started \in [Devices -> Nat] /\ row \in [Views -> DeploymentRow]
  BY DEF IInv, TypeOK, DBTypeOK, ApiTypeOK
<1>4. ASSUME UNCHANGED tgt, cancelling' \subseteq Rows,
             dep'.status = "completed" => Settled,
             \A v \in Views : row'[v].status = "completed" => Settled
      PROVE  IInv'
  <2>1. Rows' = Rows /\ Queued' = Queued /\ Dispatched' = Dispatched
    BY <1>4 DEF Rows, Queued, InStatus, Dispatched
  <2>2. Quiet'
    BY <1>1, <1>4, <2>1 DEF IInv, Quiet
  <2> QED
    BY <1>1, <1>4, <2>1, <2>2, RowStep
<1>5. ASSUME NEW v \in Views, NEW op \in Operations, Read(v, op) PROVE IInv'
  <2>1. UNCHANGED <<tgt, dep, cancelling>> /\ row' = [row EXCEPT ![v] = dep]
    BY <1>5 DEF Read
  <2> QED
    BY <1>2, <1>3, <1>4, <2>1
<1>6. ASSUME NEW v \in Views, SaveRow(v) PROVE IInv'
  <2>1. UNCHANGED <<tgt, cancelling>>
    BY <1>6 DEF SaveRow
  <2>2. dep'.status = SavedStatus(request[v], row[v].status)
    BY <1>3, <1>6 DEF SaveRow, DeploymentRow
  <2>3. dep'.status = "completed" => row[v].status = "completed"
    BY <2>2 DEF SavedStatus
  <2>4. \A u \in Views : row'[u].status = "completed" => row[u].status = "completed"
    BY <1>3, <1>6 DEF SaveRow, NewDeployment
  <2> QED
    BY <1>2, <1>4, <2>1, <2>3, <2>4
<1>7. CASE RequestCancel
  BY <1>2, <1>4, <1>7 DEF RequestCancel
<1>8. CASE CancelRead
  BY <1>2, <1>4, <1>8 DEF CancelRead
<1>9. CASE CancelSave
  <2>1. dep'.status # "completed"
    BY <1>3, <1>9 DEF CancelSave, DeploymentRow
  <2> QED
    BY <1>2, <1>4, <1>9, <2>1 DEF CancelSave
<1>10. CASE CancelQuery
  <2>1. cancelling' \subseteq Rows
    BY <1>10 DEF CancelQuery, Queued, InStatus, Rows
  <2> QED
    BY <1>2, <1>4, <1>10, <2>1 DEF CancelQuery
<1>11. ASSUME NEW d \in Devices, CancelTarget(d) PROVE IInv'
  <2>1. /\ tgt[d] # "absent" /\ cancelling' \subseteq Rows
        /\ tgt' = [tgt EXCEPT ![d] = "skipped"] /\ UNCHANGED <<dep, row>>
    BY <1>2, <1>11 DEF CancelTarget, Rows
  <2>2. Rows' = Rows /\ Queued' \subseteq Queued /\ Dispatched' \subseteq Dispatched
    BY <1>3, <2>1 DEF Rows, Queued, InStatus, Dispatched
  <2>3. Quiet'
    <3>1. \A e \in Devices : tgt'[e] \in {"absent", "queued"} => tgt'[e] = tgt[e]
      BY <1>3, <2>1
    <3> QED
      BY <1>1, <2>2, <3>1 DEF IInv, Quiet
  <2> QED
    BY <1>1, <1>2, <2>1, <2>2, <2>3, RowStep
<1>12. CASE SchedRead
  BY <1>2, <1>4, <1>12 DEF SchedRead
<1>13. CASE SchedSave
  <2>1. dep'.status # "completed"
    BY <1>3, <1>13 DEF SchedSave, DeploymentRow
  <2> QED
    BY <1>2, <1>4, <1>13, <2>1 DEF SchedSave
<1>14. CASE SchedEnqueue \/ SchedLost
  BY <1>2, <1>4, <1>14 DEF SchedEnqueue, SchedLost
<1> QED
  BY <1>5, <1>6, <1>7, <1>8, <1>9, <1>10, <1>11, <1>12, <1>13, <1>14
     DEF Control, Requests, CancelTask, Schedule, Save, SaveOnly
-----------------------------------------------------------------------------
\* A new deployment satisfies the invariant.
LEMMA InitInv == Init => IInv
<1> SUFFICES ASSUME Init PROVE IInv
  OBVIOUS
<1>1. TypeOK
  BY InitTypes
<1>2. Rows = {} /\ Queued = {} /\ Dispatched = {}
  BY DEF Init, DBInit, Rows, Queued, InStatus, Dispatched
<1>3. RowsOfMembers /\ StartedInOrder
  BY <1>2 DEF RowsOfMembers, StartedInOrder, Init, ApiInit
<1>4. Quiet
  BY <1>2 DEF Quiet, Init, DBInit, ResultsInit
<1>5. \A o \in Orchestrators : SlotInv(o)
  BY DEF SlotInv, RowsExist, WavesAhead, BatchIsCurrent, Init, OrchInit
<1>6. CompletedSettled
  BY DEF CompletedSettled, Init, DBInit, ApiInit, NewDeployment
<1> QED
  BY <1>1, <1>3, <1>4, <1>5, <1>6 DEF IInv

\* Every step keeps the invariant.
LEMMA NextInv == IInv /\ [Next]_vars => IInv'
<1> SUFFICES ASSUME IInv, [Next]_vars PROVE IInv'
  OBVIOUS
<1>1. TypeOK'
  BY NextTypes DEF IInv
<1>2. CASE Orchestration
  BY <1>1, <1>2, OrchestratorStep DEF Orchestration
<1>3. CASE Outcomes
  BY <1>1, <1>3, OutcomeStep
<1>4. CASE Control
  BY <1>1, <1>4, ControlStep
<1>5. CASE UNCHANGED vars
  <2>1. /\ Rows' = Rows /\ Queued' = Queued /\ Dispatched' = Dispatched
        /\ UNCHANGED <<orchVars, dep, wave, started, members, cmds, res, job, stuck,
                       cancelling, row>>
    BY <1>5 DEF vars, dbVars, apiVars, resultVars, Rows, Queued, InStatus, Dispatched
  <2>2. Quiet'
    BY <1>5, <2>1 DEF IInv, Quiet, vars, dbVars
  <2> QED
    BY <1>1, <2>1, <2>2, RowStep DEF IInv, RowsOfMembers, CompletedSettled
<1> QED
  BY <1>2, <1>3, <1>4, <1>5 DEF Next

\* The invariant holds however many tasks, workers and views act on the rows.
THEOREM Invariance == Spec => []IInv
BY InitInv, NextInv, PTL DEF Spec

\* No device is sent the patch while one of an earlier wave is still queued,
\* for any number of overlapping, crashed and redelivered orchestrator tasks.
THEOREM WavesInOrderHolds == Spec => []WavesInOrder
<1>1. IInv => WavesInOrder
  <2> SUFFICES ASSUME IInv, NEW d \in Dispatched, NEW q \in Queued
               PROVE  wave[d] <= wave[q]
    BY DEF WavesInOrder
  <2>1. d \in Devices /\ started[d] # 0 /\ started[d] \in Nat
    BY DEF IInv, Quiet, TypeOK, DBTypeOK, Dispatched
  <2> QED
    BY <2>1 DEF IInv, StartedInOrder
<1> QED
  BY <1>1, Invariance, PTL

\* A deployment is completed only when nothing of it is queued, also when a
\* view saves back the row it had read.
THEOREM CompletedLeavesNoneQueuedHolds == Spec => []CompletedLeavesNoneQueued
<1>1. IInv => CompletedLeavesNoneQueued
  BY DEF IInv, CompletedSettled, Settled, CompletedLeavesNoneQueued
<1> QED
  BY <1>1, Invariance, PTL

\* No result ever reaches report_device_result for a target still queued.
THEOREM ResultsOfStartedHolds == Spec => []ResultsOfStarted
<1>1. IInv => ResultsOfStarted
  BY DEF IInv, Quiet, ResultsOfStarted, Queued, InStatus
<1> QED
  BY <1>1, Invariance, PTL
-----------------------------------------------------------------------------
(* What a slot takes up, and what it leaves behind *)

\* A slot takes up a target for dispatch only while it is queued.
LEMMA DueStep ==
    ASSUME TypeOK, [Next]_vars, NEW p \in Orchestrators, NEW d \in Due(p)'
    PROVE  d \in Due(p) \/ (d \in Devices /\ tgt[d] = "queued")
<1>1. ASSUME NEW o \in Orchestrators, OrchStep(o) \/ Crash(o)
      PROVE  d \in Due(p) \/ (d \in Devices /\ tgt[d] = "queued")
  <2>1. CASE p # o
    <3>1. pc'[p] = pc[p] /\ batch'[p] = batch[p]
      BY <1>1, <2>1 DEF OrchStep, Start, BuildNothing, Build, Plan, CheckStatus, CheckPending,
         CheckThreshold, BeginWave, PollRaises, PollTimesOut, Evaluate, Dispatch, FinishWave,
         Finish, Crash, Skip, EndWave, Return, Continue, Goto, TypeOK, OrchTypeOK
    <3> QED
      BY <3>1 DEF Due
  <2>2. CASE p = o /\ Evaluate(o)
    <3>1. tgt' = tgt
      BY <2>2 DEF Evaluate, FailsPreflight, PreflightKeys, StoredKeys, TypeOK, DBTypeOK
    <3>2. batch'[o] \subseteq {e \in Devices : tgt[e] = "queued"}
      BY <2>2, <3>1 DEF Evaluate, TypeOK, OrchTypeOK
    <3> QED
      BY <2>2, <3>2 DEF Due
  <2>3. ASSUME p = o, NEW e \in Devices, Dispatch(o, e) PROVE d \in Due(p)
    BY <2>3 DEF Dispatch, Due, TypeOK, OrchTypeOK
  <2>4. ASSUME p = o, pc'[o] # "dispatch" PROVE FALSE
    BY <2>4 DEF Due
  <2>5. CASE Start(o) \/ BuildNothing(o) \/ Build(o) \/ Plan(o) \/ Crash(o) \/ Finish(o)
    BY <2>1, <2>4, <2>5 DEF Start, BuildNothing, Build, Plan, Crash, Finish, Return, Continue,
       Goto, TypeOK, OrchTypeOK
  <2>6. CASE CheckStatus(o) \/ CheckPending(o) \/ CheckThreshold(o)
    BY <2>1, <2>4, <2>6 DEF CheckStatus, CheckPending, CheckThreshold, Skip, Return, Continue,
       Goto, TypeOK, OrchTypeOK
  <2>7. CASE BeginWave(o) \/ PollRaises(o) \/ PollTimesOut(o) \/ FinishWave(o)
    BY <2>1, <2>4, <2>7 DEF BeginWave, PollRaises, PollTimesOut, FinishWave, EndWave, Return,
       Continue, Goto, TypeOK, OrchTypeOK
  <2> QED
    BY <1>1, <2>1, <2>2, <2>3, <2>5, <2>6, <2>7 DEF OrchStep
<1>2. ASSUME UNCHANGED orchVars PROVE d \in Due(p)
  BY <1>2 DEF Due, orchVars
<1> QED
  BY <1>1, <1>2 DEF Next, Orchestration, Outcomes, Control, vars

\* No task ever takes up a device that was sent the deployment, for any number of
\* slots, whatever overlaps, crashes and is delivered again.
THEOREM NoLateStartHolds == Spec => NoLateStart
<1>1. IInv /\ [Next]_vars =>
        [\A o \in Orchestrators : \A d \in Due(o)' : started[d] > 0 => d \in Due(o)]_vars
  BY DueStep DEF IInv, Quiet
<1> QED
  BY <1>1, Invariance, PTL DEF Spec, NoLateStart

\* How often a device was sent the deployment changes only when a slot sends it.
LEMMA StartedStep ==
    ASSUME TypeOK, [Next]_vars, NEW d \in Devices
    PROVE  \/ started'[d] = started[d]
           \/ \E o \in Orchestrators : /\ d \in Due(o) \ Due(o)'
                                       /\ started'[d] = started[d] + 1
<1>1. CASE Orchestration
  <2>1. PICK o \in Orchestrators : OrchStep(o) \/ Crash(o)
    BY <1>1 DEF Orchestration
  <2>2. ASSUME NEW e \in Devices, Dispatch(o, e), e # d PROVE started'[d] = started[d]
    BY <2>2 DEF Dispatch, TypeOK, DBTypeOK
  <2>3. CASE Dispatch(o, d)
    <3>1. d \in Due(o) /\ d \notin Due(o)'
      BY <2>3 DEF Dispatch, Due, TypeOK, OrchTypeOK
    <3>2. started'[d] = started[d] + 1
      BY <2>3 DEF Dispatch, TypeOK, DBTypeOK
    <3> QED
      BY <3>1, <3>2
  <2>4. CASE ~ \E e \in Devices : Dispatch(o, e)
    BY <2>1, <2>4 DEF OrchStep, Start, BuildNothing, Build, Plan, CheckStatus, CheckPending,
       CheckThreshold, BeginWave, PollRaises, PollTimesOut, Evaluate, FinishWave, Finish, Crash,
       rows, dbVars
  <2> QED
    BY <2>2, <2>3, <2>4
<1>2. CASE Outcomes
  BY <1>2, ZenonT(30) DEF Outcomes, Device, Reporting, LoseCommand, Age, AgentRuns, LoseResult,
     HealthReport, ReportRead, ReportWrite, ReportWriteNoAck, ReportCrash, MonitorRead,
     MonitorWrite, rows, dbVars
<1>3. CASE Control
  BY <1>3 DEF Control, Requests, CancelTask, Schedule, Read, Save, SaveOnly, SaveRow,
     RequestCancel, CancelRead, CancelSave, CancelQuery, CancelTarget, SchedRead,
     SchedSave, SchedEnqueue, SchedLost, rows, dbVars
<1>4. CASE UNCHANGED vars
  BY <1>4 DEF vars, dbVars
<1> QED
  BY <1>1, <1>2, <1>3, <1>4 DEF Next

LEMMA StartsLeftStep ==
    ASSUME IsFiniteSet(Orchestrators), IInv, StartsLeft, [Next]_vars
    PROVE  StartsLeft'
<1> SUFFICES ASSUME NEW d \in Devices, started'[d] > 0
             PROVE  started'[d] + Cardinality({o \in Orchestrators : d \in Due(o)'})
                        <= Cardinality(Orchestrators)
  BY DEF StartsLeft
<1> DEFINE D == {o \in Orchestrators : d \in Due(o)}
           E == {o \in Orchestrators : d \in Due(o)'}
<1>1. TypeOK /\ started[d] \in Nat /\ started'[d] \in Nat
  BY NextTypes DEF IInv, TypeOK, DBTypeOK
<1>2. IsFiniteSet(D) /\ Cardinality(D) \in Nat /\ Cardinality(Orchestrators) \in Nat
      /\ Cardinality(D) <= Cardinality(Orchestrators)
  BY FS_Subset, FS_CardinalityType
<1>3. CASE started'[d] = started[d]
  <2>1. E \subseteq D
    BY <1>1, <1>3, DueStep DEF IInv, Quiet
  <2>2. Cardinality(E) \in Nat /\ Cardinality(E) <= Cardinality(D)
    BY <1>2, <2>1, FS_Subset, FS_CardinalityType
  <2>3. started[d] + Cardinality(D) <= Cardinality(Orchestrators)
    BY <1>3 DEF StartsLeft
  <2> HIDE DEF D, E
  <2>4. started'[d] + Cardinality(E) <= Cardinality(Orchestrators)
    BY <1>1, <1>2, <1>3, <2>2, <2>3
  <2> QED
    BY <2>4 DEF E
<1>4. ASSUME NEW o \in Orchestrators, d \in Due(o), d \notin Due(o)', started'[d] = started[d] + 1
      PROVE  started'[d] + Cardinality(E) <= Cardinality(Orchestrators)
  <2>1. ASSUME started[d] > 0 PROVE E \subseteq D \ {o}
    BY <1>1, <1>4, <2>1, DueStep DEF IInv, Quiet
  <2>2. IsFiniteSet(Orchestrators \ {o}) /\ IsFiniteSet(D \ {o})
        /\ Cardinality(Orchestrators \ {o}) = Cardinality(Orchestrators) - 1
        /\ Cardinality(D \ {o}) = Cardinality(D) - 1
    BY <1>2, <1>4, FS_RemoveElement
  <2>3. E \subseteq Orchestrators \ {o}
    BY <1>4
  <2>4. /\ Cardinality(E) \in Nat /\ Cardinality(E) <= Cardinality(Orchestrators \ {o})
        /\ started[d] > 0 => Cardinality(E) <= Cardinality(D \ {o})
    BY <2>1, <2>2, <2>3, FS_Subset, FS_CardinalityType
  <2>5. started[d] > 0 => started[d] + Cardinality(D) <= Cardinality(Orchestrators)
    BY DEF StartsLeft
  <2> HIDE DEF D, E
  <2> QED
    BY <1>1, <1>2, <1>4, <2>2, <2>4, <2>5
<1> QED
  BY <1>1, <1>3, <1>4, StartedStep

\* However many tasks run for one deployment, a device is sent it at most once by
\* each slot of the critical queue: twice only if two of them had it in hand
\* before the first sent it.
THEOREM StartsBoundedHolds ==
    ASSUME IsFiniteSet(Orchestrators)
    PROVE  Spec => []StartsBounded
<1>1. Init => StartsLeft
  BY DEF Init, DBInit, StartsLeft
<1>2. IInv /\ StartsLeft /\ [Next]_vars => StartsLeft'
  BY StartsLeftStep
<1>3. IInv /\ StartsLeft => StartsBounded
  <2> SUFFICES ASSUME IInv, StartsLeft, NEW d \in Devices
               PROVE  started[d] <= Cardinality(Orchestrators)
    BY DEF StartsBounded
  <2> DEFINE n == Cardinality({o \in Orchestrators : d \in Due(o)})
  <2>1. n \in Nat /\ Cardinality(Orchestrators) \in Nat /\ started[d] \in Nat
    BY FS_Subset, FS_CardinalityType DEF IInv, TypeOK, DBTypeOK
  <2>2. started[d] > 0 => started[d] + n <= Cardinality(Orchestrators)
    BY DEF StartsLeft
  <2> HIDE DEF n
  <2> QED
    BY <2>1, <2>2
<1> QED
  BY <1>1, <1>2, <1>3, Invariance, PTL DEF Spec

\* A task that ends by itself leaves nothing for another to do: whatever runs
\* beside it and whatever it overwrites, it finds the deployment settled or
\* settles it.  Nothing of a wave it passed over is ever queued again.
LEMMA ReturnSettles ==
    ASSUME IInv, [Next]_vars, NEW o \in Orchestrators, pc[o] # "idle", pc'[o] = "idle"
    PROVE  dep'.status # "in_progress" \/ PollRaises(o) \/ OutOfTime(o) \/ Crash(o)
<1>1. TypeOK /\ dep \in DeploymentRow /\ pc \in [Orchestrators -> OrchPC]
  BY DEF IInv, TypeOK, DBTypeOK, OrchTypeOK
<1>2. PICK p \in Orchestrators : OrchStep(p) \/ Crash(p)
  BY DEF Next, Orchestration, Outcomes, Control, vars, orchVars
<1>3. p = o
  <2>1. \A q \in Orchestrators : q # p => pc'[q] = pc[q]
    BY <1>1, <1>2 DEF OrchStep, Start, BuildNothing, Build, Plan, CheckStatus, CheckPending,
       CheckThreshold, BeginWave, PollRaises, PollTimesOut, Evaluate, Dispatch, FinishWave,
       Finish, Crash, Skip, EndWave, Return, Continue, Goto
  <2> QED
    BY <2>1
<1>4. CASE Start(o) \/ Build(o) \/ PollTimesOut(o) \/ Evaluate(o) \/ \E d \in Devices : Dispatch(o, d)
  BY <1>1, <1>4 DEF Start, Build, PollTimesOut, Evaluate, Dispatch, Continue, Goto
<1>5. CASE BuildNothing(o) \/ Plan(o) \/ CheckStatus(o) \/ CheckPending(o) \/ CheckThreshold(o)
  BY <1>1, <1>5 DEF BuildNothing, Plan, CheckStatus, CheckPending, CheckThreshold, Skip, Return,
     Continue, Goto, DeploymentRow, dbVars
<1>6. CASE BeginWave(o) \/ FinishWave(o)
  BY <1>1, <1>6 DEF BeginWave, FinishWave, EndWave, OutOfTime, Goto, Return
<1>7. CASE Finish(o)
  <2>1. pc[o] = "check" /\ todo[o] = {}
    BY <1>7 DEF Finish, Return, Goto
  <2>2. Queued = {}
    BY <2>1 DEF IInv, SlotInv, WavesAhead
  <2> QED
    BY <1>1, <1>7, <2>2 DEF Finish, DeploymentRow
<1> QED
  BY <1>2, <1>3, <1>4, <1>5, <1>6, <1>7 DEF OrchStep

\* "Mark deployment completed/failed when all waves done": a task returns only
\* when it is, or when the deployment is not in progress any more.
THEOREM TaskSettlesHolds == Spec => TaskSettles
<1>1. IInv /\ [Next]_vars =>
        [\A o \in Orchestrators :
            pc[o] # "idle" /\ pc'[o] = "idle" =>
                \/ dep'.status # "in_progress"
                \/ PollRaises(o) \/ OutOfTime(o) \/ Crash(o)]_vars
  BY ReturnSettles
<1> QED
  BY <1>1, Invariance, PTL DEF Spec, TaskSettles
-----------------------------------------------------------------------------
(* The deployment implements WaveGate: the simulation, one lemma for each *)
(* kind of step that touches the rows.  All of it rests on IInv.          *)

\* A step that leaves the rows alone can only call the deployment completed,
\* when nothing waits, or call it something else.
LEMMA RowsUntouched ==
    ASSUME IInv', UNCHANGED <<tgt, wave, started>>
    PROVE  [Gate!Next]_(Gate!gateVars)
<1>1. Rows' = Rows /\ Queued' = Queued /\ Reached' = Reached /\ Outcome' = Outcome
  BY DEF Rows, Queued, InStatus, Reached, Outcome
<1>2. CASE dep'.status = "completed"
  <2>1. Queued' = {}
    BY <1>2 DEF IInv, CompletedSettled, Settled
  <2>2. Gate!Close
    BY <1>1, <1>2, <2>1 DEF Gate!Close
  <2> QED
    BY <2>2 DEF Gate!Next
<1>3. CASE dep'.status # "completed"
  <2>1. Gate!Reopen
    BY <1>1, <1>3 DEF Gate!Reopen
  <2> QED
    BY <2>1 DEF Gate!Next
<1> QED
  BY <1>2, <1>3

\* Building the rows is making the plan, or finding it made.
LEMMA BuildMakesPlan ==
    ASSUME IInv, IInv', NEW o \in Orchestrators, Build(o)
    PROVE  [Gate!Next]_(Gate!gateVars)
<1>1. /\ UNCHANGED <<started, members>>
      /\ dep'.status = dep.status
      /\ members # {}
  BY DEF Build, IInv, TypeOK, DBTypeOK, DeploymentRow
<1>2. Reached' = Reached
  BY <1>1 DEF Reached
<1> DEFINE n == Cardinality(members)
<1>7. PICK order \in [members -> 1 .. n],
           plan \in WavePlans(Strategy, n, WaveSize, CanaryPercentage) :
        LET planned == {d \in members : \E w \in 0 .. n : <<order[d], w>> \in plan}
            new == {d \in planned : tgt[d] = "absent"}
        IN  /\ tgt' = [d \in Devices |-> IF d \in new THEN "queued" ELSE tgt[d]]
            /\ wave' = [d \in Devices |->
                   IF d \in new
                   THEN CHOOSE w \in 0 .. n : <<order[d], w>> \in plan
                   ELSE wave[d]]
  BY DEF Build
<1> DEFINE created == {d \in members : /\ \E w \in 0 .. n : <<order[d], w>> \in plan
                                       /\ tgt[d] = "absent"}
<1>8. members \subseteq Devices
  BY DEF IInv, TypeOK, DBTypeOK
<1>3. /\ created \in SUBSET Devices
      /\ \A d \in created : tgt[d] = "absent" /\ d \in members
      /\ tgt' = [d \in Devices |-> IF d \in created THEN "queued" ELSE tgt[d]]
      /\ \A d \in Devices : d \notin created => wave'[d] = wave[d]
  BY <1>7, <1>8
<1> HIDE DEF created
<1>4. Outcome' = Outcome
  BY <1>3 DEF Outcome, InStatus
<1>5. CASE Rows = {}
  <2>1. dep.status # "completed"
    BY <1>1, <1>5 DEF IInv, CompletedSettled, Settled
  <2>2. Rows' = created /\ Queued' = created
    BY <1>3, <1>5 DEF Rows, Queued, InStatus
  <2>3. wave' \in [Devices -> Nat]
    BY DEF IInv, TypeOK, DBTypeOK
  <2>4. Rows' \in SUBSET Devices /\ Queued' = Rows'
    BY <1>3, <2>2
  <2>5. (dep.status = "completed")' = (dep.status = "completed")
    BY <1>1
  <2>6. Gate!MakePlan
    BY <1>2, <1>4, <1>5, <2>1, <2>3, <2>4, <2>5 DEF Gate!MakePlan
  <2> QED
    BY <2>6 DEF Gate!Next
<1>6. CASE Rows # {}
  <2>1. created = {}
    BY <1>3, <1>6 DEF IInv, RowsOfMembers, Rows
  <2>2. tgt' = tgt /\ wave' = wave
    BY <1>3, <2>1 DEF IInv, TypeOK, DBTypeOK
  <2> QED
    BY <1>1, <2>2, RowsUntouched
<1> QED
  BY <1>5, <1>6

\* Dispatching reaches a device no later than anybody who waits.
LEMMA DispatchReaches ==
    ASSUME IInv, NEW o \in Orchestrators, NEW d \in Devices, Dispatch(o, d)
    PROVE  [Gate!Next]_(Gate!gateVars)
<1>1. d \in batch[o] /\ pc[o] = "dispatch" /\ d \in Rows
  BY DEF Dispatch, IInv, SlotInv
<1>2. /\ \A e \in Devices : tgt'[e] = IF e = d THEN "in_progress" ELSE tgt[e]
      /\ \A e \in Devices : started'[e] = IF e = d THEN started[d] + 1 ELSE started[e]
      /\ started[d] \in Nat
      /\ UNCHANGED <<dep, wave>>
  BY DEF Dispatch, IInv, TypeOK, DBTypeOK
<1>3. \A q \in Queued : wave[d] <= wave[q]
  BY <1>1 DEF IInv, SlotInv, WavesAhead, BatchIsCurrent
<1>4. Rows' = Rows /\ Queued' = Queued \ {d} /\ Outcome' = Outcome \ {d}
  BY <1>1, <1>2 DEF Rows, Queued, InStatus, Outcome
<1>5. Reached' = Reached \cup {d}
  BY <1>2 DEF Reached
<1>6. Gate!Reach(d)
  BY <1>1, <1>2, <1>3, <1>4, <1>5 DEF Gate!Reach
<1> QED
  BY <1>6 DEF Gate!Next

\* A worker or the monitor records outcomes of devices that were reached.
LEMMA OutcomesRecorded ==
    ASSUME IInv, NEW S \in SUBSET Devices,
           \A d \in S : started[d] # 0,
           \A d \in S : tgt'[d] \in {"completed", "failed"},
           \A d \in Devices \ S : tgt'[d] = tgt[d],
           UNCHANGED <<wave, started>>, dep'.status = dep.status
    PROVE  [Gate!Next]_(Gate!gateVars)
<1>1. \A d \in S : started[d] \in Nat /\ tgt[d] \notin {"absent", "queued"}
  BY DEF IInv, Quiet, TypeOK, DBTypeOK
<1>2. S \subseteq Reached \ Queued
  BY <1>1 DEF Reached, Queued, InStatus
<1>3. Rows' = Rows /\ Queued' = Queued /\ Outcome' = Outcome \cup S
  BY <1>1 DEF Rows, Queued, InStatus, Outcome
<1>4. Reached' = Reached
  BY DEF Reached
<1>5. Gate!Record(S)
  BY <1>2, <1>3, <1>4 DEF Gate!Record
<1> QED
  BY <1>5 DEF Gate!Next

\* The cancel task gives a device up.
LEMMA CancelGivesUp ==
    ASSUME IInv, NEW d \in Devices, CancelTarget(d)
    PROVE  [Gate!Next]_(Gate!gateVars)
<1>1. /\ d \in Rows
      /\ \A e \in Devices : tgt'[e] = IF e = d THEN "skipped" ELSE tgt[e]
      /\ UNCHANGED <<dep, wave, started>>
  BY DEF CancelTarget, IInv, TypeOK, DBTypeOK, RowsOfMembers
<1>2. Rows' = Rows /\ Queued' = Queued \ {d} /\ Outcome' = Outcome \ {d}
  BY <1>1 DEF Rows, Queued, InStatus, Outcome
<1>3. Reached' = Reached
  BY <1>1 DEF Reached
<1>4. Gate!GiveUp(d)
  BY <1>1, <1>2, <1>3 DEF Gate!GiveUp
<1> QED
  BY <1>4 DEF Gate!Next
-----------------------------------------------------------------------------
LEMMA OrchestrationSimulates ==
    ASSUME IInv, IInv', Orchestration
    PROVE  [Gate!Next]_(Gate!gateVars)
<1>1. PICK o \in Orchestrators : OrchStep(o) \/ Crash(o)
  BY DEF Orchestration
<1>2. CASE Build(o)
  BY <1>2, BuildMakesPlan
<1>3. CASE \E d \in Devices : Dispatch(o, d)
  BY <1>3, DispatchReaches
<1>4. CASE Evaluate(o)
  <2>1. UNCHANGED <<tgt, wave, started>>
    BY <1>4 DEF Evaluate, FailsPreflight, PreflightKeys, StoredKeys, IInv, TypeOK, DBTypeOK
  <2> QED
    BY <2>1, RowsUntouched
<1>5. CASE \/ Start(o) \/ BuildNothing(o) \/ Plan(o) \/ CheckStatus(o) \/ CheckPending(o)
           \/ CheckThreshold(o) \/ BeginWave(o) \/ PollRaises(o) \/ PollTimesOut(o)
           \/ FinishWave(o) \/ Finish(o) \/ Crash(o)
  <2>1. UNCHANGED <<tgt, wave, started>>
    BY <1>5 DEF Start, BuildNothing, Plan, CheckStatus, CheckPending, CheckThreshold,
       BeginWave, PollRaises, PollTimesOut, FinishWave, Finish, Crash, rows, dbVars
  <2> QED
    BY <2>1, RowsUntouched
<1> QED
  BY <1>1, <1>2, <1>3, <1>4, <1>5 DEF OrchStep

LEMMA OutcomesSimulate ==
    ASSUME IInv, IInv', Outcomes
    PROVE  [Gate!Next]_(Gate!gateVars)
<1>1. ASSUME NEW k \in Workers, NEW d \in Devices, NEW ok \in BOOLEAN,
             ReportWrite(k, d, ok) \/ ReportWriteNoAck(k, d, ok)
      PROVE  [Gate!Next]_(Gate!gateVars)
  <2>1. <<d, ok>> \in job[k] /\ Record(d, ok) /\ UNCHANGED <<wave, started>>
    BY <1>1 DEF ReportWrite, ReportWriteNoAck
  <2>2. started[d] # 0
    BY <2>1 DEF IInv, Quiet
  <2>3. /\ tgt'[d] \in {"completed", "failed"}
        /\ \A e \in Devices \ {d} : tgt'[e] = tgt[e]
        /\ dep'.status = dep.status
    BY <2>1 DEF Record, IInv, TypeOK, DBTypeOK, DeploymentRow
  <2>4. /\ {d} \in SUBSET Devices
        /\ \A e \in {d} : started[e] # 0
        /\ \A e \in {d} : tgt'[e] \in {"completed", "failed"}
    BY <2>2, <2>3
  <2> QED
    BY <2>1, <2>3, <2>4, OutcomesRecorded
<1>2. CASE MonitorWrite
  <2>1. stuck \in SUBSET Devices /\ \A d \in stuck : started[d] # 0
    BY DEF IInv, Quiet, TypeOK, ResultsTypeOK
  <2>2. /\ \A d \in stuck : tgt'[d] \in {"completed", "failed"}
        /\ \A d \in Devices \ stuck : tgt'[d] = tgt[d]
        /\ UNCHANGED <<wave, started>>
        /\ dep'.status = dep.status
    BY <1>2, <2>1 DEF MonitorWrite, IInv, TypeOK, DBTypeOK, DeploymentRow
  <2> QED
    BY <2>1, <2>2, OutcomesRecorded
<1>3. ASSUME NEW d \in Devices, Device(d) PROVE [Gate!Next]_(Gate!gateVars)
  <2>1. UNCHANGED <<tgt, wave, started>>
    BY <1>3 DEF Device, LoseCommand, Age, AgentRuns, LoseResult, HealthReport, rows
  <2> QED
    BY <2>1, RowsUntouched
<1>4. ASSUME NEW k \in Workers, NEW d \in Devices, NEW ok \in BOOLEAN,
             ReportRead(k, d, ok) \/ ReportCrash(k, d, ok)
      PROVE  [Gate!Next]_(Gate!gateVars)
  <2>1. UNCHANGED <<tgt, wave, started>>
    BY <1>4 DEF ReportRead, ReportCrash, rows
  <2> QED
    BY <2>1, RowsUntouched
<1>5. CASE MonitorRead
  <2>1. UNCHANGED <<tgt, wave, started>>
    BY <1>5 DEF MonitorRead, dbVars
  <2> QED
    BY <2>1, RowsUntouched
<1> QED
  BY <1>1, <1>2, <1>3, <1>4, <1>5 DEF Outcomes, Reporting

LEMMA ControlSimulates ==
    ASSUME IInv, IInv', Control
    PROVE  [Gate!Next]_(Gate!gateVars)
<1>1. CASE \E d \in Devices : CancelTarget(d)
  BY <1>1, CancelGivesUp
<1>2. CASE ~ \E d \in Devices : CancelTarget(d)
  <2>1. UNCHANGED <<tgt, wave, started>>
    BY <1>2 DEF Control, Requests, CancelTask, Read, Save, SaveOnly, SaveRow, RequestCancel,
       CancelRead, CancelSave, CancelQuery, Schedule, SchedRead, SchedSave, SchedEnqueue,
       SchedLost, rows, dbVars
  <2> QED
    BY <2>1, RowsUntouched
<1> QED
  BY <1>1, <1>2
-----------------------------------------------------------------------------
\* A new deployment has no plan and has reached nobody.
LEMMA InitSimulates == Init => Gate!Init
BY DEF Init, DBInit, NewDeployment, Gate!Init, Rows, Queued, Reached, Outcome, InStatus

\* The tasks, views, workers and the monitor implement WaveGate, for any number
\* of them, any devices, strategy and faults: an overlapping, crashed or
\* redelivered orchestrate_deployment reaches nobody out of turn, no outcome is
\* recorded of a device never reached, and nobody waits when it is completed.
THEOREM WaveGateImplemented == Spec => ImplementsWaveGate
<1>1. IInv /\ IInv' /\ [Next]_vars => [Gate!Next]_(Gate!gateVars)
  <2> SUFFICES ASSUME IInv, IInv', [Next]_vars PROVE [Gate!Next]_(Gate!gateVars)
    OBVIOUS
  <2>1. CASE UNCHANGED vars
    BY <2>1, RowsUntouched DEF vars, dbVars
  <2> QED
    BY <2>1, OrchestrationSimulates, OutcomesSimulate, ControlSimulates DEF Next
<1> QED
  BY <1>1, InitSimulates, Invariance, PTL DEF Spec, ImplementsWaveGate, Gate!Spec

\* What the rollout adds up to, whatever its tasks, views, workers and the
\* monitor do: nobody was sent the patch while a device of an earlier wave still
\* waits, every outcome is of a device that was sent it, and a deployment that
\* says completed leaves nobody waiting.  It follows from the abstract
\* specification alone.
THEOREM PromiseKept == Spec => []Gate!Kept
<1>1. Gate!Init => Gate!Kept
  BY DEF Gate!Init, Gate!Kept
<1>2. Gate!Kept /\ [Gate!Next]_(Gate!gateVars) => Gate!Kept'
  <2> SUFFICES ASSUME Gate!Kept, [Gate!Next]_(Gate!gateVars) PROVE Gate!Kept'
    OBVIOUS
  <2>1. CASE Gate!MakePlan
    BY <2>1 DEF Gate!MakePlan, Gate!Kept
  <2>2. ASSUME NEW d \in Devices, Gate!Reach(d) PROVE Gate!Kept'
    BY <2>2 DEF Gate!Reach, Gate!Kept
  <2>3. ASSUME NEW d \in Devices, Gate!GiveUp(d) PROVE Gate!Kept'
    BY <2>3 DEF Gate!GiveUp, Gate!Kept
  <2>4. ASSUME NEW S \in SUBSET Devices, Gate!Record(S) PROVE Gate!Kept'
    BY <2>4 DEF Gate!Record, Gate!Kept
  <2>5. CASE Gate!Close
    BY <2>5 DEF Gate!Close, Gate!Kept
  <2>6. CASE Gate!Reopen
    BY <2>6 DEF Gate!Reopen, Gate!Kept
  <2>7. CASE UNCHANGED Gate!gateVars
    BY <2>7 DEF Gate!gateVars, Gate!Kept
  <2> QED
    BY <2>1, <2>2, <2>3, <2>4, <2>5, <2>6, <2>7 DEF Gate!Next
<1>3. Gate!Spec => []Gate!Kept
  BY <1>1, <1>2, PTL DEF Gate!Spec
<1> QED
  BY <1>3, WaveGateImplemented, PTL DEF ImplementsWaveGate
-----------------------------------------------------------------------------
(* The counters *)

Counters == <<dep.completed, dep.failed>>

\* What a step that records nothing may do to a target: create it, start it
\* from a batch, or skip it.
Unrecorded ==
    /\ Counters' = Counters
    /\ \A d \in Devices :
         \/ tgt'[d] = tgt[d]
         \/ tgt[d] = "absent" /\ tgt'[d] = "queued"
         \/ tgt'[d] = "in_progress" /\ \E o \in Orchestrators : d \in Due(o) \ Due(o)'
         \/ tgt'[d] = "skipped" /\ d \in cancelling \ cancelling'

\* The row read by a view that saves it has the counters of the stored one.
SavesFresh ==
    \A v \in Views : SaveRow(v) =>
       row[v].completed = dep.completed /\ row[v].failed = dep.failed

LEMMA OrchestrationUnrecorded == ASSUME TypeOK, Orchestration PROVE Unrecorded
<1>1. PICK o \in Orchestrators : OrchStep(o) \/ Crash(o)
  BY DEF Orchestration
<1>2. dep \in DeploymentRow /\ tgt \in [Devices -> TargetStatus]
  BY DEF TypeOK, DBTypeOK
<1>3. CASE Build(o)
  <2>1. \A d \in Devices : tgt'[d] = tgt[d] \/ (tgt[d] = "absent" /\ tgt'[d] = "queued")
    BY <1>3 DEF Build
  <2>2. Counters' = Counters
    BY <1>2, <1>3 DEF Build, Counters, DeploymentRow
  <2> QED
    BY <2>1, <2>2 DEF Unrecorded
<1>4. ASSUME NEW d \in Devices, Dispatch(o, d) PROVE Unrecorded
  <2>1. d \in Due(o) \ Due(o)'
    BY <1>4 DEF Dispatch, Due, TypeOK, OrchTypeOK
  <2>2. dep' = dep /\ \A e \in Devices : tgt'[e] = IF e = d THEN "in_progress" ELSE tgt[e]
    BY <1>2, <1>4 DEF Dispatch
  <2> QED
    BY <2>1, <2>2 DEF Unrecorded, Counters
<1>5. CASE Evaluate(o)
  <2>1. UNCHANGED <<tgt, dep>>
    BY <1>2, <1>5 DEF Evaluate, FailsPreflight, PreflightKeys, StoredKeys
  <2> QED
    BY <2>1 DEF Unrecorded, Counters
<1>6. CASE \/ Start(o) \/ BuildNothing(o) \/ Plan(o) \/ CheckStatus(o) \/ CheckPending(o)
           \/ CheckThreshold(o) \/ BeginWave(o) \/ PollRaises(o) \/ PollTimesOut(o)
           \/ FinishWave(o) \/ Finish(o) \/ Crash(o)
  <2>1. tgt' = tgt
    BY <1>6 DEF Start, BuildNothing, Plan, CheckStatus, CheckPending, CheckThreshold,
       BeginWave, PollRaises, PollTimesOut, FinishWave, Finish, Crash, rows, dbVars
  <2>2. Counters' = Counters
    BY <1>2, <1>6 DEF Start, BuildNothing, Plan, CheckStatus, CheckPending, CheckThreshold,
       BeginWave, PollRaises, PollTimesOut, FinishWave, Finish, Crash, rows, dbVars, Counters,
       DeploymentRow
  <2> QED
    BY <2>1, <2>2 DEF Unrecorded
<1> QED
  BY <1>1, <1>3, <1>4, <1>5, <1>6 DEF OrchStep

LEMMA ControlUnrecorded == ASSUME TypeOK, Control, SavesFresh PROVE Unrecorded
<1>1. dep \in DeploymentRow /\ tgt \in [Devices -> TargetStatus]
      /\ \A v \in Views : row[v] \in DeploymentRow
  BY DEF TypeOK, DBTypeOK, ApiTypeOK
<1>2. ASSUME NEW v \in Views, SaveRow(v) PROVE Unrecorded
  <2>1. tgt' = tgt
    BY <1>2 DEF SaveRow, rows
  <2>2. dep'.completed = row[v].completed /\ dep'.failed = row[v].failed
    BY <1>1, <1>2 DEF SaveRow, DeploymentRow
  <2> QED
    BY <1>2, <2>1, <2>2 DEF SavesFresh, Unrecorded, Counters
<1>3. ASSUME NEW d \in Devices, CancelTarget(d) PROVE Unrecorded
  BY <1>1, <1>3 DEF CancelTarget, Unrecorded, Counters
<1>4. CASE \/ \E v \in Views : \E op \in Operations : Read(v, op)
           \/ RequestCancel \/ CancelRead \/ CancelSave \/ CancelQuery \/ Schedule
  <2>1. tgt' = tgt
    BY <1>4 DEF Read, RequestCancel, CancelRead, CancelSave, CancelQuery, Schedule, SchedRead,
       SchedSave, SchedEnqueue, SchedLost, rows, dbVars
  <2>2. Counters' = Counters
    BY <1>1, <1>4 DEF Read, RequestCancel, CancelRead, CancelSave, CancelQuery, Schedule,
       SchedRead, SchedSave, SchedEnqueue, SchedLost, dbVars, Counters, DeploymentRow
  <2> QED
    BY <2>1, <2>2 DEF Unrecorded
<1> QED
  BY <1>2, <1>3, <1>4 DEF Control, Requests, CancelTask, Save, SaveOnly

\* Only report_device_result and the monitor count.
LEMMA CountingSteps ==
    ASSUME TypeOK, [Next]_vars, SavesFresh
    PROVE  \/ Unrecorded
           \/ \E k \in Workers, d \in Devices, ok \in BOOLEAN :
                <<d, ok>> \in job[k] /\ job'[k] = {} /\ Record(d, ok)
           \/ MonitorWrite
<1>1. CASE Outcomes
  <2>1. CASE \E k \in Workers, d \in Devices, ok \in BOOLEAN :
                ReportWrite(k, d, ok) \/ ReportWriteNoAck(k, d, ok)
    BY <2>1 DEF ReportWrite, ReportWriteNoAck, TypeOK, ResultsTypeOK
  <2>2. CASE \/ \E d \in Devices : Device(d)
             \/ \E k \in Workers, d \in Devices, ok \in BOOLEAN :
                  ReportRead(k, d, ok) \/ ReportCrash(k, d, ok)
             \/ MonitorRead
    <3>1. UNCHANGED <<dep, tgt>>
      BY <2>2 DEF Device, LoseCommand, Age, AgentRuns, LoseResult, HealthReport, ReportRead,
         ReportCrash, MonitorRead, rows, dbVars
    <3> QED
      BY <3>1 DEF Unrecorded, Counters
  <2> QED
    BY <1>1, <2>1, <2>2 DEF Outcomes, Reporting
<1>2. CASE UNCHANGED vars
  BY <1>2 DEF vars, dbVars, Unrecorded, Counters
<1> QED
  BY <1>1, <1>2, OrchestrationUnrecorded, ControlUnrecorded DEF Next

\* What recording does to the targets of a status.
LEMMA RecordedOne ==
    ASSUME TypeOK, NEW d \in Devices, NEW ok \in BOOLEAN, Record(d, ok)
    PROVE  LET s == IF ok THEN "completed" ELSE "failed"
               f == IF ok THEN "failed" ELSE "completed"
           IN  /\ InStatus(s)' = InStatus(s) \cup {d}
               /\ InStatus(f)' = InStatus(f) \ {d}
               /\ dep'.completed = dep.completed + (IF ok THEN 1 ELSE 0)
               /\ dep'.failed = dep.failed + (IF ok THEN 0 ELSE 1)
BY DEF Record, InStatus, TypeOK, DBTypeOK, DeploymentRow

LEMMA OneMore ==
    ASSUME NEW S \in SUBSET Devices, NEW d \in Devices
    PROVE  /\ Cardinality(S) \in Nat
           /\ Cardinality(S \cup {d}) = IF d \in S THEN Cardinality(S) ELSE Cardinality(S) + 1
           /\ Cardinality(S \ {d}) <= Cardinality(S)
BY DeviceSetsFinite, FS_AddElement, FS_Subset

LEMMA NoMore ==
    ASSUME NEW S \in SUBSET Devices, NEW T \in SUBSET S
    PROVE  Cardinality(T) \in Nat /\ Cardinality(S) \in Nat /\ Cardinality(T) <= Cardinality(S)
BY DeviceSetsFinite, FS_Subset

LEMMA CountsGrow ==
    ASSUME TypeOK, NoLostIncrement, [Next]_vars, SavesFresh
    PROVE  NoLostIncrement'
<1>1. /\ dep.completed \in Nat /\ dep.failed \in Nat /\ tgt \in [Devices -> TargetStatus]
      /\ stuck \subseteq Devices
  BY DEF TypeOK, DBTypeOK, ResultsTypeOK, DeploymentRow
<1>2. CASE Unrecorded
  <2>1. ASSUME NEW s \in {"completed", "failed"} PROVE InStatus(s)' \subseteq InStatus(s)
    BY <1>2 DEF Unrecorded, InStatus
  <2>2. /\ Cardinality(InStatus("completed")') <= Cardinality(InStatus("completed"))
        /\ Cardinality(InStatus("failed")') <= Cardinality(InStatus("failed"))
        /\ \A s \in {"completed", "failed"} :
             Cardinality(InStatus(s)) \in Nat /\ Cardinality(InStatus(s)') \in Nat
    <3>1. \A s \in {"completed", "failed"} : InStatus(s) \in SUBSET Devices
      BY DEF InStatus
    <3> QED
      BY <2>1, <3>1, NoMore
  <2>3. dep'.completed = dep.completed /\ dep'.failed = dep.failed
    BY <1>2 DEF Unrecorded, Counters
  <2>4. \A s : Cardinality(InStatus(s))' = Cardinality(InStatus(s)')
    OBVIOUS
  <2> QED
    BY <1>1, <2>2, <2>3 DEF NoLostIncrement
<1>3. ASSUME NEW d \in Devices, NEW ok \in BOOLEAN, Record(d, ok) PROVE NoLostIncrement'
  <2> DEFINE s == IF ok THEN "completed" ELSE "failed"
             f == IF ok THEN "failed" ELSE "completed"
  <2>1. /\ InStatus(s)' = InStatus(s) \cup {d} /\ InStatus(f)' = InStatus(f) \ {d}
        /\ dep'.completed = dep.completed + (IF ok THEN 1 ELSE 0)
        /\ dep'.failed = dep.failed + (IF ok THEN 0 ELSE 1)
    BY <1>3, RecordedOne
  <2>2. InStatus(s) \in SUBSET Devices /\ InStatus(f) \in SUBSET Devices
    BY DEF InStatus
  <2>3. /\ Cardinality(InStatus(s)) \in Nat /\ Cardinality(InStatus(f)) \in Nat
        /\ Cardinality(InStatus(s)') <= Cardinality(InStatus(s)) + 1
        /\ Cardinality(InStatus(f)') <= Cardinality(InStatus(f))
        /\ Cardinality(InStatus(s)') \in Nat /\ Cardinality(InStatus(f)') \in Nat
    <3>1. InStatus(s)' \in SUBSET Devices /\ InStatus(f)' \in SUBSET Devices
      BY DEF InStatus
    <3>2. \A S, T \in SUBSET Devices :
            /\ T = S \cup {d} => Cardinality(T) <= Cardinality(S) + 1
            /\ T = S \ {d} => Cardinality(T) <= Cardinality(S)
            /\ Cardinality(S) \in Nat
      <4> SUFFICES ASSUME NEW S \in SUBSET Devices, NEW T \in SUBSET Devices
                   PROVE  /\ T = S \cup {d} => Cardinality(T) <= Cardinality(S) + 1
                          /\ T = S \ {d} => Cardinality(T) <= Cardinality(S)
                          /\ Cardinality(S) \in Nat
        OBVIOUS
      <4>1. /\ Cardinality(S) \in Nat
            /\ Cardinality(S \cup {d}) \in {Cardinality(S), Cardinality(S) + 1}
            /\ Cardinality(S \ {d}) <= Cardinality(S)
        BY OneMore
      <4>2. /\ T = S \cup {d} => Cardinality(T) = Cardinality(S \cup {d})
            /\ T = S \ {d} => Cardinality(T) = Cardinality(S \ {d})
        BY Zenon
      <4> QED
        BY <4>1, <4>2
    <3> QED
      BY <2>1, <2>2, <3>1, <3>2
  <2>4. CASE ok
    BY <1>1, <2>1, <2>3, <2>4 DEF NoLostIncrement
  <2>5. CASE ~ok
    BY <1>1, <2>1, <2>3, <2>5 DEF NoLostIncrement
  <2> QED
    BY <2>4, <2>5
<1>4. CASE MonitorWrite
  <2>1. /\ InStatus("failed")' = InStatus("failed") \cup stuck
        /\ InStatus("completed")' \subseteq InStatus("completed")
        /\ dep'.completed = dep.completed
        /\ dep'.failed = dep.failed + Cardinality(stuck)
    BY <1>1, <1>4 DEF MonitorWrite, InStatus, TypeOK, DBTypeOK, DeploymentRow
  <2>2. InStatus("failed") \in SUBSET Devices /\ InStatus("completed") \in SUBSET Devices
        /\ InStatus("failed") \cap stuck \in SUBSET Devices
    BY DEF InStatus
  <2>3. /\ Cardinality(InStatus("failed") \cup stuck) =
             Cardinality(InStatus("failed")) + Cardinality(stuck)
               - Cardinality(InStatus("failed") \cap stuck)
        /\ Cardinality(InStatus("failed")) \in Nat /\ Cardinality(stuck) \in Nat
        /\ Cardinality(InStatus("failed") \cap stuck) \in Nat
    BY <1>1, <2>2, DeviceSetsFinite, FS_Union
  <2>4. /\ Cardinality(InStatus("completed")') <= Cardinality(InStatus("completed"))
        /\ Cardinality(InStatus("completed")') \in Nat
        /\ Cardinality(InStatus("completed")) \in Nat
    BY <2>1, <2>2, NoMore
  <2> QED
    BY <1>1, <2>1, <2>3, <2>4 DEF NoLostIncrement
<1> QED
  BY <1>2, <1>3, <1>4, CountingSteps

\* Whatever runs, crashes, is redelivered or times out, the only thing that can
\* lose an increment of report_device_result or of the monitor is a view that
\* saves the counters it had read before (deployments/views.py, save()).
THEOREM OnlyStaleSavesLose == Spec /\ FreshSaves => []NoLostIncrement
<1>1. Init => NoLostIncrement
  <2> SUFFICES ASSUME Init PROVE NoLostIncrement
    OBVIOUS
  <2>1. /\ dep.completed = 0 /\ dep.failed = 0
        /\ InStatus("completed") = {} /\ InStatus("failed") = {}
    BY DEF Init, DBInit, NewDeployment, InStatus
  <2> QED
    BY <2>1, FS_EmptySet DEF NoLostIncrement
<1>2. TypeOK /\ NoLostIncrement /\ [Next]_vars /\ [SavesFresh]_vars => NoLostIncrement'
  <2>1. ASSUME UNCHANGED vars, NoLostIncrement PROVE NoLostIncrement'
    BY <2>1 DEF vars, dbVars, NoLostIncrement, InStatus
  <2> QED
    BY <2>1, CountsGrow
<1>3. FreshSaves <=> [][SavesFresh]_vars
  BY DEF FreshSaves, SavesFresh
<1> QED
  BY <1>1, <1>2, <1>3, TypeCorrect, PTL DEF Spec

-----------------------------------------------------------------------------
(* How the counters and the targets may go apart *)

\* Nobody takes up a target with an outcome: the slots take up what is queued,
\* the workers, the monitor and the cancel task what is queued or in progress.
LEMMA NobodyTakesUp ==
    ASSUME TypeOK, [Next]_vars, NEW d \in Outcome
    PROVE  Holders(d)' \subseteq Holders(d)
<1>1. d \in Devices /\ tgt[d] \in {"completed", "failed"}
  BY DEF Outcome, InStatus
<1>2. \A o \in Orchestrators : d \in Due(o)' => d \in Due(o)
  BY <1>1, DueStep
<1>3. /\ \A k \in Workers, ok \in BOOLEAN : <<d, ok>> \in job'[k] => <<d, ok>> \in job[k]
      /\ d \in stuck' => d \in stuck
      /\ d \in cancelling' => d \in cancelling
  <2>1. CASE Orchestration \/ UNCHANGED vars
    BY <2>1 DEF Orchestration, resultVars, apiVars, vars
  <2>2. CASE Outcomes
    <3>1. cancelling' = cancelling
      BY <2>2 DEF Outcomes, apiVars
    <3>2. ASSUME NEW e \in Devices, Device(e) PROVE UNCHANGED <<job, stuck>>
      BY <3>2 DEF Device, LoseCommand, Age, AgentRuns, LoseResult, HealthReport, resultVars
    <3>3. ASSUME NEW l \in Workers, NEW e \in Devices, NEW good \in BOOLEAN, Reporting(l, e, good)
          PROVE  /\ stuck' = stuck
                 /\ \A k \in Workers, ok \in BOOLEAN :
                      <<d, ok>> \in job'[k] => <<d, ok>> \in job[k]
      BY <1>1, <3>3 DEF Reporting, ReportRead, ReportWrite, ReportWriteNoAck, ReportCrash,
         TypeOK, ResultsTypeOK
    <3>4. CASE MonitorRead
      BY <1>1, <3>1, <3>4 DEF MonitorRead, InStatus
    <3>5. CASE MonitorWrite
      BY <3>1, <3>5 DEF MonitorWrite
    <3> QED
      BY <2>2, <3>1, <3>2, <3>3, <3>4, <3>5 DEF Outcomes
  <2>3. CASE Control
    <3>1. UNCHANGED <<job, stuck>>
      BY <2>3 DEF Control, resultVars
    <3>2. CASE CancelQuery
      BY <1>1, <3>1, <3>2 DEF CancelQuery, Queued, InStatus
    <3>3. CASE ~CancelQuery
      <4>1. cancelling' \subseteq cancelling
        BY <2>3, <3>3 DEF Control, Requests, CancelTask, Schedule, Read, Save, SaveOnly, SaveRow,
           RequestCancel, CancelRead, CancelSave, CancelTarget, SchedRead, SchedSave,
           SchedEnqueue, SchedLost
      <4> QED
        BY <3>1, <4>1
    <3> QED
      BY <3>2, <3>3
  <2> QED
    BY <2>1, <2>2, <2>3 DEF Next
<1> QED
  BY <1>2, <1>3 DEF Holders

\* Who writes a target lets go of it.
LEMMA LetsGo ==
    ASSUME NEW d
    PROVE  /\ \A o \in Orchestrators : d \in Due(o) \ Due(o)' => Holders(d)' # Holders(d)
           /\ \A k \in Workers : /\ \E ok \in BOOLEAN : <<d, ok>> \in job[k]
                                 /\ job'[k] = {}
                                 => Holders(d)' # Holders(d)
           /\ d \in stuck \ stuck' => Holders(d)' # Holders(d)
           /\ d \in cancelling \ cancelling' => Holders(d)' # Holders(d)
<1>1. ASSUME NEW o \in Orchestrators, d \in Due(o) \ Due(o)' PROVE Holders(d)' # Holders(d)
  <2>1. <<"slot", o>> \in Holders(d) /\ <<"slot", o>> \notin Holders(d)'
    BY <1>1 DEF Holders
  <2> QED
    BY <2>1
<1>2. ASSUME NEW k \in Workers, \E ok \in BOOLEAN : <<d, ok>> \in job[k], job'[k] = {}
      PROVE  Holders(d)' # Holders(d)
  <2>1. <<"worker", k>> \in Holders(d) /\ <<"worker", k>> \notin Holders(d)'
    BY <1>2 DEF Holders
  <2> QED
    BY <2>1
<1>3. ASSUME d \in stuck \ stuck' PROVE Holders(d)' # Holders(d)
  <2>1. <<"task", "monitor">> \in Holders(d) /\ <<"task", "monitor">> \notin Holders(d)'
    BY <1>3 DEF Holders
  <2> QED
    BY <2>1
<1>4. ASSUME d \in cancelling \ cancelling' PROVE Holders(d)' # Holders(d)
  <2>1. <<"task", "cancel">> \in Holders(d) /\ <<"task", "cancel">> \notin Holders(d)'
    BY <1>4 DEF Holders
  <2> QED
    BY <2>1
<1> QED
  BY <1>1, <1>2, <1>3, <1>4

LEMMA GapStep ==
    ASSUME TypeOK, [Next]_vars, Gap' # Gap
    PROVE  \/ \E v \in Views : StaleSave(v)
           \/ \E d \in Outcome : Holders(d)' # Holders(d)
<1>1. /\ dep.completed \in Nat /\ dep.failed \in Nat /\ tgt \in [Devices -> TargetStatus]
      /\ stuck \subseteq Devices
  BY DEF TypeOK, DBTypeOK, ResultsTypeOK, DeploymentRow
<1> SUFFICES ASSUME ~ \E v \in Views : StaleSave(v), ~ \E d \in Outcome : Holders(d)' # Holders(d)
             PROVE  Gap' = Gap
  OBVIOUS
<1>2. SavesFresh
  BY DEF SavesFresh, StaleSave
<1>3. CASE Unrecorded
  <2>1. ASSUME NEW d \in Devices, tgt'[d] # tgt[d]
        PROVE  /\ tgt[d] \notin {"completed", "failed"}
               /\ tgt'[d] \notin {"completed", "failed"}
    <3>1. ASSUME d \in Outcome PROVE FALSE
      <4>1. tgt[d] # "absent"
        BY <3>1 DEF Outcome, InStatus
      <4> QED
        BY <1>3, <2>1, <3>1, <4>1, LetsGo DEF Unrecorded
    <3> QED
      BY <1>3, <2>1, <3>1 DEF Unrecorded, Outcome, InStatus
  <2>2. InStatus("completed")' = InStatus("completed") /\ InStatus("failed")' = InStatus("failed")
    BY <2>1 DEF InStatus
  <2>3. dep'.completed = dep.completed /\ dep'.failed = dep.failed
    BY <1>3 DEF Unrecorded, Counters
  <2> QED
    BY <2>2, <2>3 DEF Gap
<1>4. ASSUME NEW k \in Workers, NEW d \in Devices, NEW ok \in BOOLEAN,
             <<d, ok>> \in job[k], job'[k] = {}, Record(d, ok)
      PROVE  Gap' = Gap
  <2> DEFINE s == IF ok THEN "completed" ELSE "failed"
             f == IF ok THEN "failed" ELSE "completed"
  <2>1. d \notin Outcome
    BY <1>4, LetsGo
  <2>2. /\ InStatus(s)' = InStatus(s) \cup {d} /\ InStatus(f)' = InStatus(f) \ {d}
        /\ dep'.completed = dep.completed + (IF ok THEN 1 ELSE 0)
        /\ dep'.failed = dep.failed + (IF ok THEN 0 ELSE 1)
    BY <1>4, RecordedOne
  <2>3. d \notin InStatus(s) /\ d \notin InStatus(f)
        /\ InStatus(s) \in SUBSET Devices /\ InStatus(f) \in SUBSET Devices
    BY <2>1 DEF Outcome, InStatus
  <2>4. Cardinality(InStatus(s) \cup {d}) = Cardinality(InStatus(s)) + 1
        /\ Cardinality(InStatus(s)) \in Nat /\ Cardinality(InStatus(f)) \in Nat
    BY <2>3, OneMore
  <2>5. InStatus(f)' = InStatus(f)
    BY <2>2, <2>3
  <2>6. Cardinality(InStatus(s)') = Cardinality(InStatus(s)) + 1
        /\ Cardinality(InStatus(f)') = Cardinality(InStatus(f))
    BY <2>2, <2>4, <2>5
  <2>7. CASE ok
    BY <1>1, <2>2, <2>4, <2>6, <2>7 DEF Gap
  <2>8. CASE ~ok
    BY <1>1, <2>2, <2>4, <2>6, <2>8 DEF Gap
  <2> QED
    BY <2>7, <2>8
<1>5. CASE MonitorWrite
  <2>1. stuck' = {}
    BY <1>5 DEF MonitorWrite
  <2>2. stuck \cap Outcome = {}
    BY <2>1, LetsGo
  <2>3. /\ InStatus("failed")' = InStatus("failed") \cup stuck
        /\ InStatus("completed")' = InStatus("completed")
        /\ dep'.completed = dep.completed
        /\ dep'.failed = dep.failed + Cardinality(stuck)
    BY <1>1, <1>5, <2>2 DEF MonitorWrite, InStatus, Outcome, TypeOK, DBTypeOK, DeploymentRow
  <2>4. InStatus("failed") \in SUBSET Devices /\ InStatus("failed") \cap stuck = {}
    BY <2>2 DEF InStatus, Outcome
  <2>5. /\ Cardinality(InStatus("failed") \cup stuck) =
             Cardinality(InStatus("failed")) + Cardinality(stuck)
               - Cardinality(InStatus("failed") \cap stuck)
        /\ Cardinality(InStatus("failed")) \in Nat /\ Cardinality(stuck) \in Nat
    BY <1>1, <2>4, DeviceSetsFinite, FS_Union
  <2>6. Cardinality(InStatus("failed")') = Cardinality(InStatus("failed")) + Cardinality(stuck)
    <3>1. Cardinality(InStatus("failed") \cap stuck) = 0
      BY <2>4, FS_EmptySet
    <3>2. Cardinality(InStatus("failed")') = Cardinality(InStatus("failed") \cup stuck)
      BY <2>3, Zenon
    <3> QED
      BY <2>5, <3>1, <3>2
  <2>7. dep'.failed - Cardinality(InStatus("failed")') = dep.failed - Cardinality(InStatus("failed"))
    BY <1>1, <2>3, <2>5, <2>6
  <2> QED
    BY <2>3, <2>7 DEF Gap
<1> QED
  BY <1>2, <1>3, <1>4, <1>5, CountingSteps

\* For any number of tasks, workers and views, and whatever is lost, crashes and
\* is delivered again: nobody takes up a target that has an outcome, and only a
\* view that saves counters read earlier, or a task that had taken the target up
\* before its outcome was recorded, makes the counters wrong.
THEOREM CountersFollowHolds == Spec => CountersFollow
<1>1. TypeOK /\ [Next]_vars =>
        [/\ \A d \in Outcome : Holders(d)' \subseteq Holders(d)
         /\ Gap' # Gap => \/ \E v \in Views : StaleSave(v)
                          \/ \E d \in Outcome : Holders(d)' # Holders(d)]_vars
  BY NobodyTakesUp, GapStep
<1> QED
  BY <1>1, TypeCorrect, PTL DEF Spec, CountersFollow
=============================================================================
