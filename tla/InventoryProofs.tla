--------------------------- MODULE InventoryProofs ---------------------------
(***************************************************************************)
(* What is proved of the row of a device: overlapping handlers change only *)
(* their own fields of it unless they had read it before, and to what is   *)
(* decommissioned only what was under way then does anything.              *)
(***************************************************************************)
EXTENDS Inventory, TLAPS

Rows == [status : Statuses, fields : [Fields -> Nat]]

InventoryTypeOK ==
  /\ status \in Statuses
  /\ fields \in [Fields -> Nat]
  /\ writes \in Nat
  /\ settings \in Nat /\ pushed \in Seq(Nat)
  /\ pc \in [Requests -> {"idle", "read"}]
  /\ kind \in [Requests -> Handlers \cup {NoHandler}]
  /\ copy \in [Requests -> Rows]
  /\ late \subseteq Requests
  /\ stale \in [Requests -> SUBSET Fields]
  /\ \A r \in Requests : pc[r] = "read" => kind[r] \in Handlers

(* What a request neither sets nor missed a change of, it has as it is.    *)
CopiesHold ==
  \A r \in Requests : pc[r] = "read" =>
    \A f \in Fields : f \notin stale[r] /\ f \notin Sets(kind[r]) => copy[r].fields[f] = fields[f]

(* A decommissioned device is found by bulk_tag, and held by the late.     *)
OnlyTagged ==
  status = "decommissioned" =>
    \A r \in Requests : pc[r] = "read" /\ r \notin late => kind[r] = bulk_tag

InventoryInv == InventoryTypeOK /\ CopiesHold /\ OnlyTagged

-----------------------------------------------------------------------------
(* The handlers.                                                           *)

LEMMA SetsOf ==
  /\ Sets(plain_heartbeat) = {} /\ Sets(ingest_metrics) = {} /\ Sets(decommission) = {}
  /\ Sets(scan) = {} /\ Sets(bulk_scan) = {} /\ Sets(reboot) = {} /\ Sets(request_slow_lane) = {}
  /\ Sets(request_fast_lane) = {} /\ Sets(install_patch) = {} /\ Sets(destroy) = {}
  /\ Sets(ingest_health_check) = {"health"} /\ Sets(agent_config) = {"settings"}
  /\ Sets(heartbeat) = {"settings"}
  /\ Sets(ingest_inventory) = {"base", "slow"} /\ Sets(ingest_slow_lane) = {"slow"}
  /\ Sets(bulk_tag) = {"tags"} /\ Sets(partial_update) = {"tags"}
  /\ Sets(lane_config) = {"lanes"} /\ Sets(rotate_key) = {"key"}
<1>1. \A d, s, t : Sets(Handler(d, s, t)) = t
  BY DEF Sets, Handler
<1> QED
  BY <1>1, Zenon DEF heartbeat, plain_heartbeat, ingest_metrics, decommission, scan, bulk_scan, reboot, request_slow_lane,
     request_fast_lane, install_patch, destroy, ingest_health_check, agent_config,
     ingest_inventory, ingest_slow_lane, bulk_tag, partial_update, lane_config, rotate_key

(* Which handler sets which field.                                         *)
LEMMA OwnerOf ==
  ASSUME NEW k \in Handlers, NEW f \in Sets(k)
  PROVE  \/ k = ingest_health_check /\ f = "health"
         \/ k \in {agent_config, heartbeat} /\ f = "settings"
         \/ k \in {ingest_slow_lane, ingest_inventory} /\ f = "slow"
         \/ k = ingest_inventory /\ f = "base"
         \/ k \in {bulk_tag, partial_update} /\ f = "tags"
         \/ k = lane_config /\ f = "lanes"
         \/ k = rotate_key /\ f = "key"
BY SetsOf, ZenonT(90) DEF Handlers

(* Tagging leaves the status alone and sends nothing.                      *)
LEMMA Tagging ==
  /\ bulk_tag.does = "save" /\ bulk_tag.saves = {"tags"}
BY DEF bulk_tag, Handler

-----------------------------------------------------------------------------

LEMMA InventoryInit == Init => InventoryInv
<1> SUFFICES ASSUME Init PROVE InventoryInv
  OBVIOUS
<1>1. NoCopy \in Rows
  BY DEF NoCopy, Rows, Statuses
<1>2. InventoryTypeOK
  BY <1>1 DEF Init, InventoryTypeOK, Statuses
<1>3. CopiesHold /\ OnlyTagged
  BY DEF Init, CopiesHold, OnlyTagged, Statuses
<1> QED BY <1>2, <1>3 DEF InventoryInv

(* The handler reads the row, and lays what it sets over its copy.         *)
LEMMA InventoryBegin ==
  ASSUME NEW r \in Requests, NEW k \in Handlers
  PROVE  InventoryInv /\ Begin(r, k) => InventoryInv'
<1> SUFFICES ASSUME InventoryInv, Begin(r, k) PROVE InventoryInv'
  OBVIOUS
<1> USE DEF InventoryInv
<1> DEFINE new == [f \in Fields |->
                     IF f \notin Sets(k) THEN fields[f]
                     ELSE IF k.does = "report" THEN settings ELSE writes']
           c == [status |-> status, fields |-> new]
<1>1. /\ status' = status /\ fields' = fields /\ late' = late
      /\ pc' = [pc EXCEPT ![r] = "read"] /\ kind' = [kind EXCEPT ![r] = k]
      /\ copy' = [copy EXCEPT ![r] = c] /\ stale' = [stale EXCEPT ![r] = {}]
      /\ settings' = settings /\ pushed' = pushed
  BY DEF Begin, row, agent
<1>2. writes' \in Nat /\ settings \in Nat
  BY DEF Begin, InventoryTypeOK
<1>3. new \in [Fields -> Nat] /\ \A f \in Fields : f \notin Sets(k) => new[f] = fields[f]
  BY <1>2 DEF InventoryTypeOK
<1> HIDE DEF new
<1>4. c \in Rows /\ c.fields = new
  BY <1>3 DEF Rows, InventoryTypeOK
<1> HIDE DEF c
<1>5. \A q \in Requests : /\ pc'[q] = IF q = r THEN "read" ELSE pc[q]
                          /\ kind'[q] = IF q = r THEN k ELSE kind[q]
                          /\ copy'[q] = IF q = r THEN c ELSE copy[q]
                          /\ stale'[q] = IF q = r THEN {} ELSE stale[q]
  BY <1>1 DEF InventoryTypeOK
<1>6. InventoryTypeOK'
  <2>1. pc' \in [Requests -> {"idle", "read"}] /\ copy' \in [Requests -> Rows]
    BY <1>1, <1>4 DEF InventoryTypeOK
  <2>2. kind' \in [Requests -> Handlers \cup {NoHandler}]
    BY <1>1 DEF InventoryTypeOK
  <2>3. stale' \in [Requests -> SUBSET Fields]
    BY <1>1 DEF InventoryTypeOK
  <2>4. \A q \in Requests : pc'[q] = "read" => kind'[q] \in Handlers
    BY <1>5 DEF InventoryTypeOK
  <2> QED BY <1>1, <1>2, <2>1, <2>2, <2>3, <2>4 DEF InventoryTypeOK
<1>7. CopiesHold'
  <2>1. ASSUME NEW q \in Requests, pc'[q] = "read",
               NEW f \in Fields, f \notin stale'[q], f \notin Sets(kind'[q])
        PROVE  copy'[q].fields[f] = fields'[f]
    <3>1. CASE q = r
      BY <2>1, <3>1, <1>1, <1>3, <1>4, <1>5
    <3>2. CASE q # r
      BY <2>1, <3>2, <1>1, <1>5 DEF CopiesHold
    <3> QED BY <3>1, <3>2
  <2> QED BY <2>1 DEF CopiesHold, Sets
<1>8. OnlyTagged'
  <2>1. status = "decommissioned" => k = bulk_tag
    BY DEF Begin, Found
  <2> QED BY <2>1, <1>1, <1>5 DEF OnlyTagged
<1> QED BY <1>6, <1>7, <1>8

(* A request that is over leaves nothing of its own behind.                *)
LEMMA DoneFacts ==
  ASSUME InventoryTypeOK, NEW r \in Requests, Done(r)
  PROVE  /\ pc' \in [Requests -> {"idle", "read"}]
         /\ kind' \in [Requests -> Handlers \cup {NoHandler}] /\ copy' \in [Requests -> Rows]
         /\ pc'[r] = "idle"
         /\ \A q \in Requests : q # r => pc'[q] = pc[q] /\ kind'[q] = kind[q] /\ copy'[q] = copy[q]
<1>1. NoCopy \in Rows
  BY DEF NoCopy, Rows, Statuses
<1> QED BY <1>1 DEF Done, InventoryTypeOK

(* The save of one request makes what it changed stale to the others.      *)
LEMMA InventorySave ==
  ASSUME NEW r \in Requests
  PROVE  InventoryInv /\ Save(r) => InventoryInv'
<1> SUFFICES ASSUME InventoryInv, Save(r) PROVE InventoryInv'
  OBVIOUS
<1> USE DEF InventoryInv
<1>1. /\ pc' \in [Requests -> {"idle", "read"}]
      /\ kind' \in [Requests -> Handlers \cup {NoHandler}] /\ copy' \in [Requests -> Rows]
      /\ pc'[r] = "idle"
      /\ \A q \in Requests : q # r => pc'[q] = pc[q] /\ kind'[q] = kind[q] /\ copy'[q] = copy[q]
  BY DoneFacts DEF Save
<1>2. /\ pc[r] = "read" /\ writes' = writes
      /\ late' = (IF status # "decommissioned" /\ status' = "decommissioned"
                  THEN late \cup {q \in Requests \ {r} : pc[q] # "idle"} ELSE late) \ {r}
      /\ stale' = [q \in Requests |->
           IF pc'[q] = "idle" THEN {} ELSE stale[q] \cup {f \in Fields : fields'[f] # fields[f]}]
  BY DEF Save
<1>3. fields' \in [Fields -> Nat]
  <2>1. copy[r].fields \in [Fields -> Nat]
    BY DEF InventoryTypeOK, Rows
  <2>2. \/ fields' = fields
        \/ fields' = [f \in Fields |-> IF f \in Saved(r) THEN copy[r].fields[f] ELSE fields[f]]
    BY DEF Save, row
  <2> QED BY <2>1, <2>2 DEF InventoryTypeOK
<1>4. status' \in Statuses
  <2>1. status' = status \/ status' \in NewStatus(r)
    BY DEF Save, row
  <2>2. NewStatus(r) \subseteq Statuses
    BY DEF NewStatus, InventoryTypeOK, Rows, Statuses
  <2> QED BY <2>1, <2>2 DEF InventoryTypeOK
<1>5. settings' \in Nat /\ pushed' \in Seq(Nat)
  <2>1. copy[r].fields \in [Fields -> Nat]
    BY DEF InventoryTypeOK, Rows
  <2>2. "settings" \in Fields
    BY DEF Fields, Columns, InColumn
  <2>3. copy[r].fields["settings"] \in Nat
    BY <2>1, <2>2
  <2>4. pushed' = pushed \/ pushed' = Append(pushed, copy[r].fields["settings"])
    BY DEF Save
  <2>5. pushed \in Seq(Nat) /\ settings \in Nat /\ settings' = settings
    BY DEF InventoryTypeOK, Save, agent
  <2> HIDE DEF InventoryInv
  <2> QED BY <2>3, <2>4, <2>5
<1>6. InventoryTypeOK'
  <2>1. late' \subseteq Requests /\ stale' \in [Requests -> SUBSET Fields]
    BY <1>2 DEF InventoryTypeOK
  <2>2. \A q \in Requests : pc'[q] = "read" => kind'[q] \in Handlers
    BY <1>1 DEF InventoryTypeOK
  <2> QED BY <1>1, <1>2, <1>3, <1>4, <1>5, <2>1, <2>2 DEF InventoryTypeOK
<1>7. CopiesHold'
  <2>1. ASSUME NEW q \in Requests, pc'[q] = "read",
               NEW f \in Fields, f \notin stale'[q], f \notin Sets(kind'[q])
        PROVE  copy'[q].fields[f] = fields'[f]
    <3>1. q # r
      BY <2>1, <1>1
    <3>2. f \notin stale[q] /\ fields'[f] = fields[f]
      BY <2>1, <1>2
    <3> QED BY <2>1, <3>1, <3>2, <1>1 DEF CopiesHold
  <2> QED BY <2>1 DEF CopiesHold, Sets
<1>8. OnlyTagged'
  <2> SUFFICES ASSUME status' = "decommissioned", NEW q \in Requests, pc'[q] = "read", q \notin late'
               PROVE  kind'[q] = bulk_tag
    BY DEF OnlyTagged
  <2>1. q # r /\ pc[q] = "read"
    BY <1>1
  <2>2. status = "decommissioned" /\ q \notin late
    BY <1>2, <2>1
  <2> QED BY <2>1, <2>2, <1>1 DEF OnlyTagged
<1> QED BY <1>6, <1>7, <1>8

(* A command, a task or a deletion leaves the columns as they are.                 *)
LEMMA InventoryOver ==
  ASSUME NEW r \in Requests
  PROVE  InventoryInv /\ (Command(r) \/ Enqueue(r) \/ Delete(r)) => InventoryInv'
<1> SUFFICES ASSUME InventoryInv, Command(r) \/ Enqueue(r) \/ Delete(r) PROVE InventoryInv'
  OBVIOUS
<1> USE DEF InventoryInv
<1>1. /\ pc' \in [Requests -> {"idle", "read"}]
      /\ kind' \in [Requests -> Handlers \cup {NoHandler}] /\ copy' \in [Requests -> Rows]
      /\ pc'[r] = "idle"
      /\ \A q \in Requests : q # r => pc'[q] = pc[q] /\ kind'[q] = kind[q] /\ copy'[q] = copy[q]
  BY DoneFacts DEF Command, Enqueue, Delete
<1>2. /\ status' = status /\ fields' = fields /\ writes' = writes
      /\ late' = late \ {r} /\ stale' = [stale EXCEPT ![r] = {}]
      /\ settings' = settings /\ pushed' = pushed
  BY DEF Command, Enqueue, Delete, row, agent
<1>3. \A q \in Requests : q # r => stale'[q] = stale[q]
  BY <1>2 DEF InventoryTypeOK
<1>4. InventoryTypeOK'
  <2>1. late' \subseteq Requests /\ stale' \in [Requests -> SUBSET Fields]
    BY <1>2 DEF InventoryTypeOK
  <2>2. \A q \in Requests : pc'[q] = "read" => kind'[q] \in Handlers
    BY <1>1 DEF InventoryTypeOK
  <2> QED BY <1>1, <1>2, <2>1, <2>2 DEF InventoryTypeOK
<1>5. CopiesHold'
  <2>1. ASSUME NEW q \in Requests, pc'[q] = "read",
               NEW f \in Fields, f \notin stale'[q], f \notin Sets(kind'[q])
        PROVE  copy'[q].fields[f] = fields'[f]
    <3>1. q # r
      BY <2>1, <1>1
    <3> QED BY <2>1, <3>1, <1>1, <1>2, <1>3 DEF CopiesHold
  <2> QED BY <2>1 DEF CopiesHold, Sets
<1>6. OnlyTagged'
  BY <1>1, <1>2 DEF OnlyTagged
<1> QED BY <1>4, <1>5, <1>6

(* Time, the sweep, the task and the agent touch no request.               *)
Around ==
  FiveMinutes \/ SweepQuery \/ SweepSave \/ ScanTask \/ AgentStops \/ AgentConfigured \/ AgentGetsKey

LEMMA InventoryAround ==
  InventoryInv /\ (Around \/ UNCHANGED vars) => InventoryInv'
<1> SUFFICES ASSUME InventoryInv, Around \/ UNCHANGED vars
             PROVE  InventoryInv'
  OBVIOUS
<1> USE DEF InventoryInv
<1>1. /\ status' \in {status, "offline"} /\ fields' = fields /\ writes' = writes
      /\ pc' = pc /\ kind' = kind /\ copy' = copy /\ late' = late /\ stale' = stale
  BY DEF Around, FiveMinutes, SweepQuery, SweepSave, ScanTask, AgentStops, AgentConfigured, AgentGetsKey,
         vars, row
<1>a. settings' \in Nat /\ pushed' \in Seq(Nat)
  <2>1. CASE AgentConfigured
    <3>1. pushed \in Seq(Nat) /\ pushed # << >>
      BY <2>1 DEF AgentConfigured, InventoryTypeOK
    <3>2. Head(pushed) \in Nat /\ Tail(pushed) \in Seq(Nat)
      BY <3>1
    <3> QED BY <2>1, <3>2 DEF AgentConfigured, InventoryTypeOK
  <2>2. CASE AgentStops
    BY <2>2 DEF AgentStops, InventoryTypeOK
  <2>3. CASE FiveMinutes \/ SweepQuery \/ SweepSave \/ ScanTask \/ AgentGetsKey \/ UNCHANGED vars
    BY <2>3 DEF FiveMinutes, SweepQuery, SweepSave, ScanTask, AgentGetsKey, vars, agent, InventoryTypeOK
  <2> QED BY <2>1, <2>2, <2>3 DEF Around
<1>2. InventoryTypeOK'
  BY <1>1, <1>a DEF InventoryTypeOK, Statuses
<1>3. CopiesHold'
  BY <1>1 DEF CopiesHold, Sets
<1>4. OnlyTagged'
  BY <1>1 DEF OnlyTagged
<1> QED BY <1>2, <1>3, <1>4

THEOREM InventoryInvariant == Spec => []InventoryInv
<1>1. Init => InventoryInv
  BY InventoryInit
<1>2. InventoryInv /\ [Next]_vars => InventoryInv'
  BY InventoryBegin, InventorySave, InventoryOver, InventoryAround, Zenon DEF Next, Finish, Around
<1> QED BY <1>1, <1>2, PTL DEF Spec

-----------------------------------------------------------------------------

OwnFieldsStep ==
  \A f \in Fields : fields'[f] # fields[f] =>
    \E r \in Requests :
      /\ pc[r] = "read" /\ pc'[r] = "idle"
      /\ \/ kind[r] = ingest_health_check /\ f = "health"
         \/ kind[r] \in {agent_config, heartbeat} /\ f = "settings"
         \/ kind[r] \in {ingest_slow_lane, ingest_inventory} /\ f = "slow"
         \/ kind[r] = ingest_inventory /\ f = "base"
         \/ kind[r] \in {bulk_tag, partial_update} /\ f = "tags"
         \/ kind[r] = lane_config /\ f = "lanes"
         \/ kind[r] = rotate_key /\ f = "key"
         \/ f \in stale[r]

StickStep ==
  status = "decommissioned" =>
    \/ status' = status /\ sent' = sent /\ scans' = scans
    \/ sweep
    \/ scans' = scans - 1 /\ status' = status
    \/ \E r \in late : pc[r] = "read" /\ pc'[r] = "idle"

(* Only a save changes fields.                                             *)
LEMMA FieldsLeft ==
  ASSUME [Next]_vars, \A r \in Requests : ~Save(r)
  PROVE  fields' = fields
<1>1. ASSUME NEW r \in Requests, Command(r) \/ Enqueue(r) \/ Delete(r) PROVE fields' = fields
  BY <1>1 DEF Command, Enqueue, Delete, row
<1>2. ASSUME NEW r \in Requests, NEW k \in Handlers, Begin(r, k) PROVE fields' = fields
  BY <1>2 DEF Begin, row
<1>3. ASSUME Around \/ UNCHANGED vars PROVE fields' = fields
  BY <1>3 DEF Around, FiveMinutes, SweepQuery, SweepSave, ScanTask, AgentStops, AgentConfigured,
              AgentGetsKey, vars, row
<1> QED BY <1>1, <1>2, <1>3, Zenon DEF Next, Finish, Around

LEMMA SaveOwn ==
  ASSUME InventoryInv, NEW r \in Requests, Save(r)
  PROVE  OwnFieldsStep
<1> SUFFICES ASSUME NEW f \in Fields, fields'[f] # fields[f]
             PROVE  \E q \in Requests :
                      /\ pc[q] = "read" /\ pc'[q] = "idle"
                      /\ \/ kind[q] = ingest_health_check /\ f = "health"
                         \/ kind[q] \in {agent_config, heartbeat} /\ f = "settings"
                         \/ kind[q] \in {ingest_slow_lane, ingest_inventory} /\ f = "slow"
                         \/ kind[q] = ingest_inventory /\ f = "base"
                         \/ kind[q] \in {bulk_tag, partial_update} /\ f = "tags"
                         \/ kind[q] = lane_config /\ f = "lanes"
                         \/ kind[q] = rotate_key /\ f = "key"
                         \/ f \in stale[q]
  BY DEF OwnFieldsStep
<1>1. pc[r] = "read" /\ pc'[r] = "idle" /\ kind[r] \in Handlers
  <2>1. pc[r] = "read"
    BY DEF Save
  <2> QED BY <2>1, DoneFacts DEF InventoryInv, InventoryTypeOK, Save
<1>2. fields'[f] = copy[r].fields[f]
  <2>1. \/ fields' = fields
        \/ fields' = [g \in Fields |-> IF g \in Saved(r) THEN copy[r].fields[g] ELSE fields[g]]
    BY DEF Save, row
  <2> QED BY <2>1
<1>3. f \in stale[r] \/ f \in Sets(kind[r])
  BY <1>1, <1>2 DEF InventoryInv, CopiesHold
<1>4. CASE f \in stale[r]
  BY <1>1, <1>4, Zenon
<1>5. CASE f \in Sets(kind[r])
  <2>1. \/ kind[r] = ingest_health_check /\ f = "health"
        \/ kind[r] \in {agent_config, heartbeat} /\ f = "settings"
        \/ kind[r] \in {ingest_slow_lane, ingest_inventory} /\ f = "slow"
        \/ kind[r] = ingest_inventory /\ f = "base"
        \/ kind[r] \in {bulk_tag, partial_update} /\ f = "tags"
        \/ kind[r] = lane_config /\ f = "lanes"
        \/ kind[r] = rotate_key /\ f = "key"
    BY <1>1, <1>5, OwnerOf, Zenon
  <2> QED BY <1>1, <2>1, Zenon
<1> QED BY <1>3, <1>4, <1>5

(* What one handler stored, another changes only if it had read the row    *)
(* before: alone, each keeps to its own fields.                            *)
THEOREM OwnFieldsOnlyHolds == Spec => OwnFieldsOnly
<1>1. InventoryInv /\ [Next]_vars => OwnFieldsStep
  <2> SUFFICES ASSUME InventoryInv, [Next]_vars PROVE OwnFieldsStep
    OBVIOUS
  <2>1. CASE \E r \in Requests : Save(r)
    BY <2>1, SaveOwn
  <2>2. CASE ~\E r \in Requests : Save(r)
    BY <2>2, FieldsLeft DEF OwnFieldsStep
  <2> QED BY <2>1, <2>2
<1>2. InventoryInv /\ [Next]_vars => [OwnFieldsStep]_vars
  BY <1>1
<1> QED BY <1>2, InventoryInvariant, PTL DEF Spec, OwnFieldsOnly, OwnFieldsStep

(* A request that was not under way when the device was decommissioned     *)
(* neither brings it back nor sends it a command; a scan that was enqueued *)
(* before is the only thing that still reaches it.                         *)
THEOREM DecommissionSticksHolds == Spec => DecommissionSticks
<1>1. InventoryInv /\ [Next]_vars => StickStep
  <2> SUFFICES ASSUME InventoryInv, [Next]_vars, status = "decommissioned"
               PROVE  \/ status' = status /\ sent' = sent /\ scans' = scans
                      \/ sweep
                      \/ scans' = scans - 1 /\ status' = status
                      \/ \E r \in late : pc[r] = "read" /\ pc'[r] = "idle"
    BY DEF StickStep
  <2>1. ASSUME NEW r \in Requests, Finish(r) PROVE pc[r] = "read" /\ pc'[r] = "idle"
    <3>1. pc[r] = "read" /\ Done(r)
      BY <2>1 DEF Finish, Save, Command, Enqueue, Delete
    <3> QED BY <3>1, DoneFacts DEF InventoryInv
  <2>2. ASSUME NEW r \in Requests, Finish(r), r \notin late
        PROVE  status' = status /\ sent' = sent /\ scans' = scans
    <3>1. kind[r] = bulk_tag
      BY <2>1, <2>2 DEF InventoryInv, OnlyTagged
    <3>2. kind[r].does = "save" /\ kind[r].saves = {"tags"}
      BY <3>1, Tagging
    <3>3. Save(r)
      BY <2>2, <3>2 DEF Finish, Command, Enqueue, Delete
    <3> QED BY <3>2, <3>3 DEF Save, row, Commanding
  <2>3. ASSUME NEW r \in Requests, NEW k \in Handlers, Begin(r, k)
        PROVE  status' = status /\ sent' = sent /\ scans' = scans
    BY <2>3 DEF Begin, row
  <2>4. ASSUME FiveMinutes \/ SweepQuery \/ AgentStops \/ AgentConfigured \/ AgentGetsKey \/ UNCHANGED vars
        PROVE  status' = status /\ sent' = sent /\ scans' = scans
    BY <2>4 DEF FiveMinutes, SweepQuery, AgentStops, AgentConfigured, AgentGetsKey, vars, row
  <2>5. ASSUME SweepSave PROVE sweep
    BY <2>5 DEF SweepSave
  <2>6. ASSUME ScanTask PROVE scans' = scans - 1 /\ status' = status
    BY <2>6 DEF ScanTask, row
  <2> QED BY <2>1, <2>2, <2>3, <2>4, <2>5, <2>6, Zenon DEF Next
<1>2. InventoryInv /\ [Next]_vars => [StickStep]_vars
  BY <1>1
<1> QED BY <1>2, InventoryInvariant, PTL DEF Spec, DecommissionSticks, StickStep

=============================================================================
