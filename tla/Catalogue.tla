------------------------------ MODULE Catalogue ------------------------------
(***************************************************************************)
(* The patch catalogue, its approval workflow, and the compliance of the   *)
(* devices with it: the requests of PatchViewSet, which validate a         *)
(* transition on the row they have read and save all of it; the creation   *)
(* of deployments, which checks the approval once; and the workers that    *)
(* store scan results and recompute rates.  Every action is one database   *)
(* access with the local computation around it.  Devices are not deleted   *)
(* here (Inventory), who approved a patch and when is left out, and the    *)
(* users a row or a log entry names may be deleted at any time (Accounts). *)
(***************************************************************************)
EXTENDS Integers, FiniteSets

CONSTANTS
    Patches, Devices,
    MaxRequests,   \* bound: requests that are served at the same time
    MaxTasks,      \* bound: tasks that run at the same time
    MaxInputs,     \* bound: requests, which count 2, scan reports and recounts, which count 3
    MaxLost        \* bound: requests killed and workers lost

ASSUME BoundsAssumption ==
    MaxRequests \in Nat /\ MaxTasks \in Nat /\ MaxInputs \in Nat /\ MaxLost \in Nat

Users == 1 .. MaxRequests
Workers == 1 .. MaxTasks

VARIABLES
    status,     \* Patch.status of each patch, "absent" when there is no row
    key,        \* primary key of the row: how many were made before it
    audit,      \* AuditLog: <<patch, key of its row, from, to>>
    deployed,   \* patches in some deployment
    op,         \* what each request does, "idle" when it is over
    left,       \* the patches of it not yet handled
    copy,       \* the rows it has read
    unlogged,   \* the transition it has saved and not yet logged
    forgotten,  \* transitions whose request ended before it logged them
    state,      \* DevicePatchStatus.state, "none" when there is no row
    rate,       \* Device.compliance_rate, in tenths of a per cent
    inbox,      \* process_scan_results messages: <<device, report>>
    refreshQ,   \* devices with a refresh_device_compliance message
    task,       \* what each worker runs
    disturbed,  \* devices whose rate may be wrong with nothing under way to repair it
    inputs,     \* inputs so far, as MaxInputs counts them, without creations
    lost        \* faults so far

rowVars == <<status, key>>
requestVars == <<op, left, copy, unlogged>>
approvalVars == <<audit, deployed, requestVars, forgotten>>
complianceVars == <<rate, inbox, refreshQ, task, disturbed>>
vars == <<rowVars, approvalVars, complianceVars, state, inputs, lost>>

Imported == "imported"
Status == {Imported, "reviewed", "approved", "rejected", "superseded"}

ValidTransitions(s) ==
    CASE s = Imported -> {"reviewed", "approved", "rejected"}
      [] s = "reviewed" -> {"approved", "rejected", Imported}
      [] s = "approved" -> {"superseded", "rejected", "reviewed"}
      [] s = "rejected" -> {Imported, "reviewed", "approved"}
      [] OTHER -> {}

Idle == [pc |-> "idle"]
NoCopy == [p \in Patches |-> [status |-> "absent", key |-> 0]]
Row(p) == [status |-> status[p], key |-> key[p]]
Rows(d) == {p \in Patches : state[<<d, p>>] # "none"}
Installed(d) == {p \in Patches : state[<<d, p>>] = "installed"}

(* refresh_device_compliance rounds to one decimal.                        *)
RateOf(installed, total) ==
    IF total = 0 THEN 1000 ELSE (2000 * installed + total) \div (2 * total)
Exact(d) == RateOf(Cardinality(Installed(d)), Cardinality(Rows(d)))

Init ==
    /\ status = [p \in Patches |-> Imported]
    /\ key = [p \in Patches |-> 0]
    /\ audit = {} /\ deployed = {} /\ unlogged = [u \in Users |-> {}]
    /\ op = [u \in Users |-> "idle"] /\ left = [u \in Users |-> {}]
    /\ copy = [u \in Users |-> NoCopy] /\ forgotten = {}
    /\ state = [x \in Devices \X Patches |-> "none"]
    /\ rate = [d \in Devices |-> 1000]
    /\ inbox = {} /\ refreshQ = {} /\ task = [w \in Workers |-> Idle] /\ disturbed = {}
    /\ inputs = 0 /\ lost = 0

Input(n) == inputs + n <= MaxInputs /\ inputs' = inputs + n

-----------------------------------------------------------------------------
(* The patch endpoints *)

Transitions == [approve |-> "approved", reject |-> "rejected", review |-> "reviewed",
                bulk_approve |-> "approved", bulk_reject |-> "rejected"]

(* Each request begins with the rows as they are now: get_object(), the    *)
(* queryset of a bulk request (which skips what is not there), or the      *)
(* patches of a new deployment.                                            *)
Read(u, o, S) ==
    /\ Input(2)
    /\ op[u] = "idle" /\ \A v \in 1 .. u - 1 : op[v] # "idle"
    /\ S # {} /\ \A p \in S : status[p] # "absent"
    /\ op' = [op EXCEPT ![u] = o]
    /\ left' = [left EXCEPT ![u] = S]
    /\ copy' = [copy EXCEPT ![u] = [p \in Patches |-> IF p \in S THEN Row(p) ELSE NoCopy[p]]]
    /\ UNCHANGED <<rowVars, audit, deployed, unlogged, forgotten, complianceVars, state, lost>>

approve(u) == \E p \in Patches : Read(u, "approve", {p})
reject(u) == \E p \in Patches : Read(u, "reject", {p})
review(u) == \E p \in Patches : Read(u, "review", {p})
bulk_approve(u) == \E S \in SUBSET Patches : Read(u, "bulk_approve", S)
bulk_reject(u) == \E S \in SUBSET Patches : Read(u, "bulk_reject", S)
partial_update(u) == \E p \in Patches : Read(u, "partial_update", {p})
create_deployment(u) == \E S \in SUBSET Patches : Read(u, "create_deployment", S)

End(u) ==
    /\ op' = [op EXCEPT ![u] = "idle"] /\ left' = [left EXCEPT ![u] = {}]
    /\ copy' = [copy EXCEPT ![u] = NoCopy] /\ unlogged' = [unlogged EXCEPT ![u] = {}]
    /\ forgotten' = forgotten \cup unlogged[u]

(* One patch of the request is done; the request ends with the last.       *)
Handled(u, p) ==
    /\ left' = [left EXCEPT ![u] = @ \ {p}]
    /\ op' = [op EXCEPT ![u] = IF left[u] = {p} THEN "idle" ELSE @]
    /\ copy' = [copy EXCEPT ![u] = IF left[u] = {p} THEN NoCopy ELSE @]
    /\ unlogged' = [unlogged EXCEPT ![u] = {}]
    /\ UNCHANGED forgotten

can_transition(o, s) == Transitions[o] \in ValidTransitions(s)

Transitioning(u, p) == op[u] \in DOMAIN Transitions /\ p \in left[u] /\ unlogged[u] = {}

(* Answered 400, or listed under the errors of the bulk request.           *)
Refuse(u, p) ==
    /\ Transitioning(u, p) /\ ~can_transition(op[u], copy[u][p].status)
    /\ Handled(u, p)
    /\ UNCHANGED <<rowVars, audit, deployed, complianceVars, state, inputs, lost>>

(* save() writes every column that was read; it inserts the row again if   *)
(* it was deleted, and raises if its name is now another row's.            *)
Save(u, p, row) ==
    /\ status' = [status EXCEPT ![p] = row.status]
    /\ key' = [key EXCEPT ![p] = row.key]

Taken(u, p) == status[p] # "absent" /\ key[p] # copy[u][p].key

transition(u, p) ==
    LET to == Transitions[op[u]]
        old == copy[u][p]
    IN  /\ Transitioning(u, p) /\ can_transition(op[u], old.status) /\ ~Taken(u, p)
        /\ Save(u, p, [status |-> to, key |-> old.key])
        /\ unlogged' = [unlogged EXCEPT ![u] = {<<p, old.key, old.status, to>>}]
        /\ UNCHANGED <<audit, deployed, op, left, copy, forgotten, complianceVars, state,
                       inputs, lost>>

(* Mutant of Log: a bulk request logs its last patch only.                 *)
LogLast(u) ==
    \E e \in unlogged[u] :
      /\ audit' = IF left[u] = {e[1]} THEN audit \cup {e} ELSE audit
      /\ Handled(u, e[1])
      /\ UNCHANGED <<rowVars, deployed, complianceVars, state, inputs, lost>>

(* AuditLog.objects.create, in no transaction with the save.               *)
Log(u) ==
    \E e \in unlogged[u] :
      /\ audit' = audit \cup {e}
      /\ Handled(u, e[1])
      /\ UNCHANGED <<rowVars, deployed, complianceVars, state, inputs, lost>>

(* The entry is refused, and the request ends with an unhandled error: the *)
(* reason makes it longer than its column, or its user is deleted.         *)
LogFails(u) ==
    /\ unlogged[u] # {}
    /\ End(u)
    /\ UNCHANGED <<rowVars, audit, deployed, complianceVars, state, inputs, lost>>

(* PATCH changes other columns and saves the status it has read.           *)
SaveUpdate(u, p) ==
    /\ op[u] = "partial_update" /\ p \in left[u] /\ ~Taken(u, p)
    /\ Save(u, p, copy[u][p])
    /\ Handled(u, p)
    /\ UNCHANGED <<audit, deployed, complianceVars, state, inputs, lost>>

(* An IntegrityError (the name is another row's, or the user the row names *)
(* is deleted) is not handled: the rest of a bulk request is left.         *)
SaveFails(u, p) ==
    /\ \/ Transitioning(u, p) /\ can_transition(op[u], copy[u][p].status)
       \/ op[u] = "partial_update" /\ p \in left[u]
    /\ End(u)
    /\ UNCHANGED <<rowVars, audit, deployed, complianceVars, state, inputs, lost>>

(* Mutant of Approved: what is not rejected will do.                       *)
NotRejected(u, S) == \A p \in S : copy[u][p].status # "rejected"

Approved(u, S) == \A p \in S : copy[u][p].status = "approved"

(* DeploymentCreateSerializer: refuse, or create the deployment with the   *)
(* patches; without them if one of the rows is gone.                       *)
Deploy(u) ==
    /\ op[u] = "create_deployment"
    /\ deployed' = IF /\ Approved(u, left[u])
                      /\ \A p \in left[u] : status[p] # "absent" /\ ~Taken(u, p)
                   THEN deployed \cup left[u] ELSE deployed
    /\ End(u)
    /\ UNCHANGED <<rowVars, audit, complianceVars, state, inputs, lost>>

(* POST: a row with the default status; a name that is there is refused.   *)
Insert(p) ==
    /\ status[p] = "absent"
    /\ status' = [status EXCEPT ![p] = Imported]
    /\ key' = [key EXCEPT ![p] = @ + 1]

(* It takes a deletion to make it possible again, which bounds it.         *)
create(p) ==
    /\ Insert(p)
    /\ UNCHANGED <<approvalVars, complianceVars, state, inputs, lost>>

(* DELETE cascades to the device states and the deployments' lists.        *)
destroy(p) ==
    /\ Input(2) /\ status[p] # "absent"
    /\ status' = [status EXCEPT ![p] = "absent"]
    /\ deployed' = deployed \ {p}
    /\ state' = [x \in Devices \X Patches |-> IF x[2] = p THEN "none" ELSE state[x]]
    /\ disturbed' = disturbed \cup {d \in Devices : p \in Rows(d)}
    /\ UNCHANGED <<key, audit, requestVars, forgotten, rate, inbox, refreshQ, task, lost>>

(* The web worker is killed in the middle of a request.                    *)
Kill(u) ==
    /\ op[u] # "idle" /\ lost < MaxLost
    /\ lost' = lost + 1
    /\ End(u)
    /\ UNCHANGED <<rowVars, audit, deployed, complianceVars, state, inputs>>

Arrive(u) ==
    \/ approve(u) \/ reject(u) \/ review(u) \/ bulk_approve(u) \/ bulk_reject(u)
    \/ partial_update(u) \/ create_deployment(u)

Request(u) ==
    \/ \E p \in Patches : Refuse(u, p) \/ transition(u, p) \/ SaveUpdate(u, p) \/ SaveFails(u, p)
    \/ Log(u) \/ LogFails(u) \/ Deploy(u)
-----------------------------------------------------------------------------
(* Scans and rates *)

Task(w, t) == task' = [task EXCEPT ![w] = t]

Counts(t, d) == t.pc \in {"installed", "save"} /\ t.device = d
Counted(w, d) == \E v \in Workers \ {w} : Counts(task[v], d)

(* The first worker that is free takes the next message.                   *)
Free(w) == task[w].pc = "idle" /\ \A v \in 1 .. w - 1 : task[v].pc # "idle"

(* A message for process_scan_results; equal ones that wait are one.       *)
Enqueue(d, report) ==
    /\ Input(3)
    /\ inbox' = inbox \cup {<<d, report>>}
    /\ UNCHANGED <<rowVars, approvalVars, rate, refreshQ, task, disturbed, state, lost>>

(* A scan says of every patch whether it is installed; the slow lane only  *)
(* which ones its package manager finds missing.                           *)
ingest_scan(d) == \E r \in [Patches -> BOOLEAN] : Enqueue(d, r)
ingest_slow_lane(d) ==
    \E S \in SUBSET Patches : S # {} /\ Enqueue(d, [p \in S |-> FALSE])

(* Patch.objects.get_or_create of the next item: a new patch is imported.  *)
(* All reports list the patches in one order.                              *)
GetOrCreatePatch(w, scan, items) ==
    LET p == CHOOSE i \in items : TRUE
    IN  /\ IF status[p] = "absent" THEN Insert(p) ELSE UNCHANGED rowVars
        /\ Task(w, [pc |-> "state", scan |-> scan, items |-> items, patch |-> p,
                    key |-> key'[p]])

StartScan(w) ==
    \E m \in inbox :
      /\ Free(w)
      /\ GetOrCreatePatch(w, {m}, DOMAIN m[2])
      /\ inbox' = inbox \ {m}
      /\ UNCHANGED <<approvalVars, rate, refreshQ, disturbed, state, inputs, lost>>

NextItem(w) ==
    /\ task[w].pc = "patch"
    /\ GetOrCreatePatch(w, task[w].scan, task[w].items)
    /\ UNCHANGED <<approvalVars, rate, inbox, refreshQ, disturbed, state, inputs, lost>>

(* DevicePatchStatus.objects.update_or_create: a row that changes while    *)
(* another worker counts disturbs its rate.  When the patch is gone an     *)
(* IntegrityError ends the task; after the last item the rate is due.      *)
UpdateOrCreateState(w) ==
    /\ task[w].pc = "state"
    /\ \E m \in task[w].scan :
         LET t == task[w]
             p == t.patch
             d == m[1]
         IN
           IF status[p] = "absent" \/ key[p] # t.key
           THEN /\ Task(w, Idle)
                /\ disturbed' = disturbed \cup {d}
                /\ UNCHANGED state
           ELSE /\ state' = [state EXCEPT ![<<d, p>>] =
                     IF m[2][p] THEN "installed" ELSE "missing"]
                /\ disturbed' = IF state' # state /\ Counted(w, d)
                                THEN disturbed \cup {d} ELSE disturbed
                /\ Task(w, IF t.items = {p} THEN [pc |-> "total", scan |-> t.scan, device |-> d]
                           ELSE [pc |-> "patch", scan |-> t.scan, items |-> t.items \ {p}])
    /\ UNCHANGED <<rowVars, approvalVars, rate, inbox, refreshQ, inputs, lost>>

(* refresh_all_device_compliance: a message per device.  Only the command  *)
(* recount_compliance calls it: the schedule of the settings is replaced.  *)
Recount ==
    /\ Input(3) /\ refreshQ' = Devices
    /\ UNCHANGED <<rowVars, approvalVars, rate, inbox, task, disturbed, state, lost>>

(* refresh_device_compliance, of a message or of a scan, counts the rows;  *)
(* the only count of a device repairs its rate,                            *)
CountRows(w, scan, d) ==
    /\ Task(w, [pc |-> "installed", scan |-> scan, device |-> d, total |-> Cardinality(Rows(d))])
    /\ disturbed' = IF Counted(w, d) THEN disturbed ELSE disturbed \ {d}

StartRefresh(w) ==
    \E d \in refreshQ :
      /\ Free(w)
      /\ CountRows(w, {}, d)
      /\ refreshQ' = refreshQ \ {d}
      /\ UNCHANGED <<rowVars, approvalVars, rate, inbox, state, inputs, lost>>

CountTotal(w) ==
    /\ task[w].pc = "total"
    /\ CountRows(w, task[w].scan, task[w].device)
    /\ UNCHANGED <<rowVars, approvalVars, rate, inbox, refreshQ, state, inputs, lost>>

(* then those that are installed,                                          *)
CountInstalled(w) ==
    /\ task[w].pc = "installed"
    /\ Task(w, [pc |-> "save", scan |-> task[w].scan, device |-> task[w].device,
                rate |-> RateOf(Cardinality(Installed(task[w].device)), task[w].total)])
    /\ UNCHANGED <<rowVars, approvalVars, rate, inbox, refreshQ, disturbed, state, inputs, lost>>

(* Mutant of SaveRate: a rate never goes down.                             *)
SaveHigher(w) ==
    /\ task[w].pc = "save" /\ Task(w, Idle)
    /\ rate' = [rate EXCEPT ![task[w].device] = IF task[w].rate > @ THEN task[w].rate ELSE @]
    /\ UNCHANGED <<rowVars, approvalVars, inbox, refreshQ, disturbed, state, inputs, lost>>

(* and saves the quotient.                                                 *)
SaveRate(w) ==
    /\ task[w].pc = "save" /\ Task(w, Idle)
    /\ rate' = [rate EXCEPT ![task[w].device] = task[w].rate]
    /\ UNCHANGED <<rowVars, approvalVars, inbox, refreshQ, disturbed, state, inputs, lost>>

(* The device a task works on, if any.                                     *)
Subject(t) == CASE t.pc = "idle" -> {}
                [] t.pc \in {"patch", "state"} -> {m[1] : m \in t.scan}
                [] OTHER -> {t.device}

(* A worker is lost.  Its message is lost with it, or it is delivered      *)
(* again, as the settings mean it to be: a scan is stored again from the   *)
(* start, over what newer ones have stored.                                *)
Lose(w) ==
    /\ task[w].pc # "idle" /\ lost < MaxLost
    /\ lost' = lost + 1
    /\ Task(w, Idle)
    /\ \/ /\ disturbed' = disturbed \cup Subject(task[w])
          /\ UNCHANGED <<inbox, refreshQ>>
       \/ /\ inbox' = inbox \cup task[w].scan
          /\ refreshQ' = IF task[w].scan = {} THEN refreshQ \cup Subject(task[w]) ELSE refreshQ
          /\ UNCHANGED disturbed
    /\ UNCHANGED <<rowVars, approvalVars, rate, state, inputs>>

Work(w) ==
    \/ StartScan(w) \/ NextItem(w) \/ UpdateOrCreateState(w)
    \/ StartRefresh(w) \/ CountTotal(w) \/ CountInstalled(w) \/ SaveRate(w)

Next ==
    \/ \E u \in Users : Arrive(u) \/ Request(u) \/ Kill(u)
    \/ \E p \in Patches : create(p) \/ destroy(p)
    \/ \E d \in Devices : ingest_scan(d) \/ ingest_slow_lane(d)
    \/ Recount
    \/ \E w \in Workers : Work(w) \/ Lose(w)

Spec == Init /\ [][Next]_vars
-----------------------------------------------------------------------------
Made == audit \cup forgotten \cup UNION {unlogged[u] : u \in Users}

Explained(M, p, k, s) == \E e \in M : e[1] = p /\ e[2] = k /\ e[4] = s

(* A patch that is not in the state it was imported in is in one some      *)
(* transition of that very row on record led to; only that of a request    *)
(* that was killed, or could not write its entry, is not on record.        *)
AuditExplains ==
    \A p \in Patches :
      status[p] \notin {"absent", Imported} => Explained(Made, p, key[p], status[p])

(* A deployment only holds patches that exist and were approved once, in   *)
(* the row they have now, even when approvals, rejections, whole-row saves *)
(* and deletions with re-creation overlap with its creation.               *)
DeployedWasApproved ==
    \A p \in deployed : status[p] # "absent" /\ Explained(Made, p, key[p], "approved")

(* Something will still store the rate of device d: a report or a message  *)
(* that waits, or a task.                                                  *)
Pending(d) ==
    \/ d \in refreshQ \/ \E m \in inbox : m[1] = d
    \/ \E w \in Workers : d \in Subject(task[w])

(* The stored rate of a device is what its rows say, unless work that will *)
(* store it is under way; only rows changed under a count, the deletion of *)
(* a patch, or a task that was lost or failed leave a wrong one, which no  *)
(* schedule repairs: it stays until the next count of the device.          *)
RateExplained == \A d \in Devices : rate[d] = Exact(d) \/ Pending(d) \/ d \in disturbed
=============================================================================
