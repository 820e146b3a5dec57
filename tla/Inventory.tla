------------------------------ MODULE Inventory ------------------------------
(***************************************************************************)
(* The row of one device and the requests of inventory/views.py on it.     *)
(* Each handler reads the row (get_object), changes its copy, and saves a  *)
(* list of columns (update_fields); the generic update saves all of them.  *)
(* Handlers of several web workers overlap, and mark_stale_devices runs    *)
(* beside them, and so does the task that a scan only enqueues.  A field   *)
(* holds the number of the write it stems from; what every heartbeat       *)
(* writes anew (vitals and metrics in metadata) is left out.               *)
(***************************************************************************)
EXTENDS Integers, FiniteSets, Sequences

CONSTANTS
  Requests,  \* requests that can be handled at the same time
  MaxWrites  \* bound: requests other than the agent's reports

ASSUME InventoryAssumption == MaxWrites \in Nat

(* The columns, and the fields in them that are tracked.                   *)
InColumn == [metadata |-> {"health", "settings"}, inventory_data |-> {"base", "slow"},
             tags |-> {"tags"}, agent_api_key |-> {"key"}, lane_config |-> {"lanes"},
             status |-> {}]
Columns == DOMAIN InColumn
Fields == UNION {InColumn[c] : c \in Columns}

(* What a handler does besides, what it saves (columns) and what it sets   *)
(* itself (fields); the rest of the columns goes back as it was read.      *)
(* Handlers that agree in all three are the same to the row.               *)
Handler(does, saves, sets) == [does |-> does, saves |-> saves, sets |-> sets]

(* Over the socket every tenth heartbeat carries the agent's settings; the *)
(* others, and those of rest_heartbeat_loop, do not.                       *)
heartbeat == Handler("report", {"status", "metadata"}, {"settings"})
plain_heartbeat == Handler("report", {"status", "metadata"}, {})
ingest_metrics == Handler("report", {"status", "metadata"}, {})
ingest_health_check == Handler("save", {"metadata"}, {"health"})
agent_config == Handler("push", {"metadata"}, {"settings"})
(* Replaces the column, the slow lane's data in it too.                    *)
ingest_inventory == Handler("save", {"inventory_data"}, {"base", "slow"})
ingest_slow_lane == Handler("save", {"inventory_data"}, {"slow"})
bulk_tag == Handler("save", {"tags"}, {"tags"})
lane_config == Handler("offer", {"lane_config"}, {"lanes"})
rotate_key == Handler("save", {"agent_api_key"}, {"key"})
(* The serializer saves the row whole, with the tags of the request.       *)
partial_update == Handler("replace", Columns, {"tags"})
decommission == Handler("retire", {"status"}, {})
(* Enqueue scan_device_patches.                                            *)
scan == Handler("enqueue", {}, {})
bulk_scan == Handler("enqueue", {}, {})
(* Publish a command to the agent and save nothing of the row.             *)
reboot == Handler("command", {}, {})
request_slow_lane == Handler("command", {}, {})
request_fast_lane == Handler("command", {}, {})
install_patch == Handler("command", {}, {})
destroy == Handler("delete", {}, {})
NoHandler == Handler("none", {}, {})

Handlers ==
  {heartbeat, plain_heartbeat, ingest_metrics, ingest_health_check, agent_config,
   ingest_inventory, ingest_slow_lane, bulk_tag, lane_config, rotate_key, partial_update,
   decommission, scan, bulk_scan, reboot, request_slow_lane, request_fast_lane,
   install_patch, destroy}

(* Mutant of Sets: the health check stores its result as the metadata.     *)
SetsAlone(k) == IF k = ingest_health_check THEN {"health", "settings"} ELSE k.sets

Sets(k) == k.sets

VARIABLES
  exists,    \* the row is there
  status,
  seen,      \* last_seen is within the last five minutes
  fields,    \* each field: the write it stems from
  writes,    \* writes so far
  pc,        \* of each request: "idle", "read"
  kind,      \* its handler
  copy,      \* the row it has read
  sweep,     \* mark_stale_devices is about to save this device
  sent,      \* commands published
  scans,     \* scan_device_patches tasks in the queue
  pushed,    \* the settings of the CONFIG_UPDATEs on their way to the agent
  agentUp,   \* the agent is running and sends heartbeats
  settings,  \* those of the agent: the write they stem from
  agentKey,  \* the agent's API key: the write it stems from
  late,      \* requests that were in flight when it was decommissioned
  stale      \* for each request, the fields that changed since it read the row

row == <<exists, status, seen, fields>>
agent == <<agentUp, settings, agentKey>>
vars == <<row, writes, pc, kind, copy, sweep, sent, scans, pushed, agent, late, stale>>

Statuses == {"online", "offline", "maintenance", "decommissioned"}
Commanding == {"command", "enqueue", "push"}
NoCopy == [status |-> "offline", fields |-> [f \in Fields |-> 0]]

(* The request is over.                                                    *)
Done(r) ==
  /\ pc' = [pc EXCEPT ![r] = "idle"] /\ kind' = [kind EXCEPT ![r] = NoHandler]
  /\ copy' = [copy EXCEPT ![r] = NoCopy]

Init ==
  /\ exists = TRUE /\ status \in {"online", "offline"} /\ seen \in BOOLEAN
  /\ fields = [f \in Fields |-> 0]
  /\ writes = 0
  /\ pc = [r \in Requests |-> "idle"] /\ kind = [r \in Requests |-> NoHandler]
  /\ copy = [r \in Requests |-> NoCopy]
  /\ sweep = FALSE /\ sent = 0 /\ scans = 0 /\ pushed = << >>
  /\ agentUp = TRUE /\ settings = 0 /\ agentKey = 0
  /\ late = {} /\ stale = [r \in Requests |-> {}]

(* Mutant of Found: get_queryset without the exclusion.                    *)
FoundAlways(k) == exists

(* get_object: a decommissioned device is not found, but by bulk_tag.      *)
Found(k) == exists /\ (status # "decommissioned" \/ k = bulk_tag)

(* The agent's reports reach their handler: it is running and its key is   *)
(* the device's, else AgentAPIKeyAuthentication refuses them.              *)
Reporting == agentUp /\ agentKey = fields["key"]

(* A report tells the agent's settings, another request brings its own.    *)
Begin(r, k) ==
  /\ pc[r] = "idle" /\ Found(k)
  /\ k.does \in Commanding => status = "online"  \* 409 otherwise
  /\ IF k.does = "report" THEN Reporting /\ UNCHANGED writes
     ELSE writes < MaxWrites /\ writes' = writes + 1
  /\ pc' = [pc EXCEPT ![r] = "read"]
  /\ kind' = [kind EXCEPT ![r] = k]
  /\ copy' = [copy EXCEPT ![r] = [status |-> status,
                  fields |-> [f \in Fields |->
                     IF f \notin Sets(k) THEN fields[f]
                     ELSE IF k.does = "report" THEN settings ELSE writes']]]
  /\ stale' = [stale EXCEPT ![r] = {}]
  /\ UNCHANGED <<row, sweep, sent, scans, pushed, agent, late>>

Saved(r) == UNION {InColumn[c] : c \in kind[r].saves}

(* Mutant of NewStatus: a heartbeat leaves the status to the connection.   *)
StatusLeft(r) == IF kind[r].does = "retire" THEN {"decommissioned"} ELSE {copy[r].status}

(* The status a request saves.                                             *)
NewStatus(r) ==
  CASE kind[r].does = "report" -> {"online"}
    [] kind[r].does = "retire" -> {"decommissioned"}
    [] kind[r].does = "replace" -> Statuses
    [] OTHER -> {copy[r].status}

(* save(): with update_fields a row that is gone is an error; the update   *)
(* of all columns inserts it again.                                        *)
Save(r) ==
  /\ pc[r] = "read" /\ kind[r].does \notin {"delete", "command", "enqueue"}
  /\ Done(r)
  /\ IF ~exists /\ kind[r].does # "replace" THEN UNCHANGED <<row, sent, pushed>>
     ELSE /\ exists' = TRUE
          /\ fields' = [f \in Fields |-> IF f \in Saved(r) THEN copy[r].fields[f] ELSE fields[f]]
          /\ IF "status" \in kind[r].saves THEN status' \in NewStatus(r)
             ELSE UNCHANGED status
          /\ seen' = (seen \/ kind[r].does = "report")
          /\ \/ sent' = IF kind[r].does \in Commanding THEN sent + 1 ELSE sent
             \/ kind[r].does = "offer" /\ copy[r].status = "online" /\ sent' = sent + 1
          /\ pushed' = IF kind[r].does = "push" /\ agentUp THEN Append(pushed, copy[r].fields["settings"])
                       ELSE pushed
  /\ late' = (IF status # "decommissioned" /\ status' = "decommissioned"
              THEN late \cup {q \in Requests \ {r} : pc[q] # "idle"} ELSE late) \ {r}
  /\ stale' = [q \in Requests |->
       IF pc'[q] = "idle" THEN {} ELSE stale[q] \cup {f \in Fields : fields'[f] # fields[f]}]
  /\ UNCHANGED <<writes, sweep, scans, agent>>

(* reboot, install_patch, request_*_lane: publish, then record.            *)
Command(r) ==
  /\ pc[r] = "read" /\ kind[r].does = "command"
  /\ sent' = sent + 1
  /\ Done(r) /\ late' = late \ {r} /\ stale' = [stale EXCEPT ![r] = {}]
  /\ UNCHANGED <<row, writes, sweep, scans, pushed, agent>>

(* scan, bulk_scan: delay().                                               *)
Enqueue(r) ==
  /\ pc[r] = "read" /\ kind[r].does = "enqueue"
  /\ scans' = scans + 1
  /\ Done(r) /\ late' = late \ {r} /\ stale' = [stale EXCEPT ![r] = {}]
  /\ UNCHANGED <<row, writes, sweep, sent, pushed, agent>>

(* scan_device_patches looks for the row, whatever its status.             *)
ScanTask ==
  /\ scans > 0
  /\ scans' = scans - 1
  /\ sent' = IF exists THEN sent + 1 ELSE sent
  /\ UNCHANGED <<row, writes, pc, kind, copy, sweep, pushed, agent, late, stale>>

Delete(r) ==
  /\ pc[r] = "read" /\ kind[r].does = "delete"
  /\ exists' = FALSE
  /\ Done(r) /\ late' = late \ {r} /\ stale' = [stale EXCEPT ![r] = {}]
  /\ UNCHANGED <<status, seen, fields, writes, sweep, sent, scans, pushed, agent>>

FiveMinutes ==
  /\ seen
  /\ seen' = FALSE
  /\ UNCHANGED <<exists, status, fields, writes, pc, kind, copy, sweep, sent, scans, pushed, agent, late, stale>>

(* Mutant of SweepQuery: the threshold is compared the other way round.    *)
SweepRecent ==
  /\ ~sweep /\ exists /\ status = "online" /\ seen
  /\ sweep' = TRUE
  /\ UNCHANGED <<row, writes, pc, kind, copy, sent, scans, pushed, agent, late, stale>>

(* mark_stale_devices: the query, then a save of the status of each.       *)
SweepQuery ==
  /\ ~sweep /\ exists /\ status = "online" /\ ~seen
  /\ sweep' = TRUE
  /\ UNCHANGED <<row, writes, pc, kind, copy, sent, scans, pushed, agent, late, stale>>

SweepSave ==
  /\ sweep
  /\ sweep' = FALSE
  /\ status' = IF exists THEN "offline" ELSE status
  /\ UNCHANGED <<exists, seen, fields, writes, pc, kind, copy, sent, scans, pushed, agent, late, stale>>

AgentStops ==
  /\ agentUp
  /\ agentUp' = FALSE
  /\ pushed' = << >>
  /\ UNCHANGED <<row, writes, pc, kind, copy, sweep, sent, scans, settings, agentKey, late, stale>>

(* CONFIG_UPDATE reaches the agent, or is lost with its connection.        *)
AgentConfigured ==
  /\ agentUp /\ pushed # << >>
  /\ pushed' = Tail(pushed)
  /\ settings' \in {settings, Head(pushed)}
  /\ UNCHANGED <<row, writes, pc, kind, copy, sweep, sent, scans, agentUp, agentKey, late, stale>>

(* The agent is given the key in force: by KEY_ROTATED, or by hand the one *)
(* that rotate_key returned.  Nothing sees to it (KeyRotation).            *)
AgentGetsKey ==
  /\ agentUp /\ agentKey # fields["key"]
  /\ agentKey' = fields["key"]
  /\ UNCHANGED <<row, writes, pc, kind, copy, sweep, sent, scans, pushed, agentUp, settings, late, stale>>

Finish(r) == Save(r) \/ Command(r) \/ Enqueue(r) \/ Delete(r)

Next ==
  \/ \E r \in Requests : Finish(r) \/ \E k \in Handlers : Begin(r, k)
  \/ FiveMinutes \/ SweepQuery \/ SweepSave \/ ScanTask
  \/ AgentStops \/ AgentConfigured \/ AgentGetsKey

(* Requests are carried out, time passes, beat runs the sweep, and an      *)
(* agent that is up sends heartbeats (agent.py: rest_heartbeat_loop),      *)
(* which are handled while its key is the device's.                        *)
Spec ==
  /\ Init /\ [][Next]_vars
  /\ \A r \in Requests : WF_vars(Finish(r))
  /\ SF_vars(\E r \in Requests : Begin(r, plain_heartbeat))
  /\ WF_vars(FiveMinutes) /\ WF_vars(SweepQuery) /\ WF_vars(SweepSave)

-----------------------------------------------------------------------------
(* What one handler stored, another changes only if it had read the row    *)
(* before: alone, each keeps to its own fields.  Two fields have two       *)
(* owners: a report of the inventory discards the slow lane's data         *)
(* (views.py:372), and a heartbeat writes the settings the agent still has *)
(* over those agent_config stored (views.py:252-268).                      *)
OwnFieldsOnly ==
  [][\A f \in Fields : fields'[f] # fields[f] =>
       \E r \in Requests :
         /\ pc[r] = "read" /\ pc'[r] = "idle"
         /\ \/ kind[r] = ingest_health_check /\ f = "health"
            \/ kind[r] \in {agent_config, heartbeat} /\ f = "settings"
            \/ kind[r] \in {ingest_slow_lane, ingest_inventory} /\ f = "slow"
            \/ kind[r] = ingest_inventory /\ f = "base"
            \/ kind[r] \in {bulk_tag, partial_update} /\ f = "tags"
            \/ kind[r] = lane_config /\ f = "lanes"
            \/ kind[r] = rotate_key /\ f = "key"
            \/ f \in stale[r]]_vars

(* Once it is decommissioned, a device changes its status, is sent a       *)
(* command or has a scan enqueued only by a request or a sweep that had    *)
(* read it before; a scan enqueued by then is still sent (tasks.py:49-60). *)
DecommissionSticks ==
  [][status = "decommissioned" =>
       \/ status' = status /\ sent' = sent /\ scans' = scans
       \/ sweep
       \/ scans' = scans - 1 /\ status' = status
       \/ \E r \in late : pc[r] = "read" /\ pc'[r] = "idle"]_vars

(* Over and over a device is online exactly if its agent is up and has the *)
(* key: one that stopped, or was left with an old key, does not stay       *)
(* online, and one that reports is brought back whatever marked it offline.*)
PresenceFollows ==
  []<>(exists /\ status # "decommissioned" => (status = "online") = Reporting)
=============================================================================
