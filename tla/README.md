# A TLA+ model of PatchGuard

PatchGuard patches fleets of computers. A Django backend keeps devices, patches
and deployments in a database; Celery workers roll a deployment out in waves; a
FastAPI service holds one WebSocket per device and passes commands and results
between the workers and the agents; a Flask BFF serves the dashboards.

This directory models the parts where the program's own logic is: how processes
that share rows, sockets, keys, counters and thread pools without locks keep them
consistent, and how far. Paths below are relative to the repository root.

## 1. The system

| Component | State it keeps | Operations | Talks to |
|---|---|---|---|
| Wave planner (`backend/apps/deployments/tasks.py`, `_build_wave_targets`) | none of its own: creates the `DeploymentTarget` rows | partition by strategy | called by the orchestrator |
| Deployment records (`deployments/models.py`) | `Deployment` (status, counters, current wave, plan columns), `DeploymentTarget` (status, wave, started_at) | `failure_rate`, rows written by everyone | database |
| Orchestrator (`orchestrate_deployment`, `execute_wave`) | locals of a task: waves left, queryset, time slept | build, loop over waves, threshold, pre-flight, dispatch, final status | Celery queue `critical`; publishes `START_DEPLOYMENT` on Redis pub/sub |
| Results (`report_device_result`, `monitor_stuck_waves`, `ingest_patch_result`) | a target read before its transaction | record a result, fail stuck targets | fed by the realtime service; writes the same rows |
| Deployment API (`deployments/views.py`, `cancel_deployment_task`, `process_scheduled_deployments`) | a row read before it is saved | approve, execute, pause, resume, cancel, rollback, update | enqueues the orchestrator and the cancel task |
| Agent session (`agent/agent.py`) | configuration file, key, URL, running flags, coroutines of a session | boot, register, dial, heartbeat, handle commands, rotate key, self-update, back off | WebSocket to the realtime service |
| Key rotation (`inventory/tasks.py`, `views.py`, `realtime/auth.py`) | current key of a device | rotate by schedule or by hand, notify, authenticate | agent through the gateway |
| Realtime gateway (`realtime/ws_manager.py`, `routes/agents.py`, `auth.py`) | maps of agents and dashboards to sockets, subscriptions | connect, replace, disconnect, forward, broadcast | agents, dashboards, Redis, backend |
| Streams bridge (`realtime/streams_*.py`) | consumer-group position, pending entries | read, dispatch, acknowledge, reclaim, publish on both paths | Redis |
| Device inventory (`inventory/views.py`, `inventory/tasks.py`) | status, last_seen, JSON columns of a device | heartbeat, metrics, health, inventory, tags, settings, lanes, key, generic update, stale check, decommission, delete | agents, administrators |
| Patch catalogue and scans (`patches/state_machine.py`, `patches/views.py`, `inventory/tasks.py`) | status and approval of a patch, audit log, state per device and patch, compliance rate | review, approve, reject, bulk, update, delete, ingest, refresh | API, agents, beat |
| Accounts (`accounts/*`, `users/views.py`) | account row: password, flags, failed attempts, lock | login, LDAP, SAML, lock, unlock, reset, update, import, delete | API |
| BFF (`backend/bff/cache.py`, `backend/bff/routes/*`) | windowed counters and cached answers in Redis | limit, serve, invalidate, proxy | Redis, Django |
| Relays (`backend/bff/routes/ws_proxy.py`, `realtime/routes/ssh.py`) | two coroutines per session | copy until one ends | browsers, devices |
| Lanes and collectors (`agent/collectors/*`, `scripts-agent/*`) | thread pool, queue of collections, sections found | collect, submit on command, change the width, send; standalone report | the device's tools, backend |
| Replica router, reports and search, frontend, installers | little or none | presentation, queries, packaging | |

What is hard in this code:

* **Interleaving without locks.** Views, tasks, coroutines and the monitor read a
  row or a table, await or decide, and save it later. `select_for_update()` in the
  orchestrator is outside a transaction, so it is refused by PostgreSQL and does nothing
  elsewhere. Two orchestrator tasks may run for one deployment.
* **Stale data.** Many views save every column of a row they read earlier; the
  agent dials a URL it computed once; caches outlive what they were computed from.
* **At-least-once tasks, at-most-once messages.** Celery may deliver a result
  again; pub/sub and the sockets may lose a command, a key or a result.
* **Crashes and time.** A worker may be lost between any two accesses, an agent
  while it writes its configuration; delays between waves count against a soft time
  limit; only the monitor ends a target whose agent stays silent.
* **Partial failure.** An audit entry follows the row it explains, a publish follows
  the key it announces, a TTL follows the counter it limits.
* **Boundaries.** Wave size 0, totals at a multiple of the size, a truncated float, the
  window of a limiter, a stream at its maximal length.

What makes the components correct:

* planner: each device in one wave, waves without gaps, sizes respected, canary never empty;
* orchestrator: waves in order, no device taken up again once it was started, completed only with nothing queued;
* results: counters and recorded targets part in two known ways only, no result for a device that was not started;
* together: a task that ends by itself leaves no deployment in progress, no device stays
  in progress, and every step is one that an abstract rollout allows (`WaveGate`);
* keys: unless a message is lost, the agent has the current key or will get it;
* gateway: a routed agent is served, a broadcast reaches every dashboard that stays;
* streams: an entry is broadcast before it is acknowledged, and once unless it was handed over;
* inventory: a request changes its own fields only, a device that reports comes back, a silent one goes offline;
* catalogue: the audit log explains the states, deployments hold approved patches, a rate is explained by its rows;
* accounts: used-up attempts lock, permanent locks hold;
* BFF: users see their own writes, the limiter is exact; relays and lanes: they end, and converge.

## 2. Modules

| Module | Models | State |
|---|---|---|
| `WavePlan` | `_build_wave_targets` as operators: `ChunkIndices` is `range(0, n, size)`, `Chunked` the `enumerate` over slices, `CanarySizes` the rounding | none |
| `WavePlanning` | the planner as one step from inputs to plan, with its properties | inputs, `targets` |
| `WaveGate` | the abstract specification: what a deployment promises to its devices | who waits, who was reached, outcomes |
| `DeploymentDB` | the rows of one deployment and the queues and channels around it | `dep`, `tgt`, `wave`, `started`, `aged`, `members`, `health`, `orchQ`, `cancelQ`, `cmds`, `res`, `faults` |
| `Orchestrator` | `orchestrate_deployment` and `execute_wave`, one action per database access | `pc`, `todo`, `batch`, `slept` per worker slot |
| `Results` | agent, channels, `report_device_result`, `monitor_stuck_waves` | `job`, `stuck` |
| `DeploymentApi` | the views, the cancel task, the scheduler | `request`, `row`, `requests`, `cancelPC`, `cancelling`, `schedPC` |
| `Deployment` | the composition, the properties, the fairness | all of these |
| `MCDeployment` | the symmetry set for TLC | |
| `AgentSession` | the agent process: boot, registration, connection loop, the gathered coroutines, every command handler | `phase`, keys in memory, file and URL, `loops`, `inbox`, `faults` |
| `KeyRotation` | the server's half of the key, composed with `AgentSession` | `dbKey`, `toSend` |
| `Gateway` | the coroutines of the realtime service over the tables of `ConnectionManager`, interleaved at each await | tables, one program counter per socket |
| `Streams` | producer, compatibility publisher, Redis group, consumers | stream, pending entries, batches |
| `Inventory` | a device row and the handlers that read, change and save it, or send it a command; the scan task, the stale sweep, the settings of the agent | row, copies held by requests, scans queued, what the agent has |
| `Catalogue` | patches, audit, approval of deployments, scan ingestion, compliance rates | rows, requests, queues, tasks |
| `Accounts` | an account and every request that reads and saves it; lockout, hook, provisioning | row, copies held by requests |
| `Bff` | limiter, cache, proxies and invalidation | counters, cached answers, calls |
| `Relays` | both relays of WebSockets | ends, running directions |
| `Collectors` | what each collector class finds, from how the tools behave; agent and scanners side by side | none |
| `Lanes` | the scheduler's slow lane on its thread pools, and the scanners' `main` | pools, queue, jobs, what the server has |
| `Edges` | `Bff`, `Relays`, `Lanes` and `WavePlanning` in one specification for TLC | `part` selects one |
| `DeploymentInvariant` | the inductive invariant of the deployment, the refinement mapping, what bounds the starts and keeps saves fresh | |
| `DeploymentProofs` (with the planner's), `KeysProofs`, `GatewayProofs`, `StreamsProofs`, `InventoryProofs`, `CatalogueProofs`, `AccountsProofs`, `EdgesProofs` | the invariants and proofs of each component | |

`Deployment` composes `Orchestrator`, `Results` and `DeploymentApi`, which all
extend `DeploymentDB`; `Orchestrator` builds its rows with the operators of `WavePlan`.
`KeyRotation` composes server and agent. The others meet at messages, which each
models as its input: commands of the gateway are what `Results` and `KeyRotation` put on
their channels, scans of the agent are what `Catalogue` finds in its inbox.

### How the actions correspond to the code

An action is one database access, one Redis command or the code between two awaits, with
the local computation around it, so that others can act between any two.

* *Orchestrator*. `Start` takes a message and reads the row (tasks.py:117-128).
  `Build`/`BuildNothing` is `_build_wave_targets`, a `bulk_create(ignore_conflicts)`
  followed by a count. `Plan` reads the wave numbers; `CheckStatus`,
  `CheckPending` and `CheckThreshold` are the loop's three accesses before a
  wave; `BeginWave`, `PollRaises`/`PollTimesOut`, `Evaluate`, `Dispatch` and `FinishWave`
  are `execute_wave`; `Finish` writes the final status. `Crash` loses the worker at any point.
* *Results*. `AgentRuns` is `run_deployment` with the forwarding of its result;
  `ReportRead` reads the target outside the transaction, `ReportWrite` is the
  transaction, `ReportWriteNoAck` and `ReportCrash` are the two places a worker can be lost
  and its message delivered again. `MonitorRead` and `MonitorWrite` are the two
  halves of `monitor_stuck_waves`.
* *API*. `Read` is `get_object()` with the status check, `Save` is `deployment.save()`
  of all columns and, for execute, the `delay()`; `SaveOnly` the same with the
  broker unreachable. `CancelRead`, `CancelSave`, `CancelQuery` and `CancelTarget` are
  `cancel_deployment_task`. `SchedRead` and `SchedSave` are the transaction of the
  scheduler, `SchedEnqueue` its `delay()` after the commit, `SchedLost` a worker or
  broker that fails between the two: the row is in progress and nothing is enqueued.
* *AgentSession, KeyRotation*. `Boot` to `SessionEnds` are `connect()`, line by line at
  its awaits; `Handle...` is one branch of `message_handler` each; a blocking install stops
  every other coroutine (`blocked`). `TryRegister` posts without credentials, which the
  service refuses, so the agent dials with what its file says. `HandleConfigUpdate` replaces the
  key when the configuration carries one (`Configured`). `RotateSave` and `RotatePublish` are
  the two effects of `rotate_stale_api_keys`, `PublishFails` what may come between them.
* *Gateway*. `Accept`, `Register`, `CloseOld`, `Replace` are `connect_agent`; `SendNext` and
  the actions after it are `broadcast_to_dashboard`, whose loops run over live
  dictionaries and lists, with Python's behaviour when these change meanwhile. `conns` is the
  set of the dashboards in the table; `List` puts those of one user in their order of arrival and
  `Place` is the index of one: a removal moves those behind it down, under a loop that goes on.
* *Streams*. `EnsureGroups`, `AutoClaim`, `ReadGroup`, `Ack` are one Redis command each, with
  Redis' own bookkeeping; `Dispatch` and `DispatchRaises` are `_dispatch`.
* *Inventory, Accounts, Catalogue*. A request reads the row, may compute, and saves a copy:
  a handler is a record of what it sets and which columns it saves (`update_fields`), and
  one action carries out any of them. In `Inventory` a heartbeat of the WebSocket writes the
  agent's settings (`heartbeat`) and one of HTTP none (`plain_heartbeat`); `Enqueue` and
  `ScanTask` are the two halves of a scan; `AgentConfigured` and `AgentGetsKey` are what the agent
  hears of the server. `Hook` is `User.save()`; `Log` is the audit entry after the row and
  `LogFails` its refusal, for a message longer than its column; `StartScan` to `SaveRate` are the
  accesses of the two scan tasks and `Recount` is `refresh_all_device_compliance` started by hand.
* *Bff, Relays, Lanes*. One action per await; `Collect` is one run of a collector, its
  result computed by `Collectors` from how every tool behaves.

### Abstractions

* One deployment, one device row, one account, one agent: rows of different ones never
  touch each other. A target is known by its device, since (deployment, device) is unique.
* Group membership is fixed: either no device or all of them.
* Names, texts, numbers that decide nothing, events, logs and timestamps are left out.
  `started_at` is the number of times it was set, `aged` says whether it is older than the
  wave timeout; `seen` whether `last_seen` is within five minutes. A field of a device is
  the number of the write it stems from, a key or a password the order of its issue.
* The threshold `failed / total * 100 > max` is compared without a division. The
  canary size is a float product that `int()` truncates: when the exact value is
  a whole number the model allows one less.
* `Dispatch` saves and publishes in one step. A crash in between leaves a saved
  row and no command, which `Dispatch` followed by `LoseCommand` also does.
* `Finish` reads the rows and writes the status in one step, without looking at
  the status again, which is what the code does.
* `health` says whether a report is on record and whether it is good. The agent's
  timestamp is a number, the poll compares it with a string: any report on record raises.
* Whether a lost orchestrator's message is delivered again depends on
  `CELERY_ACKS_LATE` (settings/base.py:229), while the name Celery reads in this
  namespace is `CELERY_TASK_ACKS_LATE`; the constant `AcksLate` says
  which holds. The runs take the declared intention, TRUE, which adds the redeliveries; the theorems
  hold for both. With FALSE a crashed orchestrator is never run again.
  `RowLockNeedsTransaction` is TRUE for PostgreSQL and FALSE for SQLite. With TRUE no task gets past
  its first access, so the runs take FALSE, where there is something to check; the theorems
  hold for both.
* Results are queued on `deployment-results`; the workers of docker-compose.yml:93 and docker-compose.prod.yml:140 consume `critical`,
  `default` and `reporting` only. The model has a worker for results,
  as the settings of the code intend.
* Who approved a patch and when is left out, with it what deleting a user does to these columns.
  An account's source and names are left out, and what a device of a bulk scan fails with.
* `XADD ... MAXLEN ~` may keep more than `MaxLen` entries: the model trims any
  number that leaves at least `MaxLen`. `XAUTOCLAIM` pages by its count.
* Loops that write the same thing at every turn (heartbeats, fast lane) are one action.

## 3. What TLC checks

Every constant that bounds a run is named in its cfg. Deadlock is not checked: a
deployment that has ended, or a component with its requests used up, has nothing left to
do. The safety runs of the deployment use the permutations of devices, orchestrator
slots and workers; no action singles one out, and `Responders` and `Slow` are empty or
everything in these runs. Runs of liveness properties use no symmetry.

| Run | Bounds | Shows |
|---|---|---|
| `Rollout` | 3 devices, canary with waves of 2, one slot, one crash, redelivery or broker failure, all devices may report health | `AtMostOneStart`, `CountersExact` |
| `Overlap` | 2 devices in 2 waves, two slots, 3 requests of approve, execute, cancel, the scheduler | `WavesInOrder`, `CompletedLeavesNoneQueued`, `ResultsOfStarted`, `NoLateStart`, `TaskSettles` with two tasks side by side; `ImplementsWaveGate`: every step is one of the abstract specification |
| `StaleSaves` | 2 devices in 2 waves, two concurrent views, 3 requests of all seven operations, the scheduler, one message the broker refuses | the inductive invariant `IInv` under saves of old rows |
| `Recovery` | 2 devices in 2 waves, two result workers, every device may be slow, one crash, fairness | `NoLostIncrement`, `CountersFollow`, `NoTargetStuck` |
| `AgentKeys` | 3 keys, one kill, two lost connections, two other commands (configurations with a key among them), lost messages, an agent with a key or without | `HandOver`, `KeyNeverRegresses`, `RestartRecovers`, `HandlerAndHeartbeatEnd` |
| `Gateway` | one worker, three connections among two of an agent and two dashboards, one event, one command | `RoutedIsServed`, `BroadcastReachesAll`, `HealthyKeepsRoute`, `DeadSocketsLeave` |
| `Streams` | two consumers, two events, a stream that keeps one, pages of one, two faults | `AtLeastOnce`, `OnceUnlessClaimed`, `ReclaimThorough`, `EntriesDelivered` |
| `Inventory` | two requests at a time of nineteen handlers, two of them not reports of the agent, the scan task, the sweep | `OwnFieldsOnly`, `DecommissionSticks`, `PresenceFollows` |
| `Catalogue` | two patches, one device, two requests at a time, three requests or fewer with scan reports and recounts, two workers, one loss | `AuditExplains`, `DeployedWasApproved`, `RateExplained` |
| `Accounts` | two attempts allowed, four requests, two at a time | `LockoutArmed`, `PermanentLockHolds` |
| `PasswordReset` | the same with two requests, one at a time | that `ResetMustChange` is violated (below) |
| `Edges` | three BFF calls, two at a time, a limit of two, one user, two windows, one error; both relays; slow lane of one thread or two, with two configurations, a command, a change, one ill tool at a time; scanners with any two tools in any state; plans of totals 0-51, sizes 0-60, percentages 0-150, all strategies | `OwnWritesSeen`, `LimiterExact`, `RelaysEnd`, `DataConverges`, `SameWidthKeepsOrder`, `CollectorsAgree`, `EveryDeviceOnce`, `WaveSizesRespected` (waves numbered without a gap, no larger than asked, canary small and not empty) |

Why these bounds are enough:

* Any race in this code has one that read and one that wrote since: two requests, views,
  slots, workers or calls show it, and a third request what comes of it. `Catalogue` counts a
  request as 2 and a report or a recount as 3 of `MaxInputs`, 7: three requests (an approval, a
  creation, and a rejection or a save that overlaps it), two requests and a report, or two reports.
* Two waves make order observable; three devices with waves of two make a wave of more
  than one target; totals and sizes of the planner sit at, before and after each boundary.
* Three keys are the first, a rotation and one that overtakes it, and leave a configuration an
  older key to carry; two events with a
  stream of one are an entry that is delivered and one that is trimmed; pages of one make
  every reclaim take several. A limit of two leaves a count for an error or a kill to lose.
* Two dashboards of one user share a list, of two users a dictionary: both kinds of
  iteration are disturbed. Gateway workers share no table, so one is enough.
* `Edges` shortens TTLs to one and two ticks of a window of two, so that entries expire before, with and after it; a
  second user would have a cache and entries of their own. The tools in `Fragile` are one
  for each way a collector fails: a section skipped, another tool as fallback, an exception that ends the
  collection, and the missing updates that the server also ingests as a scan.
* For the safety properties that are proved below the bounds do not matter.

Every property has a mutant: an operator in the modules, marked `Mutant`, that is
the definition after it with a plausible mistake, which violates the property.

### What the properties say no more than

Several properties name the exceptions of the code, because without these they fail. The
exceptions are what a maintainer should know:

* `TaskSettles` excepts the three ways in which a task gives up by an exception: a report on
  record raises in the poll (`PollRaises`, tasks.py:264), the sleeps after waves use up the soft
  time limit (`TimeIsUp`: with delays of 15 minutes at the fourth), and a lost worker. Such a deployment stays
  in progress, as does one that a view resumes or that `SchedLost` leaves behind: nothing enqueues it again.
* `NoLateStart` allows two tasks that both took a device up before either started it to start it
  twice; `StartsBoundedHolds` says that there are no more starts than slots.
* `CountersFollow` names two ways in which counters and targets part: a view that saves counters it
  read before an increment (`StaleSave`, views.py:119), and a task, worker, monitor or cancel that took
  a target up before its outcome was recorded and then writes or drops it (tasks.py:344, 418, 464).
* `OwnFieldsOnly` excepts what a saved column takes along: two overlapping requests of the
  same JSON column lose one's change (views.py:391), the generic update loses all columns. The
  settings have two owners: a heartbeat brings those the agent has, which may be older than
  what `agent_config` stored (views.py:252-268).
* `DecommissionSticks` excepts requests under way, and a scan that was enqueued before:
  `scan_device_patches` looks for the row, not at its status (tasks.py:49-60).
* `PresenceFollows` takes an agent for present only while it has the key of the row: after
  `rotate_key` its reports are refused (agent_auth.py:31-43) until it is given the new one.
* `AtLeastOnce` excepts entries trimmed while pending and those whose dispatch raised during
  a reclaim (streams_consumer.py:251 ignores the result that the read loop looks at).
* `HandOver` excepts lost messages, lost writes of config.yaml, a rotation by hand
  (`rotate_key` tells the administrator only) and a configuration that carried a key.
  Nothing repairs these: a key that is fresh is not rotated again for days.
* `KeyNeverRegresses` excepts agents that handled a configuration with a key: `self.config.update(new_cfg)`
  takes any (agent.py:484), and `agent_config` forwards what it is sent (inventory/views.py:564-576).
* `RestartRecovers` speaks of a restart, since a session that loses its socket does not
  end by itself: the lanes run on and `gather` waits for them (`HandlerAndHeartbeatEnd`
  says that the others do return), and a redial uses the URL with the old key.
* `AuditExplains` excepts requests killed between the row and its entry, and those whose entry was
  refused: `AuditLog.action` holds 200 characters (accounts/models.py:125), the message a reason of any
  length (state_machine.py:41-48).
* `RateExplained` excepts devices that are `disturbed`: their rows changed under a count, a patch was
  deleted, or a task was lost or failed. Nothing counts these again by itself (below).
* `LockoutArmed` excepts a number of failures that an administrator's update gave, until the next
  failure: `UserSerializer` lets `failed_login_attempts` be written (accounts/serializers.py:96-108).
* `OwnWritesSeen` excepts what was read before the write and cached after it, and failed
  deletions. Other users' lists are stale until the TTL by design.
* `RelaysEnd`: of the SSH relay only the host's end counts. When the browser leaves, the
  relay waits for the next output of the host, although its docstring (ssh.py:14-15) says
  that on any close the server closes; a quiet shell keeps it open.
* `SameWidthKeepsOrder` excepts a pool that was configured wider than one thread or resized: two
  threads send the collections of the lane and of a command in any order.
* `CollectorsAgree` holds in one direction and for the sections that both have: what the agent finds, a
  saved scan finds too. An empty section cannot be told from one whose tool failed.

### Where the code does not do what its documentation says

The reset of a password has a run of its own, `PasswordReset`: `ResetMustChange` states what the
answer says, and TLC finds it violated. The others follow from the actions named and can be
reproduced by stating them as a property.

| Statement | What happens |
|---|---|
| the orchestrator marks the deployment when all waves are done | on PostgreSQL `select_for_update()` outside `atomic()` raises (`RowLockNeedsTransaction`): no deployment runs (tasks.py:117) |
| "Re-entrant: safe to call multiple times" | two overlapping tasks start the same device twice (`Evaluate`, `Dispatch`; tasks.py:297) |
| F() expressions prevent the race on the counters | the guard is read before the transaction (`ReportRead`): one target is counted twice (tasks.py:344) |
| a cancelled deployment has status Cancelled | the final write (`Finish`) or the threshold overwrites it (tasks.py:205) |
| Completed means all devices processed | it is written while devices install (tasks.py:200) |
| devices that fail the pre-flight are skipped | the keys read are never stored (tasks.py:276) |
| resume continues from where it left off | it enqueues no task (views.py:129) |
| the agent reconnects by itself | after a lost connection the lanes keep the session's `gather` from returning (agent.py:280) |
| a reset sets `must_change_password` and answers True (accounts/views.py:184, users/views.py:191, 197) | the hook of `save()` clears it because the password changed (`Hook`, accounts/models.py:103) |
| `is_ldap_user` is set by the LDAP backend (ldap_backend.py:63) | the hook derives it from `source` |
| compliance rates are refreshed every 15 minutes (settings/base.py:246) | celery_app.py:33-94 assigns a schedule without it: a wrong rate stays until the device's next count (`Recount`) |
| the agent registers itself (agent.py:139-153) | it posts without credentials, which `ReadOnlyForViewers` refuses with 401 (`TryRegister`): an agent whose file holds no key gets none |

Other behaviours worth knowing:

* A deployment may stay in progress for ever: by the exceptions of `TaskSettles`, by a resume,
  or by a scheduler that is lost before its `delay()` (tasks.py:502).
* `NoLostIncrement` fails as soon as a view may pause: it saves old counters
  (`SaveRow`, views.py:119).
* A negative `wave_size`, which no validator refuses, plans no device at all
  (`ChunkIndices`, tasks.py:84).
* A wave may start while the previous one is installing (`EndWave`), and failures
  past the threshold do not stop the wave being dispatched (`CheckThreshold`),
  although the user guide says otherwise (lines 779 and 808).
* A permanent lock (users/views.py:150) may be overwritten by a request that had read the
  account before; two first SAML logins at once may create two accounts.
* The SSH connection stays open when the shell cannot be created for another reason than a refused permission.

### Fairness

* *Deployment*: weak fairness of each orchestrator slot, each result worker, the
  monitor, the passing of the timeout for a slow device, a view that has read its
  row, and the cancel task. Celery workers take what is in their queues, beat starts the
  monitor every ten minutes, and a request handler runs to its end. Nothing is assumed
  of users, of the network, of agents or of crashes: a command or result may
  be lost, and `NoTargetStuck` holds because of the monitor alone.
* *KeyRotation*: the event loop runs every coroutine that is ready and the service manager
  starts the process again (weak); a network that comes back again and again lets a dial
  through (strong). Nothing is assumed of rotations, kills or lost connections, and no
  registration succeeds.
* *Gateway, Streams*: the coroutines that are ready run; a crashed worker is restarted.
* *Inventory*: requests end, beat runs the sweep, time passes; heartbeats of an agent that is up
  and has the key arrive again and again (strong, as other requests take the places). Nothing is
  assumed of the key: an agent that misses it may be refused for ever.
* *Catalogue, Accounts*: none.
* *Edges*: event loops and threads run what is ready, tools end by their timeouts, a
  handshake does too; browsers, hosts and services are not fair.

## 4. What is proved

The proofs are checked by TLAPS with no unproved step, for every value of the
constants that satisfies their named assumptions. Every safety invariant and every
action property that a passing run checks is stated by a theorem, but for three that are only
true within the bounds of their runs: `AtMostOneStart`, `CountersExact` and `NoLostIncrement`.
What holds without these bounds is proved instead, as the table says.

| Theorem | Module | States | Further hypotheses |
|---|---|---|---|
| `TypeCorrect` | `DeploymentProofs` | `Spec => []TypeOK` | |
| `Invariance` | | `Spec => []IInv` | |
| `WavesInOrderHolds` | | no device is sent the patch while one of an earlier wave is queued | |
| `CompletedLeavesNoneQueuedHolds` | | COMPLETED means nothing queued | |
| `ResultsOfStartedHolds` | | no result for a target that is queued | |
| `NoLateStartHolds` | | no task takes up a device that was started | |
| `StartsBoundedHolds` | | no device is started more often than there are slots (`AtMostOneStart` for one slot) | finitely many slots |
| `TaskSettlesHolds` | | a task that ends by itself leaves no deployment in progress | |
| `CountersFollowHolds` | | nobody takes up what has an outcome; counters and targets part in two ways only | |
| `WaveGateImplemented` | | the deployment implements `WaveGate` | |
| `PromiseKept` | | what the steps of `WaveGate` add up to (`Kept`), and so of the deployment | |
| `OnlyStaleSavesLose` | | no increment of a counter is lost | `FreshSaves` |
| `PlansPartition` | | every plan gives each device exactly one wave | no negative wave size |
| `EveryDeviceOnceHolds` | | the planner creates one row per device | no negative wave size |
| `WaveSizesRespectedHolds` | | waves without a gap, none larger or (save the last) smaller than asked, canary small and not empty | |
| `HandOverHolds`, `KeysOnlyGrow` | `KeysProofs` | the current key is with the agent or on its way, unless something was lost; keys go back only for a configuration that carried one | |
| `GatewayInvariant`, `RoutedIsServedHolds`, `BroadcastReachesAllHolds`, `HealthyKeepsRouteHolds` | `GatewayProofs` | what is registered is served, broadcasts reach who was there all along, only a failed send takes a healthy socket's route | |
| `StreamInvariant`, `AtLeastOnceHolds`, `OnceUnlessClaimedHolds`, `ReclaimThoroughHolds` | `StreamsProofs` | the three safety properties of the stream | |
| `InventoryInvariant`, `OwnFieldsOnlyHolds`, `DecommissionSticksHolds` | `InventoryProofs` | a request changes its own fields only; only what was under way touches a decommissioned device | |
| `AuditExplainsHolds`, `DeployedWasApprovedHolds`, `RateExplainedHolds` | `CatalogueProofs` | the three safety properties of the catalogue | |
| `LockoutArmedHolds`, `PermanentLock` | `AccountsProofs` | used-up attempts lock; what may lift a permanent lock | |
| `OwnWritesSeenHolds`, `LimiterExactHolds`, `CollectorsAgreeHolds`, `SameWidthKeepsOrderHolds` | `EdgesProofs` | the safety properties of BFF, collectors and lanes | |

The further hypotheses are those without which the statement is false of the code, or says
nothing: a negative wave size plans nobody, an old row puts old counters back, and an infinite number of slots is no bound.
None of them limits how many tasks, workers, monitors and views run side by side.

### The deployment

`WavesInOrder` is not inductive. A task decides on a query it made several
steps ago; what makes this safe is that the *set* of queued rows only
shrinks once the rows exist, so that an old view of it is never too small. The
inductive invariant `IInv` (module `DeploymentInvariant`) says this:

* `RowsOfMembers`: the rows are created all at once, so a second build changes none;
* `Quiet`: a queued target was never started and nothing about it is on its way;
* `StartedInOrder`: what was ever started is in no later wave than what is
  queued. It speaks of `started`, not of the status, because a target that was started
  and then skipped by a cancel may still be recorded as completed;
* `WavesAhead`: each task's remaining waves contain every queued target;
* `BatchIsCurrent`: what a task is dispatching is its current wave and leaves no queued target of it out;
* `CompletedSettled`: a row that says completed, in the database or in a view's
  hands, implies that nothing is or will be queued. Without the second half a view
  that saves an old row could break the property.

TLC checks `IInv` in `StaleSaves`. The proof has a lemma for each group of actions:
`BuildStep`, `EvaluateStep` and `DispatchStep` for the hard steps of the
orchestrator, `OrchestratorStep` for all its actions, `OutcomeStep` for agents, workers and
monitor, `ControlStep` for views and tasks. `SlotStep` is the argument they
share: a slot's invariant survives any step that removes queued targets and
leaves the slot's locals alone. `PlansPartition` is needed by `BuildStep`: every
member gets a row, so that all the rows appear at once.

`AtMostOneStart` fails with two slots that evaluate a wave before either dispatches it. `DueStep`
says that a slot takes a target up (`Due`) only while it is queued, so, by `Quiet`, never after a start:
that is `NoLateStart`. Each start uses up one slot that has the target in hand (`StartedStep`), and no new
one comes; hence the additional invariant `StartsLeft`, the starts of a device and the slots still about to
start it are no more than all slots, which bounds the starts.

`TaskSettles` needs `WavesAhead` at the one return that looks at rows: when no wave is left, nothing
is queued, so that `Finish` writes a final status and does not return in between (`ReturnSettles`).

The refinement rests on the same invariant. Most steps leave the rows alone and
stutter in `WaveGate`, unless they write the final status, which `CompletedSettled` allows;
building maps to making the plan, dispatching to reaching a device, where
`StartedInOrder'` gives the guard that nobody of an earlier wave waits. `Kept` is inductive
in `WaveGate`, so `PromiseKept` needs no step of the code.

### The counters

A step either records one result and counts it, is the monitor's write, which counts what it
fails, or leaves the counters alone and completes or fails nothing (`Unrecorded`), unless it saves counters that
were incremented since they were read. `CountingSteps` is the lemma that says so of the whole next-state relation.

`OnlyStaleSavesLose` follows: no increment is lost in any system whose saves are fresh (`FreshSaves`).

`CountersFollow` says the rest, without a hypothesis. Whoever has taken a target up is among its
`Holders`. `NobodyTakesUp`: a target with an outcome gets no new holder, since the code looks at the status
when it takes one up. `LetsGo`: who writes a target lets go of it. So a step that counts or moves
a target with an outcome changes its holders, and any other step that counts adds one to the counter and
one target to the set counted, and the difference of the two stays what it was (`GapStep`).

### The planner

A slice is an interval of positions, given by the inequalities that `ChunkIndices` and
`Chunked` are made of. `Cut` says of a plan that its waves are numbered from a first to a last,
none larger than the size and all but the last full; `SliceSizes` shows it of every `Chunked`,
whatever the offset and the first number, which is what the canary needs. `Sized` is the
property as a statement about a plan.

### Gateway and streams

* `GatewayInv`: who is still due in a broadcast is ahead of its loop (`DueAhead`), in the list it
  goes through at or after the index, or in one of a user to come. Newcomers go to the end of a
  list, which `DueAhead` survives; a removal moves the others of the list to the front, and these the property excepts. `ClosedFor`: a closed socket that
  is still registered has someone waiting to take its place, so that replacing leaves no route to a
  socket nobody serves; `Routed`: what is registered has reached the loop that ends in its removal.
* `StreamInv`: `Batches`, what a consumer has before it was delivered and is in order;
  `Dispatched`, what it is about to acknowledge was dispatched; `HeldOnce`, without a hand-over an entry is
  before one consumer at most and is broadcast once; `ToReclaim`, what a reclaim has to deal with
  is before it or yet to come after its cursor. The lemmas on pages say which entries the `COUNT`
  of a read or claim returns: the least ones, in order, the cursor being the next.

### Keys, inventory, catalogue, accounts

* `KeysInv`: until a configuration brings a key (`KeyInv`), keys reach the agent in the order of
  their issue. What is in the inbox is newer than what agent and file have, older than what is yet to be
  published and in order, so that handling one key never hides the current one; and file and memory agree while nothing
  went wrong, so that a restart changes nothing. Between sessions nothing is on its way.
* `InventoryInv`: what a request neither sets nor missed a change of, its copy has as the row
  has it (`CopiesHold`), so that saving the column changes nothing of others; what holds a decommissioned
  row was under way, or is the bulk tagging that reads every device (`OnlyTagged`).
* `CatalogueInv`: the rows that requests hold are as sound as those stored (`Sound`): a transition of that very
  row, made by now, led to their state, so that saving an old one does no harm. A saved transition waits for its
  entry with one request (`unlogged`), and is on record, or lost with that request, before its next one.
* `RateInv`: a task that has counted a device holds the right count (`Fresh`), unless the device's rows changed
  meanwhile, and then it is `disturbed`. `OtherStep` is for what touches no rows, `TaskStep` for one task's move.
* `ArmedInv`: what a request may still write is the pair of counter and lock,
  neither, or a permanent lock; an update may give a number of its own, and then the row says so (`given`).
  `ChangesSafe` shows it of every handler; the hook and the lapse of time preserve it.

### Edges

* `BffInv`: users are told only of their own writes that Django has committed (`ToldIsOwn`).
  A counter has its TTL set by the one request that made it (`Counting`), lives as long
  as its window (`Lasting`), counts everyone who passed (`CountsPassed`) and nobody else but
  what an error lost (`PassedOrLost`): the two bounds are the two halves of `LimiterExact`.
* `ReportInv`: a saved report is a run of its scanner on this machine in which no section
  raised. `CollectorsAgree` then compares, section by section and for all
  states of the tools, what the agent and that scanner make of them.
* `LanesInv`: while the first pool has one thread and was not resized, there is one pool, one
  collection runs at a time, and what it has read is no older than what the server has.

### Only model-checked

The liveness properties: `NoTargetStuck`, `RestartRecovers`, `HandlerAndHeartbeatEnd`,
`DeadSocketsLeave`, `EntriesDelivered`, `PresenceFollows`, `RelaysEnd` and `DataConverges`; and
the three safety properties named above, which the code keeps only with one slot (`AtMostOneStart`),
with one slot and one result worker and no late monitor (`CountersExact`), or with no view that
saves an old row (`NoLostIncrement`). The prover does not handle fairness,
for which it would have to reason about ENABLED. Induction over data is out of its reach too, and is not
needed: no module uses recursive operators, and what is said of sequences and sizes
follows from the library's facts about them.

## 5. Not modelled

* Deployment: deleting one, an update that changes the plan's columns in mid-run, groups that change
  between two builds, rounding in the failure rate. `run_preflight_checks` has no caller.
* Events, notifications and timeline entries decide nothing.
* Accounts: names, preferences and where an account is from; JWT issue, refresh and blacklisting belong to a library; roles and permissions
  are checks of a single request; two accounts with one email address and audit
  partitions are left out.
* Inventory: which devices a bulk scan skips as invalid, device groups, downloads of the installer and the read-only endpoints.
* Agent: the numbers of the fast lane, which come from psutil, and the agent's own scan
  of a platform beyond what it reports.
* Read-replica router (`common/db_router.py`): with a replica, tasks may read rows older
  than their own writes; no shipped settings configure one.
* Compliance reports, snapshots, search, frontend, installers, simulator and deployment
  files: queries, presentation and packaging, without a protocol to check.
