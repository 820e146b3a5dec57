-------------------------------- MODULE Lanes --------------------------------
(***************************************************************************)
(* The slow lane of the agent's LaneScheduler and the standalone scanners. *)
(* Collections run on a thread pool: the lane's own, one after another,    *)
(* and those of COLLECT_SLOW_LANE, which the message handler awaits before *)
(* its next message.  CONFIG_UPDATE may replace the pool while one runs.   *)
(* Stopping, and the fast lane, are AgentSession's.                        *)
(***************************************************************************)
EXTENDS Integers, Sequences, FiniteSets, Collectors

CONSTANTS
  Fragile,     \* tools that may misbehave while the agent runs
  Widths,      \* values of slow_lane_concurrency, as configured or in a CONFIG_UPDATE
  MaxChanges,  \* bound: changes of the device's software
  MaxIlls,     \* bound: tools that begin or cease to misbehave
  MaxUpdates,  \* bound: CONFIG_UPDATEs
  MaxDropped,  \* bound: reports lost with the connection
  MaxCommands  \* bound: COLLECT_SLOW_LANEs

ASSUME LanesAssumption ==
  /\ Fragile \subseteq LinuxTools \cup MacTools \cup WindowsTools
  /\ Widths \subseteq Nat \ {0}
  /\ {MaxChanges, MaxIlls, MaxUpdates, MaxDropped, MaxCommands} \subseteq Nat

VARIABLES
  os,       \* platform.system()
  ill,      \* pairs of a tool and its outcome; the other tools answer
  facts,    \* Facts(os, ill)
  version,  \* how often the device has changed
  pools,    \* the widths of the thread pools created so far, the last in use
  resized,  \* history: slow_lane_concurrency has been changed
  queue,    \* who waits for a thread, oldest first
  job,      \* the collection each of the two has submitted
  server,   \* the last slow_lane_data received
  report,   \* the file of a standalone scanner
  bounds    \* how much of each bound is used

laneVars == <<os, ill, facts, version, pools, resized, queue, job, server, report, bounds>>

Owners == {"loop", "command"}     \* _slow_loop and the message handler
NoJob == [at |-> "none", pool |-> 0, seen |-> 0, facts |-> {}]

Behaviour(p, i) == [t \in Tools(p) |-> IF \E x \in Outcomes : <<t, x>> \in i
                                        THEN CHOOSE x \in Outcomes : <<t, x>> \in i
                                        ELSE "answers"]
FactsOf(sections) == {s \in DOMAIN sections : sections[s] = "facts"}

(* What a device of platform p has to tell when it has ailment i, and what *)
(* collect() returns of it.                                                *)
Facts(p, i) == [has |-> FactsOf(Sections(p, Behaviour(p, i))),
                found |-> FactsOf(Collected(p, Behaviour(p, i)))]

Uses(b) == bounds' = [bounds EXCEPT ![b] = @ + 1]

NoReport == [by |-> "none", facts |-> {}]

(* ills[p]: the ailments a device of platform p may begin with.  The first *)
(* pool has the width of the configuration the agent was started with.     *)
LaneInit(ills) ==
  /\ os \in Platforms
  /\ ill \in ills[os]
  /\ facts = Facts(os, ill)
  /\ version = 0
  /\ \E n \in Widths : pools = <<n>>
  /\ resized = FALSE
  /\ queue = << >>
  /\ job = [w \in Owners |-> NoJob]
  /\ server = [seen |-> 0, facts |-> {}]
  /\ report = NoReport
  /\ bounds = [changes |-> 0, ills |-> 0, updates |-> 0, dropped |-> 0, commands |-> 0]
-----------------------------------------------------------------------------
(* The device: its software changes, a tool breaks or works again.         *)
Change ==
  /\ bounds.changes < MaxChanges /\ Uses("changes")
  /\ version' = version + 1
  /\ UNCHANGED <<os, ill, facts, pools, resized, queue, job, server, report>>

Ail ==
  /\ bounds.ills < MaxIlls /\ Uses("ills")
  /\ \/ ill = {} /\ \E t \in Fragile \cap Tools(os), x \in Outcomes \ {"answers"} : ill' = {<<t, x>>}
     \/ ill # {} /\ ill' = {}
  /\ facts' = Facts(os, ill')
  /\ UNCHANGED <<os, version, pools, resized, queue, job, server, report>>

(* run_in_executor of the pool in use.                                     *)
Submit(w) ==
  /\ job[w].at = "none"
  /\ job' = [job EXCEPT ![w] = [NoJob EXCEPT !.at = "queued", !.pool = Len(pools)]]
  /\ queue' = Append(queue, w)
  /\ UNCHANGED <<os, ill, facts, version, pools, resized, server, report>>

SlowLoop == Submit("loop") /\ UNCHANGED bounds
CollectCommand == bounds.commands < MaxCommands /\ Uses("commands") /\ Submit("command")

Busy(p) == Cardinality({w \in Owners : job[w].pool = p /\ job[w].at \in {"running", "gathered"}})

(* A pool that was shut down without waiting still runs what it was given. *)
ThreadTakes(w) ==
  /\ job[w].at = "queued"
  /\ Busy(job[w].pool) < pools[job[w].pool]
  /\ \A i, j \in DOMAIN queue :
       (queue[j] = w /\ i < j) => job[queue[i]].pool # job[w].pool
  /\ job' = [job EXCEPT ![w].at = "running"]
  /\ queue' = SelectSeq(queue, LAMBDA v : v # w)
  /\ UNCHANGED <<os, ill, facts, version, pools, resized, server, report, bounds>>

(* collect(), at the moment it reads the device.                           *)
Collect(w) ==
  /\ job[w].at = "running"
  /\ job' = [job EXCEPT ![w].at = "gathered", ![w].seen = version,
                        ![w].facts = facts.found]
  /\ UNCHANGED <<os, ill, facts, version, pools, resized, queue, server, report, bounds>>

(* The thread ends and the coroutine that awaits it sends; coroutines are  *)
(* resumed in the order in which their threads ended.  send_json drops     *)
(* what it cannot send.                                                    *)
Deliver(w) ==
  /\ job[w].at = "gathered"
  /\ job' = [job EXCEPT ![w] = NoJob]
  /\ \/ server' = [seen |-> job[w].seen, facts |-> job[w].facts] /\ UNCHANGED bounds
     \/ bounds.dropped < MaxDropped /\ Uses("dropped") /\ UNCHANGED server
  /\ UNCHANGED <<os, ill, facts, version, pools, resized, queue, report>>

(* Mutant of UpdateIntervals: the pool is replaced by every update.        *)
UpdateAlways(n) ==
  /\ job["command"].at = "none"
  /\ bounds.updates < MaxUpdates /\ Uses("updates")
  /\ pools' = Append(pools, n)
  /\ resized' = (resized \/ n # pools[Len(pools)])
  /\ UNCHANGED <<os, ill, facts, version, queue, job, server, report>>

(* CONFIG_UPDATE, handled when no COLLECT_SLOW_LANE is awaited.            *)
UpdateIntervals(n) ==
  /\ job["command"].at = "none"
  /\ bounds.updates < MaxUpdates /\ Uses("updates")
  /\ pools' = IF n # pools[Len(pools)] THEN Append(pools, n) ELSE pools
  /\ resized' = (resized \/ n # pools[Len(pools)])
  /\ UNCHANGED <<os, ill, facts, version, queue, job, server, report>>

LaneStep == \E w \in Owners : ThreadTakes(w) \/ Collect(w) \/ Deliver(w)
LaneNext ==
  \/ Change \/ Ail \/ SlowLoop \/ CollectCommand \/ LaneStep
  \/ \E n \in Widths : UpdateIntervals(n)
-----------------------------------------------------------------------------
(* A standalone scanner has no such try: a section that raises ends it     *)
(* before it saves.                                                        *)
Scan(program) ==
  LET sections == ScanSections(program, os, Behaviour(os, ill)) IN
  /\ report = NoReport
  /\ program = "windows" => os = "Windows"
  /\ "raises" \notin {sections[s] : s \in DOMAIN sections}
  /\ report' = [by |-> program, facts |-> FactsOf(sections)]
  /\ UNCHANGED <<os, ill, facts, version, pools, resized, queue, job, server, bounds>>

ScanNext == \E p \in {"mac-linex", "windows"} : Scan(p)
=============================================================================
