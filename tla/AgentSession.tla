---------------------------- MODULE AgentSession ----------------------------
(***************************************************************************)
(* The agent process of agent/agent.py and its lane scheduler: it boots    *)
(* from config.yaml, may try to register, dials the gateway with a URL     *)
(* built once, and in a session gathers four coroutines (the heartbeat,    *)
(* the message handler, the fast and the slow lane) until all have ended.  *)
(* A key is a number, the order of issue; NoKey is the placeholder, Torn   *)
(* a config.yaml truncated by a crash while it was written.                *)
(***************************************************************************)
EXTENDS Integers, Sequences

VARIABLES
  phase,      \* where connect() is
  cfgKey,     \* config["api_key"] in memory
  file,       \* the key in config.yaml
  urlKey,     \* the key in the URL that connect() built before its loop
  running,    \* self.running
  connected,  \* self._connected
  sock,       \* the socket self.ws refers to
  lanes,      \* the scheduler's _running
  loops,      \* the coroutines of the session that have not returned
  inbox,      \* commands sent to the socket and not handled
  blocked,    \* install_patch runs in the handler and blocks the event loop
  faults      \* history: what went wrong with the hand-over of a key

agentVars == <<phase, cfgKey, file, urlKey, running, connected, sock, lanes,
               loops, inbox, blocked, faults>>
process == <<phase, urlKey, running, lanes>>     \* a handler leaves these alone

NoKey == 0
Torn == -1
Phases == {"boot", "register", "dial", "setup", "session", "backoff", "exited"}
LoopNames == {"heartbeat", "handler", "fast", "slow"}

Commands == {"START_SCAN", "HEALTH_CHECK", "GET_SYSTEM_INFO", "COLLECT_SLOW_LANE",
             "EXECUTE_PATCH", "START_DEPLOYMENT", "CONFIG_UPDATE", "UPDATE_AGENT"}
Command(c) == [cmd |-> c, key |-> NoKey]
Rotated(k) == [cmd |-> "KEY_ROTATED", key |-> k]
Configured(k) == [cmd |-> "CONFIG_UPDATE", key |-> k]

(* A crash or a closed socket loses what was not handled: a KEY_ROTATED    *)
(* among it is the loss of a key.                                          *)
LossOf(lost) == IF \E i \in DOMAIN lost : lost[i].cmd = "KEY_ROTATED"
                THEN {"lost"} ELSE {}

(* __init__ and connect() up to maybe_auto_register.  A torn file makes    *)
(* the constructor fail, and the service manager only tries again.         *)
Boot ==
  /\ phase = "boot" /\ file # Torn
  /\ phase' = "register"
  /\ cfgKey' = file
  /\ running' = TRUE
  /\ UNCHANGED <<file, urlKey, connected, sock, lanes, loops, inbox, blocked, faults>>

(* _persist_config: the errors of the write are caught and logged.         *)
Persist(k) ==
  \/ file' = k /\ UNCHANGED faults
  \/ UNCHANGED file /\ faults' = faults \cup {"disk"}

(* maybe_auto_register is called once, before the loop.  Without a key it  *)
(* posts the device, with no credentials: the server only lets users in,   *)
(* answers 401, and the placeholder stays, in the URL too.                 *)
TryRegister ==
  /\ phase = "register"
  /\ phase' = "dial"
  /\ urlKey' = cfgKey
  /\ UNCHANGED <<cfgKey, file, running, connected, sock, lanes, loops, inbox, blocked, faults>>

(* websockets.connect succeeds.                                            *)
Connect(accepted) ==
  /\ phase = "dial" /\ accepted
  /\ phase' = "setup"
  /\ sock' = "open"
  /\ connected' = TRUE
  /\ inbox' = << >>
  /\ UNCHANGED <<cfgKey, file, urlKey, running, lanes, loops, blocked, faults>>

DialFails ==
  /\ phase = "dial"
  /\ phase' = "backoff"
  /\ UNCHANGED <<cfgKey, file, urlKey, running, connected, sock, lanes, loops,
                 inbox, blocked, faults>>

(* Mutant of Backoff: connect() gives up.                                  *)
BackoffOnce ==
  /\ phase = "backoff"
  /\ phase' = "exited"
  /\ UNCHANGED <<cfgKey, file, urlKey, running, connected, sock, lanes, loops,
                 inbox, blocked, faults>>

Backoff ==
  /\ phase = "backoff"
  /\ phase' = "dial"
  /\ UNCHANGED <<cfgKey, file, urlKey, running, connected, sock, lanes, loops,
                 inbox, blocked, faults>>

(* System info and inventory are sent, the initial scan becomes a task, the *)
(* scheduler is created and the four coroutines are gathered.              *)
Gather ==
  /\ phase = "setup"
  /\ phase' = "session"
  /\ connected' \in {connected, connected /\ sock = "open"}
  /\ lanes' = TRUE
  /\ loops' = LoopNames
  /\ UNCHANGED <<cfgKey, file, urlKey, running, sock, inbox, blocked, faults>>

(* The connection is lost, the gateway replaces or closes it, or its ping  *)
(* times out behind a blocking install: what had arrived stays readable.   *)
SocketLost ==
  /\ sock = "open"
  /\ sock' = "closed"
  /\ \E n \in 0..Len(inbox) :
       /\ inbox' = SubSeq(inbox, 1, n)
       /\ faults' = faults \cup LossOf(SubSeq(inbox, n + 1, Len(inbox)))
  /\ UNCHANGED <<phase, cfgKey, file, urlKey, running, connected, lanes, loops, blocked>>

(* send_json drops the message when _connected is not set, and swallows    *)
(* the error of a closed socket: no caller learns that nothing was sent.   *)
SendJson == connected' = (connected /\ sock = "open")

(* Mutant of HeartbeatLoop: it runs until it is told to stop.              *)
HeartbeatForever ==
  /\ "heartbeat" \in loops /\ ~blocked
  /\ SendJson
  /\ UNCHANGED <<process, cfgKey, file, sock, loops, inbox, blocked, faults>>

HeartbeatLoop ==
  /\ "heartbeat" \in loops /\ ~blocked
  /\ IF connected THEN SendJson /\ UNCHANGED loops
                  ELSE loops' = loops \ {"heartbeat"} /\ UNCHANGED connected
  /\ UNCHANGED <<process, cfgKey, file, sock, inbox, blocked, faults>>

LaneLoop(l) ==
  /\ l \in loops /\ ~blocked
  /\ IF lanes THEN SendJson /\ UNCHANGED loops
              ELSE loops' = loops \ {l} /\ UNCHANGED connected
  /\ UNCHANGED <<process, cfgKey, file, sock, inbox, blocked, faults>>

Handling(c) ==
  /\ "handler" \in loops /\ ~blocked
  /\ inbox # << >> /\ Head(inbox).cmd = c
  /\ inbox' = Tail(inbox)

(* A handler that computes something and sends it.                         *)
Reporting(c) ==
  /\ Handling(c)
  /\ SendJson
  /\ UNCHANGED <<process, cfgKey, file, sock, loops, blocked, faults>>

HandleScan == Reporting("START_SCAN")
HandleHealthCheck == Reporting("HEALTH_CHECK")
HandleSystemInfo == Reporting("GET_SYSTEM_INFO")
HandleCollect == Reporting("COLLECT_SLOW_LANE")

(* run_patch announces the install, which then blocks the event loop; so   *)
(* does a deployment, that announces nothing.                              *)
HandleExecutePatch ==
  /\ Handling("EXECUTE_PATCH")
  /\ SendJson
  /\ blocked' = TRUE
  /\ UNCHANGED <<process, cfgKey, file, sock, loops, faults>>

HandleDeployment ==
  /\ Handling("START_DEPLOYMENT")
  /\ blocked' = TRUE
  /\ UNCHANGED <<process, cfgKey, file, connected, sock, loops, faults>>

(* The result is sent when the install returns.                            *)
InstallDone ==
  /\ blocked
  /\ blocked' = FALSE
  /\ SendJson
  /\ UNCHANGED <<process, cfgKey, file, sock, loops, inbox, faults>>

(* Mutant of HandleConfigUpdate: the file is read again.                   *)
ConfigReloaded ==
  /\ Handling("CONFIG_UPDATE")
  /\ cfgKey' = file
  /\ UNCHANGED <<process, file, connected, sock, loops, blocked, faults>>

(* config.update() takes what the operator's request holds, an api_key     *)
(* among it; an empty configuration is ignored.                            *)
HandleConfigUpdate ==
  /\ Handling("CONFIG_UPDATE")
  /\ LET k == Head(inbox).key IN
       \/ k = NoKey /\ UNCHANGED <<cfgKey, file, faults>>
       \/ k = NoKey /\ Persist(cfgKey) /\ UNCHANGED cfgKey
       \/ /\ k # NoKey
          /\ cfgKey' = k /\ file' \in {file, k}
          /\ faults' = faults \cup {"config"}
  /\ UNCHANGED <<process, connected, sock, loops, blocked>>

(* Mutant of HandleKeyRotated: the key is kept in memory only.             *)
KeyInMemory ==
  /\ Handling("KEY_ROTATED")
  /\ cfgKey' = Head(inbox).key
  /\ connected' = FALSE
  /\ UNCHANGED <<process, file, sock, loops, blocked, faults>>

HandleKeyRotated ==
  /\ Handling("KEY_ROTATED")
  /\ cfgKey' = Head(inbox).key
  /\ Persist(Head(inbox).key)
  /\ connected' = FALSE
  /\ UNCHANGED <<process, sock, loops, blocked>>

(* run_self_update starts the new version and only then clears running;    *)
(* a download that fails is reported.                                      *)
HandleUpdate ==
  /\ Handling("UPDATE_AGENT")
  /\ running' \in {running, FALSE}
  /\ SendJson
  /\ UNCHANGED <<phase, urlKey, lanes, cfgKey, file, sock, loops, blocked, faults>>

HandleCommand ==
  \/ HandleScan \/ HandleHealthCheck \/ HandleSystemInfo \/ HandleCollect
  \/ HandleExecutePatch \/ HandleDeployment \/ HandleConfigUpdate
  \/ HandleKeyRotated \/ HandleUpdate

HandlerEnds ==
  /\ "handler" \in loops /\ ~blocked /\ sock = "closed" /\ inbox = << >>
  /\ loops' = loops \ {"handler"}
  /\ UNCHANGED <<process, cfgKey, file, connected, sock, inbox, blocked, faults>>

(* The gather returns, or a collector cannot be constructed during the     *)
(* setup: finally runs.                                                    *)
SessionEnds ==
  /\ phase \in {"setup", "session"} /\ loops = {}
  /\ phase' = IF running THEN "backoff" ELSE "exited"
  /\ connected' = FALSE
  /\ sock' = "none"
  /\ lanes' = FALSE
  /\ inbox' = << >>
  /\ faults' = faults \cup LossOf(inbox)
  /\ UNCHANGED <<cfgKey, file, urlKey, running, loops, blocked>>

Reset ==
  /\ phase' = "boot" /\ sock' = "none" /\ connected' = FALSE /\ lanes' = FALSE
  /\ loops' = {} /\ inbox' = << >> /\ blocked' = FALSE

(* The process is killed, or the machine reboots (REBOOT too).             *)
Kill ==
  /\ phase # "boot"
  /\ Reset
  /\ faults' = faults \cup LossOf(inbox)
  /\ UNCHANGED <<cfgKey, file, urlKey, running>>

(* A crash between the truncating open and the dump of _persist_config.    *)
KillInPersist ==
  /\ "handler" \in loops /\ ~blocked /\ inbox # << >>
  /\ Head(inbox).cmd \in {"KEY_ROTATED", "CONFIG_UPDATE"}
  /\ Reset
  /\ file' = Torn
  /\ faults' = faults \cup {"torn"}
  /\ UNCHANGED <<cfgKey, urlKey, running>>

(* What the event loop is sure to run.                                     *)
AgentSteps ==
  \/ HeartbeatLoop \/ LaneLoop("fast") \/ LaneLoop("slow")
  \/ HandleCommand \/ InstallDone \/ HandlerEnds \/ Gather
=============================================================================
