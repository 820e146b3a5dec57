----------------------------- MODULE KeyRotation -----------------------------
(***************************************************************************)
(* The server's half of an agent's key, from its first one: the daily      *)
(* rotation task, the administrator's rotation, the key check of the gateway, and   *)
(* the commands pushed through Redis to the agent's socket.  Redis keeps   *)
(* nothing: what is published while the agent has no socket is lost.       *)
(***************************************************************************)
EXTENDS AgentSession

CONSTANTS
  FirstKeys,     \* the keys config.yaml may start with: NoKey if nobody wrote one
  MaxKeys,       \* bound: keys issued
  MaxKills,      \* bound: kills and reboots
  MaxDrops,      \* bound: lost connections
  MaxCommands    \* bound: other commands sent

ASSUME KeyRotationAssumption ==
  /\ FirstKeys \subseteq {NoKey, 1}
  /\ MaxKeys \in Nat \ {0} /\ MaxKills \in Nat /\ MaxDrops \in Nat /\ MaxCommands \in Nat

VARIABLES
  dbKey,   \* device.agent_api_key
  toSend,  \* the key a rotation has saved and not yet published
  kills, drops, sent   \* how much of the bounds is used

vars == <<agentVars, dbKey, toSend, kills, drops, sent>>
serverVars == <<dbKey, toSend, sent>>

Init ==
  /\ phase = "boot" /\ cfgKey = NoKey /\ urlKey = NoKey
  /\ file \in FirstKeys
  /\ dbKey = 1
  /\ running = TRUE /\ connected = FALSE /\ sock = "none" /\ lanes = FALSE
  /\ loops = {} /\ inbox = << >> /\ blocked = FALSE
  /\ faults = IF file = dbKey THEN {} ELSE {"manual"}
  /\ toSend = NoKey /\ kills = 0 /\ drops = 0 /\ sent = 0

(* verify_agent_key: the key of the URL against the device's key now.      *)
Accepts == urlKey = dbKey

Dial == Connect(Accepts) /\ UNCHANGED <<serverVars, kills, drops>>

(* rotate_stale_api_keys saves the new key and then publishes it.          *)
RotateSave ==
  /\ dbKey < MaxKeys /\ toSend = NoKey
  /\ dbKey' = dbKey + 1
  /\ toSend' = dbKey + 1
  /\ UNCHANGED <<agentVars, kills, drops, sent>>

RotatePublish ==
  /\ toSend # NoKey
  /\ toSend' = NoKey
  /\ IF sock = "open"
     THEN inbox' = Append(inbox, Rotated(toSend)) /\ UNCHANGED faults
     ELSE faults' = faults \cup {"lost"} /\ UNCHANGED inbox
  /\ UNCHANGED <<phase, cfgKey, file, urlKey, running, connected, sock, lanes,
                 loops, blocked, dbKey, kills, drops, sent>>

(* The worker dies between the two, or Redis refuses the message, which    *)
(* publish only logs: rotate_stale_api_keys does not come back to a key    *)
(* that is fresh.                                                          *)
PublishFails ==
  /\ toSend # NoKey
  /\ toSend' = NoKey
  /\ faults' = faults \cup {"lost"}
  /\ UNCHANGED <<phase, cfgKey, file, urlKey, running, connected, sock, lanes,
                 loops, inbox, blocked, dbKey, kills, drops, sent>>

(* rotate_key of the API returns the key to the administrator only.        *)
RotateByHand ==
  /\ dbKey < MaxKeys
  /\ dbKey' = dbKey + 1
  /\ faults' = faults \cup {"manual"}
  /\ UNCHANGED <<phase, cfgKey, file, urlKey, running, connected, sock, lanes,
                 loops, inbox, blocked, toSend, kills, drops, sent>>

(* agent_config forwards request.data as it is: it may hold any key the    *)
(* operator knows, one that was replaced too.                              *)
SendCommand ==
  /\ sock = "open" /\ sent < MaxCommands
  /\ sent' = sent + 1
  /\ \/ \E c \in Commands : inbox' = Append(inbox, Command(c))
     \/ \E k \in 1 .. dbKey : inbox' = Append(inbox, Configured(k))
  /\ UNCHANGED <<phase, cfgKey, file, urlKey, running, connected, sock, lanes,
                 loops, blocked, faults, dbKey, toSend, kills, drops>>

Drop == /\ drops < MaxDrops /\ drops' = drops + 1
        /\ SocketLost /\ UNCHANGED <<serverVars, kills>>
Die  == /\ kills < MaxKills /\ kills' = kills + 1
        /\ Kill \/ KillInPersist
        /\ UNCHANGED <<serverVars, drops>>

(* A step of the agent that leaves the server's half alone.                *)
Alone(A) == A /\ UNCHANGED <<serverVars, kills, drops>>

Next ==
  \/ Dial
  \/ Alone(Boot) \/ Alone(TryRegister) \/ Alone(DialFails) \/ Alone(Backoff)
  \/ Alone(AgentSteps) \/ Alone(SessionEnds)
  \/ RotateSave \/ RotatePublish \/ PublishFails \/ RotateByHand \/ SendCommand
  \/ Drop \/ Die

(* The event loop and the service manager keep the agent going, and a      *)
(* network that comes back again and again lets a dial through.            *)
Fairness ==
  /\ SF_vars(Dial) /\ WF_vars(RotatePublish)
  /\ WF_vars(Alone(Boot)) /\ WF_vars(Alone(TryRegister)) /\ WF_vars(Alone(Backoff))
  /\ WF_vars(Alone(Gather)) /\ WF_vars(Alone(InstallDone))
  /\ WF_vars(Alone(HeartbeatLoop)) /\ WF_vars(Alone(HandlerEnds))
  /\ WF_vars(Alone(LaneLoop("fast"))) /\ WF_vars(Alone(LaneLoop("slow")))
  /\ WF_vars(Alone(HandleCommand)) /\ WF_vars(Alone(SessionEnds))

Spec == Init /\ [][Next]_vars
FairSpec == Spec /\ Fairness

-----------------------------------------------------------------------------
Keys == 0..MaxKeys

(* Where the device's current key is on its way to the agent.              *)
InConfig == file = dbKey /\ (phase = "boot" \/ cfgKey = dbKey)
InFlight == toSend = dbKey \/ \E i \in DOMAIN inbox : inbox[i] = Rotated(dbKey)

(* The hand-over of a key loses nothing by itself: unless a message or a   *)
(* write was lost, an administrator rotated by hand, or an operator sent a *)
(* key in a configuration, the agent has the key the server checks, or     *)
(* will receive it.                                                        *)
HandOver == faults = {} => InConfig \/ InFlight

(* Whatever is lost, a running agent goes back to an older key only when a *)
(* configuration carried one: a rotation that waited, a failed write or    *)
(* any other configuration brings none back.                               *)
KeyNeverRegresses == [][phase # "boot" /\ cfgKey' < cfgKey => "config" \in faults']_vars

(* A restart cures everything but a lost key: an agent that boots with the *)
(* device's key gets its session.                                          *)
RestartRecovers ==
  (phase = "boot" /\ file = dbKey)
     ~> (phase \in {"setup", "session"} \/ file # dbKey)

(* After a lost connection the handler and the heartbeat do return: what   *)
(* keeps the session from ending is the lanes.                             *)
HandlerAndHeartbeatEnd ==
  (phase = "session" /\ sock = "closed")
     ~> (phase # "session" \/ loops \cap {"handler", "heartbeat"} = {})

=============================================================================
