------------------------------- MODULE Relays -------------------------------
(***************************************************************************)
(* The two relays of WebSockets: /ws/* of the BFF, between a browser and   *)
(* the realtime service, and /ws/ssh of the realtime service, between a    *)
(* browser and a shell.  Each runs two coroutines, one per direction; the  *)
(* first waits for either to end and cancels the other, the second waits   *)
(* for both and asks the other to end with stop_event.                     *)
(***************************************************************************)
EXTENDS Naturals

VARIABLES
  wsPc,       \* where websocket_proxy is
  wsClient,   \* the browser's socket
  upstream,   \* the socket to the realtime service
  pumps,      \* the directions that still run
  sshPc,      \* where ssh_terminal is
  sshClient,  \* the browser's socket
  conn,       \* the connection to the host
  shell,      \* the process on the host
  tasks,      \* _read_ssh ("out"), _read_ws ("in"): those that still run
  stop        \* stop_event

wsVars == <<wsPc, wsClient, upstream, pumps>>
sshVars == <<sshPc, sshClient, conn, shell, tasks, stop>>
relayVars == <<wsVars, sshVars>>

RelayInit ==
  /\ wsPc = "idle" /\ wsClient = "none" /\ upstream = "none" /\ pumps = {}
  /\ sshPc = "idle" /\ sshClient = "none" /\ conn = "none" /\ shell = "none"
  /\ tasks = {} /\ stop = FALSE

-----------------------------------------------------------------------------
(* websocket_proxy.                                                        *)
WsAccept ==
  /\ wsPc = "idle"
  /\ wsPc' = "dial" /\ wsClient' = "open"
  /\ UNCHANGED <<upstream, pumps>>

WsConnect ==
  /\ wsPc = "dial"
  /\ wsPc' = "relay" /\ upstream' = "open" /\ pumps' = {"down", "up"}
  /\ UNCHANGED wsClient

(* Refused, unreachable or no handshake in 10 s: 1008 or 1011.             *)
WsRefused ==
  /\ wsPc = "dial"
  /\ wsPc' = "closed"
  /\ wsClient' = IF wsClient = "open" THEN "closed" ELSE wsClient
  /\ UNCHANGED <<upstream, pumps>>

WsClientLeaves ==
  /\ wsClient = "open"
  /\ wsClient' = "gone"
  /\ UNCHANGED <<wsPc, upstream, pumps>>

(* The service closes, or does not answer a ping.                          *)
WsUpstreamCloses ==
  /\ upstream = "open"
  /\ upstream' = "closed"
  /\ UNCHANGED <<wsPc, wsClient, pumps>>

(* A direction ends at once when its own side is gone, and at the next     *)
(* message when the other is.                                              *)
PumpEnds(p) ==
  /\ wsPc = "relay" /\ p \in pumps
  /\ CASE p = "up" -> wsClient = "gone" [] p = "down" -> upstream = "closed"
  /\ pumps' = pumps \ {p}
  /\ UNCHANGED <<wsPc, wsClient, upstream>>
PumpCannotSend(p) ==
  /\ wsPc = "relay" /\ p \in pumps
  /\ CASE p = "up" -> upstream = "closed" [] p = "down" -> wsClient = "gone"
  /\ pumps' = pumps \ {p}
  /\ UNCHANGED <<wsPc, wsClient, upstream>>

(* Mutant of FirstCompleted: the other direction is waited for.            *)
AllCompleted ==
  /\ wsPc = "relay" /\ pumps = {}
  /\ wsPc' = "closed" /\ pumps' = {} /\ upstream' = "closed"
  /\ wsClient' = IF wsClient = "open" THEN "closed" ELSE wsClient

(* The pending task is cancelled, the context manager closes the upstream, *)
(* and the server closes the socket of a handler that returned.            *)
FirstCompleted ==
  /\ wsPc = "relay" /\ pumps # {"down", "up"}
  /\ wsPc' = "closed" /\ pumps' = {} /\ upstream' = "closed"
  /\ wsClient' = IF wsClient = "open" THEN "closed" ELSE wsClient

WsEnv == WsAccept \/ WsClientLeaves \/ WsUpstreamCloses \/ \E p \in {"down", "up"} : PumpCannotSend(p)
WsStep == WsConnect \/ WsRefused \/ FirstCompleted \/ \E p \in {"down", "up"} : PumpEnds(p)
-----------------------------------------------------------------------------
(* ssh_terminal.  It ends by closing the browser's socket.                 *)
SshEnd ==
  /\ sshPc' = "done"
  /\ sshClient' = IF sshClient = "open" THEN "closed" ELSE sshClient

SshAccept ==
  /\ sshPc = "idle"
  /\ sshPc' = "await" /\ sshClient' = "open"
  /\ UNCHANGED <<conn, shell, tasks, stop>>

(* The token or the role is refused, asyncssh is not there, no connect     *)
(* message in 30 s, or one that lacks a host, a user or a usable key.      *)
SshRefuse ==
  /\ sshPc = "await"
  /\ SshEnd
  /\ UNCHANGED <<conn, shell, tasks, stop>>

SshDial ==
  /\ sshPc = "await"
  /\ sshPc' = "connect"
  /\ UNCHANGED <<sshClient, conn, shell, tasks, stop>>

(* asyncssh.connect and create_process.  A connection on which the process *)
(* cannot be created is closed if the host denied permission only.         *)
SshConnected ==
  /\ sshPc = "connect"
  /\ sshPc' = "relay" /\ conn' = "open" /\ shell' = "live" /\ tasks' = {"out", "in"}
  /\ UNCHANGED <<sshClient, stop>>
SshFails ==
  /\ sshPc = "connect"
  /\ conn' \in {"none", "closed", "left"}
  /\ SshEnd
  /\ UNCHANGED <<shell, tasks, stop>>

SshClientLeaves ==
  /\ sshClient = "open"
  /\ sshClient' = "gone"
  /\ UNCHANGED <<sshPc, conn, shell, tasks, stop>>

HostEnds ==
  /\ shell = "live"
  /\ shell' = "ended"
  /\ UNCHANGED <<sshPc, sshClient, conn, tasks, stop>>

TaskEnds(t) == tasks' = tasks \ {t} /\ stop' = TRUE
               /\ UNCHANGED <<sshPc, sshClient, conn, shell>>

(* _read_ssh: the end of the output, or output after stop_event.           *)
OutEnds == "out" \in tasks /\ shell = "ended" /\ TaskEnds("out")
HostPrints == "out" \in tasks /\ shell = "live" /\ stop /\ TaskEnds("out")

(* _read_ws: the browser has gone, or said disconnect.                     *)
InEnds == "in" \in tasks /\ sshClient = "gone" /\ TaskEnds("in")
InDisconnect == "in" \in tasks /\ sshClient = "open" /\ TaskEnds("in")

(* Mutant of InPoll: receive_text() without the timeout.                   *)
InForever == "in" \in tasks /\ stop /\ sshClient = "gone" /\ TaskEnds("in")

(* Every 60 s without a message it looks at stop_event.                    *)
InPoll == "in" \in tasks /\ stop /\ TaskEnds("in")

SshClose ==
  /\ sshPc = "relay" /\ tasks = {}
  /\ conn' = "closed" /\ shell' = "ended"
  /\ SshEnd
  /\ UNCHANGED <<tasks, stop>>

SshEnv == SshAccept \/ SshClientLeaves \/ HostEnds \/ HostPrints \/ InDisconnect
SshStep == SshRefuse \/ SshDial \/ SshConnected \/ SshFails \/ OutEnds \/ InEnds \/ InPoll \/ SshClose

RelayNext ==
  \/ (WsEnv \/ WsStep) /\ UNCHANGED sshVars
  \/ (SshEnv \/ SshStep) /\ UNCHANGED wsVars
=============================================================================
