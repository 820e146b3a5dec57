-------------------------------- MODULE Edges --------------------------------
(***************************************************************************)
(* The parts at the two edges of the system: Bff and Relays, which face    *)
(* the browsers, Lanes and the scanners, which face a device's operating   *)
(* system; and the plan of a deployment's waves, computed in one step.     *)
(* They share no variable, so that a behaviour is of one of them.          *)
(***************************************************************************)
EXTENDS Bff, Relays, Lanes, WavePlanning

VARIABLE part      \* the part the behaviour is of

vars == <<part, bffVars, relayVars, laneVars, planVars>>

(* The scanners may find two tools in any state.                           *)
Healthy == [p \in Platforms |-> {{}}]
Ailing == [p \in Platforms |->
             {i \in {{<<t, x>>, <<u, y>>} : t, u \in Tools(p), x, y \in Outcomes} :
                \A a, b \in i : a[1] = b[1] => a = b}]

Init ==
  /\ part \in {"bff", "relays", "lanes", "scan", "plan"}
  /\ BffInit /\ RelayInit
  /\ IF part = "scan" THEN LaneInit(Ailing) ELSE LaneInit(Healthy)
  /\ part # "lanes" => pools = <<CHOOSE n \in Widths : TRUE>>
  /\ part \notin {"lanes", "scan"} => os = CHOOSE p \in Platforms : TRUE
  /\ IF part = "plan" THEN PlanInit ELSE NoPlan

Next ==
  /\ UNCHANGED part
  /\ \/ part = "bff" /\ BffNext /\ UNCHANGED <<relayVars, laneVars, planVars>>
     \/ part = "relays" /\ RelayNext /\ UNCHANGED <<bffVars, laneVars, planVars>>
     \/ part = "lanes" /\ LaneNext /\ UNCHANGED <<bffVars, relayVars, planVars>>
     \/ part = "scan" /\ ScanNext /\ UNCHANGED <<bffVars, relayVars, planVars>>
     \/ part = "plan" /\ PlanNext /\ UNCHANGED <<bffVars, relayVars, laneVars>>

In(p, A) == part = p /\ A /\ UNCHANGED part

(* The event loops run what is ready, a tool times out, and so does a      *)
(* handshake; neither browsers, hosts nor services are fair.               *)
Fairness ==
  /\ WF_vars(In("relays", WsStep /\ UNCHANGED <<bffVars, sshVars, laneVars, planVars>>))
  /\ WF_vars(In("relays", SshStep /\ UNCHANGED <<bffVars, wsVars, laneVars, planVars>>))
  /\ WF_vars(In("lanes", SlowLoop /\ UNCHANGED <<bffVars, relayVars, planVars>>))
  /\ \A w \in Owners :
       /\ WF_vars(In("lanes", ThreadTakes(w) /\ UNCHANGED <<bffVars, relayVars, planVars>>))
       /\ WF_vars(In("lanes", (Collect(w) \/ Deliver(w)) /\ UNCHANGED <<bffVars, relayVars, planVars>>))

Spec == Init /\ [][Next]_vars /\ Fairness
-----------------------------------------------------------------------------
(* A list served from the cache shows what its user has been told was      *)
(* changed, unless it was read before the change and stored after it, or   *)
(* its deletion failed: devices.py deletes after Django has answered.      *)
OwnWritesSeen ==
  \A u \in Users : (Cached(u, "list") /\ cache[u]["list"].v < told[u]) => cache[u]["list"].excused

(* The limiter passes no more than its limit in the window of the clock,   *)
(* and refuses only when that many have passed or been lost in theirs: no  *)
(* counter outlives its window, even one whose TTL was never set.          *)
LimiterExact ==
  /\ \A k \in Kinds : passed[k][WindowOf(now)] <= Limit
  /\ \A x \in refused :
       passed[x[1]][x[2]] + errors
         + Cardinality({r \in Calls : call[r].pc = "expire" /\ call[r].window = x[2]}) >= Limit

(* No relay is left running with an end that has closed.  Of the shell's   *)
(* ends only the host's counts: the relay whose browser left waits for the *)
(* next output of the shell.  A relay that ended has closed its connection.*)
RelaysEnd ==
  <>[](/\ wsPc = "relay" => wsClient = "open" /\ upstream = "open"
       /\ sshPc = "relay" => shell = "live"
       /\ sshPc = "done" /\ shell = "ended" => conn = "closed")

(* What the server has of a device ends up as what a collection would find *)
(* now, section by section, although a tool fails for good and the pool    *)
(* was replaced while a collection ran.                                    *)
DataConverges ==
  <>[](part = "lanes" => server = [seen |-> version, facts |-> facts.has])

(* The server's data of a device does not go back in time while            *)
(* slow_lane_concurrency stays the 1 the agent was started with; a wider   *)
(* pool runs the lane's collection and the one of a command side by side.  *)
SameWidthKeepsOrder == [][server'.seen < server.seen => resized \/ pools[1] # 1]_vars

(* What the agent's collectors find on a device, a scan that was saved has *)
(* found too: the scanners' copies have not fallen behind.                 *)
CollectorsAgree ==
  report # NoReport =>
    LET agent == Collected(os, Behaviour(os, ill))
        scan == ScanSections(report.by, os, Behaviour(os, ill)) IN
    \A s \in DOMAIN agent \cap DOMAIN scan : agent[s] = "facts" => s \in report.facts
=============================================================================
