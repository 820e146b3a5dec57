------------------------------- MODULE Gateway -------------------------------
(***************************************************************************)
(* The realtime gateway: the coroutines of realtime/routes/agents.py over  *)
(* the tables of ws_manager.ConnectionManager, interleaved at each await.  *)
(* It runs as several workers, each with tables of its own.  One agent is  *)
(* modelled, that may connect several times; what a command or an event    *)
(* says is left out, and so are the subscriptions to deployments, which    *)
(* work like those to devices.                                             *)
(***************************************************************************)
EXTENDS Integers, FiniteSets

CONSTANTS
  Workers,       \* uvicorn worker processes
  MaxSockets,    \* bound: connections the agent opens
  MaxDashboards, \* bound: connections of browsers
  MaxActors,     \* bound: connections of both kinds that take place
  MaxEvents,     \* bound: events sent by the agent
  MaxCommands    \* bound: commands published

ASSUME GatewayAssumption ==
  {MaxSockets, MaxDashboards, MaxActors, MaxEvents, MaxCommands} \subseteq Nat

None == 0
Sockets == 1..MaxSockets         \* numbered in the order of their arrival
Dashboards == 1..MaxDashboards   \* likewise
Users == Dashboards              \* at most one for each dashboard

VARIABLES
  worker,   \* the worker each socket is connected to
  home,     \* the worker each dashboard is connected to
  user,     \* the user each dashboard belongs to
  pc,       \* the coroutine of each agent socket
  up,       \* the agent's end of the socket is there
  closed,   \* sockets the gateway has sent a close for
  route,    \* agent_connections of each worker, for this agent
  conns,    \* the dashboards in dashboard_connections of each worker
  subs,     \* device_subscriptions of each worker, for this agent's device
  dash,     \* the coroutine of each dashboard
  frame,    \* the broadcast each coroutine is in the middle of
  sending,  \* the socket on which redis_subscriber awaits a send
  events, commands, unposted

vars == <<worker, home, user, pc, up, closed, route, conns, subs, dash, frame, sending,
          events, commands, unposted>>
tables == <<route, conns, subs>>
others == <<worker, home, user, events, commands, unposted>>

Live == {"accepted", "closing", "online", "receive", "event"}
(* dashboard_connections has a list for each user that is in it.  Lists    *)
(* are in the order of arrival, which is that of the numbers.              *)
Keys(w) == {user[d] : d \in conns[w]}
List(w, u) == {d \in conns[w] : user[d] = u}
Place(d, list) == Cardinality({e \in list : e <= d})

(* Removing from a list while it is iterated over shifts it, and a list    *)
(* that becomes empty is dropped with its key: an iteration that is under  *)
(* way may miss the others of the list, who are then no longer due.        *)
Shifted(w, gone) ==
  LET shrunk == {user[d] : d \in gone \cap conns[w]}
  IN [s \in Sockets |->
        IF worker[s] # w THEN frame[s]
        ELSE [frame[s] EXCEPT
                !.due = {d \in @ : user[d] \notin shrunk},
                !.cur = IF List(w, @) \subseteq gone THEN None ELSE @]]

NoFrame == [kind |-> "none", size |-> 0, left |-> {}, cur |-> None, next |-> 1,
            dead |-> {}, due |-> {}]

(* broadcast_to_dashboard begins to iterate over the live dictionary.      *)
Broadcast(kind, w) ==
  [NoFrame EXCEPT !.kind = kind, !.size = Cardinality(Keys(w)), !.left = Keys(w),
                  !.due = conns[w]]

Init ==
  /\ worker \in [Sockets -> Workers] /\ home \in [Dashboards -> Workers]
  /\ user \in [Dashboards -> Users] /\ \A d \in Dashboards : user[d] <= d
  /\ \E n \in 0..MaxSockets, m \in 0..MaxDashboards :
       /\ n + m <= MaxActors
       /\ pc = [s \in Sockets |-> IF s <= n THEN "new" ELSE "never"]
       /\ dash = [d \in Dashboards |-> IF d <= m THEN "new" ELSE "never"]
  /\ up = [s \in Sockets |-> TRUE] /\ closed = {}
  /\ route = [w \in Workers |-> None]
  /\ conns = [w \in Workers |-> {}]
  /\ subs = [w \in Workers |-> {}]
  /\ frame = [s \in Sockets |-> NoFrame]
  /\ sending = [w \in Workers |-> None]
  /\ events = 0 /\ commands = 0 /\ unposted = 0

Announce(s) ==
  /\ route' = [route EXCEPT ![worker[s]] = s]
  /\ pc' = [pc EXCEPT ![s] = "online"]
  /\ frame' = [frame EXCEPT ![s] = Broadcast("online", worker[s])]

(* connect_agent: accept, then close the socket it finds, then take its    *)
(* place; each await lets the others run.                                  *)
Accept(s) ==
  /\ pc[s] = "new" /\ up[s] /\ \A t \in 1..(s - 1) : pc[t] # "new"
  /\ pc' = [pc EXCEPT ![s] = "accepted"]
  /\ UNCHANGED <<tables, others, up, closed, dash, frame, sending>>

Register(s) ==
  /\ pc[s] = "accepted" /\ route[worker[s]] = None
  /\ Announce(s)
  /\ UNCHANGED <<others, conns, subs, up, closed, dash, sending>>

CloseOld(s) ==
  /\ pc[s] = "accepted" /\ route[worker[s]] # None
  /\ closed' = closed \cup {route[worker[s]]}
  /\ pc' = [pc EXCEPT ![s] = "closing"]
  /\ UNCHANGED <<tables, others, up, dash, frame, sending>>

Replace(s) ==
  /\ pc[s] = "closing"
  /\ Announce(s)
  /\ UNCHANGED <<others, conns, subs, up, closed, dash, sending>>

(* disconnect() of a set of dashboards.                                    *)
Forget(w, gone) ==
  /\ conns' = [conns EXCEPT ![w] = @ \ gone]
  /\ subs' = [subs EXCEPT ![w] = @ \ gone]

(* The dashboard at the position that the iteration over a list is at.     *)
Reached(s) == {d \in List(worker[s], frame[s].cur) :
                 Place(d, List(worker[s], frame[s].cur)) = frame[s].next}

(* Mutant of SendNext: a dead dashboard is removed on the spot.            *)
SendRemoving(s) ==
  \E d \in Reached(s) :
     /\ \/ /\ frame' = [frame EXCEPT ![s].next = @ + 1, ![s].due = @ \ {d}]
           /\ UNCHANGED <<conns, subs>>
        \/ /\ dash[d] = "lost"
           /\ Forget(worker[s], {d})
           /\ frame' = [frame EXCEPT ![s].next = @ + 1, ![s].due = @ \ {d},
                                  ![s].dead = @ \cup {d}]
     /\ UNCHANGED <<route, others, pc, up, closed, dash, sending>>

(* The next dashboard of the list: a send to one that is gone fails, or is *)
(* buffered.                                                               *)
SendNext(s) ==
  \E d \in Reached(s) :
     /\ \/ frame' = [frame EXCEPT ![s].next = @ + 1, ![s].due = @ \ {d}]
        \/ /\ dash[d] = "lost"
           /\ frame' = [frame EXCEPT ![s].next = @ + 1, ![s].due = @ \ {d},
                                  ![s].dead = @ \cup {d}]
     /\ UNCHANGED <<tables, others, pc, up, closed, dash, sending>>

(* The list is exhausted, and the dictionary yields its next user.         *)
ListEnded(s) == frame[s].next > Cardinality(List(worker[s], frame[s].cur))

NextUser(s) ==
  /\ frame[s].kind \notin {"none", "subs"} /\ ListEnded(s)
  /\ Cardinality(Keys(worker[s])) = frame[s].size
  /\ \E u \in frame[s].left \cap Keys(worker[s]) :
       frame' = [frame EXCEPT ![s].cur = u, ![s].next = 1, ![s].left = @ \ {u}]
  /\ UNCHANGED <<tables, others, pc, up, closed, dash, sending>>

(* What follows a broadcast that ran to its end.                           *)
After(s) == CASE frame[s].kind = "offline" -> "done"
              [] OTHER -> "receive"

(* The dictionary has no user left and has not changed its size.           *)
Completed(s) ==
  /\ frame[s].kind \notin {"none", "subs"} /\ ListEnded(s)
  /\ Cardinality(Keys(worker[s])) = frame[s].size
  /\ frame[s].left \cap Keys(worker[s]) = {}

BroadcastEnds(s) ==
  /\ Completed(s)
  /\ Forget(worker[s], frame[s].dead)
  /\ LET shifted == Shifted(worker[s], frame[s].dead)
     IN \/ /\ frame' = [shifted EXCEPT ![s] = NoFrame]
           /\ pc' = [pc EXCEPT ![s] = After(s)]
        \/ /\ frame[s].kind = "event"
           /\ frame' = [shifted EXCEPT ![s] =
                [NoFrame EXCEPT !.kind = "subs", !.left = subs'[worker[s]],
                                !.size = Cardinality(subs'[worker[s]])]]
           /\ UNCHANGED pc
  /\ UNCHANGED <<others, route, up, closed, dash, sending>>

(* broadcast_to_device_subscribers, for the events of an installation.     *)
SubsNext(s) ==
  /\ frame[s].kind = "subs" /\ Cardinality(subs[worker[s]]) = frame[s].size
  /\ \E d \in frame[s].left \cap subs[worker[s]] :
       frame' = [frame EXCEPT ![s].left = @ \ {d},
                              ![s].dead = IF dash[d] = "lost" THEN @ \cup {d} ELSE @]
  /\ UNCHANGED <<tables, others, pc, up, closed, dash, sending>>

SubsEnd(s) ==
  /\ frame[s].kind = "subs" /\ Cardinality(subs[worker[s]]) = frame[s].size
  /\ frame[s].left \cap subs[worker[s]] = {}
  /\ subs' = [subs EXCEPT ![worker[s]] = @ \ frame[s].dead]
  /\ frame' = [frame EXCEPT ![s] = NoFrame]
  /\ pc' = [pc EXCEPT ![s] = "receive"]
  /\ UNCHANGED <<others, route, conns, up, closed, dash, sending>>

(* "dictionary changed size during iteration": caught in the event loop,   *)
(* where it skips the post; it ends the coroutine in an announcement.      *)
Raises(s) ==
  /\ \/ /\ frame[s].kind \notin {"none", "subs"} /\ ListEnded(s)
        /\ Cardinality(Keys(worker[s])) # frame[s].size
     \/ frame[s].kind = "subs" /\ Cardinality(subs[worker[s]]) # frame[s].size
  /\ frame' = [frame EXCEPT ![s] = NoFrame]
  /\ IF pc[s] = "event"
     THEN pc' = [pc EXCEPT ![s] = "receive"] /\ unposted' = unposted + 1
     ELSE pc' = [pc EXCEPT ![s] = "crashed"] /\ UNCHANGED unposted
  /\ UNCHANGED <<tables, worker, home, user, events, commands, up, closed, dash, sending>>

(* The receive loop.                                                       *)
Event(s) ==
  /\ pc[s] = "receive" /\ up[s] /\ s \notin closed /\ events < MaxEvents
  /\ events' = events + 1
  /\ pc' = [pc EXCEPT ![s] = "event"]
  /\ frame' = [frame EXCEPT ![s] = Broadcast("event", worker[s])]
  /\ UNCHANGED <<tables, worker, home, user, commands, unposted, up, closed, dash, sending>>

(* Mutant of Leave: the entry is deleted without looking whose it is.      *)
LeaveUnchecked(s) ==
  /\ pc[s] = "receive" /\ (~up[s] \/ s \in closed)
  /\ route' = [route EXCEPT ![worker[s]] = None]
  /\ pc' = [pc EXCEPT ![s] = "offline"]
  /\ frame' = [frame EXCEPT ![s] = Broadcast("offline", worker[s])]
  /\ UNCHANGED <<others, conns, subs, up, closed, dash, sending>>

(* Mutant of Leave: the entry is left to the next connection.              *)
LeaveRegistered(s) ==
  /\ pc[s] = "receive" /\ (~up[s] \/ s \in closed)
  /\ pc' = [pc EXCEPT ![s] = "offline"]
  /\ frame' = [frame EXCEPT ![s] = Broadcast("offline", worker[s])]
  /\ UNCHANGED <<tables, others, up, closed, dash, sending>>

(* WebSocketDisconnect: disconnect() removes the entry if it is this       *)
(* socket's, and agent_offline is announced whoever is connected.          *)
Leave(s) ==
  /\ pc[s] = "receive" /\ (~up[s] \/ s \in closed)
  /\ route' = [w \in Workers |-> IF w = worker[s] /\ route[w] = s THEN None ELSE route[w]]
  /\ pc' = [pc EXCEPT ![s] = "offline"]
  /\ frame' = [frame EXCEPT ![s] = Broadcast("offline", worker[s])]
  /\ UNCHANGED <<others, conns, subs, up, closed, dash, sending>>

(* To receive on a socket that the gateway has closed is a RuntimeError.   *)
ReceiveClosed(s) ==
  /\ pc[s] = "receive" /\ s \in closed
  /\ pc' = [pc EXCEPT ![s] = "crashed"]
  /\ UNCHANGED <<tables, others, up, closed, dash, frame, sending>>

PeerGone(s) ==
  /\ up[s] /\ pc[s] \notin {"never", "new"}
  /\ up' = [up EXCEPT ![s] = FALSE]
  /\ UNCHANGED <<tables, others, pc, closed, dash, frame, sending>>

(* A command reaches redis_subscriber of every worker, one at a time.      *)
CommandBegins(w) ==
  /\ sending[w] = None /\ route[w] # None /\ commands < MaxCommands
  /\ commands' = commands + 1
  /\ sending' = [sending EXCEPT ![w] = route[w]]
  /\ UNCHANGED <<tables, worker, home, user, events, unposted, pc, up, closed, dash, frame>>

CommandSent(w) ==
  /\ sending[w] # None /\ sending[w] \notin closed
  /\ sending' = [sending EXCEPT ![w] = None]
  /\ UNCHANGED <<tables, others, pc, up, closed, dash, frame>>

(* send_to_agent disconnects the socket that is registered now; without    *)
(* one it is a KeyError, that is caught and logged.                        *)
CommandFails(w) ==
  /\ sending[w] # None /\ (sending[w] \in closed \/ ~up[sending[w]])
  /\ sending' = [sending EXCEPT ![w] = None]
  /\ route' = [route EXCEPT ![w] = None]
  /\ UNCHANGED <<others, conns, subs, pc, up, closed, dash, frame>>

(* The dashboards.                                                         *)
DashboardConnects(d) ==
  /\ dash[d] = "new" /\ \A e \in 1..(d - 1) : dash[e] # "new"
  /\ dash' = [dash EXCEPT ![d] = "on"]
  /\ conns' = [conns EXCEPT ![home[d]] = @ \cup {d}]
  /\ UNCHANGED <<others, route, subs, pc, up, closed, frame, sending>>

Subscribe(d) ==
  /\ dash[d] \in {"on", "lost"}
  /\ \/ subs' = [subs EXCEPT ![home[d]] = @ \cup {d}]
     \/ subs' = [subs EXCEPT ![home[d]] = @ \ {d}]
  /\ UNCHANGED <<others, route, conns, pc, up, closed, dash, frame, sending>>

DashboardLost(d) ==
  /\ dash[d] = "on"
  /\ dash' = [dash EXCEPT ![d] = "lost"]
  /\ UNCHANGED <<tables, others, pc, up, closed, frame, sending>>

DashboardLeaves(d) ==
  /\ dash[d] = "lost"
  /\ dash' = [dash EXCEPT ![d] = "gone"]
  /\ Forget(home[d], {d})
  /\ frame' = Shifted(home[d], {d})
  /\ UNCHANGED <<others, route, pc, up, closed, sending>>

Handler(s) ==
  \/ Accept(s) \/ Register(s) \/ CloseOld(s) \/ Replace(s)
  \/ SendNext(s) \/ NextUser(s) \/ BroadcastEnds(s) \/ SubsNext(s) \/ SubsEnd(s)
  \/ Raises(s) \/ Leave(s) \/ ReceiveClosed(s)

Next ==
  \/ \E s \in Sockets : Handler(s) \/ Event(s) \/ PeerGone(s)
  \/ \E w \in Workers : CommandBegins(w) \/ CommandSent(w) \/ CommandFails(w)
  \/ \E d \in Dashboards : \/ DashboardConnects(d) \/ Subscribe(d)
                           \/ DashboardLost(d) \/ DashboardLeaves(d)

(* The event loop runs every coroutine that is ready.                      *)
Fairness == \A s \in Sockets : WF_vars(Handler(s))

Spec == Init /\ [][Next]_vars
FairSpec == Spec /\ Fairness

-----------------------------------------------------------------------------
(* A registered socket has a coroutine that will remove it, but for one    *)
(* that was interrupted while it announced the agent (agents.py:88 is      *)
(* outside the try), or is being replaced.                                 *)
RoutedIsServed ==
  \A w \in Workers, s \in Sockets :
    route[w] = s =>
      \/ pc[s] \in {"online", "receive", "event"}
      \/ /\ pc[s] = "crashed"
         /\ s \in closed => \E t \in Sockets : pc[t] = "closing" /\ worker[t] = w

(* A healthy socket loses its registration without a successor in one way  *)
(* only: a send that failed on the socket before it.                       *)
HealthyKeepsRoute ==
  [][\A w \in Workers : LET s == route[w] IN
       (s # None /\ route'[w] = None /\ up[s] /\ s \notin closed)
          => sending[w] \notin {None, s}]_vars

(* A broadcast that ends without an exception has been sent to every       *)
(* dashboard that was there from its beginning to its end, unless another  *)
(* one of the same user left (its removal shifts the list).                *)
BroadcastReachesAll ==
  \A s \in Sockets : Completed(s) => frame[s].due = {}

(* The registration of a socket whose agent is gone does not stay.         *)
DeadSocketsLeave ==
  \A w \in Workers, s \in Sockets :
    (route[w] = s /\ ~up[s]) ~> (route[w] # s \/ pc[s] = "crashed")
=============================================================================
