---------------------------- MODULE GatewayProofs ----------------------------
(***************************************************************************)
(* What is proved of the gateway's tables, for any number of workers, of   *)
(* connections of the agent and of dashboards, and any events and commands.*)
(***************************************************************************)
EXTENDS Gateway, TLAPS, FiniteSetTheorems

-----------------------------------------------------------------------------
(* The inductive invariant *)

Coroutines == {"never", "new", "accepted", "closing", "online", "receive", "event",
               "offline", "done", "crashed"}

FrameKinds == {"none", "online", "event", "offline", "subs"}

Frames == [kind : FrameKinds, size : Nat, left : SUBSET Dashboards,
           cur : Users \cup {None}, next : Nat \ {0},
           dead : SUBSET Dashboards, due : SUBSET Dashboards]

GatewayTypeOK ==
  /\ worker \in [Sockets -> Workers] /\ home \in [Dashboards -> Workers]
  /\ user \in [Dashboards -> Users]
  /\ pc \in [Sockets -> Coroutines]
  /\ closed \subseteq Sockets
  /\ route \in [Workers -> Sockets \cup {None}]
  /\ conns \in [Workers -> SUBSET Dashboards]
  /\ subs \in [Workers -> SUBSET Dashboards]
  /\ frame \in [Sockets -> Frames]
  /\ sending \in [Workers -> Sockets \cup {None}]

(* A coroutine broadcasts while it announces its agent, or handles an      *)
(* event; what it announces at the end is that the agent is offline.       *)
Broadcasting ==
  \A s \in Sockets :
    /\ frame[s].kind # "none" => pc[s] \in {"online", "event", "offline"}
    /\ frame[s].kind = "offline" => pc[s] = "offline"
    /\ frame[s].kind \in {"none", "subs"} => frame[s].due = {}

(* The registered socket is one that has been announced to the table: it   *)
(* was never itself waiting for the close of another one since.            *)
Routed ==
  \A w \in Workers, s \in Sockets :
    route[w] = s => worker[s] = w /\ pc[s] \in {"online", "receive", "event", "crashed"}

(* A socket is closed by the connection that will take its place, and only *)
(* when it had been registered.                                            *)
ClosedFor ==
  /\ \A w \in Workers, s \in closed :
       route[w] = s => \E t \in Sockets : pc[t] = "closing" /\ worker[t] = w
  /\ \A s \in closed : pc[s] \notin {"never", "new", "accepted", "closing"}

(* Who is still due in a broadcast is ahead of its iteration: in the list  *)
(* that it goes through, not before the position it is at, or in a list    *)
(* of a user yet to come.                                                  *)
Ahead(s, d) ==
  \/ user[d] \in frame[s].left
  \/ /\ user[d] = frame[s].cur
     /\ Place(d, List(worker[s], frame[s].cur)) >= frame[s].next

DueAhead ==
  \A s \in Sockets : \A d \in frame[s].due : d \in conns[worker[s]] /\ Ahead(s, d)

GatewayInv == GatewayTypeOK /\ Broadcasting /\ Routed /\ ClosedFor /\ DueAhead

-----------------------------------------------------------------------------
(* Positions in a list *)

LEMMA DashboardsFinite ==
    IsFiniteSet(Dashboards) /\ \A S \in SUBSET Dashboards : IsFiniteSet(S) /\ S \subseteq Nat
<1>1. MaxDashboards \in Nat
  BY GatewayAssumption
<1>2. IsFiniteSet(Dashboards)
  BY <1>1, FS_Interval DEF Dashboards
<1>3. Dashboards \subseteq Nat
  BY <1>1 DEF Dashboards
<1> QED
  BY <1>2, <1>3, FS_Subset

\* Lists are finite, and the positions of their elements are numbers.
LEMMA PlaceType ==
    ASSUME NEW list \in SUBSET Dashboards, NEW d \in Dashboards
    PROVE  /\ Cardinality(list) \in Nat /\ Place(d, list) \in Nat
           /\ d \in list => 1 <= Place(d, list) /\ Place(d, list) <= Cardinality(list)
<1> DEFINE upTo == {e \in list : e <= d}
<1>1. IsFiniteSet(Dashboards)
  BY DashboardsFinite
<1>2. /\ IsFiniteSet(list) /\ IsFiniteSet(upTo)
      /\ Cardinality(list) \in Nat /\ Cardinality(upTo) \in Nat
      /\ Cardinality(upTo) <= Cardinality(list)
  <2>1. IsFiniteSet(list) /\ upTo \subseteq list
    BY <1>1, FS_Subset
  <2> QED
    BY <2>1, FS_Subset, FS_CardinalityType
<1>3. ASSUME d \in list PROVE Cardinality(upTo) # 0
  <2>1. d \in upTo
    BY <1>3 DEF Dashboards
  <2> QED
    BY <1>2, <2>1, FS_EmptySet
<1> QED
  BY <1>2, <1>3 DEF Place

\* Whoever joins a list leaves nobody at a lower position.
LEMMA PlaceGrows ==
    ASSUME NEW more \in SUBSET Dashboards, NEW list \in SUBSET more, NEW d \in Dashboards
    PROVE  Place(d, list) <= Place(d, more)
<1> DEFINE A == {e \in list : e <= d}
           B == {e \in more : e <= d}
<1>1. IsFiniteSet(B) /\ A \subseteq B
  BY DashboardsFinite
<1>2. Cardinality(A) <= Cardinality(B)
  <2> HIDE DEF A, B
  <2> QED
    BY <1>1, FS_Subset
<1> QED
  BY <1>2 DEF Place

\* One position holds one dashboard.
LEMMA PlaceInjective ==
    ASSUME NEW list \in SUBSET Dashboards, NEW d \in list, NEW e \in list,
           Place(d, list) = Place(e, list)
    PROVE  d = e
<1>1. \A x \in list : x \in Nat
  BY DashboardsFinite
<1>2. ASSUME NEW a \in list, NEW b \in list, a < b PROVE Place(a, list) # Place(b, list)
  <2> DEFINE A == {x \in list : x <= a}
             B == {x \in list : x <= b}
  <2>1. a \in Nat /\ b \in Nat /\ \A x \in list : x \in Nat
    BY <1>1
  <2>2. A \subseteq B /\ b \in B /\ b \notin A
    <3>1. b <= b /\ ~(b <= a)
      BY <1>2, <2>1
    <3>2. \A x \in list : x <= a => x <= b
      BY <1>2, <2>1
    <3> QED
      BY <3>1, <3>2
  <2>3. IsFiniteSet(B)
    <3>1. B \in SUBSET Dashboards
      OBVIOUS
    <3> QED
      BY <3>1, DashboardsFinite
  <2>4. Cardinality(A) # Cardinality(B)
    <3> HIDE DEF A, B
    <3> QED
      BY <2>2, <2>3, FS_Subset
  <2> QED
    BY <2>4 DEF Place
<1>3. d \in Nat /\ e \in Nat
  BY <1>1
<1>4. ~(d < e) /\ ~(e < d)
  BY <1>2
<1> QED
  BY <1>3, <1>4
-----------------------------------------------------------------------------
(* Frames *)

LEMMA Ranges == None \notin Sockets /\ None \notin Users /\ Users = Dashboards /\ None = 0
BY GatewayAssumption DEF None, Sockets, Users, Dashboards

LEMMA KeysType ==
    ASSUME GatewayTypeOK, NEW w \in Workers
    PROVE  /\ Keys(w) \subseteq Dashboards /\ Cardinality(Keys(w)) \in Nat
           /\ \A u : List(w, u) \in SUBSET Dashboards /\ List(w, u) \subseteq conns[w]
           /\ Cardinality(subs[w]) \in Nat
<1>1. conns[w] \in SUBSET Dashboards /\ user \in [Dashboards -> Users] /\ subs[w] \in SUBSET Dashboards
  BY DEF GatewayTypeOK
<1>2. Keys(w) \in SUBSET Dashboards
  BY <1>1, Ranges DEF Keys
<1>3. \A S \in SUBSET Dashboards : Cardinality(S) \in Nat
  BY DashboardsFinite, FS_CardinalityType
<1> QED
  BY <1>1, <1>2, <1>3 DEF List

\* A frame that begins, or has ended.
LEMMA NewFrames ==
    ASSUME GatewayTypeOK
    PROVE  /\ NoFrame \in Frames
           /\ NoFrame.kind = "none" /\ NoFrame.due = {}
           /\ \A w \in Workers, k \in {"online", "event", "offline"} :
                /\ Broadcast(k, w) \in Frames
                /\ Broadcast(k, w).kind = k
                /\ Broadcast(k, w).due = conns[w] /\ Broadcast(k, w).left = Keys(w)
<1>1. NoFrame \in Frames
  BY DEF NoFrame, Frames, FrameKinds
<1>2. NoFrame.kind = "none" /\ NoFrame.due = {}
  BY DEF NoFrame
<1>3. ASSUME NEW w \in Workers, NEW k \in {"online", "event", "offline"}
      PROVE  /\ Broadcast(k, w) \in Frames
             /\ Broadcast(k, w).kind = k
             /\ Broadcast(k, w).due = conns[w] /\ Broadcast(k, w).left = Keys(w)
  <2>1. conns[w] \in SUBSET Dashboards
    BY DEF GatewayTypeOK
  <2>2. Keys(w) \in SUBSET Dashboards /\ Cardinality(Keys(w)) \in Nat
    BY KeysType
  <2> QED
    <3> DEFINE n == Cardinality(Keys(w))
    <3>1. n \in Nat
      BY <2>2
    <3>2. k \in FrameKinds
      BY DEF FrameKinds
    <3>3. Broadcast(k, w) = [NoFrame EXCEPT !.kind = k, !.size = n, !.left = Keys(w),
                                            !.due = conns[w]]
      BY DEF Broadcast
    <3> HIDE DEF n
    <3> QED
      BY <1>1, <2>1, <2>2, <3>1, <3>2, <3>3 DEF Frames
<1> QED
  BY <1>1, <1>2, <1>3

\* Removals leave the frames what they are, but for who is due and whose list
\* it is that is being gone through.
LEMMA ShiftedFrames ==
    ASSUME GatewayTypeOK, NEW w \in Workers, NEW gone \in SUBSET Dashboards
    PROVE  /\ Shifted(w, gone) \in [Sockets -> Frames]
           /\ \A s \in Sockets :
                LET g == Shifted(w, gone)[s]
                IN  /\ g.kind = frame[s].kind /\ g.left = frame[s].left
                    /\ g.next = frame[s].next
                    /\ g.due \subseteq frame[s].due
                    /\ worker[s] # w => g = frame[s]
                    /\ worker[s] = w =>
                         /\ \A d \in g.due, e \in gone \cap conns[w] : user[d] # user[e]
                         /\ \/ g.cur = frame[s].cur
                            \/ g.cur = None /\ List(w, frame[s].cur) \subseteq gone
<1> DEFINE shrunk == {user[d] : d \in gone \cap conns[w]}
           G(s) == [frame[s] EXCEPT
                      !.due = {d \in @ : user[d] \notin shrunk},
                      !.cur = IF List(w, @) \subseteq gone THEN None ELSE @]
<1>1. Shifted(w, gone) = [s \in Sockets |-> IF worker[s] # w THEN frame[s] ELSE G(s)]
  BY DEF Shifted
<1>2. ASSUME NEW s \in Sockets
      PROVE  /\ frame[s] \in Frames
             /\ G(s) \in Frames
             /\ G(s).kind = frame[s].kind /\ G(s).left = frame[s].left
             /\ G(s).next = frame[s].next
             /\ G(s).due = {d \in frame[s].due : user[d] \notin shrunk}
             /\ G(s).cur = IF List(w, frame[s].cur) \subseteq gone THEN None ELSE frame[s].cur
  <2>1. frame[s] \in Frames
    BY DEF GatewayTypeOK
  <2> HIDE DEF shrunk
  <2> QED
    BY <2>1 DEF Frames
<1> HIDE DEF G
<1>3. \A s \in Sockets : Shifted(w, gone)[s] = IF worker[s] # w THEN frame[s] ELSE G(s)
  BY <1>1
<1>4. Shifted(w, gone) \in [Sockets -> Frames]
  BY <1>1, <1>2
<1> QED
  BY <1>2, <1>3, <1>4
-----------------------------------------------------------------------------
(* Types *)

\* What a step may set in a frame.
LEMMA FrameFields ==
    ASSUME NEW f \in Frames, NEW left \in SUBSET Dashboards, NEW cur \in Users \cup {None},
           NEW next \in Nat \ {0}, NEW dead \in SUBSET Dashboards, NEW due \in SUBSET Dashboards
    PROVE  /\ [f EXCEPT !.next = next, !.due = due] \in Frames
           /\ [f EXCEPT !.next = next, !.due = due, !.dead = dead] \in Frames
           /\ [f EXCEPT !.cur = cur, !.next = next, !.left = left] \in Frames
           /\ [f EXCEPT !.left = left, !.dead = dead] \in Frames
BY DEF Frames

\* A send moves the iteration on by one.
LEMMA SendFrame ==
    ASSUME GatewayTypeOK, NEW s \in Sockets, SendNext(s)
    PROVE  \E d \in List(worker[s], frame[s].cur), f \in Frames :
              /\ Place(d, List(worker[s], frame[s].cur)) = frame[s].next
              /\ frame' = [frame EXCEPT ![s] = f]
              /\ f.kind = frame[s].kind /\ f.left = frame[s].left /\ f.cur = frame[s].cur
              /\ f.next = frame[s].next + 1 /\ f.due = frame[s].due \ {d}
<1>1. PICK d \in Reached(s) :
        \/ frame' = [frame EXCEPT ![s].next = @ + 1, ![s].due = @ \ {d}]
        \/ frame' = [frame EXCEPT ![s].next = @ + 1, ![s].due = @ \ {d},
                                  ![s].dead = @ \cup {d}]
  BY DEF SendNext
<1>2. worker[s] \in Workers /\ frame[s] \in Frames /\ frame \in [Sockets -> Frames]
  BY DEF GatewayTypeOK
<1>3. /\ d \in List(worker[s], frame[s].cur) /\ d \in Dashboards
      /\ Place(d, List(worker[s], frame[s].cur)) = frame[s].next
  BY <1>2, KeysType DEF Reached
<1> DEFINE f == [frame[s] EXCEPT !.next = @ + 1, !.due = @ \ {d}]
           g == [frame[s] EXCEPT !.next = @ + 1, !.due = @ \ {d}, !.dead = @ \cup {d}]
<1>0. /\ frame[s].next + 1 \in Nat \ {0} /\ frame[s].due \ {d} \in SUBSET Dashboards
      /\ frame[s].dead \cup {d} \in SUBSET Dashboards
  BY <1>2, <1>3 DEF Frames
<1>4. /\ f \in Frames
      /\ f.kind = frame[s].kind /\ f.left = frame[s].left /\ f.cur = frame[s].cur
      /\ f.next = frame[s].next + 1 /\ f.due = frame[s].due \ {d}
  <2>1. f \in Frames
    BY <1>0, <1>2, FrameFields
  <2> QED
    BY <1>2, <2>1 DEF Frames
<1>5. /\ g \in Frames
      /\ g.kind = frame[s].kind /\ g.left = frame[s].left /\ g.cur = frame[s].cur
      /\ g.next = frame[s].next + 1 /\ g.due = frame[s].due \ {d}
  <2>1. g \in Frames
    BY <1>0, <1>2, FrameFields
  <2> QED
    BY <1>2, <2>1 DEF Frames
<1>6. CASE frame' = [frame EXCEPT ![s].next = @ + 1, ![s].due = @ \ {d}]
  <2>1. frame' = [frame EXCEPT ![s] = f]
    BY <1>2, <1>6
  <2> QED
    BY <1>3, <1>4, <2>1
<1>7. CASE frame' = [frame EXCEPT ![s].next = @ + 1, ![s].due = @ \ {d},
                                  ![s].dead = @ \cup {d}]
  <2>1. frame' = [frame EXCEPT ![s] = g]
    BY <1>2, <1>7
  <2> QED
    BY <1>3, <1>5, <2>1
<1> QED
  BY <1>1, <1>6, <1>7

\* The dictionary yields a user who was not there yet.
LEMMA NextFrame ==
    ASSUME GatewayTypeOK, NEW s \in Sockets, NextUser(s)
    PROVE  \E u \in Users, f \in Frames :
              /\ frame' = [frame EXCEPT ![s] = f]
              /\ f.kind = frame[s].kind /\ f.left = frame[s].left \ {u} /\ f.cur = u
              /\ f.next = 1 /\ f.due = frame[s].due
<1>1. PICK u \in frame[s].left \cap Keys(worker[s]) :
        frame' = [frame EXCEPT ![s].cur = u, ![s].next = 1, ![s].left = @ \ {u}]
  BY DEF NextUser
<1>2. frame[s] \in Frames /\ frame \in [Sockets -> Frames]
  BY DEF GatewayTypeOK
<1>3. u \in Users
  BY <1>2, Ranges DEF Frames
<1> DEFINE f == [frame[s] EXCEPT !.cur = u, !.next = 1, !.left = @ \ {u}]
<1>4. /\ f \in Frames
      /\ f.kind = frame[s].kind /\ f.left = frame[s].left \ {u} /\ f.cur = u
      /\ f.next = 1 /\ f.due = frame[s].due
  <2>1. frame[s].left \ {u} \in SUBSET Dashboards /\ 1 \in Nat \ {0}
    BY <1>2 DEF Frames
  <2>2. f \in Frames
    BY <1>2, <1>3, <2>1, FrameFields
  <2> QED
    BY <1>2, <2>2 DEF Frames
<1>5. frame' = [frame EXCEPT ![s] = f]
  BY <1>1, <1>2
<1> QED
  BY <1>3, <1>4, <1>5

\* What broadcast_to_device_subscribers does to its frame.
LEMMA SubsFrame ==
    ASSUME GatewayTypeOK, NEW s \in Sockets, SubsNext(s)
    PROVE  \E f \in Frames :
              frame' = [frame EXCEPT ![s] = f] /\ f.kind = frame[s].kind /\ f.due = frame[s].due
<1>1. PICK d \in frame[s].left \cap subs[worker[s]] :
       frame' = [frame EXCEPT ![s].left = @ \ {d},
                              ![s].dead = IF dash[d] = "lost" THEN @ \cup {d} ELSE @]
  BY DEF SubsNext
<1>2. frame[s] \in Frames /\ frame \in [Sockets -> Frames]
  BY DEF GatewayTypeOK
<1>3. d \in Dashboards
  BY <1>2 DEF Frames
<1> DEFINE f == [frame[s] EXCEPT !.left = @ \ {d},
                                 !.dead = IF dash[d] = "lost" THEN @ \cup {d} ELSE @]
<1>4. f \in Frames /\ f.kind = frame[s].kind /\ f.due = frame[s].due
  BY <1>2, <1>3 DEF Frames
<1>5. frame' = [frame EXCEPT ![s] = f]
  BY <1>1, <1>2
<1> QED
  BY <1>4, <1>5

\* A broadcast ends: dead dashboards are forgotten, the others' frames shift.
LEMMA EndFrames ==
    ASSUME GatewayTypeOK, NEW s \in Sockets, BroadcastEnds(s)
    PROVE  LET w == worker[s]
               gone == frame[s].dead
           IN  /\ frame' \in [Sockets -> Frames]
               /\ \A t \in Sockets : t # s => frame'[t] = Shifted(w, gone)[t]
               /\ frame'[s].due = {}
               /\ \/ frame'[s].kind = "none" /\ pc' = [pc EXCEPT ![s] = After(s)]
                  \/ /\ frame[s].kind = "event" /\ frame'[s].kind = "subs" /\ pc' = pc
               /\ gone \in SUBSET Dashboards
               /\ conns' = [conns EXCEPT ![w] = @ \ gone]
               /\ subs' = [subs EXCEPT ![w] = @ \ gone]
<1> DEFINE w == worker[s]
           gone == frame[s].dead
           shifted == Shifted(w, gone)
           follow == [NoFrame EXCEPT !.kind = "subs", !.left = subs'[w],
                                     !.size = Cardinality(subs'[w])]
<1>1. /\ w \in Workers /\ frame[s] \in Frames /\ frame \in [Sockets -> Frames]
      /\ subs \in [Workers -> SUBSET Dashboards]
  BY DEF GatewayTypeOK
<1>2. gone \in SUBSET Dashboards
  BY <1>1 DEF Frames
<1>3. shifted \in [Sockets -> Frames]
  BY <1>1, <1>2, ShiftedFrames
<1>4. /\ conns' = [conns EXCEPT ![w] = @ \ gone]
      /\ subs' = [subs EXCEPT ![w] = @ \ gone]
  BY DEF BroadcastEnds, Forget
<1>5. subs'[w] \in SUBSET Dashboards /\ Cardinality(subs'[w]) \in Nat
  <2>1. subs'[w] \in SUBSET Dashboards
    BY <1>1, <1>4
  <2> QED
    BY <2>1, DashboardsFinite, FS_CardinalityType
<1>6. /\ follow \in Frames /\ follow.kind = "subs" /\ follow.due = {}
      /\ NoFrame \in Frames /\ NoFrame.kind = "none" /\ NoFrame.due = {}
  <2>1. NoFrame \in Frames /\ NoFrame.kind = "none" /\ NoFrame.due = {}
    BY NewFrames
  <2>2. "subs" \in FrameKinds
    BY DEF FrameKinds
  <2> DEFINE n == Cardinality(subs'[w])
             rest == subs'[w]
  <2>3. n \in Nat /\ rest \in SUBSET Dashboards
    BY <1>5
  <2> HIDE DEF n, rest
  <2>4. LET f == [NoFrame EXCEPT !.kind = "subs", !.left = rest, !.size = n]
        IN  f \in Frames /\ f.kind = "subs" /\ f.due = {}
    BY <2>1, <2>2, <2>3 DEF Frames
  <2> QED
    BY <2>1, <2>4 DEF n, rest
<1>7. \/ frame' = [shifted EXCEPT ![s] = NoFrame] /\ pc' = [pc EXCEPT ![s] = After(s)]
      \/ frame[s].kind = "event" /\ frame' = [shifted EXCEPT ![s] = follow] /\ pc' = pc
  BY DEF BroadcastEnds
<1> HIDE DEF shifted, follow
<1>8. CASE frame' = [shifted EXCEPT ![s] = NoFrame] /\ pc' = [pc EXCEPT ![s] = After(s)]
  <2>1. /\ frame' \in [Sockets -> Frames] /\ frame'[s] = NoFrame
        /\ \A t \in Sockets : t # s => frame'[t] = shifted[t]
    BY <1>3, <1>6, <1>8
  <2> QED
    BY <1>2, <1>4, <1>6, <1>8, <2>1 DEF shifted
<1>9. CASE frame[s].kind = "event" /\ frame' = [shifted EXCEPT ![s] = follow] /\ pc' = pc
  <2>1. /\ frame' \in [Sockets -> Frames] /\ frame'[s] = follow
        /\ \A t \in Sockets : t # s => frame'[t] = shifted[t]
    BY <1>3, <1>6, <1>9
  <2> QED
    BY <1>2, <1>4, <1>6, <1>9, <2>1 DEF shifted
<1> QED
  BY <1>7, <1>8, <1>9

\* A dashboard leaves its tables.
LEMMA LeaveFrames ==
    ASSUME GatewayTypeOK, NEW d \in Dashboards, DashboardLeaves(d)
    PROVE  /\ home[d] \in Workers /\ {d} \in SUBSET Dashboards
           /\ frame' = Shifted(home[d], {d}) /\ frame' \in [Sockets -> Frames]
           /\ conns' = [conns EXCEPT ![home[d]] = @ \ {d}]
           /\ subs' = [subs EXCEPT ![home[d]] = @ \ {d}]
<1>1. home[d] \in Workers /\ {d} \in SUBSET Dashboards
  BY DEF GatewayTypeOK
<1> QED
  BY <1>1, ShiftedFrames DEF DashboardLeaves, Forget

LEMMA GatewayTypes == ASSUME GatewayTypeOK, [Next]_vars PROVE GatewayTypeOK'
<1> USE DEF others, tables
<1>1. ASSUME NEW s \in Sockets,
             Accept(s) \/ CloseOld(s) \/ ReceiveClosed(s) \/ PeerGone(s)
      PROVE  GatewayTypeOK'
  <2>1. /\ pc' \in [Sockets -> Coroutines] /\ closed' \subseteq Sockets
        /\ route[worker[s]] = None \/ route[worker[s]] \in Sockets
    BY <1>1 DEF GatewayTypeOK, Accept, CloseOld, ReceiveClosed, PeerGone, Coroutines
  <2> QED
    BY <1>1, <2>1 DEF GatewayTypeOK, Accept, CloseOld, ReceiveClosed, PeerGone
<1>2. ASSUME NEW s \in Sockets, Register(s) \/ Replace(s) PROVE GatewayTypeOK'
  <2>1. worker[s] \in Workers
    BY DEF GatewayTypeOK
  <2>2. Broadcast("online", worker[s]) \in Frames
    BY <2>1, NewFrames
  <2> QED
    BY <1>2, <2>1, <2>2 DEF GatewayTypeOK, Register, Replace, Announce, Coroutines
<1>3. ASSUME NEW s \in Sockets, Event(s) \/ Leave(s) PROVE GatewayTypeOK'
  <2>1. worker[s] \in Workers
    BY DEF GatewayTypeOK
  <2>2. /\ Broadcast("event", worker[s]) \in Frames
        /\ Broadcast("offline", worker[s]) \in Frames
    BY <2>1, NewFrames
  <2>3. CASE Event(s)
    BY <2>2, <2>3 DEF GatewayTypeOK, Event, Coroutines
  <2>4. CASE Leave(s)
    BY <2>2, <2>4 DEF GatewayTypeOK, Leave, Coroutines
  <2> QED
    BY <1>3, <2>3, <2>4
<1>4. ASSUME NEW s \in Sockets, SendNext(s) \/ NextUser(s) \/ SubsNext(s) PROVE GatewayTypeOK'
  <2>1. frame' \in [Sockets -> Frames]
    <3>1. PICK f \in Frames : frame' = [frame EXCEPT ![s] = f]
      BY <1>4, SendFrame, NextFrame, SubsFrame, Zenon
    <3> QED
      BY <3>1 DEF GatewayTypeOK
  <2> QED
    BY <1>4, <2>1 DEF GatewayTypeOK, SendNext, NextUser, SubsNext
<1>5. ASSUME NEW s \in Sockets, BroadcastEnds(s) PROVE GatewayTypeOK'
  <2>1. After(s) \in Coroutines
    BY DEF After, Coroutines
  <2>2. /\ frame' \in [Sockets -> Frames]
        /\ pc' = pc \/ pc' = [pc EXCEPT ![s] = After(s)]
        /\ conns' = [conns EXCEPT ![worker[s]] = @ \ frame[s].dead]
        /\ subs' = [subs EXCEPT ![worker[s]] = @ \ frame[s].dead]
    BY <1>5, EndFrames
  <2>3. pc' \in [Sockets -> Coroutines]
    BY <2>1, <2>2 DEF GatewayTypeOK
  <2>4. conns' \in [Workers -> SUBSET Dashboards] /\ subs' \in [Workers -> SUBSET Dashboards]
    BY <2>2 DEF GatewayTypeOK
  <2> QED
    BY <1>5, <2>2, <2>3, <2>4 DEF GatewayTypeOK, BroadcastEnds
<1>6. ASSUME NEW s \in Sockets, SubsEnd(s) \/ Raises(s) PROVE GatewayTypeOK'
  <2>1. NoFrame \in Frames
    BY NewFrames
  <2>2. CASE SubsEnd(s)
    BY <2>1, <2>2 DEF GatewayTypeOK, SubsEnd, Coroutines
  <2>3. CASE Raises(s)
    BY <2>1, <2>3 DEF GatewayTypeOK, Raises, Coroutines
  <2> QED
    BY <1>6, <2>2, <2>3
<1>7. ASSUME NEW w \in Workers, CommandBegins(w) \/ CommandSent(w) \/ CommandFails(w)
      PROVE  GatewayTypeOK'
  BY <1>7 DEF GatewayTypeOK, CommandBegins, CommandSent, CommandFails
<1>8. ASSUME NEW d \in Dashboards,
             DashboardConnects(d) \/ Subscribe(d) \/ DashboardLost(d)
      PROVE  GatewayTypeOK'
  BY <1>8 DEF GatewayTypeOK, DashboardConnects, Subscribe, DashboardLost
<1>9. ASSUME NEW d \in Dashboards, DashboardLeaves(d) PROVE GatewayTypeOK'
  <2>1. /\ frame' \in [Sockets -> Frames]
        /\ conns' = [conns EXCEPT ![home[d]] = @ \ {d}]
        /\ subs' = [subs EXCEPT ![home[d]] = @ \ {d}]
    BY <1>9, LeaveFrames
  <2>2. conns' \in [Workers -> SUBSET Dashboards] /\ subs' \in [Workers -> SUBSET Dashboards]
    BY <2>1 DEF GatewayTypeOK
  <2> QED
    BY <1>9, <2>1, <2>2 DEF GatewayTypeOK, DashboardLeaves
<1>10. CASE UNCHANGED vars
  BY <1>10 DEF GatewayTypeOK, vars
<1> QED
  BY <1>1, <1>2, <1>3, <1>4, <1>5, <1>6, <1>7, <1>8, <1>9, <1>10, Zenon DEF Next, Handler
-----------------------------------------------------------------------------
(* The registered socket *)

RoutingInv == Broadcasting /\ Routed /\ ClosedFor

\* Steps that leave the coroutines and the registrations alone.
LEMMA RoutingKept ==
    ASSUME RoutingInv, pc' = pc, worker' = worker, closed' = closed, route' = route,
           \A s \in Sockets : /\ frame'[s].kind \in {frame[s].kind}
                              /\ frame'[s].due \subseteq frame[s].due
    PROVE  RoutingInv'
<1>1. Broadcasting'
  BY DEF RoutingInv, Broadcasting
<1> QED
  BY <1>1 DEF RoutingInv, Routed, ClosedFor

LEMMA Registering ==
    ASSUME GatewayTypeOK, RoutingInv, NEW s \in Sockets, Register(s) \/ Replace(s)
    PROVE  RoutingInv'
<1>1. /\ worker[s] \in Workers /\ worker' = worker /\ closed' = closed
      /\ pc[s] \in {"accepted", "closing"}
      /\ pc' = [pc EXCEPT ![s] = "online"]
      /\ route' = [route EXCEPT ![worker[s]] = s]
      /\ frame' = [frame EXCEPT ![s] = Broadcast("online", worker[s])]
  BY DEF GatewayTypeOK, Register, Replace, Announce, others
<1>2. Broadcast("online", worker[s]).kind = "online"
  BY <1>1, NewFrames
<1>3. /\ \A t \in Sockets : pc'[t] = IF t = s THEN "online" ELSE pc[t]
      /\ \A t \in Sockets : t # s => frame'[t] = frame[t]
      /\ frame'[s].kind = "online"
      /\ \A w \in Workers : route'[w] = IF w = worker[s] THEN s ELSE route[w]
  BY <1>1, <1>2 DEF GatewayTypeOK
<1>4. Broadcasting'
  BY <1>3 DEF RoutingInv, Broadcasting
<1>5. Routed'
  BY <1>1, <1>3 DEF RoutingInv, Routed
<1>6. s \notin closed
  BY <1>1 DEF RoutingInv, ClosedFor
<1>7. ClosedFor'
  <2>1. ASSUME NEW w \in Workers, NEW r \in closed, route'[w] = r
        PROVE  \E t \in Sockets : pc'[t] = "closing" /\ worker[t] = w
    <3>1. w # worker[s] /\ route[w] = r
      BY <1>3, <1>6, <2>1
    <3>2. PICK t \in Sockets : pc[t] = "closing" /\ worker[t] = w
      BY <3>1 DEF RoutingInv, ClosedFor
    <3> QED
      BY <1>3, <3>1, <3>2
  <2>2. \A r \in closed : pc'[r] \notin {"never", "new", "accepted", "closing"}
    BY <1>3, <1>6 DEF RoutingInv, ClosedFor, GatewayTypeOK
  <2> QED
    BY <1>1, <2>1, <2>2 DEF ClosedFor
<1> QED
  BY <1>4, <1>5, <1>7 DEF RoutingInv

LEMMA Closing ==
    ASSUME GatewayTypeOK, RoutingInv, NEW s \in Sockets, CloseOld(s)
    PROVE  RoutingInv'
<1>1. /\ worker[s] \in Workers /\ worker' = worker /\ route' = route /\ frame' = frame
      /\ pc[s] = "accepted" /\ route[worker[s]] \in Sockets
      /\ closed' = closed \cup {route[worker[s]]}
      /\ \A t \in Sockets : pc'[t] = IF t = s THEN "closing" ELSE pc[t]
  BY DEF GatewayTypeOK, CloseOld, others, tables
<1>2. Broadcasting'
  BY <1>1 DEF RoutingInv, Broadcasting
<1>3. Routed'
  BY <1>1 DEF RoutingInv, Routed
<1>4. ClosedFor'
  <2>1. ASSUME NEW w \in Workers, NEW r \in closed', route[w] = r
        PROVE  \E t \in Sockets : pc'[t] = "closing" /\ worker[t] = w
    <3>1. CASE r \in closed
      <4>1. PICK t \in Sockets : pc[t] = "closing" /\ worker[t] = w
        BY <2>1, <3>1 DEF RoutingInv, ClosedFor
      <4> QED
        BY <1>1, <4>1
    <3>2. CASE r = route[worker[s]]
      <4>1. worker[r] = worker[s] /\ worker[r] = w
        BY <1>1, <2>1, <3>2 DEF RoutingInv, Routed
      <4> QED
        BY <1>1, <4>1
    <3> QED
      BY <1>1, <2>1, <3>1, <3>2
  <2>2. ASSUME NEW r \in closed'
        PROVE  pc'[r] \notin {"never", "new", "accepted", "closing"}
    <3>1. r \in Sockets /\ r # s /\ pc[r] \notin {"never", "new", "accepted", "closing"}
      BY <1>1, <2>2 DEF RoutingInv, ClosedFor, Routed, GatewayTypeOK
    <3> QED
      BY <1>1, <3>1
  <2> QED
    BY <1>1, <2>1, <2>2 DEF ClosedFor
<1> QED
  BY <1>2, <1>3, <1>4 DEF RoutingInv

\* A coroutine goes on, and nothing of its registration changes: it was not
\* waiting to register, and it is not served less than before.
LEMMA GoingOn ==
    ASSUME GatewayTypeOK, RoutingInv, NEW s \in Sockets, NEW to,
           worker' = worker, closed' = closed,
           \A t \in Sockets : pc'[t] = IF t = s THEN to ELSE pc[t],
           pc[s] \notin {"closing", "never", "new", "accepted"},
           to \in {"online", "receive", "event", "offline", "done", "crashed"},
           \A w \in Workers : route'[w] = route[w] \/ route'[w] = None,
           to \in {"offline", "done"} =>
              pc[s] = "offline" \/ \A w \in Workers : route'[w] # s,
           \A t \in Sockets : t # s =>
              frame'[t].kind = frame[t].kind /\ frame'[t].due \subseteq frame[t].due,
           /\ frame'[s].kind # "none" => to \in {"online", "event", "offline"}
           /\ frame'[s].kind = "offline" => to = "offline"
           /\ frame'[s].kind \in {"none", "subs"} => frame'[s].due = {}
    PROVE  RoutingInv'
<1>1. Broadcasting'
  BY DEF RoutingInv, Broadcasting
<1>2. \A w \in Workers, t \in Sockets : route'[w] = t => route[w] = t
  BY Ranges
<1>3. Routed'
  <2> SUFFICES ASSUME NEW w \in Workers, NEW t \in Sockets, route'[w] = t
               PROVE  worker[t] = w /\ pc'[t] \in {"online", "receive", "event", "crashed"}
    BY DEF Routed
  <2>1. worker[t] = w /\ pc[t] \in {"online", "receive", "event", "crashed"}
    BY <1>2 DEF RoutingInv, Routed
  <2>2. CASE t = s
    BY <2>1, <2>2
  <2> QED
    BY <2>1, <2>2
<1>4. ClosedFor'
  <2>1. ASSUME NEW w \in Workers, NEW r \in closed, route'[w] = r
        PROVE  \E t \in Sockets : pc'[t] = "closing" /\ worker[t] = w
    <3>1. route[w] = r
      BY <1>2, <2>1 DEF GatewayTypeOK
    <3>2. PICK t \in Sockets : pc[t] = "closing" /\ worker[t] = w
      BY <3>1 DEF RoutingInv, ClosedFor
    <3> QED
      BY <3>2
  <2>2. \A r \in closed : pc'[r] \notin {"never", "new", "accepted", "closing"}
    BY DEF RoutingInv, ClosedFor, GatewayTypeOK
  <2> QED
    BY <2>1, <2>2 DEF ClosedFor
<1> QED
  BY <1>1, <1>3, <1>4 DEF RoutingInv

LEMMA RoutingStep == ASSUME GatewayTypeOK, RoutingInv, [Next]_vars PROVE RoutingInv'
<1> USE DEF others, tables
<1>1. ASSUME NEW s \in Sockets, Accept(s) PROVE RoutingInv'
  <2>1. /\ pc[s] = "new" /\ \A t \in Sockets : pc'[t] = IF t = s THEN "accepted" ELSE pc[t]
        /\ UNCHANGED <<worker, closed, route, frame>>
    BY <1>1 DEF Accept, GatewayTypeOK
  <2>2. Broadcasting' /\ Routed'
    BY <2>1 DEF RoutingInv, Broadcasting, Routed
  <2>3. s \notin closed
    BY <2>1 DEF RoutingInv, ClosedFor
  <2>4. ASSUME NEW w \in Workers, NEW r \in closed, route[w] = r
        PROVE  \E t \in Sockets : pc'[t] = "closing" /\ worker[t] = w
    <3>1. PICK t \in Sockets : pc[t] = "closing" /\ worker[t] = w
      BY <2>4 DEF RoutingInv, ClosedFor
    <3> QED
      BY <2>1, <3>1
  <2>5. \A r \in closed : pc'[r] \notin {"never", "new", "accepted", "closing"}
    BY <2>1, <2>3 DEF RoutingInv, ClosedFor, GatewayTypeOK
  <2> QED
    BY <2>1, <2>2, <2>4, <2>5 DEF RoutingInv, ClosedFor
<1>2. ASSUME NEW s \in Sockets, SendNext(s) \/ NextUser(s) \/ SubsNext(s) PROVE RoutingInv'
  <2>1. PICK f \in Frames : /\ frame' = [frame EXCEPT ![s] = f]
                            /\ f.kind = frame[s].kind /\ f.due \subseteq frame[s].due
    <3>1. CASE SendNext(s)
      BY <3>1, SendFrame
    <3>2. CASE NextUser(s)
      BY <3>2, NextFrame
    <3>3. CASE SubsNext(s)
      BY <3>3, SubsFrame
    <3> QED
      BY <1>2, <3>1, <3>2, <3>3
  <2>2. \A t \in Sockets : frame'[t].kind \in {frame[t].kind} /\ frame'[t].due \subseteq frame[t].due
    BY <2>1 DEF GatewayTypeOK
  <2>3. UNCHANGED <<pc, worker, closed, route>>
    BY <1>2 DEF SendNext, NextUser, SubsNext
  <2> QED
    BY <2>2, <2>3, RoutingKept
<1>3. ASSUME NEW s \in Sockets, BroadcastEnds(s) PROVE RoutingInv'
  <2>1. /\ frame[s].kind # "none" /\ UNCHANGED <<worker, closed, route>>
    BY <1>3 DEF BroadcastEnds, Completed
  <2>2. /\ pc[s] \in {"online", "event", "offline"}
        /\ frame[s].kind = "offline" => pc[s] = "offline"
    BY <2>1 DEF RoutingInv, Broadcasting
  <2>3. /\ frame[s].dead \in SUBSET Dashboards /\ worker[s] \in Workers
        /\ \A t \in Sockets : t # s => frame'[t] = Shifted(worker[s], frame[s].dead)[t]
        /\ frame'[s].due = {}
        /\ \/ frame'[s].kind = "none" /\ pc' = [pc EXCEPT ![s] = After(s)]
           \/ frame'[s].kind = "subs" /\ pc' = pc
    BY <1>3, EndFrames DEF GatewayTypeOK
  <2>4. \A t \in Sockets : t # s =>
           frame'[t].kind = frame[t].kind /\ frame'[t].due \subseteq frame[t].due
    BY <2>3, ShiftedFrames
  <2>5. CASE frame'[s].kind = "none" /\ pc' = [pc EXCEPT ![s] = After(s)]
    <3>1. /\ After(s) \in {"receive", "done"}
          /\ After(s) = "done" => pc[s] = "offline"
      BY <2>2 DEF After
    <3>2. \A t \in Sockets : pc'[t] = IF t = s THEN After(s) ELSE pc[t]
      BY <2>5 DEF GatewayTypeOK
    <3> HIDE DEF After
    <3> QED
      BY <2>1, <2>2, <2>3, <2>4, <2>5, <3>1, <3>2, GoingOn
  <2>6. CASE frame'[s].kind = "subs" /\ pc' = pc
    <3>1. \A t \in Sockets : pc'[t] = IF t = s THEN pc[s] ELSE pc[t]
      BY <2>6
    <3> QED
      BY <2>1, <2>2, <2>3, <2>4, <2>6, <3>1, GoingOn
  <2> QED
    BY <2>3, <2>5, <2>6
<1>4. ASSUME NEW s \in Sockets, SubsEnd(s) \/ Raises(s) PROVE RoutingInv'
  <2>1. PICK to \in {"receive", "crashed"} : pc' = [pc EXCEPT ![s] = to]
    BY <1>4 DEF SubsEnd, Raises
  <2>2. /\ frame[s].kind # "none" /\ UNCHANGED <<worker, closed, route>>
        /\ frame' = [frame EXCEPT ![s] = NoFrame]
    BY <1>4 DEF SubsEnd, Raises
  <2>3. pc[s] \in {"online", "event", "offline"}
    BY <2>2 DEF RoutingInv, Broadcasting
  <2>4. /\ frame'[s].kind = "none" /\ frame'[s].due = {}
        /\ \A t \in Sockets : t # s => frame'[t] = frame[t]
    BY <2>2, NewFrames DEF GatewayTypeOK
  <2>5. \A t \in Sockets : pc'[t] = IF t = s THEN to ELSE pc[t]
    BY <2>1 DEF GatewayTypeOK
  <2> QED
    BY <2>1, <2>2, <2>3, <2>4, <2>5, GoingOn
<1>5. ASSUME NEW s \in Sockets, Event(s) PROVE RoutingInv'
  <2>1. /\ pc[s] = "receive" /\ UNCHANGED <<worker, closed, route>>
        /\ \A t \in Sockets : pc'[t] = IF t = s THEN "event" ELSE pc[t]
        /\ frame' = [frame EXCEPT ![s] = Broadcast("event", worker[s])]
        /\ worker[s] \in Workers
    BY <1>5 DEF Event, GatewayTypeOK
  <2>2. /\ frame'[s].kind = "event"
        /\ \A t \in Sockets : t # s => frame'[t] = frame[t]
    BY <2>1, NewFrames DEF GatewayTypeOK
  <2> QED
    BY <2>1, <2>2, GoingOn
<1>6. ASSUME NEW s \in Sockets, Leave(s) PROVE RoutingInv'
  <2>1. /\ pc[s] = "receive" /\ UNCHANGED <<worker, closed>>
        /\ \A t \in Sockets : pc'[t] = IF t = s THEN "offline" ELSE pc[t]
        /\ frame' = [frame EXCEPT ![s] = Broadcast("offline", worker[s])]
        /\ \A w \in Workers :
             route'[w] = IF w = worker[s] /\ route[w] = s THEN None ELSE route[w]
        /\ worker[s] \in Workers
    BY <1>6 DEF Leave, GatewayTypeOK
  <2>2. /\ frame'[s].kind = "offline"
        /\ \A t \in Sockets : t # s => frame'[t] = frame[t]
    BY <2>1, NewFrames DEF GatewayTypeOK
  <2>3. \A w \in Workers : route'[w] # s
    BY <2>1, Ranges DEF RoutingInv, Routed
  <2> QED
    BY <2>1, <2>2, <2>3, GoingOn
<1>7. ASSUME NEW s \in Sockets, ReceiveClosed(s) PROVE RoutingInv'
  <2>1. /\ pc[s] = "receive" /\ UNCHANGED <<worker, closed, route, frame>>
        /\ \A t \in Sockets : pc'[t] = IF t = s THEN "crashed" ELSE pc[t]
    BY <1>7 DEF ReceiveClosed, GatewayTypeOK
  <2>2. frame[s].kind = "none" /\ frame[s].due = {}
    BY <2>1 DEF RoutingInv, Broadcasting
  <2> QED
    BY <2>1, <2>2, GoingOn
<1>8. ASSUME NEW w \in Workers, CommandFails(w) PROVE RoutingInv'
  <2>1. /\ UNCHANGED <<worker, closed, pc, frame>>
        /\ \A v \in Workers : route'[v] = IF v = w THEN None ELSE route[v]
    BY <1>8 DEF CommandFails, GatewayTypeOK
  <2>2. \A v \in Workers, s \in Sockets : route'[v] = s => route[v] = s
    BY <2>1, Ranges
  <2>3. Broadcasting' /\ Routed'
    BY <2>1, <2>2 DEF RoutingInv, Broadcasting, Routed
  <2>4. ClosedFor'
    BY <2>1, <2>2 DEF RoutingInv, ClosedFor, GatewayTypeOK
  <2> QED
    BY <2>3, <2>4 DEF RoutingInv
<1>9. ASSUME \/ UNCHANGED vars
             \/ \E s \in Sockets : PeerGone(s)
             \/ \E w \in Workers : CommandBegins(w) \/ CommandSent(w)
             \/ \E d \in Dashboards : DashboardConnects(d) \/ Subscribe(d) \/ DashboardLost(d)
      PROVE  RoutingInv'
  <2>1. UNCHANGED <<worker, closed, pc, frame, route>>
    BY <1>9 DEF vars, PeerGone, CommandBegins, CommandSent, DashboardConnects, Subscribe,
                DashboardLost
  <2> QED
    BY <2>1, RoutingKept
<1>10. ASSUME NEW d \in Dashboards, DashboardLeaves(d) PROVE RoutingInv'
  <2>1. UNCHANGED <<worker, closed, pc, route>>
    BY <1>10 DEF DashboardLeaves
  <2>2. /\ home[d] \in Workers /\ {d} \in SUBSET Dashboards /\ frame' = Shifted(home[d], {d})
    BY <1>10, LeaveFrames
  <2>3. \A s \in Sockets : /\ frame'[s].kind \in {frame[s].kind}
                           /\ frame'[s].due \subseteq frame[s].due
    BY <2>2, ShiftedFrames
  <2> QED
    BY <2>1, <2>3, RoutingKept
<1> QED
  BY <1>1, <1>2, <1>3, <1>4, <1>5, <1>6, <1>7, <1>8, <1>9, <1>10, Registering, Closing, Zenon
     DEF Next, Handler
-----------------------------------------------------------------------------
(* Who is due *)

\* One frame that moves, while nobody comes or goes.
LEMMA FrameMoves ==
    ASSUME GatewayTypeOK, DueAhead, NEW s \in Sockets, NEW f,
           UNCHANGED <<worker, user, conns>>, frame' = [frame EXCEPT ![s] = f],
           \A d \in f.due : /\ d \in conns[worker[s]]
                            /\ \/ user[d] \in f.left
                               \/ /\ user[d] = f.cur
                                  /\ Place(d, List(worker[s], f.cur)) >= f.next
    PROVE  DueAhead'
<1>1. /\ frame'[s] = f
      /\ \A t \in Sockets : t # s => frame'[t] = frame[t]
  BY DEF GatewayTypeOK
<1> SUFFICES ASSUME NEW t \in Sockets, NEW d \in frame'[t].due
             PROVE  d \in conns'[worker'[t]] /\ Ahead(t, d)'
  BY DEF DueAhead
<1>2. CASE t = s
  BY <1>1, <1>2 DEF Ahead, List
<1>3. CASE t # s
  <2>1. d \in conns[worker[t]] /\ Ahead(t, d)
    BY <1>1, <1>3 DEF DueAhead
  <2> QED
    BY <1>1, <1>3, <2>1 DEF Ahead, List
<1> QED
  BY <1>2, <1>3

\* The dashboard that is sent to is due no more; the others of its list are at
\* other positions, which the iteration has not passed.
LEMMA DueSend == ASSUME GatewayTypeOK, DueAhead, NEW s \in Sockets, SendNext(s) PROVE DueAhead'
<1> DEFINE list == List(worker[s], frame[s].cur)
<1>1. PICK d \in list, f \in Frames :
        /\ Place(d, list) = frame[s].next
        /\ frame' = [frame EXCEPT ![s] = f]
        /\ f.left = frame[s].left /\ f.cur = frame[s].cur
        /\ f.next = frame[s].next + 1 /\ f.due = frame[s].due \ {d}
  BY SendFrame
<1>2. UNCHANGED <<worker, user, conns>>
  BY DEF SendNext, tables, others
<1>3. /\ list \in SUBSET Dashboards /\ worker[s] \in Workers /\ frame[s] \in Frames
      /\ frame[s].next \in Nat /\ frame[s].due \subseteq Dashboards
  <2>1. worker[s] \in Workers /\ frame[s] \in Frames
    BY DEF GatewayTypeOK
  <2> QED
    BY <2>1, KeysType DEF Frames
<1>4. ASSUME NEW e \in f.due
      PROVE  /\ e \in conns[worker[s]]
             /\ \/ user[e] \in f.left
                \/ user[e] = f.cur /\ Place(e, List(worker[s], f.cur)) >= f.next
  <2>1. e \in frame[s].due /\ e # d /\ e \in Dashboards
    BY <1>1, <1>3, <1>4
  <2>2. e \in conns[worker[s]] /\ Ahead(s, e)
    BY <2>1 DEF DueAhead
  <2>3. CASE user[e] = frame[s].cur /\ Place(e, list) >= frame[s].next
    <3>1. e \in list
      BY <2>2, <2>3 DEF List
    <3>2. Place(e, list) # frame[s].next
      <4>1. Place(e, list) # Place(d, list)
        <5> HIDE DEF list
        <5> QED
          BY <1>3, <2>1, <3>1, PlaceInjective
      <4> QED
        BY <1>1, <4>1
    <3>3. Place(e, list) \in Nat
      <4> HIDE DEF list
      <4> QED
        BY <1>3, <2>1, PlaceType
    <3>4. Place(e, list) >= frame[s].next + 1
      <4> HIDE DEF list
      <4> QED
        BY <1>3, <2>3, <3>2, <3>3
    <3> QED
      BY <1>1, <2>2, <2>3, <3>4
  <2>4. CASE user[e] \in frame[s].left
    BY <1>1, <2>2, <2>4
  <2> QED
    BY <2>2, <2>3, <2>4 DEF Ahead
<1> QED
  BY <1>1, <1>2, <1>4, FrameMoves

\* Nobody of a list that has ended is still due in it.
LEMMA NotPassed ==
    ASSUME GatewayTypeOK, NEW s \in Sockets, NEW d \in conns[worker[s]],
           ListEnded(s), Ahead(s, d)
    PROVE  user[d] \in frame[s].left
<1> DEFINE list == List(worker[s], frame[s].cur)
<1>1. /\ worker[s] \in Workers /\ frame[s].next \in Nat /\ d \in Dashboards
      /\ conns[worker[s]] \in SUBSET Dashboards
  <2>1. worker[s] \in Workers /\ frame[s] \in Frames
    BY DEF GatewayTypeOK
  <2> QED
    BY <2>1 DEF Frames, GatewayTypeOK
<1>2. list \in SUBSET Dashboards /\ frame[s].next > Cardinality(list)
  BY <1>1, KeysType DEF ListEnded
<1>3. ASSUME user[d] = frame[s].cur, Place(d, list) >= frame[s].next PROVE FALSE
  <2>1. d \in list
    BY <1>3 DEF List
  <2> HIDE DEF list
  <2>2. /\ Cardinality(list) \in Nat /\ Place(d, list) \in Nat
        /\ Place(d, list) <= Cardinality(list)
    BY <1>1, <1>2, <2>1, PlaceType
  <2> QED
    BY <1>1, <1>2, <1>3, <2>2
<1> QED
  BY <1>3 DEF Ahead

\* At the end of a list nobody of it is due; the next one begins at its start.
LEMMA DueNext == ASSUME GatewayTypeOK, DueAhead, NEW s \in Sockets, NextUser(s) PROVE DueAhead'
<1>1. PICK u \in Users, f \in Frames :
        /\ frame' = [frame EXCEPT ![s] = f]
        /\ f.left = frame[s].left \ {u} /\ f.cur = u
        /\ f.next = 1 /\ f.due = frame[s].due
  BY NextFrame
<1>2. UNCHANGED <<worker, user, conns>> /\ ListEnded(s)
  BY DEF NextUser, tables, others
<1>3. /\ worker[s] \in Workers /\ frame[s].next \in Nat
      /\ frame[s].due \subseteq Dashboards
  <2>1. worker[s] \in Workers /\ frame[s] \in Frames
    BY DEF GatewayTypeOK
  <2> QED
    BY <2>1 DEF Frames
<1>4. ASSUME NEW e \in f.due
      PROVE  /\ e \in conns[worker[s]]
             /\ \/ user[e] \in f.left
                \/ user[e] = f.cur /\ Place(e, List(worker[s], f.cur)) >= f.next
  <2>1. e \in conns[worker[s]] /\ Ahead(s, e) /\ e \in Dashboards
    BY <1>1, <1>3, <1>4 DEF DueAhead
  <2>2. user[e] \in frame[s].left
    BY <1>2, <1>3, <2>1, NotPassed
  <2>3. CASE user[e] = u
    <3>1. e \in List(worker[s], u) /\ List(worker[s], u) \in SUBSET Dashboards
      BY <1>3, <2>1, <2>3, KeysType DEF List
    <3>2. Place(e, List(worker[s], u)) >= 1
      BY <2>1, <3>1, PlaceType
    <3> QED
      BY <1>1, <2>1, <2>3, <3>2
  <2>4. CASE user[e] # u
    BY <1>1, <2>1, <2>2, <2>4
  <2> QED
    BY <2>3, <2>4
<1> QED
  BY <1>1, <1>2, <1>4, FrameMoves

\* Who is still due after some dashboards left is of a user whose list has not
\* been touched.
LEMMA DueShift ==
    ASSUME GatewayTypeOK, DueAhead, NEW w \in Workers, NEW gone \in SUBSET Dashboards,
           UNCHANGED <<worker, user>>, conns' = [conns EXCEPT ![w] = @ \ gone],
           NEW t \in Sockets, frame'[t] = Shifted(w, gone)[t], NEW d \in frame'[t].due
    PROVE  d \in conns'[worker'[t]] /\ Ahead(t, d)'
<1> DEFINE g == Shifted(w, gone)[t]
<1>1. /\ worker[t] \in Workers
      /\ \A v \in Workers : conns'[v] = IF v = w THEN conns[w] \ gone ELSE conns[v]
  BY DEF GatewayTypeOK
<1>2. /\ g.left = frame[t].left /\ g.next = frame[t].next /\ g.due \subseteq frame[t].due
      /\ worker[t] # w => g = frame[t]
      /\ worker[t] = w =>
           /\ \A e \in g.due, a \in gone \cap conns[w] : user[e] # user[a]
           /\ g.cur = frame[t].cur \/ (g.cur = None /\ List(w, frame[t].cur) \subseteq gone)
  BY ShiftedFrames
<1> HIDE DEF g
<1>3. frame'[t] = g /\ d \in g.due
  BY DEF g
<1>4. d \in frame[t].due /\ d \in conns[worker[t]] /\ Ahead(t, d)
  BY <1>2, <1>3 DEF DueAhead
<1>5. CASE worker[t] # w
  <2>1. conns'[worker[t]] = conns[worker[t]] /\ frame'[t] = frame[t]
    BY <1>1, <1>2, <1>3, <1>5
  <2> QED
    BY <1>4, <2>1 DEF Ahead, List
<1>6. CASE worker[t] = w
  <2>1. /\ \A a \in gone \cap conns[w] : user[d] # user[a]
        /\ d \notin gone /\ conns'[w] = conns[w] \ gone
    BY <1>1, <1>2, <1>3, <1>4, <1>6
  <2>2. d \in conns'[worker'[t]]
    BY <1>4, <1>6, <2>1
  <2>3. CASE user[d] \in frame[t].left
    BY <1>2, <1>3, <2>2, <2>3 DEF Ahead
  <2>4. CASE /\ user[d] = frame[t].cur
             /\ Place(d, List(worker[t], frame[t].cur)) >= frame[t].next
    <3>1. d \in List(w, frame[t].cur)
      BY <1>4, <1>6, <2>4 DEF List
    <3>2. g.cur = frame[t].cur
      BY <1>2, <1>6, <2>1, <3>1
    <3>3. List(w, user[d]) = {e \in conns[w] \ gone : user[e] = user[d]}
      BY <2>1 DEF List
    <3>4. List(w, user[d])' = List(w, user[d])
      BY <2>1, <3>3 DEF List
    <3> QED
      BY <1>2, <1>3, <1>6, <2>2, <2>4, <3>2, <3>4 DEF Ahead
  <2> QED
    BY <1>4, <2>2, <2>3, <2>4 DEF Ahead
<1> QED
  BY <1>5, <1>6

\* A dashboard that comes is behind those of its list.
LEMMA DueConnect ==
    ASSUME GatewayTypeOK, DueAhead, NEW d \in Dashboards, DashboardConnects(d)
    PROVE  DueAhead'
<1>1. /\ UNCHANGED <<worker, user, frame>> /\ home[d] \in Workers
      /\ \A v \in Workers : conns'[v] = IF v = home[d] THEN conns[v] \cup {d} ELSE conns[v]
  BY DEF GatewayTypeOK, DashboardConnects, others
<1> SUFFICES ASSUME NEW t \in Sockets, NEW e \in frame[t].due
             PROVE  e \in conns'[worker[t]] /\ Ahead(t, e)'
  BY <1>1 DEF DueAhead
<1>2. /\ worker[t] \in Workers /\ e \in conns[worker[t]] /\ Ahead(t, e)
      /\ frame[t].next \in Nat /\ e \in Dashboards
  <2>1. worker[t] \in Workers /\ frame[t] \in Frames
    BY DEF GatewayTypeOK
  <2> QED
    BY <2>1 DEF Frames, DueAhead
<1>3. e \in conns'[worker[t]]
  BY <1>1, <1>2
<1> DEFINE list == List(worker[t], frame[t].cur)
           more == {a \in conns'[worker[t]] : user[a] = frame[t].cur}
<1>4. list \in SUBSET more /\ more \in SUBSET Dashboards
  BY <1>1, <1>2, ZenonT(30) DEF List, GatewayTypeOK
<1>5. List(worker[t], frame[t].cur)' = more
  BY <1>1 DEF List
<1>6. Place(e, list) >= frame[t].next => Place(e, more) >= frame[t].next
  <2> HIDE DEF list, more
  <2>1. /\ Place(e, list) <= Place(e, more)
        /\ Place(e, list) \in Nat /\ Place(e, more) \in Nat
    BY <1>2, <1>4, PlaceGrows, PlaceType
  <2> QED
    BY <1>2, <2>1
<1>7. CASE user[e] \in frame[t].left
  BY <1>1, <1>3, <1>7 DEF Ahead
<1>8. CASE user[e] = frame[t].cur /\ Place(e, list) >= frame[t].next
  <2>1. user'[e] = frame'[t].cur /\ Place(e, more) >= frame'[t].next
    BY <1>1, <1>6, <1>8
  <2> HIDE DEF more
  <2> QED
    BY <1>3, <1>5, <2>1 DEF Ahead, Place
<1> QED
  BY <1>2, <1>7, <1>8 DEF Ahead

LEMMA DueStep == ASSUME GatewayTypeOK, Broadcasting, DueAhead, [Next]_vars PROVE DueAhead'
<1> USE DEF others, tables
<1>1. ASSUME NEW s \in Sockets, NEW k \in {"online", "event", "offline"},
             UNCHANGED <<worker, user, conns>>,
             frame' = [frame EXCEPT ![s] = Broadcast(k, worker[s])]
      PROVE  DueAhead'
  <2> DEFINE f == Broadcast(k, worker[s])
  <2>1. worker[s] \in Workers /\ user \in [Dashboards -> Users]
        /\ conns[worker[s]] \in SUBSET Dashboards
    BY DEF GatewayTypeOK
  <2>2. f.due = conns[worker[s]] /\ f.left = Keys(worker[s])
    BY <2>1, NewFrames
  <2> HIDE DEF f
  <2>3. \A d \in f.due : d \in conns[worker[s]] /\ user[d] \in f.left
    BY <2>2 DEF Keys
  <2> QED
    BY <1>1, <2>3, FrameMoves DEF f
<1>2. ASSUME NEW s \in Sockets, Register(s) \/ Replace(s) PROVE DueAhead'
  BY <1>1, <1>2 DEF Register, Replace, Announce
<1>3. ASSUME NEW s \in Sockets, Event(s) \/ Leave(s) PROVE DueAhead'
  BY <1>1, <1>3 DEF Event, Leave
<1>4. ASSUME NEW s \in Sockets, NEW f \in Frames, f.due = {},
             UNCHANGED <<worker, user, conns>>, frame' = [frame EXCEPT ![s] = f]
      PROVE  DueAhead'
  BY <1>4, FrameMoves
<1>5. ASSUME NEW s \in Sockets, SubsEnd(s) \/ Raises(s) PROVE DueAhead'
  <2>1. NoFrame \in Frames /\ NoFrame.due = {}
    BY NewFrames
  <2>2. /\ frame' = [frame EXCEPT ![s] = NoFrame]
        /\ UNCHANGED <<worker, user, conns>>
    BY <1>5 DEF SubsEnd, Raises
  <2> QED
    BY <1>4, <2>1, <2>2
<1>6. ASSUME NEW s \in Sockets, SubsNext(s) PROVE DueAhead'
  <2>1. frame[s].due = {} /\ UNCHANGED <<worker, user, conns>>
    BY <1>6 DEF SubsNext, Broadcasting
  <2>2. PICK f \in Frames : frame' = [frame EXCEPT ![s] = f] /\ f.due = frame[s].due
    BY <1>6, SubsFrame
  <2> QED
    BY <1>4, <2>1, <2>2
<1>7. ASSUME NEW s \in Sockets, BroadcastEnds(s) PROVE DueAhead'
  <2>1. /\ UNCHANGED <<worker, user>> /\ worker[s] \in Workers
        /\ frame[s].dead \in SUBSET Dashboards
        /\ conns' = [conns EXCEPT ![worker[s]] = @ \ frame[s].dead]
        /\ \A t \in Sockets : t # s => frame'[t] = Shifted(worker[s], frame[s].dead)[t]
        /\ frame'[s].due = {}
    BY <1>7, EndFrames DEF BroadcastEnds, GatewayTypeOK
  <2>2. ASSUME NEW t \in Sockets, NEW d \in frame'[t].due
        PROVE  d \in conns'[worker'[t]] /\ Ahead(t, d)'
    <3>1. t # s
      BY <2>1, <2>2
    <3> QED
      BY <2>1, <2>2, <3>1, DueShift
  <2> QED
    BY <2>2 DEF DueAhead
<1>8. ASSUME NEW d \in Dashboards, DashboardLeaves(d) PROVE DueAhead'
  <2>1. /\ home[d] \in Workers /\ {d} \in SUBSET Dashboards /\ UNCHANGED <<worker, user>>
        /\ conns' = [conns EXCEPT ![home[d]] = @ \ {d}]
        /\ frame' = Shifted(home[d], {d})
    BY <1>8, LeaveFrames DEF DashboardLeaves
  <2>2. ASSUME NEW t \in Sockets, NEW e \in frame'[t].due
        PROVE  e \in conns'[worker'[t]] /\ Ahead(t, e)'
    BY <2>1, <2>2, DueShift
  <2> QED
    BY <2>2 DEF DueAhead
<1>9. ASSUME \/ UNCHANGED vars
             \/ \E s \in Sockets : Accept(s) \/ CloseOld(s) \/ ReceiveClosed(s) \/ PeerGone(s)
             \/ \E w \in Workers : CommandBegins(w) \/ CommandSent(w) \/ CommandFails(w)
             \/ \E d \in Dashboards : Subscribe(d) \/ DashboardLost(d)
      PROVE  DueAhead'
  <2>1. UNCHANGED <<worker, user, conns, frame>>
    BY <1>9 DEF vars, Accept, CloseOld, ReceiveClosed, PeerGone, CommandBegins, CommandSent,
                CommandFails, Subscribe, DashboardLost
  <2> QED
    BY <2>1 DEF DueAhead, Ahead, List
<1> QED
  BY <1>2, <1>3, <1>5, <1>6, <1>7, <1>8, <1>9, DueSend, DueNext, DueConnect, Zenon
     DEF Next, Handler

-----------------------------------------------------------------------------
(* The theorems *)

LEMMA GatewayInit == Init => GatewayInv
<1> SUFFICES ASSUME Init PROVE GatewayInv
  OBVIOUS
<1>1. NoFrame \in Frames /\ NoFrame.kind = "none" /\ NoFrame.due = {}
  BY DEF NoFrame, Frames, FrameKinds
<1>2. /\ worker \in [Sockets -> Workers] /\ home \in [Dashboards -> Workers]
      /\ user \in [Dashboards -> Users]
      /\ route = [w \in Workers |-> None] /\ closed = {}
      /\ conns = [w \in Workers |-> {}] /\ subs = [w \in Workers |-> {}]
      /\ frame = [s \in Sockets |-> NoFrame] /\ sending = [w \in Workers |-> None]
      /\ pc \in [Sockets -> Coroutines]
  BY DEF Init, Coroutines
<1>3. GatewayTypeOK
  BY <1>1, <1>2 DEF GatewayTypeOK
<1>4. Broadcasting /\ DueAhead
  BY <1>1, <1>2 DEF Broadcasting, DueAhead
<1>5. Routed /\ ClosedFor
  BY <1>2, Ranges DEF Routed, ClosedFor
<1> QED
  BY <1>3, <1>4, <1>5 DEF GatewayInv

THEOREM GatewayInvariant == Spec => []GatewayInv
<1>1. GatewayInv /\ [Next]_vars => GatewayInv'
  BY GatewayTypes, RoutingStep, DueStep DEF GatewayInv, RoutingInv
<1> QED
  BY <1>1, GatewayInit, PTL DEF Spec

\* A registered socket has a coroutine that will remove it, whatever the order
\* in which connections of the agent come, are closed and replaced, but for one
\* that died while it announced its agent.
THEOREM RoutedIsServedHolds == Spec => []RoutedIsServed
<1>1. GatewayInv => RoutedIsServed
  BY DEF GatewayInv, GatewayTypeOK, Routed, ClosedFor, RoutedIsServed
<1> QED
  BY <1>1, GatewayInvariant, PTL

\* A broadcast that went through its loops has been sent to everyone who was
\* there all along: for any number of users, of dashboards of each and of
\* broadcasts of other coroutines that remove dead ones meanwhile.
THEOREM BroadcastReachesAllHolds == Spec => []BroadcastReachesAll
<1>1. GatewayInv => BroadcastReachesAll
  <2> SUFFICES ASSUME GatewayInv, NEW s \in Sockets, Completed(s), NEW d \in frame[s].due
               PROVE  FALSE
    BY DEF BroadcastReachesAll
  <2>1. d \in conns[worker[s]] /\ Ahead(s, d) /\ ListEnded(s)
    BY DEF GatewayInv, DueAhead, Completed
  <2>2. user[d] \in frame[s].left
    BY <2>1, NotPassed DEF GatewayInv
  <2>3. user[d] \in Keys(worker[s])
    BY <2>1 DEF Keys
  <2> QED
    BY <2>2, <2>3 DEF Completed
<1> QED
  BY <1>1, GatewayInvariant, PTL

\* What makes a healthy socket lose its entry, in one step.
KeepsRoute ==
  \A w \in Workers : LET s == route[w] IN
    (s # None /\ route'[w] = None /\ up[s] /\ s \notin closed) => sending[w] \notin {None, s}

\* Only a command whose send failed on an earlier socket takes the registration
\* of a healthy one: neither the end of that socket's coroutine nor its
\* replacement does.
THEOREM HealthyKeepsRouteHolds == Spec => HealthyKeepsRoute
<1>1. GatewayInv /\ [Next]_vars => [KeepsRoute]_vars
  <2> SUFFICES ASSUME GatewayInv, [Next]_vars, NEW w \in Workers, route[w] # None,
                      route'[w] = None, up[route[w]], route[w] \notin closed
               PROVE  sending[w] \notin {None, route[w]}
    BY DEF KeepsRoute
  <2>1. route \in [Workers -> Sockets \cup {None}] /\ worker \in [Sockets -> Workers]
    BY DEF GatewayInv, GatewayTypeOK
  <2>2. ASSUME NEW s \in Sockets, Register(s) \/ Replace(s) PROVE FALSE
    BY <2>1, <2>2, Ranges DEF Register, Replace, Announce
  <2>3. ASSUME NEW s \in Sockets, Leave(s) PROVE FALSE
    BY <2>1, <2>3 DEF Leave
  <2>4. ASSUME NEW v \in Workers, CommandFails(v) PROVE sending[w] \notin {None, route[w]}
    BY <2>1, <2>4 DEF CommandFails
  <2>5. ASSUME \/ UNCHANGED vars
               \/ \E s \in Sockets :
                    \/ Accept(s) \/ CloseOld(s) \/ SendNext(s) \/ NextUser(s)
                    \/ BroadcastEnds(s) \/ SubsNext(s) \/ SubsEnd(s) \/ Raises(s)
                    \/ ReceiveClosed(s) \/ Event(s) \/ PeerGone(s)
               \/ \E v \in Workers : CommandBegins(v) \/ CommandSent(v)
               \/ \E d \in Dashboards : \/ DashboardConnects(d) \/ Subscribe(d)
                                        \/ DashboardLost(d) \/ DashboardLeaves(d)
        PROVE  FALSE
    <3>1. UNCHANGED route
      BY <2>5 DEF vars, tables, Accept, CloseOld, SendNext, NextUser, BroadcastEnds, SubsNext,
           SubsEnd, Raises, ReceiveClosed, Event, PeerGone, CommandBegins, CommandSent,
           DashboardConnects, Subscribe, DashboardLost, DashboardLeaves
    <3> QED
      BY <3>1
  <2> QED
    BY <2>2, <2>3, <2>4, <2>5, Zenon DEF Next, Handler
<1> QED
  BY <1>1, GatewayInvariant, PTL DEF Spec, HealthyKeepsRoute, KeepsRoute
=============================================================================
