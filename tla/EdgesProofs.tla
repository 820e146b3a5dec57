------------------------------ MODULE EdgesProofs ------------------------------
(***************************************************************************)
(* What is proved of the two edges: the BFF shows its users what they were *)
(* told, its limiter counts right, the agent's slow lane keeps the order   *)
(* of its collections, and the scanners have not fallen behind it.         *)
(***************************************************************************)
EXTENDS Edges, FiniteSetTheorems, TLAPS

(* The requests.                                                           *)
Requests ==
  [pc : {"idle", "incr", "expire", "lookup", "fetch", "store", "forward", "keys", "delete"},
   user : Users, kind : Kinds \cup {"write", "other"}, window : Windows, v : Nat]

Pages == [Users -> [Kinds -> [v : Nat, left : Int, excused : BOOLEAN]]]
Counters == [Kinds -> [Windows -> [n : Nat, expires : Nat]]]
Tallies == [Kinds -> [Windows -> Nat]]

BffTypeOK ==
  /\ devices \in Nat
  /\ own \in [Users -> Nat]
  /\ told \in [Users -> Nat]
  /\ cache \in Pages
  /\ counts \in Counters
  /\ now \in 0..MaxTicks
  /\ call \in [Calls -> Requests]
  /\ passed \in Tallies
  /\ refused \subseteq Kinds \X Windows
  /\ calls \in Nat /\ errors \in Nat

(* A user is told only of what Django has committed for it.                *)
ToldIsOwn ==
  /\ \A u \in Users : told[u] <= own[u] /\ own[u] <= devices
  /\ \A r \in Calls : call[r].pc \in {"keys", "delete"} => call[r].v <= own[call[r].user]

Pending(r, k, w) == call[r].pc = "expire" /\ call[r].kind = k /\ call[r].window = w
Pend(k, w) == IF \E r \in Calls : Pending(r, k, w) THEN 1 ELSE 0

(* A request that counts is of a window that has begun, and only the one   *)
(* that made the counter has its TTL to set, which is not set before.      *)
Counting ==
  /\ \A r \in Calls : call[r].pc \in {"incr", "expire", "lookup", "fetch", "store"} =>
       call[r].kind \in Kinds /\ call[r].window * Window <= now
  /\ \A r, q \in Calls, k \in Kinds, w \in Windows : Pending(r, k, w) /\ Pending(q, k, w) => r = q
  /\ \A r \in Calls, k \in Kinds, w \in Windows :
       Pending(r, k, w) => counts[k][w].n > 0 /\ counts[k][w].expires = 0
  /\ \A k \in Kinds, w \in Windows : counts[k][w].n = 0 => counts[k][w].expires = 0

(* A counter lives as long as its window.                                  *)
Lasting ==
  \A k \in Kinds, w \in Windows : counts[k][w].expires # 0 => counts[k][w].expires >= (w + 1) * Window

(* The counter counts who passed, while its window lasts.                  *)
CountsPassed ==
  \A k \in Kinds, w \in Windows :
    w >= WindowOf(now) =>
      passed[k][w] + Pend(k, w) <= counts[k][w].n /\ passed[k][w] + Pend(k, w) <= Limit

(* It never counts more than have passed, are to pass, or were lost.       *)
PassedOrLost ==
  /\ \A k \in Kinds, w \in Windows :
       \/ counts[k][w].n <= passed[k][w] + errors + Pend(k, w)
       \/ Limit <= passed[k][w] + errors + Pend(k, w)
  /\ \A x \in refused : passed[x[1]][x[2]] + errors + Pend(x[1], x[2]) >= Limit

BffInv == BffTypeOK /\ ToldIsOwn /\ OwnWritesSeen /\ Counting /\ Lasting /\ CountsPassed /\ PassedOrLost

-----------------------------------------------------------------------------
(* The clock *)

LEMMA Division ==
    ASSUME NEW t \in Nat
    PROVE  /\ WindowOf(t) \in Nat
           /\ WindowOf(t) * Window <= t
           /\ \A w \in Nat : w >= WindowOf(t) => (w + 1) * Window > t
           /\ \A s \in Nat : s <= t => WindowOf(s) <= WindowOf(t)
<1>1. Window \in Nat /\ Window > 0
  BY BffAssumption
<1>2. WindowOf(t) \in Nat
  BY <1>1, Z3 DEF WindowOf
<1>3. WindowOf(t) * Window <= t
  BY <1>1, Z3 DEF WindowOf
<1>4. ASSUME NEW w \in Nat, w >= WindowOf(t) PROVE (w + 1) * Window > t
  <2>1. (WindowOf(t) + 1) * Window > t
    BY <1>1, Z3 DEF WindowOf
  <2>2. (w + 1) * Window >= (WindowOf(t) + 1) * Window
    BY <1>1, <1>2, <1>4, Z3
  <2>3. (w + 1) * Window \in Int /\ (WindowOf(t) + 1) * Window \in Int
    BY <1>1, <1>2
  <2> QED
    BY <2>1, <2>2, <2>3
<1>5. ASSUME NEW s \in Nat, s <= t PROVE WindowOf(s) <= WindowOf(t)
  BY <1>1, <1>5, Z3 DEF WindowOf
<1> QED
  BY <1>2, <1>3, <1>4, <1>5

LEMMA ClockWindow == ASSUME now \in 0..MaxTicks PROVE WindowOf(now) \in Windows
<1>1. MaxTicks \in Nat /\ now \in Nat /\ now <= MaxTicks
  BY BffAssumption
<1>2. WindowOf(now) \in Nat /\ WindowOf(now) <= WindowOf(MaxTicks) /\ WindowOf(MaxTicks) \in Nat
  BY <1>1, Division
<1> QED
  BY <1>2 DEF Windows, WindowOf
-----------------------------------------------------------------------------
(* Types *)

LEMMA IdleType == Idle \in Requests /\ Idle.pc = "idle"
<1>1. (CHOOSE u \in Users : TRUE) \in Users
  BY BffAssumption
<1>2. 0 \in Windows
  <2>1. MaxTicks \in Nat /\ WindowOf(MaxTicks) \in Nat
    BY BffAssumption, Division
  <2> QED
    BY <2>1 DEF Windows, WindowOf
<1> QED
  BY <1>1, <1>2 DEF Idle, Requests, Kinds

\* One field of one counter, and one tally, at a time.
LEMMA OneCounter ==
    ASSUME NEW k \in Kinds, NEW w \in Windows, NEW x \in Nat,
           NEW c \in Counters
    PROVE  /\ [c EXCEPT ![k][w].n = x] \in Counters
           /\ [c EXCEPT ![k][w].expires = x] \in Counters
BY DEF Counters

LEMMA CounterDomains ==
    ASSUME NEW c \in Counters
    PROVE  /\ DOMAIN c = Kinds /\ \A k \in Kinds : DOMAIN c[k] = Windows
           /\ \A k \in Kinds, w \in Windows : DOMAIN c[k][w] = {"n", "expires"}
BY DEF Counters

LEMMA OneTally ==
    ASSUME NEW k \in Kinds, NEW w \in Windows, NEW p \in Tallies
    PROVE  [p EXCEPT ![k][w] = @ + 1] \in Tallies
BY DEF Tallies

LEMMA OnePage ==
    ASSUME NEW u \in Users, NEW k \in Kinds, NEW c \in Pages
    PROVE  /\ \A n \in Nat : [c EXCEPT ![u][k] = Page(u, k, n)] \in Pages
           /\ [c EXCEPT ![u][k] = NoPage] \in Pages
           /\ [c EXCEPT ![u][k].excused = TRUE] \in Pages
<1> DEFINE P == [v : Nat, left : Int, excused : BOOLEAN]
<1>1. \A n \in Nat : Page(u, k, n) \in P
  BY DEF Page, Ttl, Kinds
<1>2. NoPage \in P
  BY DEF NoPage
<1>3. c \in [Users -> [Kinds -> P]] /\ c[u][k] \in P
  BY DEF Pages
<1>4. [c[u][k] EXCEPT !.excused = TRUE] \in P
  BY <1>3
<1> HIDE DEF P
<1>5. \A q \in P : [c EXCEPT ![u][k] = q] \in [Users -> [Kinds -> P]]
  BY <1>3
<1> QED
  BY <1>1, <1>2, <1>4, <1>5 DEF Pages, P

LEMMA ServeTypes == ASSUME BffTypeOK, NEW r \in Calls, Serve(r), Counting PROVE BffTypeOK'
<1> USE DEF Done, Goto, Error
<1>0. /\ devices \in Nat /\ own \in [Users -> Nat] /\ told \in [Users -> Nat]
      /\ cache \in Pages /\ counts \in Counters /\ now \in 0..MaxTicks
      /\ call \in [Calls -> Requests] /\ passed \in Tallies
      /\ refused \subseteq Kinds \X Windows /\ calls \in Nat /\ errors \in Nat
  BY DEF BffTypeOK
<1>1. /\ call[r] \in Requests /\ call[r].user \in Users /\ call[r].window \in Windows
      /\ call[r].v \in Nat
  BY <1>0 DEF Requests
<1>2. ASSUME NEW q \in Requests PROVE [call EXCEPT ![r] = q] \in [Calls -> Requests]
  BY <1>0
<1>3. ASSUME NEW p \in {"idle", "incr", "expire", "lookup", "fetch", "store", "forward", "keys", "delete"}
      PROVE  [call EXCEPT ![r].pc = p] \in [Calls -> Requests]
  BY <1>0 DEF Requests
<1>4. errors + 1 \in Nat /\ devices + 1 \in Nat
  BY <1>0
<1>5. 0 \in Windows /\ Idle \in Requests
  BY IdleType DEF Idle, Requests
<1>6. [call EXCEPT ![r].pc = "lookup", ![r].window = 0] \in [Calls -> Requests]
  BY <1>0, <1>5 DEF Requests
<1>v. ASSUME NEW m, Verdict(r, m), call[r].kind \in Kinds
      PROVE  call' \in [Calls -> Requests] /\ passed' \in Tallies /\ refused' \subseteq Kinds \X Windows
  <2>1. CASE m > Limit
    BY <1>0, <1>1, <1>2, <1>5, <1>v, <2>1 DEF Verdict
  <2>2. CASE ~(m > Limit)
    <3>1. /\ call' = [call EXCEPT ![r].pc = "lookup", ![r].window = 0]
          /\ passed' = [passed EXCEPT ![call[r].kind][call[r].window] = @ + 1] /\ refused' = refused
      BY <1>v, <2>2 DEF Verdict, RateKey
    <3> QED
      BY <1>0, <1>1, <1>6, <1>v, <3>1, OneTally
  <2> QED
    BY <2>1, <2>2
<1>7. CASE Incr(r)
  <2> DEFINE k == call[r].kind
             w == call[r].window
  <2>1. k \in Kinds /\ w \in Windows /\ counts[k][w].n \in Nat
    BY <1>0, <1>1, <1>7 DEF Incr, Counting, Counters
  <2>2. counts' \in Counters
    <3>1. counts' = [counts EXCEPT ![k][w].n = counts[k][w].n + 1]
      BY <1>7 DEF Incr, RateKey
    <3>2. counts[k][w].n + 1 \in Nat
      BY <2>1
    <3> QED
      BY <1>0, <2>1, <3>1, <3>2, OneCounter
  <2>3. CASE counts[k][w].n + 1 = 1
    <3>1. call' = [call EXCEPT ![r].pc = "expire"] /\ passed' = passed /\ refused' = refused
      BY <1>7, <2>3 DEF Incr, RateKey
    <3>2. call' \in [Calls -> Requests]
      BY <1>3, <3>1
    <3> QED
      BY <1>0, <1>7, <2>2, <3>1, <3>2 DEF Incr, BffTypeOK
  <2>4. CASE counts[k][w].n + 1 # 1
    <3>1. Verdict(r, counts[k][w].n + 1)
      BY <1>7, <2>4 DEF Incr, RateKey
    <3> QED
      BY <1>0, <1>7, <1>v, <2>1, <2>2, <3>1 DEF Incr, BffTypeOK
  <2> QED
    BY <2>3, <2>4
<1>8. CASE Expire(r)
  <2> DEFINE k == call[r].kind
             w == call[r].window
  <2>1. k \in Kinds /\ w \in Windows /\ counts[k][w].n \in Nat
    BY <1>0, <1>1, <1>8 DEF Expire, Counting, Counters
  <2>2. counts' \in Counters
    <3>1. counts' = counts \/ counts' = [counts EXCEPT ![k][w].expires = now + Window]
      BY <1>8 DEF Expire, RateKey
    <3>2. now + Window \in Nat
      BY <1>0, BffAssumption
    <3>3. CASE counts' = counts
      BY <1>0, <3>3
    <3>4. CASE counts' = [counts EXCEPT ![k][w].expires = now + Window]
      BY <1>0, <2>1, <3>2, <3>4, OneCounter
    <3> QED
      BY <3>1, <3>3, <3>4
  <2>3. call' \in [Calls -> Requests] /\ passed' \in Tallies /\ refused' \subseteq Kinds \X Windows
    BY <1>8, <1>v, <2>1 DEF Expire
  <2> QED
    BY <1>0, <1>8, <2>2, <2>3 DEF Expire, BffTypeOK
<1>9. CASE LimiterFails(r)
  <2> DEFINE k == call[r].kind
             w == call[r].window
  <2>1. k \in Kinds /\ w \in Windows /\ counts[k][w].n \in Nat
    BY <1>0, <1>1, <1>9 DEF LimiterFails, Counting, Counters
  <2>2. counts' \in Counters
    <3>1. counts' = counts \/ counts' = [counts EXCEPT ![k][w].n = counts[k][w].n + 1]
      BY <1>9, <2>1 DEF LimiterFails, RateKey
    <3>2. counts[k][w].n + 1 \in Nat
      BY <2>1
    <3>3. CASE counts' = counts
      BY <1>0, <3>3
    <3>4. CASE counts' = [counts EXCEPT ![k][w].n = counts[k][w].n + 1]
      BY <1>0, <2>1, <3>2, <3>4, OneCounter
    <3> QED
      BY <3>1, <3>3, <3>4
  <2> QED
    BY <1>0, <1>4, <1>6, <1>9, <2>2 DEF LimiterFails, BffTypeOK
<1>10. CASE Lookup(r)
  BY <1>0, <1>2, <1>3, <1>4, <1>5, <1>10 DEF Lookup, BffTypeOK
<1>11. CASE Fetch(r)
  <2>1. [call EXCEPT ![r].pc = "store", ![r].v = devices] \in [Calls -> Requests]
    BY <1>0, ZenonT(30) DEF Requests
  <2> QED
    BY <1>0, <1>2, <1>3, <1>4, <1>5, <1>11, <2>1 DEF Fetch, BffTypeOK
<1>12. CASE Store(r)
  <2>1. cache' \in Pages
    <3>1. CASE cache' = cache
      BY <1>0, <3>1
    <3>2. CASE cache' = [cache EXCEPT ![call[r].user][call[r].kind] = Page(call[r].user, call[r].kind, call[r].v)]
      <4>1. call[r].kind \in Kinds
        BY <1>12 DEF Store, Counting
      <4> QED
        BY <1>0, <1>1, <3>2, <4>1, OnePage
    <3> QED
      BY <1>12, <3>1, <3>2 DEF Store
  <2> QED
    BY <1>0, <1>2, <1>4, <1>5, <1>12, <2>1 DEF Store, BffTypeOK
<1>13. CASE Forward(r)
  <2>1. [call EXCEPT ![r].pc = "keys", ![r].v = devices + 1] \in [Calls -> Requests]
    BY <1>0, <1>4, ZenonT(30) DEF Requests
  <2>2. [own EXCEPT ![call[r].user] = devices + 1] \in [Users -> Nat]
    BY <1>0, <1>1, <1>4
  <2> QED
    BY <1>0, <1>2, <1>4, <1>5, <1>13, <2>1, <2>2 DEF Forward, BffTypeOK
<1>14. ASSUME Tell(r) PROVE told' \in [Users -> Nat] /\ call' \in [Calls -> Requests]
  BY <1>0, <1>1, <1>2, <1>5, <1>14 DEF Tell
<1>15. CASE ListKeys(r)
  BY <1>0, <1>3, <1>14, <1>15 DEF ListKeys, BffTypeOK
<1>16. "list" \in Kinds
  BY DEF Kinds
<1>17. CASE DeleteKeys(r)
  <2>1. cache' \in Pages
    BY <1>0, <1>1, <1>16, <1>17, OnePage DEF DeleteKeys
  <2> QED
    BY <1>0, <1>14, <1>17, <2>1 DEF DeleteKeys, BffTypeOK
<1>18. CASE InvalidationFails(r)
  <2>1. cache' \in Pages
    BY <1>0, <1>1, <1>16, <1>18, OnePage DEF InvalidationFails
  <2> QED
    BY <1>0, <1>4, <1>14, <1>18, <2>1 DEF InvalidationFails, BffTypeOK
<1> QED
  BY <1>7, <1>8, <1>9, <1>10, <1>11, <1>12, <1>13, <1>15, <1>17, <1>18 DEF Serve

LEMMA ArriveTypes ==
    ASSUME BffTypeOK, NEW r \in Calls, NEW u \in Users, NEW k \in Kinds \cup {"write", "other"}, Arrive(r, u, k)
    PROVE  BffTypeOK'
<1>1. WindowOf(now) \in Windows /\ 0 \in Windows
  BY ClockWindow, IdleType DEF BffTypeOK, Idle, Requests
<1>2. call' \in [Calls -> Requests]
  BY <1>1 DEF Arrive, BffTypeOK, Requests
<1> QED
  BY <1>2 DEF Arrive, BffTypeOK

LEMMA KillTypes == ASSUME BffTypeOK, KillBff PROVE BffTypeOK'
BY IdleType DEF KillBff, BffTypeOK, Error

LEMMA TickTypes == ASSUME BffTypeOK, Tick PROVE BffTypeOK'
<1>1. now' \in 0..MaxTicks
  BY BffAssumption DEF Tick, BffTypeOK
<1>2. cache' \in Pages
  <2> DEFINE older(u, k) == IF cache[u][k].left <= 1 THEN NoPage ELSE [cache[u][k] EXCEPT !.left = @ - 1]
  <2>1. ASSUME NEW u \in Users, NEW k \in Kinds
        PROVE  older(u, k) \in [v : Nat, left : Int, excused : BOOLEAN]
    BY SMTT(30) DEF NoPage, BffTypeOK, Pages
  <2>2. cache' = [u \in Users |-> [k \in Kinds |-> older(u, k)]]
    BY Zenon DEF Tick
  <2> HIDE DEF older
  <2> QED
    BY <2>1, <2>2 DEF Pages
<1>3. counts' \in Counters
  <2>1. NoCount \in [n : Nat, expires : Nat]
    BY DEF NoCount
  <2> QED
    BY <2>1 DEF Tick, BffTypeOK, Counters
<1> QED
  BY <1>1, <1>2, <1>3 DEF Tick, BffTypeOK
-----------------------------------------------------------------------------
(* What the users are shown *)

\* The place of a request does not matter once it is over.
LEMMA IdleIsNoWrite == Idle.pc \notin {"incr", "expire", "lookup", "fetch", "store", "keys", "delete"}
BY IdleType

LEMMA TellsOwn ==
    ASSUME BffTypeOK, ToldIsOwn, NEW r \in Calls, call[r].pc \in {"keys", "delete"}, Tell(r),
           UNCHANGED <<devices, own>>
    PROVE  /\ ToldIsOwn'
           /\ \A u \in Users : u # call[r].user => told'[u] = told[u]
<1>1. call[r].user \in Users /\ call[r].v \in Nat /\ call[r].v <= own[call[r].user]
  BY DEF BffTypeOK, Requests, ToldIsOwn
<1>2. \A u \in Users : told'[u] <= own[u] /\ (u # call[r].user => told'[u] = told[u])
  BY <1>1 DEF Tell, BffTypeOK, ToldIsOwn
<1>3. \A q \in Calls : call'[q].pc \in {"keys", "delete"} => call'[q] = call[q]
  BY IdleIsNoWrite DEF Tell, Done, BffTypeOK
<1> QED
  BY <1>2, <1>3 DEF ToldIsOwn

\* A step that tells nobody, commits nothing and lets no request begin to
\* invalidate leaves what was told alone.
LEMMA NobodyTold ==
    ASSUME ToldIsOwn, UNCHANGED <<devices, own, told>>,
           \A q \in Calls : call'[q].pc \in {"keys", "delete"} =>
             call'[q].user = call[q].user /\ call'[q].v = call[q].v /\ call[q].pc \in {"keys", "delete"}
    PROVE  ToldIsOwn'
BY DEF ToldIsOwn

LEMMA OwnStep ==
    ASSUME BffTypeOK, Counting, ToldIsOwn, OwnWritesSeen, NEW r \in Calls, Serve(r)
    PROVE  ToldIsOwn' /\ OwnWritesSeen'
<1> DEFINE u == call[r].user
           quiet == \A q \in Calls : call'[q].pc \in {"keys", "delete"} =>
             call'[q].user = call[q].user /\ call'[q].v = call[q].v /\ call[q].pc \in {"keys", "delete"}
<1>0. /\ own \in [Users -> Nat] /\ told \in [Users -> Nat] /\ devices \in Nat /\ cache \in Pages
      /\ call \in [Calls -> Requests] /\ u \in Users /\ "list" \in Kinds
  BY DEF BffTypeOK, Requests, Kinds
<1>1. ASSUME UNCHANGED <<devices, own, told, cache>>, quiet
      PROVE  ToldIsOwn' /\ OwnWritesSeen'
  BY <1>1, NobodyTold DEF OwnWritesSeen, Cached
<1>a. ASSUME NEW n \in Nat, Verdict(r, n) PROVE quiet
  <2>1. CASE Done(r)
    BY <1>0, <2>1, IdleIsNoWrite DEF Done
  <2>2. CASE call' = [call EXCEPT ![r].pc = "lookup", ![r].window = 0]
    BY <1>0, <2>2 DEF Requests
  <2> QED
    BY <1>a, <2>1, <2>2, Zenon DEF Verdict
<1>b. ASSUME NEW p, Goto(r, p), p \notin {"keys", "delete"} \/ call[r].pc \in {"keys", "delete"} PROVE quiet
  BY <1>0, <1>b DEF Goto, Requests
<1>c. ASSUME Done(r) PROVE quiet
  BY <1>0, <1>c, IdleIsNoWrite DEF Done
<1>2. CASE Incr(r)
  <2>1. \A k \in Kinds, w \in Windows : counts[k][w].n + 1 \in Nat
    BY DEF BffTypeOK, Counters
  <2>2. quiet
    BY <1>0, <1>2, <1>a, <1>b, <2>1 DEF Incr, RateKey, Counting, Requests
  <2> QED
    BY <1>1, <1>2, <2>2, Zenon DEF Incr, Verdict
<1>3. CASE Expire(r)
  <2>1. quiet
    BY <1>3, <1>a DEF Expire
  <2> QED
    BY <1>1, <1>3, <2>1, Zenon DEF Expire
<1>4. CASE LimiterFails(r)
  BY <1>0, <1>1, <1>4 DEF LimiterFails
<1>5. CASE Lookup(r)
  <2>1. quiet
    BY <1>5, <1>b, <1>c DEF Lookup
  <2> QED
    BY <1>1, <1>5, <2>1, Zenon DEF Lookup
<1>6. CASE Fetch(r)
  <2>1. quiet
    <3>1. CASE call' = [call EXCEPT ![r].pc = "store", ![r].v = devices]
      BY <1>0, <3>1 DEF Requests
    <3> QED
      BY <1>6, <1>b, <1>c, <3>1 DEF Fetch
  <2> QED
    BY <1>1, <1>6, <2>1, Zenon DEF Fetch
<1>7. CASE Store(r)
  <2>1. ToldIsOwn'
    BY <1>0, <1>7, NobodyTold, IdleIsNoWrite DEF Store, Done
  <2>2. ASSUME NEW v \in Users, cache'[v]["list"] # cache[v]["list"]
        PROVE  v = u /\ cache'[v]["list"] = Page(u, "list", call[r].v)
    BY <1>0, <1>7, <2>2 DEF Store, Pages, Kinds
  <2>3. told[u] <= own[u] /\ call[r].v \in Nat /\ own[u] \in Nat /\ told[u] \in Nat
    BY <1>0 DEF ToldIsOwn, Requests
  <2>4. Page(u, "list", call[r].v).v < told[u] => Page(u, "list", call[r].v).excused
    <3>1. /\ Page(u, "list", call[r].v).v = call[r].v
          /\ Page(u, "list", call[r].v).excused = (call[r].v < own[u])
      BY DEF Page
    <3>2. call[r].v < told[u] => call[r].v < own[u]
      BY <2>3
    <3> QED
      BY <3>1, <3>2, Zenon
  <2>5. told' = told
    BY <1>7 DEF Store
  <2> QED
    BY <2>1, <2>2, <2>4, <2>5 DEF OwnWritesSeen, Cached
<1>8. CASE Forward(r)
  <2>1. told' = told /\ cache' = cache
    BY <1>8 DEF Forward
  <2>2. /\ devices' \in Nat /\ devices' >= devices
        /\ \A v \in Users : own'[v] \in Nat /\ own[v] <= own'[v] /\ own'[v] <= devices'
    BY <1>0, <1>8 DEF Forward, ToldIsOwn, Error
  <2>3. \A q \in Calls \ {r} : call'[q] = call[q]
    BY <1>0, <1>8 DEF Forward, Done
  <2>4. call'[r].pc \in {"keys", "delete"} => call'[r].v = devices + 1 /\ call'[r].user = u /\ own'[u] = devices + 1
    <3>1. CASE Done(r)
      BY <1>0, <3>1, IdleIsNoWrite DEF Done
    <3>2. CASE /\ own' = [own EXCEPT ![u] = devices + 1]
               /\ call' = [call EXCEPT ![r].pc = "keys", ![r].v = devices + 1]
      BY <1>0, <3>2 DEF Requests
    <3> QED
      BY <1>8, <3>1, <3>2 DEF Forward
  <2>5. \A v \in Users : told'[v] <= own'[v] /\ own'[v] <= devices'
    BY <1>0, <2>1, <2>2 DEF ToldIsOwn
  <2>6. ASSUME NEW q \in Calls, call'[q].pc \in {"keys", "delete"} PROVE call'[q].v <= own'[call'[q].user]
    <3>1. CASE q = r
      BY <1>0, <2>4, <2>6, <3>1
    <3>2. CASE q # r
      <4>1. call'[q] = call[q] /\ call[q].user \in Users /\ call[q].v \in Nat
        BY <1>0, <2>3, <3>2 DEF Requests
      <4>2. call[q].v <= own[call[q].user]
        BY <2>6, <4>1 DEF ToldIsOwn
      <4> QED
        BY <1>0, <2>2, <4>1, <4>2
    <3> QED
      BY <3>1, <3>2
  <2> QED
    BY <2>1, <2>5, <2>6 DEF ToldIsOwn, OwnWritesSeen, Cached
<1>9. CASE ListKeys(r)
  <2>1. CASE Cached(u, "list")
    <3>1. quiet
      BY <1>9, <1>b, <2>1 DEF ListKeys
    <3> QED
      BY <1>1, <1>9, <2>1, <3>1, Zenon DEF ListKeys
  <2>2. CASE ~Cached(u, "list")
    <3>1. Tell(r) /\ call[r].pc \in {"keys", "delete"} /\ UNCHANGED <<devices, own, cache>>
      BY <1>9, <2>2 DEF ListKeys
    <3>2. ToldIsOwn' /\ \A v \in Users : v # u => told'[v] = told[v]
      BY <3>1, TellsOwn
    <3> QED
      BY <2>2, <3>1, <3>2 DEF OwnWritesSeen, Cached
  <2> QED
    BY <2>1, <2>2
<1>10. CASE DeleteKeys(r)
  <2>1. Tell(r) /\ call[r].pc \in {"keys", "delete"} /\ UNCHANGED <<devices, own>>
    BY <1>10 DEF DeleteKeys
  <2>2. ToldIsOwn' /\ \A v \in Users : v # u => told'[v] = told[v]
    BY <2>1, TellsOwn
  <2>3. cache'[u]["list"] = NoPage /\ \A v \in Users : v # u => cache'[v]["list"] = cache[v]["list"]
    BY <1>0, <1>10 DEF DeleteKeys, Pages
  <2> QED
    BY <2>2, <2>3 DEF OwnWritesSeen, Cached, NoPage
<1>11. CASE InvalidationFails(r)
  <2>1. Tell(r) /\ call[r].pc \in {"keys", "delete"} /\ UNCHANGED <<devices, own>>
    BY <1>11 DEF InvalidationFails
  <2>2. ToldIsOwn' /\ \A v \in Users : v # u => told'[v] = told[v]
    BY <2>1, TellsOwn
  <2>3. cache'[u]["list"].excused /\ \A v \in Users : v # u => cache'[v]["list"] = cache[v]["list"]
    BY <1>0, <1>11 DEF InvalidationFails, Pages
  <2> QED
    BY <2>2, <2>3 DEF OwnWritesSeen, Cached
<1> QED
  BY <1>2, <1>3, <1>4, <1>5, <1>6, <1>7, <1>8, <1>9, <1>10, <1>11 DEF Serve

LEMMA OwnElsewhere ==
    ASSUME BffTypeOK, ToldIsOwn, OwnWritesSeen,
           \/ \E r \in Calls, u \in Users, k \in Kinds \cup {"write", "other"} : Arrive(r, u, k)
           \/ KillBff \/ Tick
    PROVE  ToldIsOwn' /\ OwnWritesSeen'
<1>1. CASE \E r \in Calls, u \in Users, k \in Kinds \cup {"write", "other"} : Arrive(r, u, k)
  <2>1. UNCHANGED <<devices, own, told, cache>>
    BY <1>1 DEF Arrive
  <2>2. \A q \in Calls : call'[q].pc \in {"keys", "delete"} => call'[q] = call[q]
    BY <1>1 DEF Arrive, BffTypeOK
  <2> QED
    BY <2>1, <2>2, NobodyTold DEF OwnWritesSeen, Cached
<1>2. CASE KillBff
  BY <1>2, IdleIsNoWrite, NobodyTold DEF KillBff, OwnWritesSeen, Cached
<1>3. CASE Tick
  <2>1. ToldIsOwn'
    BY <1>3, NobodyTold DEF Tick
  <2>2. \A u \in Users :
           \/ cache'[u]["list"] = NoPage
           \/ /\ cache[u]["list"].left > 1
              /\ cache'[u]["list"] = [cache[u]["list"] EXCEPT !.left = @ - 1]
    BY <1>3 DEF Tick, BffTypeOK, Pages, Kinds
  <2>3. told' = told
    BY <1>3 DEF Tick
  <2>4. \A u \in Users : cache[u]["list"] \in [v : Nat, left : Int, excused : BOOLEAN]
    BY DEF BffTypeOK, Pages, Kinds
  <2>5. ASSUME NEW u \in Users, Cached(u, "list")', cache'[u]["list"].v < told[u]
        PROVE  cache'[u]["list"].excused
    <3>1. CASE cache'[u]["list"] = NoPage
      BY <2>5, <3>1 DEF Cached, NoPage
    <3>2. CASE /\ cache[u]["list"].left > 1
               /\ cache'[u]["list"] = [cache[u]["list"] EXCEPT !.left = @ - 1]
      <4>1. /\ cache'[u]["list"].v = cache[u]["list"].v
            /\ cache'[u]["list"].excused = cache[u]["list"].excused
            /\ cache[u]["list"].left > 0
        BY <2>4, <3>2
      <4> QED
        BY <2>5, <4>1 DEF OwnWritesSeen, Cached
    <3> QED
      BY <2>2, <3>1, <3>2
  <2> QED
    BY <2>1, <2>3, <2>5 DEF OwnWritesSeen
<1> QED
  BY <1>1, <1>2, <1>3
-----------------------------------------------------------------------------
(* The limiter *)

LimiterInv == Counting /\ Lasting /\ CountsPassed /\ PassedOrLost

\* The counters, their expiry aside, and the tallies of a kind and a window.
Numbers(k, w) == <<counts[k][w].n, passed[k][w], Pend(k, w)>>

LEMMA NumberTypes ==
    ASSUME BffTypeOK, NEW k \in Kinds, NEW w \in Windows
    PROVE  /\ counts[k][w].n \in Nat /\ counts[k][w].expires \in Nat /\ passed[k][w] \in Nat
           /\ Pend(k, w) \in {0, 1} /\ w \in Nat
<1>1. counts[k][w].n \in Nat /\ counts[k][w].expires \in Nat
  BY DEF BffTypeOK, Counters
<1>2. passed[k][w] \in Nat
  BY DEF BffTypeOK, Tallies
<1>3. Pend(k, w) \in {0, 1}
  BY Zenon DEF Pend
<1>4. w \in Nat
  BY DEF Windows
<1> QED
  BY <1>1, <1>2, <1>3, <1>4

\* A step that keeps every counter and who has one to expire.
LEMMA LimiterStill ==
    ASSUME BffTypeOK, LimiterInv, UNCHANGED <<counts, passed, refused, now>>,
           errors' \in Nat, errors' >= errors,
           \A q \in Calls : call'[q].pc = "expire" <=> call[q].pc = "expire",
           \A q \in Calls : call[q].pc = "expire" =>
             call'[q].kind = call[q].kind /\ call'[q].window = call[q].window,
           \A q \in Calls : call'[q].pc \in {"incr", "expire", "lookup", "fetch", "store"} =>
             call'[q].kind \in Kinds /\ call'[q].window * Window <= now
    PROVE  LimiterInv'
<1>1. ASSUME NEW k, NEW w, NEW q \in Calls PROVE Pending(q, k, w)' <=> Pending(q, k, w)
  BY <1>1 DEF Pending
<1>2. ASSUME NEW k, NEW w PROVE Pend(k, w)' = Pend(k, w)
  BY <1>1 DEF Pend
<1>3. Counting'
  <2>1. Counting
    BY DEF LimiterInv
  <2>2. \A q, s \in Calls, k \in Kinds, w \in Windows : Pending(q, k, w)' /\ Pending(s, k, w)' => q = s
    BY <1>1, <2>1, Zenon DEF Counting
  <2>3. \A q \in Calls, k \in Kinds, w \in Windows :
          Pending(q, k, w)' => counts[k][w].n > 0 /\ counts[k][w].expires = 0
    <3> SUFFICES ASSUME NEW q \in Calls, NEW k \in Kinds, NEW w \in Windows, Pending(q, k, w)'
                 PROVE  counts[k][w].n > 0 /\ counts[k][w].expires = 0
      OBVIOUS
    <3>1. Pending(q, k, w)
      BY <1>1
    <3> QED
      BY <2>1, <3>1 DEF Counting
  <2>4. counts' = counts /\ now' = now
    OBVIOUS
  <2>5. \A k \in Kinds, w \in Windows : counts[k][w].n = 0 => counts[k][w].expires = 0
    BY <2>1 DEF Counting
  <2>6. \A q \in Calls : call'[q].pc \in {"incr", "expire", "lookup", "fetch", "store"} =>
             call'[q].kind \in Kinds /\ call'[q].window * Window <= now
    OBVIOUS
  <2> QED
    BY ONLY <2>2, <2>3, <2>4, <2>5, <2>6 DEF Counting
<1>4. Lasting'
  BY DEF LimiterInv, Lasting
<1>5. CountsPassed'
  BY <1>2, Zenon DEF LimiterInv, CountsPassed
<1>6. \A k \in Kinds, w \in Windows :
        passed'[k][w] + errors' + Pend(k, w)' >= passed[k][w] + errors + Pend(k, w)
  <2> SUFFICES ASSUME NEW k \in Kinds, NEW w \in Windows
               PROVE  passed'[k][w] + errors' + Pend(k, w)' >= passed[k][w] + errors + Pend(k, w)
    OBVIOUS
  <2>1. passed'[k][w] = passed[k][w] /\ Pend(k, w)' = Pend(k, w) /\ errors \in Nat
    BY <1>2 DEF BffTypeOK
  <2> HIDE DEF Pend
  <2> QED
    BY <2>1, NumberTypes
<1>7. PassedOrLost'
  <2>1. ASSUME NEW k \in Kinds, NEW w \in Windows
        PROVE  /\ passed[k][w] + errors + Pend(k, w) \in Nat /\ passed'[k][w] + errors' + Pend(k, w)' \in Nat
               /\ counts[k][w].n \in Nat
    BY <1>2, NumberTypes DEF BffTypeOK
  <2>2. Limit \in Nat
    BY BffAssumption
  <2>3. ASSUME NEW k \in Kinds, NEW w \in Windows
        PROVE  \/ counts'[k][w].n <= passed'[k][w] + errors' + Pend(k, w)'
               \/ Limit <= passed'[k][w] + errors' + Pend(k, w)'
    BY <1>6, <2>1, <2>2 DEF LimiterInv, PassedOrLost
  <2>4. ASSUME NEW x \in refused PROVE passed'[x[1]][x[2]] + errors' + Pend(x[1], x[2])' >= Limit
    <3>1. x[1] \in Kinds /\ x[2] \in Windows
      BY DEF BffTypeOK
    <3>2. passed[x[1]][x[2]] + errors + Pend(x[1], x[2]) >= Limit
      BY DEF LimiterInv, PassedOrLost
    <3> QED
      BY <1>6, <2>1, <2>2, <3>1, <3>2
  <2> QED
    BY <2>3, <2>4 DEF PassedOrLost
<1> QED
  BY <1>3, <1>4, <1>5, <1>7 DEF LimiterInv

\* What a step of the limiter does to the numbers of its kind and window: it
\* makes the counter, passes a request, refuses one, passes the one that made
\* the counter, or fails and lets the request through uncounted.
Moves(k, w) ==
  LET n == counts[k][w].n  p == passed[k][w]  d == Pend(k, w)
      n1 == counts'[k][w].n  p1 == passed'[k][w]  d1 == Pend(k, w)' IN
  \/ n = 0 /\ n1 = 1 /\ p1 = p /\ d = 0 /\ d1 = 1 /\ errors' = errors /\ refused' = refused
  \/ n1 = n + 1 /\ n1 <= Limit /\ p1 = p + 1 /\ d1 = d /\ errors' = errors /\ refused' = refused
  \/ n1 = n + 1 /\ n1 > Limit /\ p1 = p /\ d1 = d /\ errors' = errors
       /\ refused' = refused \cup {<<k, w>>}
  \/ n1 = n /\ d = 1 /\ d1 = 0 /\ p1 = p + 1 /\ errors' = errors /\ refused' = refused
  \/ n1 \in {n, n + 1} /\ d1 = d /\ p1 = p /\ errors' = errors + 1 /\ refused' = refused
  \/ n1 = n /\ d = 1 /\ d1 = 0 /\ p1 = p /\ errors' = errors + 1 /\ refused' = refused

LEMMA CounterMoves ==
    ASSUME BffTypeOK, CountsPassed, PassedOrLost, now' = now, NEW k0 \in Kinds, NEW w0 \in Windows,
           Moves(k0, w0),
           \A k \in Kinds, w \in Windows : <<k, w>> # <<k0, w0>> =>
             counts'[k][w].n = counts[k][w].n /\ passed'[k][w] = passed[k][w] /\ Pend(k, w)' = Pend(k, w)
    PROVE  CountsPassed' /\ PassedOrLost'
<1>1. errors \in Nat /\ errors' \in Nat /\ errors' >= errors /\ Limit \in Nat /\ Limit > 0
  <2>1. errors \in Nat /\ (errors' = errors \/ errors' = errors + 1)
    BY DEF Moves, BffTypeOK
  <2> QED
    BY <2>1, BffAssumption
<1>2. ASSUME NEW k \in Kinds, NEW w \in Windows
      PROVE  /\ counts[k][w].n \in Nat /\ passed[k][w] \in Nat /\ Pend(k, w) \in {0, 1} /\ w \in Nat
             /\ Pend(k, w)' \in {0, 1}
  <2>1. Pend(k, w)' \in {0, 1}
    BY Zenon DEF Pend
  <2> QED
    BY <2>1, NumberTypes
<1> HIDE DEF Pend
<1>3. ASSUME NEW k \in Kinds, NEW w \in Windows
      PROVE  /\ counts'[k][w].n \in Nat /\ passed'[k][w] \in Nat
             /\ passed'[k][w] + errors' + Pend(k, w)' >= passed[k][w] + errors + Pend(k, w)
  <2>1. CASE k = k0 /\ w = w0
    BY <1>1, <1>2, <2>1 DEF Moves
  <2>2. CASE <<k, w>> # <<k0, w0>>
    BY <1>1, <1>2, <2>2
  <2> QED
    BY <2>1, <2>2
<1>4. WindowOf(now') = WindowOf(now) /\ WindowOf(now) \in Nat
  <2>1. now \in Nat
    BY DEF BffTypeOK
  <2> QED
    BY <2>1, Division
<1>5. CountsPassed'
  <2> SUFFICES ASSUME NEW k \in Kinds, NEW w \in Windows, w >= WindowOf(now)
               PROVE  /\ passed'[k][w] + Pend(k, w)' <= counts'[k][w].n
                      /\ passed'[k][w] + Pend(k, w)' <= Limit
    BY <1>4 DEF CountsPassed
  <2>1. passed[k][w] + Pend(k, w) <= counts[k][w].n /\ passed[k][w] + Pend(k, w) <= Limit
    BY DEF CountsPassed
  <2>2. CASE k = k0 /\ w = w0
    BY <1>1, <1>2, <2>1, <2>2 DEF Moves
  <2>3. CASE <<k, w>> # <<k0, w0>>
    BY <1>1, <1>2, <2>1, <2>3
  <2> QED
    BY <2>2, <2>3
<1>6. ASSUME NEW k \in Kinds, NEW w \in Windows
      PROVE  \/ counts'[k][w].n <= passed'[k][w] + errors' + Pend(k, w)'
             \/ Limit <= passed'[k][w] + errors' + Pend(k, w)'
  <2>1. \/ counts[k][w].n <= passed[k][w] + errors + Pend(k, w)
        \/ Limit <= passed[k][w] + errors + Pend(k, w)
    BY DEF PassedOrLost
  <2>2. CASE k = k0 /\ w = w0
    BY <1>1, <1>2, <2>1, <2>2 DEF Moves
  <2>3. CASE <<k, w>> # <<k0, w0>>
    BY <1>1, <1>2, <2>1, <2>3
  <2> QED
    BY <2>2, <2>3
<1>7. ASSUME NEW x \in refused' PROVE passed'[x[1]][x[2]] + errors' + Pend(x[1], x[2])' >= Limit
  <2>1. CASE x \in refused
    <3>1. x[1] \in Kinds /\ x[2] \in Windows
      BY <2>1 DEF BffTypeOK
    <3>2. passed[x[1]][x[2]] + errors + Pend(x[1], x[2]) >= Limit
      BY <2>1 DEF PassedOrLost
    <3> QED
      BY <1>1, <1>2, <1>3, <3>1, <3>2
  <2>2. CASE x \notin refused
    <3>1. x = <<k0, w0>> /\ counts'[k0][w0].n = counts[k0][w0].n + 1 /\ counts'[k0][w0].n > Limit
          /\ passed'[k0][w0] = passed[k0][w0] /\ Pend(k0, w0)' = Pend(k0, w0) /\ errors' = errors
      BY <1>7, <2>2 DEF Moves
    <3>2. \/ counts[k0][w0].n <= passed[k0][w0] + errors + Pend(k0, w0)
          \/ Limit <= passed[k0][w0] + errors + Pend(k0, w0)
      BY DEF PassedOrLost
    <3>3. passed'[k0][w0] + errors' + Pend(k0, w0)' >= Limit
      BY <1>1, <1>2, <3>1, <3>2
    <3> QED
      BY <3>1, <3>3
  <2> QED
    BY <2>1, <2>2
<1> QED
  BY <1>5, <1>6, <1>7 DEF PassedOrLost

\* The requests that do not move keep what they have pending.
LEMMA OthersPend ==
    ASSUME NEW r \in Calls, \A q \in Calls : q # r => call'[q] = call[q],
           NEW k, NEW w, Pending(r, k, w)' <=> Pending(r, k, w)
    PROVE  Pend(k, w)' = Pend(k, w)
<1>1. \A q \in Calls : Pending(q, k, w)' <=> Pending(q, k, w)
  BY DEF Pending
<1> QED
  BY <1>1 DEF Pend

LEMMA LimiterStep ==
    ASSUME BffTypeOK, LimiterInv, NEW r \in Calls, Incr(r) \/ Expire(r) \/ LimiterFails(r)
    PROVE  LimiterInv'
<1>0. /\ call \in [Calls -> Requests] /\ counts \in Counters /\ passed \in Tallies
      /\ now \in Nat /\ errors \in Nat
      /\ call[r].pc \in {"incr", "expire"} /\ call[r].kind \in Kinds /\ call[r].window \in Windows
      /\ call[r].window * Window <= now
  <2>1. call[r].pc \in {"incr", "expire"}
    BY DEF Incr, Expire, LimiterFails
  <2>2. call \in [Calls -> Requests] /\ counts \in Counters /\ passed \in Tallies /\ now \in Nat /\ errors \in Nat
    BY DEF BffTypeOK
  <2>3. call[r].window \in Windows
    BY <2>2 DEF Requests
  <2>4. call[r].kind \in Kinds /\ call[r].window * Window <= now
    BY <2>1 DEF LimiterInv, Counting
  <2> QED
    BY <2>1, <2>2, <2>3, <2>4
<1> PICK k0 \in Kinds, w0 \in Windows : k0 = call[r].kind /\ w0 = call[r].window
  BY <1>0
<1>1. /\ call \in [Calls -> Requests] /\ counts \in Counters /\ passed \in Tallies
      /\ k0 \in Kinds /\ w0 \in Windows /\ w0 \in Nat /\ w0 * Window <= now /\ now \in Nat /\ errors \in Nat
      /\ call[r].pc \in {"incr", "expire"}
  BY <1>0, NumberTypes
<1>2. counts[k0][w0].n \in Nat /\ counts[k0][w0].expires \in Nat
  BY <1>1, NumberTypes
<1>3. /\ k0 \in DOMAIN counts /\ w0 \in DOMAIN counts[k0]
      /\ DOMAIN counts[k0][w0] = {"n", "expires"}
      /\ DOMAIN counts = Kinds /\ \A k \in Kinds : DOMAIN counts[k] = Windows
  BY <1>1, CounterDomains
<1> DEFINE moved == \A q \in Calls : q # r => call'[q] = call[q]
           over == call'[r] = Idle \/ (call'[r].pc = "lookup" /\ call'[r].kind = k0 /\ call'[r].window = 0)
           began == call'[r].pc = "expire" /\ call'[r].kind = k0 /\ call'[r].window = w0
           same == \A k \in Kinds, w \in Windows : <<k, w>> # <<k0, w0>> => counts'[k][w] = counts[k][w] /\ passed'[k][w] = passed[k][w]
           n == counts[k0][w0].n
           n1 == counts'[k0][w0].n
           e1 == counts'[k0][w0].expires
           p == passed[k0][w0]
           p1 == passed'[k0][w0]
\* What a verdict does.
<1>m. ASSUME NEW m \in Nat, Verdict(r, m)
      PROVE  /\ moved /\ over
             /\ \A k \in Kinds, w \in Windows : <<k, w>> # <<k0, w0>> => passed'[k][w] = passed[k][w]
             /\ \/ m > Limit /\ p1 = p /\ refused' = refused \cup {<<k0, w0>>}
                \/ m <= Limit /\ p1 = p + 1 /\ refused' = refused
  <2>1. CASE m > Limit
    BY <1>1, <1>m, <2>1 DEF Verdict, Done
  <2>2. CASE ~(m > Limit)
    <3>1. /\ call' = [call EXCEPT ![r].pc = "lookup", ![r].window = 0]
          /\ passed' = [passed EXCEPT ![k0][w0] = @ + 1] /\ refused' = refused
      BY <1>m, <2>2 DEF Verdict
    <3>2. moved /\ over
      BY <1>1, <3>1 DEF Requests
    <3>3. p1 = p + 1 /\ \A k \in Kinds, w \in Windows : <<k, w>> # <<k0, w0>> => passed'[k][w] = passed[k][w]
      BY <1>1, <3>1 DEF Tallies
    <3>4. m <= Limit
      BY <2>2, BffAssumption
    <3> QED
      BY <3>1, <3>2, <3>3, <3>4
  <2> QED
    BY <2>1, <2>2
\* What the step does.
<1>4. /\ moved /\ same /\ now' = now
      /\ \/ began /\ Incr(r) /\ n = 0 /\ n1 = 1 /\ e1 = counts[k0][w0].expires /\ p1 = p
              /\ errors' = errors /\ refused' = refused
         \/ /\ over /\ Incr(r) /\ n > 0 /\ n1 = n + 1 /\ e1 = counts[k0][w0].expires /\ errors' = errors
            /\ \/ n1 > Limit /\ p1 = p /\ refused' = refused \cup {<<k0, w0>>}
               \/ n1 <= Limit /\ p1 = p + 1 /\ refused' = refused
         \/ /\ over /\ Expire(r) /\ n1 = n /\ (n # 0 => e1 = now + Window) /\ (n = 0 => e1 = counts[k0][w0].expires)
            /\ p1 = p + 1 /\ errors' = errors /\ refused' = refused
         \/ /\ over /\ LimiterFails(r) /\ e1 = counts[k0][w0].expires /\ p1 = p
            /\ errors' = errors + 1 /\ refused' = refused
            /\ \/ n1 = n
               \/ n1 = n + 1 /\ call[r].pc = "incr"
  <2>1. CASE Incr(r)
    <3>1. counts' = [counts EXCEPT ![k0][w0].n = n + 1] /\ now' = now /\ errors' = errors
      BY <2>1 DEF Incr, RateKey
    <3>2. /\ n1 = n + 1 /\ e1 = counts[k0][w0].expires
          /\ \A k \in Kinds, w \in Windows : <<k, w>> # <<k0, w0>> => counts'[k][w] = counts[k][w]
      BY <1>3, <3>1
    <3>3. CASE n + 1 = 1
      <4>1. call' = [call EXCEPT ![r].pc = "expire"] /\ passed' = passed /\ refused' = refused
        BY <2>1, <3>3, Zenon DEF Incr, Goto, RateKey
      <4>2. moved /\ began
        BY <1>1, <4>1 DEF Requests
      <4>3. n = 0
        BY <1>2, <3>3
      <4>4. same /\ n1 = 1 /\ p1 = p
        BY <3>2, <4>1, <4>3
      <4> QED
        BY <2>1, <3>1, <3>2, <4>1, <4>2, <4>3, <4>4, Zenon
    <3>4. CASE n + 1 # 1
      <4>1. Verdict(r, n + 1)
        BY <2>1, <3>4, Zenon DEF Incr, RateKey
      <4>2. n + 1 \in Nat /\ n > 0
        BY <1>2, <3>4
      <4> QED
        BY <1>m, <2>1, <3>1, <3>2, <4>1, <4>2
    <3> QED
      BY <3>3, <3>4
  <2>2. CASE Expire(r)
    <3>1. Verdict(r, 1) /\ now' = now /\ errors' = errors
      BY <2>2 DEF Expire
    <3>2. 1 \in Nat /\ ~(1 > Limit)
      BY BffAssumption
    <3>3. moved /\ over /\ p1 = p + 1 /\ refused' = refused
          /\ \A k \in Kinds, w \in Windows : <<k, w>> # <<k0, w0>> => passed'[k][w] = passed[k][w]
      BY <1>m, <3>1, <3>2
    <3>4. /\ n1 = n /\ (n # 0 => e1 = now + Window) /\ (n = 0 => e1 = counts[k0][w0].expires)
          /\ \A k \in Kinds, w \in Windows : <<k, w>> # <<k0, w0>> => counts'[k][w] = counts[k][w]
      <4>1. CASE n = 0
        BY <2>2, <4>1 DEF Expire, RateKey
      <4>2. CASE n # 0
        <5>1. counts' = [counts EXCEPT ![k0][w0].expires = now + Window]
          BY <2>2, <4>2 DEF Expire, RateKey
        <5> QED
          BY <1>3, <4>2, <5>1
      <4> QED
        BY <4>1, <4>2
    <3> QED
      BY <2>2, <3>1, <3>3, <3>4
  <2>3. CASE LimiterFails(r)
    <3>1. /\ call' = [call EXCEPT ![r].pc = "lookup", ![r].window = 0]
          /\ passed' = passed /\ refused' = refused /\ now' = now /\ errors' = errors + 1
      BY <2>3 DEF LimiterFails, Error
    <3>2. moved /\ over
      BY <1>1, <3>1 DEF Requests
    <3>3. /\ e1 = counts[k0][w0].expires
          /\ \/ n1 = n
             \/ n1 = n + 1 /\ call[r].pc = "incr"
          /\ \A k \in Kinds, w \in Windows : <<k, w>> # <<k0, w0>> => counts'[k][w] = counts[k][w]
      <4>1. CASE counts' = counts
        BY <4>1
      <4>2. CASE call[r].pc = "incr" /\ counts' = [counts EXCEPT ![k0][w0].n = @ + 1]
        BY <1>3, <4>2
      <4> QED
        BY <2>3, <4>1, <4>2 DEF LimiterFails, RateKey
    <3>4. same /\ p1 = p
      BY <3>1, <3>3
    <3> QED
      BY <2>3, <3>1, <3>2, <3>3, <3>4, Zenon
  <2> QED
    BY <2>1, <2>2, <2>3
<1>5. /\ n \in Nat /\ p \in Nat /\ n1 \in Nat /\ Idle.pc = "idle"
  <2>1. n \in Nat /\ p \in Nat /\ n + 1 \in Nat
    BY <1>1, NumberTypes
  <2>2. n1 \in {n, n + 1, 1}
    <3> HIDE DEF over, began, moved, same, n, n1, e1, p, p1
    <3> QED
      BY <1>4
  <2>3. n1 \in Nat
    <3> HIDE DEF n, n1
    <3> QED
      BY <2>1, <2>2
  <2> QED
    BY <2>1, <2>3, IdleType
<1>a. began => /\ ~over /\ call[r].pc = "incr" /\ n = 0 /\ n1 = 1 /\ e1 = counts[k0][w0].expires /\ p1 = p
               /\ errors' = errors /\ refused' = refused
  BY <1>4, <1>5 DEF Incr
<1>b. over /\ call[r].pc = "incr" =>
        /\ e1 = counts[k0][w0].expires
        /\ \/ n > 0 /\ n1 = n + 1 /\ n1 > Limit /\ p1 = p /\ errors' = errors /\ refused' = refused \cup {<<k0, w0>>}
           \/ n > 0 /\ n1 = n + 1 /\ n1 <= Limit /\ p1 = p + 1 /\ errors' = errors /\ refused' = refused
           \/ n1 \in {n, n + 1} /\ p1 = p /\ errors' = errors + 1 /\ refused' = refused
  BY <1>4, <1>5 DEF Expire
<1>c. over /\ call[r].pc = "expire" =>
        /\ n1 = n /\ refused' = refused
        /\ \/ e1 = now + Window /\ n # 0 /\ p1 = p + 1 /\ errors' = errors
           \/ e1 = counts[k0][w0].expires /\ n = 0 /\ p1 = p + 1 /\ errors' = errors
           \/ e1 = counts[k0][w0].expires /\ p1 = p /\ errors' = errors + 1
  BY <1>4, <1>5 DEF Incr
\* Only the one request of its kind and window can be pending, and it moves.
<1>6. /\ began => call[r].pc = "incr"
      /\ began => Pending(r, k0, w0)' /\ ~Pending(r, k0, w0)
      /\ over => \A k, w : ~Pending(r, k, w)'
      /\ call[r].pc = "incr" => \A k, w : ~Pending(r, k, w)
      /\ call[r].pc = "expire" => Pending(r, k0, w0)
      /\ \A k, w : <<k, w>> # <<k0, w0>> => ~Pending(r, k, w)' /\ ~Pending(r, k, w)
  BY <1>4, <1>5, <1>a DEF Pending
<1>7. \A q \in Calls : \A k, w : q # r => (Pending(q, k, w)' <=> Pending(q, k, w))
  BY <1>4 DEF Pending
<1>8. \A q \in Calls, k \in Kinds, w \in Windows : Pending(q, k, w) =>
         counts[k][w].n > 0 /\ counts[k][w].expires = 0
  BY DEF LimiterInv, Counting
<1>9. \A q \in Calls, k \in Kinds, w \in Windows : Pending(q, k, w) /\ Pending(r, k, w) => q = r
  BY DEF LimiterInv, Counting
<1>d. over \/ began
  BY <1>4
<1>e. moved /\ same /\ now' = now
  BY <1>4
<1> HIDE DEF over, began
<1>10. Moves(k0, w0)
  <2>1. CASE began
    <3>1. \A q \in Calls : ~Pending(q, k0, w0)
      BY <1>1, <1>a, <1>8, <2>1
    <3>2. Pend(k0, w0) = 0
      BY <3>1 DEF Pend
    <3>3. Pend(k0, w0)' = 1
      BY <1>6, <2>1 DEF Pend
    <3> HIDE DEF Pend
    <3> QED
      BY <1>a, <2>1, <3>2, <3>3 DEF Moves
  <2>2. CASE over /\ call[r].pc = "incr"
    <3>1. Pending(r, k0, w0)' <=> Pending(r, k0, w0)
      BY <1>6, <2>2
    <3>2. Pend(k0, w0)' = Pend(k0, w0)
      BY <1>e, <3>1, OthersPend
    <3> HIDE DEF Pend
    <3> QED
      BY <1>b, <2>2, <3>2 DEF Moves
  <2>3. CASE over /\ call[r].pc = "expire"
    <3>1. ASSUME NEW q \in Calls PROVE ~Pending(q, k0, w0)'
      <4>1. CASE q = r
        BY <1>6, <2>3, <4>1
      <4>3. Pending(r, k0, w0)
        BY <1>6, <2>3
      <4>2. CASE q # r
        BY <1>1, <1>7, <1>9, <4>2, <2>3, <4>3
      <4> QED
        BY <4>1, <4>2
    <3>2. Pend(k0, w0)' = 0
      BY <3>1 DEF Pend
    <3>3. Pend(k0, w0) = 1
      BY <1>6, <2>3 DEF Pend
    <3> HIDE DEF Pend
    <3> QED
      BY <1>c, <2>3, <3>2, <3>3 DEF Moves
  <2> QED
    BY <1>1, <1>d, <2>1, <2>2, <2>3
<1>11. CountsPassed' /\ PassedOrLost'
  <2>1. ASSUME NEW k \in Kinds, NEW w \in Windows, <<k, w>> # <<k0, w0>> PROVE Pend(k, w)' = Pend(k, w)
    <3>1. Pending(r, k, w)' <=> Pending(r, k, w)
      BY <1>6, <2>1
    <3> QED
      BY <1>e, <3>1, OthersPend
  <2>2. \A k \in Kinds, w \in Windows : <<k, w>> # <<k0, w0>> =>
          counts'[k][w].n = counts[k][w].n /\ passed'[k][w] = passed[k][w] /\ Pend(k, w)' = Pend(k, w)
    BY <1>e, <2>1
  <2>3. CountsPassed /\ PassedOrLost
    BY DEF LimiterInv
  <2> QED
    BY <1>1, <1>e, <1>10, <2>2, <2>3, CounterMoves
<1>12. Counting'
  <2>1. \A q \in Calls : call'[q].pc \in {"incr", "expire", "lookup", "fetch", "store"} =>
          call'[q].kind \in Kinds /\ call'[q].window * Window <= now
    <3>1. \A q \in Calls : call[q].pc \in {"incr", "expire", "lookup", "fetch", "store"} =>
            call[q].kind \in Kinds /\ call[q].window * Window <= now
      BY DEF LimiterInv, Counting
    <3>2. 0 * Window <= now
      BY <1>1, BffAssumption
    <3> QED
      BY <1>1, <1>4, <1>5, <3>1, <3>2 DEF over, began
  <2>2. ASSUME NEW q \in Calls, NEW s \in Calls, NEW k \in Kinds, NEW w \in Windows,
               Pending(q, k, w)', Pending(s, k, w)'
        PROVE  q = s
    <3>1. ASSUME NEW x \in Calls, NEW y \in Calls, Pending(x, k, w)', Pending(y, k, w)', x # y
          PROVE  y # r
      <4>1. CASE began /\ y = r
        <5>1. Pending(x, k, w) /\ k = k0 /\ w = w0
          BY <1>6, <1>7, <3>1, <4>1
        <5>2. n = 0
          BY <1>a, <4>1
        <5> QED
          BY <1>8, <5>1, <5>2
      <4>2. CASE over
        BY <1>6, <3>1, <4>2
      <4>3. CASE began /\ y # r
        BY <4>3
      <4> QED
        BY <1>d, <4>1, <4>2, <4>3
    <3> QED
      BY <1>7, <2>2, <3>1 DEF LimiterInv, Counting
  <2>3. ASSUME NEW q \in Calls, NEW k \in Kinds, NEW w \in Windows, Pending(q, k, w)'
        PROVE  counts'[k][w].n > 0 /\ counts'[k][w].expires = 0
    <3>1. CASE began /\ k = k0 /\ w = w0
      BY <1>1, <1>a, <3>1 DEF LimiterInv, Counting
    <3>2. CASE began /\ <<k, w>> # <<k0, w0>>
      <4>1. q # r
        BY <1>6, <2>3, <3>2
      <4> QED
        BY <1>7, <1>8, <1>e, <2>3, <3>2, <4>1
    <3>3. CASE over
      <4>1. q # r /\ Pending(q, k, w)
        BY <1>6, <1>7, <2>3, <3>3
      <4>2. counts[k][w].n > 0 /\ counts[k][w].expires = 0
        BY <1>8, <4>1
      <4>3. CASE <<k, w>> # <<k0, w0>>
        BY <1>e, <4>2, <4>3
      <4>4. CASE k = k0 /\ w = w0
        <5>1. call[r].pc = "incr"
          BY <1>1, <1>6, <1>9, <4>1, <4>4
        <5>2. n > 0 /\ counts[k0][w0].expires = 0
          BY <4>2, <4>4
        <5>3. e1 = counts[k0][w0].expires /\ n1 \in {n, n + 1}
          BY <1>b, <3>3, <5>1
        <5>4. n1 > 0
          <6> HIDE DEF n, n1
          <6> QED
            BY <1>5, <5>2, <5>3
        <5> QED
          BY <4>4, <5>2, <5>3, <5>4
      <4> QED
        BY <4>3, <4>4
    <3> QED
      BY <1>d, <3>1, <3>2, <3>3
  <2>4. ASSUME NEW k \in Kinds, NEW w \in Windows, counts'[k][w].n = 0 PROVE counts'[k][w].expires = 0
    <3>1. counts[k][w].n = 0 => counts[k][w].expires = 0
      BY DEF LimiterInv, Counting
    <3>2. CASE <<k, w>> # <<k0, w0>>
      BY <1>e, <2>4, <3>1, <3>2
    <3>3. CASE k = k0 /\ w = w0
      <4>1. n1 = 0 /\ (n = 0 => counts[k0][w0].expires = 0)
        BY <2>4, <3>1, <3>3
      <4>2. n1 = 0 /\ n \in Nat /\ n + 1 # 0
        BY <1>5, <4>1
      <4>3. n = 0 /\ e1 = counts[k0][w0].expires
        <5>1. call[r].pc \in {"incr", "expire"}
          BY <1>1
        <5> HIDE DEF n, n1, e1, p, p1
        <5> QED
          BY <1>a, <1>b, <1>c, <1>d, <4>2, <5>1
      <4> QED
        BY <3>3, <4>1, <4>3
    <3> QED
      BY <3>2, <3>3
  <2> QED
    BY <1>e, <2>1, <2>2, <2>3, <2>4 DEF Counting
<1>13. Lasting'
  <2> SUFFICES ASSUME NEW k \in Kinds, NEW w \in Windows, counts'[k][w].expires # 0
               PROVE  counts'[k][w].expires >= (w + 1) * Window
    BY DEF Lasting
  <2>1. counts[k][w].expires # 0 => counts[k][w].expires >= (w + 1) * Window
    BY DEF LimiterInv, Lasting
  <2>2. CASE counts'[k][w].expires = counts[k][w].expires
    BY <2>1, <2>2
  <2>3. CASE k = k0 /\ w = w0 /\ e1 = now + Window
    <3>1. Window \in Nat
      BY BffAssumption
    <3>2. (w0 + 1) * Window = w0 * Window + Window
      BY <1>1, <3>1, Z3
    <3>3. w0 * Window \in Nat
      BY <1>1, <3>1
    <3> QED
      BY <1>1, <2>3, <3>1, <3>2, <3>3
  <2>4. CASE k = k0 /\ w = w0 /\ e1 # now + Window
    BY <1>1, <1>a, <1>b, <1>c, <1>d, <2>2, <2>4
  <2>5. CASE <<k, w>> # <<k0, w0>>
    BY <1>e, <2>2, <2>5
  <2> QED
    BY <2>3, <2>4, <2>5
<1> QED
  BY <1>11, <1>12, <1>13 DEF LimiterInv

\* The rest of a request does not touch the limiter.
LEMMA ServedStill ==
    ASSUME BffTypeOK, BffTypeOK', LimiterInv, NEW r \in Calls,
           \/ Lookup(r) \/ Fetch(r) \/ Store(r) \/ Forward(r)
           \/ ListKeys(r) \/ DeleteKeys(r) \/ InvalidationFails(r)
    PROVE  LimiterInv'
<1> DEFINE limited == {"incr", "expire", "lookup", "fetch", "store"}
<1>1. /\ UNCHANGED <<counts, passed, refused, now>> /\ call[r].pc \notin {"incr", "expire"}
  BY DEF Lookup, Fetch, Store, Forward, ListKeys, DeleteKeys, InvalidationFails
<1>2. errors \in Nat /\ errors' \in Nat /\ errors' >= errors
  <2>1. errors' = errors \/ errors' = errors + 1
    BY DEF Lookup, Fetch, Store, Forward, ListKeys, DeleteKeys, InvalidationFails, Error
  <2> QED
    BY <2>1 DEF BffTypeOK
<1>3. call \in [Calls -> Requests] /\ \A q \in Calls : call[q].pc \in limited =>
        call[q].kind \in Kinds /\ call[q].window * Window <= now
  BY DEF BffTypeOK, LimiterInv, Counting
<1>4. /\ \A q \in Calls : q # r => call'[q] = call[q]
      /\ \/ call'[r].pc \notin limited
         \/ call[r].pc \in limited /\ call'[r].pc \in {"fetch", "store"}
              /\ call'[r].kind = call[r].kind /\ call'[r].window = call[r].window
  <2>1. ASSUME Done(r) PROVE call'[r].pc \notin limited /\ \A q \in Calls : q # r => call'[q] = call[q]
    BY <1>3, <2>1, IdleType DEF Done
  <2>2. ASSUME NEW p, Goto(r, p)
        PROVE  /\ call'[r].pc = p /\ call'[r].kind = call[r].kind /\ call'[r].window = call[r].window
               /\ \A q \in Calls : q # r => call'[q] = call[q]
    BY <1>3, <2>2 DEF Goto, Requests
  <2>3. ASSUME NEW p, NEW v, call' = [call EXCEPT ![r].pc = p, ![r].v = v]
        PROVE  /\ call'[r].pc = p /\ call'[r].kind = call[r].kind /\ call'[r].window = call[r].window
               /\ \A q \in Calls : q # r => call'[q] = call[q]
    BY <1>3, <2>3 DEF Requests
  <2>4. CASE Lookup(r)
    BY <2>1, <2>2, <2>4 DEF Lookup
  <2>5. CASE Fetch(r)
    BY <2>1, <2>2, <2>3, <2>5 DEF Fetch
  <2>6. CASE Store(r)
    BY <2>1, <2>6 DEF Store
  <2>7. CASE Forward(r)
    BY <2>1, <2>3, <2>7, SMTT(30) DEF Forward
  <2>8. CASE ListKeys(r)
    BY <2>1, <2>2, <2>8 DEF ListKeys, Tell
  <2>9. CASE DeleteKeys(r) \/ InvalidationFails(r)
    BY <2>1, <2>9 DEF DeleteKeys, InvalidationFails, Tell
  <2> QED
    BY <2>4, <2>5, <2>6, <2>7, <2>8, <2>9
<1>5. \A q \in Calls : call'[q].pc = "expire" <=> call[q].pc = "expire"
  BY <1>1, <1>4
<1>6. \A q \in Calls : call[q].pc = "expire" =>
        call'[q].kind = call[q].kind /\ call'[q].window = call[q].window
  BY <1>1, <1>4
<1>7. \A q \in Calls : call'[q].pc \in limited =>
        call'[q].kind \in Kinds /\ call'[q].window * Window <= now
  BY <1>3, <1>4
<1> QED
  BY <1>1, <1>2, <1>5, <1>6, <1>7, LimiterStill

LEMMA ArriveStill ==
    ASSUME BffTypeOK, LimiterInv, NEW r \in Calls, NEW u \in Users,
           NEW k \in Kinds \cup {"write", "other"}, Arrive(r, u, k)
    PROVE  LimiterInv'
<1>1. UNCHANGED <<counts, passed, refused, now, errors>> /\ errors \in Nat /\ now \in Nat /\ call[r].pc = "idle"
  BY DEF Arrive, BffTypeOK
<1>2. WindowOf(now) * Window <= now
  BY <1>1, Division
<1>3. \A q \in Calls : q # r => call'[q] = call[q]
  BY DEF Arrive, BffTypeOK
<1>4. /\ call'[r].pc \in {"incr", "forward"}
      /\ call'[r].pc = "incr" => call'[r].kind \in Kinds /\ call'[r].window = WindowOf(now)
  BY DEF Arrive, BffTypeOK
<1>5. \A q \in Calls : call[q].pc \in {"incr", "expire", "lookup", "fetch", "store"} =>
        call[q].kind \in Kinds /\ call[q].window * Window <= now
  BY DEF LimiterInv, Counting
<1>6. \A q \in Calls : call'[q].pc \in {"incr", "expire", "lookup", "fetch", "store"} =>
        call'[q].kind \in Kinds /\ call'[q].window * Window <= now
  BY <1>2, <1>3, <1>4, <1>5
<1>7. errors' \in Nat /\ errors' >= errors
  BY <1>1
<1>8. /\ \A q \in Calls : call'[q].pc = "expire" <=> call[q].pc = "expire"
      /\ \A q \in Calls : call[q].pc = "expire" =>
           call'[q].kind = call[q].kind /\ call'[q].window = call[q].window
  BY <1>1, <1>3, <1>4
<1> QED
  BY <1>1, <1>6, <1>7, <1>8, LimiterStill

LEMMA KillStill == ASSUME BffTypeOK, LimiterInv, KillBff PROVE LimiterInv'
<1>1. UNCHANGED <<counts, passed, refused, now>> /\ errors' = errors + 1 /\ errors \in Nat /\ Limit \in Nat
  BY BffAssumption DEF KillBff, Error, BffTypeOK
<1>2. \A q \in Calls : call'[q].pc = "idle"
  BY IdleType DEF KillBff
<1>3. \A q \in Calls : \A k, w : ~Pending(q, k, w)'
  BY <1>2 DEF Pending
<1>4. \A k, w : Pend(k, w)' = 0
  BY <1>3 DEF Pend
<1> HIDE DEF Pend
<1>5. Counting' /\ Lasting'
  <2>1. Counting /\ Lasting
    BY DEF LimiterInv
  <2>2. \A q \in Calls : call'[q].pc \notin {"incr", "expire", "lookup", "fetch", "store"}
    BY <1>2
  <2>3. \A k \in Kinds, w \in Windows : counts'[k][w].n = 0 => counts'[k][w].expires = 0
    BY <1>1, <2>1 DEF Counting
  <2>4. Counting'
    BY <1>3, <2>2, <2>3, Zenon DEF Counting
  <2> QED
    BY <1>1, <2>1, <2>4 DEF Lasting
<1>6. CountsPassed'
  <2> SUFFICES ASSUME NEW k \in Kinds, NEW w \in Windows, w >= WindowOf(now)
               PROVE  passed[k][w] <= counts[k][w].n /\ passed[k][w] <= Limit
    <3>1. \A k \in Kinds, w \in Windows : passed'[k][w] + Pend(k, w)' = passed[k][w]
      BY <1>1, <1>4, NumberTypes
    <3> QED
      BY <1>1, <3>1 DEF CountsPassed, WindowOf
  <2>1. passed[k][w] + Pend(k, w) <= counts[k][w].n /\ passed[k][w] + Pend(k, w) <= Limit
    BY DEF LimiterInv, CountsPassed
  <2> QED
    BY <1>1, <2>1, NumberTypes
<1>7. ASSUME NEW k \in Kinds, NEW w \in Windows
      PROVE  /\ passed'[k][w] + errors' + Pend(k, w)' \in Nat /\ passed[k][w] + errors + Pend(k, w) \in Nat
             /\ passed'[k][w] + errors' + Pend(k, w)' >= passed[k][w] + errors + Pend(k, w)
  BY <1>1, <1>4, NumberTypes
<1>8. ASSUME NEW k \in Kinds, NEW w \in Windows
      PROVE  \/ counts'[k][w].n <= passed'[k][w] + errors' + Pend(k, w)'
             \/ Limit <= passed'[k][w] + errors' + Pend(k, w)'
  <2>1. \/ counts[k][w].n <= passed[k][w] + errors + Pend(k, w)
        \/ Limit <= passed[k][w] + errors + Pend(k, w)
    BY DEF LimiterInv, PassedOrLost
  <2>2. counts' = counts /\ counts[k][w].n \in Nat
    BY <1>1, NumberTypes
  <2> QED
    BY <1>1, <1>7, <2>1, <2>2
<1>9. ASSUME NEW x \in refused PROVE passed'[x[1]][x[2]] + errors' + Pend(x[1], x[2])' >= Limit
  <2>1. x[1] \in Kinds /\ x[2] \in Windows
    BY DEF BffTypeOK
  <2>2. passed[x[1]][x[2]] + errors + Pend(x[1], x[2]) >= Limit
    BY DEF LimiterInv, PassedOrLost
  <2> QED
    BY <1>1, <1>7, <2>1, <2>2
<1>10. PassedOrLost'
  BY <1>1, <1>8, <1>9 DEF PassedOrLost
<1> QED
  BY <1>5, <1>6, <1>10 DEF LimiterInv

LEMMA TickStill == ASSUME BffTypeOK, LimiterInv, Tick PROVE LimiterInv'
<1>1. UNCHANGED <<call, passed, refused, errors>> /\ now' = now + 1 /\ now \in Nat /\ errors \in Nat /\ Limit \in Nat
  BY BffAssumption DEF Tick, BffTypeOK
<1>2. ASSUME NEW k \in Kinds, NEW w \in Windows
      PROVE  \/ counts'[k][w] = counts[k][w]
             \/ /\ counts'[k][w].n = 0 /\ counts'[k][w].expires = 0
                /\ counts[k][w].expires # 0 /\ counts[k][w].expires <= now + 1
  BY DEF Tick, NoCount
<1>3. ASSUME NEW k, NEW w PROVE Pend(k, w)' = Pend(k, w)
  BY <1>1 DEF Pend, Pending
<1>4. \A q \in Calls : \A k, w : Pending(q, k, w)' <=> Pending(q, k, w)
  BY <1>1 DEF Pending
<1> HIDE DEF Pend
<1>5. Counting'
  <2>1. Counting
    BY DEF LimiterInv
  <2>2. ASSUME NEW q \in Calls, call[q].pc \in {"incr", "expire", "lookup", "fetch", "store"}
        PROVE  call[q].kind \in Kinds /\ call[q].window * Window <= now + 1
    <3>1. call[q].kind \in Kinds /\ call[q].window * Window <= now
      BY <2>1, <2>2 DEF Counting
    <3>2. call[q].window \in Nat /\ Window \in Nat
      BY NumberTypes, BffAssumption DEF BffTypeOK, Requests, Windows
    <3>3. call[q].window * Window \in Nat
      BY <3>2
    <3> QED
      BY <1>1, <3>1, <3>3
  <2>3. ASSUME NEW q \in Calls, NEW k \in Kinds, NEW w \in Windows, Pending(q, k, w)
        PROVE  counts'[k][w].n > 0 /\ counts'[k][w].expires = 0
    BY <1>2, <2>1, <2>3 DEF Counting
  <2>4. \A k \in Kinds, w \in Windows : counts'[k][w].n = 0 => counts'[k][w].expires = 0
    BY <1>2, <2>1 DEF Counting
  <2>5. \A q, s \in Calls, k \in Kinds, w \in Windows : Pending(q, k, w)' /\ Pending(s, k, w)' => q = s
    BY <1>4, <2>1, Zenon DEF Counting
  <2>6. \A q \in Calls, k \in Kinds, w \in Windows :
          Pending(q, k, w)' => counts'[k][w].n > 0 /\ counts'[k][w].expires = 0
    BY <1>4, <2>3
  <2> QED
    BY <1>1, <2>2, <2>4, <2>5, <2>6 DEF Counting
<1>6. Lasting'
  BY <1>2, Zenon DEF Lasting, LimiterInv
<1>7. CountsPassed'
  <2> SUFFICES ASSUME NEW k \in Kinds, NEW w \in Windows, w >= WindowOf(now + 1)
               PROVE  passed[k][w] + Pend(k, w) <= counts'[k][w].n /\ passed[k][w] + Pend(k, w) <= Limit
    BY <1>1, <1>3 DEF CountsPassed
  <2>1. w \in Nat /\ WindowOf(now) \in Nat /\ WindowOf(now + 1) \in Nat /\ WindowOf(now) <= WindowOf(now + 1)
        /\ (w + 1) * Window > now + 1
    BY <1>1, NumberTypes, Division
  <2>2. w >= WindowOf(now)
    BY <2>1
  <2>3. passed[k][w] + Pend(k, w) <= counts[k][w].n /\ passed[k][w] + Pend(k, w) <= Limit
    BY <2>2 DEF LimiterInv, CountsPassed
  <2>4. counts'[k][w] = counts[k][w]
    <3>1. counts[k][w].expires # 0 => counts[k][w].expires >= (w + 1) * Window
      BY DEF LimiterInv, Lasting
    <3>2. (w + 1) * Window \in Nat /\ counts[k][w].expires \in Nat
      BY <2>1, BffAssumption, NumberTypes
    <3> QED
      BY <1>1, <1>2, <2>1, <3>1, <3>2
  <2> QED
    BY <2>3, <2>4
<1>8. ASSUME NEW k \in Kinds, NEW w \in Windows
      PROVE  \/ counts'[k][w].n <= passed[k][w] + errors + Pend(k, w)
             \/ Limit <= passed[k][w] + errors + Pend(k, w)
  <2>1. \/ counts[k][w].n <= passed[k][w] + errors + Pend(k, w)
        \/ Limit <= passed[k][w] + errors + Pend(k, w)
    BY DEF LimiterInv, PassedOrLost
  <2> QED
    BY <1>1, <1>2, <2>1, NumberTypes
<1>9. PassedOrLost'
  BY <1>1, <1>3, <1>8, Zenon DEF PassedOrLost, LimiterInv
<1> QED
  BY <1>5, <1>6, <1>7, <1>9 DEF LimiterInv
-----------------------------------------------------------------------------
(* The BFF's theorems *)

LEMMA InitBff == Init => BffInv
<1> SUFFICES ASSUME Init PROVE BffInv
  OBVIOUS
<1>1. BffInit
  BY DEF Init
<1>2. 0 \in Nat /\ Idle \in Requests /\ Idle.pc = "idle" /\ Limit \in Nat /\ Window \in Nat /\ 0 \in 0..MaxTicks
  BY IdleType, BffAssumption
<1>3. BffTypeOK
  BY <1>1, <1>2 DEF BffInit, BffTypeOK, Pages, Counters, Tallies, NoPage, NoCount
<1>4. ToldIsOwn /\ OwnWritesSeen
  <2>1. ToldIsOwn
    BY <1>1, <1>2 DEF BffInit, ToldIsOwn
  <2>2. \A u \in Users : cache[u]["list"].left = 0
    BY <1>1 DEF BffInit, NoPage, Kinds
  <2> QED
    BY <2>1, <2>2 DEF OwnWritesSeen, Cached
<1>5. \A r \in Calls : \A k, w : ~Pending(r, k, w)
  BY <1>1, <1>2 DEF BffInit, Pending
<1>6. \A k, w : Pend(k, w) = 0
  BY <1>5 DEF Pend
<1>7. Counting /\ Lasting
  BY <1>1, <1>2, <1>5 DEF BffInit, Counting, Lasting, NoCount
<1>8. \A k \in Kinds, w \in Windows : counts[k][w].n = 0 /\ passed[k][w] = 0
  BY <1>1 DEF BffInit, NoCount
<1>9. refused = {} /\ errors = 0
  BY <1>1 DEF BffInit
<1> HIDE DEF Pend
<1>10. CountsPassed
  BY <1>2, <1>6, <1>8 DEF CountsPassed
<1>11. PassedOrLost
  BY <1>6, <1>8, <1>9 DEF PassedOrLost
<1> QED
  BY <1>3, <1>4, <1>7, <1>10, <1>11 DEF BffInv

LEMMA BffStep == BffInv /\ BffNext => BffInv'
<1> SUFFICES ASSUME BffInv, BffNext PROVE BffInv'
  OBVIOUS
<1>1. BffTypeOK /\ LimiterInv /\ Counting /\ ToldIsOwn /\ OwnWritesSeen
  BY DEF BffInv, LimiterInv
<1>2. ASSUME NEW r \in Calls, Serve(r) PROVE BffInv'
  <2>1. BffTypeOK'
    BY <1>1, <1>2, ServeTypes
  <2>2. ToldIsOwn' /\ OwnWritesSeen'
    BY <1>1, <1>2, OwnStep
  <2>3. LimiterInv'
    BY <1>1, <1>2, <2>1, LimiterStep, ServedStill DEF Serve
  <2> QED
    BY <2>1, <2>2, <2>3 DEF BffInv, LimiterInv
<1>3. ASSUME NEW r \in Calls, NEW u \in Users, NEW k \in Kinds \cup {"write", "other"}, Arrive(r, u, k)
      PROVE  BffInv'
  <2>1. BffTypeOK'
    BY <1>1, <1>3, ArriveTypes
  <2>2. ToldIsOwn' /\ OwnWritesSeen'
    BY <1>1, <1>3, OwnElsewhere
  <2>3. LimiterInv'
    BY <1>1, <1>3, ArriveStill
  <2> QED
    BY <2>1, <2>2, <2>3 DEF BffInv, LimiterInv
<1>4. ASSUME KillBff PROVE BffInv'
  BY <1>1, <1>4, KillTypes, OwnElsewhere, KillStill DEF BffInv, LimiterInv
<1>5. ASSUME Tick PROVE BffInv'
  BY <1>1, <1>5, TickTypes, OwnElsewhere, TickStill DEF BffInv, LimiterInv
<1>6. ASSUME \E r \in Calls : call[r].pc = "idle",
             NEW u \in Users, NEW k \in Kinds \cup {"write", "other"}, Arrive(Place, u, k)
      PROVE  BffInv'
  <2>1. Place \in Calls
    BY <1>6 DEF Place
  <2>2. \E r \in Calls : Arrive(r, u, k)
    BY <1>6, <2>1 DEF Arrive
  <2> QED
    BY <1>3, <2>2
<1>7. Idle.user \in Users
  BY IdleType DEF Requests
<1> QED
  BY <1>2, <1>4, <1>5, <1>6, <1>7 DEF BffNext

LEMMA BffStutter == BffInv /\ UNCHANGED bffVars => BffInv'
<1> SUFFICES ASSUME BffInv, UNCHANGED bffVars PROVE BffInv'
  OBVIOUS
<1>1. UNCHANGED <<devices, own, told, cache, counts, now, call, passed, refused, calls, errors>>
  BY DEF bffVars
<1>2. \A k, w : Pend(k, w)' = Pend(k, w)
  BY <1>1 DEF Pend, Pending
<1>3. BffTypeOK' /\ ToldIsOwn' /\ OwnWritesSeen'
  BY <1>1 DEF BffInv, BffTypeOK, ToldIsOwn, OwnWritesSeen, Cached
<1>4. Counting' /\ Lasting' /\ CountsPassed' /\ PassedOrLost'
  BY <1>1 DEF BffInv, Counting, Lasting, CountsPassed, PassedOrLost, Pend, Pending, WindowOf
<1> QED
  BY <1>3, <1>4 DEF BffInv

LEMMA BffInvariance == Spec => []BffInv
<1>1. BffInv /\ [Next]_vars => BffInv'
  BY BffStep, BffStutter DEF Next, vars
<1> QED
  BY <1>1, InitBff, PTL DEF Spec

\* Nobody sees a cached list that is older than what they were told was done,
\* but for a page read before the change, or one whose deletion failed: for any
\* users, requests and interleavings of their coroutines.
THEOREM OwnWritesSeenHolds == Spec => []OwnWritesSeen
BY BffInvariance, PTL DEF BffInv

\* The limiter lets no more than its limit pass in a window, and refuses nobody
\* before, but for what was lost: whatever the order of INCR, EXPIRE and the
\* ticks, the limit, the window's length and the failures of Redis.
THEOREM LimiterExactHolds == Spec => []LimiterExact
<1>1. BffInv => LimiterExact
  <2> SUFFICES ASSUME BffInv PROVE LimiterExact
    OBVIOUS
  <2>1. BffTypeOK /\ CountsPassed /\ PassedOrLost /\ Limit \in Nat
    BY BffAssumption DEF BffInv
  <2>2. ASSUME NEW k \in Kinds PROVE passed[k][WindowOf(now)] <= Limit
    <3>1. WindowOf(now) \in Windows
      BY <2>1, ClockWindow DEF BffTypeOK
    <3>2. PICK w \in Windows : w = WindowOf(now)
      BY <3>1
    <3>3. passed[k][w] + Pend(k, w) <= Limit
      BY <2>1, <3>2, NumberTypes DEF CountsPassed
    <3> HIDE DEF Pend
    <3> QED
      BY <2>1, <3>2, <3>3, NumberTypes
  <2>3. ASSUME NEW x \in refused
        PROVE  passed[x[1]][x[2]] + errors
                 + Cardinality({r \in Calls : call[r].pc = "expire" /\ call[r].window = x[2]}) >= Limit
    <3> DEFINE S == {r \in Calls : call[r].pc = "expire" /\ call[r].window = x[2]}
    <3>1. x[1] \in Kinds /\ x[2] \in Windows /\ passed[x[1]][x[2]] + errors + Pend(x[1], x[2]) >= Limit
      BY <2>1 DEF BffTypeOK, PassedOrLost
    <3>2. IsFiniteSet(S) /\ Cardinality(S) \in Nat
      BY BffAssumption, FS_Subset, FS_CardinalityType
    <3>3. Cardinality(S) >= Pend(x[1], x[2])
      <4>1. CASE S = {}
        <5>1. Pend(x[1], x[2]) = 0
          BY <4>1 DEF Pend, Pending
        <5> QED
          BY <3>2, <5>1
      <4>2. CASE S # {}
        <5>1. Cardinality(S) # 0
          BY <3>2, <4>2, FS_EmptySet
        <5>2. Pend(x[1], x[2]) \in {0, 1}
          BY <2>1, <3>1, NumberTypes
        <5> HIDE DEF S, Pend
        <5> QED
          BY <3>2, <5>1, <5>2
      <4> QED
        BY <4>1, <4>2
    <3> HIDE DEF S, Pend
    <3>4. passed[x[1]][x[2]] \in Nat /\ errors \in Nat /\ Pend(x[1], x[2]) \in {0, 1}
      BY <2>1, <3>1, NumberTypes DEF BffTypeOK
    <3>5. passed[x[1]][x[2]] + errors + Cardinality(S) >= Limit
      BY <2>1, <3>1, <3>2, <3>3, <3>4
    <3> QED
      BY <3>5 DEF S
  <2> QED
    BY <2>2, <2>3 DEF LimiterExact
<1> QED
  BY <1>1, BffInvariance, PTL
-----------------------------------------------------------------------------
(* The scanners and the agent's collectors *)

\* A section of more sources that does not raise finds what one of fewer does.
LEMMA JoinedGrows ==
    ASSUME NEW S, NEW T, S \subseteq T, Joined(S) = "facts", Joined(T) # "raises"
    PROVE  Joined(T) = "facts"
BY DEF Joined

LEMMA KeptGrows ==
    ASSUME NEW o, NEW S, NEW T, S \subseteq T, Kept(o, S) = "facts"
    PROVE  Kept(o, T) = "facts"
<1>1. Kept(o, T) # "raises"
  BY DEF Kept, Joined, Verbatim
<1> QED
  BY <1>1, JoinedGrows DEF Kept

\* What a scan tells of a section it shares with the agent.
Agrees(agent, scan) ==
  ("raises" \notin {scan[s] : s \in DOMAIN scan})
    => \A s \in DOMAIN agent \cap DOMAIN scan : agent[s] = "facts" => scan[s] = "facts"

LEMMA LinuxNames ==
    ASSUME NEW o
    PROVE  /\ DOMAIN LinuxSoftware(o) = {"installed_packages", "security_updates", "patch_history", "kernel_patches"}
           /\ DOMAIN LinuxActivity(o) = {"services", "running_processes", "network_info", "open_ports"}
           /\ DOMAIN LinuxSecurity(o) = {"firewall", "disk_health", "users", "cron_jobs", "security_config"}
           /\ DOMAIN LinuxApps(o) = {"snap_packages", "flatpak_apps", "recent_errors"}
           /\ DOMAIN ScanLinuxSoftware(o) = {"system_info", "installed_packages", "security_updates"}
           /\ DOMAIN ScanLinuxActivity(o) = {"patch_history", "kernel_patches", "services",
                                             "running_processes", "network_info", "open_ports"}
           /\ DOMAIN ScanLinuxSecurity(o) = {"firewall", "disk_health", "users", "cron_jobs", "security_config"}
           /\ DOMAIN ScanLinuxApps(o) = {"snap_packages", "flatpak_apps", "recent_errors"}
<1>1. DOMAIN LinuxSoftware(o) = {"installed_packages", "security_updates", "patch_history", "kernel_patches"}
  BY DEF LinuxSoftware
<1>2. DOMAIN LinuxActivity(o) = {"services", "running_processes", "network_info", "open_ports"}
  BY DEF LinuxActivity
<1>3. DOMAIN LinuxSecurity(o) = {"firewall", "disk_health", "users", "cron_jobs", "security_config"}
  BY DEF LinuxSecurity
<1>4. DOMAIN LinuxApps(o) = {"snap_packages", "flatpak_apps", "recent_errors"}
  BY DEF LinuxApps
<1>5. DOMAIN ScanLinuxSoftware(o) = {"system_info", "installed_packages", "security_updates"}
  BY DEF ScanLinuxSoftware
<1>6. DOMAIN ScanLinuxActivity(o) = {"patch_history", "kernel_patches", "services",
                                     "running_processes", "network_info", "open_ports"}
  BY DEF ScanLinuxActivity
<1>7. DOMAIN ScanLinuxSecurity(o) = {"firewall", "disk_health", "users", "cron_jobs", "security_config"}
  BY DEF ScanLinuxSecurity
<1>8. DOMAIN ScanLinuxApps(o) = {"snap_packages", "flatpak_apps", "recent_errors"}
  BY DEF ScanLinuxApps
<1> QED
  BY <1>1, <1>2, <1>3, <1>4, <1>5, <1>6, <1>7, <1>8

LEMMA LinuxAgree ==
    ASSUME NEW o
    PROVE  Agrees(LinuxSoftware(o) ++ LinuxActivity(o) ++ LinuxSecurity(o) ++ LinuxApps(o),
                  ScanLinuxSoftware(o) ++ ScanLinuxActivity(o) ++ ScanLinuxSecurity(o) ++ ScanLinuxApps(o))
<1> PICK a, b, c, d : a = LinuxSoftware(o) /\ b = LinuxActivity(o) /\ c = LinuxSecurity(o) /\ d = LinuxApps(o)
  OBVIOUS
<1> PICK e, f, g, h : /\ e = ScanLinuxSoftware(o) /\ f = ScanLinuxActivity(o)
                      /\ g = ScanLinuxSecurity(o) /\ h = ScanLinuxApps(o)
  OBVIOUS
<1> PICK agent, scan : agent = a ++ b ++ c ++ d /\ scan = e ++ f ++ g ++ h
  OBVIOUS
<1>1. /\ DOMAIN agent = DOMAIN a \cup DOMAIN b \cup DOMAIN c \cup DOMAIN d
      /\ \A x \in DOMAIN a : agent[x] = a[x]
      /\ \A x \in DOMAIN b : agent[x] = b[x]
      /\ \A x \in DOMAIN c : agent[x] = c[x]
      /\ \A x \in DOMAIN d : agent[x] = d[x]
  <2>1. /\ DOMAIN a \cap DOMAIN b = {} /\ DOMAIN a \cap DOMAIN c = {} /\ DOMAIN a \cap DOMAIN d = {}
        /\ DOMAIN b \cap DOMAIN c = {} /\ DOMAIN b \cap DOMAIN d = {} /\ DOMAIN c \cap DOMAIN d = {}
    BY LinuxNames
  <2> QED
    BY <2>1 DEF ++
<1>2. /\ DOMAIN scan = DOMAIN e \cup DOMAIN f \cup DOMAIN g \cup DOMAIN h
      /\ \A x \in DOMAIN e : scan[x] = e[x]
      /\ \A x \in DOMAIN f : scan[x] = f[x]
      /\ \A x \in DOMAIN g : scan[x] = g[x]
      /\ \A x \in DOMAIN h : scan[x] = h[x]
  <2>1. /\ DOMAIN e \cap DOMAIN f = {} /\ DOMAIN e \cap DOMAIN g = {} /\ DOMAIN e \cap DOMAIN h = {}
        /\ DOMAIN f \cap DOMAIN g = {} /\ DOMAIN f \cap DOMAIN h = {} /\ DOMAIN g \cap DOMAIN h = {}
    BY LinuxNames
  <2> QED
    BY <2>1 DEF ++
<1> SUFFICES ASSUME "raises" \notin {scan[s] : s \in DOMAIN scan},
                    NEW s \in DOMAIN agent, s \in DOMAIN scan, agent[s] = "facts"
             PROVE  scan[s] = "facts"
  BY DEF Agrees
<1>3. scan[s] # "raises"
  OBVIOUS
<1>4. CASE s \in DOMAIN a
  BY <1>1, <1>2, <1>4, LinuxNames DEF LinuxSoftware, ScanLinuxSoftware, ScanLinuxActivity
<1>5. CASE s \in DOMAIN b
  <2>1. CASE s = "network_info"
    <3>1. b[s] = Verbatim(o, "ip") /\ f[s] = Joined({Verbatim(o, "ip"), Opened(o, "resolv_conf")})
      BY <2>1 DEF LinuxActivity, ScanLinuxActivity
    <3>2. Joined({Verbatim(o, "ip"), Opened(o, "resolv_conf")}) # "raises"
      BY <1>2, <1>3, <2>1, <3>1, LinuxNames
    <3>3. Joined({Verbatim(o, "ip"), Opened(o, "resolv_conf")}) = "facts"
      BY <1>1, <1>5, <3>1, <3>2 DEF Joined
    <3> QED
      BY <1>2, <2>1, <3>1, <3>3, LinuxNames
  <2>2. CASE s # "network_info"
    BY <1>1, <1>2, <1>5, <2>2, LinuxNames DEF LinuxActivity, ScanLinuxActivity
  <2> QED
    BY <2>1, <2>2
<1>6. CASE s \in DOMAIN c
  <2>0. agent[s] = c[s] /\ scan[s] = g[s] /\ g[s] # "raises" /\ c[s] = "facts"
    BY <1>1, <1>2, <1>3, <1>6, LinuxNames
  <2>1. CASE s = "disk_health"
    <3>1. /\ c[s] = Joined({Guarded(o, "lsblk"), Verbatim(o, "df")})
          /\ g[s] = Joined({Guarded(o, "lsblk"), Verbatim(o, "df"), Verbatim(o, "smartctl")})
      BY <2>1 DEF LinuxSecurity, ScanLinuxSecurity
    <3> QED
      BY <2>0, <3>1, JoinedGrows
  <2>2. CASE s = "users"
    <3>1. /\ c[s] = Unguarded(o, "passwd")
          /\ g[s] = Joined({Unguarded(o, "passwd"), Verbatim(o, "last")})
      BY <2>2 DEF LinuxSecurity, ScanLinuxSecurity
    <3> QED
      BY <2>0, <3>1 DEF Joined
  <2>3. CASE s = "security_config"
    <3>1. /\ c[s] = Kept(o, {"getenforce", "apparmor", "sysctl"})
          /\ g[s] = Kept(o, {"getenforce", "apparmor", "auditctl", "sysctl"})
      BY <2>3 DEF LinuxSecurity, ScanLinuxSecurity
    <3> QED
      BY <2>0, <3>1, KeptGrows
  <2>4. CASE s \in {"firewall", "cron_jobs"}
    BY <2>0, <2>4 DEF LinuxSecurity, ScanLinuxSecurity
  <2> QED
    BY <1>6, <2>1, <2>2, <2>3, <2>4, LinuxNames
<1>7. CASE s \in DOMAIN d
  BY <1>1, <1>2, <1>7, LinuxNames DEF LinuxApps, ScanLinuxApps
<1> QED
  BY <1>1, <1>4, <1>5, <1>6, <1>7

LEMMA MacNames ==
    ASSUME NEW o
    PROVE  /\ DOMAIN MacSoftware(o) = {"software_updates", "update_history", "homebrew_packages",
                                       "homebrew_outdated", "app_store_apps", "system_integrity"}
           /\ DOMAIN MacActivity(o) = {"services", "running_processes", "network_info", "open_ports", "firewall",
                                       "disk_health", "users", "security_config", "login_items", "recent_errors"}
           /\ DOMAIN ScanMacSoftware(o) = {"system_info", "software_updates", "update_history",
                                           "homebrew_packages", "homebrew_outdated", "app_store_apps"}
           /\ DOMAIN ScanMacActivity(o) = DOMAIN MacActivity(o) \cup {"system_integrity"}
<1>1. DOMAIN MacSoftware(o) = {"software_updates", "update_history", "homebrew_packages",
                               "homebrew_outdated", "app_store_apps", "system_integrity"}
  BY DEF MacSoftware
<1>2. DOMAIN MacActivity(o) = {"services", "running_processes", "network_info", "open_ports", "firewall",
                               "disk_health", "users", "security_config", "login_items", "recent_errors"}
  BY DEF MacActivity
<1>3. DOMAIN ScanMacSoftware(o) = {"system_info", "software_updates", "update_history",
                                   "homebrew_packages", "homebrew_outdated", "app_store_apps"}
  BY DEF ScanMacSoftware
<1>4. DOMAIN ScanMacActivity(o) = {"services", "running_processes", "network_info", "open_ports", "firewall",
                                   "disk_health", "users", "security_config", "login_items", "recent_errors",
                                   "system_integrity"}
  BY DEF ScanMacActivity
<1>5. DOMAIN ScanMacActivity(o) = DOMAIN MacActivity(o) \cup {"system_integrity"}
  BY <1>2, <1>4
<1> QED
  BY <1>1, <1>2, <1>3, <1>5

LEMMA MacAgree ==
    ASSUME NEW o
    PROVE  Agrees(MacSoftware(o) ++ MacActivity(o), ScanMacSoftware(o) ++ ScanMacActivity(o))
<1> PICK a, b, c, d : /\ a = MacSoftware(o) /\ b = MacActivity(o)
                      /\ c = ScanMacSoftware(o) /\ d = ScanMacActivity(o)
  OBVIOUS
<1> PICK agent, scan : agent = a ++ b /\ scan = c ++ d
  OBVIOUS
<1>1. /\ DOMAIN agent = DOMAIN a \cup DOMAIN b
      /\ \A x \in DOMAIN a : agent[x] = a[x]
      /\ \A x \in DOMAIN b : agent[x] = b[x]
  <2>1. DOMAIN a \cap DOMAIN b = {}
    BY MacNames
  <2> QED
    BY <2>1 DEF ++
<1>2. /\ DOMAIN scan = DOMAIN c \cup DOMAIN d
      /\ \A x \in DOMAIN c : scan[x] = c[x]
      /\ \A x \in DOMAIN d : scan[x] = d[x]
  <2>1. DOMAIN c \cap DOMAIN d = {}
    BY MacNames
  <2> QED
    BY <2>1 DEF ++
<1> SUFFICES ASSUME NEW s \in DOMAIN agent, s \in DOMAIN scan, agent[s] = "facts"
             PROVE  scan[s] = "facts"
  BY DEF Agrees
<1>3. CASE s \in DOMAIN a
  <2>1. CASE s = "system_integrity"
    <3>1. a[s] = Kept(o, {"csrutil", "spctl"}) /\ d[s] = Kept(o, {"csrutil", "spctl", "xprotect"})
      BY <2>1 DEF MacSoftware, ScanMacActivity
    <3>2. a[s] = "facts" /\ scan[s] = d[s]
      <4>1. "system_integrity" \in DOMAIN d
        BY MacNames
      <4> QED
        BY <1>1, <1>2, <1>3, <2>1, <4>1
    <3> QED
      BY <3>1, <3>2, KeptGrows
  <2>2. CASE s # "system_integrity"
    BY <1>1, <1>2, <1>3, <2>2, MacNames DEF MacSoftware, ScanMacSoftware
  <2> QED
    BY <2>1, <2>2
<1>4. CASE s \in DOMAIN b
  <2>0. b[s] = "facts" /\ scan[s] = d[s]
    <3>1. DOMAIN b \subseteq DOMAIN d
      BY MacNames
    <3> QED
      BY <1>1, <1>2, <1>4, <3>1
  <2>1. CASE s = "network_info"
    <3>1. b[s] = Kept(o, {"ifconfig", "netstat"}) /\ d[s] = Kept(o, {"ifconfig", "netstat", "scutil"})
      BY <2>1 DEF MacActivity, ScanMacActivity
    <3> QED
      BY <2>0, <3>1, KeptGrows
  <2>2. CASE s = "users"
    <3>1. b[s] = Verbatim(o, "dscl") /\ d[s] = Kept(o, {"dscl", "last"})
      BY <2>2 DEF MacActivity, ScanMacActivity
    <3> QED
      BY <2>0, <3>1 DEF Kept, Joined, Verbatim
  <2>3. CASE s = "security_config"
    <3>1. b[s] = Verbatim(o, "fdesetup") /\ d[s] = Kept(o, {"fdesetup", "socketfilterfw"})
      BY <2>3 DEF MacActivity, ScanMacActivity
    <3> QED
      BY <2>0, <3>1 DEF Kept, Joined, Verbatim
  <2>4. CASE s \notin {"network_info", "users", "security_config"}
    BY <1>4, <2>0, <2>4, MacNames DEF MacActivity, ScanMacActivity
  <2> QED
    BY <2>1, <2>2, <2>3, <2>4
<1> QED
  BY <1>1, <1>3, <1>4

\* The commands of the Windows collectors are read in the same way everywhere.
LEMMA WindowsAgree ==
    ASSUME NEW o
    PROVE  /\ Agrees(AgentWindows(o), ScanWindowsPatches(o) ++ ScanWindowsState(o))
           /\ Agrees(AgentWindows(o), OldPatches(o) ++ OldApps(o) ++ OldState(o) ++ OldSystem(o))
<1> DEFINE guarded(f) == \A s \in DOMAIN f : s \in WindowsTools => f[s] = Guarded(o, s)
<1>1. ASSUME NEW f, NEW g, guarded(f), guarded(g) PROVE guarded(f ++ g)
  BY <1>1 DEF ++
<1>2. ASSUME NEW scan, guarded(scan) PROVE Agrees(AgentWindows(o), scan)
  BY <1>2 DEF Agrees, AgentWindows
<1>3. \A x : guarded([exe_scan |-> x])
  BY DEF WindowsTools
<1>4. \A x : guarded([firewall_status |-> x])
  BY DEF WindowsTools
<1>5. \A x, y : guarded([recent_errors |-> x, exe_scan |-> y])
  BY DEF WindowsTools
<1>6. ASSUME NEW S PROVE guarded([s \in S |-> Guarded(o, s)])
  OBVIOUS
<1> HIDE DEF guarded
<1>7. guarded(ScanWindowsPatches(o)) /\ guarded(ScanWindowsState(o))
  BY <1>1, <1>3, <1>6, Zenon DEF ScanWindowsPatches, ScanWindowsState
<1>8. guarded(OldPatches(o)) /\ guarded(OldApps(o)) /\ guarded(OldState(o)) /\ guarded(OldSystem(o))
  BY <1>1, <1>4, <1>5, <1>6, Zenon DEF OldPatches, OldApps, OldState, OldSystem
<1>9. guarded(ScanWindowsPatches(o) ++ ScanWindowsState(o))
  BY <1>1, <1>7
<1>10. guarded(OldPatches(o) ++ OldApps(o) ++ OldState(o) ++ OldSystem(o))
  BY <1>1, <1>8, Zenon
<1> QED
  BY <1>2, <1>9, <1>10

(* The report is what its scanner found on this device, as it still is.    *)
ReportInv ==
  /\ os \in Platforms
  /\ part \in {"bff", "relays", "lanes", "plan"} => report = NoReport
  /\ report # NoReport =>
       LET scan == ScanSections(report.by, os, Behaviour(os, ill)) IN
       /\ report.by \in {"mac-linex", "windows"} /\ (report.by = "windows" => os = "Windows")
       /\ "raises" \notin {scan[s] : s \in DOMAIN scan}
       /\ report.facts = FactsOf(scan)

LEMMA ReportInvariance == Spec => []ReportInv
<1>1. Init => ReportInv
  BY DEF Init, LaneInit, ReportInv
<1>2. ReportInv /\ [Next]_vars => ReportInv'
  <2> SUFFICES ASSUME ReportInv, [Next]_vars PROVE ReportInv'
    OBVIOUS
  <2>1. CASE UNCHANGED <<part, os, ill, report>>
    BY <2>1 DEF ReportInv
  <2>2. CASE part = "lanes" /\ LaneNext /\ UNCHANGED part
    <3>1. os' = os /\ report' = report
      BY <2>2 DEF LaneNext, Change, Ail, SlowLoop, CollectCommand, Submit, LaneStep, ThreadTakes,
                  Collect, Deliver, UpdateIntervals
    <3> QED
      BY <2>2, <3>1 DEF ReportInv
  <2>3. CASE part = "scan" /\ ScanNext /\ UNCHANGED part
    <3>1. PICK p \in {"mac-linex", "windows"} : Scan(p)
      BY <2>3 DEF ScanNext
    <3>2. report'.by = p /\ report'.facts = FactsOf(ScanSections(p, os, Behaviour(os, ill)))
      BY <3>1 DEF Scan
    <3>3. UNCHANGED <<os, ill>> /\ (p = "windows" => os = "Windows")
          /\ LET scan == ScanSections(p, os, Behaviour(os, ill)) IN "raises" \notin {scan[s] : s \in DOMAIN scan}
      BY <3>1 DEF Scan
    <3> QED
      BY <2>3, <3>2, <3>3 DEF ReportInv
  <2>4. Next \/ UNCHANGED vars
    OBVIOUS
  <2> QED
    BY <2>1, <2>2, <2>3, <2>4 DEF Next, vars, laneVars
<1> QED
  BY <1>1, <1>2, PTL DEF Spec

\* The scanners have not fallen behind the agent's collectors: what the agent
\* finds, a scan that was saved has found too.  The lemmas it rests on hold of
\* any behaviour of the tools, however many misbehave at once.
THEOREM CollectorsAgreeHolds == Spec => []CollectorsAgree
<1>1. ReportInv => CollectorsAgree
  <2> SUFFICES ASSUME ReportInv, report # NoReport,
                      NEW s \in DOMAIN Collected(os, Behaviour(os, ill))
                                  \cap DOMAIN ScanSections(report.by, os, Behaviour(os, ill)),
                      Collected(os, Behaviour(os, ill))[s] = "facts"
               PROVE  s \in report.facts
    BY DEF CollectorsAgree
  <2> PICK o : o = Behaviour(os, ill)
    OBVIOUS
  <2> PICK agent, scan : agent = Sections(os, o) /\ scan = ScanSections(report.by, os, o)
    OBVIOUS
  <2>1. /\ os \in Platforms /\ report.by \in {"mac-linex", "windows"} /\ (report.by = "windows" => os = "Windows")
        /\ "raises" \notin {scan[x] : x \in DOMAIN scan} /\ report.facts = FactsOf(scan)
    BY DEF ReportInv
  <2>2. s \in DOMAIN agent /\ s \in DOMAIN scan /\ agent[s] = "facts"
    BY DEF Collected
  <2>3. Agrees(agent, scan)
    <3>1. CASE os = "Linux"
      BY <2>1, <3>1, LinuxAgree DEF Sections, ScanSections
    <3>2. CASE os = "Darwin"
      BY <2>1, <3>2, MacAgree DEF Sections, ScanSections
    <3>3. CASE os = "Windows"
      BY <2>1, <3>3, WindowsAgree DEF Sections, ScanSections
    <3> QED
      BY <2>1, <3>1, <3>2, <3>3 DEF Platforms
  <2>4. scan[s] = "facts"
    BY <2>1, <2>2, <2>3 DEF Agrees
  <2> QED
    BY <2>1, <2>2, <2>4 DEF FactsOf
<1> QED
  BY <1>1, ReportInvariance, PTL
-----------------------------------------------------------------------------
(* The slow lane *)

(* The slow lane.  While its width stays the 1 it started with, one        *)
(* collection runs at a time, and what it has read is no older than what   *)
(* the server has.                                                         *)
Steady == ~resized /\ pools[1] = 1

Jobs(F) == [Owners -> [at : {"none", "queued", "running", "gathered"}, pool : Nat, seen : Nat, facts : F]]

LanesTypeOK ==
  /\ version \in Nat /\ server.seen \in Nat
  /\ resized \in BOOLEAN
  /\ pools \in Seq(Nat)
  /\ \E F : job \in Jobs(F)

LanesOrder ==
  /\ server.seen <= version
  /\ \A w \in Owners : job[w].at = "gathered" => job[w].seen <= version
  /\ Steady =>
       /\ pools = <<1>>
       /\ \A w \in Owners : job[w].at # "none" => job[w].pool = 1
       /\ \A v, w \in Owners :
            job[v].at \in {"running", "gathered"} /\ job[w].at \in {"running", "gathered"} => v = w
       /\ \A w \in Owners : job[w].at = "gathered" => server.seen <= job[w].seen

LanesInv == LanesTypeOK /\ LanesOrder

\* A thread of the one pool takes a collection only when none runs.
LEMMA OneAtATime ==
    ASSUME LanesInv, Steady, NEW w \in Owners, ThreadTakes(w)
    PROVE  \A v \in Owners : job[v].at \notin {"running", "gathered"}
<1>1. pools[1] = 1 /\ job[w].pool = 1 /\ \A v \in Owners : job[v].at # "none" => job[v].pool = 1
  BY DEF LanesInv, LanesOrder, Steady, ThreadTakes
<1> DEFINE S == {v \in Owners : job[v].pool = 1 /\ job[v].at \in {"running", "gathered"}}
<1>2. Cardinality(S) < 1
  BY <1>1 DEF ThreadTakes, Busy
<1>3. IsFiniteSet(Owners)
  <2>1. IsFiniteSet({"loop"}) /\ Owners = {"loop"} \cup {"command"}
    BY FS_Singleton DEF Owners
  <2> QED
    BY <2>1, FS_AddElement
<1>4. IsFiniteSet(S) /\ Cardinality(S) \in Nat
  BY <1>3, FS_Subset, FS_CardinalityType
<1>5. S = {}
  <2>1. Cardinality(S) = 0
    <3> HIDE DEF S
    <3> QED
      BY <1>2, <1>4
  <2> QED
    BY <1>4, <2>1, FS_EmptySet
<1> QED
  BY <1>1, <1>5

\* What a collection makes of its job.
LEMMA GatheredJob ==
    ASSUME NEW F, NEW n \in Nat, NEW found \in F,
           NEW q \in [at : {"none", "queued", "running", "gathered"}, pool : Nat, seen : Nat, facts : F]
    PROVE  LET g == [q EXCEPT !.at = "gathered", !.seen = n, !.facts = found]
           IN  /\ g \in [at : {"none", "queued", "running", "gathered"}, pool : Nat, seen : Nat, facts : F]
               /\ g.at = "gathered" /\ g.pool = q.pool /\ g.seen = n
OBVIOUS

LEMMA LanesStep == LanesInv /\ [Next]_vars => LanesInv'
<1> SUFFICES ASSUME LanesInv, [Next]_vars PROVE LanesInv'
  OBVIOUS
<1>t. /\ version \in Nat /\ server.seen \in Nat /\ resized \in BOOLEAN /\ pools \in Seq(Nat)
      /\ Len(pools) \in Nat /\ LanesOrder
  BY DEF LanesInv, LanesTypeOK
<1>0. PICK F : job \in Jobs(F)
  BY DEF LanesInv, LanesTypeOK
<1> DEFINE G == F \cup {{}, facts.found}
<1>a. ASSUME NEW w \in Owners, NEW j \in [at : {"none", "queued", "running", "gathered"}, pool : Nat, seen : Nat, facts : G],
             job' = [job EXCEPT ![w] = j]
      PROVE  /\ \E H : job' \in Jobs(H)
             /\ job'[w] = j /\ \A v \in Owners : v # w => job'[v] = job[v]
  <2>1. job' \in Jobs(G)
    BY <1>0, <1>a DEF Jobs
  <2>2. job'[w] = j /\ \A v \in Owners : v # w => job'[v] = job[v]
    BY <1>0, <1>a DEF Jobs
  <2> QED
    BY <2>1, <2>2
<1>b. ASSUME NEW w \in Owners
      PROVE  /\ job[w].at \in {"none", "queued", "running", "gathered"} /\ job[w].pool \in Nat
             /\ job[w].seen \in Nat /\ job[w].facts \in G
             /\ job[w] = [at |-> job[w].at, pool |-> job[w].pool, seen |-> job[w].seen, facts |-> job[w].facts]
  BY <1>0, <1>b DEF Jobs
<1>d. \A w \in Owners : job[w].seen \in Nat
  BY <1>b
<1>c. ASSUME UNCHANGED <<version, pools, resized, server>>, \E H : job' \in Jobs(H), LanesOrder'
      PROVE  LanesInv'
  BY <1>c, <1>t DEF LanesInv, LanesTypeOK
<1>1. CASE UNCHANGED laneVars
  BY <1>1 DEF laneVars, LanesInv, LanesTypeOK, LanesOrder, Steady
<1>2. CASE Change
  <2>1. UNCHANGED <<pools, resized, server, job>> /\ version' = version + 1
    BY <1>2 DEF Change
  <2>2. LanesOrder'
    <3>1. server.seen <= version + 1
      BY <1>t DEF LanesOrder, Steady
    <3>2. \A w \in Owners : job[w].at = "gathered" => job[w].seen <= version + 1
      BY <1>t, <1>d DEF LanesOrder, Steady
    <3> QED
      BY <1>t, <2>1, <3>1, <3>2 DEF LanesOrder, Steady
  <2> QED
    BY <1>t, <1>0, <2>1, <2>2 DEF LanesInv, LanesTypeOK
<1>3. CASE Ail
  BY <1>3 DEF Ail, LanesInv, LanesTypeOK, LanesOrder, Steady
<1>4. ASSUME NEW w \in Owners, Submit(w) PROVE LanesInv'
  <2>1. PICK j : j = [NoJob EXCEPT !.at = "queued", !.pool = Len(pools)]
    OBVIOUS
  <2>2. j \in [at : {"none", "queued", "running", "gathered"}, pool : Nat, seen : Nat, facts : G]
        /\ j.at = "queued" /\ j.pool = Len(pools)
    BY <1>t, <2>1 DEF NoJob
  <2>3. UNCHANGED <<version, pools, resized, server>> /\ job' = [job EXCEPT ![w] = j]
    BY <1>4, <2>1 DEF Submit
  <2>4. (\E H : job' \in Jobs(H)) /\ job'[w] = j /\ \A v \in Owners : v # w => job'[v] = job[v]
    BY <1>a, <2>2, <2>3
  <2>5. LanesOrder'
    BY <1>t, <2>2, <2>3, <2>4 DEF LanesOrder, Steady
  <2> QED
    BY <1>c, <2>3, <2>4, <2>5
<1>5. ASSUME NEW w \in Owners, ThreadTakes(w) PROVE LanesInv'
  <2>1. /\ UNCHANGED <<version, pools, resized, server>> /\ job[w].at = "queued"
        /\ job' = [job EXCEPT ![w].at = "running"]
    BY <1>5 DEF ThreadTakes
  <2>2. job' \in Jobs(F)
    BY <1>0, <2>1 DEF Jobs
  <2>3. /\ job'[w].at = "running" /\ job'[w].pool = job[w].pool
        /\ \A v \in Owners : v # w => job'[v] = job[v]
    BY <1>0, <2>1 DEF Jobs
  <2>4. Steady => \A v \in Owners : job[v].at \notin {"running", "gathered"}
    BY <1>5, OneAtATime
  <2>5. LanesOrder'
    BY <1>t, <2>1, <2>3, <2>4 DEF LanesOrder, Steady
  <2> QED
    BY <1>c, <2>1, <2>2, <2>5
<1>6. ASSUME NEW w \in Owners, Collect(w) PROVE LanesInv'
  <2>1. /\ UNCHANGED <<version, pools, resized, server>> /\ job[w].at = "running"
        /\ job' = [job EXCEPT ![w].at = "gathered", ![w].seen = version, ![w].facts = facts.found]
    BY <1>6 DEF Collect
  <2> PICK j : j = [job[w] EXCEPT !.at = "gathered", !.seen = version, !.facts = facts.found]
    OBVIOUS
  <2>2. /\ j \in [at : {"none", "queued", "running", "gathered"}, pool : Nat, seen : Nat, facts : G]
        /\ j.at = "gathered" /\ j.pool = job[w].pool /\ j.seen = version
        /\ job' = [job EXCEPT ![w] = j]
    <3>1. job[w] \in [at : {"none", "queued", "running", "gathered"}, pool : Nat, seen : Nat, facts : G]
      BY <1>0 DEF Jobs
    <3>2. facts.found \in G
      OBVIOUS
    <3> HIDE DEF G
    <3>3. /\ j \in [at : {"none", "queued", "running", "gathered"}, pool : Nat, seen : Nat, facts : G]
          /\ j.at = "gathered" /\ j.pool = job[w].pool /\ j.seen = version
      BY <1>t, <3>1, <3>2, GatheredJob
    <3> QED
      BY <2>1, <3>3
  <2>3. /\ \E H : job' \in Jobs(H)
        /\ job'[w].at = "gathered" /\ job'[w].pool = job[w].pool /\ job'[w].seen = version
        /\ \A v \in Owners : v # w => job'[v] = job[v]
    BY <1>a, <2>2
  <2>4. LanesOrder'
    <3>1. \A v \in Owners : job'[v].at = "gathered" => job'[v].seen <= version
      BY <1>t, <2>3 DEF LanesOrder, Steady
    <3>2. ASSUME Steady, NEW v \in Owners
          PROVE  job'[v].at = "gathered" => server.seen <= job'[v].seen
      BY <1>t, <2>3, <3>2 DEF LanesOrder, Steady
    <3>3. ASSUME Steady, NEW v \in Owners
          PROVE  /\ job'[v].at \in {"running", "gathered"} => job[v].at \in {"running", "gathered"}
                 /\ job'[v].at # "none" => job'[v].pool = 1
      BY <1>t, <2>1, <2>3, <3>3 DEF LanesOrder, Steady
    <3> QED
      BY <1>t, <2>1, <3>1, <3>2, <3>3 DEF LanesOrder, Steady
  <2> QED
    BY <1>c, <2>1, <2>3, <2>4
<1>7. ASSUME NEW w \in Owners, Deliver(w) PROVE LanesInv'
  <2>1. /\ UNCHANGED <<version, pools, resized>> /\ job[w].at = "gathered"
        /\ job' = [job EXCEPT ![w] = NoJob]
        /\ server' = server \/ server'.seen = job[w].seen
    BY <1>7 DEF Deliver
  <2>2. NoJob \in [at : {"none", "queued", "running", "gathered"}, pool : Nat, seen : Nat, facts : G]
        /\ NoJob.at = "none"
    BY DEF NoJob
  <2>3. (\E H : job' \in Jobs(H)) /\ job'[w].at = "none" /\ \A v \in Owners : v # w => job'[v] = job[v]
    BY <1>a, <2>1, <2>2
  <2>4. job[w].seen \in Nat
    BY <1>b
  <2>5. server'.seen \in Nat
    BY <1>t, <2>1, <2>4
  <2>6. LanesOrder'
    <3>1. server'.seen <= version
      BY <1>t, <2>1 DEF LanesOrder, Steady
    <3>2. Steady => \A v \in Owners : v # w => job[v].at \notin {"running", "gathered"}
      BY <1>t, <2>1 DEF LanesOrder, Steady
    <3> QED
      BY <1>t, <2>1, <2>3, <3>1, <3>2 DEF LanesOrder, Steady
  <2> QED
    BY <1>t, <2>1, <2>3, <2>5, <2>6 DEF LanesInv, LanesTypeOK
<1>8. ASSUME NEW n \in Widths, UpdateIntervals(n) PROVE LanesInv'
  <2>1. n \in Nat /\ UNCHANGED <<version, server, job>>
    BY <1>8, LanesAssumption DEF UpdateIntervals
  <2>2. /\ pools' = pools \/ pools' = Append(pools, n)
        /\ resized' = (resized \/ n # pools[Len(pools)])
        /\ n = pools[Len(pools)] => pools' = pools
    BY <1>8 DEF UpdateIntervals
  <2>3. pools' \in Seq(Nat)
    BY <1>t, <2>1, <2>2
  <2>4. resized' \in BOOLEAN /\ (~resized' => ~resized /\ pools' = pools)
    BY <2>2, Zenon
  <2>5. LanesOrder'
    BY <1>t, <2>1, <2>4 DEF LanesOrder, Steady
  <2> QED
    BY <1>t, <1>0, <2>1, <2>3, <2>4, <2>5 DEF LanesInv, LanesTypeOK
<1>9. CASE part = "scan" /\ ScanNext
  BY <1>9 DEF ScanNext, Scan, LanesInv, LanesTypeOK, LanesOrder, Steady
<1>10. "loop" \in Owners /\ "command" \in Owners
  BY DEF Owners
<1>11. CASE LaneNext
  BY <1>2, <1>3, <1>4, <1>5, <1>6, <1>7, <1>8, <1>10, <1>11 DEF LaneNext, SlowLoop, CollectCommand, LaneStep
<1> QED
  BY <1>1, <1>9, <1>11 DEF Next, vars

LEMMA LanesInvariance == Spec => []LanesInv
<1>1. Init => LanesInv
  <2> SUFFICES ASSUME Init PROVE LanesInv
    OBVIOUS
  <2>1. job \in Jobs({{}})
    BY DEF Init, LaneInit, NoJob, Jobs
  <2>2. /\ version = 0 /\ server.seen = 0 /\ resized = FALSE
        /\ \A w \in Owners : job[w].at = "none"
    BY DEF Init, LaneInit, NoJob
  <2>3. \E F : job \in Jobs(F)
    BY <2>1
  <2> QED
    <3>1. LanesTypeOK
      <4>1. ASSUME NEW n \in Nat PROVE <<n>> \in Seq(Nat)
        OBVIOUS
      <4>2. version \in Nat /\ server.seen \in Nat
        BY <2>2
      <4>4. resized \in BOOLEAN
        BY <2>2, Zenon
      <4>3. pools \in Seq(Nat)
        <5>1. \E n \in Widths : pools = <<n>>
          BY DEF Init, LaneInit
        <5> QED
          BY <4>1, <5>1, LanesAssumption
      <4> QED
        BY <2>3, <4>2, <4>3, <4>4, Zenon DEF LanesTypeOK
    <3>2. LanesOrder
      <4>1. Steady => pools = <<1>>
        BY DEF Init, LaneInit, Steady
      <4> QED
        BY <2>2, <4>1 DEF LanesOrder
    <3> QED
      BY <3>1, <3>2 DEF LanesInv
<1> QED
  BY <1>1, LanesStep, PTL DEF Spec

\* The server's data of a device does not go back in time while the slow lane
\* keeps the one thread it was started with, whatever else waits for it.
THEOREM SameWidthKeepsOrderHolds == Spec => SameWidthKeepsOrder
<1>1. LanesInv /\ [Next]_vars => [server'.seen < server.seen => resized \/ pools[1] # 1]_vars
  <2> SUFFICES ASSUME LanesInv, [Next]_vars, server'.seen < server.seen, Steady PROVE FALSE
    BY DEF Steady
  <2>1. server' # server
    BY DEF LanesInv, LanesTypeOK
  <2>2. PICK w \in Owners : Deliver(w)
    BY <2>1 DEF Next, vars, laneVars, LaneNext, LaneStep, Change, Ail, SlowLoop, CollectCommand, Submit,
                ThreadTakes, Collect, UpdateIntervals, ScanNext, Scan
  <2>3. job[w].at = "gathered" /\ server'.seen = job[w].seen
    BY <2>1, <2>2 DEF Deliver
  <2>4. server.seen <= job[w].seen /\ job[w].seen \in Nat /\ server.seen \in Nat
    BY <2>2, <2>3 DEF LanesInv, LanesTypeOK, LanesOrder, Steady, Jobs
  <2> QED
    BY <2>3, <2>4
<1> QED
  BY <1>1, LanesInvariance, PTL DEF SameWidthKeepsOrder, Spec
=============================================================================
