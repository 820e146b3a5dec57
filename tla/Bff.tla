--------------------------------- MODULE Bff ---------------------------------
(***************************************************************************)
(* The BFF between the browsers and Django: the fixed-window limiter, the  *)
(* cache of device lists and dashboards with a TTL, the proxies, and the   *)
(* invalidation a user's device writes cause.  Requests are coroutines of  *)
(* one process that interleave at every await; Redis keeps limiter and     *)
(* cache over its restarts.  One client address, one page per user.        *)
(***************************************************************************)
EXTENDS Integers, FiniteSets

CONSTANTS
  Users,     \* the user hints, from the JWT
  Calls,     \* requests served at a time
  Limit,     \* RATE_LIMIT_DEVICES, RATE_LIMIT_DASHBOARD
  Window,    \* ticks in a window of the limiter
  MaxCalls,  \* bound: requests in all
  MaxTicks,  \* bound: the clock
  MaxErrors  \* bound: failures of Redis or of Django, kills

ASSUME BffAssumption ==
  /\ Users # {} /\ IsFiniteSet(Calls)
  /\ {Limit, Window} \subseteq Nat \ {0}
  /\ {MaxCalls, MaxTicks, MaxErrors} \subseteq Nat

VARIABLES
  devices,  \* version of the devices in Django
  own,      \* per user: the version of the last write Django committed for it
  told,     \* per user: the version of the last write whose success it was told
  cache,    \* the pages in Redis
  counts,   \* the counters in Redis
  now,      \* the clock, in ticks
  call,     \* the requests being served
  passed,   \* history: requests of a window the counter let pass
  refused,  \* history: the kind and window of the requests refused
  calls, errors  \* use of the bounds

bffVars == <<devices, own, told, cache, counts, now, call, passed, refused, calls, errors>>

Kinds == {"list", "dashboard"}
Ttl == [list |-> 2, dashboard |-> 1]   \* ticks: BFF_CACHE_TTL and DASHBOARD_CACHE_TTL, 3 to 1 in the code
NoPage == [v |-> 0, left |-> 0, excused |-> FALSE]
Cached(u, k) == cache[u][k].left > 0
Idle == [pc |-> "idle", user |-> CHOOSE u \in Users : TRUE, kind |-> "list", window |-> 0, v |-> 0]
Windows == 0..(MaxTicks \div Window)
WindowOf(t) == t \div Window
NoCount == [n |-> 0, expires |-> 0]    \* expires 0: no TTL

Goto(r, pc) == call' = [call EXCEPT ![r].pc = pc]
Done(r) == call' = [call EXCEPT ![r] = Idle]
Error == errors < MaxErrors /\ errors' = errors + 1

BffInit ==
  /\ devices = 1
  /\ own = [u \in Users |-> 0]
  /\ told = [u \in Users |-> 0]
  /\ cache = [u \in Users |-> [k \in Kinds |-> NoPage]]
  /\ counts = [k \in Kinds |-> [w \in Windows |-> NoCount]]
  /\ now = 0
  /\ call = [r \in Calls |-> Idle]
  /\ passed = [k \in Kinds |-> [w \in Windows |-> 0]]
  /\ refused = {}
  /\ calls = 0 /\ errors = 0
-----------------------------------------------------------------------------
(* A request with a credential; "write" changes a device, "other" is what  *)
(* the generic proxy forwards.  The limiter computes the name of its key.  *)
Arrive(r, u, kind) ==
  /\ call[r].pc = "idle" /\ calls < MaxCalls
  /\ calls' = calls + 1
  /\ call' = [call EXCEPT ![r] = [pc |-> IF kind \in Kinds THEN "incr" ELSE "forward",
                                  user |-> u, kind |-> kind, v |-> 0,
                                  window |-> IF kind \in Kinds THEN WindowOf(now) ELSE 0]]
  /\ UNCHANGED <<devices, own, told, cache, counts, now, passed, refused, errors>>

(* Mutant of RateKey: one key for all windows.                             *)
RateKeyForever(w) == 0
RateKey(w) == w

(* count > limit, after the INCR or after the EXPIRE.                      *)
Verdict(r, n) ==
  LET k == call[r].kind  w == call[r].window IN
  IF n > Limit
  THEN Done(r) /\ refused' = refused \cup {<<k, w>>} /\ UNCHANGED passed
  ELSE call' = [call EXCEPT ![r].pc = "lookup", ![r].window = 0] /\ passed' = [passed EXCEPT ![k][w] = @ + 1] /\ UNCHANGED refused

Incr(r) ==
  LET k == call[r].kind  w == RateKey(call[r].window)  n == counts[k][w].n + 1 IN
  /\ call[r].pc = "incr"
  /\ counts' = [counts EXCEPT ![k][w].n = n]
  /\ IF n = 1 THEN Goto(r, "expire") /\ UNCHANGED <<passed, refused>> ELSE Verdict(r, n)
  /\ UNCHANGED <<devices, own, told, cache, now, calls, errors>>

Expire(r) ==
  LET k == call[r].kind  w == RateKey(call[r].window) IN
  /\ call[r].pc = "expire"
  /\ counts' = IF counts[k][w].n = 0 THEN counts ELSE [counts EXCEPT ![k][w].expires = now + Window]
  /\ Verdict(r, 1)
  /\ UNCHANGED <<devices, own, told, cache, now, calls, errors>>

(* Redis fails, before or after it counted: the limiter fails open.        *)
LimiterFails(r) ==
  LET k == call[r].kind  w == RateKey(call[r].window) IN
  /\ call[r].pc \in {"incr", "expire"} /\ Error
  /\ \/ UNCHANGED counts
     \/ call[r].pc = "incr" /\ counts' = [counts EXCEPT ![k][w].n = @ + 1]
  /\ call' = [call EXCEPT ![r].pc = "lookup", ![r].window = 0]
  /\ UNCHANGED <<devices, own, told, cache, now, passed, refused, calls>>

(* A hit is answered; a failing Redis is a miss.                           *)
Lookup(r) ==
  /\ call[r].pc = "lookup"
  /\ \/ Cached(call[r].user, call[r].kind) /\ Done(r) /\ UNCHANGED errors
     \/ ~Cached(call[r].user, call[r].kind) /\ Goto(r, "fetch") /\ UNCHANGED errors
     \/ Error /\ Goto(r, "fetch")
  /\ UNCHANGED <<devices, own, told, cache, counts, now, passed, refused, calls>>

(* Django reads the devices.  A list that failed is answered 502 or 504; a *)
(* dashboard is cached without the part that failed.                       *)
Fetch(r) ==
  /\ call[r].pc = "fetch"
  /\ \/ call' = [call EXCEPT ![r].pc = "store", ![r].v = devices] /\ UNCHANGED errors
     \/ call[r].kind = "list" /\ Error /\ Done(r)
     \/ call[r].kind = "dashboard" /\ Error /\ Goto(r, "store")
  /\ UNCHANGED <<devices, own, told, cache, counts, now, passed, refused, calls>>

(* The page setex stores; one that was read before a write of the same     *)
(* user and is stored after it is excused for being old.                   *)
Page(u, k, n) == [v |-> n, left |-> Ttl[k], excused |-> n < own[u]]

Store(r) ==
  LET u == call[r].user  k == call[r].kind IN
  /\ call[r].pc = "store"
  /\ \/ cache' = [cache EXCEPT ![u][k] = Page(u, k, call[r].v)] /\ UNCHANGED errors
     \/ Error /\ UNCHANGED cache
  /\ Done(r)
  /\ UNCHANGED <<devices, own, told, counts, now, passed, refused, calls>>
-----------------------------------------------------------------------------
(* Mutant of Forward: the keys are listed and the success is told at once. *)
ForwardOnly(r) ==
  LET u == call[r].user IN
  /\ call[r].pc = "forward"
  /\ devices' = devices + 1
  /\ own' = [own EXCEPT ![u] = devices + 1]
  /\ told' = [told EXCEPT ![u] = devices + 1]
  /\ Done(r)
  /\ UNCHANGED <<cache, counts, now, passed, refused, calls, errors>>

(* proxy_request: Django commits and answers, refuses (the status is at    *)
(* least 300), or its answer is lost.  The generic proxy is done with it.  *)
Forward(r) ==
  LET u == call[r].user IN
  /\ call[r].pc = "forward"
  /\ \/ /\ devices' = devices + 1 /\ UNCHANGED errors
        /\ IF call[r].kind = "write"
           THEN /\ own' = [own EXCEPT ![u] = devices + 1]
                /\ call' = [call EXCEPT ![r].pc = "keys", ![r].v = devices + 1]
           ELSE Done(r) /\ UNCHANGED own
     \/ Done(r) /\ UNCHANGED <<devices, own, errors>>
     \/ /\ Error /\ Done(r) /\ devices' = devices + 1
        /\ own' = IF call[r].kind = "write" THEN [own EXCEPT ![u] = devices + 1] ELSE own
  /\ UNCHANGED <<told, cache, counts, now, passed, refused, calls>>

Tell(r) ==
  /\ Done(r)
  /\ told' = [told EXCEPT ![call[r].user] = IF @ < call[r].v THEN call[r].v ELSE @]

(* KEYS of this user's lists, then DELETE of the names found.              *)
ListKeys(r) ==
  /\ call[r].pc = "keys"
  /\ IF Cached(call[r].user, "list") THEN Goto(r, "delete") /\ UNCHANGED told ELSE Tell(r)
  /\ UNCHANGED <<devices, own, cache, counts, now, passed, refused, calls, errors>>

DeleteKeys(r) ==
  /\ call[r].pc = "delete"
  /\ cache' = [cache EXCEPT ![call[r].user]["list"] = NoPage]
  /\ Tell(r)
  /\ UNCHANGED <<devices, own, counts, now, passed, refused, calls, errors>>

(* An invalidation that fails is logged: the page stays.                   *)
InvalidationFails(r) ==
  /\ call[r].pc \in {"keys", "delete"} /\ Error
  /\ cache' = [cache EXCEPT ![call[r].user]["list"].excused = TRUE]
  /\ Tell(r)
  /\ UNCHANGED <<devices, own, counts, now, passed, refused, calls>>
-----------------------------------------------------------------------------
(* The process is killed: the requests it served are lost.                 *)
KillBff ==
  /\ Error
  /\ \E r \in Calls : call[r] # Idle
  /\ call' = [r \in Calls |-> Idle]
  /\ UNCHANGED <<devices, own, told, cache, counts, now, passed, refused, calls>>

(* Time: Redis deletes the keys whose TTL has run out.                     *)
Tick ==
  /\ now < MaxTicks
  /\ now' = now + 1
  /\ cache' = [u \in Users |-> [k \in Kinds |->
                 IF cache[u][k].left <= 1 THEN NoPage ELSE [cache[u][k] EXCEPT !.left = @ - 1]]]
  /\ counts' = [k \in Kinds |-> [w \in Windows |->
                  IF counts[k][w].expires \in 1..(now + 1) THEN NoCount ELSE counts[k][w]]]
  /\ UNCHANGED <<devices, own, told, call, passed, refused, calls, errors>>

Serve(r) ==
  \/ Incr(r) \/ Expire(r) \/ LimiterFails(r) \/ Lookup(r) \/ Fetch(r) \/ Store(r)
  \/ Forward(r) \/ ListKeys(r) \/ DeleteKeys(r) \/ InvalidationFails(r)

(* Calls and users are alike: a request takes the first idle place, and    *)
(* the first one is of the first user.                                     *)
Place == CHOOSE r \in Calls : call[r].pc = "idle"

BffNext ==
  \/ \E r \in Calls : Serve(r)
  \/ /\ \E r \in Calls : call[r].pc = "idle"
     /\ \E u \in IF calls = 0 THEN {Idle.user} ELSE Users, k \in Kinds \cup {"write", "other"} :
          Arrive(Place, u, k)
  \/ KillBff \/ Tick
=============================================================================
