------------------------------- MODULE Streams -------------------------------
(***************************************************************************)
(* The Redis Streams path of the dashboards' events: CompatPublisher and   *)
(* EventProducer append them to a stream, and the StreamsConsumer of each  *)
(* gateway worker reads them through one consumer group.  The three        *)
(* streams are alike and one is modelled; the other half of                *)
(* CompatPublisher, pub/sub, ends in Gateway.  Redis keeps the stream and  *)
(* its pending entries (PEL) over everybody's crashes.                     *)
(***************************************************************************)
EXTENDS Integers, Sequences, FiniteSets, FiniteSetsExt

CONSTANTS
  Workers,    \* realtime workers: the members of CONSUMER_GROUP
  ReadBatch,  \* READ_BATCH
  MaxLen,     \* MAX_STREAM_LEN
  MaxEvents,  \* bound: events published
  MaxFaults   \* bound: crashes, Redis errors and dispatches that raise

ASSUME StreamsAssumption ==
  /\ ReadBatch \in Nat \ {0}
  /\ {MaxLen, MaxEvents, MaxFaults} \subseteq Nat

None == 0
Entries == 1..MaxEvents

VARIABLES
  published,  \* events so far
  stored,     \* the entries the stream has had
  trimmed,    \* entries up to this one are no longer in it
  first,      \* the group was created at "$": behind this entry
  last,       \* last entry delivered to the group
  pel,        \* pending entries
  idle,       \* those that are pending for CLAIM_IDLE_MS
  pc,         \* where each consumer is
  batch,      \* the entries it has yet to dispatch
  cursor,     \* start_id of its next XAUTOCLAIM
  faults,
  casts,      \* how often each entry was broadcast
  claimed,    \* entries that XAUTOCLAIM handed over
  dropped,    \* entries acknowledged although their dispatch raised
  due         \* for each consumer, what its reclaim should deal with

redis == <<published, stored, trimmed, first, last>>
pending == <<pel, idle>>
history == <<casts, claimed, dropped, due>>
vars == <<redis, pending, pc, batch, cursor, faults, history>>

(* The least n members of a set of entries, in order.                      *)
Least(S, n) ==
  LET rank(e) == Cardinality({f \in S : f < e}) + 1
      k == IF Cardinality(S) < n THEN Cardinality(S) ELSE n
  IN [i \in 1..k |-> CHOOSE e \in S : rank(e) = i]
In(seq) == {seq[i] : i \in DOMAIN seq}

Init ==
  /\ published = 0 /\ stored = {} /\ trimmed = 0
  /\ first = -1 /\ last = -1
  /\ pel = {} /\ idle = {}
  /\ pc = [w \in Workers |-> "connect"]
  /\ batch = [w \in Workers |-> << >>]
  /\ cursor = [w \in Workers |-> 1]
  /\ faults = 0
  /\ casts = [e \in Entries |-> 0] /\ claimed = {} /\ dropped = {}
  /\ due = [w \in Workers |-> {}]

(* XADD, trimmed to about MaxLen; a failure is logged and None returned.   *)
Publish ==
  /\ published < MaxEvents
  /\ published' = published + 1
  /\ \/ /\ stored' = stored \cup {published'}
        /\ \E n \in trimmed..published' :
             /\ n # trimmed => Cardinality({e \in stored' : e > n}) >= MaxLen
             /\ trimmed' = n
     \/ UNCHANGED <<stored, trimmed>>
  /\ UNCHANGED <<first, last, pending, pc, batch, cursor, faults, history>>

(* Time passes for a pending entry.                                        *)
GrowIdle(e) ==
  /\ e \in pel \ idle
  /\ idle' = idle \cup {e}
  /\ UNCHANGED <<redis, pel, pc, batch, cursor, faults, history>>

(* _ensure_groups: "$" is the last entry there is.                         *)
EnsureGroups(w) ==
  /\ pc[w] = "connect"
  /\ IF first = -1
     THEN LET end == Max(stored \cup {0}) IN first' = end /\ last' = end
     ELSE UNCHANGED <<first, last>>
  /\ pc' = [pc EXCEPT ![w] = "claim"]
  /\ cursor' = [cursor EXCEPT ![w] = 1]
  /\ due' = [due EXCEPT ![w] = idle]
  /\ UNCHANGED <<published, stored, trimmed, pending, batch, faults, casts, claimed, dropped>>

(* XAUTOCLAIM from the cursor on: takes the idle entries over, and clears  *)
(* those that the stream has lost.  It returns where to go on, or 0-0.     *)
AutoClaim(w) ==
  LET seen == {e \in pel : e >= cursor[w]}
      page == Least({e \in seen \cap idle : e > trimmed}, ReadBatch)
      rest == {e \in seen : Len(page) = ReadBatch /\ e > page[Len(page)]}
      gone == {e \in (seen \cap idle) \ rest : e <= trimmed}
  IN /\ pc[w] = "claim" /\ cursor[w] # None
     /\ pel' = pel \ gone
     /\ idle' = idle \ (gone \cup In(page))
     /\ batch' = [batch EXCEPT ![w] = page]
     /\ cursor' = [cursor EXCEPT ![w] = IF rest = {} THEN None ELSE Min(rest)]
     /\ claimed' = claimed \cup In(page)
     /\ due' = [v \in Workers |-> IF v = w THEN due[v] ELSE due[v] \ In(page)]
     /\ pc' = [pc EXCEPT ![w] = "claimed"]
     /\ UNCHANGED <<redis, faults, casts, dropped>>

(* Mutant of PageDone: one call of XAUTOCLAIM is enough.                   *)
OnePage(w) ==
  /\ batch[w] = << >>
  /\ \/ pc[w] \in {"claimed", "reading"} /\ pc' = [pc EXCEPT ![w] = "read"]
     \/ pc[w] = "claim" /\ cursor[w] = None /\ pc' = [pc EXCEPT ![w] = "read"]
  /\ UNCHANGED <<redis, pending, batch, cursor, faults, history>>

(* The page is dispatched: to the next one, or to the read loop.           *)
PageDone(w) ==
  /\ batch[w] = << >>
  /\ \/ pc[w] = "claimed" /\ pc' = [pc EXCEPT ![w] = "claim"]
     \/ pc[w] = "claim" /\ cursor[w] = None /\ pc' = [pc EXCEPT ![w] = "read"]
     \/ pc[w] = "reading" /\ pc' = [pc EXCEPT ![w] = "read"]
  /\ UNCHANGED <<redis, pending, batch, cursor, faults, history>>

(* Mutant of ReadGroup: it asks for what is pending, not for ">".          *)
ReadPending(w) ==
  LET new == Least({e \in stored : e > trimmed /\ (e > last \/ e \in pel)}, ReadBatch)
  IN /\ pc[w] = "read" /\ new # << >>
     /\ last' = Max({last, new[Len(new)]})
     /\ pel' = pel \cup In(new)
     /\ batch' = [batch EXCEPT ![w] = new] /\ pc' = [pc EXCEPT ![w] = "reading"]
     /\ UNCHANGED <<published, stored, trimmed, first, idle, cursor, faults, history>>

(* XREADGROUP: delivered to the group, whether the reply arrives or not.   *)
ReadGroup(w) ==
  LET new == Least({e \in stored : e > last /\ e > trimmed}, ReadBatch)
  IN /\ pc[w] = "read" /\ new # << >>
     /\ last' = new[Len(new)]
     /\ pel' = pel \cup In(new)
     /\ \/ /\ batch' = [batch EXCEPT ![w] = new]
           /\ pc' = [pc EXCEPT ![w] = "reading"]
           /\ UNCHANGED faults
        \/ /\ faults < MaxFaults /\ faults' = faults + 1
           /\ pc' = [pc EXCEPT ![w] = "backoff"]
           /\ UNCHANGED batch
     /\ UNCHANGED <<published, stored, trimmed, first, idle, cursor, history>>

(* _dispatch broadcasts the entry and returns True: it is to be acked.     *)
Dispatch(w) ==
  /\ pc[w] \in {"claimed", "reading"} /\ batch[w] # << >>
  /\ casts' = [casts EXCEPT ![Head(batch[w])] = @ + 1]
  /\ pc' = [pc EXCEPT ![w] = IF @ = "claimed" THEN "ackclaimed" ELSE "ackread"]
  /\ UNCHANGED <<redis, pending, batch, cursor, faults, claimed, dropped, due>>

(* Mutant of DispatchRaises: the read loop acks whatever _dispatch says.   *)
RaisesAcked(w) ==
  /\ pc[w] \in {"claimed", "reading"} /\ batch[w] # << >>
  /\ faults < MaxFaults /\ faults' = faults + 1
  /\ pc' = [pc EXCEPT ![w] = IF @ = "claimed" THEN "ackclaimed" ELSE "ackread"]
  /\ dropped' = IF pc[w] = "claimed" THEN dropped \cup {Head(batch[w])} ELSE dropped
  /\ UNCHANGED <<redis, pending, batch, cursor, casts, claimed, due>>

(* It raised inside: the read loop leaves the entry pending, the reclaim   *)
(* acks it all the same.                                                   *)
DispatchRaises(w) ==
  /\ batch[w] # << >> /\ faults < MaxFaults /\ faults' = faults + 1
  /\ \/ /\ pc[w] = "claimed" /\ pc' = [pc EXCEPT ![w] = "ackclaimed"]
        /\ dropped' = dropped \cup {Head(batch[w])}
        /\ UNCHANGED batch
     \/ /\ pc[w] = "reading"
        /\ batch' = [batch EXCEPT ![w] = Tail(@)]
        /\ UNCHANGED <<pc, dropped>>
  /\ UNCHANGED <<redis, pending, cursor, casts, claimed, due>>

Ack(w) ==
  /\ pc[w] \in {"ackclaimed", "ackread"}
  /\ pel' = pel \ {Head(batch[w])} /\ idle' = idle \ {Head(batch[w])}
  /\ batch' = [batch EXCEPT ![w] = Tail(@)]
  /\ pc' = [pc EXCEPT ![w] = IF @ = "ackclaimed" THEN "claimed" ELSE "reading"]
  /\ UNCHANGED <<redis, cursor, faults, history>>

(* Mutant of RedisError: run() returns.                                    *)
ErrorReturns(w) ==
  /\ pc[w] \in {"connect", "read", "ackread"}
  /\ faults < MaxFaults /\ faults' = faults + 1
  /\ pc' = [pc EXCEPT ![w] = "cancelled"] /\ batch' = [batch EXCEPT ![w] = << >>]
  /\ UNCHANGED <<redis, pending, cursor, history>>

(* A Redis error ends the reclaim with a warning, and the connection of    *)
(* the read loop.                                                          *)
RedisError(w) ==
  /\ faults < MaxFaults /\ faults' = faults + 1
  /\ batch' = [batch EXCEPT ![w] = << >>]
  /\ \/ /\ pc[w] \in {"claim", "ackclaimed"}
        /\ pc' = [pc EXCEPT ![w] = "read"]
        /\ due' = [due EXCEPT ![w] = {}]
     \/ /\ pc[w] \in {"connect", "read", "ackread"}
        /\ pc' = [pc EXCEPT ![w] = "backoff"]
        /\ UNCHANGED due
  /\ UNCHANGED <<redis, pending, cursor, casts, claimed, dropped>>

Crash(w) ==
  /\ pc[w] # "backoff" /\ faults < MaxFaults /\ faults' = faults + 1
  /\ batch' = [batch EXCEPT ![w] = << >>]
  /\ pc' = [pc EXCEPT ![w] = "backoff"]
  /\ due' = [due EXCEPT ![w] = {}]
  /\ UNCHANGED <<redis, pending, cursor, casts, claimed, dropped>>

(* After the backoff, or a restart of the worker.                          *)
Reconnect(w) ==
  /\ pc[w] = "backoff"
  /\ pc' = [pc EXCEPT ![w] = "connect"]
  /\ UNCHANGED <<redis, pending, batch, cursor, faults, history>>

Consumer(w) ==
  \/ EnsureGroups(w) \/ AutoClaim(w) \/ PageDone(w) \/ ReadGroup(w)
  \/ Dispatch(w) \/ Ack(w) \/ Reconnect(w)

Next ==
  \/ Publish
  \/ \E e \in Entries : GrowIdle(e)
  \/ \E w \in Workers : Consumer(w) \/ DispatchRaises(w) \/ RedisError(w) \/ Crash(w)

(* Each consumer is a task of the event loop of a worker that is restarted *)
(* when it dies.                                                           *)
Spec == Init /\ [][Next]_vars /\ \A w \in Workers : WF_vars(Consumer(w))

-----------------------------------------------------------------------------
(* What the group was delivered is broadcast before it leaves the pending  *)
(* entries, unless the stream trimmed it or a reclaim dropped it           *)
(* (streams_consumer.py:251 does not look at the result).                  *)
AtLeastOnce ==
  \A e \in stored :
    (first < e /\ e <= last /\ e \notin pel)
       => casts[e] > 0 \/ e <= trimmed \/ e \in dropped

(* However many workers read, an entry is broadcast once, but for one that *)
(* was pending for 30 s and handed over.                                   *)
OnceUnlessClaimed == \A e \in stored : casts[e] > 1 => e \in claimed

(* A reclaim that ran to its end leaves nothing pending of what was idle   *)
(* when it began, whatever the paging and the other workers did.           *)
ReclaimThorough ==
  \A w \in Workers : pc[w] \in {"read", "reading", "ackread"} => due[w] \cap pel = {}

(* What is stored behind the group's start is delivered, in spite of Redis *)
(* errors and restarts.                                                    *)
EntriesDelivered ==
  \A e \in Entries : (e \in stored /\ first # -1 /\ e > first) ~> (last >= e \/ trimmed >= e)
=============================================================================
