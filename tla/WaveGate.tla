------------------------------ MODULE WaveGate ------------------------------
(***************************************************************************)
(* What a deployment promises to its devices, with no task, view, worker,  *)
(* row or queue in sight: the plan is made once; a device is reached only  *)
(* when nobody of an earlier wave is waiting; only a device that was       *)
(* reached gets an outcome; the deployment is over only when nobody waits. *)
(* Reaching a device twice is allowed: that is all the code promises when  *)
(* several of its tasks run.                                               *)
(***************************************************************************)
EXTENDS Integers

CONSTANT Devices

VARIABLES
    planned,    \* the devices of the plan
    waveOf,     \* the wave of each
    waiting,    \* the planned devices not yet reached nor given up
    reached,    \* the devices sent the deployment
    recorded,   \* the devices with an outcome
    over        \* whether the deployment is called completed

gateVars == <<planned, waveOf, waiting, reached, recorded, over>>

Init ==
    /\ planned = {} /\ waiting = {} /\ reached = {} /\ recorded = {}
    /\ waveOf = [d \in Devices |-> 0]
    /\ over = FALSE

MakePlan ==
    /\ planned = {}
    /\ ~over
    /\ planned' \in SUBSET Devices
    /\ waiting' = planned'
    /\ waveOf' \in [Devices -> Nat]
    /\ UNCHANGED <<reached, recorded, over>>

Reach(d) ==
    /\ d \in planned
    /\ \A q \in waiting : waveOf[d] <= waveOf[q]
    /\ waiting' = waiting \ {d}
    /\ reached' = reached \cup {d}
    /\ recorded' = recorded \ {d}
    /\ UNCHANGED <<planned, waveOf, over>>

GiveUp(d) ==
    /\ waiting' = waiting \ {d}
    /\ recorded' = recorded \ {d}
    /\ UNCHANGED <<planned, waveOf, reached, over>>

Record(S) ==
    /\ S \subseteq reached \ waiting
    /\ recorded' = recorded \cup S
    /\ UNCHANGED <<planned, waveOf, waiting, reached, over>>

Close ==
    /\ waiting = {}
    /\ over' = TRUE
    /\ UNCHANGED <<planned, waveOf, waiting, reached, recorded>>

Reopen ==
    /\ over' = FALSE
    /\ UNCHANGED <<planned, waveOf, waiting, reached, recorded>>

Next ==
    \/ MakePlan
    \/ \E d \in Devices : Reach(d) \/ GiveUp(d)
    \/ \E S \in SUBSET Devices : Record(S)
    \/ Close
    \/ Reopen

Spec == Init /\ [][Next]_gateVars

\* What these steps add up to: whoever waits is of no earlier wave than anyone
\* who was reached, outcomes are of devices that were reached and do not wait,
\* only planned devices are concerned, and nobody waits once it is over.
Kept ==
    /\ planned \subseteq Devices
    /\ waiting \cup reached \subseteq planned
    /\ \A d \in reached, q \in waiting : waveOf[d] <= waveOf[q]
    /\ recorded \subseteq reached \ waiting
    /\ over => waiting = {}
=============================================================================
