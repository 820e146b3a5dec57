------------------------ MODULE DeploymentInvariant -------------------------
(***************************************************************************)
(* The inductive invariant behind the safety properties of Deployment: why *)
(* the waves stay in order although any number of tasks, views and workers *)
(* act on the same rows without a lock.                                    *)
(***************************************************************************)
EXTENDS Deployment

\* _build_wave_targets creates all the rows at once or none, and they are never
\* deleted; the cancel task only iterates over rows.
RowsOfMembers ==
    /\ Rows = {} \/ Rows = members
    /\ cancelling \subseteq Rows

\* A target still queued has not been started, and nothing is on its way for a
\* target that has not been started.
Quiet ==
    /\ \A d \in Devices : tgt[d] \in {"absent", "queued"} => started[d] = 0
    /\ \A d \in Devices : started[d] = 0 =>
          /\ d \notin Dispatched
          /\ cmds[d] = 0
          /\ d \notin stuck
          /\ \A ok \in BOOLEAN : /\ res[<<d, ok>>] = 0
                                 /\ \A k \in Workers : <<d, ok>> \notin job[k]

\* What was ever started is in no later wave than what is still queued.  (A
\* target that was started, then skipped by a cancel, may still be recorded.)
StartedInOrder ==
    \A d \in Devices, q \in Queued : started[d] > 0 => wave[d] <= wave[q]

\* A task past _build_wave_targets has rows to work on.
RowsExist(o) == pc[o] \notin {"idle", "build"} => Rows # {}

\* What is queued belongs to a wave the loop has not finished.
WavesAhead(o) ==
    pc[o] \notin {"idle", "build", "plan"} => \A q \in Queued : wave[q] \in todo[o]

\* What is being dispatched is the current wave: nothing of it comes after
\* another wave of the loop, and no target of it is left out.
BatchIsCurrent(o) ==
    pc[o] = "dispatch" =>
      /\ \A d \in batch[o], v \in todo[o] : wave[d] <= v
      /\ \A w \in todo[o] : CurrentWave(o, w) => QueuedIn(w) \subseteq batch[o]

SlotInv(o) ==
    /\ RowsExist(o)
    /\ batch[o] \subseteq Rows
    /\ WavesAhead(o)
    /\ BatchIsCurrent(o)

\* Nothing is queued and nothing will be.
Settled == Queued = {} /\ (members = {} \/ Rows # {})

\* A deployment that is completed, or that a view read as completed and may
\* save as completed again, is settled.
CompletedSettled ==
    /\ dep.status = "completed" => Settled
    /\ \A v \in Views : row[v].status = "completed" => Settled

\* The inductive invariant of the tasks and views that share the rows: what
\* orchestrate_deployment relies on, whatever runs at the same time.
IInv ==
    /\ TypeOK
    /\ RowsOfMembers
    /\ Quiet
    /\ StartedInOrder
    /\ \A o \in Orchestrators : SlotInv(o)
    /\ CompletedSettled

-----------------------------------------------------------------------------
(* What the deployment implements *)

Reached == {d \in Devices : started[d] > 0}

Gate == INSTANCE WaveGate
          WITH planned <- Rows, waveOf <- wave, waiting <- Queued, reached <- Reached,
               recorded <- Outcome, over <- (dep.status = "completed")

\* The tasks, views, workers and the monitor together implement WaveGate: every
\* step of theirs on the shared rows is one of its steps or changes nothing it
\* speaks of, whichever of them interleave, crash or overwrite each other.
ImplementsWaveGate == Gate!Spec

-----------------------------------------------------------------------------
(* What the accounts of a deployment rest on *)

\* No view saves counters that were incremented since it read the row: of all
\* that the system does, only such a save can lose an increment.
FreshSaves ==
    [][\A v \in Views : SaveRow(v) =>
          row[v].completed = dep.completed /\ row[v].failed = dep.failed]_vars

\* A device that was sent the deployment was sent it by as many slots at most as
\* are not still about to send it.
StartsLeft ==
    \A d \in Devices : started[d] > 0 =>
        started[d] + Cardinality({o \in Orchestrators : d \in Due(o)})
            <= Cardinality(Orchestrators)

\* No device is sent the deployment more often than there are worker slots.
StartsBounded == \A d \in Devices : started[d] <= Cardinality(Orchestrators)
=============================================================================
