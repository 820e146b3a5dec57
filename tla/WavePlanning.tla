---------------------------- MODULE WavePlanning ----------------------------
(***************************************************************************)
(* _build_wave_targets as a computation: the columns of a deployment and   *)
(* the number of its devices are given, one step produces the plan.        *)
(***************************************************************************)
EXTENDS WavePlan, FiniteSets

CONSTANTS Totals, Sizes, Percentages   \* the inputs to try

ASSUME InputsAssumption ==
    Totals \subseteq Nat /\ Sizes \subseteq Int /\ Percentages \subseteq Int

VARIABLES
    strategy, total, waveSize, percentage,   \* the inputs
    built,                                   \* whether the rows are created
    targets                                  \* the <<position, wave>> pairs created

planInputs == <<strategy, total, waveSize, percentage>>
planVars == <<planInputs, built, targets>>

PlanInit ==
    /\ strategy \in Strategies
    /\ total \in Totals
    /\ waveSize \in Sizes
    /\ percentage \in Percentages
    /\ built = FALSE
    /\ targets = {}

\* The state while no plan is asked for.
NoPlan ==
    /\ strategy = "immediate" /\ total = 0 /\ waveSize = 0 /\ percentage = 0
    /\ built = FALSE
    /\ targets = {}

\* total == 0 returns before any row is made.
BuildPlan ==
    /\ ~built
    /\ total > 0
    /\ built' = TRUE
    /\ targets' \in WavePlans(strategy, total, waveSize, percentage)
    /\ UNCHANGED planInputs

PlanNext == BuildPlan

PlanSpec == PlanInit /\ [][PlanNext]_planVars

Positions == {p[1] : p \in targets}
WavesUsed == {p[2] : p \in targets}
InWave(w) == {i \in Positions : <<i, w>> \in targets}

\* Every device of the groups gets exactly one target row, in one wave: the
\* slices of _build_wave_targets neither overlap nor leave a device out.
EveryDeviceOnce ==
    built => /\ Positions = 1 .. total
             /\ \A p, q \in targets : p[1] = q[1] => p = q

\* The waves are numbered from 0 without a gap (the orchestrator walks the
\* distinct numbers).  None is larger than wave_size, save the single wave of an
\* immediate deployment and the canary, and only the last may be smaller.  The
\* canary is at most canary_percentage of the devices, or a single device.
WaveSizesRespected ==
    built =>
        LET first == IF strategy = "canary" THEN 1 ELSE 0
            last  == Cardinality(WavesUsed) - 1
            size  == EffectiveSize(waveSize)
            canary == Cardinality(InWave(0))
        IN  /\ WavesUsed = 0 .. last
            /\ strategy # "immediate" =>
                 /\ \A w \in first .. last : Cardinality(InWave(w)) <= size
                 /\ \A w \in first .. last - 1 : Cardinality(InWave(w)) = size
            /\ strategy = "canary" => canary = 1 \/ canary * 100 <= percentage * total
=============================================================================
