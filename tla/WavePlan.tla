------------------------------ MODULE WavePlan ------------------------------
(***************************************************************************)
(* How _build_wave_targets partitions the devices of a deployment into     *)
(* waves.  Devices are known by their position in the list the code makes  *)
(* of them; a plan is the set of <<position, wave number>> pairs for which *)
(* the code creates a DeploymentTarget row.                                *)
(***************************************************************************)
EXTENDS Integers

Strategies == {"immediate", "canary", "rolling", "maintenance"}

\* deployment.wave_size or 50
EffectiveSize(waveSize) == IF waveSize = 0 THEN 50 ELSE waveSize

\* max(1, int(total * (canary_percentage / 100))).  The product is a float:
\* when total * canary_percentage is a multiple of 100 it may come out just
\* below the exact integer, and int() then drops a whole device.
CanarySizes(total, percentage) ==
    LET exact  == (total * percentage) \div 100
        AtLeast1(n) == IF n < 1 THEN 1 ELSE n
    IN  IF (total * percentage) % 100 = 0
        THEN {AtLeast1(exact), AtLeast1(exact - 1)}
        ELSE {AtLeast1(exact)}

\* Mutant: the last slice is dropped when it is not full.
FullChunkIndices(n, size) == {w \in 0 .. n - 1 : size > 0 /\ (w + 1) * size <= n}

\* The waves of enumerate(range(0, n, size)): none when size is negative.
ChunkIndices(n, size) == {w \in 0 .. n - 1 : size > 0 /\ w * size < n}

\* Mutant: the slice devices[i : i + size + 1].
ChunkedOverlapping(skip, n, size, start) ==
    {<<skip + p[1], start + p[2]>> : p \in
        {q \in (1 .. n) \X ChunkIndices(n, size) :
            q[2] * size < q[1] /\ q[1] <= (q[2] + 1) * size + 1}}

\* The rows for the n devices after position `skip`, cut in slices of `size`,
\* the first slice being wave `start`.
Chunked(skip, n, size, start) ==
    {<<skip + p[1], start + p[2]>> : p \in
        {q \in (1 .. n) \X ChunkIndices(n, size) :
            q[2] * size < q[1] /\ q[1] <= (q[2] + 1) * size}}

ImmediatePlan(total) == {<<i, 0>> : i \in 1 .. total}

RollingPlan(total, waveSize) == Chunked(0, total, EffectiveSize(waveSize), 0)

\* Mutant: enumerate() without start=1, the first rolling wave joins the canary.
CanaryPlanFromZero(total, waveSize, canary) ==
    LET first == IF canary < total THEN canary ELSE total
    IN  {<<i, 0>> : i \in 1 .. first}
          \cup Chunked(first, total - first, EffectiveSize(waveSize), 0)

CanaryPlan(total, waveSize, canary) ==
    LET first == IF canary < total THEN canary ELSE total
    IN  {<<i, 0>> : i \in 1 .. first}
          \cup Chunked(first, total - first, EffectiveSize(waveSize), 1)

\* The plans the code may produce for `total` devices.
WavePlans(strategy, total, waveSize, percentage) ==
    CASE strategy = "immediate" -> {ImmediatePlan(total)}
      [] strategy = "canary" ->
            {CanaryPlan(total, waveSize, c) : c \in CanarySizes(total, percentage)}
      [] OTHER -> {RollingPlan(total, waveSize)}
=============================================================================
