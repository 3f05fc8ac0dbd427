----------------------------- MODULE Controller -----------------------------
(***************************************************************************)
(* The compaction controllers (internal/compaction): pure decisions over   *)
(* sequences of table ids.  A layout is the pair of L0, newest table       *)
(* first, and the non-L0 levels; levels[i] is the code's levels[i-1].      *)
(***************************************************************************)
EXTENDS Integers, Sequences, SequencesExt

CONSTANTS
    MaxLevels,   \* number of levels below L0
    L0Trigger,   \* leveled: tables in L0 that trigger a merge into L1
    Multiplier,  \* leveled: size ratio between adjacent levels
    BaseSize,    \* leveled: least target size of the bottom level
    NoTask

ASSUME ControllerAssumption ==
    /\ MaxLevels \in Nat \ {0} /\ L0Trigger \in Nat
    /\ Multiplier \in Nat \ {0} /\ BaseSize \in Nat

IdsIn(seq) == {seq[i] : i \in DOMAIN seq}

\* Faulty: a table that arrived after the task was picked goes with the rest.
RemoveEverything(src, drop) == <<>>

RemoveIDs(src, drop) ==
    LET kept[i \in 0 .. Len(src)] ==
          IF i = 0 THEN <<>>
          ELSE IF src[i] \in IdsIn(drop) THEN kept[i - 1]
          ELSE Append(kept[i - 1], src[i])
    IN  kept[Len(src)]

InputIDs(task) == task.upperIDs \o task.lowerIDs

-----------------------------------------------------------------------------
(* Full: one merge of everything, as soon as anything is above the bottom. *)

FullTask(l0, levels) ==
    IF l0 = <<>> /\ \A i \in 1 .. MaxLevels - 1 : levels[i] = <<>>
    THEN NoTask
    ELSE [upperLevel |-> 0, upperIDs |-> l0,
          lowerLevel |-> MaxLevels, lowerIDs |-> FlattenSeq(levels),
          toBottom |-> TRUE]

FullResult(l0, levels, task, new) ==
    [l0     |-> RemoveIDs(l0, task.upperIDs),
     levels |-> [i \in 1 .. MaxLevels |-> IF i = MaxLevels THEN new ELSE <<>>]]

-----------------------------------------------------------------------------
(* Leveled: L0 into L1 when it has enough tables, else the level furthest  *)
(* above its target into the next one, whole levels at a time.             *)

LevelSize(level, sizes) ==
    LET sum[i \in 0 .. Len(level)] ==
          IF i = 0 THEN 0 ELSE sum[i - 1] + sizes[level[i]]
    IN  sum[Len(level)]

TargetSizes(levels, sizes) ==
    LET bottom == LevelSize(levels[MaxLevels], sizes)
        target[i \in 1 .. MaxLevels] ==
          IF i = MaxLevels
          THEN IF bottom < BaseSize THEN BaseSize ELSE bottom
          ELSE target[i + 1] \div Multiplier
    IN  target

LeveledMerge(upperIDs, levels, upper) ==
    [upperLevel |-> upper, upperIDs |-> upperIDs,
     lowerLevel |-> upper + 1, lowerIDs |-> levels[upper + 1],
     toBottom |-> upper + 1 = MaxLevels]

LeveledTask(l0, levels, sizes) ==
    LET target  == TargetSizes(levels, sizes)
        cur     == [i \in 1 .. MaxLevels |-> LevelSize(levels[i], sizes)]
        over    == {i \in 1 .. MaxLevels - 1 : target[i] > 0 /\ cur[i] > target[i]}
        \* cur[i] / target[i] is the largest ratio; the upper level wins a tie
        best(i) == \A j \in over : \/ cur[i] * target[j] > cur[j] * target[i]
                                   \/ cur[i] * target[j] = cur[j] * target[i] /\ i <= j
    IN  IF L0Trigger > 0 /\ Len(l0) >= L0Trigger THEN LeveledMerge(l0, levels, 0)
        ELSE IF over = {} THEN NoTask
        ELSE LET i == CHOOSE i \in over : best(i) IN LeveledMerge(levels[i], levels, i)

LeveledResult(l0, levels, task, new) ==
    [l0     |-> IF task.upperLevel = 0 THEN RemoveIDs(l0, task.upperIDs) ELSE l0,
     levels |-> [i \in 1 .. MaxLevels |->
                   IF i = task.lowerLevel THEN new
                   ELSE IF i = task.upperLevel THEN RemoveIDs(levels[i], task.upperIDs)
                   ELSE levels[i]]]

-----------------------------------------------------------------------------
GenerateTask(strategy, l0, levels, sizes) ==
    IF strategy = "full" THEN FullTask(l0, levels)
    ELSE LeveledTask(l0, levels, sizes)

ApplyResult(strategy, l0, levels, task, new) ==
    IF strategy = "full" THEN FullResult(l0, levels, task, new)
    ELSE LeveledResult(l0, levels, task, new)
=============================================================================
