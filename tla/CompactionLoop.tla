--------------------------- MODULE CompactionLoop ---------------------------
(***************************************************************************)
(* The background compaction goroutine and Close: ticks, the drain of all  *)
(* work a tick finds, errors that end the drain until the next tick, and   *)
(* the handshake over stopCh and wg (lsm/compact.go:106-221, storage.go:   *)
(* 441-461).  Tables are ids with sizes; what they hold is LsmTree's       *)
(* business.  Ids of tables that are gone are used again here, so that     *)
(* the engine can go on forever in a finite model.                         *)
(***************************************************************************)
EXTENDS Controller, FiniteSetsExt

CONSTANTS
    Strategies,   \* Options.CompactionStrategy: "full", "leveled", "none"
    Table,        \* table ids, which bound the number of tables
    MaxSize       \* bound: size of all tables together

ASSUME LoopAssumption ==
    /\ Strategies \subseteq {"full", "leveled", "none"}
    /\ Table \subseteq Nat /\ MaxSize \in Nat

VARIABLES
    strategy,
    l0, levels,   \* the tiers
    size,         \* size of each table; 0 for an id not in use
    tick,         \* a tick waits in the ticker's channel, which holds one
    loop,         \* "off", "wait" (in select), "drain", "merge", "exited"
    task,         \* the task being merged
    close         \* Close: "open", "stopping" (stopCh closed), "closed"

vars == <<strategy, l0, levels, size, tick, loop, task, close>>

TableIds == IdsIn(l0) \cup UNION {IdsIn(levels[i]) : i \in 1 .. MaxLevels}

Total(ids) == FoldSet(LAMBDA t, n : n + size[t], 0, ids)

Init ==
    /\ strategy \in Strategies
    /\ l0 = <<>> /\ levels = [i \in 1 .. MaxLevels |-> <<>>]
    /\ size = [t \in Table |-> 0]
    /\ tick = FALSE
    /\ loop = IF strategy = "none" THEN "off" ELSE "wait"
    /\ task = NoTask /\ close = "open"

-----------------------------------------------------------------------------
\* ForceFlushNextImmMemtable.  Nobody flushes an engine that is being closed.
Flush ==
    /\ close = "open" /\ Total(TableIds) < MaxSize
    /\ \E t \in Table :
         /\ size[t] = 0
         /\ l0' = <<t>> \o l0
         /\ size' = [size EXCEPT ![t] = 1]
    /\ UNCHANGED <<strategy, levels, tick, loop, task, close>>

-----------------------------------------------------------------------------
(* compactionLoop. *)

Tick ==
    /\ loop \in {"wait", "drain", "merge"} /\ ~ tick
    /\ tick' = TRUE
    /\ UNCHANGED <<strategy, l0, levels, size, loop, task, close>>

TakeTick ==
    /\ loop = "wait" /\ tick
    /\ loop' = "drain" /\ tick' = FALSE
    /\ UNCHANGED <<strategy, l0, levels, size, task, close>>

TakeStop ==
    /\ loop = "wait" /\ close = "stopping"
    /\ loop' = "exited"
    /\ UNCHANGED <<strategy, l0, levels, size, tick, task, close>>

Work == GenerateTask(strategy, l0, levels, size)

PickTask ==
    /\ loop = "drain" /\ Work # NoTask
    /\ task' = Work /\ loop' = "merge"
    /\ UNCHANGED <<strategy, l0, levels, size, tick, close>>

\* Faulty: the drain goes on when it finds nothing to do.
DrainedAgain == loop = "drain" /\ Work = NoTask /\ UNCHANGED vars

Drained ==
    /\ loop = "drain" /\ Work = NoTask
    /\ loop' = "wait"
    /\ UNCHANGED <<strategy, l0, levels, size, tick, task, close>>

\* Faulty: the layout the task was picked from is installed, not the present one.
InstallStale ==
    LET inputs == IdsIn(InputIDs(task)) IN
    /\ loop = "merge" /\ task' = NoTask
    /\ \E n \in 0 .. Total(inputs) :
         LET new    == IF n = 0 THEN <<>> ELSE <<Min(inputs)>>
             result == ApplyResult(strategy, task.upperIDs, levels, task, new) IN
         /\ size' = [t \in Table |-> IF t \in IdsIn(new) THEN n
                                     ELSE IF t \in inputs THEN 0 ELSE size[t]]
         /\ l0' = result.l0 /\ levels' = result.levels
    /\ UNCHANGED <<strategy, tick, close>>

\* The merge makes a table, smaller if versions were collected, or none; it
\* takes one of the ids that its inputs give up.
Install ==
    LET inputs == IdsIn(InputIDs(task)) IN
    /\ loop = "merge" /\ task' = NoTask
    /\ \E n \in 0 .. Total(inputs) :
         LET new    == IF n = 0 THEN <<>> ELSE <<Min(inputs)>>
             result == ApplyResult(strategy, l0, levels, task, new) IN
         /\ size' = [t \in Table |-> IF t \in IdsIn(new) THEN n
                                     ELSE IF t \in inputs THEN 0 ELSE size[t]]
         /\ l0' = result.l0 /\ levels' = result.levels
    /\ UNCHANGED <<strategy, tick, close>>

FinishTask == Install /\ loop' = "drain"

\* The new layout is in place when writing its record fails.
RecordFails == Install /\ loop' = "wait"

\* Faulty: an error ends the goroutine.
TaskFailsForGood ==
    /\ loop = "merge"
    /\ loop' = "exited" /\ task' = NoTask
    /\ UNCHANGED <<strategy, l0, levels, size, tick, close>>

\* Faulty: the task stays with the loop.
TaskFailsKeeping ==
    /\ loop = "merge"
    /\ loop' = "wait"
    /\ UNCHANGED <<strategy, l0, levels, size, tick, task, close>>

\* An error of the merge: the loop waits for the next tick.
TaskFails ==
    /\ loop = "merge"
    /\ loop' = "wait" /\ task' = NoTask
    /\ UNCHANGED <<strategy, l0, levels, size, tick, close>>

-----------------------------------------------------------------------------
(* Close: stopCompaction, then the files. *)

CloseCall ==
    /\ close = "open" /\ close' = "stopping"
    /\ UNCHANGED <<strategy, l0, levels, size, tick, loop, task>>

\* Faulty: the files are closed without waiting for the goroutine.
CloseFilesAtOnce ==
    /\ close = "stopping" /\ close' = "closed"
    /\ UNCHANGED <<strategy, l0, levels, size, tick, loop, task>>

CloseFiles ==
    /\ close = "stopping" /\ loop \in {"off", "exited"}
    /\ close' = "closed"
    /\ UNCHANGED <<strategy, l0, levels, size, tick, loop, task>>

-----------------------------------------------------------------------------
Loop == TakeTick \/ TakeStop \/ PickTask \/ Drained \/ FinishTask \/ RecordFails \/ TaskFails
Next == Flush \/ Tick \/ Loop \/ CloseCall \/ CloseFiles

\* Tickers tick, goroutines are scheduled; select takes any case that is ready
\* again and again; errors of compaction are transient (compact.go:210).
Fairness ==
    /\ WF_vars(Tick) /\ WF_vars(Loop) /\ WF_vars(CloseFiles)
    /\ SF_vars(TakeTick) /\ SF_vars(TakeStop) /\ SF_vars(FinishTask)

Spec == Init /\ [][Next]_vars /\ Fairness
=============================================================================
