------------------------- MODULE CompactionLoopProps -------------------------
(* Compaction keeps up, and the engine can be closed.                      *)
EXTENDS CompactionLoop

TypeOK ==
    /\ strategy \in Strategies
    /\ l0 \in Seq(Table) /\ levels \in [1 .. MaxLevels -> Seq(Table)]
    /\ size \in [Table -> 0 .. MaxSize] /\ tick \in BOOLEAN
    /\ loop \in {"off", "wait", "drain", "merge", "exited"}
    /\ task # NoTask <=> loop = "merge"
    /\ close \in {"open", "stopping", "closed"}

(***************************************************************************)
(* The tiers hold exactly the tables there are, each once: flushes that    *)
(* arrive while a merge runs keep their table, inputs go, outputs come     *)
(* (full.go:38, leveled.go; runOnceCompaction swaps under the lock).       *)
(***************************************************************************)
TablesPlacedOnce ==
    /\ TableIds = {t \in Table : size[t] > 0}
    /\ Len(l0) + Len(FlattenSeq(levels)) = Cardinality(TableIds)

(***************************************************************************)
(* When Close closes the files, nothing is being compacted, and nothing    *)
(* will be: closed files are not read or replaced (storage.go:441-446).    *)
(***************************************************************************)
QuietWhenClosed == close = "closed" => loop \in {"off", "exited"} /\ task = NoTask

(***************************************************************************)
(* Close returns although the loop drains all work before it looks at      *)
(* stopCh: a drain ends, for it only moves data down (compact.go:198-221). *)
(***************************************************************************)
CloseReturns == close = "stopping" ~> close = "closed"

(***************************************************************************)
(* No table stays in L0 for good while compaction is due: errors and       *)
(* flushes that never pause only delay it (compact.go:210-213).            *)
(***************************************************************************)
Due == strategy = "full" \/ (strategy = "leveled" /\ L0Trigger > 0 /\ Len(l0) >= L0Trigger)

TablesLeaveL0 ==
    \A t \in Table : (Due /\ t \in IdsIn(l0)) ~> (t \notin IdsIn(l0) \/ ~ Due \/ close # "open")
=============================================================================
