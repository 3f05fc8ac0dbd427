----------------------------- MODULE MCIterators -----------------------------
(***************************************************************************)
(* Small instances of the two kinds of iterator that stand on others: over *)
(* the blocks of tables (Tables), and over several sources (Merge).  Both  *)
(* have to be a Cursor.  A behaviour is that of one of them.               *)
(***************************************************************************)
EXTENDS TablesProps

CONSTANTS MergedKey, Sources, Failing, End
VARIABLES
    iterator,    \* "tables" or "merge"
    source, pos, h, current, state     \* of Merge; state is its phase

mergeVars == <<source, pos, h, current, state>>

Merging == INSTANCE MergeProps WITH
    Key <- MergedKey, Value <- 1 .. Sources, phase <- state

ASSUME MergingInputs == Merging!MergeInputs

\* The variables of the one that does not run keep these values.
NoTables ==
    /\ job = [kind |-> "flush", input |-> {}, watermark |-> 0] /\ merged = {}
    /\ lastUser = Absent /\ keptBelow = FALSE
    /\ builder = NoBuilder /\ tables = <<>>
    /\ it = Ended /\ phase = "build"

NoMerge ==
    /\ source = [i \in 1 .. Sources |-> {}] /\ pos = [i \in 1 .. Sources |-> End]
    /\ h = <<>> /\ current = 0 /\ state = "new"

InitEither ==
    \/ iterator = "tables" /\ Init /\ NoMerge
    \/ iterator = "merge" /\ Merging!Init /\ NoTables

NextEither ==
    /\ \/ iterator = "tables" /\ Next /\ UNCHANGED mergeVars
       \/ iterator = "merge" /\ Merging!Next /\ UNCHANGED vars
    /\ UNCHANGED iterator

SpecEither == InitEither /\ [][NextEither]_<<iterator, vars, mergeVars>>

\* The merge of iterators is an iterator over the newest entries of all of them
\* (MergesSources of MergeProps; merge.go:34-90).
MergesSources == Merging!MergesSources
=============================================================================
