------------------------------ MODULE MergeProps ------------------------------
(* Merging cursors gives a cursor.                                         *)
EXTENDS Merge

\* Of entries with the same key and timestamp, the one of the newest source.
NewestOf(f) ==
    UNION {{v \in f[i] : \A j \in 1 .. i - 1 : \A w \in f[j] : ~ SameKey(v, w)} :
           i \in 1 .. Sources}

\* What the iterators that the merge still knows have not passed.
Reachable ==
    [i \in 1 .. Sources |->
       IF i \in Range(h) \cup {current}
       THEN {v \in source[i] : ~ Before(v, pos[i])} ELSE {}]

(***************************************************************************)
(* Merging iterators keeps the promise of an iterator, over the union of   *)
(* the sources with the newest one's entry where several have the same     *)
(* key: no source drops out of the heap with entries left, no duplicate    *)
(* comes out beside the newest, and the order holds although iterators     *)
(* move and the memtable grows between two orderings of the heap           *)
(* (merge.go:34-35, 60-90).                                                *)
(***************************************************************************)
Abstract == INSTANCE Cursor WITH
    Bound    <- {},
    contents <- NewestOf(source),
    rest     <- IF phase \in {"new", "failed"} \/ current = 0 THEN {}
                ELSE {pos[current]} \cup
                     {v \in NewestOf(Reachable) : ~ SameKey(v, pos[current])},
    phase    <- CASE phase = "new" -> "closed"
                  [] phase = "failed" -> "failed"
                  [] OTHER -> "open"

MergesSources == Abstract!Spec
=============================================================================
