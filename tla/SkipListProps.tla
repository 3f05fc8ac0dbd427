---------------------------- MODULE SkipListProps ----------------------------
(* What Get and the iterators of a memtable rely on.                       *)
EXTENDS SkipList, SequencesExt

(***************************************************************************)
(* Whenever the mutex is free, searching through the levels, whatever      *)
(* their heights came out as, finds the least key at or above the one      *)
(* looked for: get and seek are exact (skiplist.go:76-102).                *)
(***************************************************************************)
SearchExact ==
    ~ locked => \A k \in Key : Seek(k) = Min({s \in stored : s >= k} \cup {Nil})

(***************************************************************************)
(* An iterator that walks while batches are being linked sees its keys in  *)
(* strictly ascending order within its bounds, only keys that were put,    *)
(* and has met, up to where it is, every key that was there when it began  *)
(* (memtable.go:133-163).  Merging and the reads of a snapshot stand on it.*)
(***************************************************************************)
IterationExact ==
    \A r \in Reader :
      LET it   == iter[r]
          seen == {it.seen[j] : j \in DOMAIN it.seen} IN
      it.open =>
        /\ \A i, j \in DOMAIN it.seen : i < j => it.seen[i] < it.seen[j]
        /\ \A k \in seen : k < it.cur /\ k < it.upper
        /\ seen \subseteq stored
        /\ {k \in it.first : k < it.cur} \subseteq seen
=============================================================================
