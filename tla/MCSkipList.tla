----------------------------- MODULE MCSkipList -----------------------------
(* Small instances of SkipList for TLC. *)
EXTENDS SkipListProps
=============================================================================
