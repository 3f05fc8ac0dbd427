-------------------------- MODULE MCCompactionLoop --------------------------
(* Small instances of CompactionLoop for TLC. *)
EXTENDS CompactionLoopProps
=============================================================================
