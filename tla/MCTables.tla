------------------------------- MODULE MCTables -------------------------------
(* Small instances of Tables for TLC: keys of one byte and a timestamp.    *)
EXTENDS TablesProps
=============================================================================
