------------------------------ MODULE MCLogFile ------------------------------
(* Small instances of LogFile for TLC. *)
EXTENDS LogFileProps

\* MANIFEST copes with one torn record only.
OneTornManifest == [k \in Kinds |-> IF k = "manifest" THEN 1 ELSE 2]
TwoTorn == [k \in Kinds |-> 2]
=============================================================================
