-------------------------------- MODULE MCScan --------------------------------
(* Small instances of Scan for TLC. *)
EXTENDS ScanProps

AllRanges == {<<NoKey, NoKey>>, <<2, NoKey>>, <<NoKey, 2>>}
=============================================================================
