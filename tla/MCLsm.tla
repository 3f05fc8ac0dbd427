-------------------------------- MODULE MCLsm --------------------------------
(* Small instances of LsmTree for TLC. *)
EXTENDS LsmProps

\* One value suffices: versions of a key differ by their timestamp.
Op(k, v) == [key |-> k, val |-> v]
PutDelete == {<<Op(1, "v")>>, <<Op(1, "tomb")>>}
PutDeleteBoth == PutDelete \cup {<<Op(1, "v"), Op(2, "v")>>}
PutBothTwice == {<<Op(1, "v"), Op(2, "v")>>, <<Op(1, "v"), Op(1, "tomb")>>}
PutBoth == {<<Op(1, "v"), Op(2, "v")>>}
=============================================================================
