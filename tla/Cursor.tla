------------------------------- MODULE Cursor -------------------------------
(***************************************************************************)
(* What an iterator over sorted data promises (iterator.StorageIterator):  *)
(* once opened at a bound it stands on the first entry at or after it, and *)
(* each Next takes it to the following one, until nothing is left or a     *)
(* read fails, after which nothing comes out any more.  Where the entries  *)
(* grow meanwhile, it may meet a new one ahead of it or not.  How they are *)
(* stored is somebody else's business.                                     *)
(***************************************************************************)
EXTENDS Versions

CONSTANT Bound     \* encoded keys an iterator may be opened at

VARIABLES
    contents,   \* the entries there are
    rest,       \* the entries not passed yet; the iterator stands on the first
    phase       \* "closed", "open" or "failed"

vars == <<contents, rest, phase>>

From(vs, b) == {v \in vs : ~ Before(v, b)}

IsFirst(v, vs) == v \in vs /\ \A w \in vs \ {v} : Before(v, w)

Init == phase = "closed" /\ rest = {}

Open ==
    /\ phase = "closed" /\ phase' = "open"
    /\ rest' = contents \/ \E b \in Bound : rest' = From(contents, b)
    /\ UNCHANGED contents

Step ==
    /\ phase = "open"
    /\ \E v \in rest : IsFirst(v, rest) /\ rest' = rest \ {v}
    /\ UNCHANGED <<contents, phase>>

Grow ==
    /\ phase = "open"
    /\ \E v \in contents' \ contents :
         /\ contents' = contents \cup {v}
         /\ rest' = rest \/ (/\ rest' = rest \cup {v}
                            /\ \E w \in rest : Before(w, v))
    /\ UNCHANGED phase

Fail == phase # "failed" /\ phase' = "failed" /\ rest' = {} /\ UNCHANGED contents

Next == Open \/ Step \/ Grow \/ Fail

Spec == Init /\ [][Next]_vars
=============================================================================
