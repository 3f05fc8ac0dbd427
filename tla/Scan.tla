-------------------------------- MODULE Scan --------------------------------
(***************************************************************************)
(* A scan, from the sources of a captured state to what the caller gets:   *)
(* MergeIterator over memtables and tables, mvccIterator on top of it,     *)
(* txnIterator overlaying the transaction's own writes (iterator/merge.go, *)
(* lsm/mvcc_iterator.go, lsm/iterator.go, txn.go:70-108, 178-283, storage  *)
(* .go:281-336).                                                           *)
(*                                                                         *)
(* Every source is an iterator as module Cursor has it.  Tables are fixed; *)
(* the active memtable is not: it is walked without its lock while commits *)
(* newer than the snapshot insert into it (memtable.go:158-163).  A step   *)
(* is one movement of the merge or one decision of the reader.             *)
(***************************************************************************)
EXTENDS Versions, Sequences, SequencesExt, FiniteSetsExt

CONSTANTS
    Tiers,       \* number of sources; 1 is the active memtable
    Memtables,   \* how many of them are memtables
    ReadTs,      \* the snapshot
    MaxTs,       \* bound: timestamps committed
    Later,       \* bound: versions above the snapshot when the scan begins
    Commits,     \* values committed after the snapshot was taken
    Ranges,      \* bounds scanned: pairs of a lower and an upper key, or NoKey
    Unset,       \* key without a local write
    EmptyKey,    \* the user key of length 0, if it is a key at all
    ReadErrors,  \* may reading a table fail (compaction closes its file)?
    NoKey, End

ASSUME ScanAssumption ==
    /\ Key \subseteq Nat /\ NoKey \notin Key
    /\ Tiers \in Nat \ {0} /\ Memtables \in 1 .. Tiers
    /\ ReadTs \in Nat /\ MaxTs \in Nat /\ Later \in Nat
    /\ Commits \subseteq Stored
    /\ Ranges \subseteq (Key \cup {NoKey}) \X (Key \cup {NoKey})
    /\ Unset \notin Stored /\ End \notin Version /\ ReadErrors \in BOOLEAN

VARIABLES
    source,      \* versions of each source
    head,        \* where each source's iterator stands: a version or End
    current,     \* source whose entry the merge stands on; 0 if none
    step,        \* what mvccIterator does: "find", "skip", or "stand"
    user,        \* the user key whose versions it skips
    cur,         \* curKey and curVal
    local,       \* the transaction's writes in the range, when it scans
    pending,     \* entry txnIterator has chosen and not handed out yet
    out,         \* entries handed out
    access,      \* keys recorded as read
    lower, upper,
    status,      \* "running", "done", "failed", "silent" (failed, unreported)
    start        \* history: all versions and local writes when the scan began

merging == <<head, current>>
fixed   == <<lower, upper, start>>
vars == <<source, head, current, step, user, cur, local, pending, out, access,
          lower, upper, status, start>>

-----------------------------------------------------------------------------
(* The sources. *)

FirstOf(vs) ==
    IF vs = {} THEN End ELSE CHOOSE v \in vs : \A w \in vs \ {v} : Before(v, w)

\* A memtable's iterator is bounded by upper, a table's is not.
Bounded(i, vs) ==
    IF i <= Memtables /\ upper # NoKey THEN {v \in vs : v.key < upper} ELSE vs

\* Faulty: goes on in the versions there were at the start, of any source.
AfterInStart(i, v) == FirstOf(Bounded(i, {w \in start.versions : Before(v, w)}))

\* Next from entry v: what follows v now, in a memtable that may have grown.
After(i, v) == FirstOf(Bounded(i, {w \in source[i] : Before(v, w)}))

-----------------------------------------------------------------------------
(* MergeIterator by what it does: the smallest head, the newest source on  *)
(* a tie.  How its heap gets there, and how it fails, is module Merge.     *)

SameKey(v, w) == ~ Before(v, w) /\ ~ Before(w, v)

Pick(heads) ==
    LET valid == {i \in DOMAIN heads : heads[i] # End}
        least(i) == \A j \in valid : \/ Before(heads[i], heads[j])
                                     \/ SameKey(heads[i], heads[j]) /\ i <= j
    IN  IF valid = {} THEN 0 ELSE CHOOSE i \in valid : least(i)

\* Every source standing on the current key moves on.
MergeNext ==
    LET v     == head[current]
        moved == [i \in 1 .. Tiers |->
                    IF head[i] # End /\ SameKey(head[i], v) THEN After(i, head[i])
                    ELSE head[i]]
    IN  head' = moved /\ current' = Pick(moved)

Merged == head[current]       \* the entry the merge stands on
Valid  == current # 0

-----------------------------------------------------------------------------
(* mvccIterator. *)

Running == status = "running"

PastUpper == upper # NoKey /\ Merged.key >= upper

\* curKey is nil for the empty user key, which IsValid takes for exhaustion.
Found(v) == [key |-> IF v.key = EmptyKey THEN NoKey ELSE v.key, val |-> v.val]
Nothing  == [key |-> NoKey, val |-> Tombstone]

FindEnds ==
    /\ Running /\ step = "find" /\ (Valid => PastUpper)
    /\ step' = "stand" /\ cur' = Nothing
    /\ UNCHANGED <<source, merging, user, local, pending, out, access, fixed, status>>

FindSkipsNewer ==
    /\ Running /\ step = "find" /\ Valid /\ ~ PastUpper
    /\ Merged.ts > ReadTs
    /\ MergeNext
    /\ UNCHANGED <<source, step, user, cur, local, pending, out, access, fixed, status>>

\* Faulty: the loop continues without skipping the user key.
FindMeetsTombstone ==
    /\ Running /\ step = "find" /\ Valid /\ ~ PastUpper
    /\ Merged.ts <= ReadTs /\ Merged.val = Tombstone
    /\ UNCHANGED vars

FindSkipsTombstone ==
    /\ Running /\ step = "find" /\ Valid /\ ~ PastUpper
    /\ Merged.ts <= ReadTs /\ Merged.val = Tombstone
    /\ step' = "skip" /\ user' = Merged.key
    /\ UNCHANGED <<source, merging, cur, local, pending, out, access, fixed, status>>

\* Faulty: stands on whatever version of a user key comes first.
FindStandsOnNewest ==
    /\ Running /\ step = "find" /\ Valid /\ ~ PastUpper
    /\ Merged.val # Tombstone
    /\ step' = "stand" /\ cur' = Found(Merged)
    /\ UNCHANGED <<source, merging, user, local, pending, out, access, fixed, status>>

FindStands ==
    /\ Running /\ step = "find" /\ Valid /\ ~ PastUpper
    /\ Merged.ts <= ReadTs /\ Merged.val # Tombstone
    /\ step' = "stand" /\ cur' = Found(Merged)
    /\ UNCHANGED <<source, merging, user, local, pending, out, access, fixed, status>>

SkipUser ==
    /\ Running /\ step = "skip"
    /\ IF Valid /\ Merged.key = user
       THEN MergeNext /\ UNCHANGED step
       ELSE step' = "find" /\ UNCHANGED merging
    /\ UNCHANGED <<source, user, cur, local, pending, out, access, fixed, status>>

-----------------------------------------------------------------------------
(* txnIterator.advance, called again for each entry the caller takes.      *)

Written   == {k \in Key : local[k] # Unset}
LocalKey  == IF Written = {} THEN NoKey ELSE Min(Written)
NoPending == Nothing

\* The call of advance that the constructor makes.
InFirstAdvance == out = <<>> /\ pending # NoPending

\* The merge is about to move.
Moving ==
    Valid /\ \/ step = "find" /\ ~ PastUpper /\ Merged.ts > ReadTs
             \/ step = "skip" /\ Merged.key = user

\* Next of the source fails; the iterators above it stay invalid for good.  The
\* constructor of txnIterator returns no error: that scan only looks exhausted.
ReadFails ==
    /\ ReadErrors /\ Running /\ Moving
    /\ \E i \in Memtables + 1 .. Tiers : head[i] # End /\ SameKey(head[i], Merged)
    /\ status' = IF InFirstAdvance THEN "silent" ELSE "failed"
    /\ UNCHANGED <<source, merging, step, user, cur, local, pending, out, access, fixed>>

Standing == Running /\ step = "stand" /\ pending = NoPending

\* Next of the mvccIterator: skip what is left of the user key, find the next.
EngineNext == step' = "skip" /\ user' = cur.key /\ cur' = Nothing

TakeLocal ==
    /\ pending' = [key |-> LocalKey, val |-> local[LocalKey]]
    /\ local' = [local EXCEPT ![LocalKey] = Unset]

ChooseLocal ==
    /\ Standing /\ Written # {}
    /\ cur.key # NoKey => LocalKey < cur.key
    /\ TakeLocal
    /\ UNCHANGED <<source, merging, step, user, cur, out, access, fixed, status>>

ChooseBoth ==
    /\ Standing /\ Written # {} /\ cur.key = LocalKey
    /\ TakeLocal /\ EngineNext
    /\ UNCHANGED <<source, merging, out, access, fixed, status>>

ChooseEngine ==
    /\ Standing /\ cur.key # NoKey
    /\ Written # {} => cur.key < LocalKey
    /\ pending' = cur
    /\ EngineNext
    /\ UNCHANGED <<source, merging, local, out, access, fixed, status>>

\* The chosen entry is handed out and recorded, unless it is a local delete.
Yield ==
    /\ Running /\ step = "stand" /\ pending # NoPending
    /\ IF pending.val = Tombstone THEN UNCHANGED <<out, access>>
       ELSE out' = Append(out, pending) /\ access' = access \cup {pending.key}
    /\ pending' = NoPending
    /\ UNCHANGED <<source, merging, step, user, cur, local, fixed, status>>

Exhausted ==
    /\ Standing /\ cur.key = NoKey /\ Written = {}
    /\ status' = "done"
    /\ UNCHANGED <<source, merging, step, user, cur, local, pending, out, access, fixed>>

-----------------------------------------------------------------------------
(* A commit links a new version into the active memtable.  The snapshot    *)
(* began when no commit was in flight, so the version is newer than it.    *)

Insert ==
    /\ Running
    /\ \E k \in Key, t \in ReadTs + 1 .. MaxTs, x \in Commits :
         /\ \A i \in 1 .. Tiers : \A v \in source[i] : v.key = k => v.ts < t
         /\ source' = [source EXCEPT ![1] = @ \cup {[key |-> k, ts |-> t, val |-> x]}]
    /\ UNCHANGED <<merging, step, user, cur, local, pending, out, access, fixed, status>>

-----------------------------------------------------------------------------
\* What the tiers may hold: one version per key and timestamp, younger ones
\* above older ones (LsmProps!TierOrder).
Place == [tier : 1 .. Tiers, val : Stored] \cup {Unset}

Coordinate == Key \X (1 .. MaxTs)

Ordered(f) ==
    \A c, d \in Coordinate :
       c[1] = d[1] /\ c[2] < d[2] /\ f[c] # Unset /\ f[d] # Unset => f[d].tier <= f[c].tier

Layouts ==
    {f \in [Coordinate -> Place] :
       LET newer == {c \in Coordinate : c[2] > ReadTs /\ f[c] # Unset} IN
       /\ Ordered(f)
       /\ Cardinality(newer) <= Later
       /\ \A c \in newer : f[c].val \in Commits}

Holds(f, i) ==
    {[key |-> c[1], ts |-> c[2], val |-> f[c].val] :
        c \in {d \in Coordinate : f[d] # Unset /\ f[d].tier = i}}

InRange(k) == (lower # NoKey => k >= lower) /\ (upper # NoKey => k < upper)

\* buildMvccScan puts every iterator on its first entry in the range;
\* localIterator copies the transaction's writes in it.
Init ==
    /\ \E r \in Ranges : lower = r[1] /\ upper = r[2]
    /\ \E f \in Layouts : source = [i \in 1 .. Tiers |-> Holds(f, i)]
    /\ \E writes \in [Key -> Stored \cup {Unset}] :
         local = [k \in Key |-> IF InRange(k) THEN writes[k] ELSE Unset]
    /\ head = [i \in 1 .. Tiers |->
                 FirstOf({v \in Bounded(i, source[i]) : lower # NoKey => v.key >= lower})]
    /\ current = Pick(head)
    /\ step = "find" /\ user = NoKey /\ cur = Nothing
    /\ pending = NoPending /\ out = <<>> /\ access = {}
    /\ status = "running"
    /\ start = [versions |-> UNION {source[i] : i \in 1 .. Tiers}, local |-> local]

Find    == FindEnds \/ FindSkipsNewer \/ FindSkipsTombstone \/ FindStands
Advance == ChooseLocal \/ ChooseBoth \/ ChooseEngine \/ Yield \/ Exhausted
Reader  == Find \/ SkipUser \/ Advance

Next == Reader \/ ReadFails \/ Insert

\* The caller keeps asking for the next entry.
Spec == Init /\ [][Next]_vars /\ WF_vars(Reader)
=============================================================================
