------------------------------ MODULE Versions ------------------------------
(***************************************************************************)
(* Multi-version data as the engine sees it once keys are encoded: a       *)
(* stored entry is a user key, a commit timestamp and a value, and an      *)
(* empty value is a tombstone (internal/key, internal/memtable).  The two  *)
(* pure questions everything else rests on are                             *)
(*                                                                         *)
(*   - what a read at a timestamp returns (mvccIterator), and              *)
(*   - which versions a bottom-level compaction may drop (doCompact).      *)
(*                                                                         *)
(* A set of versions stands for the merged stream of all tiers: the stream *)
(* has each (user key, timestamp) once, sorted by key.Compare.             *)
(***************************************************************************)
EXTENDS Integers, FiniteSets

CONSTANTS
    Key,         \* user keys
    Value,       \* non-empty values
    Tombstone    \* the empty value: a delete, and also "not found"

ASSUME TombstoneAssumption == Tombstone \notin Value

Stored == Value \cup {Tombstone}

Version == [key : Key, ts : Nat, val : Stored]

(***************************************************************************)
(* v is the newest version of user key k at or below t.  findNext gets     *)
(* there by skipping, in timestamp-descending order, what is above t.      *)
(***************************************************************************)
IsNewest(v, vs, k, t) ==
    /\ v \in vs
    /\ v.key = k
    /\ v.ts <= t
    /\ \A w \in vs : w.key = k /\ w.ts <= t => w.ts <= v.ts

(***************************************************************************)
(* What a reader at timestamp t gets for k.  A tombstone and a key without *)
(* any visible version are the same answer, "not found".                   *)
(***************************************************************************)
ReadAt(vs, k, t) ==
    IF \E v \in vs : IsNewest(v, vs, k, t)
    THEN (CHOOSE v \in vs : IsNewest(v, vs, k, t)).val
    ELSE Tombstone

(***************************************************************************)
(* The versions a compaction of vs keeps for an effective watermark w:     *)
(* everything above w, and the newest one at or below w unless it is a     *)
(* tombstone.                                                              *)
(***************************************************************************)
Kept(vs, w) ==
    {v \in vs : \/ v.ts > w
                \/ IsNewest(v, vs, v.key, w) /\ v.val # Tombstone}

\* Above the bottom level the effective watermark is 0: timestamps start at 1,
\* so every version survives.
Compacted(vs, toBottom, watermark) ==
    Kept(vs, IF toBottom THEN watermark ELSE 0)

\* The order of encoded keys: user key ascending, timestamp descending.
Before(v, w) == v.key < w.key \/ (v.key = w.key /\ v.ts > w.ts)

-----------------------------------------------------------------------------
\* One version per user key and timestamp.
OneVersionPerTs(vs) ==
    \A v, w \in vs : v.key = w.key /\ v.ts = w.ts => v = w

\* Tier `newer` lies above tier `older`: of every key they share, all of its
\* versions in `newer` are younger.
TierAbove(newer, older) ==
    \A v \in newer, w \in older : v.key = w.key => v.ts > w.ts
=============================================================================
