------------------------------- MODULE Tables -------------------------------
(***************************************************************************)
(* Sorted string tables from the builder to the reader: the loop of        *)
(* doCompact (or of a flush) filters a merged stream and adds it to table  *)
(* builders, which cut it into blocks and tables by size; an iterator then *)
(* seeks and walks the result across blocks and tables (internal/block,    *)
(* internal/sstable, iterator/concat.go, lsm/compact.go:22-104).           *)
(*                                                                         *)
(* Of a value only its length matters here, so a value IS its length, and  *)
(* the empty value, the tombstone, is 0.                                   *)
(***************************************************************************)
EXTENDS Versions, Sequences, SequencesExt, FiniteSetsExt

CONSTANTS
    KeyLen,          \* bytes of an encoded key
    BlockSize, TargetSSTSize,   \* Options.BlockSize, Options.TargetSSTSize
    MaxTs,           \* bound: timestamps of the input
    ReadErrors,      \* may reading a block fail?
    NoBuilder, Ended,
    Absent           \* no value; no user key yet

Width == 65536       \* lengths and offsets in a block are uint16

ASSUME TablesAssumption ==
    /\ Key \subseteq Nat /\ Value \subseteq Nat \ {0} /\ Tombstone = 0
    /\ KeyLen \in 8 .. Width - 1
    /\ BlockSize \in 1 .. Width /\ TargetSSTSize \in Nat
    /\ MaxTs \in Nat /\ ReadErrors \in BOOLEAN
    /\ Absent \notin Stored \cup Key

VARIABLES
    job,         \* "flush" or "compact", what it is given, its watermark
    merged,      \* what the merging iterator has left
    lastUser, keptBelow,   \* locals of doCompact
    builder,     \* the table under construction
    tables,      \* the tables built
    it,          \* the iterator: table, block, entry; or Ended
    phase        \* "build", "built", "open" (an iterator is), "failed"

vars == <<job, merged, lastUser, keptBelow, builder, tables, it, phase>>

-----------------------------------------------------------------------------
(* block.Builder: the entries of the open block and the bytes they take. *)

EntrySize(v)  == 2 + KeyLen + 2 + v.val
DataSize(blk) == FoldLeft(LAMBDA n, v : n + EntrySize(v), 0, blk)
EncodedSize(blk) == DataSize(blk) + 2 * Len(blk) + 2 + 4

\* Faulty: forgets the offset the new entry needs.
FitsWithoutOffset(blk, v) ==
    blk = <<>> \/ EncodedSize(blk) + EntrySize(v) <= BlockSize

\* The first entry always fits.
Fits(blk, v) == blk = <<>> \/ EncodedSize(blk) + EntrySize(v) + 2 <= BlockSize

\* What entryAt gives back: the length has passed through 16 bits.
Encoded(blk) == [i \in DOMAIN blk |-> [blk[i] EXCEPT !.val = @ % Width]]

-----------------------------------------------------------------------------
(* sstable.Builder. *)

NewBuilder == [open |-> <<>>, blocks |-> <<>>, meta |-> <<>>, data |-> 0,
               last |-> <<>>, maxTs |-> 0]

\* While a block is finished, last is still the key before the one that did not fit.
FinishBlock(b) ==
    [b EXCEPT !.open = <<>>, !.blocks = Append(@, Encoded(b.open)),
              !.meta = Append(@, [first |-> b.open[1], last |-> b.last]),
              !.data = @ + EncodedSize(b.open)]

\* Faulty: lastKey is updated before the full block is finished.
AddNotingKeyFirst(b, v) ==
    LET noted == [b EXCEPT !.last = v]
        room  == IF Fits(b.open, v) THEN noted ELSE FinishBlock(noted) IN
    [room EXCEPT !.open = Append(@, v), !.maxTs = IF v.ts > @ THEN v.ts ELSE @]

Add(b, v) ==
    LET room == IF Fits(b.open, v) THEN b ELSE FinishBlock(b) IN
    [room EXCEPT !.open = Append(@, v), !.last = v,
                 !.maxTs = IF v.ts > @ THEN v.ts ELSE @]

Build(b) ==
    LET f == IF b.open = <<>> THEN b ELSE FinishBlock(b) IN
    [blocks |-> f.blocks, meta |-> f.meta, maxTs |-> f.maxTs]

FirstKey(t) == t.meta[1].first
LastKey(t)  == t.meta[Len(t.meta)].last

-----------------------------------------------------------------------------
(* The loop of doCompact over the merged stream. *)

HeadOf(vs) == CHOOSE v \in vs : \A w \in vs \ {v} : Before(v, w)

\* A flush takes everything; so does, with watermark 0, a merge above the bottom.
EffWatermark == IF job.kind = "compact" THEN job.watermark ELSE 0

Below(v) == v.ts <= EffWatermark
NewUser(v) == v.key # lastUser

Keep(v) == ~ Below(v) \/ ((NewUser(v) \/ ~ keptBelow) /\ v.val # 0)

\* Only doCompact cuts; ForceFlushNextImmMemtable builds one table.
Full(b) == job.kind = "compact" /\ b.data >= TargetSSTSize

Consume ==
    LET v     == HeadOf(merged)
        added == Add(IF builder = NoBuilder THEN NewBuilder ELSE builder, v) IN
    /\ phase = "build" /\ merged # {}
    /\ merged' = merged \ {v}
    /\ lastUser' = v.key
    /\ keptBelow' = (Below(v) \/ (~ NewUser(v) /\ keptBelow))
    /\ \/ ~ Keep(v) /\ UNCHANGED <<builder, tables>>
       \/ Keep(v) /\ ~ Full(added) /\ builder' = added /\ UNCHANGED tables
       \/ Keep(v) /\ Full(added) /\ builder' = NoBuilder
          /\ tables' = Append(tables, Build(added))
    /\ UNCHANGED <<job, it, phase>>

\* The stream is consumed: the table under construction is built.
Finish ==
    /\ phase = "build" /\ merged = {}
    /\ phase' = "built"
    /\ tables' = IF builder = NoBuilder THEN tables ELSE Append(tables, Build(builder))
    /\ builder' = NoBuilder
    /\ UNCHANGED <<job, merged, lastUser, keptBelow, it>>

-----------------------------------------------------------------------------
(* Iterators.  A position is a table, a block of it and an entry of that.  *)

At(t, b, e) == [table |-> t, blk |-> b, entry |-> e]

Entry(p) == tables[p.table].blocks[p.blk][p.entry]

\* sort.Search: the first of 1 .. n where the condition holds, or n + 1.
Search(n, where) == Min(where \cup {n + 1})

\* The last block whose first key is not past the target, or the first block.
FindBlockIdx(t, target) ==
    LET past == Search(Len(t.meta), {i \in DOMAIN t.meta : Before(target, t.meta[i].first)})
    IN  IF past = 1 THEN 1 ELSE past - 1

\* Faulty: an exhausted table is not left for the next one.
StartOfUnskipped(t, b) == At(t, b, 1)

\* The start of block b of table t, of the next table of a run, or the end.
StartOf(t, b) ==
    IF b <= Len(tables[t].blocks) THEN At(t, b, 1)
    ELSE IF t < Len(tables) THEN At(t + 1, 1, 1) ELSE Ended

\* sstable.Iterator.SeekToKey: within the block, else the start of the next.
SeekInTable(t, target) ==
    LET b   == FindBlockIdx(tables[t], target)
        blk == tables[t].blocks[b]
        e   == Search(Len(blk), {i \in DOMAIN blk : ~ Before(blk[i], target)})
    IN  IF e <= Len(blk) THEN At(t, b, e) ELSE StartOf(t, b + 1)

\* Faulty: the last table that starts at or before the target.
SeekRunByFirst(target) ==
    LET t == Search(Len(tables), {i \in DOMAIN tables : ~ Before(FirstKey(tables[i]), target)})
    IN  IF t > Len(tables) THEN Ended ELSE SeekInTable(t, target)

\* NewConcatIterAndSeekToKey: the first table that does not end before the target.
\* seekSST goes to its table directly, and ends in the same place.
SeekRun(target) ==
    LET t == Search(Len(tables), {i \in DOMAIN tables : ~ Before(LastKey(tables[i]), target)})
    IN  IF t > Len(tables) THEN Ended ELSE SeekInTable(t, target)

Seek(target) ==
    IF tables = <<>> THEN Ended
    ELSE IF job.kind = "flush" THEN SeekInTable(1, target) ELSE SeekRun(target)

First == IF tables = <<>> THEN Ended ELSE At(1, 1, 1)

\* Scans seek to the newest version of a user key: key.TsRangeBegin.
TsRangeBegin == MaxTs + 1
Bounds == {[key |-> k, ts |-> TsRangeBegin] : k \in Key}

OpenIterator ==
    /\ phase = "built" /\ phase' = "open"
    /\ it' = First \/ \E b \in Bounds : it' = Seek(b)
    /\ UNCHANGED <<job, merged, lastUser, keptBelow, builder, tables>>

LastOfBlock(p) == p.entry = Len(tables[p.table].blocks[p.blk])

\* Next, with skipExhausted at the end of a table.
NextEntry ==
    /\ phase = "open" /\ it # Ended
    /\ it' = IF LastOfBlock(it) THEN StartOf(it.table, it.blk + 1)
             ELSE [it EXCEPT !.entry = @ + 1]
    /\ UNCHANGED <<job, merged, lastUser, keptBelow, builder, tables, phase>>

\* Loading a block fails: on opening, or at the end of the one before.
ReadFails ==
    /\ ReadErrors /\ tables # <<>>
    /\ phase = "built" \/ (phase = "open" /\ it # Ended /\ LastOfBlock(it)
                           /\ StartOf(it.table, it.blk + 1) # Ended)
    /\ phase' = "failed"
    /\ UNCHANGED <<job, merged, lastUser, keptBelow, builder, tables, it>>

-----------------------------------------------------------------------------
\* A memtable or the tables of a task hold any versions; a bottom merge may
\* collect below any timestamp.
Inputs ==
    {{[key |-> c[1], ts |-> c[2], val |-> f[c]] :
         c \in {d \in Key \X (1 .. MaxTs) : f[d] # Absent}} :
     f \in [Key \X (1 .. MaxTs) -> Stored \cup {Absent}]}

Init ==
    /\ \E vs \in Inputs, kind \in {"flush", "compact"}, w \in 0 .. MaxTs :
          /\ vs # {}
          /\ kind = "flush" => w = 0
          /\ job = [kind |-> kind, input |-> vs, watermark |-> w]
          /\ merged = vs
    /\ lastUser = Absent /\ keptBelow = FALSE
    /\ builder = NoBuilder /\ tables = <<>>
    /\ it = Ended /\ phase = "build"

Next == Consume \/ Finish \/ OpenIterator \/ NextEntry \/ ReadFails

Spec == Init /\ [][Next]_vars
=============================================================================
