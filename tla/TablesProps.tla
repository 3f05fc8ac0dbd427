----------------------------- MODULE TablesProps -----------------------------
(* What is stored in tables is what was to be stored, and is found again.  *)
EXTENDS Tables

TypeOK ==
    /\ merged \subseteq job.input
    /\ keptBelow \in BOOLEAN /\ lastUser \in Key \cup {Absent}
    /\ builder = NoBuilder \/ builder.open # <<>>
    /\ phase \in {"build", "built", "open", "failed"}
    /\ it = Ended \/ (/\ it.table \in DOMAIN tables
                      /\ it.blk \in DOMAIN tables[it.table].blocks
                      /\ it.entry \in DOMAIN tables[it.table].blocks[it.blk])

\* What the tables of the job are to hold.
Wanted == Compacted(job.input, job.kind = "compact", job.watermark)

EntriesOf(t) == FlattenSeq(tables[t].blocks)

Ahead(p) ==
    IF p = Ended THEN {}
    ELSE {tables[q[1]].blocks[q[2]][q[3]] :
            q \in {r \in UNION {{<<t, b, e>> : e \in DOMAIN tables[t].blocks[b]} :
                                <<t, b>> \in UNION {{<<u, c>> : c \in DOMAIN tables[u].blocks} :
                                                     u \in DOMAIN tables}} :
                   \/ r[1] > p.table
                   \/ r[1] = p.table /\ r[2] > p.blk
                   \/ r[1] = p.table /\ r[2] = p.blk /\ r[3] >= p.entry}}

(***************************************************************************)
(* A table iterator, and the concatenating iterator over the tables of a   *)
(* level, keep the promise of an iterator over exactly the versions the    *)
(* flush or the compaction had to keep, wherever blocks and tables end and *)
(* at whatever key the scan begins (sstable/iterator.go, concat.go).       *)
(***************************************************************************)
Abstract == INSTANCE Cursor WITH
    Bound    <- Bounds,
    contents <- Wanted,
    rest     <- IF phase = "open" THEN Ahead(it) ELSE {},
    phase    <- IF phase \in {"build", "built"} THEN "closed" ELSE phase

IteratesContents == Abstract!Spec

(***************************************************************************)
(* A block with more than one entry keeps to the block size, so that its   *)
(* 16-bit offsets are exact whatever the size of one entry; a table stops  *)
(* at the first finished block that reaches the target (block/builder.go:  *)
(* 23-43, compact.go:90).                                                  *)
(***************************************************************************)
SizesBounded ==
    \A t \in DOMAIN tables :
      LET blocks == tables[t].blocks IN
      /\ \A b \in DOMAIN blocks :
            /\ Len(blocks[b]) > 1 => EncodedSize(blocks[b]) <= BlockSize
            /\ \A e \in DOMAIN blocks[b] : DataSize(SubSeq(blocks[b], 1, e - 1)) < Width
      /\ job.kind = "compact" =>
            FoldLeft(LAMBDA n, b : n + EncodedSize(b), 0,
                     SubSeq(blocks, 1, Len(blocks) - 2)) < TargetSSTSize

(***************************************************************************)
(* The metadata that seeks go by, and the timestamp that recovery restarts *)
(* from, describe the blocks: first and last key of each, and the newest   *)
(* timestamp of the table (sstable/builder.go:52-67, recover.go:149).      *)
(***************************************************************************)
MetaExact ==
    \A t \in DOMAIN tables :
      /\ \A b \in DOMAIN tables[t].blocks :
           LET blk == tables[t].blocks[b] IN
           tables[t].meta[b] = [first |-> blk[1], last |-> blk[Len(blk)]]
      /\ tables[t].maxTs = Max({EntriesOf(t)[i].ts : i \in DOMAIN EntriesOf(t)})

(***************************************************************************)
(* "The first entry always succeeds so any single entry fits"              *)
(* (block/builder.go:24-25): an entry of a table is one that was added.    *)
(***************************************************************************)
EntriesIntact ==
    \A t \in DOMAIN tables : \A i \in DOMAIN EntriesOf(t) : EntriesOf(t)[i] \in Wanted
=============================================================================
