------------------------------- MODULE LogFile -------------------------------
(***************************************************************************)
(* The two append-only files, byte runs of them as cells: a write-ahead    *)
(* log (internal/wal) and MANIFEST (internal/manifest).  Both frame their  *)
(* records with lengths and a checksum and drop an incomplete tail when    *)
(* they recover.  They differ in that the log truncates the file there and *)
(* MANIFEST only goes on writing there, and in when they sync.             *)
(*                                                                         *)
(* A record is a number of cells, the first of which holds its lengths.    *)
(* The process may die between any two cells; when the machine loses power *)
(* any cells at the end that were not synced are lost as well.             *)
(***************************************************************************)
EXTENDS Integers, Sequences, SequencesExt

CONSTANTS
    Kinds,        \* files modelled: "wal", "wal-sync" (SyncWrites), "manifest"
    Sizes,        \* cells a record may take
    MaxRecords,   \* bound: records written
    MaxTears,     \* bound: writes a crash cuts in the middle, by kind
    ShortWrites,  \* kinds whose write may fail in the middle while the process lives on
    NoRecord

ASSUME LogFileAssumption ==
    /\ Kinds \subseteq {"wal", "wal-sync", "manifest"}
    /\ Sizes \subseteq Nat \ {0}
    /\ NoRecord \notin [id : Nat, size : Sizes]
    /\ MaxRecords \in Nat /\ MaxTears \in [Kinds -> Nat]
    /\ ShortWrites \subseteq Kinds

VARIABLES
    kind,
    file,      \* its cells, as the operating system has them
    synced,    \* how many of them are on stable storage
    state,     \* "up" or "down"
    pos,       \* where the next write goes
    writing,   \* record being written and how many of its cells are
    written, tears,    \* counters, for the bounds
    short,     \* history: has a write been short since the last recovery?
    acked,     \* history: records acknowledged or recovered, up to a short write
    safe,      \* history: how many of them were acknowledged when last synced
    doubt      \* history: records that a crash has left in doubt

vars == <<kind, file, synced, state, pos, writing, written, tears, short, acked, safe, doubt>>
history == <<short, acked, safe, doubt>>

Idle == [rec |-> NoRecord, done |-> 0]

Record == [id : 1 .. MaxRecords, size : Sizes]

Cell(r, i) == [rec |-> r, part |-> i]

\* Only the log without SyncWrites does not sync each record.
Syncs == kind # "wal"

Init ==
    /\ kind \in Kinds
    /\ file = <<>> /\ synced = 0 /\ state = "up" /\ pos = 1
    /\ writing = Idle /\ written = 0 /\ tears = 0
    /\ short = FALSE /\ acked = <<>> /\ safe = 0 /\ doubt = <<>>

-----------------------------------------------------------------------------
(* WAL.Put, Manifest.AddRecord. *)

PutStart ==
    /\ state = "up" /\ writing = Idle
    /\ written < MaxRecords
    /\ written' = written + 1
    /\ \E n \in Sizes : writing' = [rec |-> [id |-> written + 1, size |-> n], done |-> 0]
    /\ UNCHANGED <<kind, file, synced, state, pos, tears, history>>

WriteCell ==
    LET cell == Cell(writing.rec, writing.done + 1) IN
    /\ writing # Idle /\ writing.done < writing.rec.size
    /\ file' = IF pos <= Len(file) THEN [file EXCEPT ![pos] = cell] ELSE Append(file, cell)
    /\ pos' = pos + 1
    /\ writing' = [writing EXCEPT !.done = @ + 1]
    /\ UNCHANGED <<kind, synced, state, written, tears, history>>

\* Faulty: acknowledged without the sync.
AckUnsynced ==
    /\ writing # Idle /\ writing.done = writing.rec.size
    /\ acked' = IF short THEN acked ELSE Append(acked, writing.rec)
    /\ safe' = IF Syncs THEN Len(acked') ELSE safe
    /\ writing' = Idle
    /\ UNCHANGED <<kind, file, synced, state, pos, written, tears, short, doubt>>

PutReturns ==
    /\ writing # Idle /\ writing.done = writing.rec.size
    /\ acked' = IF short THEN acked ELSE Append(acked, writing.rec)
    /\ IF Syncs THEN synced' = Len(file) /\ safe' = Len(acked')
       ELSE UNCHANGED <<synced, safe>>
    /\ writing' = Idle
    /\ UNCHANGED <<kind, file, state, pos, written, tears, short, doubt>>

Cut == writing # Idle /\ writing.done \in 1 .. writing.rec.size - 1

\* The write is short: Put returns an error, and the next one goes on from there.
PutShort ==
    /\ kind \in ShortWrites /\ Cut
    /\ writing' = Idle /\ short' = TRUE
    /\ UNCHANGED <<kind, file, synced, state, pos, written, tears, acked, safe, doubt>>

\* SyncWAL, when the memtable is frozen.
Sync ==
    /\ state = "up" /\ writing = Idle /\ kind = "wal"
    /\ synced' = Len(file) /\ safe' = Len(acked)
    /\ UNCHANGED <<kind, file, state, pos, writing, written, tears, short, acked, doubt>>

-----------------------------------------------------------------------------
(* The process dies, or the machine does. *)

InFlight == IF writing = Idle THEN <<>> ELSE <<writing.rec>>

\* Does a record end up incomplete if the file ends after n cells?
Tears(n) == IF n < Len(file) THEN file[n + 1].part > 1 ELSE Cut

Dies(n) ==
    /\ state = "up" /\ state' = "down"
    /\ file' = SubSeq(file, 1, n)
    /\ Tears(n) => tears < MaxTears[kind]
    /\ tears' = IF Tears(n) THEN tears + 1 ELSE tears
    /\ writing' = Idle /\ pos' = 1
    /\ UNCHANGED <<kind, synced, written, short, safe>>

Crash == Dies(Len(file)) /\ doubt' = InFlight /\ UNCHANGED acked

\* Of the cells that were not synced, those after some point are lost.
PowerLoss ==
    /\ \E n \in synced .. Len(file) : Dies(n)
    /\ acked' = SubSeq(acked, 1, safe)
    /\ doubt' = SubSeq(acked, safe + 1, Len(acked)) \o InFlight

-----------------------------------------------------------------------------
(* parseRecords, and the same loop in manifest.Recover. *)

\* An intact record begins at cell p.
Intact(f, p) ==
    /\ p <= Len(f) /\ f[p].part = 1
    /\ p + f[p].rec.size - 1 <= Len(f)
    /\ \A i \in 1 .. f[p].rec.size : f[p + i - 1] = Cell(f[p].rec, i)

\* Where the parser stops, having started at cell p.
StopAt(f) ==
    LET stop[p \in Nat \ {0}] == IF Intact(f, p) THEN stop[p + f[p].rec.size] ELSE p
    IN  stop[1]

Records(f) ==
    LET recs[p \in Nat \ {0}] ==
          IF Intact(f, p) THEN <<f[p].rec>> \o recs[p + f[p].rec.size] ELSE <<>>
    IN  recs[1]

\* A record that has all its bytes, but not its own: the checksum of the bytes
\* that lie there is not the one that was computed.  Anything shorter is a tail.
\* Cells other than a first one are the rest of an older, longer record: in
\* MANIFEST the four bytes read as a length are text, more than any file holds.
Corrupt(f, p) ==
    /\ p <= Len(f) /\ f[p].part = 1
    /\ p + f[p].rec.size - 1 <= Len(f)
    /\ ~ Intact(f, p)

\* Faulty: the tail is left in place and the file appended to.
RecoverAppending ==
    /\ state = "down" /\ ~ Corrupt(file, StopAt(file))
    /\ state' = "up" /\ pos' = Len(file) + 1
    /\ acked' = Records(file)
    /\ short' = FALSE /\ doubt' = <<>>
    /\ UNCHANGED <<kind, file, synced, writing, written, tears, safe>>

\* Faulty: the tail is cut off, but writing goes on from where it ended.
RecoverUnseeked ==
    LET stop == StopAt(file) IN
    /\ state = "down" /\ ~ Corrupt(file, stop)
    /\ state' = "up" /\ pos' = Len(file) + 1
    /\ file' = SubSeq(file, 1, stop - 1)
    /\ synced' = IF synced < stop THEN synced ELSE stop - 1
    /\ acked' = Records(file)
    /\ short' = FALSE /\ doubt' = <<>>
    /\ UNCHANGED <<kind, writing, written, tears, safe>>

\* If the record there is corrupt, Recover returns an error and changes nothing.
Recover ==
    LET stop == StopAt(file) IN
    /\ state = "down" /\ ~ Corrupt(file, stop)
    /\ state' = "up" /\ pos' = stop
    /\ IF kind = "manifest" THEN UNCHANGED <<file, synced>>
       ELSE /\ file' = SubSeq(file, 1, stop - 1)
            /\ synced' = IF synced < stop THEN synced ELSE stop - 1
    /\ acked' = Records(file)
    /\ short' = FALSE /\ doubt' = <<>>
    /\ UNCHANGED <<kind, writing, written, tears, safe>>

-----------------------------------------------------------------------------
Put  == PutStart \/ WriteCell \/ PutReturns \/ PutShort
Next == Put \/ Sync \/ Crash \/ PowerLoss \/ Recover

Spec == Init /\ [][Next]_vars
=============================================================================
