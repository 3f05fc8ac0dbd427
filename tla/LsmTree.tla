------------------------------- MODULE LsmTree -------------------------------
(***************************************************************************)
(* How the versions are laid out in memtables and tables, on disk and in   *)
(* memory, and how Open rebuilds the layout after a crash (internal/lsm:   *)
(* the write path of storage.go, freeze, flush, runOnceCompaction of       *)
(* compact.go, recover.go; with what internal/memtable, wal, manifest and  *)
(* sstable do to their files).                                             *)
(*                                                                         *)
(* Between two steps the process may crash: memory is lost, every write    *)
(* that reached the operating system stays.  Whoever holds Storage.mu      *)
(* excludes the others, except the compaction goroutine while it merges    *)
(* and while it deletes.  Commits come one at a time and in timestamp      *)
(* order (Mvcc!AppliedInTsOrder), so there is one writer.                  *)
(***************************************************************************)
EXTENDS Versions, Controller

CONSTANTS
    Batches,      \* batches passed to Storage.Write: sequences of [key, val]
    FreezeAt,     \* entries that fill a memtable (TargetSSTSize)
    TableSize,    \* entries that fill an output table (TargetSSTSize)
    Strategies,   \* compaction strategies the engine is opened with
    Reconfigure,  \* may the engine be reopened with another strategy?
    Reader,       \* goroutines in the middle of a Get or a Scan
    Crashes,      \* may the process crash?
    Faults,       \* what may fail: "wal", "manifest", "table"
    MaxTs,        \* bound: timestamps handed out
    MaxId,        \* bound: memtable and table ids
    NoFile, NoReader

\* What one entry of a file or a memtable may be.
Entry == [key : Key, ts : 1 .. MaxTs, val : Stored]

ASSUME NoFileAssumption == \A vs \in SUBSET Entry : vs # NoFile

ASSUME LsmAssumption ==
    /\ Key \subseteq Nat              \* user keys are ordered (key.Compare)
    /\ Batches \subseteq Seq([key : Key, val : Stored])
    /\ FreezeAt \in Nat \ {0} /\ TableSize \in Nat \ {0}
    /\ Strategies \subseteq {"full", "leveled", "none"} /\ Strategies # {}
    /\ Reconfigure \in BOOLEAN /\ Crashes \in BOOLEAN
    /\ Faults \subseteq {"wal", "manifest", "table"}
    /\ MaxTs \in Nat /\ MaxId \in Nat

VARIABLES
    \* on disk
    wal,         \* id -> entries in its write-ahead log, or NoFile
    sst,         \* id -> versions in the table file, or NoFile
    manifest,    \* what the records of MANIFEST amount to when replayed
    \* in memory
    up,          \* "up", "down", or the step Open has reached
    strategy,    \* the controller in use
    mem, imm,    \* active memtable; immutable ones, newest first
    mems,        \* id -> contents of the memtable
    l0, levels,  \* table ids of each tier
    nextID, ts,
    mu,          \* progress of the goroutine that holds Storage.mu
    full,        \* the writer found the memtable full and has yet to freeze it
    comp,        \* progress of the compaction goroutine
    held,        \* reader -> tables of the state it captured
    \* history
    log,         \* versions of acknowledged batches
    torn,        \* versions of batches that failed or were cut by a crash
    floor,       \* highest watermark a bottom compaction has used
    top          \* highest timestamp ever handed out

disk    == <<wal, sst, manifest>>
tree    == <<mem, imm, mems, l0, levels>>
history == <<log, torn, floor, top>>
vars == <<wal, sst, manifest, up, strategy, mem, imm, mems, l0, levels, nextID,
          ts, mu, full, comp, held, log, torn, floor, top>>

-----------------------------------------------------------------------------
Id     == 0 .. MaxId
Levels == [1 .. MaxLevels -> Seq(Id)]
NoLevels == [i \in 1 .. MaxLevels |-> <<>>]

Unlocked == [pc |-> "free", batch |-> <<>>, logged |-> 0, id |-> 0]
NoComp   == [pc |-> "idle", task |-> NoTask, rest |-> {}, new |-> <<>>, old |-> <<>>]

Contents(file) == IF file = NoFile THEN {} ELSE file

TableIds == IdsIn(l0) \cup UNION {IdsIn(levels[i]) : i \in DOMAIN levels}

\* What the iterators of all tiers yield together.
Visible == UNION ({mems[m] : m \in {mem} \cup IdsIn(imm)}
                  \cup {Contents(sst[t]) : t \in TableIds})

TypeOK ==
    /\ DOMAIN wal = Id /\ DOMAIN sst = Id
    /\ \A i \in Id : Contents(wal[i]) \cup Contents(sst[i]) \subseteq Version
    /\ manifest.mems \subseteq Id /\ manifest.l0 \in Seq(Id)
    /\ manifest.levels \in Levels /\ manifest.maxID \in -1 .. MaxId
    /\ manifest.compacted \in BOOLEAN
    /\ up \in {"up", "down", "reading", "opened"}
    /\ strategy \in Strategies
    /\ mem \in Id /\ imm \in Seq(Id) /\ l0 \in Seq(Id) /\ levels \in Levels
    /\ \A i \in Id : mems[i] \subseteq Version
    /\ nextID \in 0 .. MaxId + 1 /\ ts \in 0 .. MaxTs
    /\ mu.pc \in {"free", "log", "freeze", "flush", "flushed"}
    /\ full \in BOOLEAN
    /\ comp.pc \in {"idle", "merge", "delete"}
    /\ held \in [Reader -> (SUBSET Id) \cup {NoReader}]
    /\ log \subseteq Version /\ torn \subseteq Version
    /\ floor \in 0 .. MaxTs /\ top \in 0 .. MaxTs

\* Open of an empty directory: memtable 0 with its log, recorded in MANIFEST.
Init ==
    /\ wal = [i \in Id |-> IF i = 0 THEN {} ELSE NoFile]
    /\ sst = [i \in Id |-> NoFile]
    /\ manifest = [mems |-> {0}, l0 |-> <<>>, levels |-> NoLevels, maxID |-> 0,
                   compacted |-> FALSE]
    /\ up = "up" /\ strategy \in Strategies
    /\ mem = 0 /\ imm = <<>> /\ mems = [i \in Id |-> {}]
    /\ l0 = <<>> /\ levels = NoLevels
    /\ nextID = 1 /\ ts = 0
    /\ mu = Unlocked /\ full = FALSE /\ comp = NoComp
    /\ held = [r \in Reader |-> NoReader]
    /\ log = {} /\ torn = {} /\ floor = 0 /\ top = 0
-----------------------------------------------------------------------------
(* MANIFEST: AddRecord appends and syncs one record; replaying the records *)
(* in order folds them into the layout below.                              *)

Greater(a, b) == IF a > b THEN a ELSE b

RecordMemtable(m, id) ==
    [m EXCEPT !.mems = @ \cup {id}, !.maxID = Greater(@, id)]

\* Faulty: L0 in flush order instead of newest first.
RecordFlushLast(m, id) ==
    [m EXCEPT !.mems = @ \ {id}, !.l0 = Append(@, id), !.maxID = Greater(@, id)]

RecordFlush(m, id) ==
    [m EXCEPT !.mems = @ \ {id}, !.l0 = <<id>> \o @, !.maxID = Greater(@, id)]

SupersededLevels(lv, task, new) ==
    [i \in 1 .. MaxLevels |->
        IF i = task.lowerLevel THEN new
        ELSE IF i = task.upperLevel THEN RemoveIDs(lv[i], task.upperIDs) ELSE lv[i]]

\* Faulty: the ids of the output tables do not count as used.
RecordCompactionUncounted(m, task, new) ==
    [m EXCEPT !.l0 = IF task.upperLevel = 0 THEN RemoveIDs(@, task.upperIDs) ELSE @,
              !.levels = SupersededLevels(@, task, new)]

\* Faulty: replay does not drop the tables the task took from above.
RecordCompactionKeepingUpper(m, task, new) ==
    [m EXCEPT !.levels[task.lowerLevel] = new, !.maxID = Max({@} \cup IdsIn(new))]

\* Replay clears the two levels the task names, and no other.
RecordCompaction(m, task, new) ==
    [m EXCEPT !.l0 = IF task.upperLevel = 0 THEN RemoveIDs(@, task.upperIDs) ELSE @,
              !.levels = SupersededLevels(@, task, new),
              !.maxID = Max({@} \cup IdsIn(new)), !.compacted = TRUE]

-----------------------------------------------------------------------------
(* Storage.Write, from nextTs on.  The log takes the entries one by one,   *)
(* the memtable all at once; both under Storage.mu.  Of the entries of a   *)
(* batch for one key the last one stands, in the skiplist and in a replay. *)

Running == up = "up"
Free    == Running /\ mu.pc = "free"
Release == mu' = Unlocked

Put(vs, v) == {w \in vs : ~ (w.key = v.key /\ w.ts = v.ts)} \cup {v}

Standing(batch) ==
    {batch[i] : i \in {i \in DOMAIN batch :
                         \A j \in DOMAIN batch : i < j => batch[j].key # batch[i].key}}

WriteStart(b) ==
    /\ Free /\ ~ full
    /\ ts < MaxTs
    /\ ts' = ts + 1 /\ top' = Greater(top, ts + 1)
    /\ mu' = [Unlocked EXCEPT !.pc = "log", !.batch =
                [i \in DOMAIN b |-> [key |-> b[i].key, ts |-> ts + 1, val |-> b[i].val]]]
    /\ UNCHANGED <<disk, up, strategy, tree, nextID, full, comp, held, log, torn, floor>>

WalAppend ==
    /\ mu.pc = "log" /\ mu.logged < Len(mu.batch)
    /\ wal' = [wal EXCEPT ![mem] = Put(Contents(@), mu.batch[mu.logged + 1])]
    /\ mu' = [mu EXCEPT !.logged = @ + 1]
    /\ UNCHANGED <<sst, manifest, up, strategy, tree, nextID, ts, full, comp, held, history>>

\* The append fails and writes nothing; the entries before it stay in the log.
WalAppendFails ==
    /\ mu.pc = "log" /\ mu.logged < Len(mu.batch) /\ "wal" \in Faults
    /\ torn' = torn \cup IdsIn(mu.batch)
    /\ Release
    /\ UNCHANGED <<disk, up, strategy, tree, nextID, ts, full, comp, held, log, floor, top>>

\* The batch is visible, and acknowledged unless the freeze that follows fails.
WriteApply ==
    LET contents == mems[mem] \cup Standing(mu.batch) IN
    /\ mu.pc = "log" /\ mu.logged = Len(mu.batch)
    /\ mems' = [mems EXCEPT ![mem] = contents]
    /\ full' = (Cardinality(contents) >= FreezeAt)
    /\ log' = log \cup Standing(mu.batch)
    /\ Release
    /\ UNCHANGED <<disk, up, strategy, mem, imm, l0, levels, nextID, ts, comp, held,
                   torn, floor, top>>

-----------------------------------------------------------------------------
(* ForceFreezeMemtable, called by the writer that filled the memtable or   *)
(* by anyone else.                                                         *)

Freezer == {"writer", "user"}
Asked(who) == who = "writer" => full

FreezeCreate(who) ==
    /\ Free /\ Asked(who)
    /\ mems[mem] # {}
    /\ nextID <= MaxId
    /\ nextID' = nextID + 1
    /\ wal' = [wal EXCEPT ![nextID] = {}]
    /\ mu' = [Unlocked EXCEPT !.pc = "freeze", !.id = nextID]
    /\ full' = (full /\ who # "writer")
    /\ UNCHANGED <<sst, manifest, up, strategy, tree, ts, comp, held, history>>

\* What fails to create a file may have taken an id for it.
MayTakeId == nextID' = nextID \/ (nextID <= MaxId /\ nextID' = nextID + 1)

\* Syncing the old log or creating the new one fails: the memtable stays active.
FreezeFails(who) ==
    /\ Free /\ Asked(who) /\ mems[mem] # {} /\ "wal" \in Faults
    /\ MayTakeId
    /\ full' = (full /\ who # "writer")
    /\ UNCHANGED <<disk, up, strategy, tree, ts, mu, comp, held, history>>

\* Somebody else froze it first.
FreezeEmpty ==
    /\ Free /\ full /\ mems[mem] = {}
    /\ full' = FALSE
    /\ UNCHANGED <<disk, up, strategy, tree, nextID, ts, mu, comp, held, history>>

NewMemtable ==
    /\ mu.pc = "freeze"
    /\ imm' = <<mem>> \o imm
    /\ mem' = mu.id
    /\ Release
    /\ UNCHANGED <<wal, sst, up, strategy, mems, l0, levels, nextID, ts, full, comp,
                   held, history>>

\* Faulty: the new memtable is not recorded.
FreezeInstallUnrecorded == NewMemtable /\ UNCHANGED manifest

FreezeInstall == NewMemtable /\ manifest' = RecordMemtable(manifest, mu.id)

\* The state has been swapped when AddRecord fails, and stays swapped.
FreezeRecordFails == NewMemtable /\ "manifest" \in Faults /\ UNCHANGED manifest

-----------------------------------------------------------------------------
(* ForceFlushNextImmMemtable. *)

\* Faulty: the newest is flushed first.
NewestInstead == imm[1]

Oldest == imm[Len(imm)]

FlushBuild ==
    /\ Free /\ imm # <<>>
    /\ sst' = [sst EXCEPT ![Oldest] = mems[Oldest]]
    /\ mu' = [Unlocked EXCEPT !.pc = "flush"]
    /\ UNCHANGED <<wal, manifest, up, strategy, tree, nextID, ts, full, comp, held, history>>

FlushSwap ==
    /\ mu.pc = "flush"
    /\ imm' = RemoveIDs(imm, <<Oldest>>)
    /\ l0' = <<Oldest>> \o l0
    /\ mems' = [mems EXCEPT ![Oldest] = {}]
    /\ UNCHANGED <<wal, sst, up, strategy, mem, levels, nextID, ts, full, comp, held, history>>

FlushRecord ==
    /\ FlushSwap
    /\ manifest' = RecordFlush(manifest, Oldest)
    /\ mu' = [mu EXCEPT !.pc = "flushed", !.id = Oldest]

FlushRecordFails ==
    /\ FlushSwap /\ "manifest" \in Faults
    /\ Release
    /\ UNCHANGED manifest

FlushRemove ==
    /\ mu.pc = "flushed"
    /\ wal' = [wal EXCEPT ![mu.id] = NoFile]
    /\ Release
    /\ UNCHANGED <<sst, manifest, up, strategy, tree, nextID, ts, full, comp, held, history>>

-----------------------------------------------------------------------------
(* runOnceCompaction.  The task is picked from a snapshot; the merge runs  *)
(* without the lock and emits tables of TableSize entries; the swap and    *)
(* its record happen under the lock; then the old tables are deleted.  The *)
(* watermark is any timestamp an open transaction may have pinned.         *)

Sizes == [i \in Id |-> Cardinality(Contents(sst[i]))]

CompactPick(watermark) ==
    LET task == GenerateTask(strategy, l0, levels, Sizes) IN
    /\ Free /\ comp.pc = "idle"
    /\ strategy # "none" /\ task # NoTask
    /\ comp' = [pc |-> "merge", task |-> task, new |-> <<>>,
                rest |-> Compacted(UNION {Contents(sst[i]) : i \in IdsIn(InputIDs(task))},
                                   task.toBottom, watermark),
                old |-> <<>>]
    /\ floor' = IF task.toBottom THEN Greater(floor, watermark) ELSE floor
    /\ UNCHANGED <<disk, up, strategy, tree, nextID, ts, mu, full, held, log, torn, top>>

\* Faulty: a table takes any entries of the merge, not the next ones.
NextTableUnsorted(rest) ==
    CHOOSE S \in SUBSET rest :
      Cardinality(S) = IF Cardinality(rest) < TableSize THEN Cardinality(rest) ELSE TableSize

\* The first TableSize entries of the merge, or what is left of it.
NextTable(rest) ==
    {v \in rest : Cardinality({w \in rest : Before(w, v)}) < TableSize}

CompactBuild ==
    /\ Running /\ comp.pc = "merge" /\ comp.rest # {}
    /\ nextID <= MaxId
    /\ nextID' = nextID + 1
    /\ sst' = [sst EXCEPT ![nextID] = NextTable(comp.rest)]
    /\ comp' = [comp EXCEPT !.rest = @ \ NextTable(@), !.new = Append(@, nextID)]
    /\ UNCHANGED <<wal, manifest, up, strategy, tree, ts, mu, full, held, history>>

\* Building a table fails: the task is given up, the tables built so far remain.
CompactBuildFails ==
    /\ Running /\ comp.pc = "merge" /\ comp.rest # {} /\ "table" \in Faults
    /\ MayTakeId
    /\ comp' = NoComp
    /\ UNCHANGED <<disk, up, strategy, tree, ts, mu, full, held, history>>

SwapIn ==
    LET result == ApplyResult(strategy, l0, levels, comp.task, comp.new) IN
    /\ Free /\ comp.pc = "merge" /\ comp.rest = {}
    /\ l0' = result.l0
    /\ levels' = result.levels
    /\ UNCHANGED <<wal, sst, up, strategy, mem, imm, mems, nextID, ts, mu, full, held, history>>

CompactSwap ==
    /\ SwapIn
    /\ manifest' = RecordCompaction(manifest, comp.task, comp.new)
    /\ comp' = [NoComp EXCEPT !.pc = "delete", !.old = InputIDs(comp.task)]

\* Faulty: the old tables are deleted although the swap is not recorded.
CompactRecordFailsDeleting ==
    /\ SwapIn /\ "manifest" \in Faults
    /\ comp' = [NoComp EXCEPT !.pc = "delete", !.old = InputIDs(comp.task)]
    /\ UNCHANGED manifest

\* AddRecord fails after the swap: the old tables are neither closed nor deleted.
CompactRecordFails ==
    /\ SwapIn /\ "manifest" \in Faults
    /\ comp' = NoComp
    /\ UNCHANGED manifest

\* The next superseded table is closed and deleted.
CompactDelete ==
    /\ Running /\ comp.pc = "delete"
    /\ sst' = [sst EXCEPT ![Head(comp.old)] = NoFile]
    /\ comp' = IF Tail(comp.old) = <<>> THEN NoComp ELSE [comp EXCEPT !.old = Tail(@)]
    /\ UNCHANGED <<wal, manifest, up, strategy, tree, nextID, ts, mu, full, held, history>>

-----------------------------------------------------------------------------
(* A Get or Scan captures the state and reads its tables without a lock.   *)

ReadStart(r) ==
    /\ Free /\ held[r] = NoReader
    /\ held' = [held EXCEPT ![r] = TableIds]
    /\ UNCHANGED <<disk, up, strategy, tree, nextID, ts, mu, full, comp, history>>

ReadDone(r) ==
    /\ Running /\ held[r] # NoReader
    /\ held' = [held EXCEPT ![r] = NoReader]
    /\ UNCHANGED <<disk, up, strategy, tree, nextID, ts, mu, full, comp, history>>

-----------------------------------------------------------------------------
(* The process dies, in the engine or in Open: memory is gone.  An Open    *)
(* that returns an error leaves the same files.                            *)

NoTree ==
    /\ mem' = 0 /\ imm' = <<>> /\ mems' = [i \in Id |-> {}]
    /\ l0' = <<>> /\ levels' = NoLevels

Crash ==
    /\ Crashes /\ up # "down"
    /\ up' = "down"
    /\ NoTree
    /\ nextID' = 0 /\ ts' = 0
    /\ mu' = Unlocked /\ full' = FALSE /\ comp' = NoComp
    /\ held' = [r \in Reader |-> NoReader]
    /\ torn' = torn \cup IdsIn(mu.batch)
    /\ UNCHANGED <<disk, strategy, log, floor, top>>

\* Faulty: oldest memtable first.
OldestFirst(M) ==
    [i \in 1 .. Cardinality(M) |-> CHOOSE m \in M : Cardinality({n \in M : n < m}) = i - 1]

NewestFirst(M) ==
    [i \in 1 .. Cardinality(M) |-> CHOOSE m \in M : Cardinality({n \in M : n > m}) = i - 1]

\* Faulty: resume one past the maximum.
NewestTsPlusOne(V) == Max({0} \cup {v.ts : v \in V}) + 1

\* Faulty: tombstones are not asked for their timestamps.
NewestTsOfPuts(V) == Max({0} \cup {v.ts : v \in {w \in V : w.val # Tombstone}})

NewestTs(V) == Max({0} \cup {v.ts : v \in V})

RecordedTables ==
    IdsIn(manifest.l0) \cup UNION {IdsIn(manifest.levels[j]) : j \in 1 .. MaxLevels}

\* Every table of the replayed layout has to open.  Without a controller there
\* are no levels, and replaying a compaction indexes out of range.
Reopenable(s) ==
    /\ \A i \in RecordedTables : sst[i] # NoFile
    /\ s = "none" => ~ manifest.compacted

\* Open replays MANIFEST, opens the tables, replays the logs of the memtables
\* not flushed, dropping empty ones, and creates the next memtable's log.
RecoverOpen(s) ==
    LET unflushed == {m \in manifest.mems : Contents(wal[m]) # {}}
        active    == manifest.maxID + 1 IN
    /\ up = "down" /\ Reopenable(s)
    /\ Reconfigure \/ s = strategy
    /\ active <= MaxId
    /\ strategy' = s
    /\ mem' = active
    /\ imm' = NewestFirst(unflushed)
    /\ mems' = [i \in Id |-> IF i \in unflushed THEN wal[i] ELSE {}]
    /\ l0' = manifest.l0 /\ levels' = manifest.levels
    /\ nextID' = active + 1
    /\ ts' = NewestTs(UNION ({wal[m] : m \in unflushed} \cup {sst[t] : t \in RecordedTables}))
    /\ wal' = [i \in Id |-> IF i = active THEN {}
                            ELSE IF i \in manifest.mems THEN Contents(wal[i]) ELSE wal[i]]
    /\ up' = "reading"
    /\ UNCHANGED <<sst, manifest, mu, full, comp, held, history>>

RecoverRecord ==
    /\ up = "reading"
    /\ manifest' = RecordMemtable(manifest, mem)
    /\ up' = "opened"
    /\ UNCHANGED <<wal, sst, strategy, tree, nextID, ts, mu, full, comp, held, history>>

OrphanWals == {i \in Id \ ({mem} \cup IdsIn(imm)) : wal[i] # NoFile}
OrphanSsts == {i \in Id \ TableIds : sst[i] # NoFile}

Orphans == OrphanWals \cup OrphanSsts

\* Directory order: by id, and the table before the log.
DeleteOrphan ==
    LET i == CHOOSE i \in Orphans : \A j \in Orphans : i <= j IN
    /\ up = "opened" /\ Orphans # {}
    /\ IF i \in OrphanSsts
       THEN sst' = [sst EXCEPT ![i] = NoFile] /\ UNCHANGED wal
       ELSE wal' = [wal EXCEPT ![i] = NoFile] /\ UNCHANGED sst
    /\ UNCHANGED <<manifest, up, strategy, tree, nextID, ts, mu, full, comp, held, history>>

\* Open returns.  What it found is what clients see from now on: the history
\* starts again from there, with the torn batches that made it.
Serve ==
    /\ up = "opened" /\ Orphans = {}
    /\ up' = "up"
    /\ log' = Visible /\ torn' = {} /\ floor' = 0
    /\ UNCHANGED <<disk, strategy, tree, nextID, ts, mu, full, comp, held, top>>

-----------------------------------------------------------------------------
Write   == (\E b \in Batches : WriteStart(b)) \/ WalAppend \/ WalAppendFails \/ WriteApply
Freeze  == \/ \E who \in Freezer : FreezeCreate(who) \/ FreezeFails(who)
           \/ FreezeEmpty \/ FreezeInstall \/ FreezeRecordFails
Flush   == FlushBuild \/ FlushRecord \/ FlushRecordFails \/ FlushRemove
Compact == \/ \E w \in 0 .. ts : CompactPick(w)
           \/ CompactBuild \/ CompactBuildFails \/ CompactSwap \/ CompactRecordFails
           \/ CompactDelete
Read    == \E r \in Reader : ReadStart(r) \/ ReadDone(r)
Recover == \/ \E s \in Strategies : RecoverOpen(s)
           \/ RecoverRecord \/ DeleteOrphan \/ Serve

Next == Write \/ Freeze \/ Flush \/ Compact \/ Read \/ Crash \/ Recover

Spec == Init /\ [][Next]_vars
=============================================================================
