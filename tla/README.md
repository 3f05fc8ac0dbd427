# TLA+ specifications of mythdb

mythdb (`src/`) is an LSM-tree storage engine in Go: multi-version keys,
optimistic transactions with conflict detection at commit, full and leveled
compaction with garbage collection below a watermark, and recovery from a
manifest and per-memtable write-ahead logs. This directory models

* the **concurrency control** - who may read what, and which commits are allowed,
  however goroutines interleave;
* the **layout of the data** - in which memtable or table a version lives, on disk
  and in memory, while freezes, flushes, compactions, failures and crashes happen
  around it, against an abstract store;
* the **read path** - the skiplist, table, concatenating, merging, versioned and
  transaction iterators, one movement at a time;
* the **files** - what a log or MANIFEST holds after short writes, crashes and loss
  of power;
* the **background loop** - that compaction keeps up, and that `Close` returns.

It contains TLA+ modules, TLC configurations, and theorems with TLAPS proofs.
`PROJECT.json` is the index: components, runs, mutants, the source lines each
definition stands for, findings, hazards and theorems.

    tlc -config MCMvcc_txns.cfg MCMvcc       # check one run
    tlapm MvccProofs.tla                     # check the proofs of one module

## 1. The system

| Component | Source (under `src/internal/`) | State | Operations |
|---|---|---|---|
| MVCC controller | `lsm/mvcc.go` | last timestamp, open readers, history of committed write sets, `commitMu` | latestTs, nextTs, addReader, removeReader, watermark, recordCommitted, pruneCommitted, hasConflict |
| Transactions | `lsm/txn.go` | staged writes, access set, done flag | Begin, Put, Delete, Get, Scan, Commit, Rollback |
| Versioned reads | `lsm/mvcc_iterator.go`, `lsm/iterator.go` | position in the merged stream | newest version at or below a timestamp |
| Engine | `lsm/storage.go` | active and immutable memtables, L0, levels, open tables, next id | Open, Write, Get, Scan, freeze, flush, Close |
| Compaction runner | `lsm/compact.go` | the task under way | doCompact, runOnceCompaction, background loop |
| Compaction controllers | `compaction/` | none | GenerateTask, ApplyResult (full, leveled) |
| Recovery | `lsm/recover.go` | the layout being rebuilt | replay, open tables, replay logs, delete orphans |
| Manifest, WAL | `manifest/`, `wal/` | append-only files | AddRecord, Put, Recover |
| Memtable | `memtable/` | skiplist, its log | PutBatch, Iter |
| Key encoding | `key/` | none | Encode, Compare |
| Tables, blocks, Bloom filter | `sstable/`, `block/`, `bloom/` | immutable files | Build, Open, iterate |
| Merging iterators | `iterator/` | cursors | merge, concatenate |
| Demo | `cmd/mythdb` | none | |

**How they interact.** A call of `Write` or `Commit` holds `commitMu` from
validation until the history is pruned. Inside, it takes a timestamp (`mvcc.mu`),
applies the batch to the active memtable (`Storage.mu`, then the memtable's
mutex, log first), and freezes the memtable if it is full. `Begin` and the
one-shot `Get` and `Scan` take no `commitMu`. Readers capture the `state` pointer
under a read lock and then go without locks. The compaction goroutine picks a
task from a captured state, reads the watermark, merges without locks, swaps the
state and records it under `Storage.mu`, and closes and deletes the inputs
afterwards. Flushes are only made by callers of `ForceFlushNextImmMemtable`.

**What is hard.** Several critical sections make one logical step (Begin,
pruneCommitted, the merge with its earlier watermark); a timestamp is published
before its batch is applied; errors are returned after part of the work is done
(log append, freeze, manifest append); a crash may fall between any two file
operations, in recovery too; ids and timestamps restart from what recovery finds.
`PROJECT.json` lists each such hazard with its line and the properties that watch
it, or why none does yet.

**What makes each part correct.** The controller counts each open transaction once
and keeps the history its commit needs. A snapshot never changes, whatever is
committed or collected. Of two overlapping conflicting transactions at most one
commits, and an abort has a cause. Batches apply in timestamp order. The tiers
hold younger versions above older ones, each level is a sorted run, together they
answer as the acknowledged writes do, and after any crash Open succeeds and
rebuilds the same layout.

## 2. The modules

    Versions                  what a read returns, what a compaction keeps
      Mvcc                    transactions, commitMu, watermark
        MvccProps, MvccProofs
      KvStore                 abstract: a versioned store that survives crashes
      Controller              full and leveled compaction as pure decisions
        LsmTree               memtables, tables, manifest, crashes; implements KvStore
          LsmProps, LsmProofs
        CompactionLoop        ticks, drain, Close
          CompactionLoopProps, LoopProofs
      Cursor                  abstract: an iterator over sorted entries
        Tables                builders, blocks, table and level iterators; implements Cursor
          TablesProps
        Merge                 the merging iterator and its heap; implements Cursor
          MergeProps
      Scan                    merge, versions, overlay of local writes; its sources are Cursors
        ScanProps, ScanProofs
    SkipList                  a memtable under its unlocked iterators
      SkipListProps, SkipListProofs
    LogFile                   a write-ahead log, or MANIFEST, as bytes
      LogFileProps, LogFileProofs
    OperatorProofs            facts about the operators of Versions and Controller
    Inductions                lemmas: least and greatest elements, inductions

Each `MC` module gives one of them small constants; `MCIterators` gives them to `Tables` and `Merge`,
the two that implement `Cursor`, and lets a behaviour be that of one of them. The modules stand on each other
by what they assume: `LsmTree` has one writer because `Mvcc` applies batches in
timestamp order (`AppliedInTsOrder`, proved); `Scan` places versions in tiers as
`LsmTree` does (`TierOrder`, proved), inserts into a memtable atomically because `SkipList`
shows that an iterator does not notice (`IterationExact`, proved), moves over a table
as `Tables` shows it may (`IteratesContents`), and takes the least of its sources because `Merge` shows
that the heap finds it (`MergesSources`); merges may be nested, because what a merge gives is again
a `Cursor`; `LsmTree` appends a record in one
step because `LogFile` recovers a prefix of whole records (`LogExact`, proved); the
garbage collection in `Mvcc`, `LsmTree` and `Tables` is one operator of `Versions`,
which `OperatorProofs` proves harmless. The proofs stand on each other in the same way:
what `MvccProofs`, `LsmProofs` and `ScanProofs` need to know of a read, and `LsmProofs` and
`LoopProofs` of a compaction task, is what `OperatorProofs` shows of the operators.

### Versions
A stored version is a record of user key, timestamp and value; a tombstone is the
empty value. A *set* of versions stands for the merged stream of all tiers.
`ReadAt` is the answer of `mvccIterator`, `Compacted` is the filter of `doCompact`.

### Mvcc
One client is one goroutine; `call[c]` is the call it is executing. A call is cut
wherever the code takes or drops a lock:

| Code | Actions |
|---|---|
| `Storage.Begin` | `BeginLatest`, `BeginRegister` (two critical sections of `mvcc.mu`) |
| `Txn.Put/Delete`, `Get`, `Scan` | `Put`, `Get`, `Scan` |
| `Txn.Rollback` | `Rollback` (marks done), `RollbackRelease` (removeReader) |
| `Txn.Commit` | `CommitCall`, `LockForCommit` or `CommitFinished`, then `AbortOnConflict`, `CommitReadOnly` or `PassValidation` |
| `Storage.Write` | `WriteCall`, `LockForWrite` |
| both, from nextTs on | `Stamp`, `Apply` / `ApplyFails` / `FreezeFails`, `Record`, `Release`, `PruneWatermark`, `PruneFilter` |
| `Storage.Get` | `OneShotLatest`, `OneShotRead` |
| `runOnceCompaction` | `CompactStart` (watermark), `CompactSwap` |

The LSM tree is the set `store` of versions. `log` is the same set without any
collection, and `hist` remembers what each open transaction saw; both are history
variables. Two abstractions need a reason. A one-step `Scan` is consumed to its
end: a longer one only adds reads of the same snapshot. A bottom-level compaction
takes the versions *up to some timestamp*: it takes whole oldest tiers, and
tiers fill in commit order (`AppliedInTsOrder`, `TierOrder`).

A transaction is **clean** when its Begin overlapped no commit. The code only keeps
its promises for those. Properties of clean transactions are checked as
passing runs; that the same promises fail for the others is shown by violation runs.

### LsmTree and KvStore
On disk: `wal`, `sst`, and `manifest` as the layout its records fold to. In memory:
the tiers, the ids, the progress of the goroutine that holds `Storage.mu` (`mu`)
and of the compaction goroutine (`comp`). The write path is cut at every file
operation, since the process may die after each: `WriteStart`, `WalAppend` (one
record per entry), `WriteApply`; `FreezeCreate`, `FreezeInstall`; `FlushBuild`,
`FlushRecord`, `FlushRemove`; `CompactPick`, `CompactBuild` (one table),
`CompactSwap`, `CompactDelete` (one table); `Crash`; `RecoverOpen`,
`RecoverRecord`, `DeleteOrphan` (one file), `Serve`. Every operation that can fail has an
action for its failure, with the state the code leaves behind. `Strategies` may
contain "none" (an engine without a controller), and with `Reconfigure` a directory
may be reopened with another strategy.

A crash is the death of the process. What was written to a file survives; the loss
of unsynced pages is `LogFile`'s subject. After recovery the
history restarts from what the engine then holds, with whatever part of an
interrupted batch made it.

`KvStore` is what a client may rely on: batches are acknowledged in timestamp order,
a refused batch is not visible, collection raises a `horizon` below which nobody
reads, a crash keeps every acknowledged batch and any part of a doubtful one.
The refinement mapping is in `LsmProps` (`StoreKept`). What a store says at and
above the horizon is represented by `Kept`, the versions a collection
at the horizon would leave: two stores with the same `Kept` answer alike
(`GcPreservesReads`). While the engine is up its content is
what the tiers show, and while it is down what Open would find (`Recoverable`), so
that a step in which disk and memory part company is a step the abstract
store does not have.

### Controller
The two strategies as operators from tiers and table sizes to a task, and from a
task's result to tiers. The floating-point ratio of the leveled strategy is
compared by cross multiplication.

### CompactionLoop
`Tick`, `TakeTick`, `TakeStop`: the `select` of `compactionLoop`. `PickTask`, `FinishTask`,
`TaskFails`, `RecordFails`, `Drained`: its inner loop over `runOnceCompaction`.
`CloseCall`, `CloseFiles`: `Close`. `Flush` runs at any time. A table is an id and a
size, and a merge may shrink its inputs to any size or nothing. An id
is used again once its table is gone, which the engine never does; only so
can a finite model flush for ever, which the liveness properties need.

### Tables and Cursor
`Consume` is one round of the loop in `doCompact`: the filter, `Builder.Add`, the cut into
blocks and tables. `Finish` builds what is left, `OpenIterator` seeks (`FindBlockIdx`,
`SeekInTable`, `SeekRun` are the binary searches), `NextEntry` crosses block and table ends,
`ReadFails` is a failing `ReadBlock`. A value is its length, since the sizes decide all the
cuts. `Cursor` is an iterator as its user sees it: the entries not passed yet.

### Scan
One state has a `head` per source, the entry the merge stands on, what `mvccIterator`
is doing (`step`), and what `txnIterator` has chosen (`pending`). `FindEnds`,
`FindSkipsNewer`, `FindSkipsTombstone` and `FindStands` are the branches of `findNext`,
`SkipUser` the skipping of a user key, `ChooseLocal`, `ChooseBoth` and `ChooseEngine` those of
`advance`, `Yield` what the caller gets. `Insert` is a commit that arrives meanwhile.
Source 1 is the active memtable, which `Insert` changes under the iterator. The one-shot
`Storage.Scan` is a scan without local writes.

### SkipList
`PutBatch` holds the memtable's mutex from `Lock` to `Unlock`. A `put` is the search
(`Insert`, any height, or `Overwrite`), then the single pointer stores that link the node
(`Perform`). `Iter` takes the mutex for its first node only; `Next1` takes none. With
`Reordered` the stores of a put may become visible in another order.

### Merge
A source is a set of entries, its iterator a position in it. `h` is the heap as the array
that container/heap works on, with `Up` and `Down`, its two passes. `NewMergeIterator` builds it.
A call of `Next` is `CallNext`, `SkipTie` for each older iterator on the current key, and
`AdvanceCurrent`; `TieFails` and `CurrentFails` are its two error returns, after which no caller
goes on. `Insert` lets the memtable grow between any two of these. `Scan` has the same merge in
one step (`MergeNext`, `Pick`).

### LogFile
A file is a sequence of cells, a record some of them, the first being its header.
`WriteCell` writes one at a time, so that `Crash`, `PowerLoss` and `PutShort` may
cut a record anywhere. `Recover` parses from the start: it truncates a log there and
leaves MANIFEST as long as it was, as the code does.

Definitions marked *Faulty* are mutants: plausible mistakes that no action uses.
`PROJECT.json` names for each property one of them that breaks it.

## 3. What TLC checks

### Passing runs

| Run | Instance | Properties | States |
|---|---|---|---|
| `mvcc_txns` | 2 clients, 2 transactions, 2 keys, 1 value and delete, 2 timestamps, failing log appends | `TypeOK`, `ReadersExact`, `HistoryComplete`, `ReadsSerializable`, `FirstCommitterWins`, `AbortHasCause` | 920 thousand |
| `mvcc_writers` | 2 clients, 1 transaction, autocommit writes, one-shot reads, compaction, both write failures, fairness | `SnapshotRetained`, `SnapshotStable`, `CommitOrder`, `AppliedInTsOrder`, `CallsReturn` | 200 thousand |
| `lsm_recovery` | both strategies, 2 keys, 3 timestamps, ids 0-4, crashes anywhere, failing log appends | `TypeOK`, `LayoutReplayed`, `TierOrder`, `AlwaysReopenable`, `TsFresh`, `FilesKept`, `StoreKept` | 2.08 million |
| `lsm_faults` | both strategies, 2 keys, 2 timestamps, ids 0-5, failing manifest appends and table builds, a reader | `ReadsExpected`, `AlwaysReopenable`, `TierOrder`, `SortedRuns` | 1.03 million |
| `scan_snapshot` | a memtable and a table, 2 keys, 3 timestamps, snapshot 2, any placement, local writes, 3 ranges, inserts, failing reads | `TypeOK`, `ScanExact`, `ScanEnds` | 860 thousand |
| `iterators` | tables: 3 keys, 2 timestamps, entries of three sizes, blocks of two entries, flush and compaction at any watermark, failing reads; merge: 4 sources with any of 4 entries each, inserts into the newest, failing reads of the two oldest | `TypeOK`, `SizesBounded`, `MetaExact`, `IteratesContents`, `MergesSources` | 1.41 million |
| `logfile_crashes` | log with and without sync, and MANIFEST; 4 records of 1, 2 or 4 cells; 2 torn writes, 1 for MANIFEST; short log writes | `TypeOK`, `LogExact`, `RecoverySucceeds` | 184 thousand |
| `loop_close` | both strategies and none, 4 tables, 3 levels, failing merges and records | `TypeOK`, `TablesPlacedOnce`, `QuietWhenClosed`, `CloseReturns`, `TablesLeaveL0` | 6 thousand |
| `skiplist_iterate` | 4 keys, 3 levels, batches of 2, one reader | `SearchExact`, `IterationExact` | 1.36 million |

What they show:

* **Readers** are counted exactly, so the watermark neither passes an open
  snapshot nor sticks (`ReadersExact`); what a clean snapshot reads is retained and
  never changes (`SnapshotRetained`, `SnapshotStable`).
* **Validation is complete for reads**: a clean transaction that passes it has read
  what a transaction running alone at its commit timestamp would have read
  (`ReadsSerializable`), nobody overwrote its keys since its snapshot
  (`FirstCommitterWins`), and aborts have a cause (`AbortHasCause`).
* **No failure path** keeps `commitMu` (`CallsReturn`).
* **The engine implements a versioned store** (`StoreKept`): through any sequence of
  freezes, flushes, compactions, crashes, and crashes of the recovery itself,
  nothing acknowledged is lost and nothing comes back. Open always succeeds
  (`AlwaysReopenable`) with the same layout (`LayoutReplayed`) and a timestamp counter above all
  that is left (`TsFresh`), though it may be set back. Without crashes the same holds
  with failing manifest appends (`ReadsExpected`).
* **A scan returns its snapshot**, with the local writes over it, in order, once, to
  the end, while the memtable it walks grows (`ScanExact`); it
  ends (`ScanEnds`).
* **The merge is one iterator** over the union of its sources, the newest entry of each key
  (`MergesSources`): its heap loses no source and lets no duplicate through, though iterators
  move, end and grow between two orderings.
* **What was stored is what is iterated**, for any cut into blocks and tables and
  any bound (`IteratesContents`), with exact metadata (`MetaExact`).
* **A crash costs only what was in flight, power loss only what was not synced**
  (`LogExact`), and the traces of a crash are not taken for corruption
  (`RecoverySucceeds`).
* **Compaction keeps up**: no table is lost by flushes that race a merge
  (`TablesPlacedOnce`), due work gets done in spite of errors (`TablesLeaveL0`), and
  `Close` returns although the loop drains first (`CloseReturns`), with nothing running
  behind it (`QuietWhenClosed`).
* **Iterators may walk without the mutex** (`IterationExact`), as far as stores become
  visible in program order.

**Bounds.** Every bound is a constant: `MaxTs` timestamps, `MaxId` ids, the sets of
inputs. Two transactions and two keys are the least that exhibit write skew,
lost updates and phantoms; two clients the least for every race of two critical
sections, and the third actor, compaction, is always there. With `FreezeAt = 2`
and `TableSize = 1` three timestamps fill memtables, leave more than one tier, cut
compaction output in several tables and shadow an older version by a tombstone;
five ids allow a freeze, a flush, a compaction and a recovery (which takes an id)
in one behaviour. In `scan_snapshot` two keys with two timestamps in the snapshot and one above it give
shadowed versions, tombstones above and below, a version to skip, and local
writes before, at and after each of them; two sources tie only if one version is in
both, which `TierOrder` and unique timestamps exclude. In the merges of `iterators` they do: four sources
put up to three in the heap array beside the current one, the least that has a left and a right
child to choose from, and up to four may stand on one key. In its tables the block size is exactly that of
the second smallest pair of entries, so that the size rule is met, missed by one, and overridden by a
first entry that is too large, and the largest inputs make several tables of several blocks. Four
records let a crash fall on a record written over the traces of another. Four
nodes on three levels give every shape of tower beside every other that
a search can meet. Where bounds run out the system stops, so these runs do not
check deadlock; that calls end is `CallsReturn`, `CloseReturns`, `ScanEnds`.
Symmetry is used in `mvcc_txns` only, which checks no liveness.

**Fairness.** `Mvcc!FairSpec`: `WF(Proceed(c))`: a goroutine inside a call keeps being
scheduled, and every step after taking `commitMu` only needs mutexes held for a
bounded time. `SF(Acquire(c))`: Go's `sync.Mutex` switches to handoff mode for a
waiter that starves, so one that finds the mutex free again and again gets it.
`Scan`: `WF(Reader)`, the caller goes on asking. `CompactionLoop`: weak fairness of the ticker, of the loop
and of `Close`. Strong fairness of `TakeTick` and `TakeStop`: `select` chooses at
random among the ready cases, so a case that is ready again and again is taken. Strong fairness
of `FinishTask`: the loop goes on after errors because they are "transient"
(`compact.go:210`); were they not, nothing could be promised.
Nothing forces a client to call, a commit to fail or a flush to happen.

### Promises the code does not keep

| Run | Promise | What happens |
|---|---|---|
| `mvcc_inflight` | Begin reads a consistent snapshot (`storage.go:338`) | the timestamp is published before its batch: the snapshot changes |
| `mvcc_phantom` | serializable transactions (`README.md:5`) | absent keys of a scan are not tracked |
| `manifest_tail` | MANIFEST drops a torn tail (2b design, line 237) | Recover does not truncate; a second crash over the first one's traces can make them look like a corrupt record, and Open fails |

Further configurations are kept beside these for the smaller or conditional
disagreements. They are run by hand, and TLC finds a violation in each:

| Configuration (module) | Promise | What happens |
|---|---|---|
| `MCMvcc_beginrace` (`MCMvcc`) | pruning keeps what open transactions need (`mvcc.go:95`) | a commit between `latestTs` and `addReader` prunes the entry |
| `MCMvcc_unrecorded` (`MCMvcc`) | Write records its write set (`storage.go:232`) | a failed freeze returns before it, with the batch applied |
| `MCLsm_torn` (`MCLsm`) | a batch is atomic (2b design, line 41) | a crash between two log records recovers one half |
| `MCLsm_manifest` (`MCLsm`) | acknowledged writes survive a crash (2b design, line 39) | after a failed record of a freeze, writes go to a log Open deletes |
| `MCLsm_strategy` (`MCLsm`) | Open rebuilds the state (`README.md:14`) | replay of another strategy's directory keeps deleted tables, or has no levels to index |
| `MCLsm_readers` (`MCLsm`) | captured handles stay open (2a design, line 224) | compaction closes them under a reader |
| `MCScan_silent` (`MCScan`) | an error is not an absent key (week 1 design, line 169) | `newTxnIterator` drops the error of its first step, and the scan looks exhausted |
| `MCTables_width` (`MCTables`) | any single entry fits a block (`block/builder.go:24`) | the length of a value of 64 KiB is truncated to 16 bits |
| `MCSkipList_reordered` (`MCSkipList`) | unlocked iteration is safe | with stores visible out of order, which the Go memory model allows a reader without the lock, an iterator loses the rest of the list |

A run that checks a property in the presence of a failure says so in its
configuration: `HistoryComplete` holds with failing log appends
(`mvcc_txns`) and fails with failing freezes; `StoreKept` holds with crashes
(`lsm_recovery`) and `ReadsExpected` with manifest failures alone (`lsm_faults`), and both fail when a
crash follows a manifest failure; `RecoverySucceeds` holds for MANIFEST with one torn record.

## 4. What is proved

Every theorem holds for every value of the constants, from the assumptions named in the
modules. Two of these are not about the code: `NoFileAssumption` says that the model value
for a missing file is not a set of entries, and a conjunct of `ScanAssumption` that the one for
an exhausted iterator is not a version. Each strengthened invariant was checked by TLC
on the runs of its module before it was proved.

| Module | Theorems | Properties of the runs |
|---|---|---|
| `OperatorProofs` | `GcBelowPreservesReads`, `GcPreservesReads`, `UpperCompactionKeepsAll`, `RemoveIDsResult`, `TaskShape` | |
| `MvccProofs` | `MvccTypeOK`, `MvccCommitOrder`, `MvccAppliedInTsOrder`, `MvccLifecycle`, `MvccReadersExact`, `MvccWatermarkProtects` | `TypeOK`, `CommitOrder`, `AppliedInTsOrder`, `ReadersExact` |
| | `MvccSnapshotRetained`, `MvccSnapshotStable`, `MvccAbortHasCause`, `MvccHistoryComplete`, `MvccFirstCommitterWins`, `MvccReadsSerializable` | the properties of these names |
| `LsmProofs` | `LsmTypes`, `LsmAlwaysReopenable`, `LsmTsFresh`, `LsmFilesKept`, `LsmLayoutReplayed` | `TypeOK`, and the properties of these names |
| | `LsmTierOrder`, `LsmSortedRuns`, `LsmReadsExpected`, `LsmStoreKept` | the properties of these names |
| `LoopProofs` | `LoopTypeOK`, `LoopTablesPlacedOnce`, `LoopQuietWhenClosed` | the properties of these names |
| `SkipListProofs` | `SkipListSearchExact`, `SkipListIterationExact` | the properties of these names |
| `ScanProofs` | `ScanTypeOK`, `ScanHandsOutSnapshot` | `TypeOK`, `ScanExact` |
| `LogFileProofs` | `LogTypeOK`, `LogLogExact`, `LogRecoverySucceeds` | `TypeOK`, and the properties of these names |

**Reading and collecting.** Collecting a part of the tree at a watermark changes no read at
or above it, if what stays outside the part is younger, key by key. Both theorems assume
one version per key and timestamp (`OneVersionPerTs`). The newest version at or below the
watermark survives unless it is a tombstone, and then nothing visible is left of the
key, which reads the same. A second group of lemmas (`KeptGrow`, `KeptLater`, `KeptBelow`,
`KeptReads`, `KeptAll`) says the same of what `Kept` leaves: it may be taken before or after
younger versions are added, and once more at a later watermark.

**Transactions.** `TypeOK` and `CommitOrder` are inductive together: mutual exclusion under
`commitMu` orders batches only because all that was applied was stamped at or below `mvcc.ts`
and a call about to apply has stamped last; a failed append skips a timestamp.
`Lifecycle` ties each transaction to the one call that works on it, `NotAhead` bounds
the registered readers, the read timestamps and the watermark a merge has read by the timestamp Begin
would hand out, and with both `Counted` says of each
timestamp that `readers` counts its registered transactions (`ReadersExact`). So the
watermark lies at or below the read timestamp of every open transaction
(`WatermarkProtects`), and it stays so for the one a merge has read earlier and every clean
transaction begun since (`Snapshots`): what a snapshot may ask for is kept, whenever the
merge is installed. For
validation, `Recorded` says that each version younger than an open snapshot has its write set
in the history or belongs to the call that holds `commitMu`; `Staged`, `ReadsTrue` and
`Validated` carry a read from `Get` through validation to the moment its transaction applies.
These assume `"freeze" \notin Faults`: a failed freeze returns before the write set is recorded
(`storage.go:224-232`), and then `HistoryComplete` is false (`MCMvcc_unrecorded`).

**Strategies.** The controllers' recursive functions are unfolded by the least-number
principle. `RemoveIDs` keeps what it was not told to drop, in order. A task takes whole levels
of the present layout, adjacent ones or all of them, and never nothing.

**The tree on disk and in memory.** All results about `LsmTree` hold through any sequence of
freezes, flushes, compactions, failures, crashes and crashes during recovery. They assume
`~ Reconfigure`: replay under another strategy may fail (`MCLsm_strategy`). The invariants
build on each other:

1. `Types` is stronger than `TypeOK` (contents of files are finite sets, idle components hold
   nothing).
2. `Structure` is about ids: those in use lie below `nextID` (`Below`), each has one role
   (`Apart`) and one tier, in which memory and manifest never disagree (`Homes`), what is
   named exists (`Present`), and the task under way still fits the layout, which may have
   grown in L0 only (`TaskPicked`). Hence `AlwaysReopenable` and `FilesKept`.
3. `Dated` bounds everything that is visible, or a crash would make visible, by the clock;
   the batch being written is alone at the last timestamp. Hence `TsFresh`, although
   recovery may set the clock back.
4. `SameTiers` and `Logged` (a memtable is recorded, and all it holds is in its log) give
   `LayoutReplayed` where `"manifest" \notin Faults`: the code swaps the layout before it
   records it, so a failed append leaves memory ahead.
5. `Filling`, `Ordered` and `MergeBelow` order the tiers: memtables are filled one after the
   other, in the order of their ids, L0 is stacked on top, and what a merge has in hand comes from
   its inputs, above which its upper tier has only grown. Hence `TierOrder`.
6. `Sorted` orders the tables inside a level: the pending rest of a merge lies behind all that
   it has written. Hence `SortedRuns`.
7. `StoreInv` is about contents: a log holds its memtable and besides only doubtful entries
   (`Written`), timestamps are unique (`Stamped`), a merge's output and rest are together its
   inputs collected at a timestamp no reader is below (`MergeKept`), what was dropped is older
   than all memtables (`Collected`), and from `floor` on the tiers say what the acknowledged
   batches say (`OpenKept`; when down, with part of the doubtful ones, `ClosedKept`). Hence
   `ReadsExpected`, and that every step is a step of `KvStore` or a stutter (`StoreKept`).

Items 5 to 7 assume `~ Crashes \/ "manifest" \notin Faults`. It cannot be dropped: after a flush
whose record failed, a crash brings the memtable back above tables that were flushed after it, and
TLC finds `TierOrder` violated (`MCLsm_manifest` shows the write that the same gap loses). `lsm_recovery` and `lsm_faults` are the two cases.

**The compaction loop.** `Placed` says that no tier repeats a table and no two tiers share
one, `TaskFits` that while a merge runs, whose task was picked before, L0 has only grown at its
end and the levels it takes are as they were. So what `ApplyResult` removes is there, and what it
adds is nowhere else (`TablesPlacedOnce`). `Bounded` makes the type of a size inductive: a merge's
outputs are together no larger than its inputs. Sizes are added by a fold over sets, whose
value could depend on the order in which it picks elements; the first lemmas of `LoopProofs` show that it
does not, and that sums split and shrink as they should.

**The skiplist.** `SkipListInv` says that there are sets of keys, one for each level, such that
every level is the list of its set in order (`Chains`), each level holds a part of the one
below (`Nested`), and the stores still to come link one key, bottom up, on each level
between the neighbours that the search found (`Underway`): setting the new node's own pointer
changes no list, and setting its predecessor's puts the key in it. `Walks` says of an
open iterator that it stands on the lowest list or at its end and has met all that it had to find
before there. The recursive searches are well defined because nothing but the list is
reached, and the greatest counterexample refutes any other value. Both theorems assume
`~ Reordered` (`MCSkipList_reordered` shows why).

**A scan.** The invariant has two halves, a place and a frontier. The merge is at one place in the
order of keys. `MergeInv` says that every source's head is at or behind that place, and that no
source has passed a version of the snapshot that lies behind it; a commit adds only newer
versions, so it does not matter where in the memtable they land. `MergeStep` follows: a
movement of the merge passes the version it stood on and no other of the snapshot in the range.
This half gives `TypeOK`, for any keys. The reader is at a frontier `c`
(`Progress`): local writes below `c` have been chosen, what was handed out and what is pending
is the answer below `c`, and of the keys from `c` on the merge has met (`Seen`) only deleted
ones, besides the one it is about to decide. One of the three choices moves `c` past the least
key with an answer (`Decided`). With nothing left on either side every answer lies below `c`,
which is the completeness in `ScanExact`. `ScanHandsOutSnapshot` assumes `EmptyKey \notin Key`
(section 5). Keys, versions and sources may be any number; a failing read ends the scan.

**The log and MANIFEST.** The parser is a recursive function of the file; the first lemmas say
that it is well defined, and that a file in which the records `rs` lie one behind the other
from the first cell on, at the cells `at` (`Laid`), with no whole record behind them, parses to
`rs`. `LogInv` keeps such `rs` and `at` at hand (`Accounts`). While the process lives they are
the acknowledged records, and the next one is being laid where they end (`Going`). The last of
its cells makes it a record of the file, at once, because before there is either nothing behind
it or what is left of an older record, which begins with no first cell (`NoFirstBehind`) and holds
none of the new record's cells (`Fresh`). A write that fell short leaves a record without its
end at which the parser stops for good (`Broken`). When the process dies, wherever the file is
cut (`CutParses`), the records that lie before the cut are left, hence those that were synced
(`at[safe + 1] <= synced + 1`), and what the next one has left is no whole record (`Dead`).

`"manifest" \notin ShortWrites` is assumed: what is appended to MANIFEST after a short write is
lost as in a log, and recovery would leave it in place. `LogRecoverySucceeds` assumes besides
that at most one record of MANIFEST is torn, since with two it is false (`manifest_tail`); torn
records of the logs are not limited.

**Only model-checked.** `Tables` and `Merge`, with their refinements of `Cursor`; the passes through
the heap of `Merge` are recursive operators, which the prover does not accept. Liveness (`CallsReturn`, `CloseReturns`, `TablesLeaveL0`, `ScanEnds`):
fairness and ENABLED are out of the prover's reach. The library's induction theorems cannot be
instantiated with the installed provers; `Inductions` states what is needed with sets in
place of predicates, and derives it from the well-foundedness of inclusion.

## 5. What is not modelled

* The bytes of keys, blocks, table metadata and their checksums. The Bloom filter: tables
  carry one, and no read of the engine consults it. `TwoMergeIterator`, which only its
  tests use.
* `LogFile` and `LsmTree` are not composed: a failing append in `LsmTree`, to a log or to MANIFEST,
  writes nothing, and it crashes without losing pages. In the code `Sync` may also fail behind a
  complete write (`wal.go:105`, `manifest.go:101`). Then a refused record is in the file, and may
  be recovered; `LogFile` has no such record in the middle of a file either, only a doubtful one at
  its end. A short write to MANIFEST is left out: as in the log, what is appended after it would be lost.
* Removing a log or a table always succeeds (`FlushRemove`, `CompactDelete`). The code ignores errors of
  `os.Remove` (`storage.go:437`, `compact.go:173`); the file that stays is deleted as an orphan by the
  next Open.
* An error of a read ends a scan of `Scan` at once (`ReadFails`). `Merge` models how it passes
  through MergeIterator; the returns of `findNext` and `advance` above it (`mvcc_iterator.go:38-57`,
  `txn.go:232-260`) are not steps of their own.
* Keys of 64 KiB and more, and blocks of more entries than 16 bits count: `Tables` assumes
  them away (`KeyLen`, `BlockSize`), the code does not check.
* Power loss takes cells from the end of a file only; directory entries and the truncation of a
  torn log are taken to be durable, though the code syncs neither.
* The empty user key, which `mvccIterator` cannot tell from the end of its source
  (`mvcc_iterator.go:58`), can be made a key of `Scan` (`EmptyKey`) and is not one in
  the run: `ScanExact` fails with it.
* A leveled strategy whose upper level gets a target of 0 by integer division never
  compacts that level (`leveled.go:43`); `TablesLeaveL0` is about L0 only.
* Defaults and limits of the options; a failing table build in a flush (the
  memtable stays, and the partial file is overwritten by the retry).
* Half-consumed scans together with later writes of the same transaction, and calls that
  race with the Commit of their own transaction. Put
  and Get of a finished transaction touch nothing but that object, and are left out.

## 6. Plan

Done: all components that change state, their properties and runs, and proofs about all of
them but the inside of tables.

Left: proofs about `Tables`, that blocks and tables keep to their sizes while they are built
(`SizesBounded`), and that the metadata says what is in them (`MetaExact`).
