-------------------------------- MODULE Mvcc --------------------------------
(***************************************************************************)
(* The multi-version concurrency controller and the calls that go through  *)
(* it: transactions (Begin, Put, Delete, Get, Scan, Commit, Rollback),     *)
(* autocommit batches (Storage.Write), one-shot reads (Storage.Get) and    *)
(* the background compaction that garbage-collects below the watermark     *)
(* (internal/lsm: mvcc.go, txn.go, the write and read paths of storage.go, *)
(* runOnceCompaction of compact.go).                                       *)
(*                                                                         *)
(* A client is a goroutine.  It executes one call at a time, and a call is *)
(* cut wherever the code takes or drops a lock: mvcc.mu around every       *)
(* controller method, commitMu around a whole commit, the memtable's mutex *)
(* around a batch.  Between two such steps any other goroutine may run.    *)
(*                                                                         *)
(* The LSM tree is abstracted to the set of versions it holds; LsmTree     *)
(* models how that set is laid out in memtables and tables.                *)
(***************************************************************************)
EXTENDS Versions

CONSTANTS
    Client,      \* goroutines that call the engine
    Txn,         \* transaction objects, each begun at most once
    None,        \* no client, no transaction, no key
    Unset,       \* a key a batch does not write, or a transaction did not read
    HashValue,   \* range of hashKey
    Hash,        \* hashKey, on Key
    Batches,     \* batches clients pass to Storage.Write
    Ranges,      \* key ranges transactions scan
    Lookups,     \* keys read by Storage.Get
    MaxTs,       \* bound: timestamps handed out
    Faults       \* which writes may fail: "wal" (append), "freeze" (after apply)

ASSUME UnsetAssumption == Unset \notin Stored
ASSUME NoneAssumption  == None \notin Txn /\ None \notin Client /\ None \notin Key
ASSUME HashAssumption  == Hash \in [Key -> HashValue]
ASSUME InputAssumption ==
    /\ Batches \subseteq [Key -> Stored \cup {Unset}]
    /\ Ranges \subseteq SUBSET Key
    /\ Lookups \subseteq Key
ASSUME BoundAssumption == MaxTs \in Nat
ASSUME FaultAssumption == Faults \subseteq {"wal", "freeze"}

VARIABLES
    ts,          \* mvcc.ts: the last commit timestamp handed out
    readers,     \* mvcc.readers: open read timestamp -> number of transactions
    committed,   \* mvcc.committed: write sets of recent committers
    commitMu,    \* holder of mvcc.commitMu
    store,       \* versions the LSM tree holds
    txn,         \* the Txn objects
    call,        \* what each client's goroutine is executing
    gc,          \* the compaction goroutine
    log,         \* history: every version ever applied, never collected
    hist         \* history: what each open transaction observed

controller == <<ts, readers, committed, commitMu>>
vars == <<ts, readers, committed, commitMu, store, txn, call, gc, log, hist>>

-----------------------------------------------------------------------------
Ts    == 0 .. MaxTs
Batch == [Key -> Stored \cup {Unset}]

NoBatch      == [k \in Key |-> Unset]
WrittenBy(b) == {k \in Key : b[k] # Unset}
HashesOf(K)  == {Hash[k] : k \in K}

\* Encoding a batch gives each of its keys the commit timestamp.
Versioned(b, t) == {[key |-> k, ts |-> t, val |-> b[k]] : k \in WrittenBy(b)}

PC == {"idle", "begin", "get", "rollback", "lock", "validate", "stamp",
       "apply", "record", "release", "prune", "filter"}

Call == [pc    : PC,
         txn   : Txn \cup {None},    \* None: the call is a Storage.Write or Get
         key   : Key \cup {None},
         seen  : Ts,                 \* timestamp read from the controller
         ts    : Ts,                 \* commit timestamp
         batch : Batch]

Idle == [pc |-> "idle", txn |-> None, key |-> None, seen |-> 0, ts |-> 0,
         batch |-> NoBatch]

Transaction == [status : {"new", "open", "done"},
                readTs : Ts,
                local  : Batch,
                access : SUBSET HashValue]

NewTxn == [status |-> "new", readTs |-> 0, local |-> NoBatch, access |-> {}]

Observed == [clean  : BOOLEAN,      \* Begin did not overlap a commit
             reads  : Batch,        \* values read from the snapshot
             missed : SUBSET Key]   \* keys a scan passed over as absent

NothingObserved == [clean |-> FALSE, reads |-> NoBatch, missed |-> {}]

TypeOK ==
    /\ ts \in Ts
    /\ readers \in [Ts -> Nat]
    /\ committed \subseteq [ts : Ts, writeSet : SUBSET HashValue]
    /\ commitMu \in Client \cup {None}
    /\ store \subseteq [key : Key, ts : Ts, val : Stored]
    /\ log \subseteq [key : Key, ts : Ts, val : Stored]
    /\ txn \in [Txn -> Transaction]
    /\ call \in [Client -> Call]
    /\ gc \in [pc : {"idle", "merge"}, upTo : Ts, wm : Ts]
    /\ hist \in [Txn -> Observed]

\* newMvcc(0) on an empty directory: nobody is reading, nothing is stored.
Init ==
    /\ ts = 0
    /\ readers = [t \in Ts |-> 0]
    /\ committed = {}
    /\ commitMu = None
    /\ store = {}
    /\ txn = [t \in Txn |-> NewTxn]
    /\ call = [c \in Client |-> Idle]
    /\ gc = [pc |-> "idle", upTo |-> 0, wm |-> 0]
    /\ log = {}
    /\ hist = [t \in Txn |-> NothingObserved]

-----------------------------------------------------------------------------
(* The controller's methods. *)

OpenTs == {t \in Ts : readers[t] > 0}

\* Faulty: the least of no timestamps is the largest value of the type.
WatermarkOfNobody ==
    IF OpenTs = {} THEN MaxTs + 1
    ELSE CHOOSE t \in OpenTs : \A u \in OpenTs : t <= u

Watermark ==
    IF OpenTs = {} THEN ts
    ELSE CHOOSE t \in OpenTs : \A u \in OpenTs : t <= u

AddReader(t) == readers' = [readers EXCEPT ![t] = @ + 1]

RemoveReader(t) ==
    readers' = [readers EXCEPT ![t] = IF @ <= 1 THEN 0 ELSE @ - 1]

HasConflict(readTs, accessSet) ==
    \E c \in committed : c.ts > readTs /\ c.writeSet \cap accessSet # {}

RetainedAbove(wm) == {c \in committed : c.ts > wm}

-----------------------------------------------------------------------------
(* How a client moves through a call. *)

At(c, pc)    == call[c].pc = pc
Goto(c, pc)  == call' = [call EXCEPT ![c].pc = pc]
Return(c)    == call' = [call EXCEPT ![c] = Idle]
Enter(c, r)  == At(c, "idle") /\ call' = [call EXCEPT ![c] = r]

\* Once its reader is released, nothing looks at a transaction again but the
\* done flag: the model forgets the rest.
Forget(t) ==
    /\ txn' = [txn EXCEPT ![t] = [NewTxn EXCEPT !.status = "done"]]
    /\ hist' = [hist EXCEPT ![t] = NothingObserved]

\* Timestamps that calls under way may still take.
Pending == Cardinality({c \in Client : call[c].pc \in {"lock", "validate", "stamp"}})

-----------------------------------------------------------------------------
(* Begin: latestTs and addReader are two critical sections of mvcc.mu. *)

BeginLatest(c, t) ==
    /\ txn[t].status = "new"
    /\ \A d \in Client : call[d].txn # t
    /\ Enter(c, [Idle EXCEPT !.pc = "begin", !.txn = t, !.seen = ts])
    /\ UNCHANGED <<controller, store, txn, gc, log, hist>>

\* A commit is between taking its timestamp and applying its batch.
InFlight == \E c \in Client : At(c, "apply")

BeginRegister(c) ==
    LET t == call[c].txn  readTs == call[c].seen IN
    /\ At(c, "begin")
    /\ AddReader(readTs)
    /\ txn' = [txn EXCEPT ![t] = [@ EXCEPT !.status = "open", !.readTs = readTs]]
    /\ hist' = [hist EXCEPT ![t].clean = (readTs = ts /\ ~ InFlight)]
    /\ Return(c)
    /\ UNCHANGED <<ts, committed, commitMu, store, gc, log>>

-----------------------------------------------------------------------------
(* Calls on an open transaction that stay inside one critical section.     *)
(* Staging an empty value is a delete, whether by Put or by Delete.        *)

Put(c, t, k, v) ==
    /\ At(c, "idle")
    /\ txn[t].status = "open"
    /\ txn' = [txn EXCEPT ![t] = 
                   [@ EXCEPT !.local[k] = v, !.access = txn[t].access \cup {Hash[k]}]]
    /\ UNCHANGED <<controller, store, call, gc, log, hist>>

\* What transaction t sees of k in the snapshot.
Snapshot(t, k) == ReadAt(store, k, txn[t].readTs)

\* The first answer a transaction got for a key from the snapshot.
NoteRead(t, K) ==
    [k \in Key |-> IF k \in K /\ hist[t].reads[k] = Unset
                   THEN Snapshot(t, k) ELSE hist[t].reads[k]]

\* Faulty: a read is not recorded as an access.
GetUnrecorded(c, t, k) ==
    /\ At(c, "idle")
    /\ txn[t].status = "open"
    /\ hist' = [hist EXCEPT ![t].reads =
                    NoteRead(t, {k} \ WrittenBy(txn[t].local))]
    /\ UNCHANGED <<controller, store, txn, call, gc, log>>

\* Get records the key, then answers from the staged writes if it is there and
\* from the snapshot if not.
Get(c, t, k) ==
    /\ At(c, "idle")
    /\ txn[t].status = "open"
    /\ txn' = [txn EXCEPT ![t].access = @ \cup {Hash[k]}]
    /\ hist' = [hist EXCEPT ![t].reads =
                    NoteRead(t, {k} \ WrittenBy(txn[t].local))]
    /\ UNCHANGED <<controller, store, call, gc, log>>

\* A scan of the keys in K records the keys it yields: those whose staged value,
\* or else snapshot value, is not empty.
Yielded(t, K) ==
    {k \in K : IF txn[t].local[k] # Unset THEN txn[t].local[k] # Tombstone
               ELSE Snapshot(t, k) # Tombstone}

Scan(c, t, K) ==
    LET fromSnapshot == K \ WrittenBy(txn[t].local) IN
    /\ At(c, "idle")
    /\ txn[t].status = "open"
    /\ txn' = [txn EXCEPT ![t].access = @ \cup HashesOf(Yielded(t, K))]
    /\ hist' = [hist EXCEPT ![t] =
                    [@ EXCEPT !.reads = NoteRead(t, fromSnapshot \cap Yielded(t, K)),
                              !.missed = hist[t].missed \cup (fromSnapshot \ Yielded(t, K))]]
    /\ UNCHANGED <<controller, store, call, gc, log>>

\* Rollback marks the transaction done under its own mutex and unregisters it
\* afterwards.  Of a finished transaction it changes nothing.
Rollback(c, t) ==
    /\ txn[t].status = "open"
    /\ Enter(c, [Idle EXCEPT !.pc = "rollback", !.txn = t])
    /\ txn' = [txn EXCEPT ![t].status = "done"]
    /\ UNCHANGED <<controller, store, gc, log, hist>>

RollbackRelease(c) ==
    /\ At(c, "rollback")
    /\ RemoveReader(txn[call[c].txn].readTs)
    /\ Forget(call[c].txn)
    /\ Return(c)
    /\ UNCHANGED <<ts, committed, commitMu, store, gc, log>>

-----------------------------------------------------------------------------
(* Commit and Storage.Write share commitMu and everything after nextTs.    *)

WriteCall(c, b) ==
    /\ ts + Pending < MaxTs
    /\ Enter(c, [Idle EXCEPT !.pc = "lock", !.batch = b])
    /\ UNCHANGED <<controller, store, txn, gc, log, hist>>

CommitCall(c, t) ==
    /\ txn[t].status # "new"
    /\ ts + Pending < MaxTs
    /\ Enter(c, [Idle EXCEPT !.pc = "lock", !.txn = t])
    /\ UNCHANGED <<controller, store, txn, gc, log, hist>>

\* Faulty: autocommit writes do not serialize with commits.
LockForWriteUnserialized(c) ==
    /\ At(c, "lock") /\ call[c].txn = None
    /\ Goto(c, "stamp")
    /\ UNCHANGED <<controller, store, txn, gc, log, hist>>

LockForWrite(c) ==
    /\ At(c, "lock") /\ call[c].txn = None
    /\ commitMu = None
    /\ commitMu' = c
    /\ Goto(c, "stamp")
    /\ UNCHANGED <<ts, readers, committed, store, txn, gc, log, hist>>

\* Faulty: commits validate without waiting for each other.
LockForCommitUnserialized(c) ==
    LET t == call[c].txn IN
    /\ At(c, "lock") /\ t # None
    /\ txn[t].status = "open"
    /\ commitMu' = c
    /\ txn' = [txn EXCEPT ![t].status = "done"]
    /\ call' = [call EXCEPT ![c] = [@ EXCEPT !.pc = "validate", !.batch = txn[t].local]]
    /\ UNCHANGED <<ts, readers, committed, store, gc, log, hist>>

\* Under commitMu, Commit takes the staged writes and marks the transaction done.
LockForCommit(c) ==
    LET t == call[c].txn IN
    /\ At(c, "lock") /\ t # None
    /\ commitMu = None
    /\ txn[t].status = "open"
    /\ commitMu' = c
    /\ txn' = [txn EXCEPT ![t].status = "done"]
    /\ call' = [call EXCEPT ![c] = [@ EXCEPT !.pc = "validate", !.batch = txn[t].local]]
    /\ UNCHANGED <<ts, readers, committed, store, gc, log, hist>>

\* Faulty: the early return forgets the lock.
CommitFinishedLocked(c) ==
    /\ At(c, "lock") /\ call[c].txn # None
    /\ commitMu = None
    /\ txn[call[c].txn].status = "done"
    /\ commitMu' = c
    /\ Return(c)
    /\ UNCHANGED <<ts, readers, committed, store, txn, gc, log, hist>>

\* "transaction already finished": the lock is taken and given back.
CommitFinished(c) ==
    /\ At(c, "lock") /\ call[c].txn # None
    /\ commitMu = None
    /\ txn[call[c].txn].status = "done"
    /\ Return(c)
    /\ UNCHANGED <<controller, store, txn, gc, log, hist>>

Conflicting(c) ==
    HasConflict(txn[call[c].txn].readTs, txn[call[c].txn].access)

\* Faulty: the abort path does not unregister the reader.
AbortUnreleased(c) ==
    /\ At(c, "validate") /\ Conflicting(c)
    /\ call' = [call EXCEPT ![c] = [@ EXCEPT !.pc = "prune", !.txn = None]]
    /\ UNCHANGED <<controller, store, txn, gc, log, hist>>

AbortOnConflict(c) ==
    /\ At(c, "validate") /\ Conflicting(c)
    /\ Goto(c, "release")
    /\ UNCHANGED <<controller, store, txn, gc, log, hist>>

CommitReadOnly(c) ==
    /\ At(c, "validate") /\ ~ Conflicting(c)
    /\ WrittenBy(call[c].batch) = {}
    /\ Goto(c, "release")
    /\ UNCHANGED <<controller, store, txn, gc, log, hist>>

PassValidation(c) ==
    /\ At(c, "validate") /\ ~ Conflicting(c)
    /\ WrittenBy(call[c].batch) # {}
    /\ Goto(c, "stamp")
    /\ UNCHANGED <<controller, store, txn, gc, log, hist>>

\* Faulty: a batch is stamped with the timestamp readers already use.
StampLatest(c) ==
    /\ At(c, "stamp")
    /\ call' = [call EXCEPT ![c] = [@ EXCEPT !.pc = "apply", !.ts = ts]]
    /\ UNCHANGED <<controller, store, txn, gc, log, hist>>

\* nextTs: from here on latestTs returns a timestamp whose batch is not applied.
Stamp(c) ==
    /\ At(c, "stamp")
    /\ ts < MaxTs
    /\ ts' = ts + 1
    /\ call' = [call EXCEPT ![c] = [@ EXCEPT !.pc = "apply", !.ts = ts + 1]]
    /\ UNCHANGED <<readers, committed, commitMu, store, txn, gc, log, hist>>

Install(c) ==
    /\ store' = store \cup Versioned(call[c].batch, call[c].ts)
    /\ log' = log \cup Versioned(call[c].batch, call[c].ts)

\* writeEncodedBatch: one memtable takes the whole batch under its mutex.
Apply(c) ==
    /\ At(c, "apply")
    /\ Install(c)
    /\ Goto(c, "record")
    /\ UNCHANGED <<controller, txn, gc, hist>>

\* Faulty: the write set is recorded although the write failed.
FailCallRecorded(c) ==
    /\ IF call[c].txn = None
       THEN Return(c) /\ commitMu' = None
       ELSE Goto(c, "release") /\ UNCHANGED commitMu
    /\ committed' = committed \cup
         {[ts |-> call[c].ts, writeSet |-> HashesOf(WrittenBy(call[c].batch))]}
    /\ UNCHANGED <<ts, readers, txn, gc, hist>>

\* A failed call: Commit still unregisters its reader and prunes, Write returns.
FailCall(c) ==
    /\ IF call[c].txn = None
       THEN Return(c) /\ commitMu' = None
       ELSE Goto(c, "release") /\ UNCHANGED commitMu
    /\ UNCHANGED <<ts, readers, committed, txn, gc, hist>>

\* The append to the write-ahead log fails: the memtable is unchanged.
ApplyFails(c) ==
    /\ At(c, "apply") /\ "wal" \in Faults
    /\ FailCall(c)
    /\ UNCHANGED <<store, log>>

\* The batch fills the memtable and freezing it fails: the batch is applied all
\* the same.
FreezeFails(c) ==
    /\ At(c, "apply") /\ "freeze" \in Faults
    /\ Install(c)
    /\ FailCall(c)

Record(c) ==
    /\ At(c, "record")
    /\ committed' = committed \cup
         {[ts |-> call[c].ts, writeSet |-> HashesOf(WrittenBy(call[c].batch))]}
    /\ Goto(c, IF call[c].txn = None THEN "prune" ELSE "release")
    /\ UNCHANGED <<ts, readers, commitMu, store, txn, gc, log, hist>>

Release(c) ==
    /\ At(c, "release")
    /\ RemoveReader(txn[call[c].txn].readTs)
    /\ Forget(call[c].txn)
    /\ call' = [call EXCEPT ![c] = [@ EXCEPT !.pc = "prune", !.txn = None, !.batch = NoBatch]]
    /\ UNCHANGED <<ts, committed, commitMu, store, gc, log>>

\* Faulty: pruning looks at the latest timestamp instead of the watermark.
PruneAtLatest(c) ==
    /\ At(c, "prune")
    /\ call' = [call EXCEPT ![c] = [@ EXCEPT !.pc = "filter", !.seen = ts]]
    /\ UNCHANGED <<controller, store, txn, gc, log, hist>>

\* pruneCommitted computes the watermark and filters in two critical sections.
PruneWatermark(c) ==
    /\ At(c, "prune")
    /\ call' = [call EXCEPT ![c] = [@ EXCEPT !.pc = "filter", !.seen = Watermark]]
    /\ UNCHANGED <<controller, store, txn, gc, log, hist>>

\* The deferred unlock of commitMu follows the filter immediately.
PruneFilter(c) ==
    /\ At(c, "filter")
    /\ committed' = RetainedAbove(call[c].seen)
    /\ commitMu' = None
    /\ Return(c)
    /\ UNCHANGED <<ts, readers, store, txn, gc, log, hist>>

-----------------------------------------------------------------------------
(* Storage.Get outside any transaction: latestTs, then a read at it.       *)

OneShotLatest(c, k) ==
    /\ Enter(c, [Idle EXCEPT !.pc = "get", !.key = k, !.seen = ts])
    /\ UNCHANGED <<controller, store, txn, gc, log, hist>>

OneShotRead(c) ==
    /\ At(c, "get")
    /\ Return(c)
    /\ UNCHANGED <<controller, store, txn, gc, log, hist>>

-----------------------------------------------------------------------------
(* The compaction goroutine.  A task that reaches the bottom level takes   *)
(* the oldest tiers, and tiers are filled in commit order: its inputs are  *)
(* the versions up to some applied timestamp.  The watermark is read once, *)
(* before the merge; the result is swapped in under the engine's lock.     *)
(* A task above the bottom level keeps every version and changes nothing   *)
(* here.                                                                   *)

\* Faulty: collection down to the latest timestamp, ignoring open snapshots.
CompactStartAtLatest(u) ==
    /\ gc.pc = "idle"
    /\ gc' = [pc |-> "merge", upTo |-> u, wm |-> ts]
    /\ UNCHANGED <<controller, store, txn, call, log, hist>>

CompactStart(u) ==
    /\ gc.pc = "idle"
    /\ gc' = [pc |-> "merge", upTo |-> u, wm |-> Watermark]
    /\ UNCHANGED <<controller, store, txn, call, log, hist>>

CompactSwap ==
    LET inputs == {v \in store : v.ts <= gc.upTo} IN
    /\ gc.pc = "merge"
    /\ store' = (store \ inputs) \cup Compacted(inputs, TRUE, gc.wm)
    /\ gc' = [pc |-> "idle", upTo |-> 0, wm |-> 0]
    /\ UNCHANGED <<controller, txn, call, log, hist>>

-----------------------------------------------------------------------------
\* A goroutine waiting for commitMu gets it, or finds its transaction finished.
Acquire(c) == LockForWrite(c) \/ LockForCommit(c) \/ CommitFinished(c)

\* The rest of a call that has begun.
Proceed(c) ==
    \/ BeginRegister(c) \/ OneShotRead(c) \/ RollbackRelease(c)
    \/ AbortOnConflict(c) \/ CommitReadOnly(c) \/ PassValidation(c)
    \/ Stamp(c) \/ Apply(c) \/ ApplyFails(c) \/ FreezeFails(c)
    \/ Record(c) \/ Release(c) \/ PruneWatermark(c) \/ PruneFilter(c)

\* A client calls the engine.
Invoke(c) ==
    \/ \E t \in Txn : BeginLatest(c, t) \/ CommitCall(c, t) \/ Rollback(c, t)
    \/ \E t \in Txn, k \in Key : Get(c, t, k)
    \/ \E t \in Txn, k \in Key, v \in Stored : Put(c, t, k, v)
    \/ \E t \in Txn, K \in Ranges : Scan(c, t, K)
    \/ \E b \in Batches : WriteCall(c, b)
    \/ \E k \in Lookups : OneShotLatest(c, k)

Compaction == CompactSwap \/ \E v \in store : CompactStart(v.ts)

Next == Compaction \/ \E c \in Client : Invoke(c) \/ Acquire(c) \/ Proceed(c)

Spec == Init /\ [][Next]_vars

(***************************************************************************)
(* A goroutine inside a call keeps running.  sync.Mutex hands the lock to  *)
(* a starving waiter, so one that can take commitMu again and again gets   *)
(* it in the end.  Nothing obliges a client to make another call.          *)
(***************************************************************************)
Fairness == \A c \in Client : WF_vars(Proceed(c)) /\ SF_vars(Acquire(c))

FairSpec == Spec /\ Fairness
=============================================================================
