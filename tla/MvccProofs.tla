----------------------------- MODULE MvccProofs -----------------------------
(***************************************************************************)
(* Proofs about Mvcc: its types, commits that exclude one another, batches *)
(* that reach the tree in the order of their timestamps, readers that      *)
(* count the registered transactions; then that a clean transaction keeps  *)
(* its snapshot, which commits and garbage collection leave alone, and     *)
(* that the conflict history holds what the validation of its commit       *)
(* needs.                                                                  *)
(***************************************************************************)
EXTENDS MvccProps, OperatorProofs

(***************************************************************************)
(* A non-empty set of timestamps has a least element.                      *)
(***************************************************************************)
LEMMA LeastTs ==
    ASSUME NEW S \in SUBSET Ts, S # {}
    PROVE  \E m \in S : \A n \in S : m <= n
<1>1. S \in SUBSET Nat
  BY BoundAssumption DEF Ts
<1> QED
  BY <1>1, LeastNat

(***************************************************************************)
(* The watermark is a timestamp, and no open reader is below it.           *)
(***************************************************************************)
LEMMA WatermarkBound ==
    ASSUME TypeOK
    PROVE  Watermark \in Ts /\ \A t \in OpenTs : Watermark <= t
<1>1. CASE OpenTs = {}
  BY <1>1 DEF Watermark, TypeOK
<1>2. CASE OpenTs # {}
  <2>1. \E m \in OpenTs : \A n \in OpenTs : m <= n
    BY <1>2, LeastTs DEF OpenTs
  <2> QED
    BY <1>2, <2>1 DEF Watermark, OpenTs
<1> QED
  BY <1>1, <1>2

(***************************************************************************)
(* The helpers stay within their types.                                    *)
(***************************************************************************)
LEMMA HelperTypes ==
    ASSUME TypeOK
    PROVE  /\ Idle \in Call
           /\ NewTxn \in Transaction
           /\ NothingObserved \in Observed
           /\ \A vs \in SUBSET [key : Key, ts : Ts, val : Stored], k \in Key, t \in Ts :
                ReadAt(vs, k, t) \in Stored
           /\ \A t \in Txn, K \in SUBSET Key : NoteRead(t, K) \in Batch
           /\ \A b \in Batch, t \in Ts :
                Versioned(b, t) \subseteq [key : Key, ts : Ts, val : Stored]
           /\ \A K \in SUBSET Key : HashesOf(K) \subseteq HashValue
           /\ \A b \in Batch : WrittenBy(b) \subseteq Key
           /\ \A t \in Txn, K \in SUBSET Key : Yielded(t, K) \subseteq Key
<1>1. NoBatch \in Batch
  BY DEF NoBatch, Batch
<1>2. 0 \in Ts
  BY BoundAssumption DEF Ts
<1>3. Idle \in Call /\ NewTxn \in Transaction /\ NothingObserved \in Observed
  BY <1>1, <1>2 DEF Idle, Call, PC, NewTxn, Transaction, NothingObserved, Observed
<1>4. ASSUME NEW vs \in SUBSET [key : Key, ts : Ts, val : Stored],
             NEW k \in Key, NEW t \in Ts
      PROVE  ReadAt(vs, k, t) \in Stored
  BY DEF ReadAt, IsNewest, Stored
<1>5. ASSUME NEW t \in Txn, NEW K \in SUBSET Key
      PROVE  NoteRead(t, K) \in Batch
  <2>1. txn[t].readTs \in Ts /\ hist[t].reads \in Batch
    BY DEF TypeOK, Transaction, Observed
  <2>2. \A k \in Key : Snapshot(t, k) \in Stored
    BY <1>4, <2>1 DEF Snapshot, TypeOK
  <2> QED
    BY <2>1, <2>2 DEF NoteRead, Batch
<1>6. \A b \in Batch, t \in Ts :
        Versioned(b, t) \subseteq [key : Key, ts : Ts, val : Stored]
  BY DEF Versioned, WrittenBy, Batch
<1>7. \A K \in SUBSET Key : HashesOf(K) \subseteq HashValue
  BY HashAssumption DEF HashesOf
<1> QED
  BY <1>3, <1>4, <1>5, <1>6, <1>7 DEF WrittenBy, Yielded
-----------------------------------------------------------------------------
(***************************************************************************)
(* Type correctness: one step per action, in the order of the module.      *)
(***************************************************************************)
LEMMA TypeInit == Init => TypeOK
<1>1. 0 \in Ts
  BY BoundAssumption DEF Ts
<1>2. NoBatch \in Batch
  BY DEF NoBatch, Batch
<1> QED
  BY <1>1, <1>2 DEF Init, TypeOK, Idle, Call, PC, NewTxn, Transaction,
                    NothingObserved, Observed

\* TypeOK is inductive.
LEMMA TypeStep == TypeOK /\ [Next]_vars => TypeOK'
<1> SUFFICES ASSUME TypeOK, [Next]_vars
             PROVE  TypeOK'
  OBVIOUS
<1> USE DEF TypeOK, controller, At, Goto, Return, Enter
<1>h. /\ Idle \in Call /\ NewTxn \in Transaction /\ NothingObserved \in Observed
      /\ \A t \in Txn, K \in SUBSET Key : NoteRead(t, K) \in Batch
      /\ \A t \in Txn, K \in SUBSET Key : Yielded(t, K) \subseteq Key
      /\ \A K \in SUBSET Key : HashesOf(K) \subseteq HashValue
      /\ \A b \in Batch : WrittenBy(b) \subseteq Key
  BY HelperTypes
<1>i. \A c \in Client : Versioned(call[c].batch, call[c].ts)
                          \subseteq [key : Key, ts : Ts, val : Stored]
  <2>1. \A c \in Client : call[c].batch \in Batch /\ call[c].ts \in Ts
    BY DEF Call
  <2> QED
    BY <2>1, HelperTypes
<1>w. Watermark \in Ts
  BY WatermarkBound
<1>r. ASSUME NEW r
      PROVE  [readers EXCEPT ![r] = IF @ <= 1 THEN 0 ELSE @ - 1] \in [Ts -> Nat]
  <2>1. \A n \in Nat : (IF n <= 1 THEN 0 ELSE n - 1) \in Nat
    OBVIOUS
  <2> QED
    BY <2>1
<1>1. ASSUME NEW c \in Client, NEW t \in Txn, BeginLatest(c, t)
      PROVE  TypeOK'
  BY <1>1, <1>h DEF BeginLatest, Call, PC
<1>2. ASSUME NEW c \in Client, BeginRegister(c)
      PROVE  TypeOK'
  <2>1. call[c].seen \in Ts
    BY DEF Call
  <2>2. readers' \in [Ts -> Nat]
    BY <1>2, <2>1 DEF BeginRegister, AddReader
  <2>3. \A t \in Txn : [txn[t] EXCEPT !.status = "open", !.readTs = call[c].seen]
                          \in Transaction
    BY <2>1 DEF Transaction
  <2>4. txn' \in [Txn -> Transaction]
    <3>1. txn' = [txn EXCEPT ![call[c].txn] =
                    [txn[call[c].txn] EXCEPT !.status = "open", !.readTs = call[c].seen]]
      BY <1>2 DEF BeginRegister
    <3> QED
      BY <2>3, <3>1
  <2>5. hist' \in [Txn -> Observed]
    <3>1. \A t \in Txn, b \in BOOLEAN : [hist[t] EXCEPT !.clean = b] \in Observed
      BY DEF Observed
    <3>2. (call[c].seen = ts /\ ~ InFlight) \in BOOLEAN
      OBVIOUS
    <3>3. PICK b \in BOOLEAN :
            hist' = [hist EXCEPT ![call[c].txn] = [hist[call[c].txn] EXCEPT !.clean = b]]
      BY <1>2, <3>2, Zenon DEF BeginRegister
    <3> QED
      BY <3>1, <3>3
  <2> QED
    BY <1>2, <1>h, <2>2, <2>4, <2>5 DEF BeginRegister
<1>3. ASSUME NEW c \in Client, NEW t \in Txn, NEW k \in Key, NEW v \in Stored,
             Put(c, t, k, v)
      PROVE  TypeOK'
  <2>1. Hash[k] \in HashValue
    BY HashAssumption
  <2>2. [txn[t].local EXCEPT ![k] = v] \in Batch
    BY DEF Transaction, Batch
  <2>3. [txn[t] EXCEPT !.local[k] = v, !.access = txn[t].access \cup {Hash[k]}] \in Transaction
    BY <2>1, <2>2 DEF Transaction
  <2>4. txn' = [txn EXCEPT ![t] =
                  [txn[t] EXCEPT !.local[k] = v, !.access = txn[t].access \cup {Hash[k]}]]
    BY <1>3 DEF Put
  <2>5. txn' \in [Txn -> Transaction]
    BY <2>3, <2>4
  <2> QED
    BY <1>3, <2>5 DEF Put
<1>4. ASSUME NEW c \in Client, NEW t \in Txn, NEW k \in Key, Get(c, t, k)
      PROVE  TypeOK'
  <2>1. Hash[k] \in HashValue
    BY HashAssumption
  <2>2. NoteRead(t, {k} \ WrittenBy(txn[t].local)) \in Batch
    BY <1>h
  <2>3. txn' \in [Txn -> Transaction]
    <3>1. [txn[t] EXCEPT !.access = txn[t].access \cup {Hash[k]}] \in Transaction
      BY <2>1 DEF Transaction
    <3> QED
      BY <1>4, <3>1 DEF Get
  <2>4. hist' \in [Txn -> Observed]
    <3>1. [hist[t] EXCEPT !.reads = NoteRead(t, {k} \ WrittenBy(txn[t].local))] \in Observed
      BY <2>2 DEF Observed
    <3> QED
      BY <1>4, <3>1 DEF Get
  <2> QED
    BY <1>4, <2>3, <2>4 DEF Get
<1>5. ASSUME NEW c \in Client, NEW t \in Txn, NEW K \in Ranges, Scan(c, t, K)
      PROVE  TypeOK'
  <2> DEFINE fromSnapshot == K \ WrittenBy(txn[t].local)
  <2>1. K \in SUBSET Key
    BY InputAssumption
  <2>2. Yielded(t, K) \subseteq Key /\ HashesOf(Yielded(t, K)) \subseteq HashValue
    BY <1>h, <2>1
  <2>3. NoteRead(t, fromSnapshot \cap Yielded(t, K)) \in Batch
    BY <1>h, <2>1
  <2>4. txn' \in [Txn -> Transaction]
    BY <1>5, <2>2 DEF Scan, Transaction
  <2>5. [hist[t] EXCEPT !.reads = NoteRead(t, fromSnapshot \cap Yielded(t, K)),
                        !.missed = hist[t].missed \cup (fromSnapshot \ Yielded(t, K))] \in Observed
    BY <2>1, <2>3 DEF Observed
  <2>6. hist' = [hist EXCEPT ![t] =
                   [hist[t] EXCEPT !.reads = NoteRead(t, fromSnapshot \cap Yielded(t, K)),
                                   !.missed = hist[t].missed \cup (fromSnapshot \ Yielded(t, K))]]
    BY <1>5 DEF Scan
  <2>7. hist' \in [Txn -> Observed]
    BY <2>5, <2>6
  <2> QED
    BY <1>5, <2>4, <2>7 DEF Scan
<1>6. ASSUME NEW c \in Client, NEW t \in Txn, Rollback(c, t)
      PROVE  TypeOK'
  BY <1>6, <1>h DEF Rollback, Call, PC, Transaction
<1>7. ASSUME NEW c \in Client, RollbackRelease(c)
      PROVE  TypeOK'
  <2>1. [NewTxn EXCEPT !.status = "done"] \in Transaction
    BY <1>h DEF Transaction
  <2>2. readers' \in [Ts -> Nat]
    BY <1>7, <1>r DEF RollbackRelease, RemoveReader
  <2> QED
    BY <1>7, <1>h, <2>1, <2>2 DEF RollbackRelease, Forget
<1>8. ASSUME NEW c \in Client, NEW b \in Batches, WriteCall(c, b)
      PROVE  TypeOK'
  BY <1>8, <1>h, InputAssumption DEF WriteCall, Call, PC, Batch
<1>9. ASSUME NEW c \in Client, NEW t \in Txn, CommitCall(c, t)
      PROVE  TypeOK'
  BY <1>9, <1>h DEF CommitCall, Call, PC
<1>10. ASSUME NEW c \in Client, LockForWrite(c)
       PROVE  TypeOK'
  BY <1>10 DEF LockForWrite, Call, PC
<1>11. ASSUME NEW c \in Client, LockForCommit(c)
       PROVE  TypeOK'
  <2>1. call[c].txn \in Txn /\ txn[call[c].txn].local \in Batch
    BY <1>11 DEF LockForCommit, Call, Transaction
  <2>2. [call[c] EXCEPT !.pc = "validate", !.batch = txn[call[c].txn].local] \in Call
    BY <2>1, ZenonT(30) DEF Call, PC
  <2>3. [txn[call[c].txn] EXCEPT !.status = "done"] \in Transaction
    BY <2>1 DEF Transaction
  <2>4. txn' = [txn EXCEPT ![call[c].txn] = [txn[call[c].txn] EXCEPT !.status = "done"]]
    BY <1>11 DEF LockForCommit
  <2>5. txn' \in [Txn -> Transaction]
    BY <2>1, <2>3, <2>4
  <2> QED
    BY <1>11, <2>2, <2>5 DEF LockForCommit
<1>12. ASSUME NEW c \in Client, CommitFinished(c)
       PROVE  TypeOK'
  BY <1>12, <1>h DEF CommitFinished
<1>13. ASSUME NEW c \in Client,
              AbortOnConflict(c) \/ CommitReadOnly(c) \/ PassValidation(c)
       PROVE  TypeOK'
  BY <1>13 DEF AbortOnConflict, CommitReadOnly, PassValidation, Call, PC
<1>14. ASSUME NEW c \in Client, Stamp(c)
       PROVE  TypeOK'
  <2>1. ts + 1 \in Ts
    BY <1>14, BoundAssumption DEF Stamp, Ts
  <2>2. [call[c] EXCEPT !.pc = "apply", !.ts = ts + 1] \in Call
    BY <2>1, ZenonT(30) DEF Call, PC
  <2> QED
    BY <1>14, <2>1, <2>2 DEF Stamp
<1>15. ASSUME NEW c \in Client, Apply(c)
       PROVE  TypeOK'
  BY <1>15, <1>i DEF Apply, Install, Call, PC
<1>16. ASSUME NEW c \in Client, ApplyFails(c) \/ FreezeFails(c)
       PROVE  TypeOK'
  <2>1. FailCall(c) /\ store' \subseteq store \cup Versioned(call[c].batch, call[c].ts)
                    /\ log' \subseteq log \cup Versioned(call[c].batch, call[c].ts)
    BY <1>16 DEF ApplyFails, FreezeFails, Install
  <2>2. call' \in [Client -> Call] /\ commitMu' \in Client \cup {None}
    BY <2>1, <1>h DEF FailCall, Call, PC
  <2> QED
    BY <1>i, <2>1, <2>2 DEF FailCall
<1>17. ASSUME NEW c \in Client, Record(c)
       PROVE  TypeOK'
  <2>1. call[c].ts \in Ts /\ HashesOf(WrittenBy(call[c].batch)) \subseteq HashValue
    BY <1>h DEF Call
  <2>2. call' \in [Client -> Call]
    BY <1>17 DEF Record, Call, PC
  <2> QED
    BY <1>17, <2>1, <2>2 DEF Record
<1>18. ASSUME NEW c \in Client, Release(c)
       PROVE  TypeOK'
  <2>1. NoBatch \in Batch
    BY DEF NoBatch, Batch
  <2>2. [call[c] EXCEPT !.pc = "prune", !.txn = None, !.batch = NoBatch] \in Call
    BY <2>1, ZenonT(30) DEF Call, PC
  <2>3. [NewTxn EXCEPT !.status = "done"] \in Transaction
    BY <1>h DEF Transaction
  <2>4. readers' \in [Ts -> Nat]
    BY <1>18, <1>r DEF Release, RemoveReader
  <2> QED
    BY <1>18, <1>h, <2>2, <2>3, <2>4 DEF Release, Forget
<1>19. ASSUME NEW c \in Client, PruneWatermark(c)
       PROVE  TypeOK'
  <2>1. [call[c] EXCEPT !.pc = "filter", !.seen = Watermark] \in Call
    BY <1>w, ZenonT(30) DEF Call, PC
  <2> QED
    BY <1>19, <2>1 DEF PruneWatermark
<1>20. ASSUME NEW c \in Client, PruneFilter(c)
       PROVE  TypeOK'
  BY <1>20, <1>h DEF PruneFilter, RetainedAbove
<1>21. ASSUME NEW c \in Client, NEW k \in Lookups, OneShotLatest(c, k)
       PROVE  TypeOK'
  <2>1. [Idle EXCEPT !.pc = "get", !.key = k, !.seen = ts] \in Call
    BY <1>h, InputAssumption DEF Call, PC
  <2> QED
    BY <1>21, <2>1 DEF OneShotLatest
<1>22. ASSUME NEW c \in Client, OneShotRead(c)
       PROVE  TypeOK'
  BY <1>22, <1>h DEF OneShotRead
<1>23. ASSUME NEW v \in store, CompactStart(v.ts)
       PROVE  TypeOK'
  BY <1>23, <1>w DEF CompactStart
<1>24. ASSUME CompactSwap
       PROVE  TypeOK'
  <2>1. 0 \in Ts
    BY BoundAssumption DEF Ts
  <2> QED
    BY <1>24, <2>1 DEF CompactSwap, Compacted, Kept
<1>25. CASE UNCHANGED vars
  BY <1>25 DEF vars
<1>26. ASSUME NEW c \in Client, Invoke(c)
       PROVE  TypeOK'
  BY <1>26, <1>1, <1>3, <1>4, <1>5, <1>6, <1>8, <1>9, <1>21 DEF Invoke
<1>27. ASSUME NEW c \in Client, Acquire(c) \/ Proceed(c)
       PROVE  TypeOK'
  BY <1>27, <1>2, <1>7, <1>10, <1>11, <1>12, <1>13, <1>14, <1>15, <1>16, <1>17,
     <1>18, <1>19, <1>20, <1>22 DEF Acquire, Proceed
<1> HIDE DEF TypeOK
<1> QED
  BY <1>23, <1>24, <1>25, <1>26, <1>27 DEF Next, Compaction

(***************************************************************************)
(* Every reachable state is well typed, for any number of clients,         *)
(* transactions, keys and timestamps.                                      *)
(***************************************************************************)
THEOREM MvccTypeOK == Spec => []TypeOK
  BY TypeInit, TypeStep, PTL DEF Spec
-----------------------------------------------------------------------------
(***************************************************************************)
(* The order of commits.                                                   *)
(***************************************************************************)
LEMMA OrderInit == Init => CommitOrder
  BY DEF Init, CommitOrder, OneVersionPerTs, At, Idle, Committing

\* Two calls are never inside the critical section together.
LEMMA Exclusive ==
    ASSUME CommitOrder, NEW c \in Client, NEW d \in Client,
           call[c].pc \in Committing, call[d].pc \in Committing
    PROVE  c = d
  BY DEF CommitOrder

(***************************************************************************)
(* A call that applies its batch adds versions with one timestamp, above   *)
(* those of all versions there are.                                        *)
(***************************************************************************)
LEMMA InstallOrder ==
    ASSUME TypeOK, CommitOrder, NEW c \in Client, At(c, "apply"), Install(c)
    PROVE  /\ \A v \in log' \ log : v.ts = ts /\ \A w \in log : w.ts < ts
           /\ \A v \in log' : v.ts <= ts
           /\ OneVersionPerTs(log')
           /\ store' \subseteq log'
<1> DEFINE new == Versioned(call[c].batch, call[c].ts)
<1>1. log' = log \cup new /\ store' = store \cup new
  BY DEF Install
<1>2. \A v \in new : v.ts = ts
  BY DEF CommitOrder, Versioned
<1>3. \A w \in log : w.ts < ts /\ w.ts <= ts
  BY DEF CommitOrder
<1>4. ts \in Int /\ \A w \in log : w.ts \in Int
  BY BoundAssumption DEF TypeOK, Ts
<1>5. OneVersionPerTs(new)
  BY DEF OneVersionPerTs, Versioned
<1>6. OneVersionPerTs(log) /\ store \subseteq log
  BY DEF CommitOrder
<1>7. OneVersionPerTs(log')
  BY <1>1, <1>2, <1>3, <1>4, <1>5, <1>6 DEF OneVersionPerTs
<1> QED
  BY <1>1, <1>2, <1>3, <1>4, <1>6, <1>7

(***************************************************************************)
(* A step that leaves mvcc.ts and the versions alone preserves the order   *)
(* if it takes nobody into the critical section without commitMu.          *)
(***************************************************************************)
LEMMA OrderFrame ==
    ASSUME CommitOrder, UNCHANGED <<ts, log>>, store' \subseteq log,
           \A c \in Client : call'[c].pc \in Committing => commitMu' = c,
           \A c \in Client : call'[c].pc = "apply" =>
                               call[c].pc = "apply" /\ call'[c].ts = call[c].ts
    PROVE  CommitOrder'
  BY DEF CommitOrder, At, OneVersionPerTs

\* CommitOrder is inductive, given TypeOK.
LEMMA OrderStep == TypeOK /\ CommitOrder /\ [Next]_vars => CommitOrder'
<1> SUFFICES ASSUME TypeOK, CommitOrder, [Next]_vars
             PROVE  CommitOrder'
  OBVIOUS
<1> USE DEF controller, At, Goto, Return, Enter
<1>t. call \in [Client -> Call] /\ None \notin Client
  BY NoneAssumption DEF TypeOK
<1>o. /\ \A c \in Client : call[c].pc \in Committing => commitMu = c
      /\ store \subseteq log
  BY DEF CommitOrder
\* Calls that begin, and calls outside commitMu that end.
<1>1. ASSUME NEW c \in Client,
             \/ \E t \in Txn : BeginLatest(c, t) \/ CommitCall(c, t) \/ Rollback(c, t)
             \/ \E b \in Batches : WriteCall(c, b)
             \/ \E k \in Lookups : OneShotLatest(c, k)
             \/ BeginRegister(c) \/ RollbackRelease(c) \/ OneShotRead(c)
             \/ CommitFinished(c)
      PROVE  CommitOrder'
  <2>1. UNCHANGED <<ts, log, store, commitMu>>
    BY <1>1 DEF BeginLatest, CommitCall, Rollback, WriteCall, OneShotLatest,
                BeginRegister, RollbackRelease, OneShotRead, CommitFinished
  <2>2. CASE \/ \E t \in Txn : BeginLatest(c, t) \/ CommitCall(c, t) \/ Rollback(c, t)
             \/ \E b \in Batches : WriteCall(c, b)
             \/ \E k \in Lookups : OneShotLatest(c, k)
    <3>1. /\ \A d \in Client : d # c => call'[d] = call[d]
          /\ call'[c].pc \in {"begin", "lock", "rollback", "get"}
      <4> DEFINE Begun == /\ \A d \in Client : d # c => call'[d] = call[d]
                          /\ call'[c].pc \in {"begin", "lock", "rollback", "get"}
      <4>1. ASSUME NEW t \in Txn, BeginLatest(c, t)
            PROVE  Begun
        BY <1>t, <4>1 DEF BeginLatest, Idle
      <4>2. ASSUME NEW t \in Txn, CommitCall(c, t)
            PROVE  Begun
        BY <1>t, <4>2 DEF CommitCall, Idle
      <4>3. ASSUME NEW t \in Txn, Rollback(c, t)
            PROVE  Begun
        BY <1>t, <4>3 DEF Rollback, Idle
      <4>4. ASSUME NEW b \in Batches, WriteCall(c, b)
            PROVE  Begun
        BY <1>t, <4>4 DEF WriteCall, Idle
      <4>5. ASSUME NEW k \in Lookups, OneShotLatest(c, k)
            PROVE  Begun
        BY <1>t, <4>5 DEF OneShotLatest, Idle
      <4> HIDE DEF Begun
      <4>6. Begun
        BY <2>2, <4>1, <4>2, <4>3, <4>4, <4>5
      <4> QED
        BY <4>6 DEF Begun
    <3> QED
      BY <1>o, <2>1, <3>1, OrderFrame DEF Committing
  <2>3. CASE BeginRegister(c) \/ RollbackRelease(c) \/ OneShotRead(c) \/ CommitFinished(c)
    <3>1. call' = [call EXCEPT ![c] = Idle]
      BY <2>3 DEF BeginRegister, RollbackRelease, OneShotRead, CommitFinished
    <3>2. /\ \A d \in Client : d # c => call'[d] = call[d]
          /\ call'[c].pc = "idle"
      BY <3>1, <1>t DEF Idle
    <3> QED
      BY <1>o, <2>1, <3>2, OrderFrame DEF Committing
  <2> QED
    BY <1>1, <2>2, <2>3
\* Calls on an open transaction.
<1>2. ASSUME NEW c \in Client,
             \/ \E t \in Txn, k \in Key : Get(c, t, k)
             \/ \E t \in Txn, k \in Key, v \in Stored : Put(c, t, k, v)
             \/ \E t \in Txn, K \in Ranges : Scan(c, t, K)
      PROVE  CommitOrder'
  <2>1. UNCHANGED <<ts, log, store, commitMu, call>>
    BY <1>2 DEF Get, Put, Scan
  <2> QED
    BY <1>o, <2>1, OrderFrame
\* The mutex is free, so nobody else is inside.
<1>3. ASSUME NEW c \in Client, LockForWrite(c) \/ LockForCommit(c)
      PROVE  CommitOrder'
  <2>1. commitMu = None /\ commitMu' = c /\ UNCHANGED <<ts, log, store>>
    BY <1>3 DEF LockForWrite, LockForCommit
  <2>2. \A d \in Client : call[d].pc \notin Committing
    BY <1>t, <1>o, <2>1
  <2>3. \A d \in Client : d # c => call'[d] = call[d]
    BY <1>3, <1>t DEF LockForWrite, LockForCommit
  <2>4. call'[c].pc # "apply"
    BY <1>3, <1>t DEF LockForWrite, LockForCommit, Call
  <2> QED
    BY <1>o, <2>1, <2>2, <2>3, <2>4, OrderFrame DEF Committing
\* Steps of the holder that stay inside.
<1>4. ASSUME NEW c \in Client,
             \/ AbortOnConflict(c) \/ CommitReadOnly(c) \/ PassValidation(c)
             \/ Record(c) \/ Release(c) \/ PruneWatermark(c)
      PROVE  CommitOrder'
  <2>1. UNCHANGED <<ts, log, store, commitMu>> /\ call[c].pc \in Committing
    BY <1>4 DEF AbortOnConflict, CommitReadOnly, PassValidation, Record, Release,
                PruneWatermark, Committing
  <2>2. /\ \A d \in Client : d # c => call'[d] = call[d]
        /\ call'[c].pc # "apply"
    BY <1>4, <1>t DEF AbortOnConflict, CommitReadOnly, PassValidation, Record, Release,
                PruneWatermark, Call
  <2> QED
    BY <1>o, <2>1, <2>2, OrderFrame
\* The holder leaves.
<1>5. ASSUME NEW c \in Client, PruneFilter(c)
      PROVE  CommitOrder'
  <2>1. UNCHANGED <<ts, log, store>> /\ call[c].pc \in Committing
    BY <1>5 DEF PruneFilter, Committing
  <2>2. /\ \A d \in Client : d # c => call'[d] = call[d]
        /\ call'[c].pc = "idle"
    BY <1>5, <1>t DEF PruneFilter, Idle
  <2>3. \A d \in Client : d # c => call[d].pc \notin Committing
    BY <2>1, Exclusive
  <2> QED
    BY <1>o, <2>1, <2>2, <2>3, OrderFrame DEF Committing
\* The holder takes a timestamp above everything applied.
<1>6. ASSUME NEW c \in Client, Stamp(c)
      PROVE  CommitOrder'
  <2>1. /\ ts' = ts + 1 /\ UNCHANGED <<log, store, commitMu>>
        /\ call[c].pc = "stamp"
    BY <1>6 DEF Stamp
  <2>2. /\ \A d \in Client : d # c => call'[d] = call[d]
        /\ call'[c].pc = "apply" /\ call'[c].ts = ts + 1
    BY <1>6, <1>t DEF Stamp, Call
  <2>3. \A d \in Client : d # c => call[d].pc \notin Committing
    BY <2>1, Exclusive DEF Committing
  <2>4. ts \in Int /\ \A v \in log : v.ts \in Int
    BY BoundAssumption DEF TypeOK, Ts
  <2>5. \A v \in log : v.ts <= ts' /\ v.ts < ts'
    BY <2>1, <2>4 DEF CommitOrder
  <2>6. \A d \in Client : call'[d].pc \in Committing => commitMu' = d
    BY <1>o, <2>1, <2>2, <2>3 DEF Committing
  <2>7. \A d \in Client : call'[d].pc = "apply" => call'[d].ts = ts'
    BY <2>1, <2>2, <2>3 DEF Committing
  <2>8. OneVersionPerTs(log') /\ store' \subseteq log'
    BY <1>o, <2>1 DEF CommitOrder
  <2> QED
    BY <2>1, <2>5, <2>6, <2>7, <2>8 DEF CommitOrder
\* The holder applies its batch, and stays inside or leaves.
<1>7. ASSUME NEW c \in Client, Apply(c) \/ FreezeFails(c)
      PROVE  CommitOrder'
  <2>1. Install(c) /\ call[c].pc = "apply" /\ ts' = ts
    BY <1>7 DEF Apply, FreezeFails, FailCall
  <2>2. /\ \A d \in Client : d # c => call'[d] = call[d]
        /\ call'[c].pc # "apply"
        /\ call'[c].pc \in Committing => commitMu' = commitMu
    BY <1>7, <1>t DEF Apply, FreezeFails, FailCall, Call, Idle, Committing
  <2>3. \A d \in Client : d # c => call[d].pc \notin Committing
    BY <2>1, Exclusive DEF Committing
  <2>4. \A d \in Client : call'[d].pc \in Committing => commitMu' = d
    BY <1>o, <2>1, <2>2, <2>3 DEF Committing
  <2>5. \A d \in Client : call'[d].pc # "apply"
    BY <2>2, <2>3 DEF Committing
  <2>6. /\ \A v \in log' : v.ts <= ts
        /\ OneVersionPerTs(log') /\ store' \subseteq log'
    BY <2>1, InstallOrder
  <2> QED
    BY <2>1, <2>4, <2>5, <2>6 DEF CommitOrder
<1>8. ASSUME NEW c \in Client, ApplyFails(c)
      PROVE  CommitOrder'
  <2>1. UNCHANGED <<ts, log, store>> /\ call[c].pc = "apply"
    BY <1>8 DEF ApplyFails, FailCall
  <2>2. /\ \A d \in Client : d # c => call'[d] = call[d]
        /\ call'[c].pc # "apply"
        /\ call'[c].pc \in Committing => commitMu' = commitMu
    BY <1>8, <1>t DEF ApplyFails, FailCall, Call, Idle, Committing
  <2>3. \A d \in Client : d # c => call[d].pc \notin Committing
    BY <2>1, Exclusive DEF Committing
  <2> QED
    BY <1>o, <2>1, <2>2, <2>3, OrderFrame DEF Committing
\* Compaction only drops versions.
<1>9. ASSUME Compaction
      PROVE  CommitOrder'
  <2>1. UNCHANGED <<ts, log, commitMu, call>> /\ store' \subseteq store
    BY <1>9 DEF Compaction, CompactStart, CompactSwap, Compacted, Kept
  <2> QED
    BY <1>o, <2>1, OrderFrame
<1>10. CASE UNCHANGED vars
  BY <1>10, <1>o, OrderFrame DEF vars
<1> QED
  BY <1>1, <1>2, <1>3, <1>4, <1>5, <1>6, <1>7, <1>8, <1>9, <1>10
     DEF Next, Invoke, Acquire, Proceed

(***************************************************************************)
(* Commits have commitMu to themselves and stamp above everything applied. *)
(***************************************************************************)
THEOREM MvccCommitOrder == Spec => []CommitOrder
  BY OrderInit, OrderStep, MvccTypeOK, PTL DEF Spec

(***************************************************************************)
(* Batches become visible in the order of their timestamps.                *)
(***************************************************************************)
LEMMA OrderedStep ==
    TypeOK /\ CommitOrder /\ [Next]_vars =>
      [\A v \in log' \ log : \A w \in log : w.ts < v.ts]_vars
<1> SUFFICES ASSUME TypeOK, CommitOrder, Next, NEW v \in log' \ log, NEW w \in log
             PROVE  w.ts < v.ts
  OBVIOUS
<1>1. PICK c \in Client : Apply(c) \/ FreezeFails(c)
  BY ZenonT(30) DEF Next, Compaction, CompactStart, CompactSwap, Invoke, Acquire, Proceed,
     BeginLatest, CommitCall, Rollback, Get, Put, Scan, WriteCall, OneShotLatest,
     LockForWrite, LockForCommit, CommitFinished, BeginRegister, OneShotRead,
     RollbackRelease, AbortOnConflict, CommitReadOnly, PassValidation, Stamp,
     ApplyFails, Record, Release, PruneWatermark, PruneFilter
<1>2. At(c, "apply") /\ Install(c)
  BY <1>1 DEF Apply, FreezeFails
<1> QED
  BY <1>2, InstallOrder

\* Batches reach the tree in the order of their timestamps: what a step adds
\* lies above everything applied before (storage.go:235-262, txn.go:133-158).
THEOREM MvccAppliedInTsOrder == Spec => AppliedInTsOrder
<1>1. TypeOK /\ CommitOrder /\ [Next]_vars =>
        [\A v \in log' \ log : \A w \in log : w.ts < v.ts]_vars
  BY OrderedStep
<1> QED
  BY <1>1, MvccTypeOK, MvccCommitOrder, PTL DEF Spec, AppliedInTsOrder

------------------------------------------------------------------------------
(***************************************************************************)
(* Transactions pass from new to open to done once, one call at most has a *)
(* transaction to release, and the readers map counts what is registered.  *)
(***************************************************************************)
(***************************************************************************)
(* A step of client c moves no other client.                               *)
(***************************************************************************)
LEMMA OthersStay ==
    ASSUME TypeOK, NEW c \in Client, Invoke(c) \/ Acquire(c) \/ Proceed(c)
    PROVE  \A d \in Client : d # c => call'[d] = call[d]
<1> USE DEF At, Goto, Return, Enter
<1>1. call \in [Client -> Call]
  BY DEF TypeOK
<1>2. CASE UNCHANGED call
  BY <1>2
<1>3. CASE \E r : call' = [call EXCEPT ![c] = r]
  BY <1>1, <1>3
<1>4. \/ UNCHANGED call
      \/ \E pc : call' = [call EXCEPT ![c].pc = pc]
      \/ \E r : call' = [call EXCEPT ![c] = r]
  <2>1. CASE Invoke(c)
    BY <2>1 DEF Invoke, BeginLatest, CommitCall, Rollback, Get, Put, Scan, WriteCall,
                OneShotLatest
  <2>2. CASE Acquire(c)
    BY <2>2 DEF Acquire, LockForWrite, LockForCommit, CommitFinished
  <2>3. CASE Proceed(c)
    BY <2>3 DEF Proceed, BeginRegister, OneShotRead, RollbackRelease, AbortOnConflict,
                CommitReadOnly, PassValidation, Stamp, Apply, ApplyFails, FreezeFails,
                FailCall, Record, Release, PruneWatermark, PruneFilter
  <2> QED
    BY <2>1, <2>2, <2>3
<1> QED
  BY <1>1, <1>2, <1>3, <1>4

(***************************************************************************)
(* What each step does to the call it is a step of.                        *)
(***************************************************************************)
Moves(c, from, to) == At(c, from) /\ call'[c].pc = to

Keeps(c) ==
    /\ call'[c].txn = call[c].txn /\ call'[c].batch = call[c].batch
    /\ call'[c].ts = call[c].ts /\ call'[c].seen = call[c].seen
    /\ call'[c].key = call[c].key

\* Where a call starts (Begin, Commit, Rollback, Write, Get).
LEMMA InvokeMoves ==
    ASSUME TypeOK, NEW c \in Client
    PROVE  /\ \A t \in Txn : BeginLatest(c, t) =>
                Moves(c, "idle", "begin") /\ call'[c].txn = t /\ call'[c].seen = ts
           /\ \A t \in Txn : CommitCall(c, t) =>
                Moves(c, "idle", "lock") /\ call'[c].txn = t /\ call'[c].seen = 0
           /\ \A b \in Batches : WriteCall(c, b) =>
                Moves(c, "idle", "lock") /\ call'[c].txn = None /\ call'[c].seen = 0
           /\ \A t \in Txn : Rollback(c, t) =>
                Moves(c, "idle", "rollback") /\ call'[c].txn = t /\ call'[c].seen = 0
           /\ \A k \in Lookups : OneShotLatest(c, k) =>
                /\ Moves(c, "idle", "get") /\ call'[c].txn = None
                /\ call'[c].key = k /\ call'[c].seen = ts
<1> USE DEF At, Enter, Moves, Idle
<1>1. call \in [Client -> Call]
  BY DEF TypeOK
<1>2. ASSUME NEW t \in Txn, BeginLatest(c, t)
      PROVE  Moves(c, "idle", "begin") /\ call'[c].txn = t /\ call'[c].seen = ts
  BY <1>1, <1>2 DEF BeginLatest
<1>3. ASSUME NEW t \in Txn, CommitCall(c, t)
      PROVE  Moves(c, "idle", "lock") /\ call'[c].txn = t /\ call'[c].seen = 0
  BY <1>1, <1>3 DEF CommitCall
<1>4. ASSUME NEW b \in Batches, WriteCall(c, b)
      PROVE  Moves(c, "idle", "lock") /\ call'[c].txn = None /\ call'[c].seen = 0
  BY <1>1, <1>4 DEF WriteCall
<1>5. ASSUME NEW t \in Txn, Rollback(c, t)
      PROVE  Moves(c, "idle", "rollback") /\ call'[c].txn = t /\ call'[c].seen = 0
  BY <1>1, <1>5 DEF Rollback
<1>6. ASSUME NEW k \in Lookups, OneShotLatest(c, k)
      PROVE  /\ Moves(c, "idle", "get") /\ call'[c].txn = None
             /\ call'[c].key = k /\ call'[c].seen = ts
  BY <1>1, <1>6 DEF OneShotLatest
<1> QED
  BY <1>2, <1>3, <1>4, <1>5, <1>6

\* Where a call goes when it gets commitMu, or finds its transaction done.
LEMMA AcquireMoves ==
    ASSUME TypeOK, NEW c \in Client
    PROVE  /\ LockForWrite(c) =>
                Moves(c, "lock", "stamp") /\ Keeps(c) /\ call[c].txn = None
           /\ LockForCommit(c) =>
                /\ Moves(c, "lock", "validate") /\ call[c].txn \in Txn
                /\ call'[c].txn = call[c].txn /\ call'[c].seen = call[c].seen
                /\ call'[c].batch = txn[call[c].txn].local
           /\ CommitFinished(c) => At(c, "lock") /\ call'[c] = Idle
<1> USE DEF At, Goto, Return, Moves, Keeps
<1>1. call \in [Client -> Call]
  BY DEF TypeOK
<1>2. LockForWrite(c) =>
        Moves(c, "lock", "stamp") /\ Keeps(c) /\ call[c].txn = None
  BY <1>1 DEF LockForWrite, Call
<1>3. LockForCommit(c) =>
        /\ Moves(c, "lock", "validate") /\ call[c].txn \in Txn
        /\ call'[c].txn = call[c].txn /\ call'[c].seen = call[c].seen
        /\ call'[c].batch = txn[call[c].txn].local
  BY <1>1 DEF LockForCommit, Call
<1>4. CommitFinished(c) => At(c, "lock") /\ call'[c] = Idle
  BY <1>1 DEF CommitFinished
<1> QED
  BY <1>2, <1>3, <1>4

\* Where a call goes from each of its critical sections.
LEMMA ProceedMoves ==
    ASSUME TypeOK, NEW c \in Client
    PROVE  /\ BeginRegister(c) => At(c, "begin") /\ call'[c] = Idle
           /\ OneShotRead(c) => At(c, "get") /\ call'[c] = Idle
           /\ RollbackRelease(c) => At(c, "rollback") /\ call'[c] = Idle
           /\ AbortOnConflict(c) \/ CommitReadOnly(c) =>
                Moves(c, "validate", "release") /\ Keeps(c)
           /\ PassValidation(c) => Moves(c, "validate", "stamp") /\ Keeps(c)
           /\ Stamp(c) =>
                /\ Moves(c, "stamp", "apply") /\ call'[c].ts = ts + 1
                /\ call'[c].txn = call[c].txn /\ call'[c].seen = call[c].seen
                /\ call'[c].batch = call[c].batch
           /\ Apply(c) => Moves(c, "apply", "record") /\ Keeps(c)
           /\ ApplyFails(c) \/ FreezeFails(c) =>
                IF call[c].txn = None THEN At(c, "apply") /\ call'[c] = Idle
                ELSE Moves(c, "apply", "release") /\ Keeps(c)
           /\ Record(c) =>
                /\ Moves(c, "record", IF call[c].txn = None THEN "prune" ELSE "release")
                /\ Keeps(c)
           /\ Release(c) =>
                /\ Moves(c, "release", "prune") /\ call'[c].txn = None
                /\ call'[c].seen = call[c].seen
           /\ PruneWatermark(c) =>
                /\ Moves(c, "prune", "filter") /\ call'[c].txn = call[c].txn
                /\ call'[c].seen = Watermark
           /\ PruneFilter(c) => At(c, "filter") /\ call'[c] = Idle
<1> USE DEF At, Goto, Return, Moves, Keeps
<1>1. call \in [Client -> Call]
  BY DEF TypeOK
<1>2. /\ BeginRegister(c) => At(c, "begin") /\ call'[c] = Idle
      /\ OneShotRead(c) => At(c, "get") /\ call'[c] = Idle
      /\ RollbackRelease(c) => At(c, "rollback") /\ call'[c] = Idle
      /\ PruneFilter(c) => At(c, "filter") /\ call'[c] = Idle
  BY <1>1 DEF BeginRegister, OneShotRead, RollbackRelease, PruneFilter
<1>3. AbortOnConflict(c) \/ CommitReadOnly(c) =>
        Moves(c, "validate", "release") /\ Keeps(c)
  BY <1>1 DEF AbortOnConflict, CommitReadOnly, Call
<1>4. PassValidation(c) => Moves(c, "validate", "stamp") /\ Keeps(c)
  BY <1>1 DEF PassValidation, Call
<1>5. Stamp(c) =>
        /\ Moves(c, "stamp", "apply") /\ call'[c].ts = ts + 1
        /\ call'[c].txn = call[c].txn /\ call'[c].seen = call[c].seen
        /\ call'[c].batch = call[c].batch
  BY <1>1 DEF Stamp, Call
<1>6. Apply(c) => Moves(c, "apply", "record") /\ Keeps(c)
  BY <1>1 DEF Apply, Call
<1>7. ASSUME ApplyFails(c) \/ FreezeFails(c)
      PROVE  IF call[c].txn = None THEN At(c, "apply") /\ call'[c] = Idle
             ELSE Moves(c, "apply", "release") /\ Keeps(c)
  <2>1. At(c, "apply") /\ FailCall(c)
    BY <1>7 DEF ApplyFails, FreezeFails
  <2>2. CASE call[c].txn = None
    BY <1>1, <2>1, <2>2 DEF FailCall
  <2>3. CASE call[c].txn # None
    BY <1>1, <2>1, <2>3 DEF FailCall, Call
  <2> QED
    BY <2>2, <2>3
<1>8. Record(c) =>
        /\ Moves(c, "record", IF call[c].txn = None THEN "prune" ELSE "release")
        /\ Keeps(c)
  BY <1>1 DEF Record, Call
<1>9. Release(c) =>
        /\ Moves(c, "release", "prune") /\ call'[c].txn = None
        /\ call'[c].seen = call[c].seen
  BY <1>1 DEF Release, Call
<1>10. PruneWatermark(c) =>
         /\ Moves(c, "prune", "filter") /\ call'[c].txn = call[c].txn
         /\ call'[c].seen = Watermark
  BY <1>1 DEF PruneWatermark, Call
<1> HIDE DEF At, Goto, Return, Moves, Keeps
<1> QED
  BY <1>2, <1>3, <1>4, <1>5, <1>6, <1>7, <1>8, <1>9, <1>10

(***************************************************************************)
(* The only ways into, and out of, the points of a call the invariants     *)
(* speak of.                                                               *)
(***************************************************************************)
LEMMA EnteredBy ==
    ASSUME TypeOK, [Next]_vars, NEW d \in Client, call'[d] # call[d]
    PROVE  /\ call'[d].pc = "get" => \E k \in Lookups : OneShotLatest(d, k)
           /\ call'[d].pc = "validate" => LockForCommit(d)
           /\ call'[d].pc = "stamp" => PassValidation(d) \/ LockForWrite(d)
           /\ call'[d].pc = "apply" => Stamp(d)
           /\ call'[d].pc = "record" => Apply(d)
           /\ call'[d].pc = "filter" => PruneWatermark(d)
           /\ At(d, "record") => Record(d)
<1>1. PICK c \in Client : Invoke(c) \/ Acquire(c) \/ Proceed(c)
  BY DEF Next, Compaction, CompactStart, CompactSwap, vars
<1>2. d = c
  BY <1>1, OthersStay
<1>3. CASE Invoke(d)
  BY <1>3, InvokeMoves DEF Invoke, Moves, At, Get, Put, Scan
<1>4. CASE Acquire(d)
  BY <1>4, AcquireMoves DEF Acquire, Moves, At, Idle
<1>5. CASE Proceed(d)
  BY <1>5, ProceedMoves DEF Proceed, Moves, At, Idle
<1> QED
  BY <1>1, <1>2, <1>3, <1>4, <1>5

(***************************************************************************)
(* What each step does to the transactions and to what they observed.      *)
(***************************************************************************)
OnlyTxn(t) == \A u \in Txn : u # t => txn'[u] = txn[u] /\ hist'[u] = hist[u]

SameTxn(t) ==
    /\ txn'[t].readTs = txn[t].readTs /\ txn'[t].local = txn[t].local
    /\ txn'[t].access = txn[t].access /\ hist'[t] = hist[t]

\* What a method of Txn does to its transaction, and to no other.
LEMMA TxnCalls ==
    ASSUME TypeOK, NEW c \in Client, NEW t \in Txn
    PROVE  /\ \A k \in Key, v \in Stored : Put(c, t, k, v) =>
                /\ OnlyTxn(t)
                /\ txn[t].status = "open" /\ txn'[t].status = "open"
                /\ txn'[t].readTs = txn[t].readTs
                /\ txn'[t].local = [txn[t].local EXCEPT ![k] = v]
                /\ txn'[t].access = txn[t].access \cup {Hash[k]}
                /\ hist'[t] = hist[t]
           /\ \A k \in Key : Get(c, t, k) =>
                /\ OnlyTxn(t)
                /\ txn[t].status = "open" /\ txn'[t].status = "open"
                /\ txn'[t].readTs = txn[t].readTs
                /\ txn'[t].local = txn[t].local
                /\ txn'[t].access = txn[t].access \cup {Hash[k]}
                /\ hist'[t].clean = hist[t].clean
                /\ hist'[t].reads = NoteRead(t, {k} \ WrittenBy(txn[t].local))
           /\ \A K \in Ranges : Scan(c, t, K) =>
                /\ OnlyTxn(t)
                /\ txn[t].status = "open" /\ txn'[t].status = "open"
                /\ txn'[t].readTs = txn[t].readTs
                /\ txn'[t].local = txn[t].local
                /\ txn'[t].access = txn[t].access \cup HashesOf(Yielded(t, K))
                /\ hist'[t].clean = hist[t].clean
                /\ hist'[t].reads =
                     NoteRead(t, (K \ WrittenBy(txn[t].local)) \cap Yielded(t, K))
           /\ Rollback(c, t) =>
                /\ OnlyTxn(t) /\ SameTxn(t)
                /\ txn[t].status = "open" /\ txn'[t].status = "done"
<1> USE DEF OnlyTxn
<1>1. txn \in [Txn -> Transaction] /\ hist \in [Txn -> Observed]
  BY DEF TypeOK
<1>2. ASSUME NEW k \in Key, NEW v \in Stored, Put(c, t, k, v)
      PROVE  /\ OnlyTxn(t)
             /\ txn[t].status = "open" /\ txn'[t].status = "open"
             /\ txn'[t].readTs = txn[t].readTs
             /\ txn'[t].local = [txn[t].local EXCEPT ![k] = v]
             /\ txn'[t].access = txn[t].access \cup {Hash[k]}
             /\ hist'[t] = hist[t]
  <2> DEFINE r == [txn[t] EXCEPT !.local[k] = v, !.access = txn[t].access \cup {Hash[k]}]
  <2>1. txn' = [txn EXCEPT ![t] = r] /\ hist' = hist /\ txn[t].status = "open"
    BY <1>2 DEF Put
  <2>2. /\ r.status = txn[t].status /\ r.readTs = txn[t].readTs
        /\ r.local = [txn[t].local EXCEPT ![k] = v]
        /\ r.access = txn[t].access \cup {Hash[k]}
    BY <1>1 DEF Transaction
  <2>3. txn'[t] = r /\ \A u \in Txn : u # t => txn'[u] = txn[u]
    BY <1>1, <2>1
  <2> QED
    BY <2>1, <2>2, <2>3
<1>3. ASSUME NEW k \in Key, Get(c, t, k)
      PROVE  /\ OnlyTxn(t)
             /\ txn[t].status = "open" /\ txn'[t].status = "open"
             /\ txn'[t].readTs = txn[t].readTs
             /\ txn'[t].local = txn[t].local
             /\ txn'[t].access = txn[t].access \cup {Hash[k]}
             /\ hist'[t].clean = hist[t].clean
             /\ hist'[t].reads = NoteRead(t, {k} \ WrittenBy(txn[t].local))
  BY <1>1, <1>3 DEF Get, Transaction, Observed
<1>4. ASSUME NEW K \in Ranges, Scan(c, t, K)
      PROVE  /\ OnlyTxn(t)
             /\ txn[t].status = "open" /\ txn'[t].status = "open"
             /\ txn'[t].readTs = txn[t].readTs
             /\ txn'[t].local = txn[t].local
             /\ txn'[t].access = txn[t].access \cup HashesOf(Yielded(t, K))
             /\ hist'[t].clean = hist[t].clean
             /\ hist'[t].reads =
                  NoteRead(t, (K \ WrittenBy(txn[t].local)) \cap Yielded(t, K))
  BY <1>1, <1>4 DEF Scan, Transaction, Observed
<1>5. Rollback(c, t) =>
        /\ OnlyTxn(t) /\ SameTxn(t)
        /\ txn[t].status = "open" /\ txn'[t].status = "done"
  BY <1>1 DEF Rollback, SameTxn, Transaction
<1> HIDE DEF OnlyTxn
<1> QED
  BY <1>2, <1>3, <1>4, <1>5

\* What the later critical sections of a call do to its transaction.
LEMMA TxnProceeds ==
    ASSUME TypeOK, NEW c \in Client
    PROVE  LET t == call[c].txn IN
           /\ BeginRegister(c) => OnlyTxn(t)
           /\ BeginRegister(c) /\ t \in Txn =>
                /\ txn'[t].status = "open" /\ txn'[t].readTs = call[c].seen
                /\ txn'[t].local = txn[t].local /\ txn'[t].access = txn[t].access
                /\ hist'[t].reads = hist[t].reads
                /\ hist'[t].clean = (call[c].seen = ts /\ ~ InFlight)
           /\ LockForCommit(c) /\ t \in Txn =>
                /\ OnlyTxn(t) /\ SameTxn(t)
                /\ txn[t].status = "open" /\ txn'[t].status = "done"
           /\ RollbackRelease(c) \/ Release(c) => OnlyTxn(t)
           /\ (RollbackRelease(c) \/ Release(c)) /\ t \in Txn =>
                /\ txn'[t].status = "done" /\ txn'[t].readTs = 0
                /\ txn'[t].local = NoBatch /\ txn'[t].access = {}
                /\ hist'[t] = NothingObserved
<1> DEFINE t == call[c].txn
<1>1. txn \in [Txn -> Transaction] /\ hist \in [Txn -> Observed]
  BY DEF TypeOK
<1>2. BeginRegister(c) => OnlyTxn(t)
  BY <1>1 DEF BeginRegister, OnlyTxn
<1>3. ASSUME BeginRegister(c), t \in Txn
      PROVE  /\ txn'[t].status = "open" /\ txn'[t].readTs = call[c].seen
             /\ txn'[t].local = txn[t].local /\ txn'[t].access = txn[t].access
             /\ hist'[t].reads = hist[t].reads
             /\ hist'[t].clean = (call[c].seen = ts /\ ~ InFlight)
  <2>1. txn'[t] = [txn[t] EXCEPT !.status = "open", !.readTs = call[c].seen]
    BY <1>1, <1>3 DEF BeginRegister
  <2>2. hist'[t] = [hist[t] EXCEPT !.clean = (call[c].seen = ts /\ ~ InFlight)]
    BY <1>1, <1>3, Zenon DEF BeginRegister
  <2>3. hist'[t].reads = hist[t].reads
    BY <1>1, <1>3, <2>2 DEF Observed
  <2>4. hist'[t].clean = (call[c].seen = ts /\ ~ InFlight)
    BY <1>1, <1>3, <2>2, ZenonT(30) DEF Observed
  <2> QED
    BY <1>1, <1>3, <2>1, <2>3, <2>4 DEF Transaction
<1>4. ASSUME LockForCommit(c), t \in Txn
      PROVE  /\ OnlyTxn(t) /\ SameTxn(t)
             /\ txn[t].status = "open" /\ txn'[t].status = "done"
  BY <1>1, <1>4 DEF LockForCommit, OnlyTxn, SameTxn, Transaction
<1>5. ASSUME RollbackRelease(c) \/ Release(c)
      PROVE  /\ OnlyTxn(t)
             /\ t \in Txn =>
                /\ txn'[t].status = "done" /\ txn'[t].readTs = 0
                /\ txn'[t].local = NoBatch /\ txn'[t].access = {}
                /\ hist'[t] = NothingObserved
  <2>1. Forget(t)
    BY <1>5 DEF RollbackRelease, Release
  <2> QED
    BY <1>1, <2>1 DEF Forget, OnlyTxn, NewTxn
<1> QED
  BY <1>2, <1>3, <1>4, <1>5

\* The steps that touch no transaction.
LEMMA TxnStays ==
    ASSUME NEW c \in Client,
           \/ \E t \in Txn : BeginLatest(c, t) \/ CommitCall(c, t)
           \/ \E b \in Batches : WriteCall(c, b)
           \/ \E k \in Lookups : OneShotLatest(c, k)
           \/ LockForWrite(c) \/ CommitFinished(c) \/ OneShotRead(c)
           \/ AbortOnConflict(c) \/ CommitReadOnly(c) \/ PassValidation(c)
           \/ Stamp(c) \/ Apply(c) \/ ApplyFails(c) \/ FreezeFails(c)
           \/ Record(c) \/ PruneWatermark(c) \/ PruneFilter(c)
    PROVE  UNCHANGED <<txn, hist>>
  BY DEF BeginLatest, CommitCall, WriteCall, OneShotLatest, LockForWrite, CommitFinished,
         OneShotRead, AbortOnConflict, CommitReadOnly, PassValidation, Stamp, Apply,
         ApplyFails, FreezeFails, FailCall, Record, PruneWatermark, PruneFilter

\* Calls past the done flag: theirs is the transaction's reader to release.
Owning == {"validate", "stamp", "apply", "record", "release", "rollback"}

(***************************************************************************)
(* How the program counter of a call and the status of its transaction go  *)
(* together, and that the done flag has one call win (txn.go:113-131,      *)
(* 167-176).                                                               *)
(***************************************************************************)
CallOf(c) ==
    /\ call[c].pc \in {"idle", "get", "prune", "filter"} => call[c].txn = None
    /\ call[c].pc \in {"begin", "validate", "release", "rollback"} => call[c].txn # None
    /\ call[c].txn # None =>
         /\ At(c, "begin") => txn[call[c].txn].status = "new"
         /\ At(c, "lock") => txn[call[c].txn].status # "new"
         /\ call[c].pc \in Owning => txn[call[c].txn].status = "done"

\* The call that will register or release the reader of its transaction.
InCharge(c) == call[c].txn # None /\ call[c].pc \in Owning \cup {"begin"}

Lifecycle ==
    /\ \A c \in Client : CallOf(c)
    /\ \A c, d \in Client :
         InCharge(c) /\ InCharge(d) /\ call[c].txn = call[d].txn => c = d

\* Lifecycle holds at first: nothing has begun.
LEMMA LifecycleInit == Init => Lifecycle
  BY DEF Init, Lifecycle, CallOf, InCharge, At, Idle, Owning

(***************************************************************************)
(* A step of one call preserves the life cycle if it is right for that     *)
(* call, changes the status of no transaction another call is in charge    *)
(* of, makes none new and takes charge of none that others have.           *)
(***************************************************************************)
LEMMA LifecycleFrame ==
    ASSUME TypeOK, Lifecycle, NEW c \in Client,
           \A d \in Client : d # c => call'[d] = call[d],
           CallOf(c)',
           \A d \in Client : d # c /\ call[d].txn # None =>
             LET t == call[d].txn IN
             /\ txn'[t].status = "new" <=> txn[t].status = "new"
             /\ call[d].pc \in Owning => txn'[t].status = "done",
           \A d \in Client : d # c /\ InCharge(c)' /\ InCharge(d) =>
             call'[c].txn # call[d].txn
    PROVE  Lifecycle'
<1>1. \A d \in Client : d # c => CallOf(d)'
  BY DEF Lifecycle, CallOf, At, Owning
<1>2. \A d \in Client : d # c => (InCharge(d)' <=> InCharge(d))
  BY DEF InCharge
<1> QED
  BY <1>1, <1>2 DEF Lifecycle

\* The only call a new transaction has is the one beginning it.
LEMMA NewAlone ==
    ASSUME TypeOK, Lifecycle, NEW c \in Client, At(c, "begin"),
           NEW d \in Client, call[d].txn = call[c].txn
    PROVE  c = d
<1>1. CallOf(c) /\ CallOf(d) /\ InCharge(c)
  BY DEF Lifecycle, InCharge, CallOf, At
<1>2. call[d].pc \in PC
  BY DEF TypeOK, Call
<1>3. ~ InCharge(d) => call[d].pc \in {"idle", "get", "lock", "prune", "filter"}
  BY <1>1, <1>2 DEF InCharge, Owning, PC
<1>4. InCharge(d)
  BY <1>1, <1>3 DEF CallOf, At
<1> QED
  BY <1>1, <1>4 DEF Lifecycle

\* Lifecycle is inductive, given TypeOK.
LEMMA LifecycleStep == TypeOK /\ Lifecycle /\ [Next]_vars => Lifecycle'
<1> SUFFICES ASSUME TypeOK, Lifecycle, [Next]_vars
             PROVE  Lifecycle'
  OBVIOUS
<1>t. /\ txn \in [Txn -> Transaction] /\ None \notin Txn
      /\ \A c \in Client : call[c].txn # None => call[c].txn \in Txn
  BY NoneAssumption DEF TypeOK, Call
<1>o. \A c \in Client : CallOf(c)
  BY DEF Lifecycle
<1>i. Idle.pc = "idle" /\ Idle.txn = None
  BY DEF Idle
\* Calls that begin with a transaction nobody has, or without taking charge.
<1>1. ASSUME NEW c \in Client, NEW t \in Txn, BeginLatest(c, t)
      PROVE  Lifecycle'
  <2>1. \A d \in Client : d # c => call'[d] = call[d]
    BY <1>1, OthersStay DEF Invoke
  <2>2. /\ call'[c].pc = "begin" /\ call'[c].txn = t
        /\ txn' = txn /\ txn[t].status = "new" /\ \A d \in Client : call[d].txn # t
    BY <1>1, InvokeMoves DEF BeginLatest, Moves
  <2>3. CallOf(c)'
    BY <1>t, <2>2 DEF CallOf, Owning, At
  <2> QED
    BY <1>o, <2>1, <2>2, <2>3, LifecycleFrame DEF CallOf
<1>2. ASSUME NEW c \in Client,
             \/ \E t \in Txn : CommitCall(c, t)
             \/ \E b \in Batches : WriteCall(c, b)
             \/ \E k \in Lookups : OneShotLatest(c, k)
      PROVE  Lifecycle'
  <2>1. \A d \in Client : d # c => call'[d] = call[d]
    BY <1>2, OthersStay DEF Invoke
  <2>2. txn' = txn
    BY <1>2, TxnStays
  <2>3. CallOf(c)' /\ ~ InCharge(c)'
    <3>1. CASE \E t \in Txn : CommitCall(c, t)
      BY <1>t, <2>2, <3>1, InvokeMoves DEF CommitCall, Moves, CallOf, InCharge, Owning, At
    <3>2. CASE \/ \E b \in Batches : WriteCall(c, b)
               \/ \E k \in Lookups : OneShotLatest(c, k)
      BY <3>2, InvokeMoves DEF Moves, CallOf, InCharge, At
    <3> QED
      BY <1>2, <3>1, <3>2
  <2> QED
    BY <1>o, <2>1, <2>2, <2>3, LifecycleFrame DEF CallOf
\* The done flag: whoever finds the transaction open is the one in charge.
<1>3. ASSUME NEW c \in Client, LockForCommit(c) \/ \E t \in Txn : Rollback(c, t)
      PROVE  Lifecycle'
  <2>1. \A d \in Client : d # c => call'[d] = call[d]
    BY <1>3, OthersStay DEF Invoke, Acquire
  <2>2. PICK t \in Txn :
          /\ call'[c].txn = t /\ call'[c].pc \in {"validate", "rollback"}
          /\ OnlyTxn(t) /\ txn[t].status = "open" /\ txn'[t].status = "done"
    <3>1. CASE LockForCommit(c)
      BY <3>1, AcquireMoves, TxnProceeds DEF Moves
    <3>2. CASE \E t \in Txn : Rollback(c, t)
      BY <3>2, InvokeMoves, TxnCalls DEF Moves
    <3> QED
      BY <1>3, <3>1, <3>2
  <2>3. CallOf(c)'
    BY <1>t, <2>2 DEF CallOf, Owning, At
  <2>4. \A d \in Client : InCharge(d) => call[d].txn # t
    BY <1>o, <2>2 DEF CallOf, InCharge, At
  <2>5. \A u \in Txn : /\ txn'[u].status = "new" <=> txn[u].status = "new"
                       /\ txn[u].status = "done" => txn'[u].status = "done"
    BY <2>2 DEF OnlyTxn
  <2> QED
    BY <1>o, <1>t, <2>1, <2>2, <2>3, <2>4, <2>5, LifecycleFrame DEF CallOf, InCharge
\* Begin ends: no other call knows the transaction.
<1>4. ASSUME NEW c \in Client, BeginRegister(c)
      PROVE  Lifecycle'
  <2>1. \A d \in Client : d # c => call'[d] = call[d]
    BY <1>4, OthersStay DEF Proceed
  <2>2. At(c, "begin") /\ call'[c] = Idle /\ OnlyTxn(call[c].txn)
    BY <1>4, ProceedMoves, TxnProceeds
  <2>3. CallOf(c)' /\ ~ InCharge(c)'
    BY <1>i, <2>2 DEF CallOf, InCharge, At
  <2>4. \A d \in Client : d # c => call[d].txn # call[c].txn
    BY <2>2, NewAlone
  <2> QED
    BY <1>o, <1>t, <2>1, <2>2, <2>3, <2>4, LifecycleFrame DEF CallOf, OnlyTxn
\* The reader is released: the transaction stays done.
<1>5. ASSUME NEW c \in Client, RollbackRelease(c) \/ Release(c)
      PROVE  Lifecycle'
  <2>1. \A d \in Client : d # c => call'[d] = call[d]
    BY <1>5, OthersStay DEF Proceed
  <2>2. /\ call'[c].txn = None /\ call'[c].pc \in {"idle", "prune"}
        /\ call[c].pc \in {"rollback", "release"}
    BY <1>5, <1>i, ProceedMoves DEF Moves, At
  <2>3. CallOf(c)' /\ ~ InCharge(c)'
    BY <2>2 DEF CallOf, Owning, InCharge, At
  <2>4. call[c].txn \in Txn /\ txn[call[c].txn].status = "done"
    BY <1>o, <1>t, <2>2 DEF CallOf, Owning
  <2>5. \A u \in Txn : txn'[u].status = txn[u].status
    BY <1>5, <2>4, TxnProceeds DEF OnlyTxn
  <2> QED
    BY <1>o, <1>t, <2>1, <2>3, <2>5, LifecycleFrame DEF CallOf
\* Steps of a call that is in charge and stays so.
<1>6. ASSUME NEW c \in Client,
             \/ AbortOnConflict(c) \/ CommitReadOnly(c) \/ PassValidation(c)
             \/ Stamp(c) \/ Apply(c) \/ ApplyFails(c) \/ FreezeFails(c) \/ Record(c)
             \/ LockForWrite(c)
      PROVE  Lifecycle'
  <2>1. \A d \in Client : d # c => call'[d] = call[d]
    BY <1>6, OthersStay DEF Acquire, Proceed
  <2>2. txn' = txn
    BY <1>6, TxnStays
  <2>3. \/ call'[c].txn = None /\ call'[c].pc \in {"idle", "stamp", "apply", "record", "prune"}
        \/ /\ call'[c].txn = call[c].txn
           /\ call[c].txn # None
           /\ call[c].pc \in Owning /\ call'[c].pc \in Owning
    <3>1. call[c].txn = None => call[c].pc # "validate"
      BY <1>o DEF CallOf
    <3> QED
      BY <1>6, <1>i, <3>1, ProceedMoves, AcquireMoves DEF Moves, Keeps, At, Owning
  <2>4. CallOf(c)'
    BY <1>o, <2>2, <2>3 DEF CallOf, Owning, At
  <2>5. InCharge(c)' => InCharge(c) /\ call'[c].txn = call[c].txn
    BY <2>3 DEF InCharge
  <2> QED
    BY <1>o, <2>1, <2>2, <2>4, <2>5, LifecycleFrame DEF CallOf, Lifecycle
\* Steps of a call that is not in charge and does not become so.
<1>7. ASSUME NEW c \in Client,
             \/ CommitFinished(c) \/ OneShotRead(c) \/ PruneWatermark(c) \/ PruneFilter(c)
      PROVE  Lifecycle'
  <2>1. \A d \in Client : d # c => call'[d] = call[d]
    BY <1>7, OthersStay DEF Acquire, Proceed
  <2>2. txn' = txn
    BY <1>7, TxnStays
  <2>3. call'[c].txn = None /\ call'[c].pc \in {"idle", "filter"}
    <3>1. call[c].pc = "prune" => call[c].txn = None
      BY <1>o DEF CallOf
    <3> QED
      BY <1>7, <1>i, <3>1, ProceedMoves, AcquireMoves DEF Moves, At
  <2>4. CallOf(c)' /\ ~ InCharge(c)'
    BY <2>3 DEF CallOf, InCharge
  <2> QED
    BY <1>o, <2>1, <2>2, <2>4, LifecycleFrame DEF CallOf
\* Calls on an open transaction, and everything that involves no call.
<1>8. ASSUME UNCHANGED call, \A t \in Txn : txn'[t].status = txn[t].status
      PROVE  Lifecycle'
  BY <1>8, <1>o, <1>t DEF Lifecycle, CallOf, InCharge, At
<1>9. ASSUME NEW c \in Client,
             \/ \E t \in Txn, k \in Key : Get(c, t, k)
             \/ \E t \in Txn, k \in Key, v \in Stored : Put(c, t, k, v)
             \/ \E t \in Txn, K \in Ranges : Scan(c, t, K)
      PROVE  Lifecycle'
  <2>1. UNCHANGED call
    BY <1>9 DEF Get, Put, Scan
  <2>2. \A t \in Txn : txn'[t].status = txn[t].status
    BY <1>9, TxnCalls, ZenonT(30) DEF OnlyTxn
  <2> QED
    BY <1>8, <2>1, <2>2
<1>10. CASE Compaction \/ UNCHANGED vars
  BY <1>8, <1>10 DEF Compaction, CompactStart, CompactSwap, vars
<1> QED
  BY <1>1, <1>2, <1>3, <1>4, <1>5, <1>6, <1>7, <1>9, <1>10
     DEF Next, Invoke, Acquire, Proceed

\* Clients and transactions are always in step: each transaction that is being
\* committed or rolled back has one call in charge of it (storage.go:338-352,
\* txn.go:112-199).
THEOREM MvccLifecycle == Spec => []Lifecycle
  BY LifecycleInit, LifecycleStep, MvccTypeOK, PTL DEF Spec
-----------------------------------------------------------------------------
(***************************************************************************)
(* Which steps change which variable.                                      *)
(***************************************************************************)
LEMMA Frames ==
    ASSUME [Next]_vars
    PROVE  /\ ts' = ts \/ \E c \in Client : Stamp(c)
           /\ \/ readers' = readers
              \/ \E c \in Client : BeginRegister(c) \/ RollbackRelease(c) \/ Release(c)
           /\ committed' = committed \/ \E c \in Client : Record(c) \/ PruneFilter(c)
           /\ log' = log \/ \E c \in Client : Apply(c) \/ FreezeFails(c)
           /\ store' = store \/ CompactSwap \/ \E c \in Client : Apply(c) \/ FreezeFails(c)
           /\ gc' = gc \/ CompactSwap \/ \E v \in store : CompactStart(v.ts)
<1> USE DEF controller
<1>1. CASE UNCHANGED vars
  BY <1>1 DEF vars
<1>2. CASE Compaction
  BY <1>2 DEF Compaction, CompactStart, CompactSwap
<1>3. ASSUME NEW c \in Client, Invoke(c)
      PROVE  UNCHANGED <<ts, readers, committed, log, store, gc>>
  BY <1>3 DEF Invoke, BeginLatest, CommitCall, Rollback, Get, Put, Scan, WriteCall,
              OneShotLatest
<1>4. ASSUME NEW c \in Client, Acquire(c)
      PROVE  UNCHANGED <<ts, readers, committed, log, store, gc>>
  BY <1>4 DEF Acquire, LockForWrite, LockForCommit, CommitFinished
<1>5. ASSUME NEW c \in Client, Proceed(c)
      PROVE  /\ gc' = gc
             /\ ts' = ts \/ Stamp(c)
             /\ readers' = readers \/ BeginRegister(c) \/ RollbackRelease(c) \/ Release(c)
             /\ committed' = committed \/ Record(c) \/ PruneFilter(c)
             /\ UNCHANGED <<log, store>> \/ Apply(c) \/ FreezeFails(c)
  <2>1. CASE BeginRegister(c) \/ RollbackRelease(c) \/ Release(c)
    BY <2>1 DEF BeginRegister, RollbackRelease, Release
  <2>2. CASE Record(c) \/ PruneFilter(c)
    BY <2>2 DEF Record, PruneFilter
  <2>3. CASE Apply(c) \/ FreezeFails(c)
    BY <2>3 DEF Apply, FreezeFails, FailCall
  <2>4. CASE Stamp(c)
    BY <2>4 DEF Stamp
  <2>5. CASE \/ OneShotRead(c) \/ AbortOnConflict(c) \/ CommitReadOnly(c)
             \/ PassValidation(c) \/ ApplyFails(c) \/ PruneWatermark(c)
    BY <2>5 DEF OneShotRead, AbortOnConflict, CommitReadOnly, PassValidation,
                ApplyFails, FailCall, PruneWatermark
  <2> QED
    BY <1>5, <2>1, <2>2, <2>3, <2>4, <2>5 DEF Proceed
<1> QED
  BY <1>1, <1>2, <1>3, <1>4, <1>5 DEF Next

(***************************************************************************)
(* Nobody is ahead of mvcc.ts: it bounds every timestamp that was read     *)
(* from the controller or registered with it (mvcc.go:28-86).              *)
(***************************************************************************)
NotAhead ==
    /\ \A r \in Ts : readers[r] > 0 => r <= ts
    /\ \A c \in Client : call[c].seen <= ts
    /\ \A t \in Txn : txn[t].readTs <= ts
    /\ gc.wm <= ts

\* NotAhead holds at first.
LEMMA NotAheadInit == Init => NotAhead
  BY BoundAssumption DEF Init, NotAhead, Idle, NewTxn, Ts

\* The watermark is never ahead of the last timestamp.
LEMMA WatermarkNotAhead ==
    ASSUME TypeOK, NotAhead
    PROVE  Watermark <= ts
<1>1. CASE OpenTs = {}
  BY <1>1, BoundAssumption DEF Watermark, TypeOK, Ts
<1>2. CASE OpenTs # {}
  <2>1. \E m \in OpenTs : \A n \in OpenTs : m <= n
    BY <1>2, LeastTs DEF OpenTs
  <2>2. Watermark \in OpenTs
    BY <1>2, <2>1 DEF Watermark
  <2> QED
    BY <2>2 DEF OpenTs, NotAhead
<1> QED
  BY <1>1, <1>2

\* NotAhead is inductive, given TypeOK.
LEMMA NotAheadStep == TypeOK /\ NotAhead /\ [Next]_vars => NotAhead'
<1> SUFFICES ASSUME TypeOK, NotAhead, [Next]_vars
             PROVE  NotAhead'
  OBVIOUS
<1>0. TypeOK'
  BY TypeStep
<1>n. \A n \in Ts : n \in Nat
  BY BoundAssumption DEF Ts
<1>1. /\ ts \in Ts /\ ts' \in Ts /\ gc.wm \in Ts /\ gc'.wm \in Ts
      /\ \A c \in Client : call[c].seen \in Ts /\ call'[c].seen \in Ts
      /\ \A t \in Txn : txn[t].readTs \in Ts /\ txn'[t].readTs \in Ts
  <2>1. /\ ts \in Ts /\ gc.wm \in Ts
        /\ \A c \in Client : call[c].seen \in Ts
        /\ \A t \in Txn : txn[t].readTs \in Ts
    BY DEF TypeOK, Call, Transaction
  <2>2. /\ ts' \in Ts /\ gc'.wm \in Ts
        /\ \A c \in Client : call'[c].seen \in Ts
        /\ \A t \in Txn : txn'[t].readTs \in Ts
    BY <1>0 DEF TypeOK, Call, Transaction
  <2> QED
    BY <2>1, <2>2
<1>2. ts <= ts'
  <2>1. ts' = ts \/ ts' = ts + 1
    BY Frames DEF Stamp
  <2> QED
    BY <1>n, <1>1, <2>1
<1>3. Watermark <= ts /\ Watermark \in Nat
  BY <1>n, WatermarkNotAhead, WatermarkBound
<1>4. \A r \in Ts : readers'[r] > 0 => r <= ts
  <2>1. ASSUME NEW c \in Client, BeginRegister(c)
        PROVE  \A r \in Ts : readers'[r] > 0 => r <= ts
    BY <2>1 DEF BeginRegister, AddReader, TypeOK, NotAhead
  <2>2. ASSUME NEW c \in Client, RollbackRelease(c) \/ Release(c)
        PROVE  \A r \in Ts : readers'[r] > 0 => r <= ts
    <3>1. PICK r : RemoveReader(r)
      BY <2>2 DEF RollbackRelease, Release
    <3>2. \A u \in Ts : readers'[u] > 0 => readers[u] > 0
      BY <3>1 DEF RemoveReader, TypeOK
    <3> QED
      BY <3>2 DEF NotAhead
  <2> QED
    BY <2>1, <2>2, Frames DEF NotAhead
<1>5. \A c \in Client : call'[c].seen <= ts
  <2> SUFFICES ASSUME NEW c \in Client, NEW d \in Client,
                      Invoke(c) \/ Acquire(c) \/ Proceed(c), call'[d].seen # call[d].seen
               PROVE  call'[d].seen <= ts
    BY DEF Next, Compaction, CompactStart, CompactSwap, vars, NotAhead
  <2>1. d = c
    BY OthersStay
  <2>2. call'[c].seen \in {0, ts, Watermark}
    <3>1. Idle.seen = 0
      BY DEF Idle
    <3>2. CASE Invoke(c)
      <4>1. CASE UNCHANGED call
        BY <2>1, <4>1
      <4> QED
        BY <3>2, <4>1, InvokeMoves DEF Invoke, Get, Put, Scan
    <3>3. CASE Acquire(c)
      BY <2>1, <3>1, <3>3, AcquireMoves DEF Acquire, Keeps
    <3>4. CASE Proceed(c)
      BY <2>1, <3>1, <3>4, ProceedMoves DEF Proceed, Keeps
    <3> QED
      BY <3>2, <3>3, <3>4
  <2> QED
    BY <1>n, <1>1, <1>3, <2>1, <2>2
<1>6. \A t \in Txn : txn'[t].readTs <= ts
  <2> SUFFICES ASSUME NEW c \in Client, NEW t \in Txn,
                      Invoke(c) \/ Acquire(c) \/ Proceed(c), txn'[t].readTs # txn[t].readTs
               PROVE  txn'[t].readTs <= ts
    BY DEF Next, Compaction, CompactStart, CompactSwap, vars, NotAhead
  <2>1. ~ Invoke(c)
    BY TxnCalls, TxnStays DEF Invoke, OnlyTxn, SameTxn
  <2>2. ~ Acquire(c)
    BY TxnProceeds, TxnStays, AcquireMoves DEF Acquire, OnlyTxn, SameTxn
  <2>3. CASE Proceed(c)
    <3>1. BeginRegister(c) \/ RollbackRelease(c) \/ Release(c)
      BY <2>3, TxnStays DEF Proceed
    <3>2. t = call[c].txn
      BY <3>1, TxnProceeds DEF OnlyTxn
    <3> QED
      BY <1>n, <1>1, <3>1, <3>2, TxnProceeds DEF NotAhead
  <2> QED
    BY <2>1, <2>2, <2>3
<1>7. gc'.wm <= ts
  <2>1. gc'.wm \in {gc.wm, Watermark, 0}
    <3>1. CASE CompactSwap
      BY <3>1 DEF CompactSwap
    <3>2. CASE \E v \in store : CompactStart(v.ts)
      BY <3>2 DEF CompactStart
    <3> QED
      BY <3>1, <3>2, Frames
  <2> QED
    BY <1>n, <1>1, <1>3, <2>1 DEF NotAhead
<1>8. /\ \A r \in Ts : readers'[r] > 0 => r <= ts'
      /\ \A c \in Client : call'[c].seen <= ts'
      /\ \A t \in Txn : txn'[t].readTs <= ts'
      /\ gc'.wm <= ts'
  BY <1>n, <1>1, <1>2, <1>4, <1>5, <1>6, <1>7
<1> QED
  BY <1>8 DEF NotAhead

\* No transaction, watermark or recorded commit is ahead of mvcc.ts
\* (mvcc.go:36-81).
THEOREM MvccNotAhead == Spec => []NotAhead
  BY NotAheadInit, NotAheadStep, MvccTypeOK, PTL DEF Spec

-----------------------------------------------------------------------------
(***************************************************************************)
(* Who is registered: open transactions, and those a call owns.            *)
(***************************************************************************)
Owns(c, t) == call[c].txn = t /\ call[c].pc \in Owning

\* A transaction is registered while it is open or a call has it in charge.
LEMMA RegisteredOwned ==
    ASSUME NEW t
    PROVE  /\ Registered(t) <=> Open(t) \/ \E c \in Client : Owns(c, t)
           /\ Registered(t)' <=> Open(t)' \/ \E c \in Client : Owns(c, t)'
  BY DEF Registered, Owns, Owning

\* Begin registers a transaction nobody else has.
LEMMA BeginRegisters ==
    ASSUME TypeOK, Lifecycle, NEW c \in Client, BeginRegister(c)
    PROVE  \E t \in Txn :
           /\ t = call[c].txn /\ ~ Registered(t) /\ Registered(t)'
           /\ txn[t].status = "new" /\ txn'[t].readTs = call[c].seen
           /\ hist'[t].clean = (call[c].seen = ts /\ ~ InFlight)
           /\ \A u \in Txn : u # t => /\ Registered(u)' <=> Registered(u)
                                      /\ txn'[u] = txn[u] /\ hist'[u] = hist[u]
<1>1. At(c, "begin") /\ call'[c] = Idle /\ OnlyTxn(call[c].txn)
  BY ProceedMoves, TxnProceeds
<1>2. PICK t \in Txn : t = call[c].txn /\ txn[t].status = "new"
  <2>1. CallOf(c) /\ call[c] \in Call
    BY DEF Lifecycle, TypeOK
  <2> QED
    BY <1>1, <2>1 DEF CallOf, At, Call
<1>3. /\ txn'[t].status = "open" /\ txn'[t].readTs = call[c].seen
      /\ hist'[t].clean = (call[c].seen = ts /\ ~ InFlight)
  BY <1>2, TxnProceeds
<1>4. \A d \in Client : ~ Owns(d, t)
  BY <1>1, <1>2, NewAlone DEF Owns, Owning, At
<1>5. ~ Registered(t) /\ Registered(t)'
  BY <1>2, <1>3, <1>4, RegisteredOwned DEF Open
<1>6. ASSUME NEW u \in Txn, u # t
      PROVE  Registered(u)' <=> Registered(u)
  <2>1. \A d \in Client : d # c => call'[d] = call[d]
    BY OthersStay DEF Proceed
  <2>2. \A d \in Client : Owns(d, u)' <=> Owns(d, u)
    BY <1>1, <1>6, <2>1 DEF Owns, Owning, At, Idle
  <2>3. Open(u)' <=> Open(u)
    BY <1>1, <1>2, <1>6 DEF Open, OnlyTxn
  <2> QED
    BY <2>2, <2>3, RegisteredOwned
<1> QED
  BY <1>1, <1>2, <1>3, <1>5, <1>6 DEF OnlyTxn

\* The one call that owns a finished transaction unregisters it.
LEMMA ReleaseUnregisters ==
    ASSUME TypeOK, Lifecycle, NEW c \in Client, RollbackRelease(c) \/ Release(c)
    PROVE  \E t \in Txn :
           /\ t = call[c].txn /\ Registered(t) /\ ~ Registered(t)'
           /\ RemoveReader(txn[t].readTs)
           /\ \A u \in Txn : u # t => /\ Registered(u)' <=> Registered(u)
                                      /\ txn'[u] = txn[u] /\ hist'[u] = hist[u]
<1>1. /\ call[c].pc \in {"rollback", "release"} /\ OnlyTxn(call[c].txn)
      /\ call'[c].pc \in {"idle", "prune"}
  BY ProceedMoves, TxnProceeds DEF Moves, At, Idle
<1>2. PICK t \in Txn : t = call[c].txn
  <2>1. CallOf(c) /\ call[c] \in Call
    BY DEF Lifecycle, TypeOK
  <2> QED
    BY <1>1, <2>1 DEF CallOf, Call
<1>3. \A d \in Client : d # c => call'[d] = call[d]
  BY OthersStay DEF Proceed
<1>4. \A d \in Client : Owns(d, t) => d = c
  BY <1>1, <1>2, NoneAssumption DEF Lifecycle, InCharge, Owns, Owning
<1>5. Registered(t)
  BY <1>1, <1>2, RegisteredOwned DEF Owns, Owning
<1>6. ~ Registered(t)'
  <2>1. \A d \in Client : ~ Owns(d, t)'
    BY <1>1, <1>3, <1>4 DEF Owns, Owning
  <2>2. ~ Open(t)'
    BY <1>2, TxnProceeds DEF Open
  <2> QED
    BY <2>1, <2>2, RegisteredOwned
<1>7. ASSUME NEW u \in Txn, u # t
      PROVE  Registered(u)' <=> Registered(u)
  <2>1. \A d \in Client : Owns(d, u)' <=> Owns(d, u)
    BY <1>1, <1>2, <1>3, <1>7 DEF Owns, Owning
  <2>2. Open(u)' <=> Open(u)
    BY <1>1, <1>2, <1>7 DEF Open, OnlyTxn
  <2> QED
    BY <2>1, <2>2, RegisteredOwned
<1>8. RemoveReader(txn[t].readTs)
  BY <1>2 DEF RollbackRelease, Release
<1> QED
  BY <1>1, <1>2, <1>5, <1>6, <1>7, <1>8 DEF OnlyTxn

\* Every other step leaves registration as it is.
LEMMA RegisteredStay ==
    ASSUME TypeOK, Lifecycle, [Next]_vars,
           \A c \in Client : ~ (BeginRegister(c) \/ RollbackRelease(c) \/ Release(c))
    PROVE  \A t \in Txn : /\ Registered(t)' <=> Registered(t)
                          /\ txn'[t].readTs = txn[t].readTs
                          /\ hist'[t].clean = hist[t].clean
<1> SUFFICES ASSUME NEW t \in Txn
             PROVE  /\ Registered(t)' <=> Registered(t)
                    /\ txn'[t].readTs = txn[t].readTs
                    /\ hist'[t].clean = hist[t].clean
  OBVIOUS
<1>t. t # None
  BY NoneAssumption
<1>1. CASE Compaction \/ UNCHANGED vars
  <2>1. UNCHANGED <<call, txn, hist>>
    BY <1>1 DEF Compaction, CompactStart, CompactSwap, vars
  <2> QED
    BY <2>1 DEF Registered, Open
\* Calls on an open transaction.
<1>2. ASSUME NEW c \in Client, NEW u \in Txn,
             \/ \E k \in Key : Get(c, u, k)
             \/ \E k \in Key, v \in Stored : Put(c, u, k, v)
             \/ \E K \in Ranges : Scan(c, u, K)
      PROVE  /\ Registered(t)' <=> Registered(t)
             /\ txn'[t].readTs = txn[t].readTs /\ hist'[t].clean = hist[t].clean
  <2>1. UNCHANGED call
    BY <1>2 DEF Get, Put, Scan
  <2>2. /\ txn'[t].status = txn[t].status /\ txn'[t].readTs = txn[t].readTs
        /\ hist'[t].clean = hist[t].clean
    BY <1>2, TxnCalls, ZenonT(30) DEF OnlyTxn
  <2> QED
    BY <2>1, <2>2 DEF Registered, Open
\* The call that marks it done takes over from the open transaction.
<1>3. ASSUME NEW c \in Client, LockForCommit(c) \/ \E u \in Txn : Rollback(c, u)
      PROVE  /\ Registered(t)' <=> Registered(t)
             /\ txn'[t].readTs = txn[t].readTs /\ hist'[t].clean = hist[t].clean
  <2>1. \A d \in Client : d # c => call'[d] = call[d]
    BY <1>3, OthersStay DEF Invoke, Acquire
  <2>2. PICK u \in Txn :
          /\ call'[c].txn = u /\ call'[c].pc \in {"validate", "rollback"}
          /\ call[c].pc \in {"idle", "lock"}
          /\ OnlyTxn(u) /\ SameTxn(u) /\ txn[u].status = "open" /\ txn'[u].status = "done"
    <3>1. CASE LockForCommit(c)
      BY <3>1, AcquireMoves, TxnProceeds DEF Moves, At
    <3>2. CASE \E u \in Txn : Rollback(c, u)
      BY <3>2, InvokeMoves, TxnCalls DEF Moves, At
    <3> QED
      BY <1>3, <3>1, <3>2
  <2>3. txn'[t].readTs = txn[t].readTs /\ hist'[t].clean = hist[t].clean
    BY <2>2 DEF OnlyTxn, SameTxn
  <2>4. CASE t = u
    <3>1. Registered(t) /\ Owns(c, t)'
      BY <2>2, <2>4 DEF Registered, Open, Owns, Owning
    <3> QED
      BY <2>3, <3>1, RegisteredOwned
  <2>5. CASE t # u
    <3>1. \A d \in Client : Owns(d, t)' <=> Owns(d, t)
      BY <2>1, <2>2, <2>5 DEF Owns, Owning
    <3>2. Open(t)' <=> Open(t)
      BY <2>2, <2>5 DEF Open, OnlyTxn
    <3> QED
      BY <2>3, <3>1, <3>2, RegisteredOwned
  <2> QED
    BY <2>4, <2>5
\* The rest changes no transaction, and no call that owns one lets go of it.
<1>4. ASSUME NEW c \in Client, UNCHANGED <<txn, hist>>, Owns(c, t)' <=> Owns(c, t),
             Invoke(c) \/ Acquire(c) \/ Proceed(c)
      PROVE  /\ Registered(t)' <=> Registered(t)
             /\ txn'[t].readTs = txn[t].readTs /\ hist'[t].clean = hist[t].clean
  <2>1. \A d \in Client : d # c => (Owns(d, t)' <=> Owns(d, t))
    BY <1>4, OthersStay DEF Owns
  <2>2. \A d \in Client : Owns(d, t)' <=> Owns(d, t)
    BY <1>4, <2>1
  <2>3. Open(t)' <=> Open(t)
    BY <1>4 DEF Open
  <2> QED
    BY <1>4, <2>2, <2>3, RegisteredOwned
<1>5. ASSUME NEW c \in Client,
             \/ \E u \in Txn : BeginLatest(c, u) \/ CommitCall(c, u)
             \/ \E b \in Batches : WriteCall(c, b)
             \/ \E k \in Lookups : OneShotLatest(c, k)
      PROVE  UNCHANGED <<txn, hist>> /\ (Owns(c, t)' <=> Owns(c, t))
  <2>1. call[c].pc = "idle" /\ call'[c].pc \in {"begin", "lock", "get"}
    BY <1>5, InvokeMoves DEF Moves, At
  <2> QED
    BY <1>5, <2>1, TxnStays DEF Owns, Owning
<1>6. ASSUME NEW c \in Client, LockForWrite(c) \/ CommitFinished(c)
      PROVE  UNCHANGED <<txn, hist>> /\ (Owns(c, t)' <=> Owns(c, t))
  <2>1. call[c].pc = "lock" /\ (call'[c].pc = "idle" \/ call'[c].txn = None)
    BY <1>6, AcquireMoves DEF Moves, At, Idle, Keeps
  <2> QED
    BY <1>6, <1>t, <2>1, TxnStays DEF Owns, Owning
<1>7. ASSUME NEW c \in Client,
             \/ OneShotRead(c) \/ AbortOnConflict(c) \/ CommitReadOnly(c)
             \/ PassValidation(c) \/ Stamp(c) \/ Apply(c) \/ ApplyFails(c)
             \/ FreezeFails(c) \/ Record(c) \/ PruneWatermark(c) \/ PruneFilter(c)
      PROVE  UNCHANGED <<txn, hist>> /\ (Owns(c, t)' <=> Owns(c, t))
  <2>1. \/ call[c].txn = None /\ call'[c].txn = None
        \/ call'[c].txn = call[c].txn /\ call[c].pc \in Owning /\ call'[c].pc \in Owning
    <3>1. call[c].pc \in {"get", "prune", "filter"} => call[c].txn = None
      BY DEF Lifecycle, CallOf
    <3> QED
      BY <1>7, <3>1, ProceedMoves DEF Moves, Keeps, At, Idle, Owning
  <2> QED
    BY <1>7, <1>t, <2>1, TxnStays DEF Owns
<1> QED
  BY <1>1, <1>2, <1>3, <1>4, <1>5, <1>6, <1>7 DEF Next, Invoke, Acquire, Proceed
-----------------------------------------------------------------------------
(***************************************************************************)
(* The reader counts.  Finiteness is part of the invariant: only finitely  *)
(* many transactions are registered at a time, whatever Txn is.            *)
(***************************************************************************)
ReadersAt(r) == {t \in Txn : Registered(t) /\ txn[t].readTs = r}

Counted == \A r \in Ts :
    IsFiniteSet(ReadersAt(r)) /\ readers[r] = Cardinality(ReadersAt(r))

\* Counted holds at first.
LEMMA CountedInit == Init => Counted
<1> SUFFICES ASSUME Init, NEW r \in Ts
             PROVE  IsFiniteSet(ReadersAt(r)) /\ readers[r] = Cardinality(ReadersAt(r))
  BY DEF Counted
<1>1. ReadersAt(r) = {} /\ readers[r] = 0
  BY DEF Init, ReadersAt, Registered, Open, NewTxn, Idle
<1> QED
  BY <1>1, FS_EmptySet

\* Counted is inductive, given TypeOK and Lifecycle.
LEMMA CountedStep == TypeOK /\ Lifecycle /\ Counted /\ [Next]_vars => Counted'
<1> SUFFICES ASSUME TypeOK, Lifecycle, Counted, [Next]_vars, NEW r \in Ts
             PROVE  IsFiniteSet(ReadersAt(r)') /\ readers'[r] = Cardinality(ReadersAt(r)')
  BY DEF Counted
<1>1. IsFiniteSet(ReadersAt(r)) /\ readers[r] = Cardinality(ReadersAt(r))
  BY DEF Counted
<1>2. readers \in [Ts -> Nat]
  BY DEF TypeOK
<1>3. ASSUME NEW c \in Client, BeginRegister(c)
      PROVE  IsFiniteSet(ReadersAt(r)') /\ readers'[r] = Cardinality(ReadersAt(r)')
  <2>1. PICK t \in Txn :
          /\ ~ Registered(t) /\ Registered(t)' /\ txn'[t].readTs = call[c].seen
          /\ \A u \in Txn : u # t => /\ Registered(u)' <=> Registered(u)
                                     /\ txn'[u] = txn[u]
    BY <1>3, BeginRegisters
  <2>2. AddReader(call[c].seen)
    BY <1>3 DEF BeginRegister
  <2>3. CASE r = call[c].seen
    <3>1. ReadersAt(r)' = ReadersAt(r) \cup {t} /\ t \notin ReadersAt(r)
      BY <2>1, <2>3 DEF ReadersAt
    <3>2. readers'[r] = readers[r] + 1
      BY <1>2, <2>2, <2>3 DEF AddReader
    <3> QED
      BY <1>1, <3>1, <3>2, FS_AddElement
  <2>4. CASE r # call[c].seen
    <3>1. ReadersAt(r)' = ReadersAt(r)
      BY <2>1, <2>4 DEF ReadersAt
    <3>2. readers'[r] = readers[r]
      BY <1>2, <2>2, <2>4 DEF AddReader
    <3> QED
      BY <1>1, <3>1, <3>2
  <2> QED
    BY <2>3, <2>4
<1>4. ASSUME NEW c \in Client, RollbackRelease(c) \/ Release(c)
      PROVE  IsFiniteSet(ReadersAt(r)') /\ readers'[r] = Cardinality(ReadersAt(r)')
  <2>1. PICK t \in Txn :
          /\ Registered(t) /\ ~ Registered(t)' /\ RemoveReader(txn[t].readTs)
          /\ \A u \in Txn : u # t => /\ Registered(u)' <=> Registered(u)
                                     /\ txn'[u] = txn[u]
    BY <1>4, ReleaseUnregisters
  <2>2. CASE r = txn[t].readTs
    <3>1. ReadersAt(r)' = ReadersAt(r) \ {t} /\ t \in ReadersAt(r)
      BY <2>1, <2>2 DEF ReadersAt
    <3>2. /\ IsFiniteSet(ReadersAt(r)') /\ readers[r] \in Nat /\ readers[r] >= 1
          /\ Cardinality(ReadersAt(r)') = readers[r] - 1
      <4>1. readers[r] \in Nat /\ readers[r] # 0
        BY <1>1, <1>2, <3>1, FS_EmptySet
      <4>2. /\ IsFiniteSet(ReadersAt(r)')
            /\ Cardinality(ReadersAt(r)') = Cardinality(ReadersAt(r)) - 1
        BY <1>1, <3>1, FS_RemoveElement
      <4> QED
        BY <1>1, <4>1, <4>2
    <3>3. readers'[r] = readers[r] - 1
      BY <1>2, <2>1, <2>2, <3>2 DEF RemoveReader
    <3> QED
      BY <3>2, <3>3
  <2>3. CASE r # txn[t].readTs
    <3>1. ReadersAt(r)' = ReadersAt(r)
      BY <2>1, <2>3 DEF ReadersAt
    <3>2. readers'[r] = readers[r]
      BY <1>2, <2>1, <2>3 DEF RemoveReader
    <3> QED
      BY <1>1, <3>1, <3>2
  <2> QED
    BY <2>2, <2>3
<1>5. CASE \A c \in Client : ~ (BeginRegister(c) \/ RollbackRelease(c) \/ Release(c))
  <2>1. readers' = readers
    BY <1>5, Frames
  <2>2. ReadersAt(r)' = ReadersAt(r)
    BY <1>5, RegisteredStay DEF ReadersAt
  <2> QED
    BY <1>1, <2>1, <2>2
<1> QED
  BY <1>3, <1>4, <1>5

\* Counted holds in every reachable state.
LEMMA MvccCounted == Spec => []Counted
  BY CountedInit, CountedStep, MvccTypeOK, MvccLifecycle, PTL DEF Spec

(***************************************************************************)
(* mvcc.readers counts exactly the registered transactions, so a released  *)
(* reader is released once however Commit and Rollback race.               *)
(***************************************************************************)
THEOREM MvccReadersExact == Spec => []ReadersExact
<1>1. Counted => ReadersExact
  BY DEF Counted, ReadersExact, ReadersAt
<1> QED
  BY <1>1, MvccCounted, PTL

(***************************************************************************)
(* The watermark protects: it is at or below the read timestamp of every   *)
(* registered transaction (mvcc.go:73-86).                                 *)
(***************************************************************************)
WatermarkProtects == \A t \in Txn : Registered(t) => Watermark <= txn[t].readTs

\* Exact counts make the watermark safe.
LEMMA CountedProtects == TypeOK /\ Counted => WatermarkProtects
<1> SUFFICES ASSUME TypeOK, Counted, NEW t \in Txn, Registered(t)
             PROVE  Watermark <= txn[t].readTs
  BY DEF WatermarkProtects
<1> DEFINE r == txn[t].readTs
<1>1. r \in Ts /\ readers[r] \in Nat
  BY DEF TypeOK, Transaction
<1>2. t \in ReadersAt(r) /\ IsFiniteSet(ReadersAt(r)) /\ readers[r] = Cardinality(ReadersAt(r))
  BY <1>1 DEF ReadersAt, Counted
<1>3. readers[r] # 0
  BY <1>2, FS_EmptySet
<1> QED
  BY <1>1, <1>3, WatermarkBound DEF OpenTs

\* The watermark a collection or a pruning reads is, at that moment, at or below
\* the timestamp of every open transaction (mvcc.go:66-81).
THEOREM MvccWatermarkProtects == Spec => []WatermarkProtects
  BY CountedProtects, MvccTypeOK, MvccCounted, PTL

-----------------------------------------------------------------------------
(***************************************************************************)
(* The snapshots of clean transactions, and the history they validate      *)
(* against.                                                                *)
(***************************************************************************)

\* A clean transaction, from Begin until its reader is released.
Clean(t) == Registered(t) /\ hist[t].clean

\* A reader at timestamp t cannot tell the tree from the complete history.
Agree(t) == \A k \in Key : ReadAt(store, k, t) = ReadAt(log, k, t)

(***************************************************************************)
(* Why a clean snapshot stays: a merge under way collects below it, a      *)
(* batch about to be applied lies above it.  The latest timestamp agrees   *)
(* too, which is where the next Begin finds its snapshot.                  *)
(***************************************************************************)
Snapshots ==
    /\ Agree(ts)
    /\ \A t \in Txn : Clean(t) =>
         /\ gc.pc = "merge" => gc.wm <= txn[t].readTs
         /\ InFlight => txn[t].readTs < ts
         /\ Agree(txn[t].readTs)

\* The tree and the log hold versions, with numbers for timestamps.
LEMMA VersionSets ==
    ASSUME TypeOK
    PROVE  /\ store \in SUBSET Version /\ log \in SUBSET Version
           /\ Ts \subseteq Nat
           /\ \A v \in log : v.ts \in Nat
  BY BoundAssumption DEF TypeOK, Version, Ts

\* Snapshots holds at first.
LEMMA SnapshotsInit == Init => Snapshots
  BY DEF Init, Snapshots, Agree, Clean, Registered, Open, NewTxn, Idle, ReadAt

(***************************************************************************)
(* Applying a batch leaves every reader below its timestamp alone.         *)
(***************************************************************************)
LEMMA InstallAbove ==
    ASSUME TypeOK, TypeOK', CommitOrder, CommitOrder', NEW c \in Client, At(c, "apply"),
           Install(c), NEW t \in Ts, t < ts, NEW k
    PROVE  /\ ReadAt(store', k, t) = ReadAt(store, k, t)
           /\ ReadAt(log', k, t) = ReadAt(log, k, t)
<1> DEFINE new == Versioned(call[c].batch, call[c].ts)
<1>1. \A v \in new : v.ts = ts
  BY DEF CommitOrder, Versioned
<1>2. ts \in Nat /\ t \in Nat
  BY VersionSets DEF TypeOK
<1>3. /\ store \in SUBSET Version /\ log \in SUBSET Version
      /\ store' \in SUBSET Version /\ log' \in SUBSET Version
  <2>1. store' \in SUBSET Version /\ log' \in SUBSET Version
    BY VersionSets, Ts \subseteq Nat DEF TypeOK, Version
  <2> QED
    BY <2>1, VersionSets
<1>4. /\ OneVersionPerTs(store) /\ OneVersionPerTs(log)
      /\ OneVersionPerTs(store') /\ OneVersionPerTs(log')
  BY DEF CommitOrder, OneVersionPerTs
<1>5. store' = store \cup new /\ log' = log \cup new
  BY DEF Install
<1>6. \A v \in new : ~ (v.ts <= t)
  BY <1>1, <1>2
<1>7. ReadAt(store', k, t) = ReadAt(store, k, t)
  <2>1. /\ \A v \in store' : v.key = k /\ v.ts <= t => v \in store /\ v.ts <= t
        /\ \A v \in store : v.key = k /\ v.ts <= t => v \in store' /\ v.ts <= t
    BY <1>5, <1>6
  <2> QED
    BY <1>2, <1>3, <1>4, <2>1, ReadSame
<1>8. ReadAt(log', k, t) = ReadAt(log, k, t)
  <2>1. /\ \A v \in log' : v.key = k /\ v.ts <= t => v \in log /\ v.ts <= t
        /\ \A v \in log : v.key = k /\ v.ts <= t => v \in log' /\ v.ts <= t
    BY <1>5, <1>6
  <2> QED
    BY <1>2, <1>3, <1>4, <2>1, ReadSame
<1> QED
  BY <1>7, <1>8

(***************************************************************************)
(* A reader at the timestamp of the batch sees the batch, in the tree as   *)
(* in the history.                                                         *)
(***************************************************************************)
LEMMA InstallLatest ==
    ASSUME TypeOK, TypeOK', CommitOrder, CommitOrder', NEW c \in Client, At(c, "apply"),
           Install(c), Agree(ts)
    PROVE  \A k \in Key : ReadAt(store', k, ts) = ReadAt(log', k, ts)
<1> SUFFICES ASSUME NEW k \in Key
             PROVE  ReadAt(store', k, ts) = ReadAt(log', k, ts)
  OBVIOUS
<1> DEFINE new == Versioned(call[c].batch, call[c].ts)
<1>1. \A v \in new : v.ts = ts
  BY DEF CommitOrder, Versioned
<1>2. ts \in Nat
  BY VersionSets DEF TypeOK
<1>3. /\ store \in SUBSET Version /\ log \in SUBSET Version
      /\ store' \in SUBSET Version /\ log' \in SUBSET Version
  <2>1. store' \in SUBSET Version /\ log' \in SUBSET Version
    BY VersionSets, Ts \subseteq Nat DEF TypeOK, Version
  <2> QED
    BY <2>1, VersionSets
<1>4. /\ OneVersionPerTs(store) /\ OneVersionPerTs(log)
      /\ OneVersionPerTs(store') /\ OneVersionPerTs(log')
  BY DEF CommitOrder, OneVersionPerTs
<1>5. store' = store \cup new /\ log' = log \cup new
  BY DEF Install
<1>6. CASE \E v \in new : v.key = k
  <2>1. PICK v \in new : v.key = k
    BY <1>6
  <2>2. \A w \in log' : w.ts <= ts
    BY InstallOrder
  <2>3. store' \subseteq log' /\ v.ts = ts /\ v.ts <= ts
    BY <1>1, <1>2 DEF CommitOrder
  <2>4. IsNewest(v, store', k, ts) /\ IsNewest(v, log', k, ts)
    BY <1>5, <2>1, <2>2, <2>3 DEF IsNewest
  <2> QED
    BY <1>2, <1>3, <1>4, <2>4, ReadNewest
<1>7. CASE \A v \in new : v.key # k
  <2>1. ReadAt(store', k, ts) = ReadAt(store, k, ts)
    BY <1>2, <1>3, <1>4, <1>5, <1>7, ReadSame
  <2>2. ReadAt(log', k, ts) = ReadAt(log, k, ts)
    BY <1>2, <1>3, <1>4, <1>5, <1>7, ReadSame
  <2> QED
    BY <2>1, <2>2 DEF Agree
<1> QED
  BY <1>6, <1>7

(***************************************************************************)
(* Swapping in the result of a merge leaves every reader at or above its   *)
(* watermark alone, the versions newer than the inputs included.           *)
(***************************************************************************)
LEMMA SwapAbove ==
    ASSUME TypeOK, CommitOrder, CompactSwap, NEW t \in Ts, gc.wm <= t, NEW k
    PROVE  ReadAt(store', k, t) = ReadAt(store, k, t)
<1> DEFINE older == {v \in store : v.ts <= gc.upTo}
           newer == store \ older
<1>1. store' = newer \cup Kept(older, gc.wm) /\ store = newer \cup older
  BY DEF CompactSwap, Compacted
<1>2. newer \in SUBSET Version /\ older \in SUBSET Version
  BY VersionSets
<1>3. OneVersionPerTs(newer \cup older)
  BY <1>1 DEF CommitOrder, OneVersionPerTs
<1>4. gc.wm \in Nat /\ t \in Nat /\ gc.upTo \in Nat
  BY VersionSets DEF TypeOK
<1>5. TierAbove(newer, older)
  BY <1>2, <1>4 DEF TierAbove, Version
<1> HIDE DEF older, newer
<1>6. ReadAt(newer \cup Kept(older, gc.wm), k, t) = ReadAt(newer \cup older, k, t)
  BY <1>2, <1>3, <1>4, <1>5, GcBelowPreservesReads
<1> QED
  BY <1>1, <1>6

\* A timestamp taken but not applied changes nothing for its readers.
LEMMA StampAgrees ==
    ASSUME TypeOK, CommitOrder, Agree(ts)
    PROVE  Agree(ts + 1)
<1>1. ts \in Nat
  BY VersionSets DEF TypeOK
<1>2. OneVersionPerTs(store) /\ OneVersionPerTs(log)
  BY DEF CommitOrder, OneVersionPerTs
<1>3. /\ \A v \in store : v.ts <= ts /\ v.ts <= ts + 1
      /\ \A v \in log : v.ts <= ts /\ v.ts <= ts + 1
  BY <1>1, VersionSets DEF CommitOrder
<1>4. \A k : /\ ReadAt(store, k, ts + 1) = ReadAt(store, k, ts)
             /\ ReadAt(log, k, ts + 1) = ReadAt(log, k, ts)
  BY <1>1, <1>2, <1>3, VersionSets, ReadSame
<1> QED
  BY <1>4 DEF Agree

\* Only nextTs puts a commit in flight.
LEMMA InFlightStep ==
    ASSUME TypeOK, [Next]_vars, InFlight'
    PROVE  InFlight \/ \E c \in Client : Stamp(c)
<1>1. PICK d \in Client : call'[d].pc = "apply"
  BY DEF InFlight, At
<1>2. CASE call'[d] = call[d]
  BY <1>1, <1>2 DEF InFlight, At
<1> QED
  BY <1>1, <1>2, EnteredBy

\* Snapshots is inductive, given the invariants of MvccProofs.
LEMMA SnapshotsStep ==
    TypeOK /\ CommitOrder /\ Lifecycle /\ NotAhead /\ WatermarkProtects /\ Snapshots
      /\ [Next]_vars => Snapshots'
<1> SUFFICES ASSUME TypeOK, CommitOrder, Lifecycle, NotAhead, WatermarkProtects, Snapshots,
                    [Next]_vars
             PROVE  Snapshots'
  OBVIOUS
<1>0. TypeOK' /\ CommitOrder' /\ Lifecycle'
  BY TypeStep, OrderStep, LifecycleStep
<1>n. /\ \A n \in Ts : n \in Nat
      /\ ts \in Ts /\ gc.wm \in Ts
      /\ \A t \in Txn : txn[t].readTs \in Ts
      /\ \A t \in Txn : txn[t].readTs <= ts
  BY BoundAssumption DEF Ts, TypeOK, Transaction, NotAhead
<1>s. /\ Agree(ts)
      /\ \A t \in Txn : Clean(t) =>
           /\ gc.pc = "merge" => gc.wm <= txn[t].readTs
           /\ InFlight => txn[t].readTs < ts
           /\ Agree(txn[t].readTs)
  BY DEF Snapshots
\* The clean transactions and their timestamps, in all steps but three.
<1>r. ASSUME \A c \in Client : ~ (BeginRegister(c) \/ RollbackRelease(c) \/ Release(c))
      PROVE  \A t \in Txn : Clean(t)' => Clean(t) /\ txn'[t].readTs = txn[t].readTs
  BY <1>r, RegisteredStay DEF Clean
\* Begin takes the latest timestamp, which agrees, or the transaction is not clean.
<1>1. ASSUME NEW c \in Client, BeginRegister(c)
      PROVE  Snapshots'
  <2>1. UNCHANGED <<ts, store, log, gc>>
    BY <1>1 DEF BeginRegister
  <2>2. InFlight' => InFlight
    <3>1. \A d \in Client : ~ Stamp(d)
      BY <1>n, <2>1 DEF Stamp
    <3> QED
      BY <3>1, InFlightStep
  <2>3. PICK b \in Txn :
          /\ txn'[b].readTs = call[c].seen
          /\ hist'[b].clean = (call[c].seen = ts /\ ~ InFlight)
          /\ \A u \in Txn : u # b => /\ Registered(u)' <=> Registered(u)
                                     /\ txn'[u] = txn[u] /\ hist'[u] = hist[u]
    BY <1>1, BeginRegisters
  <2>4. hist'[b].clean => txn'[b].readTs = ts /\ ~ InFlight
    BY <2>3
  <2>5. gc.wm <= ts
    BY DEF NotAhead
  <2>6. ASSUME NEW t \in Txn, Clean(t)'
        PROVE  /\ gc'.pc = "merge" => gc'.wm <= txn'[t].readTs
               /\ InFlight' => txn'[t].readTs < ts'
               /\ Agree(txn[t].readTs)'
    <3>1. CASE t = b
      BY <1>s, <2>1, <2>2, <2>4, <2>5, <2>6, <3>1 DEF Clean, Agree
    <3>2. CASE t # b
      <4>1. Clean(t) /\ txn'[t] = txn[t]
        BY <2>3, <2>6, <3>2 DEF Clean
      <4> QED
        BY <1>s, <2>1, <2>2, <4>1 DEF Agree
    <3> QED
      BY <3>1, <3>2
  <2> QED
    BY <1>s, <2>1, <2>6 DEF Snapshots, Agree
<1>2. ASSUME NEW c \in Client, RollbackRelease(c) \/ Release(c)
      PROVE  Snapshots'
  <2>1. UNCHANGED <<ts, store, log, gc>>
    BY <1>2 DEF RollbackRelease, Release
  <2>2. InFlight' => InFlight
    <3>1. \A d \in Client : ~ Stamp(d)
      BY <1>n, <2>1 DEF Stamp
    <3> QED
      BY <3>1, InFlightStep
  <2>3. PICK b \in Txn :
          /\ ~ Registered(b)'
          /\ \A u \in Txn : u # b => /\ Registered(u)' <=> Registered(u)
                                     /\ txn'[u] = txn[u] /\ hist'[u] = hist[u]
    BY <1>2, ReleaseUnregisters
  <2>4. \A t \in Txn : Clean(t)' => Clean(t) /\ txn'[t] = txn[t]
    BY <2>3 DEF Clean
  <2> QED
    BY <1>s, <2>1, <2>2, <2>4 DEF Snapshots, Agree
\* nextTs: every snapshot is at or below the old timestamp.
<1>3. ASSUME NEW c \in Client, Stamp(c)
      PROVE  Snapshots'
  <2>1. ts' = ts + 1 /\ UNCHANGED <<store, log, gc, txn, hist>>
    BY <1>3 DEF Stamp
  <2>2. \A t \in Txn : Clean(t)' => Clean(t) /\ txn'[t].readTs = txn[t].readTs
    <3>1. \A d \in Client : ~ (BeginRegister(d) \/ RollbackRelease(d) \/ Release(d))
      BY <1>n, <2>1 DEF BeginRegister, RollbackRelease, Release
    <3> QED
      BY <1>r, <3>1
  <2>3. Agree(ts)'
    BY <1>s, <2>1, StampAgrees DEF Agree
  <2>4. \A t \in Txn : txn[t].readTs < ts'
    BY <1>n, <2>1
  <2> QED
    BY <1>s, <2>1, <2>2, <2>3, <2>4 DEF Snapshots, Agree
\* A batch lies above the clean snapshots and is what the latest one adds.
<1>4. ASSUME NEW c \in Client, Apply(c) \/ FreezeFails(c)
      PROVE  Snapshots'
  <2>1. At(c, "apply") /\ Install(c) /\ UNCHANGED <<ts, gc>>
    BY <1>4 DEF Apply, FreezeFails, FailCall, controller
  <2>2. UNCHANGED <<txn, hist>>
    BY <1>4, TxnStays
  <2>3. InFlight
    BY <2>1 DEF InFlight
  <2>4. \A t \in Txn : Clean(t)' => Clean(t)
    <3>1. call[c].pc = "apply" /\ call'[c].pc # "apply"
      BY <1>4, <2>1, ProceedMoves DEF Moves, At, Idle
    <3>2. ASSUME NEW d \in Client, BeginRegister(d) \/ RollbackRelease(d) \/ Release(d)
          PROVE  FALSE
      <4>1. d = c
        BY <3>1, <3>2, OthersStay DEF Proceed
      <4> QED
        BY <3>1, <3>2, <4>1, ProceedMoves DEF Moves, At
    <3> QED
      BY <1>r, <3>2
  <2>5. Agree(ts)'
    BY <1>0, <1>s, <2>1, InstallLatest DEF Agree
  <2>6. ASSUME NEW t \in Txn, Clean(t)
        PROVE  \A k \in Key : ReadAt(store', k, txn[t].readTs) = ReadAt(log', k, txn[t].readTs)
    <3>1. txn[t].readTs \in Ts /\ txn[t].readTs < ts /\ Agree(txn[t].readTs)
      BY <1>n, <1>s, <2>3, <2>6
    <3> QED
      BY <1>0, <2>1, <3>1, InstallAbove DEF Agree
  <2> QED
    BY <1>s, <2>1, <2>2, <2>3, <2>4, <2>5, <2>6 DEF Snapshots, Agree
\* The merge works below the watermark it was given.
<1>5. CASE CompactSwap
  <2>1. UNCHANGED <<ts, log, txn, call, hist>> /\ gc'.pc = "idle" /\ gc.pc = "merge"
    BY <1>5 DEF CompactSwap, controller
  <2>2. (\A t \in Txn : Clean(t)' => Clean(t)) /\ (InFlight' => InFlight)
    BY <2>1 DEF Clean, Registered, Open, InFlight, At
  <2>3. \A u \in Ts : gc.wm <= u => \A k : ReadAt(store', k, u) = ReadAt(store, k, u)
    BY <1>5, SwapAbove
  <2>4. gc.wm <= ts
    BY DEF NotAhead
  <2>5. Agree(ts)'
    BY <1>n, <1>s, <2>1, <2>3, <2>4 DEF Agree
  <2>6. ASSUME NEW t \in Txn, Clean(t)
        PROVE  \A k \in Key : ReadAt(store', k, txn[t].readTs) = ReadAt(log, k, txn[t].readTs)
    BY <1>n, <1>s, <2>1, <2>3, <2>6 DEF Agree
  <2> QED
    BY <1>s, <2>1, <2>2, <2>5, <2>6 DEF Snapshots, Agree
\* The watermark a merge is given is at or below every registered reader.
<1>6. ASSUME NEW u, CompactStart(u)
      PROVE  Snapshots'
  <2>1. UNCHANGED <<ts, log, store, txn, call, hist>> /\ gc'.wm = Watermark
    BY <1>6 DEF CompactStart, controller
  <2>2. (\A t \in Txn : Clean(t)' => Clean(t)) /\ (InFlight' => InFlight)
    BY <2>1 DEF Clean, Registered, Open, InFlight, At
  <2>3. \A t \in Txn : Clean(t) => Watermark <= txn[t].readTs
    BY DEF WatermarkProtects, Clean
  <2> QED
    BY <1>s, <2>1, <2>2, <2>3 DEF Snapshots, Agree
\* Everything else.
<1>7. CASE /\ \A c \in Client : ~ (BeginRegister(c) \/ RollbackRelease(c) \/ Release(c))
           /\ \A c \in Client : ~ (Stamp(c) \/ Apply(c) \/ FreezeFails(c))
           /\ ~ CompactSwap /\ \A v \in store : ~ CompactStart(v.ts)
  <2>1. UNCHANGED <<ts, log, store, gc>>
    BY <1>7, Frames
  <2>2. \A t \in Txn : Clean(t)' => Clean(t) /\ txn'[t].readTs = txn[t].readTs
    BY <1>r, <1>7
  <2>3. InFlight' => InFlight
    BY <1>7, InFlightStep
  <2> QED
    BY <1>s, <2>1, <2>2, <2>3 DEF Snapshots, Agree
<1> QED
  BY <1>1, <1>2, <1>3, <1>4, <1>5, <1>6, <1>7

\* Snapshots holds in every reachable state.
LEMMA MvccSnapshots == Spec => []Snapshots
  BY SnapshotsInit, SnapshotsStep, MvccTypeOK, MvccCommitOrder, MvccLifecycle,
     MvccNotAhead, MvccWatermarkProtects, PTL DEF Spec

\* A one-shot read looks up a key.
LookupKeys == \A c \in Client : At(c, "get") => call[c].key \in Key

\* The keys under lookup are keys, after every step.
LEMMA LookupKeysStep == TypeOK /\ LookupKeys /\ [Next]_vars => LookupKeys'
<1> SUFFICES ASSUME TypeOK, LookupKeys, [Next]_vars, NEW d \in Client, call'[d].pc = "get"
             PROVE  call'[d].key \in Key
  BY DEF LookupKeys, At
<1>1. CASE call'[d] = call[d]
  BY <1>1 DEF LookupKeys, At
<1>2. CASE call'[d] # call[d]
  BY <1>2, EnteredBy, InvokeMoves, InputAssumption
<1> QED
  BY <1>1, <1>2

\* The keys under lookup are keys.
LEMMA MvccLookupKeys == Spec => []LookupKeys
<1>1. Init => LookupKeys
  BY DEF Init, LookupKeys, At, Idle
<1> QED
  BY <1>1, LookupKeysStep, MvccTypeOK, PTL DEF Spec

(***************************************************************************)
(* Garbage collection never drops what a clean open snapshot reads, nor    *)
(* what a one-shot read at the latest applied timestamp reads.             *)
(***************************************************************************)
THEOREM MvccSnapshotRetained == Spec => []SnapshotRetained
<1>1. TypeOK /\ Snapshots /\ LookupKeys => SnapshotRetained
  <2> SUFFICES ASSUME TypeOK, Snapshots, LookupKeys
               PROVE  SnapshotRetained
    OBVIOUS
  <2>1. ASSUME NEW t \in Txn, CleanOpen(t), NEW k \in Key
        PROVE  ReadAt(store, k, txn[t].readTs) = ReadAt(log, k, txn[t].readTs)
    BY <2>1 DEF CleanOpen, Clean, Registered, Snapshots, Agree
  <2>2. ASSUME NEW c \in Client, At(c, "get")
        PROVE  ReadAt(store, call[c].key, ts) = ReadAt(log, call[c].key, ts)
    BY <2>2 DEF LookupKeys, Snapshots, Agree
  <2> QED
    BY <2>1, <2>2 DEF SnapshotRetained
<1> QED
  BY <1>1, MvccTypeOK, MvccSnapshots, MvccLookupKeys, PTL

-----------------------------------------------------------------------------
(***************************************************************************)
(* No step changes what a clean open transaction reads from its snapshot.  *)
(***************************************************************************)
StableFor(t) ==
    \A k \in Key : ReadAt(store', k, txn[t].readTs) = ReadAt(store, k, txn[t].readTs)

\* No step changes what a clean open transaction reads.
LEMMA StableStep ==
    TypeOK /\ CommitOrder /\ Snapshots /\ [Next]_vars =>
      [\A t \in Txn : CleanOpen(t) => StableFor(t)]_vars
<1> SUFFICES ASSUME TypeOK, CommitOrder, Snapshots, [Next]_vars, NEW t \in Txn, CleanOpen(t)
             PROVE  StableFor(t)
  OBVIOUS
<1>0. TypeOK' /\ CommitOrder'
  BY TypeStep, OrderStep
<1>1. /\ txn[t].readTs \in Ts
      /\ gc.pc = "merge" => gc.wm <= txn[t].readTs
      /\ InFlight => txn[t].readTs < ts
  BY DEF TypeOK, Transaction, Snapshots, CleanOpen, Clean, Registered
<1>2. CASE store' = store
  BY <1>2 DEF StableFor
<1>3. CASE CompactSwap
  BY <1>1, <1>3, SwapAbove DEF CompactSwap, StableFor
<1>4. ASSUME NEW c \in Client, Apply(c) \/ FreezeFails(c)
      PROVE  StableFor(t)
  <2>1. At(c, "apply") /\ Install(c) /\ txn[t].readTs < ts
    BY <1>1, <1>4 DEF Apply, FreezeFails, InFlight
  <2> QED
    BY <1>0, <1>1, <2>1, InstallAbove DEF StableFor
<1> QED
  BY <1>2, <1>3, <1>4, Frames

\* What a clean transaction reads at its timestamp never changes, whatever is
\* committed, collected or refused meanwhile (storage.go:338-352,
\* compact.go:16-21).
THEOREM MvccSnapshotStable == Spec => SnapshotStable
<1>1. TypeOK /\ CommitOrder /\ Snapshots /\ [Next]_vars =>
        [\A t \in Txn : CleanOpen(t) =>
           \A k \in Key :
             ReadAt(store', k, txn[t].readTs) = ReadAt(store, k, txn[t].readTs)]_vars
  BY StableStep DEF StableFor
<1> QED
  BY <1>1, MvccTypeOK, MvccCommitOrder, MvccSnapshots, PTL DEF Spec, SnapshotStable

------------------------------------------------------------------------------
(***************************************************************************)
(* What Commit validates against.  A conflict comes from a batch that was  *)
(* applied, whatever writes may fail.  As long as a failed write leaves    *)
(* nothing behind (no failing freeze), the history misses nothing a clean  *)
(* transaction needs, and commits are serialized.                          *)
(***************************************************************************)
\* The history only grows.
LEMMA LogGrows ==
    ASSUME [Next]_vars
    PROVE  log \subseteq log'
  BY Frames DEF Apply, FreezeFails, Install

(***************************************************************************)
(* Every hash in the history stands for a version that was applied: a      *)
(* write set is recorded after its batch (txn.go:150-158).                 *)
(***************************************************************************)
Causes ==
    /\ \A e \in committed : \A h \in e.writeSet : \E v \in log : v.ts = e.ts /\ Hash[v.key] = h
    /\ \A c \in Client : At(c, "record") => Versioned(call[c].batch, call[c].ts) \subseteq log

\* Causes is inductive, given TypeOK.
LEMMA CausesStep == TypeOK /\ Causes /\ [Next]_vars => Causes'
<1> SUFFICES ASSUME TypeOK, Causes, [Next]_vars
             PROVE  Causes'
  OBVIOUS
<1>1. ASSUME NEW e \in committed', NEW h \in e.writeSet
      PROVE  \E v \in log' : v.ts = e.ts /\ Hash[v.key] = h
  <2>1. CASE e \in committed
    BY <2>1, LogGrows DEF Causes
  <2>2. CASE e \notin committed
    <3>1. PICK c \in Client : Record(c)
      BY <2>2, Frames DEF PruneFilter, RetainedAbove
    <3>2. /\ At(c, "record") /\ e.ts = call[c].ts
          /\ e.writeSet = HashesOf(WrittenBy(call[c].batch))
      BY <2>2, <3>1 DEF Record
    <3>3. PICK k \in WrittenBy(call[c].batch) : Hash[k] = h
      BY <3>2 DEF HashesOf
    <3>4. [key |-> k, ts |-> call[c].ts, val |-> call[c].batch[k]] \in log
      BY <3>2 DEF Causes, Versioned
    <3> QED
      BY <3>2, <3>3, <3>4, LogGrows
  <2> QED
    BY <2>1, <2>2
<1>2. ASSUME NEW c \in Client, At(c, "record")'
      PROVE  Versioned(call'[c].batch, call'[c].ts) \subseteq log'
  <2>1. CASE call'[c] = call[c]
    BY <1>2, <2>1, LogGrows DEF Causes, At
  <2>2. CASE call'[c] # call[c]
    <3>1. Apply(c)
      BY <1>2, <2>2, EnteredBy DEF At
    <3> QED
      BY <3>1, ProceedMoves DEF Keeps, Apply, Install
  <2> QED
    BY <2>1, <2>2
<1>3. /\ \A e \in committed' : \A h \in e.writeSet :
           \E v \in log' : v.ts = e.ts /\ Hash[v.key] = h
      /\ \A c \in Client : At(c, "record")' =>
           Versioned(call'[c].batch, call'[c].ts) \subseteq log'
  BY <1>1, <1>2
<1> QED
  BY <1>3 DEF Causes, Versioned, WrittenBy, At

\* Causes holds in every reachable state.
LEMMA MvccCauses == Spec => []Causes
<1>1. Init => Causes
  BY DEF Init, Causes, At, Idle
<1> QED
  BY <1>1, CausesStep, MvccTypeOK, PTL DEF Spec

(***************************************************************************)
(* A serialization error has a cause among the applied batches, failing    *)
(* writes or not.                                                          *)
(***************************************************************************)
THEOREM MvccAbortHasCause == Spec => AbortHasCause
<1>1. Causes /\ [Next]_vars =>
        [\A c \in Client : AbortOnConflict(c) =>
           \E v \in log : /\ v.ts > txn[call[c].txn].readTs
                          /\ Hash[v.key] \in txn[call[c].txn].access]_vars
  <2> SUFFICES ASSUME Causes, NEW c \in Client, AbortOnConflict(c)
               PROVE  \E v \in log : /\ v.ts > txn[call[c].txn].readTs
                                     /\ Hash[v.key] \in txn[call[c].txn].access
    OBVIOUS
  <2>1. PICK e \in committed : /\ e.ts > txn[call[c].txn].readTs
                               /\ e.writeSet \cap txn[call[c].txn].access # {}
    BY DEF AbortOnConflict, Conflicting, HasConflict
  <2> QED
    BY <2>1 DEF Causes
<1> QED
  BY <1>1, MvccCauses, PTL DEF Spec, AbortHasCause

-----------------------------------------------------------------------------
(***************************************************************************)
(* What the history holds.                                                 *)
(***************************************************************************)
InHistory(v) == \E e \in committed : e.ts = v.ts /\ Hash[v.key] \in e.writeSet
Recording(v) == \E c \in Client : At(c, "record") /\ call[c].ts = v.ts

(***************************************************************************)
(* Every version above a clean snapshot is in the history or on its way    *)
(* into it: a batch goes from applied to recorded under commitMu, and a    *)
(* pruning under way filters at or below every clean snapshot.             *)
(***************************************************************************)
Recorded ==
    /\ \A c \in Client : At(c, "record") =>
         \A v \in log : v.ts = call[c].ts => v.key \in WrittenBy(call[c].batch)
    /\ \A c \in Client, t \in Txn : At(c, "filter") /\ Clean(t) => call[c].seen <= txn[t].readTs
    /\ \A t \in Txn, v \in log : Clean(t) /\ v.ts > txn[t].readTs => InHistory(v) \/ Recording(v)

\* Recorded holds at first.
LEMMA RecordedInit == Init => Recorded
  BY DEF Init, Recorded, At, Idle

\* A transaction that is clean after a step was so before, or begins at the
\* latest timestamp.
LEMMA CleanStep ==
    ASSUME TypeOK, Lifecycle, [Next]_vars, NEW t \in Txn, Clean(t)'
    PROVE  \/ Clean(t) /\ txn'[t].readTs = txn[t].readTs
           \/ txn'[t].readTs = ts /\ \E c \in Client : BeginRegister(c) /\ t = call[c].txn
<1>1. ASSUME NEW c \in Client, BeginRegister(c)
      PROVE  \/ Clean(t) /\ txn'[t].readTs = txn[t].readTs
             \/ txn'[t].readTs = ts /\ \E d \in Client : BeginRegister(d) /\ t = call[d].txn
  <2>1. PICK b \in Txn :
          /\ b = call[c].txn /\ txn'[b].readTs = call[c].seen
          /\ hist'[b].clean = (call[c].seen = ts /\ ~ InFlight)
          /\ \A u \in Txn : u # b => /\ Registered(u)' <=> Registered(u)
                                     /\ txn'[u] = txn[u] /\ hist'[u] = hist[u]
    BY <1>1, BeginRegisters
  <2>2. hist'[b].clean => txn'[b].readTs = ts
    BY <2>1
  <2> QED
    BY <1>1, <2>1, <2>2 DEF Clean
<1>2. ASSUME NEW c \in Client, RollbackRelease(c) \/ Release(c)
      PROVE  Clean(t) /\ txn'[t].readTs = txn[t].readTs
  BY <1>2, ReleaseUnregisters DEF Clean
<1>3. CASE \A c \in Client : ~ (BeginRegister(c) \/ RollbackRelease(c) \/ Release(c))
  BY <1>3, RegisteredStay DEF Clean
<1> QED
  BY <1>1, <1>2, <1>3

(***************************************************************************)
(* A failing freeze is the one step that applies a batch and does not go   *)
(* on to record it.                                                        *)
(***************************************************************************)
LEMMA RecordedStep ==
    ASSUME "freeze" \notin Faults
    PROVE  TypeOK /\ CommitOrder /\ Lifecycle /\ NotAhead /\ WatermarkProtects /\ Recorded
             /\ [Next]_vars => Recorded'
<1> SUFFICES ASSUME TypeOK, CommitOrder, Lifecycle, NotAhead, WatermarkProtects, Recorded,
                    [Next]_vars
             PROVE  Recorded'
  OBVIOUS
<1>n. /\ ts \in Nat
      /\ \A v \in log : v.ts \in Nat /\ v.ts <= ts
      /\ \A t \in Txn : txn[t].readTs \in Nat
      /\ \A c \in Client : call[c].seen \in Nat /\ call[c].seen <= ts
  <2>1. /\ ts \in Ts
        /\ \A t \in Txn : txn[t].readTs \in Ts
        /\ \A c \in Client : call[c].seen \in Ts
    BY DEF TypeOK, Transaction, Call
  <2> QED
    BY <2>1, VersionSets DEF CommitOrder, NotAhead
<1>x. \A c, d \in Client : At(c, "apply") /\ At(d, "record") => FALSE
  BY Exclusive DEF Committing, At
\* What Apply adds.
<1>a. ASSUME NEW c \in Client, Apply(c)
      PROVE  /\ At(c, "apply") /\ At(c, "record")' /\ call'[c].ts = call[c].ts
             /\ call'[c].batch = call[c].batch
             /\ \A v \in log : v.ts < call[c].ts
             /\ \A v \in log' : \/ v \in log
                                \/ v.ts = call[c].ts /\ v.key \in WrittenBy(call[c].batch)
  <2>1. At(c, "apply") /\ Install(c) /\ call'[c].pc = "record" /\ Keeps(c)
    BY <1>a, ProceedMoves DEF Apply, Moves
  <2>2. \A v \in log : v.ts < call[c].ts
    BY <2>1 DEF CommitOrder
  <2>3. \A v \in log' : \/ v \in log
                        \/ v.ts = call[c].ts /\ v.key \in WrittenBy(call[c].batch)
    BY <2>1 DEF Install, Versioned
  <2> QED
    BY <2>1, <2>2, <2>3 DEF Keeps, At
<1>b. log' = log \/ \E c \in Client : Apply(c)
  BY Frames DEF FreezeFails
\* A call that records, or is about to, knows the keys of its batch.
<1>1. ASSUME NEW d \in Client, call'[d].pc = "record", NEW v \in log', v.ts = call'[d].ts
      PROVE  v.key \in WrittenBy(call'[d].batch)
  <2>1. CASE call'[d] = call[d]
    <3>1. At(d, "record")
      BY <1>1, <2>1 DEF At
    <3>2. log' = log
      BY <1>a, <1>b, <1>x, <3>1
    <3> QED
      BY <1>1, <2>1, <3>1, <3>2 DEF Recorded
  <2>2. CASE call'[d] # call[d]
    <3>1. Apply(d)
      BY <1>1, <2>2, EnteredBy
    <3>2. v \notin log
      BY <1>1, <1>a, <1>n, <3>1
    <3>3. v.key \in WrittenBy(call[d].batch) /\ call'[d].batch = call[d].batch
      BY <1>a, <3>1, <3>2
    <3> QED
      BY <3>3
  <2> QED
    BY <2>1, <2>2
\* A watermark read protects the clean snapshots there are, and later ones
\* begin at or above it.
<1>2. ASSUME NEW d \in Client, call'[d].pc = "filter", NEW t \in Txn, Clean(t)'
      PROVE  call'[d].seen <= txn'[t].readTs
  <2>1. CASE call'[d] = call[d]
    BY <1>2, <1>n, <2>1, CleanStep DEF Recorded, At
  <2>2. CASE call'[d] # call[d]
    <3>1. PruneWatermark(d)
      BY <1>2, <2>2, EnteredBy
    <3>2. call'[d].seen = Watermark /\ UNCHANGED <<txn, hist>>
      BY <3>1, ProceedMoves, TxnStays
    <3>3. \A c \in Client : ~ BeginRegister(c)
      BY <1>2, <2>2, OthersStay, ProceedMoves DEF Proceed, Idle
    <3>4. Clean(t) /\ txn'[t].readTs = txn[t].readTs
      BY <1>2, <3>3, CleanStep
    <3> QED
      BY <3>2, <3>4 DEF WatermarkProtects, Clean
  <2> QED
    BY <2>1, <2>2
\* A version above a clean snapshot stays on its way into the history.
<1>3. ASSUME NEW t \in Txn, NEW v \in log', Clean(t)', v.ts > txn'[t].readTs
      PROVE  \/ \E e \in committed' : e.ts = v.ts /\ Hash[v.key] \in e.writeSet
             \/ \E d \in Client : call'[d].pc = "record" /\ call'[d].ts = v.ts
  <2>1. CASE v \notin log
    <3>1. PICK c \in Client : Apply(c)
      BY <1>b, <2>1
    <3>2. call'[c].pc = "record" /\ call'[c].ts = v.ts
      BY <1>a, <2>1, <3>1 DEF At
    <3> QED
      BY <3>2
  <2>2. CASE v \in log
    <3>1. Clean(t) /\ txn'[t].readTs = txn[t].readTs
      BY <1>3, <1>n, <2>2, CleanStep
    <3>2. InHistory(v) \/ Recording(v)
      BY <1>3, <2>2, <3>1 DEF Recorded
    <3>3. CASE InHistory(v)
      <4>1. PICK e \in committed : e.ts = v.ts /\ Hash[v.key] \in e.writeSet
        BY <3>3 DEF InHistory
      <4>2. ASSUME e \notin committed'
            PROVE  FALSE
        <5>1. PICK c \in Client : PruneFilter(c)
          BY <4>2, Frames DEF Record
        <5>2. ~ (e.ts > call[c].seen)
          BY <4>2, <5>1 DEF PruneFilter, RetainedAbove
        <5>3. call[c].seen <= txn[t].readTs
          BY <3>1, <5>1 DEF PruneFilter, Recorded
        <5> QED
          BY <1>3, <1>n, <2>2, <3>1, <4>1, <5>2, <5>3
      <4> QED
        BY <4>1, <4>2
    <3>4. CASE Recording(v)
      <4>1. PICK d \in Client : At(d, "record") /\ call[d].ts = v.ts
        BY <3>4 DEF Recording
      <4>2. CASE call'[d] = call[d]
        BY <4>1, <4>2 DEF At
      <4>3. CASE call'[d] # call[d]
        <5>1. Record(d)
          BY <4>1, <4>3, EnteredBy
        <5>2. v.key \in WrittenBy(call[d].batch)
          BY <2>2, <4>1 DEF Recorded
        <5>3. [ts |-> call[d].ts, writeSet |-> HashesOf(WrittenBy(call[d].batch))] \in committed'
          BY <5>1 DEF Record
        <5> QED
          BY <4>1, <5>2, <5>3 DEF HashesOf
      <4> QED
        BY <4>2, <4>3
    <3> QED
      BY <3>2, <3>3, <3>4
  <2> QED
    BY <2>1, <2>2
<1> QED
  BY <1>1, <1>2, <1>3 DEF Recorded, InHistory, Recording, At, WrittenBy, Clean, Registered, Open

\* Recorded holds in every reachable state, if no freeze fails after its batch
\* was applied.
LEMMA MvccRecorded == "freeze" \notin Faults => (Spec => []Recorded)
<1> SUFFICES ASSUME "freeze" \notin Faults
             PROVE  Spec => []Recorded
  OBVIOUS
<1>1. TypeOK /\ CommitOrder /\ Lifecycle /\ NotAhead /\ WatermarkProtects /\ Recorded
        /\ [Next]_vars => Recorded'
  BY RecordedStep
<1> QED
  BY <1>1, RecordedInit, MvccTypeOK, MvccCommitOrder, MvccLifecycle, MvccNotAhead,
     MvccWatermarkProtects, PTL DEF Spec

(***************************************************************************)
(* Whatever was applied after a clean open snapshot is in the history, or  *)
(* about to be recorded.  A failing freeze does break this: its batch is   *)
(* applied and reported as failed (storage.go:224-229).                    *)
(***************************************************************************)
THEOREM MvccHistoryComplete == "freeze" \notin Faults => (Spec => []HistoryComplete)
<1> SUFFICES ASSUME "freeze" \notin Faults
             PROVE  Spec => []HistoryComplete
  OBVIOUS
<1>1. Recorded => HistoryComplete
  BY DEF Recorded, HistoryComplete, InHistory, Recording, CleanOpen, Clean, Registered
<1>2. Spec => []Recorded
  BY MvccRecorded
<1> QED
  BY <1>1, <1>2, PTL
-----------------------------------------------------------------------------
(***************************************************************************)
(* Which steps touch a transaction, and that none but those of its owner   *)
(* touch one that is done.                                                 *)
(***************************************************************************)
LEMMA TxnChangedBy ==
    ASSUME TypeOK, [Next]_vars, NEW t \in Txn, txn'[t] # txn[t] \/ hist'[t] # hist[t]
    PROVE  \E c \in Client :
             \/ \E k \in Key : Get(c, t, k)
             \/ \E k \in Key, v \in Stored : Put(c, t, k, v)
             \/ \E K \in Ranges : Scan(c, t, K)
             \/ Rollback(c, t)
             \/ /\ LockForCommit(c) \/ BeginRegister(c) \/ RollbackRelease(c) \/ Release(c)
                /\ t = call[c].txn
<1>1. PICK c \in Client : Invoke(c) \/ Acquire(c) \/ Proceed(c)
  BY DEF Next, Compaction, CompactStart, CompactSwap, vars
<1>2. CASE Invoke(c)
  <2>1. ASSUME NEW u \in Txn,
               \/ \E k \in Key : Get(c, u, k)
               \/ \E k \in Key, v \in Stored : Put(c, u, k, v)
               \/ \E K \in Ranges : Scan(c, u, K)
               \/ Rollback(c, u)
        PROVE  t = u
    <3>1. OnlyTxn(u)
      BY <2>1, TxnCalls
    <3> QED
      BY <3>1 DEF OnlyTxn
  <2>2. ~ (\/ \E u \in Txn : BeginLatest(c, u) \/ CommitCall(c, u)
           \/ \E b \in Batches : WriteCall(c, b)
           \/ \E k \in Lookups : OneShotLatest(c, k))
    BY TxnStays
  <2> QED
    BY <1>2, <2>1, <2>2 DEF Invoke
<1>3. CASE Acquire(c)
  BY <1>3, AcquireMoves, TxnProceeds, TxnStays DEF Acquire, OnlyTxn
<1>4. CASE Proceed(c)
  BY <1>4, TxnProceeds, TxnStays DEF Proceed, OnlyTxn
<1> QED
  BY <1>1, <1>2, <1>3, <1>4

\* While its call does not move, a transaction in charge of a call does not
\* change.
LEMMA OwnedStays ==
    ASSUME TypeOK, Lifecycle, [Next]_vars, NEW c \in Client, NEW t \in Txn, Owns(c, t),
           call'[c] = call[c]
    PROVE  txn'[t] = txn[t] /\ hist'[t] = hist[t]
<1> SUFFICES ASSUME txn'[t] # txn[t] \/ hist'[t] # hist[t]
             PROVE  FALSE
  OBVIOUS
<1>1. txn[t].status = "done" /\ InCharge(c)
  BY NoneAssumption DEF Lifecycle, CallOf, InCharge, Owns
<1>2. PICK d \in Client : /\ BeginRegister(d) \/ RollbackRelease(d) \/ Release(d)
                          /\ t = call[d].txn
  <2>1. PICK d \in Client :
          \/ \E k \in Key : Get(d, t, k)
          \/ \E k \in Key, v \in Stored : Put(d, t, k, v)
          \/ \E K \in Ranges : Scan(d, t, K)
          \/ Rollback(d, t)
          \/ /\ LockForCommit(d) \/ BeginRegister(d) \/ RollbackRelease(d) \/ Release(d)
             /\ t = call[d].txn
    BY TxnChangedBy
  <2>2. CASE \/ \E k \in Key : Get(d, t, k)
             \/ \E k \in Key, v \in Stored : Put(d, t, k, v)
             \/ \E K \in Ranges : Scan(d, t, K)
             \/ Rollback(d, t)
    BY <1>1, <2>2, TxnCalls
  <2>3. ~ (LockForCommit(d) /\ t = call[d].txn)
    BY <1>1, TxnProceeds
  <2> QED
    BY <2>1, <2>2, <2>3
<1>3. InCharge(d) /\ call'[d] # call[d]
  BY <1>2, NoneAssumption, ProceedMoves DEF InCharge, Owning, Moves, At, Idle
<1>4. c = d
  BY <1>1, <1>2, <1>3 DEF Lifecycle, Owns
<1> QED
  BY <1>3, <1>4

(***************************************************************************)
(* Every staged key is recorded as an access, and Commit takes along what  *)
(* was staged (txn.go:31-44, 124-131).                                     *)
(***************************************************************************)
Staged ==
    /\ \A t \in Txn : HashesOf(WrittenBy(txn[t].local)) \subseteq txn[t].access
    /\ \A t \in Txn : txn[t].status = "new" => hist[t].reads = NoBatch
    /\ \A c \in Client :
         call[c].txn # None /\ call[c].pc \in {"validate", "stamp", "apply"} =>
           call[c].batch = txn[call[c].txn].local

\* Staged holds at first.
LEMMA StagedInit == Init => Staged
  BY DEF Init, Staged, NewTxn, NoBatch, WrittenBy, HashesOf, NothingObserved, Idle

\* Staged is inductive, given TypeOK and Lifecycle.
LEMMA StagedStep == TypeOK /\ Lifecycle /\ Staged /\ [Next]_vars => Staged'
<1> SUFFICES ASSUME TypeOK, Lifecycle, Staged, [Next]_vars
             PROVE  Staged'
  OBVIOUS
<1>1. ASSUME NEW t \in Txn
      PROVE  HashesOf(WrittenBy(txn'[t].local)) \subseteq txn'[t].access
  <2>0. HashesOf(WrittenBy(txn[t].local)) \subseteq txn[t].access
    BY DEF Staged
  <2>1. CASE txn'[t].local = txn[t].local /\ txn[t].access \subseteq txn'[t].access
    BY <2>0, <2>1
  <2>2. ASSUME NEW c \in Client, NEW k \in Key, NEW v \in Stored, Put(c, t, k, v)
        PROVE  HashesOf(WrittenBy(txn'[t].local)) \subseteq txn'[t].access
    <3>1. /\ txn'[t].local = [txn[t].local EXCEPT ![k] = v]
          /\ txn'[t].access = txn[t].access \cup {Hash[k]}
      BY <2>2, TxnCalls
    <3>2. txn[t].local \in [Key -> Stored \cup {Unset}]
      BY DEF TypeOK, Transaction, Batch
    <3>3. WrittenBy(txn'[t].local) \subseteq WrittenBy(txn[t].local) \cup {k}
      BY <3>1, <3>2 DEF WrittenBy
    <3> QED
      BY <2>0, <3>1, <3>3 DEF HashesOf
  <2>3. ASSUME NEW c \in Client, RollbackRelease(c) \/ Release(c), t = call[c].txn
        PROVE  HashesOf(WrittenBy(txn'[t].local)) \subseteq txn'[t].access
    <3>1. txn'[t].local = NoBatch
      BY <2>3, TxnProceeds
    <3> QED
      BY <3>1 DEF NoBatch, WrittenBy, HashesOf
  <2>4. ASSUME NEW c \in Client,
               \/ \E k \in Key : Get(c, t, k)
               \/ \E K \in Ranges : Scan(c, t, K)
               \/ Rollback(c, t)
               \/ (LockForCommit(c) \/ BeginRegister(c)) /\ t = call[c].txn
        PROVE  txn'[t].local = txn[t].local /\ txn[t].access \subseteq txn'[t].access
    <3>1. CASE \/ \E k \in Key : Get(c, t, k)
               \/ \E K \in Ranges : Scan(c, t, K)
               \/ Rollback(c, t)
      BY <3>1, TxnCalls DEF SameTxn
    <3>2. CASE (LockForCommit(c) \/ BeginRegister(c)) /\ t = call[c].txn
      BY <3>2, TxnProceeds DEF SameTxn
    <3> QED
      BY <2>4, <3>1, <3>2
  <2> QED
    BY <2>1, <2>2, <2>3, <2>4, TxnChangedBy
<1>2. ASSUME NEW t \in Txn, txn'[t].status = "new"
      PROVE  hist'[t].reads = NoBatch
  <2>1. txn'[t] = txn[t] /\ hist'[t] = hist[t]
    BY <1>2, TxnChangedBy, TxnCalls, TxnProceeds, ZenonT(30)
  <2> QED
    BY <1>2, <2>1 DEF Staged
<1>3. ASSUME NEW c \in Client, NEW t \in Txn, call'[c].txn = t,
             call'[c].pc \in {"validate", "stamp", "apply"}
      PROVE  call'[c].batch = txn'[t].local
  <2>1. CASE call'[c] = call[c]
    <3>1. Owns(c, t)
      BY <1>3, <2>1 DEF Owns, Owning
    <3>2. txn'[t] = txn[t]
      BY <2>1, <3>1, OwnedStays
    <3> QED
      BY <1>3, <2>1, <3>2, NoneAssumption DEF Staged
  <2>2. CASE call'[c] # call[c]
    <3>1. CASE LockForCommit(c)
      BY <1>3, <3>1, AcquireMoves, TxnProceeds DEF SameTxn
    <3>2. CASE PassValidation(c) \/ Stamp(c)
      <4>1. /\ call[c].pc \in {"validate", "stamp"} /\ call[c].txn = t
            /\ call'[c].batch = call[c].batch /\ txn' = txn
        BY <1>3, <3>2, ProceedMoves, TxnStays DEF Moves, Keeps, At
      <4> QED
        BY <4>1, NoneAssumption DEF Staged
    <3>3. ~ LockForWrite(c)
      BY <1>3, AcquireMoves, NoneAssumption DEF Keeps
    <3> QED
      BY <1>3, <2>2, <3>1, <3>2, <3>3, EnteredBy
  <2> QED
    BY <2>1, <2>2
<1>4. \A c \in Client : call'[c].txn # None => call'[c].txn \in Txn
  <2>1. TypeOK'
    BY TypeStep
  <2> QED
    BY <2>1 DEF TypeOK, Call
<1> QED
  BY <1>1, <1>2, <1>3, <1>4 DEF Staged, HashesOf, WrittenBy

\* Staged holds in every reachable state.
LEMMA MvccStaged == Spec => []Staged
  BY StagedInit, StagedStep, MvccTypeOK, MvccLifecycle, PTL DEF Spec

(***************************************************************************)
(* What a clean transaction was answered is what the history holds at its  *)
(* read timestamp, and the key was recorded as an access.                  *)
(***************************************************************************)
TrueRead(t, k) ==
    hist[t].reads[k] # Unset =>
      /\ Hash[k] \in txn[t].access
      /\ hist[t].reads[k] = ReadAt(log, k, txn[t].readTs)

ReadsTrue == \A t \in Txn, k \in Key : Clean(t) => TrueRead(t, k)

\* The history answers a clean transaction the same before and after a step.
LEMMA HistoryStable ==
    ASSUME TypeOK, CommitOrder, Snapshots, [Next]_vars, NEW t \in Txn, Clean(t), NEW k
    PROVE  ReadAt(log', k, txn[t].readTs) = ReadAt(log, k, txn[t].readTs)
<1>1. TypeOK' /\ CommitOrder'
  BY TypeStep, OrderStep
<1>2. CASE log' = log
  BY <1>2
<1>3. ASSUME NEW c \in Client, Apply(c) \/ FreezeFails(c)
      PROVE  ReadAt(log', k, txn[t].readTs) = ReadAt(log, k, txn[t].readTs)
  <2>1. At(c, "apply") /\ Install(c)
    BY <1>3 DEF Apply, FreezeFails
  <2>2. txn[t].readTs \in Ts /\ txn[t].readTs < ts
    BY <2>1 DEF Snapshots, InFlight, TypeOK, Transaction
  <2> QED
    BY <1>1, <2>1, <2>2, InstallAbove
<1> QED
  BY <1>2, <1>3, Frames

\* ReadsTrue holds at first.
LEMMA ReadsTrueInit == Init => ReadsTrue
  BY DEF Init, ReadsTrue, Clean, NothingObserved

\* A first answer comes from the snapshot, which agrees with the history.
LEMMA NotedTrue ==
    ASSUME TypeOK, Snapshots, NEW t \in Txn, Clean(t), NEW k \in Key, TrueRead(t, k),
           NEW K, NoteRead(t, K)[k] # Unset
    PROVE  /\ NoteRead(t, K)[k] = ReadAt(log, k, txn[t].readTs)
           /\ Hash[k] \in txn[t].access \/ k \in K
<1>1. CASE k \in K /\ hist[t].reads[k] = Unset
  <2>1. NoteRead(t, K)[k] = Snapshot(t, k)
    BY <1>1 DEF NoteRead
  <2> QED
    BY <1>1, <2>1 DEF Snapshot, Snapshots, Agree
<1>2. CASE ~ (k \in K /\ hist[t].reads[k] = Unset)
  <2>1. NoteRead(t, K)[k] = hist[t].reads[k]
    BY <1>2 DEF NoteRead
  <2> QED
    BY <2>1 DEF TrueRead
<1> QED
  BY <1>1, <1>2

\* ReadsTrue is inductive: a read enters the transaction's memory with the
\* value its snapshot has, and the snapshot does not change.
LEMMA ReadsTrueStep ==
    TypeOK /\ CommitOrder /\ Lifecycle /\ Snapshots /\ Staged /\ ReadsTrue /\ [Next]_vars
      => ReadsTrue'
<1> SUFFICES ASSUME TypeOK, CommitOrder, Lifecycle, Snapshots, Staged, ReadsTrue, [Next]_vars,
                    NEW t \in Txn, NEW k \in Key, Clean(t)', hist'[t].reads[k] # Unset
             PROVE  /\ Hash[k] \in txn'[t].access
                    /\ hist'[t].reads[k] = ReadAt(log', k, txn'[t].readTs)
  BY DEF ReadsTrue, TrueRead
<1>1. ~ \E c \in Client : BeginRegister(c) /\ t = call[c].txn
  <2> SUFFICES ASSUME NEW c \in Client, BeginRegister(c), t = call[c].txn
               PROVE  FALSE
    OBVIOUS
  <2>1. txn[t].status = "new" /\ hist'[t].reads = hist[t].reads
    BY BeginRegisters, TxnProceeds
  <2> QED
    BY <2>1 DEF Staged, NoBatch
<1>2. Clean(t) /\ txn'[t].readTs = txn[t].readTs
  BY <1>1, CleanStep
<1>3. TrueRead(t, k)
  BY <1>2 DEF ReadsTrue
<1>4. ReadAt(log', k, txn'[t].readTs) = ReadAt(log, k, txn[t].readTs)
  BY <1>2, HistoryStable
<1>5. CASE hist'[t].reads = hist[t].reads /\ txn[t].access \subseteq txn'[t].access
  BY <1>3, <1>4, <1>5 DEF TrueRead
<1>6. ASSUME NEW c \in Client, NEW j \in Key, Get(c, t, j)
      PROVE  /\ Hash[k] \in txn'[t].access
             /\ hist'[t].reads[k] = ReadAt(log', k, txn'[t].readTs)
  <2>1. /\ txn'[t].access = txn[t].access \cup {Hash[j]}
        /\ hist'[t].reads = NoteRead(t, {j} \ WrittenBy(txn[t].local))
    BY <1>6, TxnCalls
  <2> QED
    BY <1>2, <1>3, <1>4, <2>1, NotedTrue
<1>7. ASSUME NEW c \in Client, NEW K \in Ranges, Scan(c, t, K)
      PROVE  /\ Hash[k] \in txn'[t].access
             /\ hist'[t].reads[k] = ReadAt(log', k, txn'[t].readTs)
  <2> DEFINE yield == (K \ WrittenBy(txn[t].local)) \cap Yielded(t, K)
  <2>1. /\ txn'[t].access = txn[t].access \cup HashesOf(Yielded(t, K))
        /\ hist'[t].reads = NoteRead(t, yield)
    BY <1>7, TxnCalls
  <2>2. /\ NoteRead(t, yield)[k] = ReadAt(log, k, txn[t].readTs)
        /\ Hash[k] \in txn[t].access \/ k \in yield
    BY <1>2, <1>3, <2>1, NotedTrue
  <2> QED
    BY <1>4, <2>1, <2>2 DEF HashesOf
<1>8. CASE UNCHANGED <<txn[t], hist[t]>>
  BY <1>5, <1>8
<1>9. ASSUME NEW c \in Client,
             \/ \E j \in Key, v \in Stored : Put(c, t, j, v)
             \/ Rollback(c, t)
             \/ LockForCommit(c) /\ t = call[c].txn
      PROVE  hist'[t].reads = hist[t].reads /\ txn[t].access \subseteq txn'[t].access
  <2>1. CASE LockForCommit(c) /\ t = call[c].txn
    BY <2>1, TxnProceeds DEF SameTxn
  <2>2. CASE Rollback(c, t) \/ \E j \in Key, v \in Stored : Put(c, t, j, v)
    BY <2>2, TxnCalls, ZenonT(30) DEF SameTxn
  <2> QED
    BY <1>9, <2>1, <2>2
<1>10. ASSUME NEW c \in Client, RollbackRelease(c) \/ Release(c), t = call[c].txn
       PROVE  FALSE
  BY <1>10, ReleaseUnregisters DEF Clean
<1> QED
  BY <1>1, <1>5, <1>6, <1>7, <1>8, <1>9, <1>10, TxnChangedBy

\* ReadsTrue holds in every reachable state.
LEMMA MvccReadsTrue == Spec => []ReadsTrue
  BY ReadsTrueInit, ReadsTrueStep, MvccTypeOK, MvccCommitOrder, MvccLifecycle,
     MvccSnapshots, MvccStaged, PTL DEF Spec

-----------------------------------------------------------------------------
(***************************************************************************)
(* From validation until its batch is applied, nothing a clean transaction *)
(* accessed has been written above its snapshot: the history was complete  *)
(* when it was validated, and commitMu keeps other batches out since.      *)
(***************************************************************************)
Validated ==
    \A c \in Client, t \in Txn :
      call[c].txn = t /\ call[c].pc \in {"stamp", "apply"} /\ hist[t].clean =>
        \A v \in log : v.ts > txn[t].readTs => Hash[v.key] \notin txn[t].access

\* Validated holds at first.
LEMMA ValidatedInit == Init => Validated
  BY DEF Init, Validated, Idle

\* Validated is inductive: commitMu keeps others from applying between the
\* validation and the apply.
LEMMA ValidatedStep ==
    TypeOK /\ CommitOrder /\ Lifecycle /\ Recorded /\ Validated /\ [Next]_vars => Validated'
<1> SUFFICES ASSUME TypeOK, CommitOrder, Lifecycle, Recorded, Validated, [Next]_vars,
                    NEW c \in Client, NEW t \in Txn,
                    call'[c].txn = t, call'[c].pc \in {"stamp", "apply"}, hist'[t].clean,
                    NEW v \in log', v.ts > txn'[t].readTs
             PROVE  Hash[v.key] \notin txn'[t].access
  BY DEF Validated
<1>1. CASE call'[c] = call[c]
  <2>1. Owns(c, t) /\ call[c].pc \in Committing
    BY <1>1 DEF Owns, Owning, Committing
  <2>2. txn'[t] = txn[t] /\ hist'[t] = hist[t]
    BY <1>1, <2>1, OwnedStays
  <2>3. log' = log
    <3>1. ASSUME NEW d \in Client, Apply(d) \/ FreezeFails(d)
          PROVE  FALSE
      <4>1. At(d, "apply") /\ call'[d].pc # "apply"
        BY <3>1, ProceedMoves DEF Moves, At, Idle
      <4>2. c = d
        BY <2>1, <4>1, Exclusive DEF Committing, At
      <4> QED
        BY <1>1, <4>1, <4>2 DEF At
    <3> QED
      BY <3>1, Frames
  <2> QED
    BY <1>1, <2>2, <2>3 DEF Validated
<1>2. CASE call'[c] # call[c]
  <2>1. CASE PassValidation(c)
    <3>1. /\ At(c, "validate") /\ ~ Conflicting(c) /\ call[c].txn = t
          /\ UNCHANGED <<log, txn, hist>>
      BY <2>1, ProceedMoves DEF PassValidation, Keeps
    <3>2. Clean(t)
      <4>1. Owns(c, t)
        BY <3>1 DEF Owns, Owning, At
      <4> QED
        BY <3>1, <4>1, RegisteredOwned DEF Clean
    <3>3. ~ Recording(v)
      <4> SUFFICES ASSUME NEW d \in Client, At(d, "record")
                   PROVE  FALSE
        BY DEF Recording
      <4>1. c = d
        BY <3>1, Exclusive DEF Committing, At
      <4> QED
        BY <3>1, <4>1 DEF At
    <3>4. PICK e \in committed : e.ts = v.ts /\ Hash[v.key] \in e.writeSet
      BY <3>1, <3>2, <3>3 DEF Recorded, InHistory
    <3> QED
      BY <3>1, <3>4 DEF Conflicting, HasConflict
  <2>2. CASE Stamp(c)
    <3>1. call[c].pc = "stamp" /\ call[c].txn = t /\ UNCHANGED <<log, txn, hist>>
      BY <2>2, ProceedMoves DEF Stamp, Moves, At
    <3> QED
      BY <3>1 DEF Validated
  <2>3. ~ LockForWrite(c)
    BY AcquireMoves, NoneAssumption DEF Keeps
  <2> QED
    BY <1>2, <2>1, <2>2, <2>3, EnteredBy
<1> QED
  BY <1>1, <1>2

\* Validated holds in every reachable state, if no freeze fails after its batch
\* was applied.
LEMMA MvccValidated == "freeze" \notin Faults => (Spec => []Validated)
<1> SUFFICES ASSUME "freeze" \notin Faults
             PROVE  Spec => []Validated
  OBVIOUS
<1>1. Spec => []Recorded
  BY MvccRecorded
<1> QED
  BY <1>1, ValidatedInit, ValidatedStep, MvccTypeOK, MvccCommitOrder, MvccLifecycle, PTL DEF Spec

(***************************************************************************)
(* Of two overlapping writers of a key the later committer aborts: every   *)
(* key in the batch was recorded as an access when it was staged.          *)
(***************************************************************************)
LEMMA ValidatedFirstWins ==
    TypeOK /\ Staged /\ Validated => FirstCommitterWins
<1> SUFFICES ASSUME TypeOK, Staged, Validated, NEW c \in Client, NEW v \in log,
                    At(c, "apply"), call[c].txn # None, hist[call[c].txn].clean,
                    v.key \in WrittenBy(call[c].batch)
             PROVE  v.ts <= txn[call[c].txn].readTs
  BY DEF FirstCommitterWins
<1>1. PICK t \in Txn : t = call[c].txn
  BY DEF TypeOK, Call
<1>2. call[c].batch = txn[t].local
  BY <1>1 DEF Staged, At
<1>3. Hash[v.key] \in txn[t].access
  BY <1>2 DEF Staged, HashesOf
<1>4. ~ (v.ts > txn[t].readTs)
  BY <1>1, <1>3 DEF Validated, At
<1>5. v.ts \in Nat /\ txn[t].readTs \in Nat
  BY VersionSets DEF TypeOK, Transaction
<1> QED
  BY <1>1, <1>4, <1>5

\* Of two overlapping writers of a key only the first commits: when a clean
\* transaction applies, nobody has written one of its keys since its snapshot
\* (txn.go:133-139). A freeze that fails returns before the write set is
\* recorded (storage.go:224-232), and then this is false.
THEOREM MvccFirstCommitterWins == "freeze" \notin Faults => (Spec => []FirstCommitterWins)
<1> SUFFICES ASSUME "freeze" \notin Faults
             PROVE  Spec => []FirstCommitterWins
  OBVIOUS
<1>1. Spec => []Validated
  BY MvccValidated
<1> QED
  BY <1>1, ValidatedFirstWins, MvccTypeOK, MvccStaged, PTL

(***************************************************************************)
(* A clean transaction that passed validation read from its snapshot what  *)
(* it would read alone at its commit timestamp: the versions of the keys   *)
(* it read have not changed in between.                                    *)
(***************************************************************************)
LEMMA ValidatedSerializable ==
    TypeOK /\ CommitOrder /\ Snapshots /\ ReadsTrue /\ Validated => ReadsSerializable
<1> SUFFICES ASSUME TypeOK, CommitOrder, Snapshots, ReadsTrue, Validated,
                    NEW c \in Client, NEW k \in Key,
                    At(c, "apply"), call[c].txn # None, hist[call[c].txn].clean,
                    hist[call[c].txn].reads[k] # Unset
             PROVE  hist[call[c].txn].reads[k] = ReadAt(log, k, call[c].ts - 1)
  BY DEF ReadsSerializable
<1>1. PICK t \in Txn : t = call[c].txn
  BY DEF TypeOK, Call
<1>2. Clean(t)
  <2>1. Owns(c, t)
    BY <1>1 DEF Owns, Owning, At
  <2> QED
    BY <1>1, <2>1, RegisteredOwned DEF Clean
<1>3. Hash[k] \in txn[t].access /\ hist[t].reads[k] = ReadAt(log, k, txn[t].readTs)
  BY <1>1, <1>2 DEF ReadsTrue, TrueRead
<1>4. \A v \in log : v.key = k => ~ (v.ts > txn[t].readTs)
  BY <1>1, <1>3 DEF Validated, At
<1>5. /\ ts \in Nat /\ txn[t].readTs \in Nat /\ txn[t].readTs < ts /\ call[c].ts = ts
      /\ \A v \in log : v.ts \in Nat /\ v.ts < ts
  BY <1>2, VersionSets DEF TypeOK, Transaction, Snapshots, InFlight, CommitOrder
<1>6. /\ log \in SUBSET Version /\ OneVersionPerTs(log) /\ ts - 1 \in Nat
      /\ \A v \in log : v.key = k => (v.ts <= txn[t].readTs /\ v.ts <= ts - 1)
  BY <1>4, <1>5, VersionSets DEF CommitOrder
<1>7. ReadAt(log, k, txn[t].readTs) = ReadAt(log, k, ts - 1)
  BY <1>5, <1>6, ReadSame
<1> QED
  BY <1>1, <1>3, <1>5, <1>7

\* When a clean transaction applies, each key it read has the same value just
\* below its commit timestamp (txn.go:133-139), under the same hypothesis.
THEOREM MvccReadsSerializable == "freeze" \notin Faults => (Spec => []ReadsSerializable)
<1> SUFFICES ASSUME "freeze" \notin Faults
             PROVE  Spec => []ReadsSerializable
  OBVIOUS
<1>1. Spec => []Validated
  BY MvccValidated
<1> QED
  BY <1>1, ValidatedSerializable, MvccTypeOK, MvccCommitOrder, MvccSnapshots,
     MvccReadsTrue, PTL
=============================================================================
