----------------------------- MODULE LsmProofs ------------------------------
(***************************************************************************)
(* Proofs about LsmTree, in two parts. The first is about ids and files:   *)
(* the types; the structure of the layout in memory, in the manifest and   *)
(* on disk; that the ids in use never clash, so that whenever the process  *)
(* dies Open finds what the manifest names; that the timestamp of a batch  *)
(* is new, no file that is needed is written over, and replaying the       *)
(* manifest gives the layout in memory. The second is about what the tiers *)
(* hold: an upper tier holds younger versions than the tiers below it, and *)
(* each level is one sorted run; at every timestamp a reader may use the   *)
(* tiers answer as the acknowledged batches do, and the engine implements  *)
(* a versioned store that survives crashes.                                *)
(***************************************************************************)
EXTENDS LsmProps, OperatorProofs

(***************************************************************************)
(* NewestFirst sorts the memtables of a recovery by falling id.            *)
(***************************************************************************)
LEMMA NewestFirstOf ==
    ASSUME NEW n \in Nat, NEW M \in SUBSET (0 .. n)
    PROVE  /\ NewestFirst(M) \in Seq(M)
           /\ IdsIn(NewestFirst(M)) = M
           /\ \A i, j \in DOMAIN NewestFirst(M) :
                i < j => NewestFirst(M)[i] > NewestFirst(M)[j]
<1> DEFINE Above(m) == {k \in M : k > m}
           rank == [m \in M |-> Cardinality(Above(m))]
           c    == Cardinality(M)
           s    == NewestFirst(M)
<1>0. \A m \in M : m \in Nat
  OBVIOUS
<1>1. IsFiniteSet(M) /\ c \in Nat
  <2>1. IsFiniteSet(0 .. n)
    BY FS_Interval
  <2> QED
    BY <2>1, FS_Subset, FS_CardinalityType
<1>2. ASSUME NEW m \in M, NEW k \in M, m < k
      PROVE  rank[k] < rank[m]
  <2>1. Above(k) \subseteq Above(m) /\ k \in Above(m) /\ k \notin Above(k)
    <3>1. k > m /\ ~ (k > k) /\ \A j \in M : j > k => j > m
      BY <1>0, <1>2
    <3> QED
      BY <3>1
  <2>2. IsFiniteSet(Above(m)) /\ IsFiniteSet(Above(k))
    BY <1>1, FS_Subset
  <2> HIDE DEF Above
  <2>3. /\ Cardinality(Above(k)) <= Cardinality(Above(m))
        /\ Cardinality(Above(k)) # Cardinality(Above(m))
    BY <2>1, <2>2, FS_Subset
  <2> QED
    BY <2>2, <2>3, FS_CardinalityType
<1>3. ASSUME NEW m \in M
      PROVE  rank[m] \in 0 .. c - 1
  <2>1. Above(m) \subseteq M /\ m \notin Above(m)
    OBVIOUS
  <2>2. IsFiniteSet(Above(m))
    BY <1>1, <2>1, FS_Subset
  <2> HIDE DEF Above
  <2>3. Cardinality(Above(m)) <= c /\ Cardinality(Above(m)) # c
    BY <1>1, <2>1, FS_Subset
  <2> QED
    BY <1>1, <2>2, <2>3, FS_CardinalityType
<1>4. ASSUME NEW r \in 0 .. c - 1
      PROVE  \E m \in M : rank[m] = r
  <2> SUFFICES ASSUME \A m \in M : rank[m] # r
               PROVE  FALSE
    OBVIOUS
  <2> DEFINE T == (0 .. c - 1) \ {r}
  <2>1. IsFiniteSet(T) /\ Cardinality(T) = c - 1
    <3>1. IsFiniteSet(0 .. c - 1) /\ Cardinality(0 .. c - 1) = c
      BY <1>1, <1>4, FS_Interval
    <3> QED
      BY <3>1, <1>4, FS_RemoveElement, ZenonT(30)
  <2>2. rank \in [M -> T]
    BY <1>3
  <2> HIDE DEF T, rank
  <2>3. PICK x, y \in M : x # y /\ rank[x] = rank[y]
    <3>1. Cardinality(T) < Cardinality(M)
      BY <1>1, <2>1
    <3> QED
      BY <1>1, <2>1, <2>2, <3>1, FS_PigeonHole
  <2>4. x \in Nat /\ y \in Nat /\ rank[x] \in Nat
    BY <1>3
  <2>5. x < y \/ y < x
    BY <2>3, <2>4
  <2> QED
    BY <1>2, <2>3, <2>4, <2>5
<1>5. ASSUME NEW i \in 1 .. c
      PROVE  s[i] \in M /\ rank[s[i]] = i - 1
  <2>1. i - 1 \in 0 .. c - 1
    BY <1>1
  <2>2. s[i] = CHOOSE m \in M : Cardinality(Above(m)) = i - 1
    BY DEF NewestFirst
  <2> HIDE DEF s
  <2>3. \E m \in M : Cardinality(Above(m)) = i - 1
    BY <1>4, <2>1
  <2>4. s[i] \in M /\ Cardinality(Above(s[i])) = i - 1
    BY <2>2, <2>3, Zenon
  <2> QED
    BY <2>4
<1>6. DOMAIN s = 1 .. c
  BY DEF NewestFirst
<1>7. s \in Seq(M)
  <2>1. s = [i \in 1 .. c |-> s[i]]
    BY DEF NewestFirst
  <2> HIDE DEF s
  <2>2. s \in [1 .. c -> M]
    BY <1>5, <2>1
  <2> QED
    BY <1>1, <2>2
<1> HIDE DEF s, rank
<1>8. M \subseteq IdsIn(s)
  <2> SUFFICES ASSUME NEW m \in M
               PROVE  \E i \in 1 .. c : s[i] = m
    BY <1>6 DEF IdsIn
  <2>1. rank[m] \in 0 .. c - 1
    BY <1>3
  <2>2. PICK i \in 1 .. c : i - 1 = rank[m]
    <3>1. rank[m] + 1 \in 1 .. c /\ (rank[m] + 1) - 1 = rank[m]
      BY <1>1, <2>1
    <3> QED
      BY <3>1
  <2>3. PICK k \in M : k = s[i] /\ rank[k] = rank[m]
    BY <1>5, <2>2
  <2>4. ~ (m < k) /\ ~ (k < m)
    <3>1. ~ (rank[m] < rank[k]) /\ ~ (rank[k] < rank[m])
      BY <2>1, <2>3
    <3> QED
      BY <1>2, <3>1
  <2>5. m \in Nat /\ k \in Nat
    BY <1>0
  <2>6. m = k
    BY <2>4, <2>5
  <2> QED
    BY <2>2, <2>3, <2>6
<1>9. IdsIn(s) \subseteq M
  BY <1>5, <1>6 DEF IdsIn
<1>10. ASSUME NEW i \in 1 .. c, NEW j \in 1 .. c, i < j
       PROVE  s[i] > s[j]
  <2>1. s[i] \in M /\ s[j] \in M /\ rank[s[i]] = i - 1 /\ rank[s[j]] = j - 1
    BY <1>5
  <2>2. ~ (rank[s[j]] < rank[s[i]]) /\ rank[s[i]] # rank[s[j]]
    BY <1>10, <2>1
  <2>3. ~ (s[i] < s[j]) /\ s[i] # s[j]
    BY <1>2, <2>1, <2>2
  <2>4. s[i] \in Nat /\ s[j] \in Nat
    BY <1>0, <2>1
  <2> QED
    BY <2>3, <2>4
<1> QED
  BY <1>6, <1>7, <1>8, <1>9, <1>10 DEF s

-----------------------------------------------------------------------------
(* What a memtable, a log and a table may hold. *)

Content == {vs \in SUBSET Entry : IsFiniteSet(vs)}

\* An entry of a batch is a version.
LEMMA EntryVersion == Entry \subseteq Version
  BY LsmAssumption DEF Entry, Version

\* Contents are never mistaken for a missing file.
LEMMA NotAFile ==
    ASSUME NEW vs \in Content
    PROVE  vs # NoFile
  BY NoFileAssumption DEF Content

\* The contents of a file, missing or not.
LEMMA ContentsType ==
    ASSUME NEW file \in Content \cup {NoFile}
    PROVE  Contents(file) \in Content
<1>1. {} \in Content
  BY FS_EmptySet DEF Content
<1> QED
  BY <1>1 DEF Contents

\* Part of a file's contents may be a file's contents.
LEMMA ContentSubset ==
    ASSUME NEW vs \in Content, NEW ws \in SUBSET vs
    PROVE  ws \in Content
  BY FS_Subset DEF Content

\* So may two files' contents together.
LEMMA ContentUnion ==
    ASSUME NEW vs \in Content, NEW ws \in Content
    PROVE  vs \cup ws \in Content
  BY FS_Union DEF Content

\* A sequence has finitely many elements.
LEMMA FinitelyMany ==
    ASSUME NEW S, NEW s \in Seq(S)
    PROVE  IsFiniteSet(IdsIn(s))
<1>1. /\ 1 .. Len(s) = DOMAIN s /\ Len(s) \in Nat
      /\ IdsIn(s) = {s[i] : i \in 1 .. Len(s)}
  BY IdsInOf
<1>2. IsFiniteSet(1 .. Len(s))
  BY <1>1, FS_Interval
<1> DEFINE f == [i \in 1 .. Len(s) |-> s[i]]
<1>3. f \in Surjection(1 .. Len(s), IdsIn(s))
  BY <1>1 DEF Surjection
<1> QED
  BY <1>2, <1>3, FS_Surjection

\* So may a file after one more entry.
LEMMA PutContent ==
    ASSUME NEW vs \in Content, NEW v \in Entry
    PROVE  Put(vs, v) \in Content
<1>1. {w \in vs : ~ (w.key = v.key /\ w.ts = v.ts)} \in Content
  BY ContentSubset
<1>2. {v} \in Content
  BY FS_Singleton DEF Content
<1> QED
  BY <1>1, <1>2, ContentUnion DEF Put

\* So may what stands of a batch.
LEMMA StandingContent ==
    ASSUME NEW batch \in Seq(Entry)
    PROVE  /\ IdsIn(batch) \in Content
           /\ Standing(batch) \in Content
<1>1. IdsIn(batch) \in Content
  BY IdsInOf, FinitelyMany DEF Content
<1>2. Standing(batch) \subseteq IdsIn(batch)
  BY DEF Standing, IdsIn
<1> QED
  BY <1>1, <1>2, ContentSubset

\* What the tables of a task hold together.
LEMMA UnionContent ==
    ASSUME NEW I \in SUBSET Id, NEW f \in [Id -> Content \cup {NoFile}]
    PROVE  UNION {Contents(f[i]) : i \in I} \in Content
<1> DEFINE F == {Contents(f[i]) : i \in I}
<1>1. IsFiniteSet(I)
  <2>1. IsFiniteSet(Id)
    BY FS_Interval, LsmAssumption DEF Id
  <2> QED
    BY <2>1, FS_Subset
<1>2. IsFiniteSet(F)
  <2> DEFINE g == [i \in I |-> Contents(f[i])]
  <2>1. g \in Surjection(I, F)
    BY DEF Surjection
  <2> QED
    BY <1>1, <2>1, FS_Surjection
<1>3. \A vs \in F : vs \in Content
  BY ContentsType
<1> HIDE DEF F
<1>4. IsFiniteSet(UNION F)
  BY <1>2, <1>3, FS_UNION DEF Content
<1> QED
  BY <1>3, <1>4 DEF Content, F

-----------------------------------------------------------------------------
(***************************************************************************)
(* Types, sharper than TypeOK: entries carry a timestamp that was handed   *)
(* out, files are finite, and what a goroutine has in hand fits the step   *)
(* it is at.  Sizes are only defined, and a controller only comes to a     *)
(* decision, because files are finite.                                     *)
(***************************************************************************)
DiskTypes ==
    /\ wal \in [Id -> Content \cup {NoFile}]
    /\ sst \in [Id -> Content \cup {NoFile}]
    /\ manifest \in [mems : SUBSET Id, l0 : Seq(Id), levels : Levels, maxID : Id,
                     compacted : BOOLEAN]

TreeTypes ==
    /\ mem \in Id /\ imm \in Seq(Id)
    /\ mems \in [Id -> Content]
    /\ l0 \in Seq(Id) /\ levels \in Levels

CounterTypes ==
    /\ up \in {"up", "down", "reading", "opened"} /\ strategy \in Strategies
    /\ nextID \in 0 .. MaxId + 1 /\ ts \in 0 .. MaxTs /\ full \in BOOLEAN
    /\ held \in [Reader -> (SUBSET Id) \cup {NoReader}]
    /\ log \in SUBSET Entry /\ torn \in SUBSET Entry
    /\ floor \in 0 .. MaxTs /\ top \in 0 .. MaxTs

WriterTypes ==
    /\ mu \in [pc : {"free", "log", "freeze", "flush", "flushed"}, batch : Seq(Entry),
               logged : Nat, id : Id]
    /\ mu.pc = "flush" => imm # <<>>

CompTypes ==
    /\ comp \in [pc : {"idle", "merge", "delete"}, task : Task(Id) \cup {NoTask},
                 rest : Content, new : Seq(Id), old : Seq(Id)]
    /\ comp.pc = "merge" => comp.task \in Task(Id) /\ InputIDs(comp.task) # <<>>
    /\ comp.pc = "delete" => comp.old # <<>>

\* Nobody is at work while the engine is closed or opening.
Idle ==
    /\ up # "up" => mu = Unlocked /\ comp = NoComp /\ ~ full
    /\ mu.pc = "free" => mu = Unlocked
    /\ comp.pc = "idle" => comp = NoComp
    /\ comp.pc = "merge" => comp.old = <<>>
    /\ comp.pc = "delete" => comp.new = <<>>

Types == DiskTypes /\ TreeTypes /\ CounterTypes /\ WriterTypes /\ CompTypes /\ Idle

\* Types holds when an empty directory has been opened.
LEMMA TypesInit == Init => Types
<1> SUFFICES ASSUME Init
             PROVE  Types
  OBVIOUS
<1>1. {} \in Content
  BY FS_EmptySet DEF Content
<1>2. 0 \in Id /\ NoLevels \in Levels
  BY LsmAssumption DEF Id, NoLevels, Levels
<1>3. DiskTypes
  BY <1>1, <1>2 DEF DiskTypes, Init
<1>4. TreeTypes
  BY <1>1, <1>2 DEF TreeTypes, Init
<1>5. CounterTypes
  <2>1. 0 \in 0 .. MaxTs /\ 1 \in 0 .. MaxId + 1
    BY LsmAssumption
  <2>2. held \in [Reader -> (SUBSET Id) \cup {NoReader}]
    BY DEF Init
  <2> QED
    BY <2>1, <2>2 DEF CounterTypes, Init
<1>6. WriterTypes
  BY <1>2 DEF WriterTypes, Init, Unlocked
<1>7. CompTypes /\ Idle
  BY <1>1, <1>2 DEF CompTypes, Idle, Init, NoComp
<1> QED
  BY <1>3, <1>4, <1>5, <1>6, <1>7 DEF Types

\* Types is at least as strong as the TypeOK that the runs check.
LEMMA TypesTypeOK == Types => TypeOK
<1> SUFFICES ASSUME Types
             PROVE  TypeOK
  OBVIOUS
<1>1. \A vs \in Content : vs \subseteq Version
  BY EntryVersion DEF Content
<1>2. ASSUME NEW i \in Id
      PROVE  Contents(wal[i]) \cup Contents(sst[i]) \subseteq Version /\ mems[i] \subseteq Version
  <2>1. Contents(wal[i]) \in Content /\ Contents(sst[i]) \in Content /\ mems[i] \in Content
    BY ContentsType DEF Types, DiskTypes, TreeTypes
  <2> QED
    BY <1>1, <2>1
<1>3. log \subseteq Version /\ torn \subseteq Version
  BY EntryVersion DEF Types, CounterTypes
<1>4. manifest.maxID \in -1 .. MaxId
  BY LsmAssumption DEF Types, DiskTypes, Id
<1> QED
  BY <1>2, <1>3, <1>4
     DEF Types, TypeOK, DiskTypes, TreeTypes, CounterTypes, WriterTypes, CompTypes

\* The steps that share a part.
LEMMA StepsOf ==
    /\ FreezeInstall \/ FreezeRecordFails => NewMemtable
    /\ FlushRecord \/ FlushRecordFails => FlushSwap
    /\ CompactSwap \/ CompactRecordFails => SwapIn
  BY DEF FreezeInstall, FreezeRecordFails, FlushRecord, FlushRecordFails,
         CompactSwap, CompactRecordFails

(***************************************************************************)
(* Which steps may change a variable.                                      *)
(***************************************************************************)
LEMMA Frames ==
    ASSUME [Next]_vars
    PROVE  /\ \/ UNCHANGED wal
              \/ WalAppend \/ (\E who \in Freezer : FreezeCreate(who)) \/ FlushRemove
              \/ (\E s \in Strategies : RecoverOpen(s)) \/ DeleteOrphan
           /\ \/ UNCHANGED sst
              \/ FlushBuild \/ CompactBuild \/ CompactDelete \/ DeleteOrphan
           /\ \/ UNCHANGED manifest
              \/ FreezeInstall \/ FlushRecord \/ CompactSwap \/ RecoverRecord
           /\ \/ UNCHANGED <<mem, imm>>
              \/ FreezeInstall \/ FreezeRecordFails
              \/ FlushRecord \/ FlushRecordFails \/ Crash
              \/ \E s \in Strategies : RecoverOpen(s)
           /\ \/ UNCHANGED mems
              \/ WriteApply \/ FlushRecord \/ FlushRecordFails \/ Crash
              \/ \E s \in Strategies : RecoverOpen(s)
           /\ \/ UNCHANGED <<l0, levels>>
              \/ FlushRecord \/ FlushRecordFails
              \/ CompactSwap \/ CompactRecordFails \/ Crash
              \/ \E s \in Strategies : RecoverOpen(s)
           /\ \/ UNCHANGED mu
              \/ (\E b \in Batches : WriteStart(b)) \/ WalAppend
              \/ WalAppendFails \/ WriteApply
              \/ (\E who \in Freezer : FreezeCreate(who))
              \/ FreezeInstall \/ FreezeRecordFails
              \/ FlushBuild \/ FlushRecord \/ FlushRecordFails \/ FlushRemove \/ Crash
           /\ \/ UNCHANGED comp
              \/ (\E w \in 0 .. ts : CompactPick(w)) \/ CompactBuild \/ CompactBuildFails
              \/ CompactSwap \/ CompactRecordFails \/ CompactDelete \/ Crash
           /\ \/ UNCHANGED <<up, strategy>>
              \/ Crash \/ (\E s \in Strategies : RecoverOpen(s)) \/ RecoverRecord \/ Serve
           /\ \/ UNCHANGED nextID
              \/ (\E who \in Freezer : FreezeCreate(who) \/ FreezeFails(who))
              \/ CompactBuild \/ CompactBuildFails \/ Crash
              \/ \E s \in Strategies : RecoverOpen(s)
           /\ \/ UNCHANGED ts
              \/ (\E b \in Batches : WriteStart(b)) \/ Crash
              \/ \E s \in Strategies : RecoverOpen(s)
           /\ \/ UNCHANGED full
              \/ WriteApply \/ (\E who \in Freezer : FreezeCreate(who) \/ FreezeFails(who))
              \/ FreezeEmpty \/ Crash
           /\ \/ UNCHANGED held
              \/ (\E r \in Reader : ReadStart(r) \/ ReadDone(r)) \/ Crash
           /\ UNCHANGED <<log, floor>> \/ WriteApply \/ (\E w \in 0 .. ts : CompactPick(w)) \/ Serve
           /\ UNCHANGED torn \/ WalAppendFails \/ Crash \/ Serve
           /\ UNCHANGED top \/ (\E b \in Batches : WriteStart(b))
<1>1. CASE UNCHANGED vars
  BY <1>1 DEF vars
<1>2. CASE Write
  BY <1>2 DEF Write, WriteStart, WalAppend, WalAppendFails, WriteApply, disk, tree, history
<1>3. CASE Freeze
  BY <1>3 DEF Freeze, FreezeCreate, FreezeFails, FreezeEmpty, FreezeInstall,
              FreezeRecordFails, NewMemtable, disk, tree, history
<1>4. CASE Flush
  BY <1>4 DEF Flush, FlushBuild, FlushRecord, FlushRecordFails, FlushSwap, FlushRemove,
              disk, tree, history
<1>5. CASE Compact
  BY <1>5 DEF Compact, CompactPick, CompactBuild, CompactBuildFails, CompactSwap,
              CompactRecordFails, SwapIn, CompactDelete, disk, tree, history
<1>6. CASE Read
  BY <1>6 DEF Read, ReadStart, ReadDone, disk, tree, history
<1>7. CASE Crash
  BY <1>7 DEF Crash, disk
<1>8. CASE Recover
  BY <1>8 DEF Recover, RecoverOpen, RecoverRecord, DeleteOrphan, Serve, disk, tree, history
<1> QED
  BY <1>1, <1>2, <1>3, <1>4, <1>5, <1>6, <1>7, <1>8 DEF Next

\* Within its bound the next id is an id.
LEMMA IdNext ==
    ASSUME Types, nextID <= MaxId
    PROVE  nextID \in Id /\ nextID + 1 \in 0 .. MaxId + 1
  BY LsmAssumption DEF Types, CounterTypes, Id

\* The oldest immutable memtable has an id.
LEMMA OldestType ==
    ASSUME Types, imm # <<>>
    PROVE  Oldest \in Id
<1>1. imm \in Seq(Id)
  BY DEF Types, TreeTypes
<1> QED
  BY <1>1 DEF Oldest

\* A log only ever holds entries.
LEMMA WalTypes ==
    ASSUME Types, [Next]_vars
    PROVE  wal' \in [Id -> Content \cup {NoFile}]
<1>0. wal \in [Id -> Content \cup {NoFile}] /\ {} \in Content
  BY FS_EmptySet DEF Types, DiskTypes, Content
<1>1. CASE WalAppend
  <2>1. mu.batch \in Seq(Entry) /\ mu.logged \in Nat /\ mem \in Id
    BY DEF Types, WriterTypes, TreeTypes
  <2>2. mu.batch[mu.logged + 1] \in Entry
    BY <1>1, <2>1 DEF WalAppend
  <2>3. Put(Contents(wal[mem]), mu.batch[mu.logged + 1]) \in Content
    BY <1>0, <2>1, <2>2, ContentsType, PutContent
  <2> QED
    BY <1>0, <1>1, <2>3 DEF WalAppend
<1>2. ASSUME NEW who \in Freezer, FreezeCreate(who)
      PROVE  wal' \in [Id -> Content \cup {NoFile}]
  BY <1>0, <1>2 DEF FreezeCreate
<1>3. CASE FlushRemove
  BY <1>0, <1>3 DEF FlushRemove
<1>4. ASSUME NEW s \in Strategies, RecoverOpen(s)
      PROVE  wal' \in [Id -> Content \cup {NoFile}]
  <2>1. \A i \in Id : Contents(wal[i]) \in Content
    BY <1>0, ContentsType
  <2> QED
    BY <1>0, <1>4, <2>1 DEF RecoverOpen
<1>5. CASE DeleteOrphan
  BY <1>0, <1>5 DEF DeleteOrphan
<1> QED
  BY <1>0, <1>1, <1>2, <1>3, <1>4, <1>5, Frames

\* An output table and the rest of the merge consist of entries.
LEMMA NextTableContent ==
    ASSUME NEW rest \in Content
    PROVE  NextTable(rest) \in Content /\ rest \ NextTable(rest) \in Content
<1>1. NextTable(rest) \subseteq rest /\ rest \ NextTable(rest) \subseteq rest
  BY DEF NextTable
<1> QED
  BY <1>1, ContentSubset

\* A table only ever holds entries.
LEMMA SstTypes ==
    ASSUME Types, [Next]_vars
    PROVE  sst' \in [Id -> Content \cup {NoFile}]
<1>0. sst \in [Id -> Content \cup {NoFile}] /\ mems \in [Id -> Content]
  BY DEF Types, DiskTypes, TreeTypes
<1>1. CASE FlushBuild
  BY <1>0, <1>1, OldestType DEF FlushBuild
<1>2. CASE CompactBuild
  <2>1. NextTable(comp.rest) \in Content
    BY NextTableContent DEF Types, CompTypes
  <2> QED
    BY <1>0, <1>2, <2>1 DEF CompactBuild
<1>3. CASE CompactDelete
  BY <1>0, <1>3 DEF CompactDelete
<1>4. CASE DeleteOrphan
  BY <1>0, <1>4 DEF DeleteOrphan
<1> QED
  BY <1>0, <1>1, <1>2, <1>3, <1>4, Frames

\* The layouts that replaying a record gives.
ManifestSet ==
    [mems : SUBSET Id, l0 : Seq(Id), levels : Levels, maxID : Id, compacted : BOOLEAN]

\* Recording a freeze or a flush keeps the manifest well typed.
LEMMA RecordTypes ==
    ASSUME NEW m \in ManifestSet, NEW id \in Id
    PROVE  RecordMemtable(m, id) \in ManifestSet /\ RecordFlush(m, id) \in ManifestSet
<1>1. Greater(m.maxID, id) \in Id
  BY DEF Greater, ManifestSet
<1>2. <<id>> \o m.l0 \in Seq(Id)
  BY DEF ManifestSet
<1> QED
  BY <1>1, <1>2 DEF RecordMemtable, RecordFlush, ManifestSet

\* So does recording a compaction.
LEMMA RecordCompactionTypes ==
    ASSUME NEW m \in ManifestSet, NEW task, NEW new \in Seq(Id)
    PROVE  RecordCompaction(m, task, new) \in ManifestSet
<1>1. m.l0 \in Seq(Id) /\ m.levels \in [1 .. MaxLevels -> Seq(Id)] /\ m.maxID \in Id
  BY DEF ManifestSet, Levels
<1>2. /\ RemoveIDs(m.l0, task.upperIDs) \in Seq(Id)
      /\ \A i \in 1 .. MaxLevels : RemoveIDs(m.levels[i], task.upperIDs) \in Seq(Id)
  BY <1>1, RemoveIDsResult
<1>3. SupersededLevels(m.levels, task, new) \in Levels
  BY <1>1, <1>2 DEF SupersededLevels, Levels
<1>4. Max({m.maxID} \cup IdsIn(new)) \in Id
  <2>1. {m.maxID} \cup IdsIn(new) \in SUBSET (0 .. MaxId)
    BY <1>1, IdsInOf DEF Id
  <2>2. Max({m.maxID} \cup IdsIn(new)) \in {m.maxID} \cup IdsIn(new)
    BY <2>1, MaxOf, LsmAssumption
  <2> QED
    BY <2>1, <2>2 DEF Id
<1> QED
  BY <1>1, <1>2, <1>3, <1>4 DEF RecordCompaction, ManifestSet

\* Every step keeps the manifest well typed.
LEMMA ManifestTypes ==
    ASSUME Types, [Next]_vars
    PROVE  manifest' \in ManifestSet
<1>0. /\ manifest \in ManifestSet /\ mu.id \in Id /\ mem \in Id /\ comp.new \in Seq(Id)
  BY DEF Types, DiskTypes, TreeTypes, WriterTypes, CompTypes, ManifestSet
<1>1. CASE FreezeInstall
  BY <1>0, <1>1, RecordTypes DEF FreezeInstall
<1>2. CASE FlushRecord
  <2>1. Oldest \in Id
    BY <1>2, OldestType DEF FlushRecord, FlushSwap, Types, WriterTypes
  <2> QED
    BY <1>0, <1>2, <2>1, RecordTypes DEF FlushRecord
<1>3. CASE CompactSwap
  BY <1>0, <1>3, RecordCompactionTypes DEF CompactSwap
<1>4. CASE RecoverRecord
  BY <1>0, <1>4, RecordTypes DEF RecoverRecord
<1> QED
  BY <1>0, <1>1, <1>2, <1>3, <1>4, Frames

\* The memtables a recovery finds unflushed.
Unflushed == {m \in manifest.mems : Contents(wal[m]) # {}}

\* The memtables Open restores, newest first (recover.go:93-112).
LEMMA UnflushedType ==
    ASSUME Types
    PROVE  /\ Unflushed \in SUBSET Id
           /\ NewestFirst(Unflushed) \in Seq(Id)
           /\ IdsIn(NewestFirst(Unflushed)) = Unflushed
           /\ \A m \in Unflushed : wal[m] = Contents(wal[m]) /\ wal[m] \in Content
<1>1. Unflushed \in SUBSET Id
  BY DEF Types, DiskTypes, Unflushed
<1>2. Unflushed \in SUBSET (0 .. MaxId) /\ MaxId \in Nat
  BY <1>1, LsmAssumption DEF Id
<1>3. NewestFirst(Unflushed) \in Seq(Unflushed) /\ IdsIn(NewestFirst(Unflushed)) = Unflushed
  BY <1>2, NewestFirstOf
<1>4. \A m \in Unflushed : wal[m] = Contents(wal[m])
  BY DEF Unflushed, Contents
<1>5. \A m \in Unflushed : Contents(wal[m]) \in Content
  BY <1>1, ContentsType DEF Types, DiskTypes
<1> QED
  BY <1>1, <1>3, <1>4, <1>5

\* What the layout and the manifest name are ids.
LEMMA NamedIds ==
    ASSUME Types
    PROVE  /\ TableIds \subseteq Id
           /\ RecordedTables \subseteq Id
           /\ manifest.mems \subseteq Id
           /\ manifest.maxID \in Nat /\ manifest.maxID <= MaxId
<1>1. manifest.l0 \in Seq(Id) /\ manifest.levels \in [1 .. MaxLevels -> Seq(Id)]
  BY DEF Types, DiskTypes, Levels
<1>2. RecordedTables \subseteq Id
  <2>1. IdsIn(manifest.l0) \subseteq Id
    BY <1>1, IdsInOf
  <2>2. \A i \in 1 .. MaxLevels : IdsIn(manifest.levels[i]) \subseteq Id
    BY <1>1, IdsInOf
  <2> QED
    BY <2>1, <2>2 DEF RecordedTables
<1>3. TableIds \subseteq Id
  BY IdsInOf DEF Types, TreeTypes, Levels, TableIds
<1>4. manifest.mems \subseteq Id /\ manifest.maxID \in Id
  BY DEF Types, DiskTypes
<1> QED
  BY <1>2, <1>3, <1>4, LsmAssumption DEF Id

\* What Open finds, with its local definitions expanded.
LEMMA RecoverOpenTree ==
    ASSUME NEW s \in Strategies, RecoverOpen(s)
    PROVE  /\ imm' = NewestFirst(Unflushed) /\ mem' = manifest.maxID + 1 /\ mem' <= MaxId
           /\ mems' = [i \in Id |-> IF i \in Unflushed THEN wal[i] ELSE {}]
           /\ l0' = manifest.l0 /\ levels' = manifest.levels /\ nextID' = mem' + 1
           /\ up = "down" /\ up' = "reading" /\ Reopenable(s) /\ strategy' = s
           /\ ts' = NewestTs(UNION ({wal[m] : m \in Unflushed}
                                    \cup {sst[t] : t \in RecordedTables}))
           /\ wal' = [i \in Id |-> IF i = mem' THEN {}
                                   ELSE IF i \in manifest.mems THEN Contents(wal[i])
                                   ELSE wal[i]]
           /\ UNCHANGED <<sst, manifest, mu, full, comp, held, history>>
           /\ Reconfigure \/ s = strategy
  BY DEF RecoverOpen, Unflushed

\* Every step keeps the tiers well typed.
LEMMA TreeTypesStep ==
    ASSUME Types, [Next]_vars
    PROVE  TreeTypes'
<1>0. /\ mem \in Id /\ imm \in Seq(Id) /\ mems \in [Id -> Content] /\ l0 \in Seq(Id)
      /\ levels \in [1 .. MaxLevels -> Seq(Id)]
  BY DEF Types, TreeTypes, Levels
<1>1. CASE NoTree
  <2>1. {} \in Content /\ 0 \in Id
    BY FS_EmptySet, LsmAssumption DEF Content, Id
  <2> QED
    BY <1>1, <2>1 DEF NoTree, TreeTypes, NoLevels, Levels
<1>2. ASSUME NEW s \in Strategies, RecoverOpen(s)
      PROVE  TreeTypes'
  <2>1. mem' \in Id
    <3>1. mem' = manifest.maxID + 1 /\ mem' <= MaxId
      BY <1>2, RecoverOpenTree
    <3> QED
      BY <3>1, NamedIds, LsmAssumption DEF Id
  <2>2. mems' \in [Id -> Content]
    <3>1. {} \in Content
      BY FS_EmptySet DEF Content
    <3> QED
      BY <1>2, <3>1, RecoverOpenTree, UnflushedType
  <2>3. imm' \in Seq(Id)
    BY <1>2, RecoverOpenTree, UnflushedType
  <2>4. l0' \in Seq(Id) /\ levels' \in Levels
    BY <1>2, RecoverOpenTree DEF Types, DiskTypes
  <2> QED
    BY <2>1, <2>2, <2>3, <2>4 DEF TreeTypes
<1>3. mem' \in Id /\ imm' \in Seq(Id)
  <2>1. CASE NewMemtable
    <3>1. mu.id \in Id
      BY DEF Types, WriterTypes
    <3> QED
      BY <1>0, <2>1, <3>1 DEF NewMemtable
  <2>2. CASE FlushSwap
    BY <1>0, <2>2, RemoveIDsResult DEF FlushSwap
  <2>3. CASE Crash
    BY <1>1, <2>3 DEF Crash, TreeTypes
  <2> QED
    BY <1>0, <1>2, <2>1, <2>2, <2>3, Frames, StepsOf DEF TreeTypes
<1>4. mems' \in [Id -> Content]
  <2>1. CASE WriteApply
    <3>1. mems[mem] \cup Standing(mu.batch) \in Content
      BY <1>0, StandingContent, ContentUnion DEF Types, WriterTypes
    <3> QED
      BY <1>0, <2>1, <3>1 DEF WriteApply
  <2>2. CASE FlushSwap
    <3>1. {} \in Content
      BY FS_EmptySet DEF Content
    <3> QED
      BY <1>0, <2>2, <3>1 DEF FlushSwap
  <2>3. CASE Crash
    BY <1>1, <2>3 DEF Crash, TreeTypes
  <2> QED
    BY <1>0, <1>2, <2>1, <2>2, <2>3, Frames, StepsOf DEF TreeTypes
<1>5. l0' \in Seq(Id) /\ levels' \in Levels
  <2>1. CASE FlushSwap
    <3>1. Oldest \in Id
      BY <2>1, OldestType DEF FlushSwap, Types, WriterTypes
    <3> QED
      BY <1>0, <2>1, <3>1 DEF FlushSwap, Levels
  <2>2. CASE SwapIn
    <3>1. comp.new \in Seq(Id)
      BY DEF Types, CompTypes
    <3> QED
      BY <1>0, <2>2, <3>1, ResultTypes DEF SwapIn, Levels
  <2>3. CASE Crash
    BY <1>1, <2>3 DEF Crash, TreeTypes
  <2> QED
    BY <1>0, <1>2, <2>1, <2>2, <2>3, Frames, StepsOf DEF TreeTypes, Levels
<1> QED
  BY <1>3, <1>4, <1>5 DEF TreeTypes

\* Every step keeps the counters within their bounds.
LEMMA CounterTypesStep ==
    ASSUME Types, [Next]_vars
    PROVE  CounterTypes'
<1>0. CounterTypes /\ MaxTs \in Nat /\ MaxId \in Nat
  BY LsmAssumption DEF Types
<1>1. up' \in {"up", "down", "reading", "opened"} /\ strategy' \in Strategies
  <2>1. CASE Crash \/ RecoverRecord \/ Serve
    BY <1>0, <2>1 DEF CounterTypes, Crash, RecoverRecord, Serve
  <2>2. ASSUME NEW s \in Strategies, RecoverOpen(s)
        PROVE  up' = "reading" /\ strategy' \in Strategies
    BY <2>2 DEF RecoverOpen
  <2> QED
    BY <1>0, <2>1, <2>2, Frames DEF CounterTypes
<1>2. nextID' \in 0 .. MaxId + 1
  <2>1. CASE MayTakeId \/ (nextID <= MaxId /\ nextID' = nextID + 1)
    BY <1>0, <2>1, IdNext DEF MayTakeId, CounterTypes
  <2>2. ASSUME NEW who \in Freezer, FreezeCreate(who) \/ FreezeFails(who)
        PROVE  nextID' \in 0 .. MaxId + 1
    BY <2>1, <2>2 DEF FreezeCreate, FreezeFails
  <2>3. CASE CompactBuild \/ CompactBuildFails
    BY <2>1, <2>3 DEF CompactBuild, CompactBuildFails
  <2>4. CASE Crash
    BY <1>0, <2>4 DEF Crash
  <2>5. ASSUME NEW s \in Strategies, RecoverOpen(s)
        PROVE  nextID' \in 0 .. MaxId + 1
    <3>1. mem' = manifest.maxID + 1 /\ mem' <= MaxId /\ nextID' = mem' + 1
      BY <2>5, RecoverOpenTree
    <3> QED
      BY <1>0, <3>1, NamedIds
  <2> QED
    BY <1>0, <2>2, <2>3, <2>4, <2>5, Frames DEF CounterTypes
<1>3. ts' \in 0 .. MaxTs
  <2>1. ASSUME NEW b \in Batches, WriteStart(b)
        PROVE  ts' \in 0 .. MaxTs
    BY <1>0, <2>1 DEF WriteStart, CounterTypes
  <2>2. CASE Crash
    BY <1>0, <2>2 DEF Crash
  <2>3. ASSUME NEW s \in Strategies, RecoverOpen(s)
        PROVE  ts' \in 0 .. MaxTs
    <3> DEFINE V == UNION ({wal[m] : m \in Unflushed} \cup {sst[t] : t \in RecordedTables})
               S == {0} \cup {v.ts : v \in V}
    <3>1. \A m \in Unflushed : wal[m] \subseteq Entry
      BY UnflushedType DEF Content
    <3>2. \A t \in RecordedTables : sst[t] \subseteq Entry
      <4> TAKE t \in RecordedTables
      <4>1. sst[t] # NoFile
        BY <2>3 DEF RecoverOpen, Reopenable
      <4>2. t \in Id
        BY NamedIds
      <4> QED
        BY <4>1, <4>2 DEF Types, DiskTypes, Content
    <3>3. V \subseteq Entry
      BY <3>1, <3>2
    <3> HIDE DEF V
    <3>4. S \in SUBSET (0 .. MaxTs) /\ S # {}
      BY <1>0, <3>3 DEF Entry
    <3>5. ts' = Max(S)
      BY <2>3, RecoverOpenTree DEF NewestTs, V
    <3> HIDE DEF S
    <3> QED
      BY <1>0, <3>4, <3>5, MaxOf
  <2> QED
    BY <1>0, <2>1, <2>2, <2>3, Frames DEF CounterTypes
<1>4. full' \in BOOLEAN
  <2>1. CASE WriteApply
    BY <2>1 DEF WriteApply
  <2>2. ASSUME NEW who \in Freezer, FreezeCreate(who) \/ FreezeFails(who)
        PROVE  full' \in BOOLEAN
    BY <2>2 DEF FreezeCreate, FreezeFails
  <2>3. CASE FreezeEmpty \/ Crash
    BY <2>3 DEF FreezeEmpty, Crash
  <2> QED
    BY <1>0, <2>1, <2>2, <2>3, Frames DEF CounterTypes
<1>5. TableIds \subseteq Id
  BY NamedIds
<1>6. held' \in [Reader -> (SUBSET Id) \cup {NoReader}]
  <2>1. ASSUME NEW r \in Reader, ReadStart(r) \/ ReadDone(r)
        PROVE  held' \in [Reader -> (SUBSET Id) \cup {NoReader}]
    BY <1>0, <1>5, <2>1 DEF ReadStart, ReadDone, CounterTypes
  <2>2. CASE Crash
    BY <2>2 DEF Crash
  <2> QED
    BY <1>0, <2>1, <2>2, Frames DEF CounterTypes
<1>7. log' \in SUBSET Entry /\ floor' \in 0 .. MaxTs
  <2>1. CASE WriteApply
    <3>1. Standing(mu.batch) \subseteq Entry
      BY StandingContent DEF Types, WriterTypes, Content
    <3> QED
      BY <1>0, <2>1, <3>1 DEF WriteApply, CounterTypes
  <2>2. ASSUME NEW w \in 0 .. ts, CompactPick(w)
        PROVE  log' \in SUBSET Entry /\ floor' \in 0 .. MaxTs
    BY <1>0, <2>2 DEF CompactPick, Greater, CounterTypes
  <2>3. CASE Serve
    <3>1. Visible \subseteq Entry
      <4>1. \A m \in {mem} \cup IdsIn(imm) : mems[m] \subseteq Entry
        BY IdsInOf DEF Types, TreeTypes, Content
      <4>2. \A t \in TableIds : Contents(sst[t]) \subseteq Entry
        BY <1>5, ContentsType DEF Types, DiskTypes, Content
      <4> QED
        BY <4>1, <4>2 DEF Visible
    <3> QED
      BY <1>0, <2>3, <3>1 DEF Serve
  <2> QED
    BY <1>0, <2>1, <2>2, <2>3, Frames DEF CounterTypes
<1>8. torn' \in SUBSET Entry
  <2>1. IdsIn(mu.batch) \subseteq Entry
    BY StandingContent DEF Types, WriterTypes, Content
  <2> QED
    BY <1>0, <2>1, Frames DEF WalAppendFails, Crash, Serve, CounterTypes
<1>9. top' \in 0 .. MaxTs
  <2>1. ASSUME NEW b \in Batches, WriteStart(b)
        PROVE  top' \in 0 .. MaxTs
    BY <1>0, <2>1 DEF WriteStart, CounterTypes, Greater
  <2> QED
    BY <1>0, <2>1, Frames DEF CounterTypes
<1> QED
  BY <1>1, <1>2, <1>3, <1>4, <1>6, <1>7, <1>8, <1>9 DEF CounterTypes

\* Every step keeps the progress of the writer well typed.
LEMMA WriterTypesStep ==
    ASSUME Types, [Next]_vars
    PROVE  WriterTypes'
<1>0. /\ WriterTypes /\ Idle /\ 0 \in Id /\ imm \in Seq(Id)
      /\ Unlocked \in [pc : {"free", "log", "freeze", "flush", "flushed"},
                       batch : Seq(Entry), logged : Nat, id : Id]
  <2>1. 0 \in Id
    BY LsmAssumption DEF Id
  <2> QED
    BY <2>1 DEF Types, TreeTypes, Unlocked
<1>1. CASE mu' = Unlocked
  BY <1>0, <1>1 DEF WriterTypes, Unlocked
<1>2. ASSUME NEW b \in Batches, WriteStart(b)
      PROVE  WriterTypes'
  <2> DEFINE batch == [i \in DOMAIN b |-> [key |-> b[i].key, ts |-> ts + 1, val |-> b[i].val]]
  <2>1. b \in Seq([key : Key, val : Stored])
    BY LsmAssumption
  <2>2. ts + 1 \in 1 .. MaxTs
    BY <1>2, LsmAssumption DEF WriteStart, Types, CounterTypes
  <2>3. \A i \in DOMAIN b : [key |-> b[i].key, ts |-> ts + 1, val |-> b[i].val] \in Entry
    <3>1. \A i \in DOMAIN b : b[i].key \in Key /\ b[i].val \in Stored
      <4>1. \A i \in DOMAIN b : b[i] \in [key : Key, val : Stored]
        <5> DEFINE R == [key : Key, val : Stored]
        <5>1. b \in Seq(R)
          BY <2>1
        <5> HIDE DEF R
        <5>2. \A i \in DOMAIN b : b[i] \in R
          BY <5>1
        <5> QED
          BY <5>2 DEF R
      <4> QED
        BY <4>1
    <3> QED
      BY <2>2, <3>1 DEF Entry
  <2>4. batch \in Seq(Entry)
    <3>1. DOMAIN b = 1 .. Len(b) /\ Len(b) \in Nat
      BY <2>1
    <3>2. batch \in [1 .. Len(b) -> Entry]
      BY <2>3, <3>1
    <3> QED
      BY <3>1, <3>2
  <2>5. mu' = [Unlocked EXCEPT !.pc = "log", !.batch = batch]
    BY <1>2 DEF WriteStart
  <2> HIDE DEF batch
  <2> QED
    BY <1>0, <2>4, <2>5 DEF WriterTypes, Unlocked
<1>3. CASE WalAppend
  BY <1>0, <1>3 DEF WalAppend, WriterTypes
<1>4. ASSUME NEW who \in Freezer, FreezeCreate(who)
      PROVE  WriterTypes'
  <2>1. nextID \in Id
    BY <1>4, IdNext DEF FreezeCreate
  <2> QED
    BY <1>0, <1>4, <2>1 DEF FreezeCreate, WriterTypes, Unlocked
<1>5. CASE FlushBuild
  BY <1>0, <1>5 DEF FlushBuild, WriterTypes, Unlocked, tree
<1>6. CASE FlushRecord
  <2>1. Oldest \in Id
    BY <1>6, OldestType DEF FlushRecord, FlushSwap, Types, WriterTypes
  <2> QED
    BY <1>0, <1>6, <2>1 DEF FlushRecord, WriterTypes
<1>7. CASE UNCHANGED mu
  <2>1. CASE UNCHANGED imm
    BY <1>0, <1>7, <2>1 DEF WriterTypes
  <2>2. CASE ~ UNCHANGED imm
    <3>1. \/ NewMemtable \/ FlushRecord \/ FlushRecordFails \/ Crash
          \/ \E s \in Strategies : RecoverOpen(s)
      BY <2>2, Frames, StepsOf
    <3>2. FlushRecord => mu'.pc # "flush"
      BY <1>0 DEF FlushRecord, WriterTypes
    <3>3. mu'.pc # "flush"
      BY <1>0, <1>7, <3>1, <3>2 DEF NewMemtable, FlushRecordFails, Release, Crash,
                                    RecoverOpen, Idle, Unlocked
    <3> QED
      BY <1>0, <1>7, <3>3 DEF WriterTypes
  <2> QED
    BY <2>1, <2>2
<1>8. WalAppendFails \/ WriteApply \/ NewMemtable \/ FlushRemove \/ Crash => mu' = Unlocked
  BY DEF WalAppendFails, WriteApply, NewMemtable, FlushRemove, Crash, Release
<1>9. FlushRecordFails => mu' = Unlocked
  BY DEF FlushRecordFails, Release
<1> QED
  BY <1>1, <1>2, <1>3, <1>4, <1>5, <1>6, <1>7, <1>8, <1>9, Frames, StepsOf

\* The sizes given to the controller are numbers.
LEMMA SizesType ==
    ASSUME Types
    PROVE  Sizes \in [Id -> Nat]
<1>1. \A i \in Id : Contents(sst[i]) \in Content
  BY ContentsType DEF Types, DiskTypes
<1> QED
  BY <1>1, FS_CardinalityType DEF Sizes, Content

\* What picking a task leaves in comp, with its local definitions expanded.
LEMMA PickedTask ==
    ASSUME Types, NEW w \in 0 .. ts, CompactPick(w)
    PROVE  \E task \in Task(Id), rest \in Content :
             /\ PickShape(task, strategy, l0, levels)
             /\ rest = Compacted(UNION {Contents(sst[i]) : i \in IdsIn(InputIDs(task))},
                                 task.toBottom, w)
             /\ comp' = [pc |-> "merge", task |-> task, new |-> <<>>, rest |-> rest,
                         old |-> <<>>]
<1> DEFINE task == GenerateTask(strategy, l0, levels, Sizes)
           rest == Compacted(UNION {Contents(sst[i]) : i \in IdsIn(InputIDs(task))},
                             task.toBottom, w)
<1>1. /\ task # NoTask
      /\ comp' = [pc |-> "merge", task |-> task, new |-> <<>>, rest |-> rest, old |-> <<>>]
  BY Zenon DEF CompactPick
<1>2. task \in Task(Id) /\ PickShape(task, strategy, l0, levels)
  <2>1. Sizes \in [Id -> Nat] /\ l0 \in Seq(Id) /\ levels \in [1 .. MaxLevels -> Seq(Id)]
    BY SizesType DEF Types, TreeTypes, Levels
  <2>2. GenerateTask(strategy, l0, levels, Sizes) # NoTask
    BY <1>1
  <2> QED
    BY <2>1, <2>2, TaskShape, Zenon
<1> HIDE DEF task
<1>3. rest \in Content
  <2>1. IdsIn(InputIDs(task)) \subseteq Id
    <3>1. InputIDs(task) \in Seq(Id)
      BY <1>2 DEF Task, InputIDs
    <3> QED
      BY <3>1, IdsInOf
  <2>2. UNION {Contents(sst[i]) : i \in IdsIn(InputIDs(task))} \in Content
    BY <2>1, UnionContent DEF Types, DiskTypes
  <2>3. rest \subseteq UNION {Contents(sst[i]) : i \in IdsIn(InputIDs(task))}
    BY DEF Compacted, Kept
  <2> HIDE DEF rest
  <2> QED
    BY <2>2, <2>3, ContentSubset
<1> HIDE DEF rest
<1> QED
  BY <1>1, <1>2, <1>3, Zenon DEF rest

\* Every step keeps the progress of the compaction well typed.
LEMMA CompTypesStep ==
    ASSUME Types, [Next]_vars
    PROVE  CompTypes'
<1>0. /\ CompTypes /\ {} \in Content
      /\ NoComp \in [pc : {"idle", "merge", "delete"}, task : Task(Id) \cup {NoTask},
                     rest : Content, new : Seq(Id), old : Seq(Id)]
  <2>1. {} \in Content
    BY FS_EmptySet DEF Content
  <2> QED
    BY <2>1 DEF Types, NoComp
<1>1. CASE comp' = NoComp
  BY <1>0, <1>1 DEF CompTypes, NoComp
<1>2. ASSUME NEW w \in 0 .. ts, CompactPick(w)
      PROVE  CompTypes'
  <2>1. PICK task \in Task(Id), rest \in Content :
           /\ PickShape(task, strategy, l0, levels)
           /\ comp' = [pc |-> "merge", task |-> task, new |-> <<>>, rest |-> rest,
                       old |-> <<>>]
    BY <1>2, PickedTask, Zenon
  <2>2. InputIDs(task) # <<>>
    BY <2>1 DEF PickShape
  <2> QED
    BY <2>1, <2>2 DEF CompTypes
<1>3. CASE CompactBuild
  <2>1. nextID \in Id
    BY <1>3, IdNext DEF CompactBuild
  <2>2. comp.rest \ NextTable(comp.rest) \in Content
    BY <1>0, NextTableContent DEF CompTypes
  <2>3. Append(comp.new, nextID) \in Seq(Id)
    BY <1>0, <2>1 DEF CompTypes
  <2>4. comp' = [comp EXCEPT !.rest = @ \ NextTable(@), !.new = Append(@, nextID)]
    BY <1>3 DEF CompactBuild
  <2> QED
    BY <1>0, <1>3, <2>2, <2>3, <2>4 DEF CompTypes
<1>4. CASE CompactSwap
  <2>1. InputIDs(comp.task) \in Seq(Id) /\ InputIDs(comp.task) # <<>>
    BY <1>0, <1>4 DEF CompactSwap, SwapIn, CompTypes, InputIDs, Task
  <2>2. comp' = [NoComp EXCEPT !.pc = "delete", !.old = InputIDs(comp.task)]
    BY <1>4 DEF CompactSwap
  <2> QED
    BY <1>0, <2>1, <2>2 DEF CompTypes, NoComp
<1>5. CASE CompactDelete /\ comp' # NoComp
  <2>1. comp.old \in Seq(Id) /\ comp.old # <<>>
    BY <1>0, <1>5 DEF CompTypes, CompactDelete
  <2>2. Tail(comp.old) \in Seq(Id) /\ Tail(comp.old) # <<>>
        /\ comp' = [comp EXCEPT !.old = Tail(@)]
    BY <1>5, <2>1 DEF CompactDelete
  <2> QED
    BY <1>0, <1>5, <2>2 DEF CompTypes, CompactDelete
<1>6. CASE UNCHANGED comp
  BY <1>0, <1>6 DEF CompTypes
<1>7. CompactBuildFails \/ CompactRecordFails \/ Crash => comp' = NoComp
  BY DEF CompactBuildFails, CompactRecordFails, Crash
<1> QED
  BY <1>1, <1>2, <1>3, <1>4, <1>5, <1>6, <1>7, Frames

\* What is not running is in its initial state, after every step.
LEMMA IdleStep ==
    ASSUME Types, [Next]_vars
    PROVE  Idle'
<1>0. /\ Idle /\ NoComp.pc = "idle" /\ Unlocked.pc = "free"
      /\ up \in {"up", "down", "reading", "opened"}
  BY DEF Types, CounterTypes, NoComp, Unlocked
<1>1. up' # "up" => mu' = Unlocked /\ comp' = NoComp /\ ~ full'
  <2>1. CASE UNCHANGED <<up, strategy>>
    <3> SUFFICES ASSUME up # "up"
                 PROVE  mu' = mu /\ comp' = comp /\ full' = full
      BY <1>0, <2>1 DEF Idle
    <3>1. mu.pc = "free" /\ comp.pc = "idle" /\ ~ full
      BY <1>0 DEF Idle
    <3>2. ~ Crash
      BY <2>1 DEF Crash, Idle
    <3>3. mu' = mu
      BY <3>1, <3>2, Frames DEF WriteStart, WalAppend, WalAppendFails, WriteApply, FreezeCreate,
         FreezeInstall, FreezeRecordFails, NewMemtable, FlushBuild, FlushRecord,
         FlushRecordFails, FlushSwap, FlushRemove, Free, Running
    <3>4. comp' = comp
      BY <3>1, <3>2, Frames DEF CompactPick, CompactBuild, CompactBuildFails, CompactSwap,
         CompactRecordFails, SwapIn, CompactDelete, Free, Running
    <3>5. full' = full
      BY <3>1, <3>2, Frames DEF WriteApply, FreezeCreate, FreezeFails, FreezeEmpty, Free, Running
    <3> QED
      BY <3>3, <3>4, <3>5
  <2>2. CASE Crash
    BY <2>2 DEF Crash
  <2>3. ASSUME NEW s \in Strategies, RecoverOpen(s)
        PROVE  mu' = Unlocked /\ comp' = NoComp /\ ~ full'
    BY <1>0, <2>3 DEF RecoverOpen, Idle
  <2>4. CASE RecoverRecord \/ Serve
    BY <1>0, <2>4 DEF RecoverRecord, Serve, Idle
  <2> QED
    BY <2>1, <2>2, <2>3, <2>4, Frames
<1>2. mu'.pc = "free" => mu' = Unlocked
  <2>1. CASE UNCHANGED mu
    BY <1>0, <2>1 DEF Idle
  <2>2. CASE mu' = Unlocked
    BY <2>2
  <2>3. \/ (\E b \in Batches : WriteStart(b)) \/ WalAppend \/ FlushBuild \/ FlushRecord
        \/ (\E who \in Freezer : FreezeCreate(who))
        => mu'.pc # "free"
    BY DEF WriteStart, WalAppend, FlushBuild, FlushRecord, FlushSwap, FreezeCreate, Unlocked,
           Types, WriterTypes
  <2>4. \/ WalAppendFails \/ WriteApply \/ FreezeInstall \/ FreezeRecordFails
        \/ FlushRecordFails \/ FlushRemove \/ Crash
        => mu' = Unlocked
    BY StepsOf DEF WalAppendFails, WriteApply, NewMemtable, FlushRecordFails, FlushRemove,
                   Crash, Release
  <2> QED
    BY <2>1, <2>2, <2>3, <2>4, Frames
<1>3. /\ comp'.pc = "idle" => comp' = NoComp
      /\ comp'.pc = "merge" => comp'.old = <<>>
      /\ comp'.pc = "delete" => comp'.new = <<>>
  <2>1. CASE UNCHANGED comp
    BY <1>0, <2>1 DEF Idle
  <2>2. CASE comp' = NoComp
    BY <1>0, <2>2
  <2>3. ASSUME NEW w \in 0 .. ts, CompactPick(w)
        PROVE  comp'.pc = "merge" /\ comp'.old = <<>>
    BY <2>3 DEF CompactPick
  <2>4. CASE CompactBuild
    BY <1>0, <2>4 DEF CompactBuild, Idle, Types, CompTypes
  <2>5. CASE CompactSwap
    BY <2>5 DEF CompactSwap, NoComp
  <2>6. CASE CompactDelete /\ comp' # NoComp
    BY <1>0, <2>6 DEF CompactDelete, Idle, Types, CompTypes
  <2>7. CompactBuildFails \/ CompactRecordFails \/ Crash => comp' = NoComp
    BY DEF CompactBuildFails, CompactRecordFails, Crash
  <2> QED
    BY <2>1, <2>2, <2>3, <2>4, <2>5, <2>6, <2>7, Frames
<1> QED
  BY <1>1, <1>2, <1>3 DEF Idle

\* Types is inductive.
LEMMA TypesStep ==
    ASSUME Types, [Next]_vars
    PROVE  Types'
  BY WalTypes, SstTypes, ManifestTypes, TreeTypesStep, CounterTypesStep, WriterTypesStep,
     CompTypesStep, IdleStep
     DEF Types, DiskTypes, ManifestSet

\* Types holds in every reachable state.
LEMMA TypesAlways == Spec => []Types
<1>1. Init => Types
  BY TypesInit
<1>2. Types /\ [Next]_vars => Types'
  BY TypesStep
<1> QED
  BY <1>1, <1>2, PTL DEF Spec

(***************************************************************************)
(* Every variable keeps its type, whatever crashes and whatever fails.     *)
(***************************************************************************)
THEOREM LsmTypes == Spec => []TypeOK
<1>1. Types => TypeOK
  BY TypesTypeOK
<1> QED
  BY <1>1, TypesAlways, PTL

-----------------------------------------------------------------------------
(* Ids in use, and recovery. *)

TierNo == 0 .. MaxLevels

\* The tables of a tier, in memory and as replaying the manifest gives them.
TierIds(n) == IF n = 0 THEN IdsIn(l0) ELSE IdsIn(levels[n])
RecIds(n)  == IF n = 0 THEN IdsIn(manifest.l0) ELSE IdsIn(manifest.levels[n])

MemIds == {mem} \cup IdsIn(imm)
Named  == manifest.mems \cup RecordedTables
InUse  == MemIds \cup TableIds \cup Named \cup IdsIn(comp.new) \cup IdsIn(comp.old)

\* The manifest counts what it names, and a table is no memtable any more.
Counted ==
    /\ \A i \in Named : i <= manifest.maxID
    /\ manifest.mems \cap RecordedTables = {}

\* The next id is fresh.
Below == Loaded => \A i \in InUse \cup {mu.id} : i < nextID

\* An id has one role.
Apart ==
    Loaded =>
      /\ mem \notin IdsIn(imm)
      /\ MemIds \cap (TableIds \cup RecordedTables) = {}
      /\ IdsIn(comp.new) \cap (MemIds \cup TableIds \cup Named) = {}
      /\ IdsIn(comp.old) \cap (MemIds \cup TableIds \cup RecordedTables) = {}
      /\ mu.pc = "freeze" => mu.id \notin InUse
      /\ mu.pc = "flush" => sst[Oldest] = mems[Oldest]
      /\ mu.pc = "flushed" => mu.id \notin MemIds \cup manifest.mems

\* A table has one tier, and memory and manifest never disagree about it.
Homes ==
    \A m, n \in TierNo : m # n =>
      /\ RecIds(m) \cap RecIds(n) = {}
      /\ Loaded => TierIds(m) \cap (TierIds(n) \cup RecIds(n)) = {}

\* What is named exists.
Present == \A i \in RecordedTables \cup TableIds \cup IdsIn(comp.new) : sst[i] # NoFile

\* The layout may have grown since the task was picked, but only in L0.
TaskPicked ==
    comp.pc = "merge" =>
      LET u == comp.task.upperLevel
          l == comp.task.lowerLevel IN
      /\ strategy # "none"
      /\ u \in 0 .. MaxLevels - 1 /\ l \in 1 .. MaxLevels /\ u < l
      /\ strategy = "full" => u = 0 /\ l = MaxLevels
      /\ strategy # "full" => l = u + 1
      /\ IdsIn(comp.task.upperIDs) \subseteq TierIds(u)
      /\ u > 0 => comp.task.upperIDs = levels[u]
      /\ IdsIn(comp.task.lowerIDs) = TierIds(l)

\* The levels a strategy never fills are empty.
Unfilled ==
    \A i \in 1 .. MaxLevels :
      \/ strategy = "leveled"
      \/ strategy = "full" /\ i = MaxLevels
      \/ levels[i] = <<>> /\ manifest.levels[i] = <<>>

Uncompacted == strategy = "none" => ~ manifest.compacted

Reopening ==
    /\ up \in {"reading", "opened"} => l0 = manifest.l0 /\ levels = manifest.levels
    /\ up = "reading" => mem \notin Named

Structure ==
    /\ Counted /\ Below /\ Apart /\ Homes /\ Present
    /\ TaskPicked /\ Unfilled /\ Uncompacted /\ Reopening

-----------------------------------------------------------------------------
(* How a step changes the sets of ids. *)

LEMMA TierNumbers ==
    /\ \A n \in TierNo : n = 0 \/ n \in 1 .. MaxLevels
    /\ 0 \in TierNo /\ \A n \in 1 .. MaxLevels : n \in TierNo /\ n # 0
    /\ MaxLevels \in 1 .. MaxLevels
  BY ControllerAssumption DEF TierNo

\* The tables of the layout, tier by tier.
LEMMA TablesByTier ==
    ASSUME DOMAIN levels = 1 .. MaxLevels
    PROVE  /\ TableIds = UNION {TierIds(n) : n \in TierNo}
           /\ RecordedTables = UNION {RecIds(n) : n \in TierNo}
  BY TierNumbers DEF TableIds, RecordedTables, TierIds, RecIds

\* The same of the next state.
LEMMA TablesByTierNext ==
    ASSUME DOMAIN levels' = 1 .. MaxLevels
    PROVE  /\ TableIds' = UNION {TierIds(n)' : n \in TierNo}
           /\ RecordedTables' = UNION {RecIds(n)' : n \in TierNo}
  BY TierNumbers DEF TableIds, RecordedTables, TierIds, RecIds

\* What does not change when the tiers, the manifest or the memtables do not.
LEMMA SameTables ==
    /\ UNCHANGED <<l0, levels>> => TableIds' = TableIds /\ \A n \in TierNo : TierIds(n)' = TierIds(n)
    /\ UNCHANGED manifest =>
         /\ RecordedTables' = RecordedTables /\ Named' = Named
         /\ \A n \in TierNo : RecIds(n)' = RecIds(n)
    /\ UNCHANGED <<mem, imm>> => MemIds' = MemIds
  BY DEF TableIds, TierIds, RecordedTables, RecIds, Named, MemIds

\* The oldest immutable memtable is one of them.
LEMMA OldestIn ==
    ASSUME Types, imm # <<>>
    PROVE  Oldest \in IdsIn(imm)
<1>1. imm \in Seq(Id)
  BY DEF Types, TreeTypes
<1>2. Len(imm) \in DOMAIN imm
  BY <1>1
<1> QED
  BY <1>2 DEF Oldest, IdsIn

\* What a freeze does to the set of memtables (storage.go:385-395).
LEMMA FreezeEffect ==
    ASSUME Types, NewMemtable
    PROVE  /\ mem' = mu.id /\ IdsIn(imm') = {mem} \cup IdsIn(imm)
           /\ MemIds' = MemIds \cup {mu.id}
<1>1. mem \in Id /\ imm \in Seq(Id)
  BY DEF Types, TreeTypes
<1>2. IdsIn(<<mem>> \o imm) = {mem} \cup IdsIn(imm)
  BY <1>1, IdsInSmall
<1> QED
  BY <1>2 DEF NewMemtable, MemIds

\* What a flush does to the tiers (storage.go:422-432).
LEMMA FlushEffect ==
    ASSUME Types, FlushSwap
    PROVE  /\ imm # <<>> /\ Oldest \in Id /\ Oldest \in IdsIn(imm) /\ mem' = mem
           /\ IdsIn(imm') = IdsIn(imm) \ {Oldest}
           /\ \A n \in TierNo : TierIds(n)' = IF n = 0 THEN TierIds(0) \cup {Oldest} ELSE TierIds(n)
           /\ TableIds' = TableIds \cup {Oldest}
<1>1. imm # <<>> /\ imm \in Seq(Id) /\ l0 \in Seq(Id)
  BY DEF FlushSwap, Types, WriterTypes, TreeTypes
<1>2. Oldest \in Id /\ Oldest \in IdsIn(imm)
  BY <1>1, OldestType, OldestIn
<1>3. IdsIn(imm') = IdsIn(imm) \ {Oldest}
  <2>1. IdsIn(<<Oldest>>) = {Oldest}
    BY <1>1, <1>2, IdsInSmall
  <2> QED
    BY <1>1, <2>1, RemoveIDsResult DEF FlushSwap
<1>4. IdsIn(l0') = IdsIn(l0) \cup {Oldest} /\ levels' = levels /\ mem' = mem
  BY <1>1, <1>2, IdsInSmall DEF FlushSwap
<1> QED
  BY <1>1, <1>2, <1>3, <1>4 DEF TierIds, TableIds

\* What the manifest names after a memtable or a flush is recorded.
LEMMA RecordEffect ==
    ASSUME Types, NEW id \in Id
    PROVE  /\ manifest' = RecordMemtable(manifest, id) =>
                /\ manifest'.mems = manifest.mems \cup {id}
                /\ manifest'.maxID = Greater(manifest.maxID, id)
                /\ manifest'.l0 = manifest.l0 /\ manifest'.levels = manifest.levels
                /\ manifest'.compacted = manifest.compacted
                /\ RecordedTables' = RecordedTables
                /\ \A n \in TierNo : RecIds(n)' = RecIds(n)
           /\ manifest' = RecordFlush(manifest, id) =>
                /\ manifest'.mems = manifest.mems \ {id}
                /\ manifest'.maxID = Greater(manifest.maxID, id)
                /\ manifest'.l0 = <<id>> \o manifest.l0 /\ manifest'.levels = manifest.levels
                /\ manifest'.compacted = manifest.compacted
                /\ RecordedTables' = RecordedTables \cup {id}
                /\ \A n \in TierNo : RecIds(n)' = IF n = 0 THEN RecIds(0) \cup {id} ELSE RecIds(n)
<1>1. manifest \in ManifestSet /\ manifest.l0 \in Seq(Id)
  BY DEF Types, DiskTypes, ManifestSet
<1>2. CASE manifest' = RecordMemtable(manifest, id)
  <2>1. /\ manifest'.mems = manifest.mems \cup {id}
        /\ manifest'.maxID = Greater(manifest.maxID, id)
        /\ manifest'.l0 = manifest.l0 /\ manifest'.levels = manifest.levels
        /\ manifest'.compacted = manifest.compacted
    BY <1>1, <1>2 DEF RecordMemtable, ManifestSet
  <2>2. manifest' # RecordFlush(manifest, id)
    <3>1. RecordFlush(manifest, id).mems = manifest.mems \ {id}
      BY <1>1 DEF RecordFlush, ManifestSet
    <3> QED
      BY <2>1, <3>1
  <2> QED
    BY <2>1, <2>2 DEF RecordedTables, RecIds
<1>3. CASE manifest' = RecordFlush(manifest, id)
  <2>1. /\ manifest'.mems = manifest.mems \ {id}
        /\ manifest'.maxID = Greater(manifest.maxID, id)
        /\ manifest'.l0 = <<id>> \o manifest.l0 /\ manifest'.levels = manifest.levels
        /\ manifest'.compacted = manifest.compacted
    BY <1>1, <1>3 DEF RecordFlush, ManifestSet
  <2>2. IdsIn(manifest'.l0) = IdsIn(manifest.l0) \cup {id}
    BY <1>1, <2>1, IdsInSmall
  <2>3. manifest' # RecordMemtable(manifest, id)
    <3>1. RecordMemtable(manifest, id).mems = manifest.mems \cup {id}
      BY <1>1 DEF RecordMemtable, ManifestSet
    <3> QED
      BY <2>1, <3>1
  <2> QED
    BY <2>1, <2>2, <2>3 DEF RecordedTables, RecIds
<1> QED
  BY <1>2, <1>3

\* A compaction empties the tiers it takes from and fills the lower one.
LEMMA SwapEffect ==
    ASSUME Types, TaskPicked, Unfilled, SwapIn
    PROVE  \A n \in TierNo :
             TierIds(n)' = IF n = comp.task.lowerLevel THEN IdsIn(comp.new)
                           ELSE IF n = comp.task.upperLevel
                                THEN TierIds(n) \ IdsIn(comp.task.upperIDs)
                           ELSE TierIds(n)
<1> DEFINE u == comp.task.upperLevel
           l == comp.task.lowerLevel
<1>1. /\ strategy \in {"full", "leveled"} /\ l \in 1 .. MaxLevels /\ l # 0 /\ u < l
      /\ strategy = "full" => u = 0 /\ l = MaxLevels
  BY LsmAssumption, TierNumbers DEF TaskPicked, SwapIn, Types, CounterTypes
<1>2. l0 \in Seq(Id) /\ levels \in [1 .. MaxLevels -> Seq(Id)]
  BY DEF Types, TreeTypes, Levels
<1>3. /\ IdsIn(RemoveIDs(l0, comp.task.upperIDs)) = IdsIn(l0) \ IdsIn(comp.task.upperIDs)
      /\ \A i \in 1 .. MaxLevels :
           IdsIn(RemoveIDs(levels[i], comp.task.upperIDs))
             = IdsIn(levels[i]) \ IdsIn(comp.task.upperIDs)
  BY <1>2, RemoveIDsResult
<1>4. CASE strategy = "full"
  <2>1. /\ l0' = RemoveIDs(l0, comp.task.upperIDs)
        /\ levels' = [i \in 1 .. MaxLevels |-> IF i = MaxLevels THEN comp.new ELSE <<>>]
    BY <1>4 DEF SwapIn, ApplyResult, FullResult
  <2>2. \A i \in 1 .. MaxLevels : i # MaxLevels => levels[i] = <<>>
    BY <1>4 DEF Unfilled
  <2> QED
    BY <1>1, <1>3, <1>4, <2>1, <2>2, TierNumbers DEF TierIds
<1>5. CASE strategy = "leveled"
  <2>1. /\ l0' = IF u = 0 THEN RemoveIDs(l0, comp.task.upperIDs) ELSE l0
        /\ levels' = [i \in 1 .. MaxLevels |->
                        IF i = l THEN comp.new
                        ELSE IF i = u THEN RemoveIDs(levels[i], comp.task.upperIDs)
                        ELSE levels[i]]
    BY <1>5 DEF SwapIn, ApplyResult, LeveledResult
  <2> HIDE DEF u, l
  <2> QED
    BY <1>1, <1>3, <2>1, TierNumbers DEF TierIds, u, l
<1> QED
  BY <1>1, <1>4, <1>5

\* What replaying a compaction's record does to each tier (recover.go:65-76).
LEMMA RecordSwapEffect ==
    ASSUME Types, TaskPicked, SwapIn,
           manifest' = RecordCompaction(manifest, comp.task, comp.new)
    PROVE  /\ \A n \in TierNo :
                RecIds(n)' = IF n = comp.task.lowerLevel THEN IdsIn(comp.new)
                             ELSE IF n = comp.task.upperLevel
                                  THEN RecIds(n) \ IdsIn(comp.task.upperIDs)
                             ELSE RecIds(n)
           /\ manifest'.mems = manifest.mems
           /\ \A i \in {manifest.maxID} \cup IdsIn(comp.new) : i <= manifest'.maxID
<1> DEFINE u == comp.task.upperLevel
           l == comp.task.lowerLevel
<1>1. l \in 1 .. MaxLevels /\ l # 0
  BY TierNumbers DEF TaskPicked, SwapIn
<1>2. /\ manifest \in ManifestSet /\ manifest.l0 \in Seq(Id)
      /\ manifest.levels \in [1 .. MaxLevels -> Seq(Id)] /\ manifest.maxID \in Id
  BY DEF Types, DiskTypes, ManifestSet, Levels
<1>3. /\ IdsIn(RemoveIDs(manifest.l0, comp.task.upperIDs))
           = IdsIn(manifest.l0) \ IdsIn(comp.task.upperIDs)
      /\ \A i \in 1 .. MaxLevels :
           IdsIn(RemoveIDs(manifest.levels[i], comp.task.upperIDs))
             = IdsIn(manifest.levels[i]) \ IdsIn(comp.task.upperIDs)
  BY <1>2, RemoveIDsResult
<1>4. /\ manifest'.l0 = IF u = 0 THEN RemoveIDs(manifest.l0, comp.task.upperIDs)
                         ELSE manifest.l0
      /\ manifest'.levels = [i \in 1 .. MaxLevels |->
                               IF i = l THEN comp.new
                               ELSE IF i = u THEN RemoveIDs(manifest.levels[i], comp.task.upperIDs)
                               ELSE manifest.levels[i]]
      /\ manifest'.mems = manifest.mems
      /\ manifest'.maxID = Max({manifest.maxID} \cup IdsIn(comp.new))
  BY <1>2 DEF RecordCompaction, SupersededLevels, ManifestSet
<1>5. \A i \in {manifest.maxID} \cup IdsIn(comp.new) : i <= manifest'.maxID
  <2>1. {manifest.maxID} \cup IdsIn(comp.new) \in SUBSET (0 .. MaxId)
    BY <1>2, IdsInOf DEF Id, Types, CompTypes
  <2> DEFINE S == {manifest.maxID} \cup IdsIn(comp.new)
  <2>2. S # {} /\ S \in SUBSET (0 .. MaxId) /\ manifest'.maxID = Max(S)
    BY <1>4, <2>1
  <2> HIDE DEF S
  <2>3. \A i \in S : i <= manifest'.maxID
    BY <2>2, MaxOf, LsmAssumption
  <2> QED
    BY <2>3 DEF S
<1>6. \A n \in TierNo :
        RecIds(n)' = IF n = l THEN IdsIn(comp.new)
                     ELSE IF n = u THEN RecIds(n) \ IdsIn(comp.task.upperIDs)
                     ELSE RecIds(n)
  <2> HIDE DEF u, l
  <2> QED
    BY <1>1, <1>3, <1>4, TierNumbers DEF RecIds
<1> QED
  BY <1>4, <1>5, <1>6

\* The memtables, and whether a compaction is on record, that a swap leaves.
LEMMA PickEffect ==
    ASSUME Types, Unfilled, NEW w \in 0 .. ts, CompactPick(w)
    PROVE  /\ TaskPicked'
           /\ comp'.new = <<>> /\ comp'.old = <<>> /\ comp'.pc = "merge"
<1>1. PICK task \in Task(Id), rest \in Content :
        /\ PickShape(task, strategy, l0, levels)
        /\ comp' = [pc |-> "merge", task |-> task, new |-> <<>>, rest |-> rest, old |-> <<>>]
  BY PickedTask, Zenon
<1>2. /\ comp'.task = task /\ comp'.new = <<>> /\ comp'.old = <<>> /\ comp'.pc = "merge"
      /\ strategy # "none" /\ strategy' = strategy /\ l0' = l0 /\ levels' = levels
  BY <1>1 DEF CompactPick, tree
<1>3. /\ task.upperLevel \in 0 .. MaxLevels - 1 /\ task.lowerLevel \in 1 .. MaxLevels
      /\ task.upperLevel < task.lowerLevel
      /\ task.upperIDs = IF task.upperLevel = 0 THEN l0 ELSE levels[task.upperLevel]
      /\ strategy = "full" =>
           /\ task.upperLevel = 0 /\ task.lowerLevel = MaxLevels
           /\ IdsIn(task.lowerIDs) = UNION {IdsIn(levels[i]) : i \in 1 .. MaxLevels}
      /\ strategy # "full" =>
           task.lowerLevel = task.upperLevel + 1 /\ task.lowerIDs = levels[task.lowerLevel]
  BY <1>1 DEF PickShape, WholeTier
<1>4. IdsIn(task.lowerIDs) = IdsIn(levels[task.lowerLevel])
  <2>1. CASE strategy = "full"
    <3>1. \A i \in 1 .. MaxLevels : i # MaxLevels => levels[i] = <<>>
      BY <2>1 DEF Unfilled
    <3>2. IdsIn(<<>>) = {}
      BY DEF IdsIn
    <3>3. UNION {IdsIn(levels[i]) : i \in 1 .. MaxLevels} = IdsIn(levels[MaxLevels])
      BY <3>1, <3>2, TierNumbers
    <3> QED
      BY <1>3, <2>1, <3>3
  <2> QED
    BY <1>3, <2>1
<1> QED
  BY <1>2, <1>3, <1>4, TierNumbers DEF TaskPicked, TierIds

-----------------------------------------------------------------------------
(* Each part of the structure survives a step. *)

LEMMA Busy ==
    ASSUME Types
    PROVE  /\ mu.pc # "free" \/ comp.pc # "idle" => up = "up" /\ Loaded
           /\ comp.pc # "merge" => IdsIn(comp.new) = {}
           /\ comp.pc # "delete" => IdsIn(comp.old) = {}
           /\ DOMAIN levels = 1 .. MaxLevels
           /\ mu.id \in Nat /\ mem \in Nat /\ nextID \in Nat
           /\ InUse \subseteq Nat
<1>1. IdsIn(<<>>) = {}
  BY DEF IdsIn
<1>2. /\ TableIds \subseteq Nat /\ RecordedTables \subseteq Nat /\ manifest.mems \subseteq Nat
      /\ IdsIn(imm) \subseteq Nat /\ mem \in Nat /\ mu.id \in Nat
      /\ IdsIn(comp.new) \subseteq Nat /\ IdsIn(comp.old) \subseteq Nat
  <2>1. Id \subseteq Nat
    BY DEF Id
  <2>2. /\ IdsIn(imm) \subseteq Id /\ mem \in Id /\ mu.id \in Id
        /\ IdsIn(comp.new) \subseteq Id /\ IdsIn(comp.old) \subseteq Id
    BY IdsInOf DEF Types, TreeTypes, WriterTypes, CompTypes
  <2> QED
    BY <2>1, <2>2, NamedIds
<1>3. /\ mu.pc # "free" \/ comp.pc # "idle" => up = "up"
      /\ comp.pc # "merge" => comp.new = <<>>
      /\ comp.pc # "delete" => comp.old = <<>>
  <2>1. comp.pc \in {"idle", "merge", "delete"}
    BY DEF Types, CompTypes
  <2> QED
    BY <2>1 DEF Types, Idle, Unlocked, NoComp
<1>4. DOMAIN levels = 1 .. MaxLevels /\ nextID \in Nat
  BY DEF Types, TreeTypes, CounterTypes, Levels
<1> QED
  BY <1>1, <1>2, <1>3, <1>4 DEF Loaded, InUse, MemIds, Named

\* Recording a fresh id as a memtable.
LEMMA RecordedMemtable ==
    ASSUME Counted, NEW id \in Nat, id \notin Named,
           manifest.maxID \in Nat, Named \subseteq Nat,
           manifest'.mems = manifest.mems \cup {id}, RecordedTables' = RecordedTables,
           manifest'.maxID = Greater(manifest.maxID, id)
    PROVE  Counted'
<1>1. manifest.maxID <= manifest'.maxID /\ id <= manifest'.maxID /\ manifest'.maxID \in Nat
  BY DEF Greater
<1>2. \A i \in Named \cup {id} : i <= manifest'.maxID
  BY <1>1 DEF Counted
<1>3. manifest'.mems \cap RecordedTables' = {}
  BY DEF Counted, Named
<1> QED
  BY <1>2, <1>3 DEF Counted, Named

\* The manifest goes on counting what it names.
LEMMA CountedStep ==
    ASSUME Types, Structure, [Next]_vars
    PROVE  Counted'
<1>0. /\ \A i \in Named : i <= manifest.maxID /\ i \in Nat
      /\ manifest.mems \cap RecordedTables = {}
      /\ manifest.maxID \in Nat
  BY Busy, NamedIds DEF Structure, Counted, InUse
<1>1. CASE UNCHANGED manifest
  BY <1>0, <1>1, SameTables DEF Counted
<1>2. CASE FreezeInstall
  <2>1. /\ mu.pc = "freeze" /\ Loaded /\ mu.id \in Id /\ mu.id \in Nat
        /\ manifest' = RecordMemtable(manifest, mu.id)
    BY <1>2, Busy DEF FreezeInstall, NewMemtable, Types, WriterTypes
  <2>2. mu.id \notin Named
    BY <2>1 DEF Structure, Apart, InUse
  <2>3. /\ manifest'.mems = manifest.mems \cup {mu.id} /\ RecordedTables' = RecordedTables
        /\ manifest'.maxID = Greater(manifest.maxID, mu.id)
    BY <2>1, RecordEffect
  <2> QED
    BY <1>0, <2>1, <2>2, <2>3, RecordedMemtable DEF Structure
<1>3. CASE FlushRecord
  <2>1. Loaded /\ Oldest \in Id /\ Oldest \in Nat /\ Oldest \in MemIds
        /\ manifest' = RecordFlush(manifest, Oldest)
    BY <1>3, Busy, FlushEffect DEF FlushRecord, FlushSwap, MemIds, Id
  <2>2. Oldest \notin RecordedTables
    BY <2>1 DEF Structure, Apart
  <2>3. /\ manifest'.mems = manifest.mems \ {Oldest}
        /\ RecordedTables' = RecordedTables \cup {Oldest}
        /\ manifest'.maxID = Greater(manifest.maxID, Oldest)
    BY <2>1, RecordEffect
  <2>4. manifest.maxID <= manifest'.maxID /\ Oldest <= manifest'.maxID /\ manifest'.maxID \in Nat
    BY <1>0, <2>1, <2>3 DEF Greater
  <2>5. \A i \in Named \cup {Oldest} : i <= manifest'.maxID
    BY <1>0, <2>1, <2>4
  <2>6. manifest'.mems \cap RecordedTables' = {}
    BY <1>0, <2>2, <2>3
  <2> QED
    BY <2>3, <2>5, <2>6 DEF Counted, Named
<1>4. CASE CompactSwap
  <2>1. /\ SwapIn /\ manifest' = RecordCompaction(manifest, comp.task, comp.new)
        /\ TaskPicked /\ Loaded /\ comp.pc = "merge"
    BY <1>4, Busy DEF CompactSwap, SwapIn, Structure
  <2>2. RecordedTables' \subseteq RecordedTables \cup IdsIn(comp.new)
    <3>1. DOMAIN levels = 1 .. MaxLevels /\ DOMAIN levels' = 1 .. MaxLevels
      BY TypesStep, Busy DEF Types, TreeTypes, Levels
    <3> QED
      BY <2>1, <3>1, RecordSwapEffect, TablesByTier, TablesByTierNext
  <2>3. manifest'.mems = manifest.mems /\ manifest.maxID <= manifest'.maxID
        /\ \A i \in IdsIn(comp.new) : i <= manifest'.maxID
    BY <2>1, RecordSwapEffect
  <2>4. IdsIn(comp.new) \cap Named = {}
    BY <2>1 DEF Structure, Apart
  <2>5. manifest'.maxID \in Nat
    BY ManifestTypes DEF ManifestSet, Id
  <2> QED
    BY <1>0, <2>2, <2>3, <2>4, <2>5 DEF Counted, Named
<1>5. CASE RecoverRecord
  <2>1. mem \in Id /\ mem \in Nat /\ manifest' = RecordMemtable(manifest, mem)
    BY <1>5, Busy DEF RecoverRecord, Types, TreeTypes
  <2>2. mem \notin Named
    BY <1>5 DEF RecoverRecord, Structure, Reopening
  <2>3. /\ manifest'.mems = manifest.mems \cup {mem} /\ RecordedTables' = RecordedTables
        /\ manifest'.maxID = Greater(manifest.maxID, mem)
    BY <2>1, RecordEffect
  <2> QED
    BY <1>0, <2>1, <2>2, <2>3, RecordedMemtable DEF Structure
<1> QED
  BY <1>1, <1>2, <1>3, <1>4, <1>5, Frames

\* The head and the tail of a sequence hold its ids.
LEMMA TailIds ==
    ASSUME NEW S, NEW s \in Seq(S), s # <<>>
    PROVE  /\ Head(s) \in IdsIn(s)
           /\ IdsIn(Tail(s)) \subseteq IdsIn(s)
<1>1. Len(s) \in Nat /\ Len(s) > 0 /\ DOMAIN s = 1 .. Len(s) /\ Head(s) = s[1]
  OBVIOUS
<1>2. \A i \in DOMAIN Tail(s) : i + 1 \in DOMAIN s /\ Tail(s)[i] = s[i + 1]
  OBVIOUS
<1> QED
  BY <1>1, <1>2 DEF IdsIn

\* The inputs of a task are tables of the layout.
LEMMA TaskInputs ==
    ASSUME Types, Structure, comp.pc = "merge"
    PROVE  /\ IdsIn(InputIDs(comp.task)) = IdsIn(comp.task.upperIDs) \cup IdsIn(comp.task.lowerIDs)
           /\ IdsIn(comp.task.upperIDs) \subseteq TierIds(comp.task.upperLevel)
           /\ IdsIn(comp.task.lowerIDs) = TierIds(comp.task.lowerLevel)
           /\ comp.task.upperLevel \in TierNo /\ comp.task.lowerLevel \in TierNo
           /\ comp.task.upperLevel # comp.task.lowerLevel
           /\ IdsIn(InputIDs(comp.task)) \subseteq TableIds
<1>1. comp.task \in Task(Id)
  BY DEF Types, CompTypes
<1>2. comp.task.upperIDs \in Seq(Id) /\ comp.task.lowerIDs \in Seq(Id)
  BY <1>1 DEF Task
<1>3. IdsIn(InputIDs(comp.task)) = IdsIn(comp.task.upperIDs) \cup IdsIn(comp.task.lowerIDs)
  BY <1>2, IdsInConcat DEF InputIDs
<1>4. /\ IdsIn(comp.task.upperIDs) \subseteq TierIds(comp.task.upperLevel)
      /\ IdsIn(comp.task.lowerIDs) = TierIds(comp.task.lowerLevel)
      /\ comp.task.upperLevel \in 0 .. MaxLevels - 1 /\ comp.task.lowerLevel \in 1 .. MaxLevels
      /\ comp.task.upperLevel < comp.task.lowerLevel
  BY DEF Structure, TaskPicked
<1>5. /\ comp.task.upperLevel \in TierNo /\ comp.task.lowerLevel \in TierNo
      /\ comp.task.upperLevel # comp.task.lowerLevel
  BY <1>4, ControllerAssumption DEF TierNo
<1>6. TierIds(comp.task.upperLevel) \cup TierIds(comp.task.lowerLevel) \subseteq TableIds
  BY <1>5, Busy, TablesByTier
<1> QED
  BY <1>3, <1>4, <1>5, <1>6

\* Which steps change the list of new tables, and that of old ones.
LEMMA CompSteps ==
    ASSUME Types, Structure, [Next]_vars
    PROVE  /\ comp'.new = <<>> \/ comp'.new = comp.new \/ CompactBuild
           /\ comp'.old = <<>> \/ comp'.old = comp.old \/ CompactSwap \/ CompactDelete
<1>0. /\ comp \in [pc : {"idle", "merge", "delete"}, task : Task(Id) \cup {NoTask},
                   rest : Content, new : Seq(Id), old : Seq(Id)]
      /\ comp.pc = "merge" => comp.old = <<>>
      /\ NoComp.new = <<>> /\ NoComp.old = <<>>
  BY DEF Types, CompTypes, Idle, NoComp
<1>1. CASE UNCHANGED comp
  BY <1>1
<1>2. ASSUME NEW w \in 0 .. ts, CompactPick(w)
      PROVE  comp'.new = <<>> /\ comp'.old = <<>>
  BY <1>2, PickEffect DEF Structure
<1>3. CASE CompactBuild
  BY <1>0, <1>3 DEF CompactBuild
<1>4. CASE CompactSwap
  BY <1>4 DEF CompactSwap, NoComp
<1>5. CASE CompactDelete
  BY <1>0, <1>5 DEF CompactDelete
<1>6. CompactBuildFails \/ CompactRecordFails \/ Crash => comp' = NoComp
  BY DEF CompactBuildFails, CompactRecordFails, Crash
<1> QED
  BY <1>0, <1>1, <1>2, <1>3, <1>4, <1>5, <1>6, Frames

\* Ids change their roles; only the next one is new.
LEMMA Moves ==
    ASSUME Types, Structure, [Next]_vars, Loaded, Loaded'
    PROVE  /\ MemIds' \subseteq MemIds \cup {mu.id}
           /\ TableIds' \subseteq TableIds \cup MemIds \cup IdsIn(comp.new)
           /\ RecordedTables' \subseteq RecordedTables \cup MemIds \cup IdsIn(comp.new)
           /\ manifest'.mems \subseteq manifest.mems \cup MemIds \cup {mu.id}
           /\ \/ IdsIn(comp'.new) \subseteq IdsIn(comp.new)
              \/ CompactBuild /\ IdsIn(comp'.new) = IdsIn(comp.new) \cup {nextID}
           /\ IdsIn(comp'.old) \subseteq IdsIn(comp.old) \cup TableIds
<1>0. /\ ~ Crash /\ \A s \in Strategies : ~ RecoverOpen(s)
      /\ DOMAIN levels = 1 .. MaxLevels /\ DOMAIN levels' = 1 .. MaxLevels
  BY TypesStep, Busy DEF Loaded, Crash, RecoverOpen, Types, TreeTypes, Levels
<1>1. MemIds' \subseteq MemIds \cup {mu.id}
  <2>1. CASE NewMemtable
    BY <2>1, FreezeEffect
  <2>2. CASE FlushSwap
    BY <2>2, FlushEffect DEF MemIds
  <2> QED
    BY <1>0, <2>1, <2>2, SameTables, Frames, StepsOf
<1>2. TableIds' \subseteq TableIds \cup MemIds \cup IdsIn(comp.new)
  <2>1. CASE FlushSwap
    BY <2>1, FlushEffect DEF MemIds
  <2>2. CASE SwapIn
    <3>1. TaskPicked /\ Unfilled
      BY DEF Structure
    <3>2. \A n \in TierNo : TierIds(n)' \subseteq TierIds(n) \cup IdsIn(comp.new)
      BY <2>2, <3>1, SwapEffect
    <3> QED
      BY <1>0, <3>2, TablesByTier, TablesByTierNext
  <2> QED
    BY <1>0, <2>1, <2>2, SameTables, Frames, StepsOf
<1>3. /\ RecordedTables' \subseteq RecordedTables \cup MemIds \cup IdsIn(comp.new)
      /\ manifest'.mems \subseteq manifest.mems \cup MemIds \cup {mu.id}
  <2>1. CASE FreezeInstall
    <3>1. mu.id \in Id /\ manifest' = RecordMemtable(manifest, mu.id)
      BY <2>1 DEF FreezeInstall, Types, WriterTypes
    <3> QED
      BY <3>1, RecordEffect
  <2>2. CASE FlushRecord
    <3>1. Oldest \in Id /\ Oldest \in MemIds /\ manifest' = RecordFlush(manifest, Oldest)
      BY <2>2, FlushEffect DEF FlushRecord, MemIds
    <3> QED
      BY <3>1, RecordEffect
  <2>3. CASE CompactSwap
    <3>1. /\ TaskPicked /\ SwapIn /\ manifest' = RecordCompaction(manifest, comp.task, comp.new)
      BY <2>3 DEF Structure, CompactSwap
    <3>2. /\ \A n \in TierNo : RecIds(n)' \subseteq RecIds(n) \cup IdsIn(comp.new)
          /\ manifest'.mems = manifest.mems
      BY <3>1, RecordSwapEffect
    <3> QED
      BY <1>0, <3>2, TablesByTier, TablesByTierNext
  <2>4. CASE RecoverRecord
    <3>1. mem \in Id /\ mem \in MemIds /\ manifest' = RecordMemtable(manifest, mem)
      BY <2>4 DEF RecoverRecord, Types, TreeTypes, MemIds
    <3> QED
      BY <3>1, RecordEffect
  <2> QED
    BY <2>1, <2>2, <2>3, <2>4, SameTables, Frames
<1>4. \/ IdsIn(comp'.new) \subseteq IdsIn(comp.new)
      \/ CompactBuild /\ IdsIn(comp'.new) = IdsIn(comp.new) \cup {nextID}
  <2>1. comp'.new = <<>> \/ comp'.new = comp.new \/ CompactBuild
    BY <1>0, CompSteps
  <2>2. CASE CompactBuild
    <3>1. nextID \in Id /\ comp.new \in Seq(Id) /\ comp'.new = Append(comp.new, nextID)
      BY <2>2, IdNext DEF CompactBuild, Types, CompTypes
    <3> QED
      BY <2>2, <3>1, AppendIds
  <2>3. comp'.new = <<>> => IdsIn(comp'.new) = {}
    BY DEF IdsIn
  <2> QED
    BY <2>1, <2>2, <2>3
<1>5. IdsIn(comp'.old) \subseteq IdsIn(comp.old) \cup TableIds
  <2>1. CASE CompactSwap
    <3>1. comp.pc = "merge" /\ comp'.old = InputIDs(comp.task)
      BY <2>1 DEF CompactSwap, SwapIn, NoComp
    <3> QED
      BY <3>1, TaskInputs
  <2>2. CASE CompactDelete
    <3>1. comp.old \in Seq(Id) /\ comp.old # <<>>
      BY <2>2 DEF CompactDelete, Types, CompTypes
    <3>2. comp'.old = <<>> \/ comp'.old = Tail(comp.old)
      BY <2>2 DEF CompactDelete, NoComp, Types, CompTypes
    <3>3. IdsIn(Tail(comp.old)) \subseteq IdsIn(comp.old) /\ IdsIn(<<>>) = {}
      BY <3>1, TailIds DEF IdsIn
    <3> QED
      BY <3>2, <3>3
  <2>3. comp'.old = <<>> \/ comp'.old = comp.old \/ CompactSwap \/ CompactDelete
    BY <1>0, CompSteps
  <2> QED
    BY <2>1, <2>2, <2>3 DEF IdsIn
<1> QED
  BY <1>1, <1>2, <1>3, <1>4, <1>5

\* A recovery starts from what the manifest names.
LEMMA OpenEffect ==
    ASSUME Types, NEW s \in Strategies, RecoverOpen(s)
    PROVE  /\ mem' = manifest.maxID + 1 /\ nextID' = manifest.maxID + 2
           /\ IdsIn(imm') = Unflushed /\ Unflushed \subseteq manifest.mems
           /\ TableIds' = RecordedTables
           /\ \A n \in TierNo : TierIds(n)' = RecIds(n)
           /\ UNCHANGED <<manifest, sst>>
           /\ mu' = Unlocked /\ comp' = NoComp
           /\ Loaded' /\ ~ Loaded
<1>1. /\ imm' = NewestFirst(Unflushed) /\ mem' = manifest.maxID + 1 /\ nextID' = mem' + 1
      /\ l0' = manifest.l0 /\ levels' = manifest.levels
      /\ UNCHANGED <<manifest, sst, mu, comp>> /\ up = "down" /\ up' = "reading"
  BY RecoverOpenTree
<1>2. IdsIn(imm') = Unflushed
  BY <1>1, UnflushedType
<1>3. \A n \in TierNo : TierIds(n)' = RecIds(n)
  BY <1>1 DEF TierIds, RecIds
<1>4. mu' = Unlocked /\ comp' = NoComp
  BY <1>1 DEF Types, Idle
<1>5. TableIds' = RecordedTables
  <2>1. DOMAIN manifest.levels = 1 .. MaxLevels
    BY DEF Types, DiskTypes, Levels
  <2> QED
    BY <1>1, <2>1 DEF TableIds, RecordedTables
<1> QED
  BY <1>1, <1>2, <1>3, <1>4, <1>5, NamedIds DEF Unflushed, Loaded

\* The next id stays fresh.
LEMMA BelowStep ==
    ASSUME Types, Structure, [Next]_vars
    PROVE  Below'
<1> SUFFICES ASSUME Loaded'
             PROVE  \A i \in InUse' \cup {mu'.id} : i < nextID'
  BY DEF Below
<1>1. CASE Loaded
  <2>0. /\ ~ Crash /\ \A s \in Strategies : ~ RecoverOpen(s)
    BY <1>1 DEF Loaded, Crash, RecoverOpen
  <2>1. /\ \A i \in InUse \cup {mu.id} : i < nextID /\ i \in Nat
        /\ nextID \in Nat /\ mem \in MemIds /\ 0 < nextID
    <3>1. \A i \in InUse \cup {mu.id} : i < nextID /\ i \in Nat
      BY <1>1, Busy DEF Structure, Below
    <3>2. mem \in InUse /\ mem \in MemIds /\ nextID \in Nat
      BY Busy DEF InUse, MemIds
    <3> QED
      BY <3>1, <3>2
  <2>2. nextID' = nextID \/ nextID' = nextID + 1
    BY <2>0, Frames DEF FreezeCreate, FreezeFails, CompactBuild, CompactBuildFails, MayTakeId
  <2>3. InUse' \subseteq InUse \cup {mu.id} \cup {i \in {nextID} : CompactBuild}
    BY <1>1, Moves DEF InUse, Named
  <2>4. CompactBuild => nextID' = nextID + 1
    BY DEF CompactBuild
  <2>5. \/ mu'.id = mu.id \/ mu'.id = 0
        \/ mu'.id = nextID /\ nextID' = nextID + 1
        \/ mu'.id \in MemIds
    <3>1. CASE UNCHANGED mu
      BY <3>1
    <3>2. mu' = Unlocked => mu'.id = 0
      BY DEF Unlocked
    <3>3. ASSUME NEW b \in Batches, WriteStart(b)
          PROVE  mu'.id = 0
      BY <3>3 DEF WriteStart, Unlocked
    <3>4. CASE WalAppend
      BY <3>4 DEF WalAppend, Types, WriterTypes
    <3>5. ASSUME NEW who \in Freezer, FreezeCreate(who)
          PROVE  mu'.id = nextID /\ nextID' = nextID + 1
      BY <3>5 DEF FreezeCreate, Unlocked
    <3>6. CASE FlushBuild
      BY <3>6 DEF FlushBuild, Unlocked
    <3>7. CASE FlushRecord
      BY <3>7, FlushEffect DEF FlushRecord, MemIds, Types, WriterTypes
    <3>8. \/ WalAppendFails \/ WriteApply \/ FreezeInstall \/ FreezeRecordFails
          \/ FlushRecordFails \/ FlushRemove
          => mu' = Unlocked
      BY StepsOf DEF WalAppendFails, WriteApply, NewMemtable, FlushRecordFails, FlushRemove, Release
    <3> QED
      BY <2>0, <3>1, <3>2, <3>3, <3>4, <3>5, <3>6, <3>7, <3>8, Frames
  <2>6. MemIds \subseteq InUse
    BY DEF InUse
  <2> QED
    BY <2>1, <2>2, <2>3, <2>4, <2>5, <2>6
<1>2. CASE ~ Loaded
  <2>1. PICK s \in Strategies : RecoverOpen(s)
    BY <1>2, Frames DEF Loaded, Crash, RecoverRecord, Serve
  <2>2. /\ \A i \in Named : i <= manifest.maxID /\ i \in Nat
        /\ manifest.maxID \in Nat
    BY NamedIds, Busy DEF Structure, Counted, InUse
  <2>3. Named' = Named /\ InUse' = {mem'} \cup Unflushed \cup Named /\ mu'.id = 0
    <3>1. IdsIn(<<>>) = {}
      BY DEF IdsIn
    <3>2. mu'.id = 0 /\ IdsIn(comp'.new) = {} /\ IdsIn(comp'.old) = {}
      BY <2>1, <3>1, OpenEffect DEF Unlocked, NoComp
    <3>3. Named' = Named /\ RecordedTables' = RecordedTables
      BY <2>1, OpenEffect, SameTables
    <3> QED
      BY <2>1, <3>2, <3>3, OpenEffect DEF InUse, MemIds, Named
  <2>4. Unflushed \subseteq Named /\ mem' = manifest.maxID + 1 /\ nextID' = manifest.maxID + 2
    BY <2>1, OpenEffect DEF Named
  <2> QED
    BY <2>2, <2>3, <2>4
<1> QED
  BY <1>1, <1>2

\* Deleting a table takes it from the list of those to delete.
LEMMA DeleteOld ==
    ASSUME Types, CompactDelete
    PROVE  IdsIn(comp'.old) \subseteq IdsIn(comp.old)
<1>1. comp.old \in Seq(Id) /\ comp.old # <<>>
  BY DEF CompactDelete, Types, CompTypes
<1>2. comp'.old = <<>> \/ comp'.old = Tail(comp.old)
  BY DEF CompactDelete, NoComp, Types, CompTypes
<1>3. IdsIn(Tail(comp.old)) \subseteq IdsIn(comp.old) /\ IdsIn(<<>>) = {}
  BY <1>1, TailIds DEF IdsIn
<1> QED
  BY <1>2, <1>3

\* A swap brings in new tables only, and no memtable.
LEMMA SwapTables ==
    ASSUME Types, Structure, CompactSwap \/ CompactRecordFails, Types'
    PROVE  /\ TableIds' \subseteq TableIds \cup IdsIn(comp.new)
           /\ RecordedTables' \subseteq RecordedTables \cup IdsIn(comp.new)
           /\ manifest'.mems = manifest.mems
<1>1. /\ DOMAIN levels = 1 .. MaxLevels /\ DOMAIN levels' = 1 .. MaxLevels
      /\ TaskPicked /\ Unfilled /\ SwapIn
  BY StepsOf DEF Types, TreeTypes, Levels, Structure
<1>2. \A n \in TierNo : TierIds(n)' \subseteq TierIds(n) \cup IdsIn(comp.new)
  BY <1>1, SwapEffect
<1>3. CASE CompactSwap
  <2>1. manifest' = RecordCompaction(manifest, comp.task, comp.new)
    BY <1>3 DEF CompactSwap
  <2>2. /\ \A n \in TierNo : RecIds(n)' \subseteq RecIds(n) \cup IdsIn(comp.new)
        /\ manifest'.mems = manifest.mems
    BY <1>1, <2>1, RecordSwapEffect
  <2> QED
    BY <1>1, <1>2, <2>2, TablesByTier, TablesByTierNext
<1>4. CASE CompactRecordFails
  <2>1. UNCHANGED manifest
    BY <1>4 DEF CompactRecordFails
  <2> QED
    BY <1>1, <1>2, <2>1, TablesByTier, TablesByTierNext, SameTables
<1> QED
  BY <1>3, <1>4

\* What the record superseded is in no tier any more.
LEMMA SwappedOut ==
    ASSUME Types, Structure, CompactSwap, Types', Loaded
    PROVE  /\ comp'.old = InputIDs(comp.task)
           /\ IdsIn(InputIDs(comp.task))
                \cap (MemIds \cup TableIds' \cup RecordedTables') = {}
<1> DEFINE u   == comp.task.upperLevel
           l   == comp.task.lowerLevel
           out == IdsIn(InputIDs(comp.task))
<1>1. /\ DOMAIN levels = 1 .. MaxLevels /\ DOMAIN levels' = 1 .. MaxLevels
      /\ TaskPicked /\ Unfilled /\ SwapIn /\ comp.pc = "merge"
      /\ manifest' = RecordCompaction(manifest, comp.task, comp.new)
      /\ comp'.old = InputIDs(comp.task)
  BY DEF Types, TreeTypes, Levels, Structure, CompactSwap, SwapIn, NoComp
<1>2. /\ out = IdsIn(comp.task.upperIDs) \cup IdsIn(comp.task.lowerIDs)
      /\ IdsIn(comp.task.upperIDs) \subseteq TierIds(u)
      /\ IdsIn(comp.task.lowerIDs) = TierIds(l)
      /\ u \in TierNo /\ l \in TierNo /\ u # l /\ out \subseteq TableIds
  BY <1>1, TaskInputs
<1>3. /\ IdsIn(comp.new) \cap TableIds = {} /\ MemIds \cap TableIds = {}
  BY DEF Structure, Apart
<1>4. \A m, n \in TierNo : m # n => TierIds(m) \cap (TierIds(n) \cup RecIds(n)) = {}
  BY DEF Structure, Homes
<1>5. ASSUME NEW n \in TierNo
      PROVE  out \cap (TierIds(n)' \cup RecIds(n)') = {}
  <2>1. CASE n = l
    <3>1. TierIds(n)' = IdsIn(comp.new) /\ RecIds(n)' = IdsIn(comp.new)
      BY <1>1, <2>1, SwapEffect, RecordSwapEffect
    <3> QED
      BY <1>2, <1>3, <3>1
  <2>2. CASE n = u
    <3>1. /\ TierIds(n)' = TierIds(u) \ IdsIn(comp.task.upperIDs)
          /\ RecIds(n)' = RecIds(u) \ IdsIn(comp.task.upperIDs)
      BY <1>1, <1>2, <2>2, SwapEffect, RecordSwapEffect
    <3>2. TierIds(l) \cap (TierIds(u) \cup RecIds(u)) = {}
      BY <1>2, <1>4
    <3> QED
      BY <1>2, <3>1, <3>2
  <2>3. CASE n # l /\ n # u
    <3>1. TierIds(n)' = TierIds(n) /\ RecIds(n)' = RecIds(n)
      BY <1>1, <2>3, SwapEffect, RecordSwapEffect
    <3>2. (TierIds(u) \cup TierIds(l)) \cap (TierIds(n) \cup RecIds(n)) = {}
      BY <1>2, <1>4, <2>3
    <3> QED
      BY <1>2, <3>1, <3>2
  <2> QED
    BY <2>1, <2>2, <2>3
<1> HIDE DEF out
<1>6. out \cap (TableIds' \cup RecordedTables') = {}
  BY <1>1, <1>5, TablesByTierNext
<1> QED
  BY <1>1, <1>2, <1>3, <1>6 DEF out

\* The conjuncts of Apart once the engine is loaded.
Separate ==
    /\ mem \notin IdsIn(imm)
    /\ MemIds \cap (TableIds \cup RecordedTables) = {}
    /\ IdsIn(comp.new) \cap (MemIds \cup TableIds \cup Named) = {}
    /\ IdsIn(comp.old) \cap (MemIds \cup TableIds \cup RecordedTables) = {}

InHand ==
    /\ mu.pc = "freeze" => mu.id \notin InUse
    /\ mu.pc = "flush" => sst[Oldest] = mems[Oldest]
    /\ mu.pc = "flushed" => mu.id \notin MemIds \cup manifest.mems

\* A step that takes no id and changes no tier keeps roles apart.
LEMMA SeparateQuiet ==
    ASSUME Separate, UNCHANGED <<mem, imm, l0, levels, manifest>>,
           IdsIn(comp'.new) \subseteq IdsIn(comp.new), IdsIn(comp'.old) \subseteq IdsIn(comp.old)
    PROVE  Separate' /\ InUse' \subseteq InUse
<1>1. /\ MemIds' = MemIds /\ TableIds' = TableIds /\ RecordedTables' = RecordedTables
      /\ Named' = Named
  BY SameTables
<1> QED
  BY <1>1 DEF Separate, InUse

\* Apart in two parts: roles, and ids in the hands of a goroutine.
LEMMA ApartLoaded ==
    /\ Apart = (Loaded => Separate /\ InHand)
    /\ Apart' = (Loaded' => Separate' /\ InHand')
  BY DEF Apart, Separate, InHand

\* Ids keep one role each.
LEMMA SeparateStep ==
    ASSUME Types, Structure, [Next]_vars, Loaded'
    PROVE  Separate'
<1>0. IdsIn(<<>>) = {}
  BY DEF IdsIn
<1>1. CASE Loaded
  <2>0. /\ ~ Crash /\ \A s \in Strategies : ~ RecoverOpen(s)
        /\ DOMAIN levels = 1 .. MaxLevels /\ DOMAIN levels' = 1 .. MaxLevels
        /\ Separate /\ InHand
    BY <1>1, TypesStep, Busy, ApartLoaded
       DEF Loaded, Crash, RecoverOpen, Types, TreeTypes, Levels, Structure
  <2>1. CASE FreezeInstall \/ FreezeRecordFails
    <3>1. NewMemtable /\ mu.id \notin InUse /\ UNCHANGED <<l0, levels, comp>>
      BY <2>0, <2>1, StepsOf DEF NewMemtable, InHand
    <3>2. /\ mem' = mu.id /\ IdsIn(imm') = {mem} \cup IdsIn(imm)
          /\ MemIds' = MemIds \cup {mu.id} /\ TableIds' = TableIds
      BY <3>1, FreezeEffect, SameTables
    <3>3. RecordedTables' = RecordedTables /\ Named' \subseteq Named \cup {mu.id}
      <4>1. CASE FreezeInstall
        <5>1. mu.id \in Id /\ manifest' = RecordMemtable(manifest, mu.id)
          BY <4>1 DEF FreezeInstall, Types, WriterTypes
        <5> QED
          BY <5>1, RecordEffect, ZenonT(30) DEF Named
      <4>2. CASE UNCHANGED manifest
        BY <4>2, SameTables
      <4> QED
        BY <2>1, <4>1, <4>2 DEF FreezeRecordFails
    <3>4. mu.id \notin {mem} \cup IdsIn(imm) \cup TableIds \cup RecordedTables \cup Named
                        \cup IdsIn(comp.new) \cup IdsIn(comp.old)
      BY <3>1, Zenon DEF InUse, MemIds, Named
    <3>5. comp' = comp
      BY <3>1
    <3> QED
      BY <2>0, <3>2, <3>3, <3>4, <3>5 DEF Separate
  <2>2. CASE FlushRecord \/ FlushRecordFails
    <3>0. FlushSwap
      BY <2>2, StepsOf
    <3>1. /\ Oldest \in Id /\ Oldest \in IdsIn(imm) /\ mem' = mem
          /\ IdsIn(imm') = IdsIn(imm) \ {Oldest} /\ TableIds' = TableIds \cup {Oldest}
      BY <3>0, FlushEffect
    <3>2. /\ RecordedTables' \subseteq RecordedTables \cup {Oldest}
          /\ Named' \subseteq Named \cup {Oldest}
      <4>1. CASE manifest' = RecordFlush(manifest, Oldest)
        BY <3>1, <4>1, RecordEffect DEF Named
      <4>2. CASE UNCHANGED manifest
        BY <4>2, SameTables
      <4> QED
        BY <2>2, <4>1, <4>2 DEF FlushRecord, FlushRecordFails
    <3>3. UNCHANGED comp
      BY <3>0 DEF FlushSwap
    <3> QED
      BY <2>0, <3>1, <3>2, <3>3 DEF Separate, MemIds
  <2>3. CASE CompactBuild
    <3>1. /\ UNCHANGED <<mem, imm, l0, levels, manifest>> /\ comp.pc = "merge"
          /\ comp'.old = comp.old
      BY <2>3 DEF CompactBuild, tree, Types, CompTypes
    <3>2. IdsIn(comp'.new) \subseteq IdsIn(comp.new) \cup {nextID}
      BY <1>1, Moves
    <3>3. nextID \notin InUse
      <4>1. \A i \in InUse : i < nextID /\ i \in Nat
        BY <1>1, Busy DEF Structure, Below
      <4> QED
        BY <4>1, Busy
    <3>4. /\ MemIds' = MemIds /\ TableIds' = TableIds /\ RecordedTables' = RecordedTables
          /\ Named' = Named
      BY <3>1, SameTables
    <3> QED
      BY <2>0, <3>1, <3>2, <3>3, <3>4 DEF Separate, InUse
  <2>4. CASE CompactSwap \/ CompactRecordFails
    <3>0. comp'.new = <<>>
      <4>1. CompactSwap => comp'.new = <<>>
        BY DEF CompactSwap, NoComp
      <4>2. CompactRecordFails => comp'.new = <<>>
        BY DEF CompactRecordFails, NoComp
      <4> QED
        BY <2>4, <4>1, <4>2
    <3>1. comp.pc = "merge" /\ UNCHANGED <<mem, imm>> /\ IdsIn(comp'.new) = {}
          /\ IdsIn(comp.new) \cap (MemIds \cup TableIds \cup Named) = {}
      BY <1>0, <2>0, <2>4, <3>0 DEF CompactSwap, CompactRecordFails, SwapIn, Separate
    <3>2. MemIds' = MemIds
      BY <3>1, SameTables
    <3>3. /\ TableIds' \subseteq TableIds \cup IdsIn(comp.new)
          /\ RecordedTables' \subseteq RecordedTables \cup IdsIn(comp.new)
      BY <2>4, SwapTables, TypesStep
    <3>4. IdsIn(comp'.old) \cap (MemIds \cup TableIds' \cup RecordedTables') = {}
      <4>1. CASE IdsIn(comp'.old) = {}
        BY <4>1
      <4>2. CASE CompactSwap
        BY <1>1, <4>2, SwappedOut, TypesStep
      <4> QED
        BY <1>0, <2>4, <4>1, <4>2 DEF CompactRecordFails, NoComp
    <3> QED
      BY <2>0, <3>1, <3>2, <3>3, <3>4 DEF Separate, MemIds, Named
  <2>5. CASE RecoverRecord
    <3>1. /\ UNCHANGED <<mem, imm, l0, levels, comp>> /\ comp = NoComp
          /\ mem \in Id /\ manifest' = RecordMemtable(manifest, mem)
      BY <2>5 DEF RecoverRecord, Types, Idle, TreeTypes, tree
    <3>2. RecordedTables' = RecordedTables
      BY <3>1, RecordEffect
    <3>3. MemIds' = MemIds /\ TableIds' = TableIds
      BY <3>1, SameTables
    <3> QED
      BY <1>0, <2>0, <3>1, <3>2, <3>3 DEF Separate, NoComp
  <2>6. CASE UNCHANGED <<mem, imm, l0, levels, manifest>> /\ ~ CompactBuild /\ ~ CompactSwap
    <3>1. /\ IdsIn(comp'.new) \subseteq IdsIn(comp.new)
          /\ IdsIn(comp'.old) \subseteq IdsIn(comp.old)
      BY <1>0, <2>6, CompSteps, DeleteOld
    <3> QED
      BY <2>0, <2>6, <3>1, SeparateQuiet
  <2> QED
    BY <2>0, <2>1, <2>2, <2>3, <2>4, <2>5, <2>6, Frames, StepsOf
<1>2. CASE ~ Loaded
  <2>1. PICK s \in Strategies : RecoverOpen(s)
    BY <1>2, Frames DEF Loaded, Crash, RecoverRecord, Serve
  <2>2. /\ mem' = manifest.maxID + 1 /\ IdsIn(imm') = Unflushed /\ Unflushed \subseteq manifest.mems
        /\ TableIds' = RecordedTables /\ RecordedTables' = RecordedTables
        /\ IdsIn(comp'.new) = {} /\ IdsIn(comp'.old) = {}
    BY <1>0, <2>1, OpenEffect, SameTables DEF NoComp
  <2>3. mem' \notin Named
    BY <2>2, NamedIds DEF Structure, Counted
  <2>4. manifest.mems \cap RecordedTables = {}
    BY DEF Structure, Counted
  <2> QED
    BY <2>2, <2>3, <2>4 DEF Separate, MemIds, Named
<1> QED
  BY <1>1, <1>2

\* While Storage.mu is held, the others leave the tiers alone.
LEMMA HeldStill ==
    ASSUME Types, [Next]_vars, mu.pc # "free", UNCHANGED mu
    PROVE  /\ UNCHANGED <<mem, imm, mems, l0, levels, manifest, up, strategy>>
           /\ ~ CompactSwap /\ ~ (\E w \in 0 .. ts : CompactPick(w))
<1>1. /\ up = "up" /\ mu # Unlocked /\ Unlocked.pc = "free"
      /\ mu.pc \in {"log", "freeze", "flush", "flushed"}
  BY Busy DEF Unlocked, Types, WriterTypes
<1>2. ~ Free /\ ~ Crash /\ ~ (\E s \in Strategies : RecoverOpen(s)) /\ ~ RecoverRecord /\ ~ Serve
  BY <1>1 DEF Free, Crash, RecoverOpen, RecoverRecord, Serve
<1>3. ~ NewMemtable /\ ~ WriteApply /\ ~ FlushRecordFails
  BY <1>1 DEF NewMemtable, WriteApply, FlushRecordFails, Release
<1>4. ~ FlushRecord
  BY <1>1 DEF FlushRecord, FlushSwap, Types, WriterTypes
<1>5. ~ CompactSwap /\ ~ CompactRecordFails /\ ~ (\E w \in 0 .. ts : CompactPick(w))
  BY <1>2 DEF CompactSwap, CompactRecordFails, SwapIn, CompactPick
<1> QED
  BY <1>2, <1>3, <1>4, <1>5, Frames, StepsOf

\* The file of a table somebody may read or name stays as it is.
LEMMA SstKept ==
    ASSUME Types, Structure, [Next]_vars, Loaded,
           NEW i \in MemIds \cup TableIds \cup RecordedTables \cup IdsIn(comp.new),
           i \in MemIds => ~ FlushBuild /\ up = "up"
    PROVE  sst'[i] = sst[i]
<1>0. /\ i \in Nat /\ i < nextID /\ nextID \in Nat
      /\ sst \in [Id -> Content \cup {NoFile}]
  BY Busy DEF Structure, Below, InUse, Types, DiskTypes, Named
<1>1. CASE FlushBuild
  <2>1. Oldest \in MemIds /\ i \notin MemIds
    BY <1>1, OldestIn DEF FlushBuild, MemIds
  <2>2. i # Oldest
    BY <2>1 DEF Structure, Apart
  <2> QED
    BY <1>0, <1>1, <2>2 DEF FlushBuild
<1>2. CASE CompactBuild
  BY <1>0, <1>2 DEF CompactBuild
<1>3. CASE CompactDelete
  <2>1. comp.pc = "delete" /\ comp.old \in Seq(Id) /\ comp.old # <<>>
    BY <1>3 DEF CompactDelete, Types, CompTypes
  <2>2. Head(comp.old) \in IdsIn(comp.old)
    BY <2>1, TailIds
  <2>3. IdsIn(comp.new) = {}
    BY <2>1, Busy
  <2>4. i # Head(comp.old)
    BY <2>2, <2>3 DEF Structure, Apart
  <2> QED
    BY <1>0, <1>3, <2>4 DEF CompactDelete
<1>4. CASE DeleteOrphan
  <2>1. up = "opened" /\ comp = NoComp /\ l0 = manifest.l0 /\ levels = manifest.levels
    BY <1>4 DEF DeleteOrphan, Types, Idle, Structure, Reopening
  <2>2. IdsIn(comp.new) = {} /\ RecordedTables = TableIds /\ i \notin MemIds
    <3>1. IdsIn(comp.new) = {} /\ i \notin MemIds
      BY <2>1, Busy DEF NoComp
    <3>2. DOMAIN manifest.levels = 1 .. MaxLevels
      BY DEF Types, DiskTypes, Levels
    <3> QED
      BY <2>1, <3>1, <3>2 DEF RecordedTables, TableIds
  <2>3. i \notin OrphanSsts
    BY <2>2 DEF OrphanSsts
  <2> DEFINE o == CHOOSE o \in Orphans : \A j \in Orphans : o <= j
  <2>4. IF o \in OrphanSsts THEN sst' = [sst EXCEPT ![o] = NoFile] ELSE sst' = sst
    BY <1>4 DEF DeleteOrphan
  <2> HIDE DEF o
  <2>5. CASE o \in OrphanSsts
    <3>1. i # o
      BY <2>3, <2>5
    <3>2. sst' = [sst EXCEPT ![o] = NoFile]
      BY <2>4, <2>5
    <3> QED
      BY <1>0, <3>1, <3>2
  <2>6. CASE o \notin OrphanSsts
    BY <2>4, <2>6
  <2> QED
    BY <2>5, <2>6
<1>5. CASE UNCHANGED sst
  BY <1>5
<1> QED
  BY <1>1, <1>2, <1>3, <1>4, <1>5, Frames

\* So do the ids a goroutine has in hand.
LEMMA InHandStep ==
    ASSUME Types, Structure, [Next]_vars, Loaded'
    PROVE  InHand'
<1>0. /\ mu'.pc = "freeze" \/ mu'.pc = "flush" \/ mu'.pc = "flushed" => up' = "up"
      /\ Unlocked.pc = "free"
  BY TypesStep DEF Types, Idle, Unlocked
<1>1. CASE mu' = Unlocked
  BY <1>0, <1>1 DEF InHand
<1>2. ASSUME NEW b \in Batches, WriteStart(b)
      PROVE  InHand'
  BY <1>2 DEF WriteStart, InHand, Unlocked
<1>3. CASE WalAppend
  <2>1. mu'.pc = "log"
    BY <1>3 DEF WalAppend, Types, WriterTypes
  <2> QED
    BY <2>1 DEF InHand
<1>4. ASSUME NEW who \in Freezer, FreezeCreate(who)
      PROVE  InHand'
  <2>1. mu'.pc = "freeze" /\ mu'.id = nextID /\ UNCHANGED <<tree, manifest, comp>> /\ Loaded
    BY <1>4 DEF FreezeCreate, Unlocked, Free, Running, Loaded
  <2>2. InUse' = InUse
    BY <2>1, SameTables DEF InUse, tree
  <2>3. nextID \notin InUse
    <3>1. \A i \in InUse : i < nextID /\ i \in Nat
      BY <2>1, Busy DEF Structure, Below
    <3> QED
      BY <3>1, Busy
  <2> QED
    BY <2>1, <2>2, <2>3 DEF InHand
<1>5. CASE FlushBuild
  <2>1. Oldest \in Id /\ mems[Oldest] \in Content /\ Oldest' = Oldest /\ mu'.pc = "flush"
        /\ mems' = mems /\ sst \in [Id -> Content \cup {NoFile}]
    BY <1>5, OldestType DEF FlushBuild, Types, TreeTypes, DiskTypes, Oldest, tree, Unlocked
  <2> QED
    BY <1>5, <2>1 DEF InHand, FlushBuild
<1>6. CASE FlushRecord
  <2>1. mu'.pc = "flushed" /\ mu'.id = Oldest
    BY <1>6 DEF FlushRecord, Types, WriterTypes
  <2>2. /\ Oldest \in Id /\ Oldest \in IdsIn(imm) /\ mem' = mem /\ Loaded
        /\ IdsIn(imm') = IdsIn(imm) \ {Oldest} /\ manifest' = RecordFlush(manifest, Oldest)
    BY <1>6, StepsOf, FlushEffect, Busy DEF FlushRecord, FlushSwap
  <2>3. manifest'.mems = manifest.mems \ {Oldest}
    BY <2>2, RecordEffect
  <2>4. mem \notin IdsIn(imm)
    BY <2>2 DEF Structure, Apart
  <2> QED
    BY <2>1, <2>2, <2>3, <2>4 DEF InHand, MemIds
<1>7. CASE UNCHANGED mu
  <2>1. CASE mu.pc \in {"free", "log"}
    BY <1>7, <2>1 DEF InHand
  <2>2. CASE mu.pc \in {"freeze", "flush", "flushed"}
    <3>0. /\ Loaded /\ up = "up" /\ InHand /\ mu' = mu
      BY <1>7, <2>2, Busy, ApartLoaded DEF Structure
    <3>1. /\ UNCHANGED <<mem, imm, mems, l0, levels, manifest>>
          /\ ~ CompactSwap /\ ~ (\E w \in 0 .. ts : CompactPick(w))
      BY <1>7, <2>2, HeldStill
    <3>2. /\ MemIds' = MemIds /\ TableIds' = TableIds /\ RecordedTables' = RecordedTables
          /\ Named' = Named /\ Oldest' = Oldest
      BY <3>1, SameTables DEF Oldest
    <3>3. /\ \/ IdsIn(comp'.new) \subseteq IdsIn(comp.new)
             \/ CompactBuild /\ IdsIn(comp'.new) = IdsIn(comp.new) \cup {nextID}
          /\ IdsIn(comp'.old) \subseteq IdsIn(comp.old)
      <4>1. IdsIn(<<>>) = {}
        BY DEF IdsIn
      <4>2. Loaded /\ Loaded'
        BY <3>0
      <4> QED
        BY <3>1, <4>1, <4>2, Moves, CompSteps, DeleteOld
    <3>4. CASE mu.pc = "freeze"
      <4>1. mu.id # nextID
        <5>1. mu.id < nextID /\ mu.id \in Nat /\ nextID \in Nat
          BY <3>0, Busy DEF Structure, Below
        <5> QED
          BY <5>1
      <4> QED
        BY <3>0, <3>2, <3>3, <3>4, <4>1 DEF InHand, InUse
    <3>5. CASE mu.pc = "flush"
      <4>1. sst'[Oldest] = sst[Oldest]
        <5>1. Oldest \in MemIds
          BY <3>5, OldestIn DEF Types, WriterTypes, MemIds
        <5>2. ~ FlushBuild
          BY <3>5 DEF FlushBuild, Free
        <5> QED
          BY <3>0, <5>1, <5>2, SstKept
      <4> QED
        BY <3>0, <3>1, <3>2, <3>5, <4>1 DEF InHand
    <3>6. CASE mu.pc = "flushed"
      BY <3>0, <3>1, <3>2, <3>6 DEF InHand
    <3> QED
      BY <2>2, <3>4, <3>5, <3>6
  <2> QED
    BY <2>1, <2>2 DEF Types, WriterTypes
<1>8. \/ WalAppendFails \/ WriteApply \/ FreezeInstall \/ FreezeRecordFails
      \/ FlushRecordFails \/ FlushRemove \/ Crash
      => mu' = Unlocked
  BY StepsOf DEF WalAppendFails, WriteApply, NewMemtable, FlushRecordFails, FlushRemove, Release,
                 Crash
<1> QED
  BY <1>1, <1>2, <1>3, <1>4, <1>5, <1>6, <1>7, <1>8, Frames

\* Apart is inductive, given the rest of Structure.
LEMMA ApartStep ==
    ASSUME Types, Structure, [Next]_vars
    PROVE  Apart'
  BY SeparateStep, InHandStep, ApartLoaded

\* A tier gains no table that another tier has.
LEMMA HomesStep ==
    ASSUME Types, Structure, [Next]_vars
    PROVE  Homes'
<1>0. /\ \A m, n \in TierNo : m # n =>
           /\ RecIds(m) \cap RecIds(n) = {}
           /\ Loaded => TierIds(m) \cap (TierIds(n) \cup RecIds(n)) = {}
      /\ DOMAIN levels = 1 .. MaxLevels /\ DOMAIN levels' = 1 .. MaxLevels
      /\ 0 \in TierNo
  BY TypesStep, Busy, TierNumbers DEF Structure, Homes, Types, TreeTypes, Levels
<1>1. CASE /\ UNCHANGED <<l0, levels, manifest>> \/ FreezeInstall \/ RecoverRecord
           /\ \A s \in Strategies : ~ RecoverOpen(s)
  <2>1. Loaded' => Loaded
    BY <1>1, Frames DEF Loaded, Crash, RecoverRecord, Serve
  <2>2. \A n \in TierNo : TierIds(n)' = TierIds(n) /\ RecIds(n)' = RecIds(n)
    <3>1. CASE FreezeInstall
      <4>1. mu.id \in Id /\ manifest' = RecordMemtable(manifest, mu.id) /\ UNCHANGED <<l0, levels>>
        BY <3>1 DEF FreezeInstall, NewMemtable, Types, WriterTypes
      <4> QED
        BY <4>1, RecordEffect, SameTables
    <3>2. CASE RecoverRecord
      <4>1. mem \in Id /\ manifest' = RecordMemtable(manifest, mem) /\ UNCHANGED <<l0, levels>>
        BY <3>2 DEF RecoverRecord, Types, TreeTypes, tree
      <4> QED
        BY <4>1, RecordEffect, SameTables
    <3> QED
      BY <1>1, <3>1, <3>2, SameTables
  <2> QED
    BY <1>0, <2>1, <2>2 DEF Homes
<1>2. CASE FlushRecord \/ FlushRecordFails
  <2>0. FlushSwap /\ Loaded
    BY <1>2, StepsOf, Busy DEF FlushSwap
  <2>1. /\ Oldest \in Id /\ Oldest \in MemIds
        /\ \A n \in TierNo : TierIds(n)' = IF n = 0 THEN TierIds(0) \cup {Oldest} ELSE TierIds(n)
    BY <2>0, FlushEffect DEF MemIds
  <2>2. \A n \in TierNo : \/ RecIds(n)' = RecIds(n)
                          \/ n = 0 /\ RecIds(n)' = RecIds(0) \cup {Oldest}
    <3>1. CASE manifest' = RecordFlush(manifest, Oldest)
      BY <2>1, <3>1, RecordEffect
    <3>2. CASE UNCHANGED manifest
      BY <3>2, SameTables
    <3> QED
      BY <1>2, <3>1, <3>2 DEF FlushRecord, FlushRecordFails
  <2>3. \A n \in TierNo : Oldest \notin TierIds(n) \cup RecIds(n)
    <3>1. Oldest \notin TableIds \cup RecordedTables
      BY <2>0, <2>1 DEF Structure, Apart
    <3> QED
      BY <1>0, <3>1, TablesByTier
  <2> QED
    BY <1>0, <2>0, <2>1, <2>2, <2>3 DEF Homes
<1>3. CASE CompactSwap \/ CompactRecordFails
  <2> DEFINE u == comp.task.upperLevel
             l == comp.task.lowerLevel
  <2>0. SwapIn /\ TaskPicked /\ Unfilled /\ Loaded /\ comp.pc = "merge"
    BY <1>3, StepsOf, Busy DEF Structure, SwapIn
  <2>1. \A n \in TierNo : \/ n = l /\ TierIds(n)' = IdsIn(comp.new)
                          \/ n # l /\ TierIds(n)' \subseteq TierIds(n)
    BY <2>0, SwapEffect
  <2>2. \A n \in TierNo : \/ n = l /\ RecIds(n)' \subseteq RecIds(n) \cup IdsIn(comp.new)
                          \/ n # l /\ RecIds(n)' \subseteq RecIds(n)
    <3>1. CASE CompactSwap
      <4>1. manifest' = RecordCompaction(manifest, comp.task, comp.new)
        BY <3>1 DEF CompactSwap
      <4> QED
        BY <2>0, <4>1, RecordSwapEffect
    <3>2. CASE CompactRecordFails
      <4>1. UNCHANGED manifest
        BY <3>2 DEF CompactRecordFails
      <4> QED
        BY <4>1, SameTables
    <3> QED
      BY <1>3, <3>1, <3>2
  <2>3. \A n \in TierNo : IdsIn(comp.new) \cap (TierIds(n) \cup RecIds(n)) = {}
    <3>1. IdsIn(comp.new) \cap (TableIds \cup RecordedTables) = {}
      BY <2>0 DEF Structure, Apart, Named
    <3> QED
      BY <1>0, <3>1, TablesByTier
  <2> HIDE DEF u, l
  <2> SUFFICES ASSUME NEW m \in TierNo, NEW n \in TierNo, m # n
               PROVE  /\ RecIds(m)' \cap RecIds(n)' = {}
                      /\ TierIds(m)' \cap (TierIds(n)' \cup RecIds(n)') = {}
    BY DEF Homes
  <2>4. /\ RecIds(m) \cap RecIds(n) = {}
        /\ TierIds(m) \cap (TierIds(n) \cup RecIds(n)) = {}
        /\ TierIds(n) \cap (TierIds(m) \cup RecIds(m)) = {}
    BY <1>0, <2>0
  <2>5. /\ IdsIn(comp.new) \cap (TierIds(n) \cup RecIds(n)) = {}
        /\ IdsIn(comp.new) \cap (TierIds(m) \cup RecIds(m)) = {}
    BY <2>3
  <2>6. /\ m = l \/ m # l
        /\ m = l => n # l
    OBVIOUS
  <2>7. CASE m = l
    <3>1. /\ TierIds(m)' = IdsIn(comp.new) /\ TierIds(n)' \subseteq TierIds(n)
          /\ RecIds(m)' \subseteq RecIds(m) \cup IdsIn(comp.new) /\ RecIds(n)' \subseteq RecIds(n)
      BY <2>1, <2>2, <2>7
    <3> QED
      BY <2>4, <2>5, <3>1
  <2>8. CASE m # l
    <3>1. /\ TierIds(m)' \subseteq TierIds(m) /\ RecIds(m)' \subseteq RecIds(m)
          /\ TierIds(n)' \subseteq TierIds(n) \cup IdsIn(comp.new)
          /\ RecIds(n)' \subseteq RecIds(n) \cup IdsIn(comp.new)
      BY <2>1, <2>2, <2>8
    <3> QED
      BY <2>4, <2>5, <3>1
  <2> QED
    BY <2>7, <2>8
<1>4. CASE Crash
  <2>1. ~ Loaded' /\ UNCHANGED manifest
    BY <1>4 DEF Crash, Loaded, disk
  <2>2. \A n \in TierNo : RecIds(n)' = RecIds(n)
    BY <2>1, SameTables
  <2> QED
    BY <1>0, <2>1, <2>2 DEF Homes
<1>5. ASSUME NEW s \in Strategies, RecoverOpen(s)
      PROVE  Homes'
  <2>1. UNCHANGED manifest /\ \A n \in TierNo : TierIds(n)' = RecIds(n)
    BY <1>5, OpenEffect
  <2>2. \A n \in TierNo : RecIds(n)' = RecIds(n)
    BY <2>1, SameTables
  <2> QED
    BY <1>0, <2>1, <2>2 DEF Homes
<1> QED
  BY <1>1, <1>2, <1>3, <1>4, <1>5, Frames

\* Where the file of a table comes from.
LEMMA TableSource ==
    ASSUME Types, Structure, [Next]_vars, Loaded, Loaded',
           NEW i \in TableIds' \cup RecordedTables' \cup IdsIn(comp'.new)
    PROVE  \/ i \in TableIds \cup RecordedTables \cup IdsIn(comp.new) /\ sst'[i] = sst[i]
           \/ FlushSwap /\ i \in Id /\ sst'[i] = mems[i]
           \/ CompactBuild /\ i \in Id /\ sst'[i] = NextTable(comp.rest)
<1>0. /\ DOMAIN levels = 1 .. MaxLevels /\ DOMAIN levels' = 1 .. MaxLevels
      /\ ~ Crash /\ \A s \in Strategies : ~ RecoverOpen(s)
  BY TypesStep, Busy DEF Types, TreeTypes, Levels, Loaded, Crash, RecoverOpen
<1>1. ASSUME i \in TableIds \cup RecordedTables \cup IdsIn(comp.new)
      PROVE  sst'[i] = sst[i]
  <2>1. i \notin MemIds
    BY <1>1 DEF Structure, Apart
  <2> QED
    BY <1>1, <2>1, SstKept
<1>2. CASE FlushRecord \/ FlushRecordFails
  <2>0. FlushSwap /\ mu.pc = "flush" /\ UNCHANGED <<sst, comp>>
    BY <1>2, StepsOf DEF FlushSwap
  <2>1. Oldest \in Id /\ TableIds' = TableIds \cup {Oldest}
    BY <2>0, FlushEffect
  <2>2. RecordedTables' \subseteq RecordedTables \cup {Oldest}
    <3>1. CASE manifest' = RecordFlush(manifest, Oldest)
      BY <2>1, <3>1, RecordEffect
    <3>2. CASE UNCHANGED manifest
      BY <3>2, SameTables
    <3> QED
      BY <1>2, <3>1, <3>2 DEF FlushRecord, FlushRecordFails
  <2>3. sst[Oldest] = mems[Oldest]
    BY <2>0 DEF Structure, Apart
  <2> QED
    BY <1>1, <2>0, <2>1, <2>2, <2>3
<1>3. CASE CompactBuild
  <2>1. /\ UNCHANGED <<l0, levels, manifest>> /\ nextID \in Id
        /\ sst' = [sst EXCEPT ![nextID] = NextTable(comp.rest)]
        /\ sst \in [Id -> Content \cup {NoFile}]
    BY <1>3, IdNext DEF CompactBuild, tree, Types, DiskTypes
  <2>2. sst'[nextID] = NextTable(comp.rest)
    BY <2>1
  <2>3. IdsIn(comp'.new) \subseteq IdsIn(comp.new) \cup {nextID}
    BY Moves
  <2>4. TableIds' = TableIds /\ RecordedTables' = RecordedTables
    BY <2>1, SameTables
  <2> QED
    BY <1>1, <1>3, <2>1, <2>2, <2>3, <2>4
<1>4. CASE ~ (FlushRecord \/ FlushRecordFails) /\ ~ CompactBuild
  <2>1. TableIds' \subseteq TableIds \cup IdsIn(comp.new)
    <3>1. CASE CompactSwap \/ CompactRecordFails
      BY <3>1, SwapTables, TypesStep
    <3>2. CASE UNCHANGED <<l0, levels>>
      BY <3>2, SameTables
    <3> QED
      BY <1>0, <1>4, <3>1, <3>2, Frames
  <2>2. RecordedTables' \subseteq RecordedTables \cup IdsIn(comp.new)
    <3>1. CASE CompactSwap
      BY <3>1, SwapTables, TypesStep
    <3>2. CASE FreezeInstall
      <4>1. mu.id \in Id /\ manifest' = RecordMemtable(manifest, mu.id)
        BY <3>2 DEF FreezeInstall, Types, WriterTypes
      <4> QED
        BY <4>1, RecordEffect
    <3>3. CASE RecoverRecord
      <4>1. mem \in Id /\ manifest' = RecordMemtable(manifest, mem)
        BY <3>3 DEF RecoverRecord, Types, TreeTypes
      <4> QED
        BY <4>1, RecordEffect
    <3>4. CASE UNCHANGED manifest
      BY <3>4, SameTables
    <3> QED
      BY <1>4, <3>1, <3>2, <3>3, <3>4, Frames
  <2>3. IdsIn(comp'.new) \subseteq IdsIn(comp.new)
    BY <1>4, Moves
  <2> QED
    BY <1>1, <2>1, <2>2, <2>3
<1> QED
  BY <1>2, <1>3, <1>4

\* No file is removed while the layout or the manifest needs it: not by a
\* flush, a compaction, or the removal of orphans (storage.go:436,
\* compact.go:169-177, recover.go:154-190).
LEMMA PresentStep ==
    ASSUME Types, Structure, [Next]_vars
    PROVE  Present'
<1>0. /\ \A i \in RecordedTables \cup TableIds \cup IdsIn(comp.new) : sst[i] # NoFile
      /\ IdsIn(<<>>) = {}
  BY DEF Structure, Present, IdsIn
<1>1. CASE Loaded /\ Loaded'
  <2> SUFFICES ASSUME NEW i \in TableIds' \cup RecordedTables' \cup IdsIn(comp'.new)
               PROVE  sst'[i] # NoFile
    BY DEF Present
  <2>1. CASE i \in TableIds \cup RecordedTables \cup IdsIn(comp.new) /\ sst'[i] = sst[i]
    BY <1>0, <2>1
  <2>2. CASE i \in Id /\ sst'[i] = mems[i]
    BY <2>2, NotAFile DEF Types, TreeTypes
  <2>3. CASE sst'[i] = NextTable(comp.rest)
    BY <2>3, NextTableContent, NotAFile DEF Types, CompTypes
  <2> QED
    BY <1>1, <2>1, <2>2, <2>3, TableSource
<1>2. CASE Crash
  <2>1. /\ UNCHANGED <<sst, manifest>> /\ comp' = NoComp /\ l0' = <<>> /\ levels' = NoLevels
    BY <1>2 DEF Crash, NoTree, disk
  <2>2. TableIds' = {} /\ IdsIn(comp'.new) = {}
    BY <1>0, <2>1 DEF TableIds, NoLevels, NoComp
  <2>3. RecordedTables' = RecordedTables
    BY <2>1, SameTables
  <2> QED
    BY <1>0, <2>1, <2>2, <2>3 DEF Present
<1>3. ASSUME NEW s \in Strategies, RecoverOpen(s)
      PROVE  Present'
  <2>1. /\ UNCHANGED <<sst, manifest>> /\ TableIds' = RecordedTables /\ comp'.new = <<>>
    BY <1>3, OpenEffect DEF NoComp
  <2>2. RecordedTables' = RecordedTables
    BY <2>1, SameTables
  <2> QED
    BY <1>0, <2>1, <2>2 DEF Present
<1>4. CASE ~ Loaded /\ ~ Crash /\ \A s \in Strategies : ~ RecoverOpen(s)
  <2>1. UNCHANGED <<sst, manifest, l0, levels, comp>>
    <3>1. mu.pc = "free" /\ comp.pc = "idle" /\ up = "down" /\ mu = Unlocked /\ comp = NoComp
      BY <1>4 DEF Loaded, Types, Idle, Unlocked, NoComp
    <3>2. ~ Running /\ ~ Free
      BY <3>1 DEF Running, Free
    <3>3. ~ FlushBuild /\ ~ CompactBuild /\ ~ CompactDelete /\ ~ DeleteOrphan
      BY <3>1, <3>2 DEF FlushBuild, CompactBuild, CompactDelete, DeleteOrphan
    <3>4. ~ NewMemtable /\ ~ FlushSwap /\ ~ SwapIn /\ ~ RecoverRecord
      BY <3>1, <3>2 DEF NewMemtable, FlushSwap, SwapIn, RecoverRecord
    <3>5. ~ CompactBuildFails /\ ~ \E w \in 0 .. ts : CompactPick(w)
      BY <3>1, <3>2 DEF CompactBuildFails, CompactPick
    <3> QED
      BY <1>4, <3>3, <3>4, <3>5, Frames, StepsOf
  <2>2. TableIds' = TableIds /\ RecordedTables' = RecordedTables
    BY <2>1, SameTables
  <2> QED
    BY <1>0, <2>1, <2>2 DEF Present
<1>5. ~ Loaded' => Crash \/ (~ Loaded /\ \A s \in Strategies : ~ RecoverOpen(s))
  BY Frames DEF Loaded, RecoverOpen, RecoverRecord, Serve
<1> QED
  BY <1>1, <1>2, <1>3, <1>4, <1>5

\* Without another Open's configuration the strategy stays.
LEMMA SameStrategy ==
    ASSUME ~ Reconfigure, [Next]_vars
    PROVE  UNCHANGED strategy
<1>1. ASSUME NEW s \in Strategies, RecoverOpen(s)
      PROVE  strategy' = strategy
  BY <1>1, RecoverOpenTree
<1> QED
  BY <1>1, Frames DEF Crash, RecoverRecord, Serve

\* A task goes on fitting the tiers it was picked from: nobody but the
\* compaction changes a level, and a flush adds to L0 only.
LEMMA TaskPickedStep ==
    ASSUME Types, Structure, [Next]_vars
    PROVE  TaskPicked'
<1>1. ASSUME NEW w \in 0 .. ts, CompactPick(w)
      PROVE  TaskPicked'
  BY <1>1, PickEffect DEF Structure
<1>2. CASE CompactBuild \/ UNCHANGED comp
  <2> SUFFICES ASSUME comp'.pc = "merge"
               PROVE  TaskPicked'
    BY DEF TaskPicked
  <2>1. comp'.task = comp.task /\ comp'.pc = comp.pc
    BY <1>2 DEF CompactBuild, Types, CompTypes
  <2>2. /\ comp.pc = "merge" /\ up = "up" /\ DOMAIN levels = 1 .. MaxLevels
    BY <2>1, Busy
  <2>3. ~ Crash /\ ~ CompactSwap /\ ~ CompactRecordFails
    <3>1. Crash \/ CompactRecordFails => comp'.pc = "idle"
      BY DEF Crash, CompactRecordFails, NoComp
    <3>2. CompactSwap => comp'.pc = "delete"
      BY DEF CompactSwap, NoComp
    <3> QED
      BY <2>1, <2>2, <3>1, <3>2
  <2>4. \A s \in Strategies : ~ RecoverOpen(s)
    BY <2>2 DEF RecoverOpen
  <2>5. strategy' = strategy
    BY <2>2, <2>3, <2>4, Frames DEF RecoverRecord, Serve
  <2>6. levels' = levels /\ \A n \in TierNo : TierIds(n) \subseteq TierIds(n)'
    <3>1. CASE FlushSwap
      BY <3>1, FlushEffect DEF FlushSwap
    <3>2. CASE UNCHANGED <<l0, levels>>
      BY <3>2, SameTables
    <3> QED
      BY <2>3, <2>4, <3>1, <3>2, Frames, StepsOf
  <2>7. \A n \in 1 .. MaxLevels : TierIds(n)' = TierIds(n)
    BY <2>6, TierNumbers DEF TierIds
  <2>8. comp.task.upperLevel \in TierNo
    BY <2>2, TaskInputs
  <2>9. comp.pc = "merge" => TaskPicked
    BY DEF Structure
  <2> QED
    BY <2>1, <2>2, <2>5, <2>6, <2>7, <2>8, <2>9 DEF TaskPicked
<1>3. CompactSwap \/ CompactRecordFails \/ CompactBuildFails \/ CompactDelete \/ Crash
      => comp'.pc # "merge"
  <2>1. CompactRecordFails \/ CompactBuildFails \/ Crash => comp'.pc = "idle"
    BY DEF Crash, CompactRecordFails, CompactBuildFails, NoComp
  <2>2. CompactSwap => comp'.pc = "delete"
    BY DEF CompactSwap, NoComp
  <2>3. CompactDelete => comp'.pc \in {"idle", "delete"}
    BY DEF CompactDelete, NoComp, Types, CompTypes
  <2> QED
    BY <2>1, <2>2, <2>3
<1> QED
  BY <1>1, <1>2, <1>3, Frames DEF TaskPicked

\* Levels fill only from below under the full strategy, and not at all without
\* a controller.
LEMMA UnfilledStep ==
    ASSUME Types, Structure, [Next]_vars, ~ Reconfigure
    PROVE  Unfilled' /\ Uncompacted'
<1>0. /\ strategy' = strategy /\ Unfilled /\ Uncompacted
      /\ manifest \in ManifestSet /\ manifest.levels \in [1 .. MaxLevels -> Seq(Id)]
  BY SameStrategy DEF Structure, Types, DiskTypes, ManifestSet, Levels
<1>1. CASE CompactSwap \/ CompactRecordFails
  <2>0. SwapIn /\ TaskPicked /\ comp.pc = "merge"
    BY <1>1, StepsOf DEF Structure, SwapIn
  <2>1. strategy # "none"
    BY <2>0 DEF TaskPicked
  <2>2. CASE strategy = "full"
    <3>1. comp.task.upperLevel = 0 /\ comp.task.lowerLevel = MaxLevels
      BY <2>0, <2>2 DEF TaskPicked
    <3>2. levels' = [i \in 1 .. MaxLevels |-> IF i = MaxLevels THEN comp.new ELSE <<>>]
      BY <2>0, <2>2 DEF SwapIn, ApplyResult, FullResult
    <3>3. \A i \in 1 .. MaxLevels : i # MaxLevels => manifest.levels[i] = <<>>
      BY <1>0, <2>2 DEF Unfilled
    <3>4. \A i \in 1 .. MaxLevels : i # MaxLevels => manifest'.levels[i] = <<>>
      <4>1. CASE manifest' = RecordCompaction(manifest, comp.task, comp.new)
        <5>1. manifest'.levels = SupersededLevels(manifest.levels, comp.task, comp.new)
          BY <1>0, <4>1 DEF RecordCompaction, ManifestSet
        <5> QED
          BY <3>1, <3>3, <5>1, TierNumbers DEF SupersededLevels
      <4>2. CASE UNCHANGED manifest
        BY <3>3, <4>2
      <4> QED
        BY <1>1, <4>1, <4>2 DEF CompactSwap, CompactRecordFails
    <3> QED
      BY <1>0, <2>2, <3>2, <3>4 DEF Unfilled, Uncompacted
  <2>3. CASE strategy = "leveled"
    BY <1>0, <2>3 DEF Unfilled, Uncompacted
  <2> QED
    BY <2>1, <2>2, <2>3, LsmAssumption DEF Types, CounterTypes
<1>2. CASE ~ (CompactSwap \/ CompactRecordFails)
  <2>1. manifest'.levels = manifest.levels /\ manifest'.compacted = manifest.compacted
    <3>1. ASSUME NEW id \in Id,
                 manifest' = RecordMemtable(manifest, id) \/ manifest' = RecordFlush(manifest, id)
          PROVE  manifest'.levels = manifest.levels /\ manifest'.compacted = manifest.compacted
      BY <3>1, RecordEffect
    <3>2. FreezeInstall => mu.id \in Id /\ manifest' = RecordMemtable(manifest, mu.id)
      BY DEF FreezeInstall, Types, WriterTypes
    <3>3. RecoverRecord => mem \in Id /\ manifest' = RecordMemtable(manifest, mem)
      BY DEF RecoverRecord, Types, TreeTypes
    <3>4. FlushRecord => Oldest \in Id /\ manifest' = RecordFlush(manifest, Oldest)
      BY FlushEffect DEF FlushRecord
    <3> QED
      BY <1>2, <3>1, <3>2, <3>3, <3>4, Frames
  <2>2. \A i \in 1 .. MaxLevels :
          levels'[i] = levels[i] \/ levels'[i] = <<>> \/ levels'[i] = manifest.levels[i]
    <3>1. Crash => levels' = NoLevels
      BY DEF Crash, NoTree
    <3>2. ASSUME NEW s \in Strategies, RecoverOpen(s)
          PROVE  levels' = manifest.levels
      BY <3>2, RecoverOpenTree
    <3>3. FlushSwap => levels' = levels
      BY DEF FlushSwap
    <3>4. UNCHANGED <<l0, levels>> => levels' = levels
      OBVIOUS
    <3> QED
      BY <1>2, <3>1, <3>2, <3>3, <3>4, Frames, StepsOf DEF NoLevels
  <2> QED
    BY <1>0, <2>1, <2>2 DEF Unfilled, Uncompacted
<1> QED
  BY <1>1, <1>2

\* While Open is under way, what it has rebuilt is what the manifest says.
LEMMA ReopeningStep ==
    ASSUME Types, Structure, [Next]_vars
    PROVE  Reopening'
<1>0. Reopening /\ (up # "up" => mu = Unlocked /\ comp = NoComp /\ ~ full)
  BY DEF Structure, Types, Idle
<1>1. ASSUME NEW s \in Strategies, RecoverOpen(s)
      PROVE  Reopening'
  <2>1. /\ l0' = manifest.l0 /\ levels' = manifest.levels /\ UNCHANGED manifest
        /\ mem' = manifest.maxID + 1
    BY <1>1, RecoverOpenTree
  <2>2. Named' = Named /\ \A i \in Named : i <= manifest.maxID
    BY <2>1, SameTables DEF Structure, Counted
  <2>3. mem' \notin Named
    BY <2>1, <2>2, NamedIds
  <2> QED
    BY <2>1, <2>2, <2>3 DEF Reopening
<1>2. CASE RecoverRecord
  <2>1. /\ up' = "opened" /\ up = "reading" /\ UNCHANGED <<l0, levels>> /\ mem \in Id
        /\ manifest' = RecordMemtable(manifest, mem)
    BY <1>2 DEF RecoverRecord, tree, Types, TreeTypes
  <2>2. manifest'.l0 = manifest.l0 /\ manifest'.levels = manifest.levels
    BY <2>1, RecordEffect
  <2> QED
    BY <1>0, <2>1, <2>2 DEF Reopening
<1>3. CASE Crash \/ Serve
  BY <1>3 DEF Crash, Serve, Reopening
<1>4. CASE /\ UNCHANGED <<up, strategy>> /\ ~ Crash /\ ~ RecoverRecord
           /\ \A s \in Strategies : ~ RecoverOpen(s)
  <2>1. CASE up = "up" \/ up = "down"
    BY <1>4, <2>1 DEF Reopening
  <2>2. CASE up \in {"reading", "opened"}
    <3>1. mu.pc = "free" /\ comp.pc = "idle" /\ ~ Free
      BY <1>0, <2>2 DEF Unlocked, NoComp, Free, Running
    <3>2. ~ NewMemtable /\ ~ FlushSwap /\ ~ SwapIn
      BY <3>1 DEF NewMemtable, FlushSwap, SwapIn
    <3>3. UNCHANGED <<l0, levels, manifest, mem, imm>>
      BY <1>4, <3>2, Frames, StepsOf
    <3>4. Named' = Named
      BY <3>3, SameTables
    <3> QED
      BY <1>0, <1>4, <3>3, <3>4 DEF Reopening
  <2> QED
    BY <2>1, <2>2 DEF Types, CounterTypes
<1> QED
  BY <1>1, <1>2, <1>3, <1>4, Frames

\* Structure holds when an empty directory has been opened.
LEMMA StructureInit == Init => Structure
<1> SUFFICES ASSUME Init
             PROVE  Structure
  OBVIOUS
<1>0. IdsIn(<<>>) = {}
  BY DEF IdsIn
<1>1. /\ manifest = [mems |-> {0}, l0 |-> <<>>, levels |-> NoLevels, maxID |-> 0,
                     compacted |-> FALSE]
      /\ mem = 0 /\ imm = <<>> /\ l0 = <<>> /\ levels = NoLevels /\ nextID = 1
      /\ mu = Unlocked /\ comp = NoComp /\ up = "up"
  BY DEF Init
<1>2. /\ MemIds = {0} /\ TableIds = {} /\ RecordedTables = {} /\ Named = {0}
      /\ IdsIn(comp.new) = {} /\ IdsIn(comp.old) = {} /\ InUse = {0} /\ mu.id = 0
  BY <1>0, <1>1 DEF MemIds, TableIds, RecordedTables, Named, InUse, NoLevels, NoComp, Unlocked
<1>3. Counted /\ Below /\ Apart /\ Present
  BY <1>0, <1>1, <1>2 DEF Counted, Below, Apart, Present, Unlocked
<1>4. Homes
  <2>1. \A n \in TierNo : TierIds(n) = {} /\ RecIds(n) = {}
    BY <1>0, <1>1, TierNumbers DEF TierIds, RecIds, NoLevels
  <2> QED
    BY <2>1 DEF Homes
<1>5. TaskPicked /\ Unfilled /\ Uncompacted /\ Reopening
  BY <1>1 DEF TaskPicked, Unfilled, Uncompacted, Reopening, NoComp, NoLevels
<1> QED
  BY <1>3, <1>4, <1>5 DEF Structure

\* Structure is inductive, given Types.
LEMMA StructureStep ==
    ASSUME Types, Structure, [Next]_vars, ~ Reconfigure
    PROVE  Structure'
  BY CountedStep, BelowStep, ApartStep, HomesStep, PresentStep, TaskPickedStep,
     UnfilledStep, ReopeningStep DEF Structure

\* Structure holds in every reachable state.
LEMMA StructureAlways ==
    ASSUME ~ Reconfigure
    PROVE  Spec => []Structure
<1>1. Init => Structure
  BY StructureInit
<1>2. Types /\ Structure /\ [Next]_vars => Structure'
  BY StructureStep
<1> QED
  BY <1>1, <1>2, TypesAlways, PTL DEF Spec

(***************************************************************************)
(* Whenever the process dies, Open can replay the manifest and finds every *)
(* table it names: a flushed table is on disk before the record of its     *)
(* flush, an output table before the record of its compaction, and what is *)
(* deleted no record names any more (storage.go:224-229, compact.go:       *)
(* 144-161, recover.go:46-91).  The engine has to be reopened with the     *)
(* strategy it was closed with: without that, it is false.                 *)
(***************************************************************************)
THEOREM LsmAlwaysReopenable ==
    ASSUME ~ Reconfigure
    PROVE  Spec => []AlwaysReopenable
<1>1. Structure => AlwaysReopenable
  BY DEF Structure, Present, Uncompacted, AlwaysReopenable, Reopenable
<1> QED
  BY <1>1, StructureAlways, PTL

-----------------------------------------------------------------------------
\* Everything that is, or may come to be, visible or recoverable.
InMemory == UNION {mems[i] : i \in Id}
InTables == UNION {Contents(sst[i]) : i \in TableIds \cup RecordedTables \cup IdsIn(comp.new)}
InLogs   == UNION {Contents(wal[m]) : m \in {mem} \cup manifest.mems}
Dateable == InMemory \cup InTables \cup InLogs \cup comp.rest

\* The counter has reached every timestamp, and a batch holds the last one alone.
Dated ==
    Loaded =>
      /\ \A v \in Dateable \cup IdsIn(mu.batch) : v.ts <= ts
      /\ mu.pc = "log" => /\ \A v \in Dateable \ IdsIn(mu.batch) : v.ts < ts
                          /\ \A v \in IdsIn(mu.batch) : v.ts = ts
      /\ mu.pc = "freeze" => Contents(wal[mu.id]) = {}

\* Open leaves out only memtables whose log is empty.
Emptied ==
    up \in {"reading", "opened"} =>
      \A i \in manifest.mems \ MemIds : Contents(wal[i]) = {}

\* A file that is missing or empty has no contents.
LEMMA NoContents == Contents(NoFile) = {} /\ Contents({}) = {}
  BY DEF Contents

\* The parts of Dateable, one by one.
LEMMA DateableParts ==
    /\ \A i \in Id : mems[i] \subseteq Dateable
    /\ \A i \in TableIds \cup RecordedTables \cup IdsIn(comp.new) :
         Contents(sst[i]) \subseteq Dateable
    /\ \A m \in {mem} \cup manifest.mems : Contents(wal[m]) \subseteq Dateable
    /\ comp.rest \subseteq Dateable
<1>1. /\ InMemory \subseteq Dateable /\ InTables \subseteq Dateable
      /\ InLogs \subseteq Dateable /\ comp.rest \subseteq Dateable
  BY Zenon DEF Dateable
<1>2. \A i \in Id : mems[i] \subseteq InMemory
  BY DEF InMemory
<1>3. \A i \in TableIds \cup RecordedTables \cup IdsIn(comp.new) : Contents(sst[i]) \subseteq InTables
  BY DEF InTables
<1>4. \A m \in {mem} \cup manifest.mems : Contents(wal[m]) \subseteq InLogs
  BY DEF InLogs
<1> QED
  BY <1>1, <1>2, <1>3, <1>4

\* A file that is created, truncated or removed is empty; the others stay.
LEMMA LogEmptied ==
    ASSUME wal \in [Id -> Content \cup {NoFile}], NEW m \in Id, NEW o,
           wal' = [wal EXCEPT ![o] = NoFile] \/ wal' = [wal EXCEPT ![o] = {}]
    PROVE  /\ m # o => wal'[m] = wal[m]
           /\ m = o => Contents(wal'[m]) = {}
  BY NoContents

\* The input tables of a task are tables of the layout.
LEMMA PickInputs ==
    ASSUME Types, NEW w \in 0 .. ts, CompactPick(w)
    PROVE  comp'.rest \subseteq UNION {Contents(sst[i]) : i \in TableIds}
<1>1. PICK task \in Task(Id), rest \in Content :
        /\ PickShape(task, strategy, l0, levels)
        /\ rest = Compacted(UNION {Contents(sst[i]) : i \in IdsIn(InputIDs(task))},
                            task.toBottom, w)
        /\ comp' = [pc |-> "merge", task |-> task, new |-> <<>>, rest |-> rest, old |-> <<>>]
  BY PickedTask, Zenon
<1>2. comp'.rest = rest /\ strategy # "none"
  BY <1>1 DEF CompactPick
<1>3. rest \subseteq UNION {Contents(sst[i]) : i \in IdsIn(InputIDs(task))}
  BY <1>1 DEF Compacted, Kept
<1>4. IdsIn(InputIDs(task)) \subseteq TableIds
  <2>1. /\ task.upperLevel \in 0 .. MaxLevels - 1 /\ task.lowerLevel \in 1 .. MaxLevels
        /\ task.upperIDs = IF task.upperLevel = 0 THEN l0 ELSE levels[task.upperLevel]
        /\ strategy = "full" =>
             IdsIn(task.lowerIDs) = UNION {IdsIn(levels[i]) : i \in 1 .. MaxLevels}
        /\ strategy # "full" => task.lowerIDs = levels[task.lowerLevel]
    BY <1>1 DEF PickShape, WholeTier
  <2>2. IdsIn(InputIDs(task)) = IdsIn(task.upperIDs) \cup IdsIn(task.lowerIDs)
    <3>1. task.upperIDs \in Seq(Id) /\ task.lowerIDs \in Seq(Id)
      BY DEF Task
    <3> QED
      BY <3>1, IdsInConcat DEF InputIDs
  <2>3. DOMAIN levels = 1 .. MaxLevels
    BY DEF Types, TreeTypes, Levels
  <2>4. IdsIn(task.upperIDs) \subseteq TableIds
    <3>1. CASE task.upperLevel = 0
      BY <2>1, <3>1 DEF TableIds
    <3>2. CASE task.upperLevel # 0
      <4>1. task.upperLevel \in 1 .. MaxLevels
        BY <2>1, <3>2, ControllerAssumption
      <4> QED
        BY <2>1, <2>3, <3>2, <4>1 DEF TableIds
    <3> QED
      BY <3>1, <3>2
  <2>5. IdsIn(task.lowerIDs) \subseteq TableIds
    BY <2>1, <2>3 DEF TableIds
  <2> QED
    BY <2>2, <2>4, <2>5
<1> QED
  BY <1>2, <1>3, <1>4

\* Where the log of a memtable comes from.
LEMMA LogSource ==
    ASSUME Types, Structure, Dated, [Next]_vars, Loaded, Loaded',
           NEW m \in {mem'} \cup manifest'.mems
    PROVE  \/ Contents(wal'[m]) = {}
           \/ m \in {mem} \cup manifest.mems /\ wal'[m] = wal[m]
           \/ WalAppend /\ m = mem /\ mu.batch[mu.logged + 1] \in IdsIn(mu.batch)
              /\ wal'[m] = Put(Contents(wal[mem]), mu.batch[mu.logged + 1])
<1>0. /\ ~ Crash /\ \A s \in Strategies : ~ RecoverOpen(s)
      /\ wal \in [Id -> Content \cup {NoFile}] /\ mem \in Id /\ mu.id \in Id
      /\ manifest.mems \subseteq Id
  BY DEF Loaded, Crash, RecoverOpen, Types, DiskTypes, TreeTypes, WriterTypes
<1>1. m \in {mem} \cup manifest.mems \/ (m = mu.id /\ NewMemtable)
  <2>1. manifest'.mems \subseteq manifest.mems \cup {mem} \/ NewMemtable
    <3>1. ASSUME NEW id \in Id, manifest' = RecordFlush(manifest, id)
          PROVE  manifest'.mems \subseteq manifest.mems
      BY <3>1, RecordEffect
    <3>2. FlushRecord => Oldest \in Id /\ manifest' = RecordFlush(manifest, Oldest)
      BY FlushEffect DEF FlushRecord
    <3>3. RecoverRecord => manifest'.mems = manifest.mems \cup {mem}
      BY <1>0, RecordEffect DEF RecoverRecord
    <3>4. CompactSwap => manifest'.mems = manifest.mems
      BY SwapTables, TypesStep
    <3> QED
      BY <3>1, <3>2, <3>3, <3>4, Frames, StepsOf
  <2>2. NewMemtable => manifest'.mems \subseteq manifest.mems \cup {mu.id}
    <3>1. CASE FreezeInstall
      BY <1>0, <3>1, RecordEffect DEF FreezeInstall
    <3>2. CASE UNCHANGED manifest
      BY <3>2
    <3>3. ASSUME NewMemtable
          PROVE  ~ FlushRecord /\ ~ CompactSwap /\ ~ RecoverRecord
      <4>1. mu.pc = "freeze" /\ up = "up"
        BY <3>3, Busy DEF NewMemtable
      <4> QED
        BY <4>1 DEF FlushRecord, FlushSwap, CompactSwap, SwapIn, Free, RecoverRecord
    <3> QED
      BY <3>1, <3>2, <3>3, Frames
  <2>3. mem' = mem \/ (mem' = mu.id /\ NewMemtable)
    BY <1>0, Frames, StepsOf DEF NewMemtable, FlushSwap
  <2> QED
    BY <2>1, <2>2, <2>3
<1>2. CASE m = mu.id /\ NewMemtable
  <2>1. mu.pc = "freeze" /\ wal' = wal
    BY <1>2 DEF NewMemtable
  <2> QED
    BY <1>2, <2>1 DEF Dated
<1>3. CASE m \in {mem} \cup manifest.mems
  <2>0. m \in Id
    BY <1>0, <1>3
  <2>1. CASE WalAppend
    <3>1. /\ mu.logged + 1 \in DOMAIN mu.batch
          /\ wal' = [wal EXCEPT ![mem] = Put(Contents(wal[mem]), mu.batch[mu.logged + 1])]
      BY <2>1 DEF WalAppend, Types, WriterTypes
    <3>2. mu.batch[mu.logged + 1] \in IdsIn(mu.batch)
      BY <3>1 DEF IdsIn
    <3>3. CASE m = mem
      <4>1. wal'[m] = Put(Contents(wal[mem]), mu.batch[mu.logged + 1])
        BY <1>0, <3>1, <3>3
      <4> QED
        BY <2>1, <3>2, <3>3, <4>1
    <3>4. CASE m # mem
      <4>1. wal'[m] = wal[m]
        BY <1>0, <2>0, <3>1, <3>4
      <4> QED
        BY <1>3, <4>1
    <3> QED
      BY <3>3, <3>4
  <2>2. ASSUME NEW who \in Freezer, FreezeCreate(who)
        PROVE  Contents(wal'[m]) = {} \/ wal'[m] = wal[m]
    BY <1>0, <2>0, <2>2, LogEmptied DEF FreezeCreate
  <2>3. CASE FlushRemove
    BY <1>0, <1>3, <2>0, <2>3, LogEmptied DEF FlushRemove
  <2>4. CASE DeleteOrphan
    <3> DEFINE o == CHOOSE o \in Orphans : \A j \in Orphans : o <= j
    <3>1. wal' = [wal EXCEPT ![o] = NoFile] \/ wal' = wal
      BY <2>4 DEF DeleteOrphan
    <3> HIDE DEF o
    <3>2. Contents(wal'[m]) = {} \/ wal'[m] = wal[m]
      BY <1>0, <2>0, <3>1, LogEmptied
    <3> QED
      BY <1>3, <3>2
  <2> QED
    BY <1>0, <1>3, <2>1, <2>2, <2>3, <2>4, Frames
<1> QED
  BY <1>1, <1>2, <1>3

\* A step adds nothing but what its batch holds.
LEMMA DateableStep ==
    ASSUME Types, Structure, Dated, [Next]_vars, Loaded, Loaded'
    PROVE  Dateable' \subseteq Dateable \cup IdsIn(mu.batch)
<1>0. /\ ~ Crash /\ \A s \in Strategies : ~ RecoverOpen(s)
      /\ mems \in [Id -> Content] /\ mem \in Id
  BY DEF Loaded, Crash, RecoverOpen, Types, TreeTypes
<1>1. \A i \in Id : mems'[i] \subseteq mems[i] \cup IdsIn(mu.batch)
  <2>1. CASE WriteApply
    <3>1. /\ mems' = [mems EXCEPT ![mem] = mems[mem] \cup Standing(mu.batch)]
          /\ Standing(mu.batch) \subseteq IdsIn(mu.batch)
      BY <2>1 DEF WriteApply, Standing, IdsIn
    <3> QED
      BY <1>0, <3>1
  <2>2. CASE FlushSwap
    BY <1>0, <2>2 DEF FlushSwap
  <2> QED
    BY <1>0, <2>1, <2>2, Frames, StepsOf
<1>2. ASSUME NEW i \in TableIds' \cup RecordedTables' \cup IdsIn(comp'.new)
      PROVE  Contents(sst'[i]) \subseteq Dateable
  <2>1. CASE i \in TableIds \cup RecordedTables \cup IdsIn(comp.new) /\ sst'[i] = sst[i]
    BY <2>1, DateableParts
  <2>2. CASE i \in Id /\ sst'[i] = mems[i]
    <3>1. Contents(sst'[i]) \subseteq mems[i]
      BY <2>2 DEF Contents
    <3> QED
      BY <2>2, <3>1, DateableParts
  <2>3. CASE sst'[i] = NextTable(comp.rest)
    <3>1. Contents(sst'[i]) \subseteq comp.rest
      BY <2>3 DEF NextTable, Contents
    <3> QED
      BY <3>1, DateableParts
  <2> QED
    BY <2>1, <2>2, <2>3, TableSource
<1>3. ASSUME NEW m \in {mem'} \cup manifest'.mems
      PROVE  Contents(wal'[m]) \subseteq Dateable \cup IdsIn(mu.batch)
  <2>1. CASE m \in {mem} \cup manifest.mems /\ wal'[m] = wal[m]
    BY <2>1, DateableParts
  <2>2. CASE /\ m = mem /\ mu.batch[mu.logged + 1] \in IdsIn(mu.batch)
             /\ wal'[m] = Put(Contents(wal[mem]), mu.batch[mu.logged + 1])
    <3>1. wal'[m] \subseteq Contents(wal[mem]) \cup IdsIn(mu.batch)
      BY <2>2 DEF Put
    <3>2. Contents(wal'[m]) \subseteq wal'[m]
      BY DEF Contents
    <3> QED
      BY <2>2, <3>1, <3>2, DateableParts
  <2> QED
    BY <2>1, <2>2, LogSource
<1>4. comp'.rest \subseteq Dateable
  <2>1. ASSUME NEW w \in 0 .. ts, CompactPick(w)
        PROVE  comp'.rest \subseteq Dateable
    <3>1. \A i \in TableIds : Contents(sst[i]) \subseteq Dateable
      BY DateableParts
    <3>2. UNION {Contents(sst[i]) : i \in TableIds} \subseteq Dateable
      BY <3>1
    <3> QED
      BY <2>1, <3>2, PickInputs
  <2>2. CASE CompactBuild
    <3>1. comp'.rest \subseteq comp.rest
      BY <2>2 DEF CompactBuild, Types, CompTypes
    <3> QED
      BY <3>1, DateableParts
  <2>3. CASE CompactDelete
    <3>1. comp'.rest = {} \/ comp'.rest = comp.rest
      BY <2>3 DEF CompactDelete, NoComp, Types, CompTypes
    <3> QED
      BY <3>1, DateableParts
  <2>4. CompactBuildFails \/ CompactSwap \/ CompactRecordFails => comp'.rest = {}
    <3>1. CompactBuildFails => comp'.rest = {}
      BY DEF CompactBuildFails, NoComp
    <3>2. CompactSwap => comp'.rest = {}
      BY DEF CompactSwap, NoComp
    <3>3. CompactRecordFails => comp'.rest = {}
      BY DEF CompactRecordFails, NoComp
    <3> QED
      BY <3>1, <3>2, <3>3
  <2>5. CASE UNCHANGED comp
    BY <2>5, DateableParts
  <2> QED
    BY <1>0, <2>1, <2>2, <2>3, <2>4, <2>5, Frames
<1>5. InMemory' \subseteq Dateable \cup IdsIn(mu.batch)
  <2>1. \A i \in Id : mems'[i] \subseteq Dateable \cup IdsIn(mu.batch)
    BY <1>1, DateableParts
  <2> QED
    BY <2>1 DEF InMemory
<1>6. InTables' \subseteq Dateable
  <2> DEFINE tables == TableIds' \cup RecordedTables' \cup IdsIn(comp'.new)
  <2>1. InTables' = UNION {Contents(sst'[i]) : i \in tables}
    BY Zenon DEF InTables, Contents
  <2> HIDE DEF tables
  <2>2. \A i \in tables : Contents(sst'[i]) \subseteq Dateable
    BY <1>2 DEF tables
  <2> QED
    BY <2>1, <2>2
<1>7. InLogs' \subseteq Dateable \cup IdsIn(mu.batch)
  <2> DEFINE logs == {mem'} \cup manifest'.mems
  <2>1. InLogs' = UNION {Contents(wal'[m]) : m \in logs}
    BY Zenon DEF InLogs, Contents
  <2> HIDE DEF logs
  <2>2. \A m \in logs : Contents(wal'[m]) \subseteq Dateable \cup IdsIn(mu.batch)
    BY <1>3 DEF logs
  <2> QED
    BY <2>1, <2>2
<1>8. Dateable' = InMemory' \cup InTables' \cup InLogs' \cup comp'.rest
  BY Zenon DEF Dateable
<1> QED
  BY <1>4, <1>5, <1>6, <1>7, <1>8

\* What a recovery finds, and the timestamp it goes on from.
LEMMA NewestTsOf ==
    ASSUME NEW V \in SUBSET Entry
    PROVE  \A v \in V : v.ts <= NewestTs(V)
<1> DEFINE S == {0} \cup {v.ts : v \in V}
<1>1. S \in SUBSET (0 .. MaxTs) /\ S # {}
  BY LsmAssumption DEF Entry
<1>2. \A v \in V : v.ts \in S
  OBVIOUS
<1> HIDE DEF S
<1>3. \A x \in S : x <= Max(S)
  BY <1>1, MaxOf, LsmAssumption
<1> QED
  BY <1>2, <1>3 DEF NewestTs, S

\* Open sets the counter to the greatest timestamp it finds
\* (recover.go:133-149).
LEMMA DateableOpen ==
    ASSUME Types, Structure, NEW s \in Strategies, RecoverOpen(s)
    PROVE  /\ \A v \in Dateable' : v.ts <= ts'
           /\ mu' = Unlocked
<1> DEFINE logs == {wal[m] : m \in Unflushed}
           tabs == {sst[t] : t \in RecordedTables}
           V    == UNION (logs \cup tabs)
<1>0. /\ imm' = NewestFirst(Unflushed) /\ mem' = manifest.maxID + 1 /\ mem' <= MaxId
      /\ mems' = [i \in Id |-> IF i \in Unflushed THEN wal[i] ELSE {}]
      /\ ts' = NewestTs(V) /\ Reopenable(s)
      /\ wal' = [i \in Id |-> IF i = mem' THEN {}
                              ELSE IF i \in manifest.mems THEN Contents(wal[i])
                              ELSE wal[i]]
      /\ UNCHANGED <<sst, manifest>>
  BY RecoverOpenTree
<1>1. /\ TableIds' = RecordedTables /\ RecordedTables' = RecordedTables
      /\ comp' = NoComp /\ mu' = Unlocked
  BY OpenEffect, SameTables
<1>2. /\ \A m \in Unflushed : wal[m] \in Content
      /\ \A t \in RecordedTables : sst[t] \in Content
      /\ \A m \in manifest.mems : m \in Id
      /\ mem' \in Id
  <2>1. \A t \in RecordedTables : sst[t] \in Content
    BY <1>0, NamedIds DEF Reopenable, Types, DiskTypes
  <2>2. mem' \in Id
    BY <1>0, NamedIds DEF Id
  <2> QED
    BY <2>1, <2>2, UnflushedType, NamedIds
<1>3. /\ \A m \in Unflushed : wal[m] \subseteq V
      /\ \A t \in RecordedTables : sst[t] \subseteq V
  OBVIOUS
<1>4. V \in SUBSET Entry
  BY <1>2 DEF Content
<1> HIDE DEF V
<1>5. InMemory' \subseteq V
  BY <1>0, <1>3 DEF InMemory
<1>6. InTables' \subseteq V
  <2>1. IdsIn(comp'.new) = {}
    BY <1>1 DEF NoComp, IdsIn
  <2>2. InTables' = UNION {Contents(sst'[t]) : t \in RecordedTables}
    <3>1. TableIds' \cup RecordedTables' \cup IdsIn(comp'.new) = RecordedTables
      BY <1>1, <2>1
    <3>2. InTables' = UNION {Contents(sst'[t]) :
                              t \in TableIds' \cup RecordedTables' \cup IdsIn(comp'.new)}
      BY Zenon DEF InTables, Contents
    <3> QED
      BY <3>1, <3>2, Zenon
  <2>3. \A t \in RecordedTables : Contents(sst'[t]) \subseteq V
    BY <1>0, <1>3 DEF Contents
  <2> QED
    BY <2>2, <2>3
<1>7. InLogs' \subseteq V
  <2>1. ASSUME NEW m \in {mem'} \cup manifest.mems
        PROVE  Contents(wal'[m]) \subseteq V
    <3>1. CASE m = mem'
      <4>1. wal'[m] = {}
        BY <1>0, <1>2, <3>1
      <4> QED
        BY <4>1, NoContents
    <3>2. CASE m # mem' /\ m \in Unflushed
      <4>1. wal'[m] = Contents(wal[m]) /\ wal[m] \subseteq V
        BY <1>0, <1>2, <1>3, <2>1, <3>2
      <4> QED
        BY <4>1 DEF Contents
    <3>3. CASE m # mem' /\ m \notin Unflushed
      <4>1. wal'[m] = Contents(wal[m]) /\ Contents(wal[m]) = {}
        BY <1>0, <1>2, <2>1, <3>3 DEF Unflushed
      <4> QED
        BY <4>1, NoContents
    <3> QED
      BY <3>1, <3>2, <3>3
  <2>2. InLogs' = UNION {Contents(wal'[m]) : m \in {mem'} \cup manifest.mems}
    <3>1. InLogs' = UNION {Contents(wal'[m]) : m \in {mem'} \cup manifest'.mems}
      BY Zenon DEF InLogs, Contents
    <3> QED
      BY <1>0, <3>1
  <2> DEFINE L == {mem'} \cup manifest.mems
  <2>3. \A m \in L : Contents(wal'[m]) \subseteq V
    BY <2>1
  <2>4. InLogs' = UNION {Contents(wal'[m]) : m \in L}
    BY <2>2
  <2> HIDE DEF L
  <2> QED
    BY <2>3, <2>4
<1>8. comp'.rest = {}
  BY <1>1 DEF NoComp
<1>9. Dateable' \subseteq V
  <2>1. Dateable' = InMemory' \cup InTables' \cup InLogs' \cup comp'.rest
    BY Zenon DEF Dateable
  <2> QED
    BY <1>5, <1>6, <1>7, <1>8, <2>1
<1>10. \A v \in V : v.ts <= ts'
  BY <1>0, <1>4, NewestTsOf
<1> QED
  BY <1>1, <1>9, <1>10

\* Timestamps are numbers.
LEMMA DateableTyped ==
    ASSUME Types
    PROVE  \A v \in Dateable : v.ts \in Nat
<1>0. /\ mems \in [Id -> Content] /\ sst \in [Id -> Content \cup {NoFile}]
      /\ wal \in [Id -> Content \cup {NoFile}] /\ comp.rest \in Content
      /\ mem \in Id /\ comp.new \in Seq(Id)
  BY DEF Types, DiskTypes, TreeTypes, CompTypes
<1>1. TableIds \cup RecordedTables \cup IdsIn(comp.new) \subseteq Id /\ {mem} \cup manifest.mems \subseteq Id
  BY <1>0, NamedIds, IdsInOf
<1>2. \A file \in Content \cup {NoFile} : Contents(file) \in Content
  BY ContentsType
<1>3. InMemory \subseteq Entry /\ InTables \subseteq Entry /\ InLogs \subseteq Entry
  BY <1>0, <1>1, <1>2 DEF InMemory, InTables, InLogs, Content
<1>4. Dateable \subseteq Entry
  BY <1>0, <1>3 DEF Dateable, Content
<1> QED
  BY <1>4, LsmAssumption DEF Entry

\* Dated is inductive, given Types and Structure.
LEMMA DatedStep ==
    ASSUME Types, Structure, Dated, [Next]_vars
    PROVE  Dated'
<1> SUFFICES ASSUME Loaded'
             PROVE  Dated'
  BY DEF Dated
<1>0. IdsIn(<<>>) = {} /\ Unlocked.batch = <<>> /\ Unlocked.pc = "free"
  BY DEF IdsIn, Unlocked
<1>1. CASE ~ Loaded
  <2>1. PICK s \in Strategies : RecoverOpen(s)
    BY <1>1, Frames DEF Loaded, Crash, RecoverRecord, Serve
  <2> QED
    BY <1>0, <2>1, DateableOpen DEF Dated
<1>2. CASE Loaded
  <2>0. /\ \A v \in Dateable \cup IdsIn(mu.batch) : v.ts <= ts
        /\ mu.pc = "log" => /\ \A v \in Dateable \ IdsIn(mu.batch) : v.ts < ts
                            /\ \A v \in IdsIn(mu.batch) : v.ts = ts
        /\ mu.pc = "freeze" => Contents(wal[mu.id]) = {}
        /\ ~ Crash /\ \A s \in Strategies : ~ RecoverOpen(s)
        /\ Dateable' \subseteq Dateable \cup IdsIn(mu.batch)
    BY <1>2, DateableStep DEF Dated, Loaded, Crash, RecoverOpen
  <2>1. ASSUME NEW b \in Batches, WriteStart(b)
        PROVE  Dated'
    <3>1. /\ ts' = ts + 1 /\ ts \in Nat /\ mu'.pc = "log" /\ mu.pc = "free" /\ mu = Unlocked
          /\ mu'.batch = [i \in DOMAIN b |-> [key |-> b[i].key, ts |-> ts + 1, val |-> b[i].val]]
      BY <2>1 DEF WriteStart, Free, Unlocked, Types, CounterTypes, Idle
    <3>2. \A v \in IdsIn(mu'.batch) : v.ts = ts' /\ v.ts <= ts'
      <4>1. \A v \in IdsIn(mu'.batch) : v.ts = ts + 1
        BY <3>1 DEF IdsIn
      <4> QED
        BY <3>1, <4>1
    <3>3. \A v \in Dateable' : v \in Dateable
      BY <1>0, <2>0, <3>1
    <3>4. \A v \in Dateable' : v.ts <= ts' /\ v.ts < ts'
      <4>1. \A v \in Dateable : v.ts \in Nat
        BY DateableTyped
      <4> QED
        BY <2>0, <3>1, <3>3, <4>1
    <3> QED
      BY <3>1, <3>2, <3>4 DEF Dated
  <2>2. CASE ts' = ts /\ mu' = Unlocked
    BY <1>0, <2>0, <2>2 DEF Dated
  <2>3. CASE WalAppend
    <3>1. /\ ts' = ts /\ mu.pc = "log" /\ mu'.pc = "log" /\ mu'.batch = mu.batch
      BY <2>3 DEF WalAppend, Types, WriterTypes
    <3> QED
      BY <2>0, <3>1 DEF Dated
  <2>4. ASSUME NEW who \in Freezer, FreezeCreate(who)
        PROVE  Dated'
    <3>1. /\ ts' = ts /\ mu'.pc = "freeze" /\ mu'.batch = <<>> /\ mu'.id = nextID
          /\ nextID \in Id /\ wal' = [wal EXCEPT ![nextID] = {}]
      BY <2>4, IdNext DEF FreezeCreate, Unlocked
    <3>2. Contents(wal'[mu'.id]) = {}
      BY <3>1, LogEmptied DEF Types, DiskTypes
    <3> QED
      BY <1>0, <2>0, <3>1, <3>2 DEF Dated
  <2>5. CASE FlushBuild \/ FlushRecord
    <3>1. /\ ts' = ts /\ mu'.pc \in {"flush", "flushed"}
          /\ mu'.batch = <<>> \/ mu'.batch = mu.batch
      <4>1. CASE FlushBuild
        BY <4>1 DEF FlushBuild, Unlocked
      <4>2. CASE FlushRecord
        BY <4>2 DEF FlushRecord, FlushSwap, Types, WriterTypes
      <4> QED
        BY <2>5, <4>1, <4>2
    <3> QED
      BY <1>0, <2>0, <3>1 DEF Dated
  <2>6. CASE mu' = mu /\ ts' = ts
    <3>1. mu.pc = "freeze" => wal' = wal
      <4>1. mu.pc = "freeze" => /\ ~ Free /\ ~ WalAppend /\ ~ FlushRemove /\ up = "up"
        BY Busy DEF Free, WalAppend, FlushRemove
      <4> QED
        BY <2>0, <4>1, Frames DEF FreezeCreate, DeleteOrphan
    <3> QED
      BY <2>0, <2>6, <3>1 DEF Dated
  <2>7. \/ WalAppendFails \/ WriteApply \/ FreezeInstall \/ FreezeRecordFails
        \/ FlushRecordFails \/ FlushRemove
        => ts' = ts /\ mu' = Unlocked
    <3>1. WalAppendFails \/ WriteApply \/ FlushRemove => ts' = ts /\ mu' = Unlocked
      BY DEF WalAppendFails, WriteApply, FlushRemove, Release
    <3>2. FreezeInstall \/ FreezeRecordFails => ts' = ts /\ mu' = Unlocked
      BY StepsOf DEF NewMemtable, Release
    <3>3. FlushRecordFails => ts' = ts /\ mu' = Unlocked
      BY DEF FlushRecordFails, FlushSwap, Release
    <3> QED
      BY <3>1, <3>2, <3>3
  <2>8. ts' = ts \/ \E b \in Batches : WriteStart(b)
    BY <2>0, Frames
  <2>9. \/ mu' = mu \/ (\E b \in Batches : WriteStart(b)) \/ WalAppend
        \/ WalAppendFails \/ WriteApply \/ (\E who \in Freezer : FreezeCreate(who))
        \/ FreezeInstall \/ FreezeRecordFails
        \/ FlushBuild \/ FlushRecord \/ FlushRecordFails \/ FlushRemove
    BY <2>0, Frames
  <2> QED
    BY <2>1, <2>2, <2>3, <2>4, <2>5, <2>6, <2>7, <2>8, <2>9, Zenon
<1> QED
  BY <1>1, <1>2

\* Emptied is inductive, given Types.
LEMMA EmptiedStep ==
    ASSUME Types, Emptied, [Next]_vars
    PROVE  Emptied'
<1>0. /\ wal \in [Id -> Content \cup {NoFile}] /\ manifest.mems \subseteq Id
      /\ up # "up" => mu = Unlocked /\ comp = NoComp /\ ~ full
  BY DEF Types, DiskTypes, Idle
<1>1. ASSUME NEW s \in Strategies, RecoverOpen(s)
      PROVE  Emptied'
  <2>1. /\ IdsIn(imm') = Unflushed /\ UNCHANGED manifest
        /\ wal' = [i \in Id |-> IF i = mem' THEN {}
                                ELSE IF i \in manifest.mems THEN Contents(wal[i])
                                ELSE wal[i]]
    BY <1>1, OpenEffect, RecoverOpenTree
  <2>2. ASSUME NEW i \in manifest.mems, i \notin MemIds'
        PROVE  Contents(wal'[i]) = {}
    <3>1. i # mem' /\ i \notin Unflushed
      BY <2>1, <2>2 DEF MemIds
    <3>2. wal'[i] = Contents(wal[i]) /\ Contents(wal[i]) = {}
      BY <1>0, <2>1, <3>1 DEF Unflushed
    <3> QED
      BY <3>2, NoContents
  <2> QED
    BY <2>1, <2>2 DEF Emptied
<1>2. CASE RecoverRecord
  <2>1. /\ manifest'.mems = manifest.mems \cup {mem} /\ UNCHANGED <<wal, mem, imm>>
        /\ up = "reading"
    BY <1>2, RecordEffect DEF RecoverRecord, tree, Types, TreeTypes
  <2>2. MemIds' = MemIds /\ mem \in MemIds
    BY <2>1, SameTables DEF MemIds
  <2> QED
    BY <2>1, <2>2 DEF Emptied
<1>3. CASE Crash \/ Serve
  BY <1>3 DEF Crash, Serve, Emptied
<1>4. CASE /\ UNCHANGED <<up, strategy>> /\ ~ Crash /\ ~ RecoverRecord
           /\ \A s \in Strategies : ~ RecoverOpen(s)
  <2>1. CASE up = "up" \/ up = "down"
    BY <1>4, <2>1 DEF Emptied
  <2>2. CASE up \in {"reading", "opened"}
    <3>1. mu.pc = "free" /\ comp.pc = "idle" /\ ~ Free
      BY <1>0, <2>2 DEF Unlocked, NoComp, Free, Running
    <3>2. /\ ~ NewMemtable /\ ~ FlushSwap /\ ~ SwapIn /\ ~ WalAppend /\ ~ FlushRemove
          /\ \A who \in Freezer : ~ FreezeCreate(who)
      BY <3>1 DEF NewMemtable, FlushSwap, SwapIn, WalAppend, FlushRemove, FreezeCreate
    <3>3. UNCHANGED <<manifest, mem, imm>> /\ (UNCHANGED wal \/ DeleteOrphan)
      BY <1>4, <3>2, Frames, StepsOf
    <3>4. MemIds' = MemIds
      BY <3>3, SameTables
    <3>5. \A i \in Id : wal'[i] = wal[i] \/ Contents(wal'[i]) = {}
      <4>1. CASE DeleteOrphan
        <5> DEFINE o == CHOOSE o \in Orphans : \A j \in Orphans : o <= j
        <5>1. wal' = [wal EXCEPT ![o] = NoFile] \/ wal' = wal
          BY <4>1 DEF DeleteOrphan
        <5> HIDE DEF o
        <5> QED
          BY <1>0, <5>1, LogEmptied
      <4> QED
        BY <3>3, <4>1
    <3> QED
      BY <1>0, <1>4, <2>2, <3>3, <3>4, <3>5 DEF Emptied
  <2> QED
    BY <2>1, <2>2 DEF Types, CounterTypes
<1> QED
  BY <1>1, <1>2, <1>3, <1>4, Frames

\* Both hold when an empty directory has been opened.
LEMMA DatedInit == Init => Dated /\ Emptied
<1> SUFFICES ASSUME Init
             PROVE  Dated /\ Emptied
  OBVIOUS
<1>0. IdsIn(<<>>) = {}
  BY DEF IdsIn
<1>1. /\ wal = [i \in Id |-> IF i = 0 THEN {} ELSE NoFile] /\ 0 \in Id
      /\ sst = [i \in Id |-> NoFile] /\ mems = [i \in Id |-> {}]
      /\ manifest = [mems |-> {0}, l0 |-> <<>>, levels |-> NoLevels, maxID |-> 0,
                     compacted |-> FALSE]
      /\ mem = 0 /\ l0 = <<>> /\ levels = NoLevels
      /\ mu = Unlocked /\ comp = NoComp /\ up = "up"
  BY LsmAssumption DEF Init, Id
<1>2. TableIds = {} /\ RecordedTables = {} /\ IdsIn(comp.new) = {} /\ comp.rest = {}
  BY <1>0, <1>1 DEF TableIds, RecordedTables, NoLevels, NoComp
<1>3. InMemory = {} /\ InLogs = {}
  BY <1>1, NoContents DEF InMemory, InLogs
<1>4. InTables = {}
  BY <1>2 DEF InTables
<1>5. Dateable = {} /\ IdsIn(mu.batch) = {} /\ mu.pc = "free"
  BY <1>0, <1>1, <1>2, <1>3, <1>4 DEF Dateable, Unlocked
<1> QED
  BY <1>1, <1>5 DEF Dated, Emptied

\* Both hold in every reachable state.
LEMMA DatedAlways ==
    ASSUME ~ Reconfigure
    PROVE  Spec => [](Dated /\ Emptied)
<1>1. Init => Dated /\ Emptied
  BY DatedInit
<1>2. Types /\ Structure /\ Dated /\ Emptied /\ [Next]_vars => Dated' /\ Emptied'
  BY DatedStep, EmptiedStep
<1> QED
  BY <1>1, <1>2, TypesAlways, StructureAlways, PTL DEF Spec

(***************************************************************************)
(* The timestamp of the batch being written is above every version the     *)
(* engine has or would recover (recover.go:133-149, mvcc.go:36), however   *)
(* often it was closed or died: it goes on from the newest timestamp it    *)
(* finds, and every file it may later read holds what it found or older.   *)
(***************************************************************************)
THEOREM LsmTsFresh ==
    ASSUME ~ Reconfigure
    PROVE  Spec => []TsFresh
<1>1. Types /\ Dated => TsFresh
  <2> SUFFICES ASSUME Types, Dated, mu.pc = "log"
               PROVE  \A v \in (Visible \cup Recoverable) \ IdsIn(mu.batch) : v.ts < ts
    BY DEF TsFresh
  <2>1. \A v \in Dateable \ IdsIn(mu.batch) : v.ts < ts
    BY Busy DEF Dated
  <2>2. Visible \subseteq Dateable
    <3>1. \A m \in {mem} \cup IdsIn(imm) : m \in Id
      BY IdsInOf DEF Types, TreeTypes
    <3> QED
      BY <3>1, DateableParts DEF Visible
  <2>3. Recoverable \subseteq Dateable
    BY DateableParts DEF Recoverable
  <2> QED
    BY <2>1, <2>2, <2>3
<1> QED
  BY <1>1, TypesAlways, DatedAlways, PTL

\* No step damages a file the manifest goes on naming.
LEMMA FilesKeptStep ==
    ASSUME Types, Structure, Dated, Emptied, [Next]_vars
    PROVE  /\ \A i \in manifest.mems \cap manifest'.mems :
                Contents(wal[i]) \ IdsIn(mu.batch) \subseteq Contents(wal'[i])
           /\ \A i \in RecordedTables : sst'[i] = sst[i]
<1>0. /\ wal \in [Id -> Content \cup {NoFile}] /\ manifest.mems \subseteq Id
  BY DEF Types, DiskTypes
<1>1. ASSUME NEW i \in RecordedTables
      PROVE  sst'[i] = sst[i]
  <2>1. CASE Loaded
    <3>1. i \notin MemIds
      BY <2>1 DEF Structure, Apart
    <3> QED
      BY <2>1, <3>1, SstKept
  <2>2. CASE ~ Loaded
    <3>1. up = "down" /\ mu.pc = "free" /\ comp.pc = "idle"
      BY <2>2 DEF Loaded, Types, Idle, Unlocked, NoComp
    <3> QED
      BY <3>1, Frames DEF FlushBuild, CompactBuild, CompactDelete, DeleteOrphan, Free, Running
  <2> QED
    BY <2>1, <2>2
<1>2. ASSUME NEW i \in manifest.mems, i \in manifest'.mems
      PROVE  Contents(wal[i]) \ IdsIn(mu.batch) \subseteq Contents(wal'[i])
  <2>0. i \in Id
    BY <1>0
  <2>1. CASE WalAppend
    <3>1. /\ mu.pc = "log" /\ Loaded /\ mu.logged + 1 \in DOMAIN mu.batch /\ mem \in Id
          /\ wal' = [wal EXCEPT ![mem] = Put(Contents(wal[mem]), mu.batch[mu.logged + 1])]
          /\ mu.batch[mu.logged + 1] \in Entry
      BY <2>1, Busy DEF WalAppend, Types, WriterTypes, TreeTypes
    <3>2. mu.batch[mu.logged + 1] \in IdsIn(mu.batch)
      BY <3>1 DEF IdsIn
    <3>3. /\ mu.batch[mu.logged + 1].ts = ts
          /\ \A v \in Contents(wal[mem]) \ IdsIn(mu.batch) : v.ts # ts
      <4>1. \A v \in Dateable \ IdsIn(mu.batch) : v.ts < ts
        BY <3>1 DEF Dated
      <4>2. \A v \in Dateable \ IdsIn(mu.batch) : v.ts # ts
        BY <4>1, DateableTyped DEF Types, CounterTypes
      <4> QED
        BY <3>1, <3>2, <4>2, DateableParts DEF Dated
    <3>4. CASE i = mem
      <4>1. wal'[i] = Put(Contents(wal[i]), mu.batch[mu.logged + 1])
        BY <1>0, <2>0, <3>1, <3>4
      <4>2. Put(Contents(wal[i]), mu.batch[mu.logged + 1]) \in Content
        BY <1>0, <2>0, <3>1, ContentsType, PutContent
      <4>3. Contents(wal'[i]) = Put(Contents(wal[i]), mu.batch[mu.logged + 1])
        BY <4>1, <4>2, NotAFile DEF Contents
      <4> QED
        BY <3>3, <3>4, <4>3 DEF Put
    <3>5. CASE i # mem
      <4>1. wal'[i] = wal[i]
        BY <1>0, <2>0, <3>1, <3>5
      <4> QED
        BY <4>1
    <3> QED
      BY <3>4, <3>5
  <2>2. ASSUME NEW who \in Freezer, FreezeCreate(who)
        PROVE  wal'[i] = wal[i]
    <3>1. Loaded /\ i \in InUse
      BY <2>2 DEF FreezeCreate, Free, Running, Loaded, InUse, Named
    <3>2. i # nextID
      <4>1. i < nextID /\ i \in Nat /\ nextID \in Nat
        BY <3>1, Busy DEF Structure, Below
      <4> QED
        BY <4>1
    <3> QED
      BY <1>0, <2>0, <2>2, <3>2 DEF FreezeCreate
  <2>3. CASE FlushRemove
    <3>1. mu.pc = "flushed" /\ Loaded
      BY <2>3, Busy DEF FlushRemove
    <3>2. i # mu.id
      BY <3>1 DEF Structure, Apart
    <3> QED
      BY <1>0, <2>0, <2>3, <3>2 DEF FlushRemove
  <2>4. ASSUME NEW s \in Strategies, RecoverOpen(s)
        PROVE  Contents(wal[i]) \subseteq Contents(wal'[i])
    <3>1. mem' = manifest.maxID + 1
          /\ wal' = [j \in Id |-> IF j = mem' THEN {}
                                  ELSE IF j \in manifest.mems THEN Contents(wal[j])
                                  ELSE wal[j]]
      BY <2>4, RecoverOpenTree
    <3>2. i # mem'
      <4>1. i <= manifest.maxID /\ i \in Nat /\ manifest.maxID \in Nat
        BY <2>0, NamedIds DEF Structure, Counted, Named, Id
      <4> QED
        BY <3>1, <4>1
    <3>3. wal'[i] = Contents(wal[i]) /\ Contents(wal[i]) \in Content
      BY <1>0, <2>0, <3>1, <3>2, ContentsType
    <3> QED
      BY <3>3, NotAFile DEF Contents
  <2>5. CASE DeleteOrphan
    <3> DEFINE o == CHOOSE o \in Orphans : \A j \in Orphans : o <= j
    <3>1. /\ up = "opened" /\ Orphans # {}
          /\ IF o \in OrphanSsts THEN wal' = wal ELSE wal' = [wal EXCEPT ![o] = NoFile]
      BY <2>5 DEF DeleteOrphan
    <3>2. o \in Orphans
      <4>1. Orphans \in SUBSET Nat
        BY DEF Orphans, OrphanWals, OrphanSsts, Id
      <4>2. \E n \in Orphans : \A j \in Orphans : n <= j
        BY <3>1, <4>1, LeastNat
      <4> QED
        BY <4>2
    <3> HIDE DEF o
    <3>3. CASE o \in OrphanSsts
      BY <3>1, <3>3
    <3>4. CASE o \notin OrphanSsts
      <4>1. o \notin MemIds /\ wal' = [wal EXCEPT ![o] = NoFile]
        BY <3>1, <3>2, <3>4 DEF Orphans, OrphanWals, MemIds
      <4>2. CASE i = o
        <5>1. Contents(wal[i]) = {}
          BY <3>1, <4>1, <4>2 DEF Emptied
        <5> QED
          BY <5>1
      <4>3. CASE i # o
        <5>1. wal'[i] = wal[i]
          BY <1>0, <2>0, <4>1, <4>3
        <5> QED
          BY <5>1
      <4> QED
        BY <4>2, <4>3
    <3> QED
      BY <3>3, <3>4
  <2>6. wal'[i] = wal[i] => Contents(wal[i]) \subseteq Contents(wal'[i])
    OBVIOUS
  <2> QED
    BY <2>1, <2>2, <2>3, <2>4, <2>5, <2>6, Frames
<1> QED
  BY <1>1, <1>2

(***************************************************************************)
(* An id is never given out twice while a file under it is needed: no step *)
(* truncates the log of a memtable the manifest names, or overwrites or    *)
(* deletes a table it names (storage.go:169-179, recover.go:114-119).      *)
(***************************************************************************)
THEOREM LsmFilesKept ==
    ASSUME ~ Reconfigure
    PROVE  Spec => FilesKept
<1> DEFINE Keeps ==
        /\ \A i \in manifest.mems \cap manifest'.mems :
             Contents(wal[i]) \ IdsIn(mu.batch) \subseteq Contents(wal'[i])
        /\ \A i \in IdsIn(manifest.l0) :
             i \in IdsIn(manifest'.l0) => sst'[i] = sst[i]
        /\ \A n \in 1 .. MaxLevels : \A i \in IdsIn(manifest.levels[n]) :
             i \in IdsIn(manifest'.levels[n]) => sst'[i] = sst[i]
<1>1. Types /\ Structure /\ Dated /\ Emptied /\ [Next]_vars => [Keeps]_vars
  <2> SUFFICES ASSUME Types, Structure, Dated, Emptied, [Next]_vars
               PROVE  Keeps
    OBVIOUS
  <2>1. /\ IdsIn(manifest.l0) \subseteq RecordedTables
        /\ \A n \in 1 .. MaxLevels : IdsIn(manifest.levels[n]) \subseteq RecordedTables
    BY DEF RecordedTables
  <2> QED
    BY <2>1, FilesKeptStep
<1> HIDE DEF Keeps
<1>2. Spec => [][Keeps]_vars
  BY <1>1, TypesAlways, StructureAlways, DatedAlways, PTL DEF Spec
<1> QED
  BY <1>2 DEF FilesKept, Keeps

-----------------------------------------------------------------------------
(* The layout in memory and the one the manifest gives, when its records   *)
(* are written.                                                            *)

SameTiers == Loaded => l0 = manifest.l0 /\ levels = manifest.levels

\* A memtable is recorded, and what it holds is in its log.
Logged ==
    Loaded =>
      /\ up # "reading" => mem \in manifest.mems
      /\ \A i \in IdsIn(imm) : i \in manifest.mems /\ Contents(wal[i]) # {}
      /\ \A i \in manifest.mems \ MemIds : Contents(wal[i]) = {}
      /\ \A i \in Id \ MemIds : mems[i] = {}
      /\ mems[mem] # {} \/ mu.pc = "freeze" \/ (mu.pc = "log" /\ mu.logged > 0)
         => Contents(wal[mem]) # {}

\* If appending to the manifest cannot fail, the steps where it does are not
\* taken.
LEMMA NoRecordFails ==
    ASSUME "manifest" \notin Faults
    PROVE  ~ FreezeRecordFails /\ ~ FlushRecordFails /\ ~ CompactRecordFails
  BY DEF FreezeRecordFails, FlushRecordFails, CompactRecordFails

\* Each swap is recorded with it, so memory and manifest stay the same.
LEMMA SameTiersStep ==
    ASSUME Types, Structure, SameTiers, [Next]_vars, "manifest" \notin Faults
    PROVE  SameTiers'
<1> SUFFICES ASSUME Loaded'
             PROVE  l0' = manifest'.l0 /\ levels' = manifest'.levels
  BY DEF SameTiers
<1>1. ASSUME NEW s \in Strategies, RecoverOpen(s)
      PROVE  l0' = manifest'.l0 /\ levels' = manifest'.levels
  BY <1>1, RecoverOpenTree
<1>2. CASE \A s \in Strategies : ~ RecoverOpen(s)
  <2>0. /\ Loaded /\ l0 = manifest.l0 /\ levels = manifest.levels /\ ~ Crash
        /\ manifest \in ManifestSet /\ mem \in Id /\ mu.id \in Id
    <3>1. Loaded
      BY <1>2, Frames DEF Loaded, Crash, RecoverRecord, Serve
    <3> QED
      BY <3>1 DEF SameTiers, Loaded, Crash, Types, DiskTypes, ManifestSet, TreeTypes, WriterTypes
  <2>1. CASE FreezeInstall
    <3>1. UNCHANGED <<l0, levels>> /\ manifest' = RecordMemtable(manifest, mu.id)
      BY <2>1 DEF FreezeInstall, NewMemtable
    <3> QED
      BY <2>0, <3>1, RecordEffect
  <2>2. CASE RecoverRecord
    <3>1. UNCHANGED <<l0, levels>> /\ manifest' = RecordMemtable(manifest, mem)
      BY <2>2 DEF RecoverRecord, tree
    <3> QED
      BY <2>0, <3>1, RecordEffect
  <2>3. CASE FlushRecord
    <3>1. /\ l0' = <<Oldest>> \o l0 /\ UNCHANGED levels /\ Oldest \in Id
          /\ manifest' = RecordFlush(manifest, Oldest)
      BY <2>3, FlushEffect DEF FlushRecord, FlushSwap
    <3> QED
      BY <2>0, <3>1, RecordEffect
  <2>4. CASE CompactSwap
    <3> DEFINE u == comp.task.upperLevel
               l == comp.task.lowerLevel
    <3>0. /\ SwapIn /\ comp.pc = "merge" /\ TaskPicked /\ Unfilled
          /\ manifest' = RecordCompaction(manifest, comp.task, comp.new)
      BY <2>4 DEF CompactSwap, SwapIn, Structure
    <3>1. /\ strategy \in {"full", "leveled"}
          /\ strategy = "full" => u = 0 /\ l = MaxLevels
          /\ \A i \in 1 .. MaxLevels : i # 0
      BY <3>0, LsmAssumption DEF TaskPicked, Types, CounterTypes
    <3>2. /\ manifest'.l0 = IF u = 0 THEN RemoveIDs(manifest.l0, comp.task.upperIDs)
                            ELSE manifest.l0
          /\ manifest'.levels =
               [i \in 1 .. MaxLevels |->
                  IF i = l THEN comp.new
                  ELSE IF i = u THEN RemoveIDs(manifest.levels[i], comp.task.upperIDs)
                  ELSE manifest.levels[i]]
      BY <2>0, <3>0 DEF RecordCompaction, SupersededLevels, ManifestSet
    <3>3. CASE strategy = "full"
      <4>1. /\ l0' = RemoveIDs(l0, comp.task.upperIDs)
            /\ levels' = [i \in 1 .. MaxLevels |-> IF i = MaxLevels THEN comp.new ELSE <<>>]
        BY <3>0, <3>3 DEF SwapIn, ApplyResult, FullResult
      <4>2. \A i \in 1 .. MaxLevels : i # MaxLevels => manifest.levels[i] = <<>>
        BY <3>0, <3>3 DEF Unfilled
      <4>3. u = 0 /\ l = MaxLevels
        BY <3>1, <3>3
      <4> HIDE DEF u, l
      <4> QED
        BY <2>0, <3>1, <3>2, <4>1, <4>2, <4>3
    <3>4. CASE strategy = "leveled"
      <4>1. /\ l0' = IF u = 0 THEN RemoveIDs(l0, comp.task.upperIDs) ELSE l0
            /\ levels' = [i \in 1 .. MaxLevels |->
                            IF i = l THEN comp.new
                            ELSE IF i = u THEN RemoveIDs(levels[i], comp.task.upperIDs)
                            ELSE levels[i]]
        BY <3>0, <3>4 DEF SwapIn, ApplyResult, LeveledResult
      <4> HIDE DEF u, l
      <4> QED
        BY <2>0, <3>2, <4>1
    <3> QED
      BY <3>1, <3>3, <3>4
  <2>5. CASE UNCHANGED <<l0, levels, manifest>>
    BY <2>0, <2>5
  <2> QED
    BY <1>2, <2>0, <2>1, <2>2, <2>3, <2>4, <2>5, NoRecordFails, Frames
<1> QED
  BY <1>1, <1>2

\* The log of a memtable in use only grows; an empty one that is not stays empty.
LEMMA LogsKept ==
    ASSUME Types, Structure, [Next]_vars, Loaded, Loaded'
    PROVE  /\ \A m \in MemIds :
                wal'[m] = wal[m] \/ (m = mem /\ Contents(wal'[m]) # {})
           /\ \A m \in Id \ MemIds : wal'[m] = wal[m] \/ Contents(wal'[m]) = {}
           /\ WalAppend => Contents(wal'[mem]) # {}
<1>0. /\ ~ Crash /\ \A s \in Strategies : ~ RecoverOpen(s)
      /\ wal \in [Id -> Content \cup {NoFile}] /\ MemIds \subseteq Id /\ mem \in MemIds
  BY IdsInOf DEF Loaded, Crash, RecoverOpen, Types, DiskTypes, TreeTypes, MemIds
<1>1. CASE WalAppend
  <2>1. /\ mu.logged + 1 \in DOMAIN mu.batch /\ mu.batch[mu.logged + 1] \in Entry
        /\ wal' = [wal EXCEPT ![mem] = Put(Contents(wal[mem]), mu.batch[mu.logged + 1])]
    BY <1>1 DEF WalAppend, Types, WriterTypes
  <2>2. wal'[mem] = Put(Contents(wal[mem]), mu.batch[mu.logged + 1])
    BY <1>0, <2>1
  <2>3. wal'[mem] \in Content /\ wal'[mem] # {}
    <3>1. Contents(wal[mem]) \in Content
      BY <1>0, ContentsType
    <3> QED
      BY <2>1, <2>2, <3>1, PutContent DEF Put
  <2>4. Contents(wal'[mem]) # {}
    BY <2>3, NotAFile DEF Contents
  <2>5. \A m \in Id : m # mem => wal'[m] = wal[m]
    BY <1>0, <2>1
  <2> QED
    BY <1>0, <2>4, <2>5
<1>2. ASSUME NEW who \in Freezer, FreezeCreate(who)
      PROVE  \A m \in Id : /\ m \in MemIds => wal'[m] = wal[m]
                           /\ wal'[m] = wal[m] \/ Contents(wal'[m]) = {}
  <2>1. nextID \notin MemIds
    <3>1. \A m \in MemIds : m < nextID /\ m \in Nat
      BY Busy DEF Structure, Below, InUse
    <3> QED
      BY <3>1, Busy
  <2> QED
    BY <1>0, <1>2, <2>1, LogEmptied DEF FreezeCreate
<1>3. CASE FlushRemove
  <2>1. mu.id \notin MemIds
    BY <1>3 DEF FlushRemove, Structure, Apart
  <2> QED
    BY <1>0, <1>3, <2>1, LogEmptied DEF FlushRemove, WalAppend
<1>4. CASE DeleteOrphan
  <2> DEFINE o == CHOOSE o \in Orphans : \A j \in Orphans : o <= j
  <2>1. /\ up = "opened" /\ Orphans # {}
        /\ IF o \in OrphanSsts THEN wal' = wal ELSE wal' = [wal EXCEPT ![o] = NoFile]
    BY <1>4 DEF DeleteOrphan
  <2>2. o \in Orphans
    <3>1. Orphans \in SUBSET Nat
      BY DEF Orphans, OrphanWals, OrphanSsts, Id
    <3>2. \E n \in Orphans : \A j \in Orphans : n <= j
      BY <2>1, <3>1, LeastNat
    <3> QED
      BY <3>2
  <2> HIDE DEF o
  <2>3. wal' = wal \/ (o \notin MemIds /\ wal' = [wal EXCEPT ![o] = NoFile])
    BY <2>1, <2>2 DEF Orphans, OrphanWals, MemIds
  <2>4. ~ WalAppend
    BY <2>1, Busy DEF WalAppend
  <2> QED
    BY <1>0, <2>3, <2>4, LogEmptied
<1>5. FlushRemove \/ (\E who \in Freezer : FreezeCreate(who)) => ~ WalAppend
  BY DEF FlushRemove, FreezeCreate, WalAppend, Free
<1>6. CASE wal' = wal
  BY <1>1, <1>6
<1> QED
  BY <1>0, <1>1, <1>2, <1>3, <1>4, <1>5, <1>6, Frames

\* What the steps do to the memtables and their records.
LEMMA MemtableSteps ==
    ASSUME Types, Structure, [Next]_vars, Loaded, Loaded', "manifest" \notin Faults
    PROVE  \/ /\ FreezeInstall /\ mu.pc = "freeze" /\ mu.id \in Id /\ mu.id \notin InUse
              /\ mem' = mu.id /\ IdsIn(imm') = {mem} \cup IdsIn(imm)
              /\ manifest'.mems = manifest.mems \cup {mu.id}
              /\ UNCHANGED <<wal, mems>> /\ mu'.pc = "free" /\ up = "up"
           \/ /\ FlushRecord /\ Oldest \in IdsIn(imm) /\ mem \notin IdsIn(imm)
              /\ mem' = mem /\ IdsIn(imm') = IdsIn(imm) \ {Oldest}
              /\ manifest'.mems = manifest.mems \ {Oldest}
              /\ mems' = [mems EXCEPT ![Oldest] = {}] /\ UNCHANGED wal
              /\ mu'.pc = "flushed" /\ up = "up"
           \/ /\ RecoverRecord /\ UNCHANGED <<mem, imm, mems, wal, mu>>
              /\ manifest'.mems = manifest.mems \cup {mem}
           \/ /\ ~ FreezeInstall /\ ~ FlushRecord /\ ~ RecoverRecord
              /\ UNCHANGED <<mem, imm>> /\ manifest'.mems = manifest.mems
              /\ mems' = mems \/ WriteApply
<1>0. /\ ~ Crash /\ (\A s \in Strategies : ~ RecoverOpen(s))
      /\ ~ FreezeRecordFails /\ ~ FlushRecordFails /\ ~ CompactRecordFails
  BY NoRecordFails DEF Loaded, Crash, RecoverOpen
<1>1. CASE FreezeInstall
  <2>1. /\ NewMemtable /\ mu.pc = "freeze" /\ mu.id \in Id /\ up = "up"
        /\ manifest' = RecordMemtable(manifest, mu.id) /\ UNCHANGED <<wal, mems>>
        /\ mu'.pc = "free"
    BY <1>1, Busy DEF FreezeInstall, NewMemtable, Types, WriterTypes, Release, Unlocked
  <2>2. mu.id \notin InUse
    BY <2>1 DEF Structure, Apart
  <2> QED
    BY <1>1, <2>1, <2>2, FreezeEffect, RecordEffect
<1>2. CASE FlushRecord
  <2>1. /\ FlushSwap /\ manifest' = RecordFlush(manifest, Oldest) /\ Oldest \in Id
        /\ mems' = [mems EXCEPT ![Oldest] = {}] /\ UNCHANGED wal /\ mu'.pc = "flushed"
        /\ up = "up"
    BY <1>2, FlushEffect, Busy DEF FlushRecord, FlushSwap, Types, WriterTypes
  <2>2. mem \notin IdsIn(imm)
    BY DEF Structure, Apart
  <2> QED
    BY <1>2, <2>1, <2>2, FlushEffect, RecordEffect
<1>3. CASE RecoverRecord
  BY <1>3, RecordEffect DEF RecoverRecord, tree, Types, TreeTypes
<1>4. CASE ~ FreezeInstall /\ ~ FlushRecord /\ ~ RecoverRecord
  <2>1. manifest'.mems = manifest.mems
    <3>1. CompactSwap => manifest'.mems = manifest.mems
      BY SwapTables, TypesStep
    <3> QED
      BY <1>4, <3>1, Frames
  <2>2. UNCHANGED <<mem, imm>> /\ (mems' = mems \/ WriteApply)
    BY <1>0, <1>4, Frames
  <2> QED
    BY <1>4, <2>1, <2>2
<1> QED
  BY <1>1, <1>2, <1>3, <1>4

\* After Open the restored memtables are those with a log.
LEMMA LoggedOpen ==
    ASSUME Types, Structure, NEW s \in Strategies, RecoverOpen(s)
    PROVE  Logged'
<1>0. wal \in [Id -> Content \cup {NoFile}] /\ manifest.mems \subseteq Id
  BY DEF Types, DiskTypes
<1>1. /\ IdsIn(imm') = Unflushed /\ UNCHANGED manifest /\ up' = "reading"
      /\ mem' = manifest.maxID + 1 /\ mem' <= MaxId /\ mu' = Unlocked
      /\ Unflushed \subseteq manifest.mems
      /\ mems' = [i \in Id |-> IF i \in Unflushed THEN wal[i] ELSE {}]
      /\ wal' = [i \in Id |-> IF i = mem' THEN {}
                              ELSE IF i \in manifest.mems THEN Contents(wal[i])
                              ELSE wal[i]]
  BY OpenEffect, RecoverOpenTree
<1>2. mem' \notin manifest.mems
  BY <1>1, NamedIds DEF Structure, Counted, Named
<1>3. ASSUME NEW i \in manifest.mems
      PROVE  Contents(wal'[i]) = Contents(wal[i])
  <2>1. wal'[i] = Contents(wal[i]) /\ Contents(wal[i]) \in Content
    BY <1>0, <1>1, <1>2, ContentsType
  <2> QED
    BY <2>1, NotAFile DEF Contents
<1>4. \A i \in IdsIn(imm') : i \in manifest'.mems /\ Contents(wal'[i]) # {}
  BY <1>1, <1>3 DEF Unflushed
<1>5. \A i \in manifest'.mems \ MemIds' : Contents(wal'[i]) = {}
  BY <1>1, <1>3 DEF Unflushed, MemIds
<1>6. \A i \in Id \ MemIds' : mems'[i] = {}
  BY <1>1 DEF MemIds
<1>7. mems'[mem'] = {}
  <2>1. mem' \in Id
    BY <1>1, NamedIds DEF Id
  <2> QED
    BY <1>1, <1>2, <2>1
<1> QED
  BY <1>1, <1>4, <1>5, <1>6, <1>7 DEF Logged, Unlocked

\* Logged is inductive, given Types and Structure.
LEMMA LoggedStep ==
    ASSUME Types, Structure, Logged, [Next]_vars, "manifest" \notin Faults
    PROVE  Logged'
<1> SUFFICES ASSUME Loaded'
             PROVE  Logged'
  BY DEF Logged
<1>1. CASE ~ Loaded
  <2>1. PICK s \in Strategies : RecoverOpen(s)
    BY <1>1, Frames DEF Loaded, Crash, RecoverRecord, Serve
  <2> QED
    BY <2>1, LoggedOpen
<1>2. CASE Loaded
  <2>0. /\ up # "reading" => mem \in manifest.mems
        /\ \A i \in IdsIn(imm) : i \in manifest.mems /\ Contents(wal[i]) # {}
        /\ \A i \in manifest.mems \ MemIds : Contents(wal[i]) = {}
        /\ \A i \in Id \ MemIds : mems[i] = {}
        /\ mems[mem] # {} \/ mu.pc = "freeze" \/ (mu.pc = "log" /\ mu.logged > 0)
           => Contents(wal[mem]) # {}
        /\ mems \in [Id -> Content] /\ mem \in Id /\ manifest.mems \subseteq Id
        /\ mem \notin IdsIn(imm) /\ ~ Crash
        /\ \A i \in IdsIn(imm) : i \in Id
    BY <1>2, IdsInOf
       DEF Logged, Types, TreeTypes, DiskTypes, Structure, Apart, Loaded, Crash
  <2>1. CASE /\ FreezeInstall /\ mu.pc = "freeze" /\ mu.id \in Id /\ mu.id \notin InUse
             /\ mem' = mu.id /\ IdsIn(imm') = {mem} \cup IdsIn(imm)
             /\ manifest'.mems = manifest.mems \cup {mu.id}
             /\ UNCHANGED <<wal, mems>> /\ mu'.pc = "free" /\ up = "up"
    <3>1. /\ mu.id \notin MemIds /\ MemIds' = MemIds \cup {mu.id} /\ mem \in manifest.mems
          /\ Contents(wal'[mem]) # {} /\ wal' = wal /\ mems' = mems
      BY <2>0, <2>1 DEF InUse, MemIds
    <3> QED
      BY <2>0, <2>1, <3>1 DEF Logged
  <2>2. CASE /\ FlushRecord /\ Oldest \in IdsIn(imm) /\ mem \notin IdsIn(imm)
             /\ mem' = mem /\ IdsIn(imm') = IdsIn(imm) \ {Oldest}
             /\ manifest'.mems = manifest.mems \ {Oldest}
             /\ mems' = [mems EXCEPT ![Oldest] = {}] /\ UNCHANGED wal
             /\ mu'.pc = "flushed" /\ up = "up"
    <3>1. /\ MemIds' = MemIds \ {Oldest} /\ mem # Oldest /\ mems'[mem] = mems[mem]
          /\ \A i \in Id : mems'[i] = mems[i] \/ (i = Oldest /\ mems'[i] = {})
      BY <2>0, <2>2 DEF MemIds
    <3> QED
      BY <2>0, <2>2, <3>1 DEF Logged
  <2>3. CASE /\ RecoverRecord /\ UNCHANGED <<mem, imm, mems, wal, mu>>
             /\ manifest'.mems = manifest.mems \cup {mem}
    <3>1. MemIds' = MemIds /\ mem \in MemIds
      BY <2>3, SameTables DEF MemIds
    <3> QED
      BY <2>0, <2>3, <3>1 DEF Logged
  <2>4. CASE /\ ~ FreezeInstall /\ ~ FlushRecord /\ ~ RecoverRecord
             /\ UNCHANGED <<mem, imm>> /\ manifest'.mems = manifest.mems
             /\ mems' = mems \/ WriteApply
    <3>1. /\ MemIds' = MemIds /\ IdsIn(imm') = IdsIn(imm) /\ mem' = mem
      BY <2>4, SameTables
    <3>2. /\ \A m \in MemIds : wal'[m] = wal[m] \/ (m = mem /\ Contents(wal'[m]) # {})
          /\ \A m \in Id \ MemIds : wal'[m] = wal[m] \/ Contents(wal'[m]) = {}
          /\ WalAppend => Contents(wal'[mem]) # {}
      BY <1>2, LogsKept
    <3>3. up' # "reading" => mem' \in manifest'.mems
      <4>1. up' # "reading" => up # "reading"
        BY <2>0, <2>4, Frames DEF Serve, RecoverOpen
      <4> QED
        BY <2>0, <2>4, <3>1, <4>1
    <3>4. \A i \in IdsIn(imm') : i \in manifest'.mems /\ Contents(wal'[i]) # {}
      <4>1. \A i \in IdsIn(imm) : i \in MemIds /\ i # mem
        BY <2>0 DEF MemIds
      <4> QED
        BY <2>0, <2>4, <3>1, <3>2, <4>1
    <3>5. \A i \in manifest'.mems \ MemIds' : Contents(wal'[i]) = {}
      BY <2>0, <2>4, <3>1, <3>2
    <3>6. /\ \A i \in Id : i # mem => mems'[i] = mems[i]
          /\ mems'[mem] # {} => Contents(wal[mem]) # {}
      <4>1. CASE mems' = mems
        BY <2>0, <4>1
      <4>2. CASE WriteApply
        <5>1. /\ mems' = [mems EXCEPT ![mem] = mems[mem] \cup Standing(mu.batch)]
              /\ mu.pc = "log" /\ mu.logged = Len(mu.batch) /\ mu.batch \in Seq(Entry)
          BY <4>2 DEF WriteApply, Types, WriterTypes
        <5>2. CASE mu.logged > 0
          BY <2>0, <5>1, <5>2
        <5>3. CASE ~ (mu.logged > 0)
          <6>1. Len(mu.batch) = 0
            BY <5>1, <5>3
          <6>2. Standing(mu.batch) = {}
            BY <5>1, <6>1 DEF Standing
          <6>3. mems'[mem] = mems[mem]
            BY <2>0, <5>1, <6>2
          <6> QED
            BY <2>0, <5>1, <6>3
        <5> QED
          BY <5>2, <5>3
      <4> QED
        BY <2>4, <4>1, <4>2
    <3>7. \A i \in Id \ MemIds' : mems'[i] = {}
      BY <2>0, <3>1, <3>6 DEF MemIds
    <3>8. mu'.pc = "freeze" \/ (mu'.pc = "log" /\ mu'.logged > 0) => Contents(wal[mem]) # {} \/ WalAppend
      <4>1. CASE UNCHANGED mu
        BY <2>0, <4>1
      <4>2. ASSUME NEW b \in Batches, WriteStart(b)
            PROVE  mu'.pc = "log" /\ mu'.logged = 0
        BY <4>2 DEF WriteStart, Unlocked
      <4>3. ASSUME NEW who \in Freezer, FreezeCreate(who)
            PROVE  mems[mem] # {}
        BY <4>3 DEF FreezeCreate
      <4>4. /\ WalAppendFails \/ WriteApply \/ FlushRemove => mu'.pc = "free"
            /\ FlushBuild => mu'.pc = "flush"
        BY DEF WalAppendFails, WriteApply, FlushRemove, FlushBuild, Release, Unlocked
      <4> QED
        BY <2>0, <2>4, <4>1, <4>2, <4>3, <4>4, NoRecordFails, Frames
    <3>9. Contents(wal[mem]) # {} \/ WalAppend => Contents(wal'[mem]) # {}
      BY <3>2 DEF MemIds
    <3> QED
      BY <3>1, <3>3, <3>4, <3>5, <3>6, <3>7, <3>8, <3>9 DEF Logged
  <2> QED
    BY <1>2, <2>1, <2>2, <2>3, <2>4, MemtableSteps
<1> QED
  BY <1>1, <1>2

\* Both hold when an empty directory has been opened.
LEMMA ReplayedInit == Init => SameTiers /\ Logged
<1> SUFFICES ASSUME Init
             PROVE  SameTiers /\ Logged
  OBVIOUS
<1>1. /\ mems = [i \in Id |-> {}] /\ 0 \in Id /\ MemIds = {0} /\ IdsIn(imm) = {}
      /\ manifest = [mems |-> {0}, l0 |-> <<>>, levels |-> NoLevels, maxID |-> 0,
                     compacted |-> FALSE]
      /\ mem = 0 /\ l0 = <<>> /\ levels = NoLevels /\ mu.pc = "free"
  BY LsmAssumption DEF Init, Id, MemIds, IdsIn, Unlocked
<1> QED
  BY <1>1 DEF SameTiers, Logged

\* Both hold in every reachable state, if appending to the manifest cannot
\* fail.
LEMMA ReplayedAlways ==
    ASSUME ~ Reconfigure, "manifest" \notin Faults
    PROVE  Spec => [](SameTiers /\ Logged)
<1>1. Init => SameTiers /\ Logged
  BY ReplayedInit
<1>2. Types /\ Structure /\ SameTiers /\ Logged /\ [Next]_vars => SameTiers' /\ Logged'
  BY SameTiersStep, LoggedStep
<1> QED
  BY <1>1, <1>2, TypesAlways, StructureAlways, PTL DEF Spec

(***************************************************************************)
(* Replaying the manifest rebuilds the layout in memory: the same tables   *)
(* in the same order, the same unflushed memtables (recover.go:56-77), as  *)
(* long as no record of the manifest fails: the code swaps the layout      *)
(* first and leaves it swapped then (storage.go:224-229, compact.go:       *)
(* 144-161).                                                               *)
(***************************************************************************)
THEOREM LsmLayoutReplayed ==
    ASSUME ~ Reconfigure, "manifest" \notin Faults
    PROVE  Spec => []LayoutReplayed
<1>1. Structure /\ SameTiers /\ Logged => LayoutReplayed
  <2> SUFFICES ASSUME Structure, SameTiers, Logged, up = "up", mu.pc = "free"
               PROVE  /\ manifest.l0 = l0 /\ manifest.levels = levels
                      /\ {m \in manifest.mems : Contents(wal[m]) # {}} \ {mem} = IdsIn(imm)
                      /\ mem \in manifest.mems
    BY DEF LayoutReplayed
  <2> QED
    BY DEF SameTiers, Logged, Loaded, Structure, Apart, MemIds
<1> QED
  BY <1>1, StructureAlways, ReplayedAlways, PTL

-----------------------------------------------------------------------------
(* The second part: what the tiers hold. *)

Table(i)      == Contents(sst[i])

\* What memtable m holds, or would hold if its log were replayed.
Buffered(m) == mems[m] \cup Contents(wal[m])

\* The layout in memory, or the one Open would find.
Live      == IF Loaded THEN MemIds ELSE manifest.mems
NowL0     == IF Loaded THEN l0 ELSE manifest.l0
NowLevels == IF Loaded THEN levels ELSE manifest.levels
Tier(n)   == IF n = 0 THEN IdsIn(NowL0) ELSE IdsIn(NowLevels[n])

\* Memtables are numbered in the order in which they were filled.
Falling ==
    Loaded =>
      /\ \A i, j \in DOMAIN imm : i < j => imm[i] > imm[j]
      /\ \A m \in IdsIn(imm) : m < mem
      /\ mu.pc = "freeze" => \A m \in MemIds : m < mu.id

\* Only the memtables of the layout hold anything.
Vacant == \A m \in Id : (Loaded => m \notin MemIds) => mems[m] = {}

\* Nothing but the active memtable and its log has versions as young as the
\* batch being written.
Settled ==
    Loaded =>
      /\ \A m \in IdsIn(imm) : \A v \in Buffered(m) : v.ts <= ts
      /\ mu.pc = "log" =>
           /\ \A m \in IdsIn(imm) : \A v \in Buffered(m) : v.ts < ts
           /\ \A v \in mems[mem] : v.ts < ts
           /\ \A t \in TableIds : \A v \in Table(t) : v.ts < ts

Filling == Falling /\ Vacant /\ Settled

MemsOrdered == \A m, n \in Live : m > n => Newer(Buffered(m), Buffered(n))

MemsAbove ==
    \A m \in Live, n \in TierNo : \A t \in Tier(n) : Newer(Buffered(m), Table(t))

L0Ordered == \A i, j \in DOMAIN NowL0 : i < j => Newer(Table(NowL0[i]), Table(NowL0[j]))

TiersOrdered ==
    \A m, n \in TierNo : m < n =>
      \A t \in Tier(m), u \in Tier(n) : Newer(Table(t), Table(u))

Ordered == MemsOrdered /\ MemsAbove /\ L0Ordered /\ TiersOrdered

\* What a merge still has to write and has written comes from its inputs, and
\* what its upper tier got meanwhile lies above them.
Merged == comp.rest \cup UNION {Table(i) : i \in IdsIn(comp.new)}

MergeBelow ==
    comp.pc = "merge" =>
      /\ Merged \subseteq UNION {Table(i) : i \in IdsIn(InputIDs(comp.task))}
      /\ \A t \in TierIds(comp.task.upperLevel) \ IdsIn(comp.task.upperIDs),
           u \in IdsIn(comp.task.upperIDs) : Newer(Table(t), Table(u))

\* Where the process may die, memory and manifest agree.
Synced ==
    /\ Crashes => SameTiers /\ Logged
    /\ ~ Crashes => up = "up"

-----------------------------------------------------------------------------
\* While the engine is closed nothing happens to it but an Open.
LEMMA ClosedSteps ==
    ASSUME Types, [Next]_vars, ~ Loaded
    PROVE  UNCHANGED vars \/ \E s \in Strategies : RecoverOpen(s)
<1>1. ~ Free /\ ~ Running /\ mu.pc = "free" /\ comp.pc = "idle" /\ up = "down"
  BY DEF Loaded, Free, Running, Types, Idle, Unlocked, NoComp
<1>2. ~ Write
  BY <1>1 DEF Write, WriteStart, WalAppend, WalAppendFails, WriteApply
<1>3. ~ Freeze
  BY <1>1 DEF Freeze, FreezeCreate, FreezeFails, FreezeEmpty, FreezeInstall,
              FreezeRecordFails, NewMemtable
<1>4. ~ Flush
  BY <1>1 DEF Flush, FlushBuild, FlushRecord, FlushRecordFails, FlushSwap, FlushRemove
<1>5. ~ Compact
  BY <1>1 DEF Compact, CompactPick, CompactBuild, CompactBuildFails, CompactSwap,
              CompactRecordFails, SwapIn, CompactDelete
<1>6. ~ Read /\ ~ Crash
  BY <1>1 DEF Read, ReadStart, ReadDone, Crash
<1>7. ~ RecoverRecord /\ ~ DeleteOrphan /\ ~ Serve
  BY <1>1 DEF RecoverRecord, DeleteOrphan, Serve
<1> QED
  BY <1>2, <1>3, <1>4, <1>5, <1>6, <1>7 DEF Next, Recover

\* A crash leaves nothing in memory.
LEMMA CrashEffect ==
    ASSUME Types, Crash
    PROVE  /\ ~ Loaded' /\ Crashes /\ Loaded
           /\ UNCHANGED <<wal, sst, manifest>>
           /\ \A m \in Id : mems'[m] = {}
           /\ comp' = NoComp /\ mu' = Unlocked
  BY DEF Crash, Loaded, NoTree, disk

\* Only WalAppend adds to a log.
LEMMA LogsNotFilled ==
    ASSUME Types, [Next]_vars, Loaded, Loaded', ~ WalAppend
    PROVE  \A m \in Id : Contents(wal'[m]) \subseteq Contents(wal[m])
<1>0. /\ ~ Crash /\ (\A s \in Strategies : ~ RecoverOpen(s))
      /\ wal \in [Id -> Content \cup {NoFile}]
  BY DEF Loaded, Crash, RecoverOpen, Types, DiskTypes
<1>1. ASSUME NEW o, wal' = [wal EXCEPT ![o] = NoFile] \/ wal' = [wal EXCEPT ![o] = {}]
      PROVE  \A m \in Id : Contents(wal'[m]) \subseteq Contents(wal[m])
  BY <1>0, <1>1, LogEmptied
<1>2. ASSUME NEW who \in Freezer, FreezeCreate(who)
      PROVE  wal' = [wal EXCEPT ![nextID] = {}]
  BY <1>2 DEF FreezeCreate
<1>3. FlushRemove => wal' = [wal EXCEPT ![mu.id] = NoFile]
  BY DEF FlushRemove
<1>4. CASE DeleteOrphan
  <2> DEFINE o == CHOOSE o \in Orphans : \A j \in Orphans : o <= j
  <2>1. wal' = [wal EXCEPT ![o] = NoFile] \/ wal' = wal
    BY <1>4 DEF DeleteOrphan
  <2> HIDE DEF o
  <2> QED
    BY <1>1, <2>1
<1> QED
  BY <1>0, <1>1, <1>2, <1>3, <1>4, Frames

\* While the engine is open, a memtable in use only takes what its batch
\* holds, or it is new and empty.
LEMMA BufferSteps ==
    ASSUME Types, Structure, Dated, Vacant, [Next]_vars, Loaded, Loaded'
    PROVE  \A m \in MemIds' :
             \/ Buffered(m)' = {}
             \/ m \in MemIds /\ Buffered(m)' \subseteq Buffered(m)
             \/ /\ m = mem /\ mu.pc = "log"
                /\ Buffered(m)' \subseteq Buffered(m) \cup IdsIn(mu.batch)
<1>0. /\ ~ Crash /\ \A s \in Strategies : ~ RecoverOpen(s)
      /\ wal \in [Id -> Content \cup {NoFile}] /\ mems \in [Id -> Content] /\ mem \in Id
      /\ MemIds \subseteq Id
  BY IdsInOf DEF Loaded, Crash, RecoverOpen, Types, DiskTypes, TreeTypes, MemIds
<1>1. CASE NewMemtable
  <2>1. mu.pc = "freeze" /\ mu.id \in Id /\ MemIds' = MemIds \cup {mu.id} /\ UNCHANGED <<wal, mems>>
    BY <1>1, FreezeEffect DEF NewMemtable, Types, WriterTypes
  <2>2. mu.id \notin MemIds /\ Contents(wal[mu.id]) = {}
    BY <2>1 DEF Structure, Apart, InUse, Dated
  <2>3. mems[mu.id] = {}
    BY <2>1, <2>2 DEF Vacant
  <2> QED
    BY <2>1, <2>2, <2>3 DEF Buffered
<1>2. CASE ~ NewMemtable
  <2>1. MemIds' \subseteq MemIds
    <3>1. CASE FlushSwap
      BY <3>1, FlushEffect DEF MemIds
    <3>2. CASE UNCHANGED <<mem, imm>>
      BY <3>2, SameTables
    <3> QED
      BY <1>0, <1>2, <3>1, <3>2, Frames, StepsOf
  <2>2. \A m \in Id : \/ mems'[m] \subseteq mems[m]
                      \/ /\ m = mem /\ mu.pc = "log"
                         /\ mems'[m] \subseteq mems[m] \cup IdsIn(mu.batch)
    <3>1. CASE FlushSwap
      <4>1. Oldest \in Id /\ mems' = [mems EXCEPT ![Oldest] = {}]
        BY <3>1, FlushEffect DEF FlushSwap
      <4> QED
        BY <1>0, <4>1
    <3>2. CASE WriteApply
      <4>1. /\ mems' = [mems EXCEPT ![mem] = mems[mem] \cup Standing(mu.batch)]
            /\ mu.pc = "log" /\ mu.batch \in Seq(Entry)
        BY <3>2 DEF WriteApply, Types, WriterTypes
      <4>2. Standing(mu.batch) \subseteq IdsIn(mu.batch)
        BY DEF Standing, IdsIn
      <4> QED
        BY <1>0, <4>1, <4>2
    <3> QED
      BY <1>0, <3>1, <3>2, Frames, StepsOf
  <2>3. \A m \in MemIds : \/ Contents(wal'[m]) \subseteq Contents(wal[m])
                          \/ /\ m = mem /\ mu.pc = "log"
                             /\ Contents(wal'[m]) \subseteq Contents(wal[m]) \cup IdsIn(mu.batch)
    <3>1. CASE WalAppend
      <4>1. /\ mu.logged + 1 \in DOMAIN mu.batch /\ mu.pc = "log"
            /\ wal' = [wal EXCEPT ![mem] = Put(Contents(wal[mem]), mu.batch[mu.logged + 1])]
        BY <3>1 DEF WalAppend, Types, WriterTypes
      <4>2. wal'[mem] \subseteq Contents(wal[mem]) \cup IdsIn(mu.batch)
        BY <1>0, <4>1 DEF Put, IdsIn
      <4>3. Contents(wal'[mem]) \subseteq Contents(wal[mem]) \cup IdsIn(mu.batch)
        BY <4>2 DEF Contents
      <4>4. \A m \in Id : m # mem => wal'[m] = wal[m]
        BY <1>0, <4>1
      <4> QED
        BY <1>0, <4>1, <4>3, <4>4
    <3>2. CASE ~ WalAppend
      BY <1>0, <3>2, LogsNotFilled
    <3> QED
      BY <3>1, <3>2
  <2> QED
    BY <1>0, <2>1, <2>2, <2>3 DEF Buffered
<1> QED
  BY <1>1, <1>2

\* A freeze begins with FreezeCreate.
LEMMA FreezerOnly ==
    ASSUME Types, [Next]_vars, mu'.pc = "freeze"
    PROVE  UNCHANGED mu \/ \E who \in Freezer : FreezeCreate(who)
<1>0. mu \in [pc : {"free", "log", "freeze", "flush", "flushed"}, batch : Seq(Entry),
              logged : Nat, id : Id]
  BY DEF Types, WriterTypes
<1>1. \A b \in Batches : ~ WriteStart(b)
  BY DEF WriteStart, Unlocked
<1>2. ~ WalAppendFails /\ ~ WriteApply /\ ~ NewMemtable /\ ~ FlushRecordFails /\ ~ FlushRemove
  BY DEF WalAppendFails, WriteApply, NewMemtable, FlushRecordFails, FlushRemove, Release, Unlocked
<1>3. ~ FlushBuild /\ ~ Crash
  BY DEF FlushBuild, Crash, Unlocked
<1>4. ~ WalAppend /\ ~ FlushRecord
  BY <1>0 DEF WalAppend, FlushRecord
<1> QED
  BY <1>1, <1>2, <1>3, <1>4, Frames, StepsOf

\* Falling is inductive, given Types and Structure.
LEMMA FallingStep ==
    ASSUME Types, Structure, Falling, [Next]_vars
    PROVE  Falling'
<1> SUFFICES ASSUME Loaded'
             PROVE  Falling'
  BY DEF Falling
<1>1. CASE ~ Loaded
  <2>1. PICK s \in Strategies : RecoverOpen(s)
    BY <1>1, ClosedSteps DEF Loaded, vars
  <2>2. /\ imm' = NewestFirst(Unflushed) /\ mem' = manifest.maxID + 1 /\ mu' = Unlocked
        /\ Unflushed \in SUBSET (0 .. MaxId) /\ IdsIn(imm') = Unflushed
        /\ Unflushed \subseteq manifest.mems
    BY <2>1, RecoverOpenTree, OpenEffect, UnflushedType DEF Id
  <2>3. \A i, j \in DOMAIN imm' : i < j => imm'[i] > imm'[j]
    BY <2>2, NewestFirstOf, LsmAssumption
  <2>4. \A m \in IdsIn(imm') : m < mem'
    <3>1. \A m \in manifest.mems : m \in Nat /\ m <= manifest.maxID
      BY NamedIds DEF Structure, Counted, Named, Id
    <3>2. IdsIn(imm') \subseteq manifest.mems /\ manifest.maxID \in Nat /\ mem' = manifest.maxID + 1
      BY <2>2, NamedIds
    <3> QED
      BY <3>1, <3>2
  <2> QED
    BY <2>2, <2>3, <2>4 DEF Falling, Unlocked
<1>2. CASE Loaded
  <2>0. /\ \A i, j \in DOMAIN imm : i < j => imm[i] > imm[j]
        /\ \A m \in IdsIn(imm) : m < mem
        /\ mu.pc = "freeze" => \A m \in MemIds : m < mu.id
        /\ imm \in Seq(Id) /\ mem \in Id /\ ~ Crash /\ \A s \in Strategies : ~ RecoverOpen(s)
    BY <1>2 DEF Falling, Types, TreeTypes, Loaded, Crash, RecoverOpen
  <2>1. CASE NewMemtable
    <3>1. /\ mu.pc = "freeze" /\ imm' = <<mem>> \o imm /\ mem' = mu.id /\ mu'.pc = "free"
          /\ IdsIn(imm') = MemIds
      BY <2>1, FreezeEffect DEF NewMemtable, Release, Unlocked, MemIds
    <3>2. \A i, j \in DOMAIN imm' : i < j => imm'[i] > imm'[j]
      <4>1. /\ \A i \in DOMAIN imm : imm[i] \in Id /\ imm[i] < mem
            /\ Len(imm) \in Nat /\ DOMAIN imm = 1 .. Len(imm)
        BY <2>0 DEF IdsIn
      <4>2. /\ DOMAIN imm' = 1 .. Len(imm) + 1 /\ imm'[1] = mem
            /\ \A i \in 2 .. Len(imm) + 1 : imm'[i] = imm[i - 1]
        BY <2>0, <3>1, <4>1
      <4> SUFFICES ASSUME NEW i \in DOMAIN imm', NEW j \in DOMAIN imm', i < j
                   PROVE  imm'[i] > imm'[j]
        OBVIOUS
      <4>3. j - 1 \in DOMAIN imm /\ imm'[j] = imm[j - 1]
        BY <4>1, <4>2
      <4>4. CASE i = 1
        BY <2>0, <4>1, <4>2, <4>3, <4>4 DEF Id
      <4>5. CASE i # 1
        <5>1. i - 1 \in DOMAIN imm /\ imm'[i] = imm[i - 1] /\ i - 1 < j - 1
          BY <4>1, <4>2, <4>5
        <5> QED
          BY <2>0, <4>3, <5>1
      <4> QED
        BY <4>4, <4>5
    <3> QED
      BY <2>0, <3>1, <3>2 DEF Falling
  <2>2. CASE FlushSwap
    <3>1. /\ mem' = mem /\ imm' = RemoveIDs(imm, <<Oldest>>)
          /\ IdsIn(imm') \subseteq IdsIn(imm)
      BY <2>2, FlushEffect DEF FlushSwap
    <3>2. InOrder(imm', imm) /\ imm' \in Seq(Id)
      BY <2>0, <3>1, RemoveIDsResult
    <3>3. \A i, j \in DOMAIN imm' : i < j => imm'[i] > imm'[j]
      <4>1. DOMAIN imm' = 1 .. Len(imm') /\ DOMAIN imm = 1 .. Len(imm)
        BY <2>0, <3>2
      <4> SUFFICES ASSUME NEW i \in DOMAIN imm', NEW j \in DOMAIN imm', i < j
                   PROVE  imm'[i] > imm'[j]
        OBVIOUS
      <4>2. PICK p \in 1 .. Len(imm), q \in 1 .. Len(imm) :
              p < q /\ imm'[i] = imm[p] /\ imm'[j] = imm[q]
        <5>1. i \in 1 .. Len(imm') /\ j \in 1 .. Len(imm') /\ InOrder(imm', imm)
          BY <3>2, <4>1
        <5> QED
          BY <5>1, Zenon DEF InOrder
      <4> QED
        BY <2>0, <4>1, <4>2
    <3>4. mu'.pc # "freeze"
      <4>1. mu.pc = "flush"
        BY <2>2 DEF FlushSwap
      <4>2. \A b \in Batches : ~ WriteStart(b)
        BY <4>1 DEF WriteStart, Free
      <4>3. \A who \in Freezer : ~ FreezeCreate(who)
        BY <4>1 DEF FreezeCreate, Free
      <4> QED
        BY <4>1, <4>2, <4>3, FreezerOnly
    <3> QED
      BY <2>0, <3>1, <3>3, <3>4 DEF Falling
  <2>3. CASE UNCHANGED <<mem, imm>>
    <3>1. mu'.pc = "freeze" => \A m \in MemIds' : m < mu'.id
      <4>1. CASE UNCHANGED mu
        BY <2>0, <2>3, <4>1, SameTables
      <4>2. ASSUME NEW who \in Freezer, FreezeCreate(who)
            PROVE  \A m \in MemIds' : m < mu'.id
        <5>1. mu'.id = nextID
          BY <4>2 DEF FreezeCreate, Unlocked
        <5>2. \A m \in MemIds : m < nextID
          BY <1>2 DEF Structure, Below, InUse
        <5> QED
          BY <2>3, <5>1, <5>2, SameTables
      <4> QED
        BY <4>1, <4>2, FreezerOnly
    <3> QED
      BY <2>0, <2>3, <3>1 DEF Falling
  <2> QED
    BY <2>0, <2>1, <2>2, <2>3, Frames, StepsOf
<1> QED
  BY <1>1, <1>2

\* Vacant is inductive, given Types and Structure.
LEMMA VacantStep ==
    ASSUME Types, Structure, Vacant, [Next]_vars
    PROVE  Vacant'
<1>0. mems \in [Id -> Content] /\ mem \in MemIds
  BY DEF Types, TreeTypes, MemIds
<1> SUFFICES ASSUME NEW m \in Id, Loaded' => m \notin MemIds'
             PROVE  mems'[m] = {}
  BY DEF Vacant
<1>1. CASE Crash
  BY <1>1, CrashEffect
<1>2. CASE \E s \in Strategies : RecoverOpen(s)
  <2>1. /\ mems' = [i \in Id |-> IF i \in Unflushed THEN wal[i] ELSE {}]
        /\ IdsIn(imm') = Unflushed /\ Loaded'
    BY <1>2, RecoverOpenTree, OpenEffect
  <2> QED
    BY <2>1 DEF MemIds
<1>3. CASE ~ Loaded /\ UNCHANGED vars
  BY <1>3 DEF Loaded, vars, Vacant
<1>4. CASE Loaded /\ ~ Crash /\ \A s \in Strategies : ~ RecoverOpen(s)
  <2>0. Loaded'
    BY <1>4, Frames DEF Loaded, RecoverRecord, Serve
  <2>1. CASE NewMemtable
    <3>1. MemIds' = MemIds \cup {mu.id} /\ mems' = mems
      BY <2>1, FreezeEffect DEF NewMemtable
    <3> QED
      BY <2>0, <3>1 DEF Vacant
  <2>2. CASE FlushSwap
    <3>1. /\ MemIds \subseteq MemIds' \cup {Oldest} /\ Oldest \in Id
          /\ mems' = [mems EXCEPT ![Oldest] = {}]
      BY <2>2, FlushEffect DEF FlushSwap, MemIds
    <3> QED
      BY <1>0, <2>0, <3>1 DEF Vacant
  <2>3. CASE UNCHANGED <<mem, imm>>
    <3>1. MemIds' = MemIds
      BY <2>3, SameTables
    <3>2. mems'[m] = mems[m]
      <4>1. CASE WriteApply
        BY <1>0, <2>0, <3>1, <4>1 DEF WriteApply
      <4>2. CASE FlushSwap
        BY <2>3, <4>2, FlushEffect
      <4> QED
        BY <1>4, <4>1, <4>2, Frames, StepsOf
    <3> QED
      BY <2>0, <3>1, <3>2 DEF Vacant
  <2> QED
    BY <1>4, <2>1, <2>2, <2>3, Frames, StepsOf
<1> QED
  BY <1>1, <1>2, <1>3, <1>4, ClosedSteps

\* Nothing in the layout is younger than the last timestamp.
LEMMA NotYounger ==
    ASSUME Types, Dated, Settled, Loaded
    PROVE  /\ \A m \in MemIds : \A v \in Buffered(m) : v.ts <= ts
           /\ \A t \in TableIds : \A v \in Table(t) : v.ts <= ts
           /\ \A v \in mems[mem] : v.ts <= ts
<1>1. mem \in Id /\ \A v \in Dateable : v.ts <= ts
  BY DEF Types, TreeTypes, Dated
<1>2. /\ Buffered(mem) \subseteq Dateable /\ mems[mem] \subseteq Dateable
      /\ \A t \in TableIds : Table(t) \subseteq Dateable
  BY <1>1, DateableParts DEF Buffered, Table
<1> QED
  BY <1>1, <1>2 DEF Settled, MemIds

\* A batch is written from WriteStart on, under the lock.
LEMMA Writing ==
    ASSUME Types, [Next]_vars, mu'.pc = "log", Loaded, Loaded'
    PROVE  \/ /\ ts' = ts + 1 /\ ts \in Nat
              /\ UNCHANGED <<wal, sst, mem, imm, mems, l0, levels>>
           \/ /\ mu.pc = "log" /\ ts' = ts
              /\ UNCHANGED <<mem, imm, mems, l0, levels>>
<1>0. /\ ~ Crash /\ \A s \in Strategies : ~ RecoverOpen(s)
      /\ mu \in [pc : {"free", "log", "freeze", "flush", "flushed"}, batch : Seq(Entry),
                 logged : Nat, id : Id]
  BY DEF Loaded, Crash, RecoverOpen, Types, WriterTypes
<1>1. ASSUME NEW b \in Batches, WriteStart(b)
      PROVE  ts' = ts + 1 /\ ts \in Nat /\ UNCHANGED <<wal, sst, mem, imm, mems, l0, levels>>
  BY <1>1 DEF WriteStart, disk, tree, Types, CounterTypes
<1>2. CASE WalAppend
  <2>1. mu.pc = "log" /\ ts' = ts /\ UNCHANGED <<mem, imm, mems, l0, levels>>
    BY <1>2 DEF WalAppend, tree
  <2> QED
    BY <2>1
<1>3. CASE UNCHANGED mu
  <2>1. mu.pc = "log"
    BY <1>3
  <2>2. \A b \in Batches : ~ WriteStart(b)
    BY <2>1 DEF WriteStart, Free
  <2>3. ts' = ts
    BY <1>0, <2>2, Frames
  <2> QED
    BY <1>3, <2>1, <2>3, HeldStill
<1>4. ~ WalAppendFails /\ ~ WriteApply /\ ~ NewMemtable /\ ~ FlushRecordFails /\ ~ FlushRemove
  BY DEF WalAppendFails, WriteApply, NewMemtable, FlushRecordFails, FlushRemove, Release, Unlocked
<1>5. ~ FlushBuild /\ ~ (\E who \in Freezer : FreezeCreate(who))
  BY DEF FlushBuild, FreezeCreate, Unlocked
<1>6. ~ FlushRecord
  BY <1>0 DEF FlushRecord
<1> QED
  BY <1>0, <1>1, <1>2, <1>3, <1>4, <1>5, <1>6, Frames, StepsOf

\* Timestamps are numbers.
LEMMA BufferedNat ==
    ASSUME Types
    PROVE  /\ MemIds \subseteq Id /\ IdsIn(imm) \subseteq Id /\ TableIds \subseteq Id
           /\ RecordedTables \subseteq Id /\ Live \subseteq Id
           /\ \A m \in Id : \A v \in Buffered(m) : v.ts \in Nat /\ v \in Entry
           /\ \A t \in Id : \A v \in Table(t) : v.ts \in Nat /\ v \in Entry
           /\ \A m \in Id : \A v \in mems[m] : v.ts \in Nat /\ v \in Entry
           /\ mem \in Id
<1>1. /\ mem \in Id /\ imm \in Seq(Id) /\ mems \in [Id -> Content]
      /\ wal \in [Id -> Content \cup {NoFile}] /\ sst \in [Id -> Content \cup {NoFile}]
  BY DEF Types, TreeTypes, DiskTypes
<1>2. MemIds \subseteq Id /\ IdsIn(imm) \subseteq Id
  BY <1>1, IdsInOf DEF MemIds
<1>3. \A vs \in Content : \A v \in vs : v.ts \in Nat /\ v \in Entry
  BY LsmAssumption DEF Content, Entry
<1>4. \A i \in Id : Contents(wal[i]) \in Content /\ Contents(sst[i]) \in Content /\ mems[i] \in Content
  BY <1>1, ContentsType
<1>5. Live \subseteq Id
  BY <1>2, NamedIds DEF Live
<1> QED
  BY <1>1, <1>2, <1>3, <1>4, <1>5, NamedIds DEF Buffered, Table

\* The tables of the layout do not change.
LEMMA TableStays ==
    ASSUME Types, Structure, [Next]_vars, Loaded
    PROVE  \A t \in TableIds \cup RecordedTables \cup IdsIn(comp.new) : Table(t)' = Table(t)
<1> SUFFICES ASSUME NEW t \in TableIds \cup RecordedTables \cup IdsIn(comp.new)
             PROVE  Table(t)' = Table(t)
  OBVIOUS
<1>1. t \notin MemIds
  BY DEF Structure, Apart
<1>2. sst'[t] = sst[t]
  BY <1>1, SstKept
<1> QED
  BY <1>2 DEF Table

\* The clock of an open engine does not go back.
LEMMA ClockRuns ==
    ASSUME Types, [Next]_vars, Loaded, Loaded'
    PROVE  ts <= ts'
<1>1. ts \in Nat /\ ~ Crash /\ \A s \in Strategies : ~ RecoverOpen(s)
  BY DEF Loaded, Crash, RecoverOpen, Types, CounterTypes
<1>2. \A b \in Batches : WriteStart(b) => ts' = ts + 1
  BY DEF WriteStart
<1> QED
  BY <1>1, <1>2, Frames

\* What Open restores is no younger than the clock it sets.
LEMMA SettledOpen ==
    ASSUME Types, Structure, NEW s \in Strategies, RecoverOpen(s)
    PROVE  Settled'
<1>1. /\ IdsIn(imm') = Unflushed /\ Unflushed \subseteq manifest.mems /\ mu' = Unlocked
      /\ manifest' = manifest /\ Unflushed \in SUBSET Id
  BY OpenEffect, UnflushedType
<1>2. \A v \in Dateable' : v.ts <= ts'
  BY DateableOpen
<1>3. ASSUME NEW m \in IdsIn(imm')
      PROVE  Buffered(m)' \subseteq Dateable'
  <2>1. m \in Id /\ m \in manifest'.mems
    BY <1>1
  <2> QED
    BY <2>1 DEF Buffered, Dateable, InMemory, InLogs
<1> QED
  BY <1>1, <1>2, <1>3 DEF Settled, Unlocked

\* Settled is inductive, given the others.
LEMMA SettledStep ==
    ASSUME Types, Structure, Dated, Vacant, Settled, [Next]_vars
    PROVE  Settled'
<1> SUFFICES ASSUME Loaded'
             PROVE  Settled'
  BY DEF Settled
<1>1. CASE ~ Loaded
  BY <1>1, ClosedSteps, SettledOpen DEF Loaded, vars
<1>2. CASE Loaded
  <2>0. /\ mem \notin IdsIn(imm) /\ ts <= ts' /\ ts \in Nat /\ ts' \in Nat /\ mem \in Id
        /\ IdsIn(imm) \subseteq MemIds /\ IdsIn(imm') \subseteq MemIds'
        /\ \A m \in MemIds : \A v \in Buffered(m) : v.ts <= ts
        /\ \A t \in TableIds : \A v \in Table(t) : v.ts <= ts
        /\ \A v \in mems[mem] : v.ts <= ts
    BY <1>2, NotYounger, ClockRuns, TypesStep
       DEF Structure, Apart, Types, CounterTypes, TreeTypes, MemIds
  <2>1. \A m \in MemIds : \A v \in Buffered(m) : v.ts \in Nat
    BY <1>2, BufferedNat
  <2>2. ASSUME NEW m \in IdsIn(imm'), NEW v \in Buffered(m)'
        PROVE  v.ts <= ts'
    <3>1. (v \in Buffered(m) /\ m \in MemIds) \/ (mu.pc = "log" /\ v \in IdsIn(mu.batch))
      BY <1>2, <2>0, <2>2, BufferSteps DEF MemIds
    <3>2. v.ts \in Nat /\ v.ts <= ts
      <4>1. CASE v \in Buffered(m) /\ m \in MemIds
        BY <2>0, <2>1, <4>1
      <4>2. CASE mu.pc = "log" /\ v \in IdsIn(mu.batch)
        BY <1>2, <2>0, <4>2 DEF Dated
      <4> QED
        BY <3>1, <4>1, <4>2
    <3> QED
      BY <2>0, <3>2
  <2>3. ASSUME mu'.pc = "log"
        PROVE  /\ \A m \in IdsIn(imm') : \A v \in Buffered(m)' : v.ts < ts'
               /\ \A v \in mems'[mem'] : v.ts < ts'
               /\ \A t \in TableIds' : \A v \in Table(t)' : v.ts < ts'
    <3>1. CASE /\ ts' = ts + 1 /\ ts \in Nat
               /\ UNCHANGED <<wal, sst, mem, imm, mems, l0, levels>>
      <4>1. /\ \A m \in Id : Buffered(m)' = Buffered(m)
            /\ TableIds' = TableIds /\ \A t \in TableIds : Table(t)' = Table(t)
            /\ mems'[mem'] = mems[mem] /\ IdsIn(imm') = IdsIn(imm)
        BY <3>1, SameTables DEF Buffered, Table
      <4>2. /\ \A m \in IdsIn(imm) : \A v \in Buffered(m) : v.ts \in Nat /\ v.ts <= ts
            /\ \A t \in TableIds : \A v \in Table(t) : v.ts \in Nat /\ v.ts <= ts
            /\ \A v \in mems[mem] : v.ts \in Nat /\ v.ts <= ts
            /\ IdsIn(imm) \subseteq Id
        BY <1>2, <2>0, <2>1, BufferedNat
      <4> QED
        BY <3>1, <4>1, <4>2
    <3>2. CASE /\ mu.pc = "log" /\ ts' = ts
               /\ UNCHANGED <<mem, imm, mems, l0, levels>>
      <4>1. /\ \A m \in IdsIn(imm) : \A v \in Buffered(m) : v.ts < ts
            /\ \A v \in mems[mem] : v.ts < ts
            /\ \A t \in TableIds : \A v \in Table(t) : v.ts < ts
        BY <1>2, <3>2 DEF Settled
      <4>2. TableIds' = TableIds /\ MemIds' = MemIds /\ IdsIn(imm') = IdsIn(imm)
        BY <3>2, SameTables
      <4>3. \A m \in IdsIn(imm) : Buffered(m)' = {} \/ Buffered(m)' \subseteq Buffered(m)
        BY <1>2, <2>0, <4>2, BufferSteps
      <4>4. \A t \in TableIds : Table(t)' = Table(t)
        BY <1>2, TableStays
      <4> QED
        BY <3>2, <4>1, <4>2, <4>3, <4>4
    <3> QED
      BY <1>2, <2>3, <3>1, <3>2, Writing
  <2> QED
    BY <2>2, <2>3 DEF Settled
<1> QED
  BY <1>1, <1>2

-----------------------------------------------------------------------------
\* What a step may do to the memtables: empty one, take from it, add the batch
\* to the active one.
Fills ==
    \A m \in Live' :
      \/ Buffered(m)' = {}
      \/ m \in Live /\ Buffered(m)' \subseteq Buffered(m)
      \/ /\ m = mem /\ Loaded /\ mu.pc = "log"
         /\ Buffered(m)' \subseteq Buffered(m) \cup IdsIn(mu.batch)

\* The tables hold what tables held before.
Rearranged ==
    \A n \in TierNo : \A t \in Tier(n)' : \A v \in Table(t)' :
      \E k \in TierNo : \E u \in Tier(k) : v \in Table(u)

TiersStay ==
    /\ NowL0' = NowL0 /\ NowLevels' = NowLevels
    /\ \A n \in TierNo : \A t \in Tier(n) : Table(t)' = Table(t)

\* A crash takes memory away, and Open restores it from the logs.
LEMMA FillsStep ==
    ASSUME Types, Structure, Dated, Vacant, Synced, [Next]_vars
    PROVE  Fills
<1>1. CASE Crash
  <2>1. /\ Live' = manifest.mems /\ Live = MemIds /\ Logged /\ Loaded
        /\ wal' = wal /\ manifest.mems \subseteq Id /\ \A m \in Id : mems'[m] = {}
    BY <1>1, CrashEffect, NamedIds DEF Live, Synced
  <2>2. \A m \in manifest.mems : m \in MemIds \/ Contents(wal[m]) = {}
    BY <2>1 DEF Logged
  <2> QED
    BY <2>1, <2>2 DEF Fills, Buffered
<1>2. ASSUME NEW s \in Strategies, RecoverOpen(s)
      PROVE  Fills
  <2>1. /\ IdsIn(imm') = Unflushed /\ Unflushed \subseteq manifest.mems /\ mem' \in Id
        /\ mems' = [i \in Id |-> IF i \in Unflushed THEN wal[i] ELSE {}]
        /\ wal' = [i \in Id |-> IF i = mem' THEN {}
                                ELSE IF i \in manifest.mems THEN Contents(wal[i])
                                ELSE wal[i]]
        /\ Live = manifest.mems /\ Live' = {mem'} \cup Unflushed
        /\ manifest.mems \subseteq Id
    BY <1>2, RecoverOpenTree, OpenEffect, TypesStep, NamedIds DEF Live, MemIds, Types, TreeTypes
  <2>2. mem' \notin manifest.mems
    BY <1>2, OpenEffect, NamedIds DEF Structure, Counted, Named
  <2>3. \A m \in Id : Contents(Contents(wal[m])) = Contents(wal[m]) /\ Contents({}) = {}
    BY NoContents DEF Contents
  <2>4. ASSUME NEW m, m = mem'
        PROVE  Buffered(m)' = {}
    <3>1. mems'[m] = {} /\ wal'[m] = {}
      BY <2>1, <2>2, <2>4
    <3> QED
      BY <3>1, <2>3, <2>1 DEF Buffered
  <2>5. ASSUME NEW m \in Unflushed
        PROVE  Buffered(m)' \subseteq Buffered(m)
    <3>1. m \in Id /\ wal'[m] = Contents(wal[m]) /\ mems'[m] = wal[m] /\ wal[m] = Contents(wal[m])
      BY <2>1, <2>2, UnflushedType
    <3> QED
      BY <3>1, <2>3 DEF Buffered
  <2> QED
    BY <2>1, <2>4, <2>5 DEF Fills
<1>3. CASE ~ Loaded /\ UNCHANGED vars
  <2>1. Live' = Live /\ \A m \in Live : Buffered(m)' = Buffered(m)
    BY <1>3 DEF Live, Loaded, vars, Buffered
  <2> QED
    BY <2>1 DEF Fills
<1>4. CASE Loaded /\ ~ Crash /\ \A s \in Strategies : ~ RecoverOpen(s)
  <2>1. Loaded'
    BY <1>4, Frames DEF Loaded, RecoverRecord, Serve
  <2>2. Live' = MemIds' /\ Live = MemIds
    BY <1>4, <2>1 DEF Live
  <2> QED
    BY <1>4, <2>1, <2>2, BufferSteps DEF Fills
<1> QED
  BY <1>1, <1>2, <1>3, <1>4, ClosedSteps

\* Only a flush and the swap of a compaction change the tiers.
LEMMA TierSteps ==
    ASSUME Types, Structure, Synced, [Next]_vars
    PROVE  FlushSwap \/ SwapIn \/ TiersStay
<1>0. DOMAIN levels = 1 .. MaxLevels /\ DOMAIN manifest.levels = 1 .. MaxLevels
  BY DEF Types, TreeTypes, DiskTypes, Levels
<1>1. CASE Crash
  <2>1. /\ NowL0' = NowL0 /\ NowLevels' = NowLevels /\ sst' = sst
    BY <1>1, CrashEffect DEF NowL0, NowLevels, Synced, SameTiers
  <2> QED
    BY <2>1 DEF TiersStay, Table
<1>2. ASSUME NEW s \in Strategies, RecoverOpen(s)
      PROVE  TiersStay
  <2>1. NowL0' = NowL0 /\ NowLevels' = NowLevels /\ sst' = sst
    BY <1>2, RecoverOpenTree, OpenEffect DEF NowL0, NowLevels
  <2> QED
    BY <2>1 DEF TiersStay, Table
<1>3. CASE ~ Loaded /\ UNCHANGED vars
  BY <1>3 DEF TiersStay, Table, NowL0, NowLevels, Loaded, vars
<1>4. CASE Loaded /\ ~ Crash /\ \A s \in Strategies : ~ RecoverOpen(s)
  <2>1. Loaded'
    BY <1>4, Frames DEF Loaded, RecoverRecord, Serve
  <2>2. CASE UNCHANGED <<l0, levels>>
    <3>1. NowL0' = NowL0 /\ NowLevels' = NowLevels
      BY <1>4, <2>1, <2>2 DEF NowL0, NowLevels
    <3>2. \A n \in TierNo : Tier(n) = TierIds(n)
      BY <1>4 DEF Tier, TierIds, NowL0, NowLevels
    <3>3. \A n \in TierNo : TierIds(n) \subseteq TableIds
      BY <1>0, TablesByTier
    <3> QED
      BY <1>4, <3>1, <3>2, <3>3, TableStays DEF TiersStay
  <2> QED
    BY <1>4, <2>2, Frames, StepsOf
<1> QED
  BY <1>1, <1>2, <1>3, <1>4, ClosedSteps

\* In an open engine the layout is the one in memory.
LEMMA NowLoaded ==
    ASSUME Types
    PROVE  /\ Loaded => /\ Live = MemIds /\ NowL0 = l0 /\ NowLevels = levels
                        /\ \A n \in TierNo : Tier(n) = TierIds(n) /\ TierIds(n) \subseteq TableIds
                        /\ \A t \in TableIds : \E n \in TierNo : t \in Tier(n)
           /\ NowL0 \in Seq(Id) /\ NowLevels \in Levels
           /\ \A n \in TierNo : Tier(n) \subseteq Id
<1>1. /\ DOMAIN levels = 1 .. MaxLevels /\ DOMAIN manifest.levels = 1 .. MaxLevels
      /\ l0 \in Seq(Id) /\ manifest.l0 \in Seq(Id)
      /\ levels \in Levels /\ manifest.levels \in Levels
  BY DEF Types, TreeTypes, DiskTypes, Levels
<1>2. TableIds = UNION {TierIds(n) : n \in TierNo}
  BY <1>1, TablesByTier
<1>3. Loaded => \A n \in TierNo : Tier(n) = TierIds(n)
  BY DEF Tier, TierIds, NowL0, NowLevels
<1>4. NowL0 \in Seq(Id) /\ NowLevels \in Levels
  BY <1>1 DEF NowL0, NowLevels
<1>5. \A n \in TierNo : Tier(n) \subseteq Id
  BY <1>4, IdsInOf, TierNumbers DEF Tier, Levels
<1> QED
  BY <1>2, <1>3, <1>4, <1>5 DEF Live, NowL0, NowLevels

\* Filling the active memtable keeps the memtables in order.
LEMMA MemsOrderedStep ==
    ASSUME Types, Structure, Falling, Dated, Settled, MemsOrdered, Fills
    PROVE  MemsOrdered'
<1> SUFFICES ASSUME NEW m \in Live', NEW n \in Live', m > n,
                    NEW v \in Buffered(m)', NEW w \in Buffered(n)'
             PROVE  v.ts > w.ts
  BY DEF MemsOrdered, Newer
<1>1. /\ Loaded => Live = MemIds /\ mem \in MemIds /\ \A k \in MemIds : k = mem \/ k < mem
      /\ Live \subseteq Nat /\ mem \in Nat
  BY NowLoaded, BufferedNat DEF Falling, MemIds, Id
<1>2. m \in Live /\ (v \in Buffered(m) \/ (m = mem /\ Loaded /\ mu.pc = "log" /\ v \in IdsIn(mu.batch)))
  BY <1>1 DEF Fills
<1>3. n \in Live /\ w \in Buffered(n) /\ (Loaded => n # mem)
  <2>1. Loaded => m <= mem /\ n # mem
    BY <1>1, <1>2
  <2> QED
    BY <2>1 DEF Fills
<1>4. CASE v \in Buffered(m)
  BY <1>2, <1>3, <1>4 DEF MemsOrdered, Newer
<1>5. CASE m = mem /\ Loaded /\ mu.pc = "log" /\ v \in IdsIn(mu.batch)
  <2>1. n \in IdsIn(imm)
    BY <1>1, <1>3, <1>5 DEF MemIds
  <2>2. w.ts < ts /\ v.ts = ts
    BY <1>3, <1>5, <2>1 DEF Settled, Dated
  <2> QED
    BY <2>2
<1> QED
  BY <1>2, <1>4, <1>5

\* It keeps them above the tables.
LEMMA MemsAboveStep ==
    ASSUME Types, Structure, Dated, Settled, MemsAbove, Fills, Rearranged
    PROVE  MemsAbove'
<1> SUFFICES ASSUME NEW m \in Live', NEW n \in TierNo, NEW t \in Tier(n)',
                    NEW v \in Buffered(m)', NEW w \in Table(t)'
             PROVE  v.ts > w.ts
  BY DEF MemsAbove, Newer
<1>1. PICK k \in TierNo : \E u \in Tier(k) : w \in Table(u)
  BY DEF Rearranged
<1> PICK u \in Tier(k) : w \in Table(u)
  BY <1>1
<1>2. CASE m \in Live /\ v \in Buffered(m)
  BY <1>1, <1>2 DEF MemsAbove, Newer
<1>3. CASE m = mem /\ Loaded /\ mu.pc = "log" /\ v \in IdsIn(mu.batch)
  <2>1. u \in TableIds
    BY <1>1, <1>3, NowLoaded
  <2>2. w.ts < ts /\ v.ts = ts
    BY <1>1, <1>3, <2>1 DEF Settled, Dated
  <2> QED
    BY <2>2
<1>4. Loaded => mem \in Live
  BY NowLoaded DEF MemIds
<1> QED
  BY <1>2, <1>3, <1>4 DEF Fills

\* Nothing happens to the tables.
LEMMA TiersStayOrdered ==
    ASSUME Types, Structure, Falling, Dated, Settled, Ordered, Fills, TiersStay
    PROVE  Ordered'
<1>1. \A n \in TierNo : Tier(n)' = Tier(n)
  BY DEF TiersStay, Tier
<1>2. Rearranged
  BY <1>1 DEF TiersStay, Rearranged
<1>3. \A i \in DOMAIN NowL0 : Table(NowL0[i])' = Table(NowL0[i])
  BY TierNumbers DEF TiersStay, Tier, IdsIn
<1>4. L0Ordered'
  BY <1>3 DEF Ordered, L0Ordered, TiersStay
<1>5. TiersOrdered'
  BY <1>1 DEF Ordered, TiersOrdered, TiersStay
<1> QED
  BY <1>2, <1>4, <1>5, MemsOrderedStep, MemsAboveStep DEF Ordered

\* The memtable a flush takes is the oldest, and its table is what it held.
LEMMA FlushedTable ==
    ASSUME Types, Structure, Falling, FlushSwap
    PROVE  /\ Loaded /\ Oldest \in MemIds /\ Oldest \in Id
           /\ \A m \in MemIds : m = Oldest \/ m > Oldest
           /\ Table(Oldest) \subseteq Buffered(Oldest)
           /\ Live' = MemIds \ {Oldest}
           /\ UNCHANGED <<wal, sst>>
           /\ NowL0' = <<Oldest>> \o l0 /\ NowLevels' = levels
<1>1. /\ Loaded /\ up = "up" /\ mu.pc = "flush" /\ imm # <<>> /\ imm \in Seq(Id) /\ mem \in Id
      /\ up' = up /\ mem' = mem /\ UNCHANGED <<wal, sst>>
      /\ l0' = <<Oldest>> \o l0 /\ levels' = levels
  BY Busy DEF FlushSwap, Types, WriterTypes, TreeTypes
<1>2. Oldest \in Id /\ Oldest \in IdsIn(imm) /\ IdsIn(imm') = IdsIn(imm) \ {Oldest}
  BY FlushEffect
<1>3. \A m \in MemIds : m = Oldest \/ m > Oldest
  <2>1. /\ \A i, j \in DOMAIN imm : i < j => imm[i] > imm[j]
        /\ \A m \in IdsIn(imm) : m < mem
    BY <1>1 DEF Falling
  <2>2. /\ DOMAIN imm = 1 .. Len(imm) /\ Len(imm) \in Nat /\ Len(imm) \in DOMAIN imm
        /\ IdsIn(imm) = {imm[i] : i \in 1 .. Len(imm)} /\ Oldest = imm[Len(imm)]
    BY <1>1 DEF IdsIn, Oldest
  <2>3. \A i \in 1 .. Len(imm) : imm[i] = Oldest \/ imm[i] > Oldest
    BY <2>1, <2>2
  <2>4. mem > Oldest
    BY <1>1, <1>2, <2>1 DEF Id
  <2> QED
    BY <2>2, <2>3, <2>4 DEF MemIds
<1>4. Table(Oldest) \subseteq Buffered(Oldest)
  <2>1. sst[Oldest] = mems[Oldest]
    BY <1>1 DEF Structure, Apart
  <2> QED
    BY <2>1 DEF Table, Buffered, Contents
<1>5. Loaded' /\ Live' = MemIds \ {Oldest}
  <2>1. mem # Oldest
    BY <1>1, <1>2 DEF Structure, Apart
  <2> QED
    BY <1>1, <1>2, <2>1 DEF Live, Loaded, MemIds
<1> QED
  BY <1>1, <1>2, <1>3, <1>4, <1>5 DEF MemIds, NowL0, NowLevels

\* A flush moves the oldest memtable to the top of the tables.
LEMMA FlushOrdered ==
    ASSUME Types, Structure, Falling, Dated, Settled, Ordered, Fills, FlushSwap
    PROVE  Ordered'
<1>0. /\ Loaded /\ Oldest \in Live /\ Live = MemIds /\ Live' = Live \ {Oldest}
      /\ \A m \in Live' : m > Oldest
      /\ Table(Oldest) \subseteq Buffered(Oldest) /\ l0 \in Seq(Id)
      /\ \A i : Table(i)' = Table(i)
      /\ \A m \in Live' : Buffered(m)' \subseteq Buffered(m)
      /\ NowL0' = <<Oldest>> \o l0 /\ NowLevels' = levels /\ NowL0 = l0 /\ NowLevels = levels
  <2>1. mu.pc # "log"
    BY DEF FlushSwap
  <2> QED
    BY <2>1, FlushedTable, NowLoaded DEF Table, Fills, Types, TreeTypes
<1>1. /\ \A n \in TierNo : Tier(n)' = IF n = 0 THEN Tier(0) \cup {Oldest} ELSE Tier(n)
      /\ 0 \in TierNo
  <2>1. IdsIn(<<Oldest>> \o l0) = {Oldest} \cup IdsIn(l0)
    BY <1>0, IdsInSmall, FlushedTable
  <2> QED
    BY <1>0, <2>1, TierNumbers DEF Tier
<1>2. \A n \in TierNo : \A t \in Tier(n) : Newer(Table(Oldest), Table(t))
  BY <1>0 DEF Ordered, MemsAbove, Newer
<1>3. MemsAbove'
  <2> SUFFICES ASSUME NEW m \in Live', NEW n \in TierNo, NEW t \in Tier(n)'
               PROVE  Newer(Buffered(m)', Table(t))
    BY <1>0 DEF MemsAbove
  <2>1. m \in Live /\ Buffered(m)' \subseteq Buffered(m)
    BY <1>0
  <2>2. Newer(Buffered(m), Table(t))
    <3>1. CASE t = Oldest
      BY <1>0, <3>1 DEF Ordered, MemsOrdered, Newer
    <3>2. CASE t # Oldest
      <4>1. t \in Tier(n)
        BY <1>1, <3>2
      <4> QED
        BY <2>1, <4>1 DEF Ordered, MemsAbove
    <3> QED
      BY <3>1, <3>2
  <2> QED
    BY <2>1, <2>2 DEF Newer
<1>4. L0Ordered'
  <2>1. /\ DOMAIN NowL0' = 1 .. Len(l0) + 1 /\ DOMAIN l0 = 1 .. Len(l0) /\ Len(l0) \in Nat
        /\ NowL0'[1] = Oldest /\ \A i \in 2 .. Len(l0) + 1 : NowL0'[i] = l0[i - 1]
    BY <1>0
  <2> SUFFICES ASSUME NEW i \in DOMAIN NowL0', NEW j \in DOMAIN NowL0', i < j
               PROVE  Newer(Table(NowL0'[i]), Table(NowL0'[j]))
    BY <1>0 DEF L0Ordered
  <2>2. j - 1 \in DOMAIN l0 /\ NowL0'[j] = l0[j - 1]
    BY <2>1
  <2>3. CASE i = 1
    <3>1. l0[j - 1] \in Tier(0)
      BY <1>0, <2>2 DEF Tier, IdsIn
    <3> QED
      BY <1>1, <1>2, <2>1, <2>2, <2>3, <3>1
  <2>4. CASE i # 1
    <3>1. i - 1 \in DOMAIN l0 /\ NowL0'[i] = l0[i - 1] /\ i - 1 < j - 1
      BY <2>1, <2>4
    <3> QED
      BY <1>0, <2>2, <3>1 DEF Ordered, L0Ordered
  <2> QED
    BY <2>3, <2>4
<1>5. TiersOrdered'
  <2> SUFFICES ASSUME NEW m \in TierNo, NEW n \in TierNo, m < n,
                      NEW t \in Tier(m)', NEW u \in Tier(n)'
               PROVE  Newer(Table(t), Table(u))
    BY <1>0 DEF TiersOrdered
  <2>1. n # 0 /\ u \in Tier(n)
    BY <1>1 DEF TierNo
  <2>2. CASE t = Oldest
    BY <1>2, <2>1, <2>2
  <2>3. CASE t # Oldest
    <3>1. t \in Tier(m)
      BY <1>1, <2>3
    <3> QED
      BY <2>1, <3>1 DEF Ordered, TiersOrdered
  <2> QED
    BY <2>2, <2>3
<1>6. MemsOrdered'
  BY MemsOrderedStep DEF Ordered
<1> QED
  BY <1>3, <1>4, <1>5, <1>6 DEF Ordered

\* What the swap of a compaction does to the sequences of tables.
LEMMA SwapSequences ==
    ASSUME Types, Structure, SwapIn
    PROVE  /\ Loaded /\ Loaded' /\ comp.pc = "merge" /\ comp.rest = {}
           /\ strategy \in {"full", "leveled"}
           /\ comp.task.upperLevel < comp.task.lowerLevel
           /\ comp.task.upperLevel \in TierNo /\ comp.task.lowerLevel \in 1 .. MaxLevels
           /\ NowL0' = l0' /\ NowLevels' = levels'
           /\ l0' = l0 \/ (comp.task.upperLevel = 0 /\ l0' = RemoveIDs(l0, comp.task.upperIDs))
           /\ DOMAIN levels' = 1 .. MaxLevels
           /\ levels'[comp.task.lowerLevel] = comp.new
           /\ \A n \in 1 .. MaxLevels : n # comp.task.lowerLevel =>
                \/ levels'[n] = levels[n] \/ levels'[n] = <<>>
                \/ levels'[n] = RemoveIDs(levels[n], comp.task.upperIDs)
           /\ UNCHANGED <<wal, sst, mem, imm, mems>>
<1> DEFINE u == comp.task.upperLevel
           l == comp.task.lowerLevel
<1>1. /\ strategy \in {"full", "leveled"} /\ l \in 1 .. MaxLevels /\ u < l /\ u \in TierNo
      /\ strategy = "full" => u = 0 /\ l = MaxLevels
      /\ comp.pc = "merge" /\ comp.rest = {}
  BY LsmAssumption, TierNumbers, TaskInputs DEF Structure, TaskPicked, SwapIn, Types, CounterTypes
<1>2. /\ Loaded /\ Loaded' /\ UNCHANGED <<wal, sst, mem, imm, mems>>
  BY DEF SwapIn, Free, Running, Loaded
<1>3. CASE strategy = "full"
  <2>1. /\ l0' = RemoveIDs(l0, comp.task.upperIDs)
        /\ levels' = [i \in 1 .. MaxLevels |-> IF i = MaxLevels THEN comp.new ELSE <<>>]
    BY <1>3 DEF SwapIn, ApplyResult, FullResult
  <2> QED
    BY <1>1, <1>2, <1>3, <2>1 DEF NowL0, NowLevels
<1>4. CASE strategy = "leveled"
  <2>1. /\ l0' = IF u = 0 THEN RemoveIDs(l0, comp.task.upperIDs) ELSE l0
        /\ levels' = [i \in 1 .. MaxLevels |->
                        IF i = l THEN comp.new
                        ELSE IF i = u THEN RemoveIDs(levels[i], comp.task.upperIDs)
                        ELSE levels[i]]
    BY <1>4 DEF SwapIn, ApplyResult, LeveledResult
  <2> HIDE DEF u, l
  <2>2. /\ NowL0' = l0' /\ NowLevels' = levels' /\ DOMAIN levels' = 1 .. MaxLevels
        /\ levels'[l] = comp.new
        /\ l0' = l0 \/ (u = 0 /\ l0' = RemoveIDs(l0, comp.task.upperIDs))
    BY <1>1, <1>2, <2>1 DEF NowL0, NowLevels
  <2>3. \A n \in 1 .. MaxLevels : n # l =>
          \/ levels'[n] = levels[n] \/ levels'[n] = <<>>
          \/ levels'[n] = RemoveIDs(levels[n], comp.task.upperIDs)
    BY <2>1
  <2> QED
    BY <1>1, <1>2, <2>2, <2>3 DEF u, l
<1> QED
  BY <1>1, <1>3, <1>4

\* A version of an output table comes from a table of the two tiers merged.
LEMMA MergedFrom ==
    ASSUME Types, Structure, MergeBelow, comp.pc = "merge", NEW v \in Merged
    PROVE  \E x \in IdsIn(comp.task.upperIDs) \cup IdsIn(comp.task.lowerIDs) : v \in Table(x)
<1>1. v \in UNION {Table(i) : i \in IdsIn(InputIDs(comp.task))}
  BY DEF MergeBelow
<1> QED
  BY <1>1, TaskInputs

\* A swap puts the output below what the upper tier got meanwhile.
LEMMA SwapTiersOrdered ==
    ASSUME Types, Structure, Ordered, MergeBelow, SwapIn
    PROVE  TiersOrdered' /\ Rearranged
<1> DEFINE ul == comp.task.upperLevel
           ll == comp.task.lowerLevel
           up1 == IdsIn(comp.task.upperIDs)
<1>1. /\ Loaded /\ Loaded' /\ comp.pc = "merge" /\ ul < ll /\ ul \in TierNo /\ ll \in TierNo
      /\ strategy = "full" => ul = 0 /\ ll = MaxLevels
      /\ strategy # "full" => ll = ul + 1
      /\ up1 \subseteq Tier(ul) /\ IdsIn(comp.task.lowerIDs) = Tier(ll)
      /\ \A i : Table(i)' = Table(i)
  BY SwapSequences, NowLoaded, TaskInputs DEF Structure, TaskPicked, Table
<1>2. \A n \in TierNo :
        Tier(n)' = IF n = ll THEN IdsIn(comp.new)
                   ELSE IF n = ul THEN Tier(n) \ up1 ELSE Tier(n)
  <2>1. \A n \in TierNo : Tier(n)' = TierIds(n)' /\ Tier(n) = TierIds(n)
    BY <1>1 DEF Tier, TierIds, NowL0, NowLevels
  <2> QED
    BY <2>1, SwapEffect DEF Structure
<1>3. \A i \in IdsIn(comp.new) : \A v \in Table(i) : \E x \in up1 \cup Tier(ll) : v \in Table(x)
  <2>1. \A i \in IdsIn(comp.new) : Table(i) \subseteq Merged
    BY DEF Merged
  <2> QED
    BY <1>1, <2>1, MergedFrom
<1>4. \A n \in TierNo : ul < n /\ n < ll => Tier(n) = {}
  <2>1. \A n \in TierNo : ul < n /\ n < ll =>
          n \in 1 .. MaxLevels /\ n # MaxLevels /\ strategy = "full"
    BY <1>1, LsmAssumption, ControllerAssumption DEF TierNo
  <2>2. \A n \in TierNo : ul < n /\ n < ll => levels[n] = <<>>
    BY <2>1 DEF Structure, Unfilled
  <2>3. \A n \in TierNo : ul < n => n # 0
    BY <1>1 DEF TierNo
  <2>4. IdsIn(<<>>) = {}
    BY DEF IdsIn
  <2> QED
    BY <1>1, <2>2, <2>3, <2>4, NowLoaded DEF Tier
<1> HIDE DEF ul, ll, up1
<1>5. TiersOrdered'
  <2> SUFFICES ASSUME NEW m \in TierNo, NEW n \in TierNo, m < n,
                      NEW t \in Tier(m)', NEW u \in Tier(n)',
                      NEW v \in Table(t), NEW w \in Table(u)
               PROVE  v.ts > w.ts
    BY <1>1 DEF TiersOrdered, Newer
  <2>0. \A p, q \in TierNo : p < q =>
          \A x \in Tier(p), y \in Tier(q) : \A a \in Table(x), b \in Table(y) : a.ts > b.ts
    BY DEF Ordered, TiersOrdered, Newer
  <2>1. CASE n = ll
    <3>0. m # ll
      BY <2>1 DEF TierNo
    <3>1. t \in Tier(m) /\ (m = ul => t \notin up1)
      BY <1>2, <3>0
    <3>2. PICK x \in up1 \cup Tier(ll) : w \in Table(x)
      BY <1>2, <1>3, <2>1
    <3>3. CASE x \in Tier(ll)
      BY <1>1, <2>0, <2>1, <3>1, <3>2, <3>3
    <3>4. CASE x \in up1
      <4>1. CASE m = ul
        <5>1. \A y \in Tier(ul) \ up1, z \in up1 : Newer(Table(y), Table(z))
          BY <1>1, NowLoaded DEF MergeBelow, ul, up1
        <5> QED
          BY <3>1, <3>2, <3>4, <4>1, <5>1 DEF Newer
      <4>2. CASE m # ul
        <5>1. m < ul
          BY <1>1, <1>4, <2>1, <3>1, <4>2, LsmAssumption, ControllerAssumption DEF TierNo
        <5> QED
          BY <1>1, <2>0, <3>1, <3>2, <3>4, <5>1
      <4> QED
        BY <4>1, <4>2
    <3> QED
      BY <3>2, <3>3, <3>4
  <2>2. CASE m = ll
    <3>1. n # ll /\ n # ul /\ u \in Tier(n) /\ ul < n /\ ll < n
      BY <1>1, <1>2, <2>2, ControllerAssumption DEF TierNo
    <3>2. PICK x \in up1 \cup Tier(ll) : v \in Table(x)
      BY <1>2, <1>3, <2>2
    <3> QED
      BY <1>1, <2>0, <3>1, <3>2
  <2>3. CASE m # ll /\ n # ll
    <3>1. t \in Tier(m) /\ u \in Tier(n)
      BY <1>2, <2>3
    <3> QED
      BY <2>0, <3>1
  <2> QED
    BY <2>1, <2>2, <2>3
<1>6. Rearranged
  <2> SUFFICES ASSUME NEW n \in TierNo, NEW t \in Tier(n)', NEW v \in Table(t)
               PROVE  \E k \in TierNo : \E u \in Tier(k) : v \in Table(u)
    BY <1>1 DEF Rearranged
  <2>1. CASE n = ll
    <3>1. PICK x \in up1 \cup Tier(ll) : v \in Table(x)
      BY <1>2, <1>3, <2>1
    <3> QED
      BY <1>1, <3>1
  <2>2. CASE n # ll
    <3>1. t \in Tier(n)
      BY <1>2, <2>2
    <3> QED
      BY <3>1
  <2> QED
    BY <2>1, <2>2
<1> QED
  BY <1>5, <1>6

\* A swap keeps the tiers in order.
LEMMA SwapOrdered ==
    ASSUME Types, Structure, Falling, Dated, Settled, Ordered, Fills, MergeBelow, SwapIn
    PROVE  Ordered'
<1>1. /\ Loaded /\ Loaded' /\ NowL0' = l0' /\ NowL0 = l0 /\ l0 \in Seq(Id)
      /\ l0' = l0 \/ l0' = RemoveIDs(l0, comp.task.upperIDs)
      /\ \A i : Table(i)' = Table(i)
  BY SwapSequences, NowLoaded DEF Table, Types, TreeTypes
<1>2. l0' = l0 \/ (InOrder(l0', l0) /\ l0' \in Seq(Id))
  BY <1>1, RemoveIDsResult
<1>3. L0Ordered'
  <2>1. CASE l0' = l0
    BY <1>1, <2>1 DEF Ordered, L0Ordered
  <2>2. CASE InOrder(l0', l0) /\ l0' \in Seq(Id)
    <3> SUFFICES ASSUME NEW i \in DOMAIN l0', NEW j \in DOMAIN l0', i < j
                 PROVE  Newer(Table(l0'[i]), Table(l0'[j]))
      BY <1>1 DEF L0Ordered
    <3>1. i \in 1 .. Len(l0') /\ j \in 1 .. Len(l0') /\ DOMAIN l0 = 1 .. Len(l0)
      BY <1>1, <2>2
    <3>2. PICK p \in 1 .. Len(l0), q \in 1 .. Len(l0) :
            p < q /\ l0'[i] = l0[p] /\ l0'[j] = l0[q]
      BY <2>2, <3>1, Zenon DEF InOrder
    <3> QED
      BY <1>1, <3>1, <3>2 DEF Ordered, L0Ordered
  <2> QED
    BY <1>2, <2>1, <2>2
<1> QED
  BY <1>3, SwapTiersOrdered, MemsOrderedStep, MemsAboveStep DEF Ordered

\* A pick takes its upper tier whole, and keeps only what the inputs hold.
LEMMA PickBelow ==
    ASSUME Types, Structure, NEW w \in 0 .. ts, CompactPick(w)
    PROVE  MergeBelow'
<1>1. PICK task \in Task(Id), rest \in Content :
        /\ PickShape(task, strategy, l0, levels)
        /\ rest = Compacted(UNION {Contents(sst[i]) : i \in IdsIn(InputIDs(task))},
                            task.toBottom, w)
        /\ comp' = [pc |-> "merge", task |-> task, new |-> <<>>, rest |-> rest, old |-> <<>>]
  BY PickedTask
<1>2. sst' = sst /\ l0' = l0 /\ levels' = levels
  BY DEF CompactPick, disk, tree
<1>3. rest \subseteq UNION {Contents(sst[i]) : i \in IdsIn(InputIDs(task))}
  BY <1>1 DEF Compacted, Kept
<1>4. Merged' = rest
  <2>1. comp'.rest = rest /\ IdsIn(comp'.new) = {}
    BY <1>1 DEF IdsIn
  <2> QED
    BY <2>1 DEF Merged
<1>5. TierIds(task.upperLevel)' = IdsIn(task.upperIDs)
  <2>1. task.upperIDs = IF task.upperLevel = 0 THEN l0 ELSE levels[task.upperLevel]
    BY <1>1 DEF PickShape, WholeTier
  <2> QED
    BY <1>2, <2>1 DEF TierIds
<1>6. comp'.task = task
  BY <1>1
<1> QED
  BY <1>2, <1>3, <1>4, <1>5, <1>6 DEF MergeBelow, Table

\* MergeBelow is inductive, given that the tiers are in order.
LEMMA MergeBelowStep ==
    ASSUME Types, Structure, Falling, Ordered, MergeBelow, [Next]_vars
    PROVE  MergeBelow'
<1> SUFFICES ASSUME comp'.pc = "merge"
             PROVE  MergeBelow'
  BY DEF MergeBelow
<1>0. /\ ~ Crash /\ ~ CompactBuildFails /\ ~ CompactSwap /\ ~ CompactRecordFails
      /\ CompactDelete => UNCHANGED comp
      /\ comp \in [pc : {"idle", "merge", "delete"}, task : Task(Id) \cup {NoTask},
                   rest : Content, new : Seq(Id), old : Seq(Id)]
  <2>1. ~ Crash /\ ~ CompactBuildFails /\ ~ CompactRecordFails
    BY DEF Crash, CompactBuildFails, CompactRecordFails, NoComp
  <2>2. ~ CompactSwap
    BY DEF CompactSwap, NoComp
  <2>3. comp \in [pc : {"idle", "merge", "delete"}, task : Task(Id) \cup {NoTask},
                   rest : Content, new : Seq(Id), old : Seq(Id)]
    BY DEF Types, CompTypes
  <2>4. ~ CompactDelete
    <3>1. comp.pc = "delete" => [comp EXCEPT !.old = Tail(@)].pc = "delete"
      BY <2>3
    <3>2. NoComp.pc = "idle"
      BY DEF NoComp
    <3> QED
      BY <3>1, <3>2 DEF CompactDelete
  <2> QED
    BY <2>1, <2>2, <2>3, <2>4
<1>1. CASE \E w \in 0 .. ts : CompactPick(w)
  BY <1>1, PickBelow
<1>2. CASE comp.pc = "merge" /\ (UNCHANGED comp \/ CompactBuild)
  <2>0. /\ Loaded /\ comp.task.upperLevel \in TierNo
        /\ IdsIn(comp.task.upperIDs) \subseteq TierIds(comp.task.upperLevel)
        /\ IdsIn(InputIDs(comp.task)) \subseteq TableIds
        /\ comp'.task = comp.task
        /\ Merged \subseteq UNION {Table(i) : i \in IdsIn(InputIDs(comp.task))}
        /\ \A t \in TierIds(comp.task.upperLevel) \ IdsIn(comp.task.upperIDs),
             u \in IdsIn(comp.task.upperIDs) : Newer(Table(t), Table(u))
    BY <1>0, <1>2, Busy, TaskInputs DEF CompactBuild, MergeBelow
  <2>1. Merged' \subseteq Merged
    <3>1. CASE UNCHANGED comp
      <4>1. \A i \in IdsIn(comp.new) : Table(i)' = Table(i)
        BY <2>0, TableStays
      <4> QED
        BY <3>1, <4>1 DEF Merged
    <3>2. CASE CompactBuild
      <4>1. /\ comp'.rest = comp.rest \ NextTable(comp.rest)
            /\ comp'.new = Append(comp.new, nextID) /\ nextID \in Id
            /\ sst' = [sst EXCEPT ![nextID] = NextTable(comp.rest)]
            /\ sst \in [Id -> Content \cup {NoFile}] /\ comp.new \in Seq(Id)
        BY <1>0, <3>2, IdNext DEF CompactBuild, Types, DiskTypes
      <4>2. IdsIn(comp'.new) = IdsIn(comp.new) \cup {nextID}
        BY <4>1, AppendIds
      <4>3. Contents(sst'[nextID]) \subseteq comp.rest
        BY <4>1 DEF Contents, NextTable
      <4>4. \A i \in IdsIn(comp.new) : Table(i)' = Table(i)
        BY <2>0, TableStays
      <4> QED
        BY <4>1, <4>2, <4>3, <4>4 DEF Merged, Table
    <3> QED
      BY <1>2, <3>1, <3>2
  <2>2. \A i \in IdsIn(InputIDs(comp.task)) : Table(i)' = Table(i)
    BY <2>0, TableStays
  <2>3. Merged' \subseteq UNION {Table(i)' : i \in IdsIn(InputIDs(comp'.task))}
    BY <2>0, <2>1, <2>2
  <2>4. ASSUME NEW t \in TierIds(comp.task.upperLevel)' \ IdsIn(comp.task.upperIDs),
               NEW u \in IdsIn(comp.task.upperIDs)
        PROVE  Newer(Table(t)', Table(u)')
    <3>1. Table(u)' = Table(u) /\ u \in TierIds(comp.task.upperLevel)
      BY <1>2, <2>0, <2>2, TaskInputs
    <3>2. CASE FlushSwap
      <4>1. CASE t = Oldest
        <5>1. Table(t)' = Table(t) /\ Table(t) \subseteq Buffered(t) /\ t \in Live
          BY <2>0, <3>2, <4>1, FlushedTable, NowLoaded DEF Table
        <5>2. Newer(Buffered(t), Table(u))
          BY <2>0, <3>1, <5>1, NowLoaded DEF Ordered, MemsAbove
        <5> QED
          BY <3>1, <5>1, <5>2 DEF Newer
      <4>2. CASE t # Oldest
        <5>1. t \in TierIds(comp.task.upperLevel) /\ t \in TableIds
          BY <2>0, <2>4, <3>2, <4>2, FlushEffect, NowLoaded
        <5> QED
          BY <2>0, <2>4, <3>1, <5>1, TableStays
      <4> QED
        BY <4>1, <4>2
    <3>3. CASE UNCHANGED <<l0, levels>>
      <4>1. t \in TierIds(comp.task.upperLevel) /\ t \in TableIds
        BY <2>0, <2>4, <3>3, SameTables, NowLoaded
      <4> QED
        BY <2>0, <2>4, <3>1, <4>1, TableStays
    <3>4. ~ \E s \in Strategies : RecoverOpen(s)
      BY <2>0 DEF RecoverOpen, Loaded
    <3> QED
      BY <1>0, <3>2, <3>3, <3>4, Frames, StepsOf
  <2> QED
    BY <2>0, <2>3, <2>4 DEF MergeBelow
<1>3. CASE CompactBuild
  BY <1>2, <1>3 DEF CompactBuild
<1> QED
  BY <1>0, <1>1, <1>2, <1>3, Frames

\* Every step keeps the tiers in order.
LEMMA OrderedStep ==
    ASSUME Types, Structure, Dated, Filling, Synced, Ordered, MergeBelow, [Next]_vars
    PROVE  Ordered'
<1>1. Fills
  BY FillsStep DEF Filling
<1>2. FlushSwap \/ SwapIn \/ TiersStay
  BY TierSteps
<1> QED
  BY <1>1, <1>2, FlushOrdered, SwapOrdered, TiersStayOrdered DEF Filling

\* All of it holds when an empty directory has been opened.
LEMMA OrderedInit == Init => Filling /\ Ordered /\ MergeBelow
<1> SUFFICES ASSUME Init
             PROVE  Filling /\ Ordered /\ MergeBelow
  OBVIOUS
<1>1. /\ mems = [i \in Id |-> {}] /\ 0 \in Id /\ MemIds = {0} /\ IdsIn(imm) = {} /\ Loaded
      /\ Live = {0} /\ NowL0 = <<>> /\ NowLevels = NoLevels /\ mu.pc = "free"
      /\ comp.pc = "idle" /\ imm = <<>> /\ IdsIn(<<>>) = {}
  BY LsmAssumption DEF Init, Id, MemIds, IdsIn, Unlocked, NoComp, Loaded, Live, NowL0, NowLevels
<1>2. \A n \in TierNo : Tier(n) = {}
  BY <1>1, TierNumbers DEF Tier, NoLevels
<1>3. Filling
  BY <1>1 DEF Filling, Falling, Vacant, Settled
<1>4. Ordered
  <2>1. MemsOrdered
    BY <1>1 DEF MemsOrdered
  <2>2. MemsAbove /\ TiersOrdered
    BY <1>2 DEF MemsAbove, TiersOrdered
  <2>3. L0Ordered
    BY <1>1 DEF L0Ordered
  <2> QED
    BY <2>1, <2>2, <2>3 DEF Ordered
<1>5. MergeBelow
  BY <1>1 DEF MergeBelow
<1> QED
  BY <1>3, <1>4, <1>5

\* Where the process may die, memory and manifest agree, unless a record may
\* fail too.
LEMMA SyncedAlways ==
    ASSUME ~ Reconfigure, ~ Crashes \/ "manifest" \notin Faults
    PROVE  Spec => []Synced
<1>1. CASE Crashes
  <2>1. SameTiers /\ Logged => Synced
    BY <1>1 DEF Synced
  <2>2. Spec => [](SameTiers /\ Logged)
    BY <1>1, ReplayedAlways
  <2> QED
    BY <2>1, <2>2, PTL
<1>2. CASE ~ Crashes
  <2>1. Init => Synced
    BY <1>2 DEF Init, Synced
  <2>2. Synced /\ [Next]_vars => Synced'
    <3> SUFFICES ASSUME Synced, [Next]_vars
                 PROVE  Synced'
      OBVIOUS
    <3>1. up = "up"
      BY <1>2 DEF Synced
    <3>2. up' = "up"
      BY <1>2, <3>1, Frames DEF Crash, RecoverOpen, RecoverRecord, Serve
    <3> QED
      BY <1>2, <3>2 DEF Synced
  <2> QED
    BY <2>1, <2>2, PTL DEF Spec
<1> QED
  BY <1>1, <1>2

\* The tiers are in order in every reachable state.
LEMMA OrderedAlways ==
    ASSUME ~ Reconfigure, ~ Crashes \/ "manifest" \notin Faults
    PROVE  Spec => [](Filling /\ Ordered /\ MergeBelow)
<1>1. Init => Filling /\ Ordered /\ MergeBelow
  BY OrderedInit
<1>2. /\ Types /\ Structure /\ Dated /\ Synced
      /\ Filling /\ Ordered /\ MergeBelow /\ [Next]_vars
      => Filling' /\ Ordered' /\ MergeBelow'
  <2> SUFFICES ASSUME Types, Structure, Dated, Synced, Filling, Ordered, MergeBelow, [Next]_vars
               PROVE  Filling' /\ Ordered' /\ MergeBelow'
    OBVIOUS
  <2>1. Filling'
    BY FallingStep, VacantStep, SettledStep DEF Filling
  <2> QED
    BY <2>1, OrderedStep, MergeBelowStep DEF Filling
<1>3. Spec => [](Types /\ Structure /\ Dated /\ Synced)
  BY TypesAlways, StructureAlways, DatedAlways, SyncedAlways, PTL
<1> QED
  BY <1>1, <1>2, <1>3, PTL DEF Spec

-----------------------------------------------------------------------------
\* A row of tiers, the younger first, and two rows one above the other.
Chain(s)     == \A i, j \in DOMAIN s : i < j => TierAbove(s[i], s[j])
Across(s, t) == \A i \in DOMAIN s, j \in DOMAIN t : TierAbove(s[i], t[j])

\* Where a position of a concatenation comes from.
LEMMA ConcatAt ==
    ASSUME NEW S, NEW s \in Seq(S), NEW t \in Seq(S)
    PROVE  /\ s \o t \in Seq(S) /\ DOMAIN (s \o t) = 1 .. Len(s) + Len(t)
           /\ Len(s) \in Nat /\ Len(t) \in Nat
           /\ DOMAIN s = 1 .. Len(s) /\ DOMAIN t = 1 .. Len(t)
           /\ \A i \in 1 .. Len(s) : (s \o t)[i] = s[i]
           /\ \A i \in 1 .. Len(s) + Len(t) : i > Len(s) =>
                i - Len(s) \in 1 .. Len(t) /\ (s \o t)[i] = t[i - Len(s)]
  OBVIOUS

\* Two rows one above the other make one row.
LEMMA ChainConcat ==
    ASSUME NEW S, NEW s \in Seq(S), NEW t \in Seq(S), Chain(s), Chain(t), Across(s, t)
    PROVE  Chain(s \o t)
<1> DEFINE st == s \o t
<1>1. /\ DOMAIN st = 1 .. Len(s) + Len(t)
      /\ Len(s) \in Nat /\ Len(t) \in Nat
      /\ DOMAIN s = 1 .. Len(s) /\ DOMAIN t = 1 .. Len(t)
      /\ \A i \in 1 .. Len(s) : st[i] = s[i]
      /\ \A i \in 1 .. Len(s) + Len(t) : i > Len(s) =>
           i - Len(s) \in 1 .. Len(t) /\ st[i] = t[i - Len(s)]
  BY ConcatAt
<1> HIDE DEF st
<1> SUFFICES ASSUME NEW i \in DOMAIN st, NEW j \in DOMAIN st, i < j
             PROVE  TierAbove(st[i], st[j])
  BY DEF Chain, st
<1>2. i \in 1 .. Len(s) \/ i > Len(s)
  BY <1>1
<1>3. j \in 1 .. Len(s) \/ j > Len(s)
  BY <1>1
<1>4. CASE j \in 1 .. Len(s)
  <2>1. i \in 1 .. Len(s)
    BY <1>1, <1>4
  <2> QED
    BY <1>1, <1>4, <2>1 DEF Chain
<1>5. CASE i > Len(s)
  <2>1. j > Len(s) /\ i - Len(s) < j - Len(s)
    BY <1>1, <1>5
  <2> QED
    BY <1>1, <1>5, <2>1 DEF Chain
<1>6. CASE i \in 1 .. Len(s) /\ j > Len(s)
  BY <1>1, <1>6 DEF Across
<1> QED
  BY <1>2, <1>3, <1>4, <1>5, <1>6

\* A row is above another if both of its parts are.
LEMMA AcrossConcat ==
    ASSUME NEW S, NEW s \in Seq(S), NEW t \in Seq(S), NEW u, Across(s, u), Across(t, u)
    PROVE  Across(s \o t, u)
<1> DEFINE st == s \o t
<1>1. /\ DOMAIN st = 1 .. Len(s) + Len(t)
      /\ Len(s) \in Nat /\ Len(t) \in Nat
      /\ DOMAIN s = 1 .. Len(s) /\ DOMAIN t = 1 .. Len(t)
      /\ \A i \in 1 .. Len(s) : st[i] = s[i]
      /\ \A i \in 1 .. Len(s) + Len(t) : i > Len(s) =>
           i - Len(s) \in 1 .. Len(t) /\ st[i] = t[i - Len(s)]
  BY ConcatAt
<1> HIDE DEF st
<1> SUFFICES ASSUME NEW i \in DOMAIN st, NEW j \in DOMAIN u
             PROVE  TierAbove(st[i], u[j])
  BY DEF Across, st
<1>2. i \in 1 .. Len(s) \/ i > Len(s)
  BY <1>1
<1> QED
  BY <1>1, <1>2 DEF Across

\* The parts of Tiers.
MemTier    == <<mems[mem]>>
ImmTiers   == [i \in DOMAIN imm |-> mems[imm[i]]]
L0Tiers    == [i \in DOMAIN l0 |-> Contents(sst[l0[i]])]
LevelTiers == [i \in DOMAIN levels |-> UNION {Contents(sst[t]) : t \in IdsIn(levels[i])}]

LEMMA TierSeqs ==
    ASSUME Types
    PROVE  /\ MemTier \in Seq(SUBSET Entry) /\ DOMAIN MemTier = {1} /\ MemTier[1] = mems[mem]
           /\ ImmTiers \in Seq(SUBSET Entry) /\ DOMAIN ImmTiers = DOMAIN imm
           /\ L0Tiers \in Seq(SUBSET Entry) /\ DOMAIN L0Tiers = DOMAIN l0
           /\ LevelTiers \in Seq(SUBSET Entry) /\ DOMAIN LevelTiers = 1 .. MaxLevels
<1>1. /\ imm \in Seq(Id) /\ l0 \in Seq(Id) /\ levels \in Levels /\ mem \in Id
      /\ \A i \in Id : mems[i] \in SUBSET Entry
  BY DEF Types, TreeTypes, Content
<1>2. \A i \in Id : Contents(sst[i]) \in SUBSET Entry
  BY BufferedNat DEF Table
<1>3. MemTier \in Seq(SUBSET Entry) /\ DOMAIN MemTier = {1} /\ MemTier[1] = mems[mem]
  BY <1>1 DEF MemTier
<1>4. ImmTiers \in Seq(SUBSET Entry) /\ DOMAIN ImmTiers = DOMAIN imm
  BY <1>1 DEF ImmTiers
<1>5. L0Tiers \in Seq(SUBSET Entry) /\ DOMAIN L0Tiers = DOMAIN l0
  BY <1>1, <1>2 DEF L0Tiers
<1>6. LevelTiers \in Seq(SUBSET Entry) /\ DOMAIN LevelTiers = 1 .. MaxLevels
  <2>1. DOMAIN levels = 1 .. MaxLevels /\ MaxLevels \in Nat
    BY <1>1, ControllerAssumption DEF Levels
  <2>2. \A n \in 1 .. MaxLevels : IdsIn(levels[n]) \subseteq Id
    BY <1>1, IdsInOf DEF Levels
  <2>3. \A n \in 1 .. MaxLevels :
          UNION {Contents(sst[t]) : t \in IdsIn(levels[n])} \in SUBSET Entry
    BY <1>2, <2>2
  <2> QED
    BY <2>1, <2>3 DEF LevelTiers
<1> QED
  BY <1>3, <1>4, <1>5, <1>6

\* Memtables and tables in the order of Tiers.
LEMMA TiersChain ==
    ASSUME Types, Falling, Ordered, Loaded
    PROVE  Chain(Tiers)
<1>0. /\ \A vs, ws : Newer(vs, ws) => TierAbove(vs, ws)
      /\ \A m, n \in MemIds : m > n => Newer(mems[m], mems[n])
      /\ \A m \in MemIds, n \in TierNo : \A t \in TierIds(n) : Newer(mems[m], Contents(sst[t]))
      /\ \A i, j \in DOMAIN l0 : i < j => Newer(Contents(sst[l0[i]]), Contents(sst[l0[j]]))
      /\ \A m, n \in TierNo : m < n =>
           \A t \in TierIds(m), u \in TierIds(n) : Newer(Contents(sst[t]), Contents(sst[u]))
  <2>1. Live = MemIds /\ NowL0 = l0 /\ \A n \in TierNo : Tier(n) = TierIds(n)
    BY NowLoaded
  <2>2. \A vs, ws : Newer(vs, ws) => TierAbove(vs, ws)
    BY DEF Newer, TierAbove
  <2>3. \A m, n \in MemIds : m > n => Newer(mems[m], mems[n])
    BY <2>1 DEF Ordered, MemsOrdered, Newer, Buffered
  <2>4. \A m \in MemIds, n \in TierNo : \A t \in TierIds(n) : Newer(mems[m], Contents(sst[t]))
    BY <2>1 DEF Ordered, MemsAbove, Newer, Buffered, Table
  <2>5. \A i, j \in DOMAIN l0 : i < j => Newer(Contents(sst[l0[i]]), Contents(sst[l0[j]]))
    BY <2>1 DEF Ordered, L0Ordered, Table
  <2>6. \A m, n \in TierNo : m < n =>
          \A t \in TierIds(m), u \in TierIds(n) : Newer(Contents(sst[t]), Contents(sst[u]))
    BY <2>1 DEF Ordered, TiersOrdered, Table
  <2> QED
    BY <2>2, <2>3, <2>4, <2>5, <2>6
<1>1. /\ MemTier \in Seq(SUBSET Entry) /\ DOMAIN MemTier = {1} /\ MemTier[1] = mems[mem]
      /\ ImmTiers \in Seq(SUBSET Entry) /\ DOMAIN ImmTiers = DOMAIN imm
      /\ L0Tiers \in Seq(SUBSET Entry) /\ DOMAIN L0Tiers = DOMAIN l0
      /\ LevelTiers \in Seq(SUBSET Entry) /\ DOMAIN LevelTiers = 1 .. MaxLevels
      /\ DOMAIN levels = 1 .. MaxLevels
  BY TierSeqs DEF Types, TreeTypes, Levels
<1>2. /\ \A i \in DOMAIN imm : imm[i] \in MemIds /\ imm[i] \in IdsIn(imm) /\ imm[i] \in Nat
      /\ \A i \in DOMAIN l0 : l0[i] \in TierIds(0)
      /\ mem \in MemIds /\ mem \in Nat /\ 0 \in TierNo
      /\ \A n \in 1 .. MaxLevels : n \in TierNo /\ n \in Nat /\ TierIds(n) = IdsIn(levels[n]) /\ 0 < n
      /\ \A i \in DOMAIN imm : imm[i] < mem
      /\ \A i, j \in DOMAIN imm : i < j => imm[i] > imm[j]
  <2>1. \A i \in DOMAIN imm : imm[i] \in IdsIn(imm)
    BY DEF IdsIn
  <2>2. IdsIn(imm) \subseteq MemIds /\ mem \in MemIds /\ MemIds \subseteq Nat
    BY BufferedNat DEF MemIds, Id
  <2>3. \A i \in DOMAIN l0 : l0[i] \in TierIds(0)
    BY DEF IdsIn, TierIds
  <2>4. \A n \in 1 .. MaxLevels : n \in TierNo /\ n \in Nat /\ TierIds(n) = IdsIn(levels[n]) /\ 0 < n
    BY TierNumbers DEF TierIds
  <2> QED
    BY <2>1, <2>2, <2>3, <2>4, TierNumbers DEF Falling
<1>3. Chain(MemTier)
  BY <1>1 DEF Chain
<1>4. Chain(ImmTiers) /\ Across(MemTier, ImmTiers)
  <2>1. \A i \in DOMAIN imm : ImmTiers[i] = mems[imm[i]]
    BY DEF ImmTiers
  <2>2. Chain(ImmTiers)
    <3> SUFFICES ASSUME NEW i \in DOMAIN imm, NEW j \in DOMAIN imm, i < j
                 PROVE  TierAbove(mems[imm[i]], mems[imm[j]])
      BY <1>1, <2>1, SMTT(30) DEF Chain
    <3>1. imm[i] > imm[j] /\ imm[i] \in MemIds /\ imm[j] \in MemIds
      BY <1>2
    <3> QED
      BY <1>0, <3>1
  <2>3. Across(MemTier, ImmTiers)
    <3> SUFFICES ASSUME NEW j \in DOMAIN imm
                 PROVE  TierAbove(mems[mem], mems[imm[j]])
      BY <1>1, <2>1 DEF Across
    <3>1. mem > imm[j] /\ mem \in MemIds /\ imm[j] \in MemIds
      BY <1>2
    <3> QED
      BY <1>0, <3>1
  <2> QED
    BY <2>2, <2>3
<1>5. Chain(L0Tiers) /\ Across(MemTier, L0Tiers) /\ Across(ImmTiers, L0Tiers)
  <2>1. \A i \in DOMAIN l0 : L0Tiers[i] = Contents(sst[l0[i]])
    BY DEF L0Tiers
  <2>2. \A i \in DOMAIN imm : ImmTiers[i] = mems[imm[i]]
    BY DEF ImmTiers
  <2> QED
    BY <1>0, <1>1, <1>2, <2>1, <2>2 DEF Chain, Across
<1>6. ASSUME NEW n \in 1 .. MaxLevels
      PROVE  /\ \A v \in LevelTiers[n] : \E t \in TierIds(n) : v \in Contents(sst[t])
             /\ n \in DOMAIN LevelTiers
  BY <1>1, <1>2, <1>6 DEF LevelTiers
<1>7. /\ Across(MemTier, LevelTiers) /\ Across(ImmTiers, LevelTiers)
      /\ Across(L0Tiers, LevelTiers)
  <2>1. \A m \in MemIds, n \in 1 .. MaxLevels : TierAbove(mems[m], LevelTiers[n])
    BY <1>0, <1>2, <1>6 DEF Newer, TierAbove
  <2>2. \A t \in TierIds(0), n \in 1 .. MaxLevels : TierAbove(Contents(sst[t]), LevelTiers[n])
    BY <1>0, <1>2, <1>6 DEF Newer, TierAbove
  <2> QED
    BY <1>1, <1>2, <2>1, <2>2 DEF Across, ImmTiers, L0Tiers
<1>8. Chain(LevelTiers)
  BY <1>0, <1>1, <1>2, <1>6 DEF Chain, Newer, TierAbove
<1>9. /\ MemTier \o ImmTiers \in Seq(SUBSET Entry)
      /\ (MemTier \o ImmTiers) \o L0Tiers \in Seq(SUBSET Entry)
  BY <1>1
<1>10. Chain((MemTier \o ImmTiers) \o L0Tiers)
  BY <1>1, <1>3, <1>4, <1>5, <1>9, ChainConcat, AcrossConcat
<1>11. Across((MemTier \o ImmTiers) \o L0Tiers, LevelTiers)
  BY <1>1, <1>7, <1>9, AcrossConcat
<1>12. Chain(((MemTier \o ImmTiers) \o L0Tiers) \o LevelTiers)
  BY <1>1, <1>8, <1>9, <1>10, <1>11, ChainConcat
<1>13. Tiers = ((MemTier \o ImmTiers) \o L0Tiers) \o LevelTiers
  BY DEF Tiers, MemTier, ImmTiers, L0Tiers, LevelTiers
<1> QED
  BY <1>12, <1>13

(***************************************************************************)
(* Memtable, immutable memtables newest first, L0 newest first, L1 and so  *)
(* on: an upper tier holds only younger versions (compact.go:16,           *)
(* compaction.go:15-16).  A compaction may be overtaken by flushes, since  *)
(* what it leaves in L0 is younger than what it took; a recovery finds the *)
(* same order by the ids of the memtables.  Where the process may crash,   *)
(* appending to MANIFEST must not fail: a flush that is not recorded       *)
(* leaves a memtable that the next Open would put above younger tables.    *)
(***************************************************************************)
THEOREM LsmTierOrder ==
    ASSUME ~ Reconfigure, ~ Crashes \/ "manifest" \notin Faults
    PROVE  Spec => []TierOrder
<1>1. Types /\ Filling /\ Ordered => TierOrder
  BY TiersChain DEF TierOrder, Chain, Filling
<1> QED
  BY <1>1, TypesAlways, OrderedAlways, PTL

-----------------------------------------------------------------------------
Precedes(vs, ws) == \A v \in vs, w \in ws : Before(v, w)

\* The tables of s, one after the other, are one sorted run.
RunOf(s) == \A i, j \in DOMAIN s : i < j => Precedes(Table(s[i]), Table(s[j]))

\* A file or a memtable has one version per key and timestamp.
Unique ==
    /\ \A i \in Id : /\ OneVersionPerTs(mems[i])
                     /\ OneVersionPerTs(Contents(wal[i]))
                     /\ OneVersionPerTs(Table(i))
    /\ OneVersionPerTs(comp.rest)

Runs == \A n \in 1 .. MaxLevels : RunOf(NowLevels[n])

\* What a merge has written is a run, and precedes what it has not.
MergeRun ==
    comp.pc = "merge" =>
      /\ RunOf(comp.new)
      /\ \A i \in IdsIn(comp.new) : Precedes(Table(i), comp.rest)

Sorted == Unique /\ Runs /\ MergeRun

\* The order of encoded keys is strict and, on one version per timestamp,
\* total.
LEMMA BeforeOrder ==
    ASSUME NEW vs \in SUBSET Entry, OneVersionPerTs(vs)
    PROVE  /\ \A v, w \in vs : v = w \/ Before(v, w) \/ Before(w, v)
           /\ \A v, w \in vs : Before(v, w) => ~ (v.key = w.key /\ v.ts = w.ts)
           /\ \A u, v, w \in vs : Before(u, v) /\ Before(v, w) => Before(u, w)
<1>1. \A v \in vs : v.key \in Nat /\ v.ts \in Nat
  <2>1. \A v \in Entry : v.key \in Key /\ v.ts \in 1 .. MaxTs
    BY DEF Entry
  <2>2. \A v \in vs : v \in Entry
    OBVIOUS
  <2>3. Key \subseteq Nat /\ 1 .. MaxTs \subseteq Nat
    BY LsmAssumption
  <2> QED
    BY <2>1, <2>2, <2>3
<1> QED
  BY <1>1 DEF Before, OneVersionPerTs

\* The next table takes the first versions of the merge.
LEMMA NextTablePrecedes ==
    ASSUME NEW rest \in Content, OneVersionPerTs(rest)
    PROVE  /\ NextTable(rest) \subseteq rest
           /\ Precedes(NextTable(rest), rest \ NextTable(rest))
<1> DEFINE B(x) == {y \in rest : Before(y, x)}
<1>1. rest \in SUBSET Entry /\ IsFiniteSet(rest)
  BY DEF Content
<1> SUFFICES ASSUME NEW v \in NextTable(rest), NEW w \in rest \ NextTable(rest), ~ Before(v, w)
             PROVE  FALSE
  BY DEF Precedes, NextTable
<1>2. /\ v \in rest /\ w \in rest /\ v # w
      /\ Cardinality(B(v)) < TableSize /\ ~ (Cardinality(B(w)) < TableSize)
  BY DEF NextTable
<1>3. Before(w, v)
  BY <1>1, <1>2, BeforeOrder
<1>4. B(w) \subseteq B(v)
  BY <1>1, <1>2, <1>3, BeforeOrder
<1>5. IsFiniteSet(B(v)) /\ IsFiniteSet(B(w))
  BY <1>1, FS_Subset
<1>6. /\ Cardinality(B(w)) <= Cardinality(B(v))
      /\ Cardinality(B(w)) \in Nat /\ Cardinality(B(v)) \in Nat
  BY <1>4, <1>5, FS_Subset, FS_CardinalityType
<1> QED
  BY <1>2, <1>6, LsmAssumption

\* No two tables of the layout share a version.
LEMMA TablesUnique ==
    ASSUME Types, Ordered, Unique, Runs, Loaded
    PROVE  OneVersionPerTs(UNION {Table(t) : t \in TableIds})
<1> SUFFICES ASSUME NEW x \in TableIds, NEW y \in TableIds, NEW v \in Table(x), NEW w \in Table(y),
                    v.key = w.key, v.ts = w.ts
             PROVE  v = w
  BY DEF OneVersionPerTs
<1>1. /\ \A n \in TierNo : Tier(n) = TierIds(n) /\ NowL0 = l0 /\ NowLevels = levels
      /\ l0 \in Seq(Id) /\ levels \in Levels
  BY NowLoaded DEF Types, TreeTypes
<1>2. PICK m \in TierNo : x \in Tier(m)
  BY NowLoaded
<1>3. PICK n \in TierNo : y \in Tier(n)
  BY NowLoaded
<1>4. x \in Id /\ y \in Id /\ v.ts \in Nat /\ w.ts \in Nat /\ v.key \in Nat /\ w.key \in Nat
  <2>1. x \in Id /\ y \in Id
    BY BufferedNat
  <2> QED
    BY <2>1, BufferedNat, LsmAssumption DEF Entry
<1>5. CASE x = y
  BY <1>4, <1>5 DEF Unique, OneVersionPerTs
<1>6. CASE m # n
  <2>1. m < n \/ n < m
    BY <1>6 DEF TierNo
  <2> QED
    BY <1>2, <1>3, <1>4, <2>1 DEF Ordered, TiersOrdered, Newer
<1>7. CASE m = n /\ x # y
  <2> DEFINE s == IF m = 0 THEN l0 ELSE levels[m]
  <2>1. s \in Seq(Id) /\ Tier(m) = IdsIn(s)
    BY <1>1, TierNumbers DEF TierIds, Levels
  <2>2. m = 0 => \A i, j \in DOMAIN s : i < j => Newer(Table(s[i]), Table(s[j]))
    BY <1>1 DEF Ordered, L0Ordered
  <2>3. m # 0 => \A i, j \in DOMAIN s : i < j => Precedes(Table(s[i]), Table(s[j]))
    BY <1>1, TierNumbers DEF Runs, RunOf
  <2> HIDE DEF s
  <2>4. PICK i \in DOMAIN s, j \in DOMAIN s : x = s[i] /\ y = s[j]
    BY <1>2, <1>3, <1>7, <2>1 DEF IdsIn
  <2>5. i < j \/ j < i
    BY <1>7, <2>1, <2>4
  <2>6. /\ ~ (v.ts > w.ts) /\ ~ (w.ts > v.ts) /\ ~ Before(v, w) /\ ~ Before(w, v)
    BY <1>4 DEF Before
  <2> QED
    BY <2>2, <2>3, <2>4, <2>5, <2>6 DEF Newer, Precedes
<1> QED
  BY <1>5, <1>6, <1>7

\* An entry replaces what it repeats.
LEMMA PutUnique ==
    ASSUME NEW vs, OneVersionPerTs(vs), NEW v
    PROVE  OneVersionPerTs(Put(vs, v))
  BY DEF OneVersionPerTs, Put

\* What stands of a batch, on top of older versions.
LEMMA ApplyUnique ==
    ASSUME NEW vs, OneVersionPerTs(vs), NEW batch \in Seq(Entry), NEW t \in Nat,
           \A v \in vs : v.ts < t, \A v \in IdsIn(batch) : v.ts = t
    PROVE  OneVersionPerTs(vs \cup Standing(batch))
<1>1. \A v \in Standing(batch) : v.ts = t
  BY DEF Standing, IdsIn
<1>2. \A v, w \in Standing(batch) : v.key = w.key => v = w
  <2> SUFFICES ASSUME NEW v \in Standing(batch), NEW w \in Standing(batch), v.key = w.key
               PROVE  v = w
    OBVIOUS
  <2>1. PICK i \in DOMAIN batch :
          v = batch[i] /\ \A j \in DOMAIN batch : i < j => batch[j].key # batch[i].key
    BY DEF Standing
  <2>2. PICK k \in DOMAIN batch :
          w = batch[k] /\ \A j \in DOMAIN batch : k < j => batch[j].key # batch[k].key
    BY DEF Standing
  <2>3. i = k \/ i < k \/ k < i
    OBVIOUS
  <2> QED
    BY <2>1, <2>2, <2>3
<1>3. \A v \in vs, w \in Standing(batch) : v.ts # w.ts
  BY <1>1
<1> QED
  BY <1>1, <1>2, <1>3 DEF OneVersionPerTs

\* Part of what has one version per timestamp does too.
LEMMA PartUnique ==
    ASSUME NEW vs, OneVersionPerTs(vs), NEW ws, ws \subseteq vs
    PROVE  OneVersionPerTs(ws)
  BY DEF OneVersionPerTs

\* Logs keep one version per key and timestamp.
LEMMA WalUniqueStep ==
    ASSUME Types, Unique, [Next]_vars, NEW i \in Id
    PROVE  OneVersionPerTs(Contents(wal'[i]))
<1>0. /\ wal \in [Id -> Content \cup {NoFile}] /\ OneVersionPerTs(Contents(wal[i]))
      /\ OneVersionPerTs({}) /\ mem \in Id
  BY DEF Types, DiskTypes, TreeTypes, Unique, OneVersionPerTs
<1>1. CASE \E s \in Strategies : RecoverOpen(s)
  <2>1. wal' = [j \in Id |-> IF j = mem' THEN {}
                             ELSE IF j \in manifest.mems THEN Contents(wal[j]) ELSE wal[j]]
    BY <1>1, RecoverOpenTree
  <2>2. Contents(wal'[i]) = {} \/ Contents(wal'[i]) = Contents(wal[i])
    BY <2>1, NoContents DEF Contents
  <2> QED
    BY <1>0, <2>2
<1>2. CASE WalAppend
  <2>1. wal' = [wal EXCEPT ![mem] = Put(Contents(wal[mem]), mu.batch[mu.logged + 1])]
    BY <1>2 DEF WalAppend
  <2>2. CASE i = mem
    <3>1. wal'[i] = Put(Contents(wal[i]), mu.batch[mu.logged + 1])
      BY <1>0, <2>1, <2>2
    <3>2. OneVersionPerTs(wal'[i])
      BY <1>0, <3>1, PutUnique
    <3> QED
      BY <1>0, <3>2 DEF Contents
  <2>3. CASE i # mem
    BY <1>0, <2>1, <2>3
  <2> QED
    BY <2>2, <2>3
<1>3. CASE UNCHANGED wal
  BY <1>0, <1>3
<1>4. CASE Loaded /\ Loaded' /\ ~ WalAppend
  <2>1. Contents(wal'[i]) \subseteq Contents(wal[i])
    BY <1>4, LogsNotFilled
  <2> QED
    BY <1>0, <2>1, PartUnique
<1>5. (\E who \in Freezer : FreezeCreate(who)) \/ FlushRemove \/ DeleteOrphan => Loaded /\ Loaded'
  <2>1. (\E who \in Freezer : FreezeCreate(who)) \/ FlushRemove => up = "up" /\ up' = up
    BY Busy DEF FreezeCreate, FlushRemove, Free, Running
  <2>2. DeleteOrphan => up = "opened" /\ up' = up
    BY DEF DeleteOrphan
  <2> QED
    BY <2>1, <2>2 DEF Loaded
<1> QED
  BY <1>1, <1>2, <1>3, <1>4, <1>5, Frames

\* Memtables too.
LEMMA MemsUniqueStep ==
    ASSUME Types, Structure, Dated, Settled, Unique, [Next]_vars, NEW i \in Id
    PROVE  OneVersionPerTs(mems'[i])
<1>0. /\ mems \in [Id -> Content] /\ OneVersionPerTs(mems[i])
      /\ OneVersionPerTs({}) /\ mem \in Id /\ ts \in Nat
  BY DEF Types, TreeTypes, CounterTypes, Unique, OneVersionPerTs
<1>1. CASE \E s \in Strategies : RecoverOpen(s)
  <2>1. mems' = [j \in Id |-> IF j \in Unflushed THEN wal[j] ELSE {}]
    BY <1>1, RecoverOpenTree
  <2>2. CASE i \in Unflushed
    <3>1. mems'[i] = Contents(wal[i])
      BY <2>1, <2>2, UnflushedType
    <3> QED
      BY <3>1 DEF Unique
  <2>3. CASE i \notin Unflushed
    BY <1>0, <2>1, <2>3
  <2> QED
    BY <2>2, <2>3
<1>2. CASE WriteApply
  <2>1. /\ mems' = [mems EXCEPT ![mem] = mems[mem] \cup Standing(mu.batch)]
        /\ mu.pc = "log" /\ mu.batch \in Seq(Entry) /\ Loaded
    BY <1>2, Busy DEF WriteApply, Types, WriterTypes
  <2>2. /\ \A v \in mems[mem] : v.ts < ts
        /\ \A v \in IdsIn(mu.batch) : v.ts = ts
    BY <2>1 DEF Settled, Dated
  <2>3. OneVersionPerTs(mems[mem])
    BY <1>0 DEF Unique
  <2>4. OneVersionPerTs(mems[mem] \cup Standing(mu.batch))
    BY <1>0, <2>1, <2>2, <2>3, ApplyUnique
  <2> QED
    BY <1>0, <2>1, <2>4
<1>3. CASE FlushSwap
  <2>1. Oldest \in Id /\ mems' = [mems EXCEPT ![Oldest] = {}]
    BY <1>3, FlushEffect DEF FlushSwap
  <2> QED
    BY <1>0, <2>1
<1>4. CASE Crash
  BY <1>0, <1>4, CrashEffect
<1> QED
  BY <1>0, <1>1, <1>2, <1>3, <1>4, Frames, StepsOf

\* Tables too.
LEMMA SstUniqueStep ==
    ASSUME Types, Unique, [Next]_vars, NEW i \in Id
    PROVE  OneVersionPerTs(Table(i)')
<1>0. /\ sst \in [Id -> Content \cup {NoFile}] /\ OneVersionPerTs(Contents(sst[i]))
      /\ OneVersionPerTs({}) /\ Contents(NoFile) = {}
      /\ mems[i] \in Content /\ OneVersionPerTs(mems[i])
  BY NoContents DEF Types, DiskTypes, TreeTypes, Unique, OneVersionPerTs, Table
<1>1. CASE FlushBuild
  <2>1. sst' = [sst EXCEPT ![Oldest] = mems[Oldest]]
    BY <1>1 DEF FlushBuild
  <2> QED
    BY <1>0, <2>1, NotAFile DEF Table, Contents
<1>2. CASE CompactBuild
  <2>1. sst' = [sst EXCEPT ![nextID] = NextTable(comp.rest)]
    BY <1>2 DEF CompactBuild
  <2>2. NextTable(comp.rest) \subseteq comp.rest /\ OneVersionPerTs(comp.rest)
    BY DEF NextTable, Unique
  <2>3. OneVersionPerTs(NextTable(comp.rest)) /\ OneVersionPerTs(Contents(NextTable(comp.rest)))
    BY <1>0, <2>2, PartUnique DEF Contents
  <2> QED
    BY <1>0, <2>1, <2>3 DEF Table
<1>3. ASSUME NEW o, sst' = [sst EXCEPT ![o] = NoFile]
      PROVE  OneVersionPerTs(Table(i)')
  BY <1>0, <1>3 DEF Table
<1>4. CASE CompactDelete
  BY <1>3, <1>4 DEF CompactDelete
<1>5. CASE DeleteOrphan
  <2> DEFINE o == CHOOSE o \in Orphans : \A j \in Orphans : o <= j
  <2>1. sst' = [sst EXCEPT ![o] = NoFile] \/ sst' = sst
    BY <1>5 DEF DeleteOrphan
  <2> HIDE DEF o
  <2> QED
    BY <1>0, <1>3, <2>1 DEF Table
<1>6. CASE UNCHANGED sst
  BY <1>0, <1>6 DEF Table
<1> QED
  BY <1>1, <1>2, <1>4, <1>5, <1>6, Frames

\* So does what a merge has left to write.
LEMMA RestUniqueStep ==
    ASSUME Types, Structure, Ordered, Unique, Runs, [Next]_vars
    PROVE  OneVersionPerTs(comp'.rest)
<1>0. OneVersionPerTs(comp.rest) /\ OneVersionPerTs({}) /\ NoComp.rest = {}
  BY DEF Unique, OneVersionPerTs, NoComp
<1>1. ASSUME NEW w \in 0 .. ts, CompactPick(w)
      PROVE  OneVersionPerTs(comp'.rest)
  <2>1. Loaded
    BY <1>1 DEF CompactPick, Free, Running, Loaded
  <2>2. comp'.rest \subseteq UNION {Table(t) : t \in TableIds}
    BY <1>1, PickInputs DEF Table
  <2> QED
    BY <2>1, <2>2, TablesUnique, PartUnique
<1>2. comp \in [pc : {"idle", "merge", "delete"}, task : Task(Id) \cup {NoTask},
                rest : Content, new : Seq(Id), old : Seq(Id)]
  BY DEF Types, CompTypes
<1>3. CASE CompactBuild
  <2>1. comp'.rest \subseteq comp.rest
    BY <1>2, <1>3 DEF CompactBuild
  <2> QED
    BY <1>0, <2>1, PartUnique
<1>4. CASE CompactDelete
  <2>1. comp'.rest = comp.rest \/ comp'.rest = {}
    BY <1>0, <1>2, <1>4 DEF CompactDelete
  <2> QED
    BY <1>0, <2>1
<1>5. CASE CompactSwap
  <2>1. comp'.rest = {}
    BY <1>5 DEF CompactSwap, NoComp
  <2> QED
    BY <1>0, <2>1
<1>6. CompactBuildFails \/ CompactRecordFails \/ Crash => comp' = NoComp
  BY DEF CompactBuildFails, CompactRecordFails, Crash
<1> QED
  BY <1>0, <1>1, <1>3, <1>4, <1>5, <1>6, Frames

\* Unique is inductive, given the others.
LEMMA UniqueStep ==
    ASSUME Types, Structure, Dated, Settled, Ordered, Unique, Runs, [Next]_vars
    PROVE  Unique'
<1>1. \A i \in Id : OneVersionPerTs(Contents(wal'[i]))
  BY WalUniqueStep
<1>2. \A i \in Id : OneVersionPerTs(mems'[i])
  BY MemsUniqueStep
<1>3. \A i \in Id : OneVersionPerTs(Table(i)')
  BY SstUniqueStep
<1>4. OneVersionPerTs(comp'.rest)
  BY RestUniqueStep
<1> QED
  BY <1>1, <1>2, <1>3, <1>4 DEF Unique

\* A run of which some tables are removed is a run.
LEMMA RunKept ==
    ASSUME NEW s \in Seq(Id), NEW drop, RunOf(s)
    PROVE  RunOf(RemoveIDs(s, drop))
<1> DEFINE r == RemoveIDs(s, drop)
<1>1. r \in Seq(Id) /\ InOrder(r, s)
  BY RemoveIDsResult
<1> HIDE DEF r
<1>2. DOMAIN r = 1 .. Len(r) /\ DOMAIN s = 1 .. Len(s)
  BY <1>1
<1> SUFFICES ASSUME NEW i \in DOMAIN r, NEW j \in DOMAIN r, i < j
             PROVE  Precedes(Table(r[i]), Table(r[j]))
  BY DEF RunOf, r
<1>3. PICK p \in 1 .. Len(s), q \in 1 .. Len(s) : p < q /\ r[i] = s[p] /\ r[j] = s[q]
  <2>1. i \in 1 .. Len(r) /\ j \in 1 .. Len(r)
    BY <1>2
  <2> QED
    BY <1>1, <2>1, Zenon DEF InOrder
<1>4. Precedes(Table(s[p]), Table(s[q]))
  BY <1>2, <1>3 DEF RunOf
<1> QED
  BY <1>3, <1>4

\* Runs are kept: a swap puts one in, or takes whole tables out.
LEMMA RunsStep ==
    ASSUME Types, Structure, Falling, Synced, Runs, MergeRun, [Next]_vars
    PROVE  Runs'
<1> SUFFICES ASSUME NEW n \in 1 .. MaxLevels
             PROVE  RunOf(NowLevels[n])'
  BY DEF Runs
<1>0. RunOf(NowLevels[n]) /\ NowLevels[n] \in Seq(Id)
  BY NowLoaded DEF Runs, Levels
<1>1. CASE TiersStay
  <2>1. NowLevels' = NowLevels /\ \A t \in IdsIn(NowLevels[n]) : Table(t)' = Table(t)
    BY <1>1, TierNumbers DEF TiersStay, Tier
  <2>2. \A i \in DOMAIN NowLevels[n] : Table(NowLevels[n][i])' = Table(NowLevels[n][i])
    BY <2>1 DEF IdsIn
  <2> QED
    BY <1>0, <2>1, <2>2 DEF RunOf
<1>2. CASE FlushSwap
  <2>1. NowLevels' = levels /\ NowLevels = levels /\ sst' = sst
    BY <1>2, FlushedTable, NowLoaded
  <2> QED
    BY <1>0, <2>1 DEF RunOf, Table
<1>3. CASE SwapIn
  <2>1. /\ NowLevels = levels /\ NowLevels' = levels' /\ sst' = sst
        /\ n = comp.task.lowerLevel => levels'[n] = comp.new
        /\ n # comp.task.lowerLevel =>
             \/ levels'[n] = levels[n] \/ levels'[n] = <<>>
             \/ levels'[n] = RemoveIDs(levels[n], comp.task.upperIDs)
        /\ comp.pc = "merge"
    BY <1>3, SwapSequences, NowLoaded
  <2>2. RunOf(levels'[n])
    <3>1. RunOf(comp.new)
      BY <2>1 DEF MergeRun
    <3>2. RunOf(<<>>)
      BY DEF RunOf
    <3>3. RunOf(RemoveIDs(levels[n], comp.task.upperIDs))
      BY <1>0, <2>1, RunKept
    <3> QED
      BY <1>0, <2>1, <3>1, <3>2, <3>3
  <2> QED
    BY <2>1, <2>2 DEF RunOf, Table
<1> QED
  BY <1>1, <1>2, <1>3, TierSteps

\* Each table a merge writes follows the ones before it.
LEMMA BuildRun ==
    ASSUME Types, Structure, Unique, MergeRun, [Next]_vars, CompactBuild
    PROVE  MergeRun'
<1>1. /\ comp.pc = "merge" /\ Loaded
      /\ comp'.rest = comp.rest \ NextTable(comp.rest)
      /\ comp'.new = Append(comp.new, nextID) /\ nextID \in Id
      /\ sst' = [sst EXCEPT ![nextID] = NextTable(comp.rest)]
      /\ sst \in [Id -> Content \cup {NoFile}]
      /\ comp.new \in Seq(Id) /\ comp.rest \in Content
  BY IdNext, Busy DEF CompactBuild, Types, DiskTypes, CompTypes
<1>2. /\ NextTable(comp.rest) \subseteq comp.rest
      /\ Precedes(NextTable(comp.rest), comp.rest \ NextTable(comp.rest))
  BY <1>1, NextTablePrecedes DEF Unique
<1>8. PICK id \in Id : id = nextID
  BY <1>1
<1>9. PICK new \in Seq(Id) : new = comp'.new
  <2>1. Append(comp.new, nextID) \in Seq(Id)
    BY <1>1
  <2> QED
    BY <1>1, <2>1
<1>3. Table(id)' = NextTable(comp.rest)
  <2>1. sst'[id] = NextTable(comp.rest)
    BY <1>1, <1>8, <1>9
  <2>2. NextTable(comp.rest) # NoFile
    BY <1>1, <1>2, NoFileAssumption DEF Content
  <2> QED
    BY <2>1, <2>2 DEF Table, Contents
<1>4. \A i \in IdsIn(comp.new) : Table(i)' = Table(i)
  BY <1>1, TableStays
<1>5. RunOf(comp.new) /\ \A i \in IdsIn(comp.new) : Precedes(Table(i), comp.rest)
  BY <1>1 DEF MergeRun
<1>6. \A i \in IdsIn(new) : Precedes(Table(i)', comp'.rest)
  <2>1. IdsIn(new) = IdsIn(comp.new) \cup {id}
    BY <1>1, <1>8, <1>9, AppendIds
  <2> QED
    BY <1>1, <1>2, <1>3, <1>4, <1>5, <2>1 DEF Precedes
<1>7. \A i, j \in DOMAIN new : i < j => Precedes(Table(new[i])', Table(new[j])')
  <2> SUFFICES ASSUME NEW i \in DOMAIN new, NEW j \in DOMAIN new, i < j
               PROVE  Precedes(Table(new[i])', Table(new[j])')
    OBVIOUS
  <2>1. /\ i \in DOMAIN comp.new /\ new[i] = comp.new[i]
        /\ \/ j \in DOMAIN comp.new /\ new[j] = comp.new[j]
           \/ new[j] = id
    BY <1>1, <1>8, <1>9
  <2>2. comp.new[i] \in IdsIn(comp.new)
    BY <2>1 DEF IdsIn
  <2>3. CASE j \in DOMAIN comp.new /\ new[j] = comp.new[j]
    <3>1. comp.new[j] \in IdsIn(comp.new)
      BY <2>3 DEF IdsIn
    <3>2. Precedes(Table(comp.new[i]), Table(comp.new[j]))
      BY <1>5, <2>1, <2>3 DEF RunOf
    <3> QED
      BY <1>4, <2>1, <2>2, <2>3, <3>1, <3>2
  <2>4. CASE new[j] = id
    <3>1. Precedes(Table(comp.new[i]), comp.rest)
      BY <1>5, <2>2
    <3>2. Precedes(Table(comp.new[i]), NextTable(comp.rest))
      BY <1>2, <3>1 DEF Precedes
    <3> QED
      BY <1>3, <1>4, <2>1, <2>2, <2>4, <3>2
  <2> QED
    BY <2>1, <2>3, <2>4
<1> QED
  BY <1>8, <1>9, <1>6, <1>7 DEF MergeRun, RunOf

\* MergeRun is inductive, given the others.
LEMMA MergeRunStep ==
    ASSUME Types, Structure, Unique, MergeRun, [Next]_vars
    PROVE  MergeRun'
<1> SUFFICES ASSUME comp'.pc = "merge"
             PROVE  MergeRun'
  BY DEF MergeRun
<1>0. /\ ~ Crash /\ ~ CompactBuildFails /\ ~ CompactSwap /\ ~ CompactRecordFails
      /\ CompactDelete => UNCHANGED comp
  <2>1. ~ Crash /\ ~ CompactBuildFails /\ ~ CompactRecordFails
    BY DEF Crash, CompactBuildFails, CompactRecordFails, NoComp
  <2>2. ~ CompactSwap
    BY DEF CompactSwap, NoComp
  <2>3. comp \in [pc : {"idle", "merge", "delete"}, task : Task(Id) \cup {NoTask},
                   rest : Content, new : Seq(Id), old : Seq(Id)]
    BY DEF Types, CompTypes
  <2>4. ~ CompactDelete
    <3>1. comp.pc = "delete" => [comp EXCEPT !.old = Tail(@)].pc = "delete"
      BY <2>3
    <3>2. NoComp.pc = "idle"
      BY DEF NoComp
    <3> QED
      BY <3>1, <3>2 DEF CompactDelete
  <2> QED
    BY <2>1, <2>2, <2>4
<1>1. ASSUME NEW w \in 0 .. ts, CompactPick(w)
      PROVE  MergeRun'
  <2>1. comp'.new = <<>>
    BY <1>1 DEF CompactPick
  <2> QED
    BY <2>1 DEF MergeRun, RunOf, IdsIn
<1>2. CASE CompactBuild
  BY <1>2, BuildRun
<1>3. CASE UNCHANGED comp
  <2>1. comp.pc = "merge" /\ Loaded
    BY <1>3, Busy
  <2>2. \A i \in IdsIn(comp.new) : Table(i)' = Table(i)
    BY <2>1, TableStays
  <2>3. RunOf(comp.new) /\ \A i \in IdsIn(comp.new) : Precedes(Table(i), comp.rest)
    BY <2>1 DEF MergeRun
  <2>4. \A i \in DOMAIN comp.new : comp.new[i] \in IdsIn(comp.new)
    BY DEF IdsIn
  <2>5. RunOf(comp.new)'
    BY <1>3, <2>2, <2>3, <2>4 DEF RunOf
  <2> QED
    BY <1>3, <2>2, <2>3, <2>5 DEF MergeRun
<1> QED
  BY <1>0, <1>1, <1>2, <1>3, Frames

\* All of it holds when an empty directory has been opened.
LEMMA SortedInit == Init => Sorted
<1> SUFFICES ASSUME Init
             PROVE  Sorted
  OBVIOUS
<1>1. /\ wal = [i \in Id |-> IF i = 0 THEN {} ELSE NoFile] /\ sst = [i \in Id |-> NoFile]
      /\ mems = [i \in Id |-> {}] /\ NowLevels = NoLevels /\ comp = NoComp
  BY DEF Init, NowLevels, Loaded
<1>2. OneVersionPerTs({})
  BY DEF OneVersionPerTs
<1>3. Unique
  <2>1. \A i \in Id : mems[i] = {} /\ Contents(wal[i]) = {} /\ Table(i) = {}
    BY <1>1, NoContents DEF Table
  <2>2. comp.rest = {}
    BY <1>1 DEF NoComp
  <2> QED
    BY <1>2, <2>1, <2>2 DEF Unique
<1>4. Runs
  BY <1>1 DEF Runs, RunOf, NoLevels
<1>5. MergeRun
  BY <1>1 DEF MergeRun, NoComp
<1> QED
  BY <1>3, <1>4, <1>5 DEF Sorted

\* A closed engine has no layout in memory.
Unloaded == Loaded \/ levels = NoLevels

LEMMA UnloadedAlways == Spec => []Unloaded
<1>1. Init => Unloaded
  BY DEF Init, Unloaded
<1>2. Types /\ Unloaded /\ [Next]_vars => Unloaded'
  <2> SUFFICES ASSUME Types, Unloaded, [Next]_vars
               PROVE  Unloaded'
    OBVIOUS
  <2>1. Crash => levels' = NoLevels
    BY DEF Crash, NoTree
  <2>2. UNCHANGED vars => Unloaded'
    BY DEF vars, Unloaded, Loaded
  <2>3. (\E s \in Strategies : RecoverOpen(s)) => Loaded'
    BY DEF RecoverOpen, Loaded
  <2>4. Loaded /\ ~ Crash /\ (\A s \in Strategies : ~ RecoverOpen(s)) => Loaded'
    BY Frames DEF Loaded, RecoverRecord, Serve
  <2> QED
    BY <2>1, <2>2, <2>3, <2>4, ClosedSteps DEF Unloaded
<1> QED
  BY <1>1, <1>2, TypesAlways, PTL DEF Spec

\* Files and levels are sorted in every reachable state.
LEMMA SortedAlways ==
    ASSUME ~ Reconfigure, ~ Crashes \/ "manifest" \notin Faults
    PROVE  Spec => []Sorted
<1>1. Init => Sorted
  BY SortedInit
<1>2. /\ Types /\ Structure /\ Dated /\ Synced
      /\ Filling /\ Ordered /\ MergeBelow /\ Sorted /\ [Next]_vars
      => Sorted'
  <2> SUFFICES ASSUME Types, Structure, Dated, Synced, Filling, Ordered, MergeBelow, Sorted,
                      [Next]_vars
               PROVE  Sorted'
    OBVIOUS
  <2>1. Falling /\ Settled /\ Unique /\ Runs /\ MergeRun
    BY DEF Filling, Sorted
  <2>2. Unique'
    BY <2>1, UniqueStep
  <2>3. Runs'
    BY <2>1, RunsStep
  <2>4. MergeRun'
    BY <2>1, MergeRunStep
  <2> QED
    BY <2>2, <2>3, <2>4 DEF Sorted
<1>3. Spec => [](Types /\ Structure /\ Dated /\ Synced)
  BY TypesAlways, StructureAlways, DatedAlways, SyncedAlways, PTL
<1>4. Spec => [](Filling /\ Ordered /\ MergeBelow)
  BY OrderedAlways
<1> QED
  BY <1>1, <1>2, <1>3, <1>4, PTL DEF Spec

(***************************************************************************)
(* Each level below L0 is one sorted run: its tables are key-sorted and    *)
(* do not overlap (storage.go:49), so that a read may concatenate them in  *)
(* their order (storage.go:320-322, iterator/concat.go:10-11). The merge   *)
(* writes its output in key order and cuts it into tables, no version      *)
(* occurs in two tables of the layout, and what a later task takes from a  *)
(* level leaves the others in their order.                                 *)
(***************************************************************************)
THEOREM LsmSortedRuns ==
    ASSUME ~ Reconfigure, ~ Crashes \/ "manifest" \notin Faults
    PROVE  Spec => []SortedRuns
<1>1. Types /\ Runs /\ Unloaded => SortedRuns
  <2> SUFFICES ASSUME Types, Runs, Unloaded,
                      NEW n \in DOMAIN levels, NEW i \in DOMAIN levels[n],
                      NEW j \in DOMAIN levels[n], i < j,
                      NEW v \in Contents(sst[levels[n][i]]), NEW w \in Contents(sst[levels[n][j]])
               PROVE  Before(v, w)
    BY DEF SortedRuns
  <2>1. n \in 1 .. MaxLevels
    BY DEF Types, TreeTypes, Levels
  <2>2. Loaded
    BY <2>1 DEF Unloaded, NoLevels
  <2>3. RunOf(levels[n])
    BY <2>1, <2>2, NowLoaded DEF Runs
  <2> QED
    BY <2>3 DEF RunOf, Precedes, Table
<1>2. Sorted => Runs
  BY DEF Sorted
<1> QED
  BY <1>1, <1>2, TypesAlways, SortedAlways, UnloadedAlways, PTL

-----------------------------------------------------------------------------
(* Reads, and the versioned store. *)

\* Of the first n entries of a batch, the last one for each key.
StandingOf(batch, n) ==
    {batch[i] : i \in {i \in 1 .. n : \A j \in 1 .. n : i < j => batch[j].key # batch[i].key}}

\* What the log holds of the batch being written.
Begun(m) == IF mu.pc = "log" /\ m = mem THEN StandingOf(mu.batch, mu.logged) ELSE {}

\* The log of a memtable holds what the memtable holds, and besides only what
\* may turn up after a crash.
Written ==
    /\ up = "up" => \A m \in MemIds :
         /\ mems[m] \cup Begun(m) \subseteq Contents(wal[m])
         /\ Contents(wal[m]) \subseteq mems[m] \cup Begun(m) \cup torn
    /\ Loaded /\ up # "up" =>
         /\ \A m \in MemIds : mems[m] = Contents(wal[m])
         /\ mems[mem] = {}
    /\ mu.pc # "log" => IdsIn(mu.batch) = {}
    /\ mu.logged <= Len(mu.batch)

\* A batch only hands over the lock when it is done.
LEMMA BatchStep ==
    ASSUME Types, mu.pc # "log" => IdsIn(mu.batch) = {}, [Next]_vars, mu'.pc # "log"
    PROVE  IdsIn(mu'.batch) = {}
<1>0. /\ mu \in [pc : {"free", "log", "freeze", "flush", "flushed"}, batch : Seq(Entry),
                 logged : Nat, id : Id]
      /\ IdsIn(Unlocked.batch) = {} /\ IdsIn(<<>>) = {}
  BY DEF Types, WriterTypes, IdsIn, Unlocked
<1>1. ASSUME NEW b \in Batches
      PROVE  ~ WriteStart(b)
  BY DEF WriteStart, Unlocked
<1>2. ~ WalAppend
  BY <1>0 DEF WalAppend
<1>3. WalAppendFails \/ WriteApply \/ NewMemtable \/ FlushRecordFails \/ FlushRemove \/ Crash
      => mu' = Unlocked
  BY DEF WalAppendFails, WriteApply, NewMemtable, FlushRecordFails, FlushRemove, Crash, Release
<1>4. (\E who \in Freezer : FreezeCreate(who)) \/ FlushBuild => mu'.batch = <<>>
  BY DEF FreezeCreate, FlushBuild, Unlocked
<1>5. FlushRecord => mu.pc = "flush" /\ mu'.batch = mu.batch
  BY <1>0 DEF FlushRecord, FlushSwap
<1>6. CASE UNCHANGED mu
  BY <1>6
<1> QED
  BY <1>0, <1>1, <1>2, <1>3, <1>4, <1>5, <1>6, Frames, StepsOf

\* No more of a batch is logged than it has.
LEMMA LoggedPart ==
    ASSUME Types, mu.logged <= Len(mu.batch), [Next]_vars
    PROVE  mu'.logged <= Len(mu'.batch)
<1>0. /\ mu \in [pc : {"free", "log", "freeze", "flush", "flushed"}, batch : Seq(Entry),
                 logged : Nat, id : Id]
      /\ Len(<<>>) = 0 /\ Unlocked.logged = 0 /\ Len(Unlocked.batch) = 0
  BY DEF Types, WriterTypes, Unlocked
<1>1. ASSUME NEW b \in Batches, WriteStart(b)
      PROVE  mu'.logged <= Len(mu'.batch)
  <2>1. mu'.logged = 0
    BY <1>1 DEF WriteStart, Unlocked
  <2>2. Len(mu'.batch) \in Nat
    BY TypesStep DEF Types, WriterTypes
  <2> QED
    BY <2>1, <2>2
<1>2. WalAppend => mu'.logged = mu.logged + 1 /\ mu'.batch = mu.batch /\ mu.logged < Len(mu.batch)
  BY <1>0 DEF WalAppend
<1>3. WalAppendFails \/ WriteApply \/ NewMemtable \/ FlushRecordFails \/ FlushRemove \/ Crash
      => mu' = Unlocked
  BY DEF WalAppendFails, WriteApply, NewMemtable, FlushRecordFails, FlushRemove, Crash, Release
<1>4. (\E who \in Freezer : FreezeCreate(who)) \/ FlushBuild
      => mu'.batch = <<>> /\ mu'.logged = 0
  BY DEF FreezeCreate, FlushBuild, Unlocked
<1>5. FlushRecord => mu'.logged = mu.logged /\ mu'.batch = mu.batch
  BY <1>0 DEF FlushRecord, FlushSwap
<1>6. /\ mu.logged \in Nat /\ Len(mu.batch) \in Nat
  BY <1>0
<1> QED
  BY <1>0, <1>1, <1>2, <1>3, <1>4, <1>5, <1>6, Frames, StepsOf

\* Only WalAppend writes to the log of a memtable in use.
LEMMA LogStays ==
    ASSUME Types, Structure, [Next]_vars, Loaded, Loaded', ~ WalAppend
    PROVE  \A m \in MemIds : wal'[m] = wal[m]
<1>0. /\ ~ Crash /\ (\A s \in Strategies : ~ RecoverOpen(s))
      /\ wal \in [Id -> Content \cup {NoFile}] /\ MemIds \subseteq Id
  BY IdsInOf DEF Loaded, Crash, RecoverOpen, Types, DiskTypes, TreeTypes, MemIds
<1>1. ASSUME NEW who \in Freezer, FreezeCreate(who)
      PROVE  \A m \in MemIds : wal'[m] = wal[m]
  <2>1. wal' = [wal EXCEPT ![nextID] = {}] /\ \A m \in MemIds : m < nextID
    BY <1>1 DEF FreezeCreate, Structure, Below, InUse
  <2>2. \A m \in MemIds : m # nextID
    BY <1>0, <2>1, Busy DEF Id
  <2> QED
    BY <1>0, <2>1, <2>2
<1>2. CASE FlushRemove
  <2>1. wal' = [wal EXCEPT ![mu.id] = NoFile] /\ mu.id \notin MemIds
    BY <1>2 DEF FlushRemove, Structure, Apart
  <2> QED
    BY <1>0, <2>1
<1>3. CASE DeleteOrphan
  <2> DEFINE o == CHOOSE o \in Orphans : \A j \in Orphans : o <= j
  <2>1. /\ Orphans # {}
        /\ IF o \in OrphanSsts THEN wal' = wal ELSE wal' = [wal EXCEPT ![o] = NoFile]
    BY <1>3 DEF DeleteOrphan
  <2>2. o \in Orphans
    <3>1. Orphans \in SUBSET Nat
      BY DEF Orphans, OrphanWals, OrphanSsts, Id
    <3>2. \E n \in Orphans : \A j \in Orphans : n <= j
      BY <2>1, <3>1, LeastNat
    <3> QED
      BY <3>2
  <2> HIDE DEF o
  <2>3. wal' = wal \/ (o \notin MemIds /\ wal' = [wal EXCEPT ![o] = NoFile])
    BY <2>1, <2>2 DEF Orphans, OrphanWals, MemIds
  <2> QED
    BY <1>0, <2>3
<1> QED
  BY <1>0, <1>1, <1>2, <1>3, Frames

\* What one more entry does to them, and what is left of the whole batch.
LEMMA StandingParts ==
    ASSUME NEW batch \in Seq(Entry)
    PROVE  /\ StandingOf(batch, 0) = {}
           /\ StandingOf(batch, Len(batch)) = Standing(batch)
           /\ \A n \in Nat : n <= Len(batch) => StandingOf(batch, n) \subseteq IdsIn(batch)
           /\ \A n \in Nat : n < Len(batch) =>
                StandingOf(batch, n + 1) = {w \in StandingOf(batch, n) : w.key # batch[n + 1].key}
                                     \cup {batch[n + 1]}
<1>1. StandingOf(batch, 0) = {}
  BY DEF StandingOf
<1>2. StandingOf(batch, Len(batch)) = Standing(batch)
  <2>1. DOMAIN batch = 1 .. Len(batch)
    OBVIOUS
  <2> QED
    BY <2>1 DEF StandingOf, Standing
<1>3. ASSUME NEW n \in Nat, n <= Len(batch)
      PROVE  StandingOf(batch, n) \subseteq IdsIn(batch)
  <2>1. 1 .. n \subseteq DOMAIN batch
    BY <1>3
  <2> QED
    BY <2>1 DEF StandingOf, IdsIn
<1>4. ASSUME NEW n \in Nat, n < Len(batch)
      PROVE  StandingOf(batch, n + 1) = {w \in StandingOf(batch, n) : w.key # batch[n + 1].key}
                                  \cup {batch[n + 1]}
  <2>1. ASSUME NEW w \in StandingOf(batch, n + 1)
        PROVE  (w \in StandingOf(batch, n) /\ w.key # batch[n + 1].key) \/ w = batch[n + 1]
    <3>1. PICK i \in 1 .. n + 1 :
            w = batch[i] /\ \A j \in 1 .. n + 1 : i < j => batch[j].key # batch[i].key
      BY <2>1 DEF StandingOf
    <3>2. CASE i = n + 1
      BY <3>1, <3>2
    <3>3. CASE i # n + 1
      <4>1. i \in 1 .. n /\ n + 1 \in 1 .. n + 1 /\ i < n + 1 /\ \A j \in 1 .. n : j \in 1 .. n + 1
        BY <3>3
      <4> QED
        BY <3>1, <4>1 DEF StandingOf
    <3> QED
      BY <3>2, <3>3
  <2>2. ASSUME NEW w \in StandingOf(batch, n), w.key # batch[n + 1].key
        PROVE  w \in StandingOf(batch, n + 1)
    <3>1. PICK i \in 1 .. n :
            w = batch[i] /\ \A j \in 1 .. n : i < j => batch[j].key # batch[i].key
      BY <2>2 DEF StandingOf
    <3>2. \A j \in 1 .. n + 1 : j \in 1 .. n \/ j = n + 1
      OBVIOUS
    <3>3. \A j \in 1 .. n + 1 : i < j => batch[j].key # batch[i].key
      BY <2>2, <3>1, <3>2, ZenonT(30)
    <3>4. i \in 1 .. n + 1
      BY <3>1
    <3> QED
      BY <3>1, <3>3, <3>4, ZenonT(30) DEF StandingOf
  <2>3. batch[n + 1] \in StandingOf(batch, n + 1)
    <3>1. n + 1 \in 1 .. n + 1 /\ \A j \in 1 .. n + 1 : ~ (n + 1 < j)
      OBVIOUS
    <3> QED
      BY <3>1 DEF StandingOf
  <2> QED
    BY <2>1, <2>2, <2>3
<1> QED
  BY <1>1, <1>2, <1>3, <1>4

\* An entry is appended to the log.
LEMMA AppendWritten ==
    ASSUME Types, Structure, Dated, Settled, Written, WalAppend
    PROVE  \A m \in MemIds' :
             /\ mems'[m] \cup Begun(m)' \subseteq Contents(wal'[m])
             /\ Contents(wal'[m]) \subseteq mems'[m] \cup Begun(m)' \cup torn'
<1> DEFINE b == mu.batch[mu.logged + 1]
<1>1. /\ up = "up" /\ Loaded /\ mu.pc = "log" /\ mu.batch \in Seq(Entry) /\ mu.logged \in Nat
      /\ mu.logged < Len(mu.batch) /\ mu'.pc = "log"
      /\ mu'.batch = mu.batch /\ mu'.logged = mu.logged + 1
      /\ wal' = [wal EXCEPT ![mem] = Put(Contents(wal[mem]), b)]
      /\ UNCHANGED <<mem, imm, mems, torn>>
      /\ wal \in [Id -> Content \cup {NoFile}] /\ mem \in MemIds /\ mem \in Id
  BY Busy DEF WalAppend, Types, WriterTypes, DiskTypes, TreeTypes, tree, history, MemIds
<1>2. b \in IdsIn(mu.batch)
  <2>1. mu.logged + 1 \in DOMAIN mu.batch
    BY <1>1
  <2> QED
    BY <2>1 DEF IdsIn
<1>3. /\ \A v \in IdsIn(mu.batch) : v.ts = ts
      /\ \A v \in mems[mem] : v.ts < ts
      /\ ts \in Nat /\ \A v \in mems[mem] : v.ts \in Nat
  BY <1>1, BufferedNat DEF Dated, Settled, Types, CounterTypes
<1>4. MemIds' = MemIds
  BY <1>1, SameTables
<1>5. \A m \in MemIds : m # mem => wal'[m] = wal[m] /\ Begun(m) = {} /\ Begun(m)' = {}
  BY <1>1, BufferedNat DEF Begun
<1>6. /\ Begun(mem) = StandingOf(mu.batch, mu.logged)
      /\ Begun(mem)' = StandingOf(mu.batch, mu.logged + 1)
  BY <1>1 DEF Begun
<1>7. /\ StandingOf(mu.batch, mu.logged) \subseteq IdsIn(mu.batch)
      /\ StandingOf(mu.batch, mu.logged + 1)
           = {w \in StandingOf(mu.batch, mu.logged) : w.key # b.key} \cup {b}
  <2>1. mu.logged <= Len(mu.batch) /\ Len(mu.batch) \in Nat
    BY <1>1
  <2>2. StandingOf(mu.batch, mu.logged) \subseteq IdsIn(mu.batch)
    BY <1>1, <2>1, StandingParts
  <2>3. StandingOf(mu.batch, mu.logged + 1)
           = {w \in StandingOf(mu.batch, mu.logged) : w.key # mu.batch[mu.logged + 1].key}
             \cup {mu.batch[mu.logged + 1]}
    BY <1>1, StandingParts
  <2> QED
    BY <2>2, <2>3
<1>8. /\ mems[mem] \cup StandingOf(mu.batch, mu.logged) \subseteq Contents(wal[mem])
      /\ Contents(wal[mem]) \subseteq mems[mem] \cup StandingOf(mu.batch, mu.logged) \cup torn
  BY <1>1, <1>6 DEF Written
<1>9. Contents(wal'[mem]) = Put(Contents(wal[mem]), b)
  <2>1. wal'[mem] = Put(Contents(wal[mem]), b) /\ Contents(wal[mem]) \in Content
    BY <1>1, ContentsType
  <2>2. Put(Contents(wal[mem]), b) \in Content
    <3>1. b \in Entry
      BY <1>1
    <3> QED
      BY <2>1, <3>1, PutContent DEF Put
  <2> QED
    BY <2>1, <2>2, NotAFile DEF Contents
<1> HIDE DEF b
<1>10. mems[mem] \cup StandingOf(mu.batch, mu.logged + 1) \subseteq Put(Contents(wal[mem]), b)
  BY <1>2, <1>3, <1>7, <1>8 DEF Put
<1>11. Put(Contents(wal[mem]), b) \subseteq mems[mem] \cup StandingOf(mu.batch, mu.logged + 1) \cup torn
  BY <1>2, <1>3, <1>7, <1>8 DEF Put
<1>12. ASSUME NEW m \in MemIds
       PROVE  /\ mems'[m] \cup Begun(m)' \subseteq Contents(wal'[m])
              /\ Contents(wal'[m]) \subseteq mems'[m] \cup Begun(m)' \cup torn'
  <2>1. CASE m = mem
    BY <1>1, <1>6, <1>9, <1>10, <1>11, <2>1
  <2>2. CASE m # mem
    BY <1>1, <1>5, <2>2 DEF Written
  <2> QED
    BY <2>1, <2>2
<1> QED
  BY <1>4, <1>12

\* What the log of each memtable holds, while the engine runs.
Backed(m) ==
    /\ mems[m] \cup Begun(m) \subseteq Contents(wal[m])
    /\ Contents(wal[m]) \subseteq mems[m] \cup Begun(m) \cup torn

\* Storage.mu goes from one operation to the next.
LEMMA LockSteps ==
    ASSUME Types, [Next]_vars, up' = "up"
    PROVE  \/ UNCHANGED mu
           \/ WalAppend \/ WalAppendFails \/ WriteApply
           \/ /\ mu.pc # "log" /\ mu'.pc = "log" /\ mu'.logged = 0
              /\ \E b \in Batches : WriteStart(b)
           \/ mu.pc # "log" /\ mu'.pc # "log"
<1>0. mu \in [pc : {"free", "log", "freeze", "flush", "flushed"}, batch : Seq(Entry),
              logged : Nat, id : Id]
  BY DEF Types, WriterTypes
<1>1. ~ Crash
  BY DEF Crash
<1>2. ASSUME NEW b \in Batches, WriteStart(b)
      PROVE  mu.pc # "log" /\ mu'.pc = "log" /\ mu'.logged = 0
  BY <1>2 DEF WriteStart, Free, Unlocked
<1>3. (\E who \in Freezer : FreezeCreate(who)) \/ FlushBuild
      => mu.pc # "log" /\ mu'.pc # "log"
  BY DEF FreezeCreate, FlushBuild, Free, Unlocked
<1>4. NewMemtable \/ FlushRecordFails \/ FlushRemove => mu.pc # "log" /\ mu'.pc # "log"
  BY DEF NewMemtable, FlushRecordFails, FlushSwap, FlushRemove, Release, Unlocked
<1>5. FlushRecord => mu.pc # "log" /\ mu'.pc # "log"
  BY <1>0 DEF FlushRecord, FlushSwap
<1> QED
  BY <1>1, <1>2, <1>3, <1>4, <1>5, Frames, StepsOf

\* While the engine runs, a log keeps up with its memtable.
LEMMA BackedStep ==
    ASSUME Types, Structure, Dated, Vacant, Settled, Written, [Next]_vars,
           up = "up", up' = "up"
    PROVE  \A m \in MemIds' : Backed(m)'
<1>0. /\ Loaded /\ Loaded' /\ \A m \in MemIds : Backed(m)
      /\ mems \in [Id -> Content] /\ mem \in Id /\ MemIds \subseteq Id
      /\ \A m : mu.pc # "log" => Begun(m) = {}
      /\ \A m : mu'.pc # "log" => Begun(m)' = {}
      /\ mem \in MemIds
  BY BufferedNat DEF Loaded, Written, Backed, Types, TreeTypes, Begun, MemIds
<1>1. CASE WalAppend
  BY <1>1, AppendWritten DEF Backed
<1>2. CASE ~ WalAppend
  <2>0. \A m \in MemIds : wal'[m] = wal[m]
    BY <1>0, <1>2, LogStays
  <2>1. CASE NewMemtable
    <3>1. /\ mu.pc = "freeze" /\ mu'.pc = "free" /\ UNCHANGED <<wal, mems>>
          /\ MemIds' = MemIds \cup {mu.id} /\ mu.id \in Id
      BY <2>1, FreezeEffect DEF NewMemtable, Release, Unlocked, Types, WriterTypes
    <3>2. mu.id \notin MemIds
      BY <1>0, <3>1 DEF Structure, Apart, InUse
    <3>3. Contents(wal[mu.id]) = {} /\ mems[mu.id] = {}
      BY <1>0, <3>1, <3>2 DEF Dated, Vacant
    <3>4. torn' = torn
      BY <2>1 DEF NewMemtable, history
    <3> QED
      BY <1>0, <3>1, <3>3, <3>4 DEF Backed
  <2>2. CASE FlushSwap
    <3>1. /\ mu.pc = "flush" /\ mems' = [mems EXCEPT ![Oldest] = {}] /\ torn' = torn
          /\ Oldest \in IdsIn(imm) /\ mem' = mem /\ IdsIn(imm') = IdsIn(imm) \ {Oldest}
      BY <2>2, FlushEffect DEF FlushSwap, history
    <3>2. mem \notin IdsIn(imm)
      BY <1>0 DEF Structure, Apart
    <3>3. \A m \in MemIds' : m \in MemIds /\ m # Oldest
      BY <3>1, <3>2 DEF MemIds
    <3>4. mu'.pc # "log"
      BY <3>1, <2>2, <1>0, LockSteps DEF WalAppend, WalAppendFails, WriteApply,
         WriteStart, Free
    <3>5. \A m \in MemIds' : mems'[m] = mems[m] /\ wal'[m] = wal[m]
      BY <1>0, <2>0, <3>1, <3>3
    <3> QED
      BY <1>0, <3>1, <3>3, <3>4, <3>5 DEF Backed
  <2>3. CASE WriteApply
    <3>1. /\ mu.pc = "log" /\ mu.logged = Len(mu.batch) /\ mu'.pc = "free"
          /\ mems' = [mems EXCEPT ![mem] = mems[mem] \cup Standing(mu.batch)]
          /\ UNCHANGED <<mem, imm, torn>> /\ mu.batch \in Seq(Entry)
      BY <2>3 DEF WriteApply, Release, Unlocked, Types, WriterTypes
    <3>2. MemIds' = MemIds
      BY <3>1, SameTables
    <3>3. /\ Begun(mem) = Standing(mu.batch)
          /\ \A m \in MemIds : m # mem => Begun(m) = {}
      BY <3>1, StandingParts DEF Begun
    <3>4. ASSUME NEW m \in MemIds
          PROVE  mems'[m] = mems[m] \cup Begun(m) /\ wal'[m] = wal[m]
      <4>1. CASE m = mem
        BY <1>0, <2>0, <3>1, <3>3, <4>1
      <4>2. CASE m # mem
        BY <1>0, <2>0, <3>1, <3>3, <4>2
      <4> QED
        BY <4>1, <4>2
    <3> QED
      BY <1>0, <3>1, <3>2, <3>4 DEF Backed
  <2>4. CASE WalAppendFails
    <3>1. /\ mu.pc = "log" /\ mu.logged < Len(mu.batch) /\ mu'.pc = "free"
          /\ torn' = torn \cup IdsIn(mu.batch) /\ mu.logged \in Nat
          /\ UNCHANGED <<mem, imm, mems>> /\ mu.batch \in Seq(Entry)
      BY <2>4 DEF WalAppendFails, Release, Unlocked, Types, WriterTypes, tree
    <3>2. MemIds' = MemIds
      BY <3>1, SameTables
    <3>3. \A m \in MemIds : Begun(m) \subseteq IdsIn(mu.batch)
      <4>1. mu.logged <= Len(mu.batch) /\ Len(mu.batch) \in Nat
        BY <3>1
      <4> QED
        BY <3>1, <4>1, StandingParts DEF Begun
    <3> QED
      BY <1>0, <2>0, <3>1, <3>2, <3>3 DEF Backed
  <2>5. CASE ~ NewMemtable /\ ~ FlushSwap /\ ~ WriteApply /\ ~ WalAppendFails
    <3>1. /\ UNCHANGED <<mem, imm, mems>> /\ torn \subseteq torn'
      <4>1. ~ Crash /\ (\A s \in Strategies : ~ RecoverOpen(s)) /\ ~ Serve
        BY <1>0 DEF Crash, RecoverOpen, Serve
      <4> QED
        BY <2>5, <4>1, Frames, StepsOf
    <3>2. MemIds' = MemIds
      BY <3>1, SameTables
    <3>3. \A m \in MemIds : Begun(m)' = Begun(m)
      <4>1. CASE UNCHANGED mu
        BY <3>1, <4>1 DEF Begun
      <4>2. CASE mu.pc # "log" /\ mu'.pc = "log" /\ mu'.logged = 0
        <5>1. mu'.batch \in Seq(Entry)
          BY TypesStep DEF Types, WriterTypes
        <5>2. StandingOf(mu'.batch, mu'.logged) = {}
          BY <4>2, <5>1, StandingParts
        <5> QED
          BY <4>2, <5>2 DEF Begun
      <4>3. CASE mu.pc # "log" /\ mu'.pc # "log"
        BY <1>0, <4>3
      <4> QED
        BY <1>2, <2>5, <4>1, <4>2, <4>3, LockSteps
    <3> QED
      BY <1>0, <2>0, <3>1, <3>2, <3>3 DEF Backed
  <2> QED
    BY <2>1, <2>2, <2>3, <2>4, <2>5
<1> QED
  BY <1>1, <1>2

\* While Open is under way only Open is.
LEMMA OpeningSteps ==
    ASSUME Types, [Next]_vars, up # "up", Loaded
    PROVE  /\ UNCHANGED <<mem, imm, mems>> \/ Crash
           /\ UNCHANGED vars \/ RecoverRecord \/ DeleteOrphan \/ Serve \/ Crash
<1>0. mu = Unlocked /\ comp = NoComp /\ ~ full
  BY DEF Types, Idle
<1>1. ~ Write
  BY <1>0 DEF Write, WriteStart, WalAppend, WalAppendFails, WriteApply, Free, Running, Unlocked
<1>2. ~ Freeze
  BY <1>0 DEF Freeze, FreezeCreate, FreezeFails, FreezeEmpty, FreezeInstall, FreezeRecordFails,
     NewMemtable, Free, Running, Unlocked
<1>3. ~ Flush
  BY <1>0 DEF Flush, FlushBuild, FlushRecord, FlushRecordFails, FlushSwap, FlushRemove, Free,
     Running, Unlocked
<1>4. ~ Compact
  BY DEF Compact, CompactPick, CompactBuild, CompactBuildFails, CompactSwap,
     CompactRecordFails, SwapIn, CompactDelete, Free, Running
<1>5. ~ Read
  BY DEF Read, ReadStart, ReadDone, Free, Running
<1>6. \A s \in Strategies : ~ RecoverOpen(s)
  BY DEF RecoverOpen, Loaded
<1>7. UNCHANGED vars \/ RecoverRecord \/ DeleteOrphan \/ Serve \/ Crash
  BY <1>1, <1>2, <1>3, <1>4, <1>5, <1>6 DEF Next, Recover
<1> QED
  BY <1>7 DEF RecoverRecord, DeleteOrphan, Serve, tree, vars

\* Open replays each log into its memtable (recover.go:93-112).
LEMMA ReplayedOpen ==
    ASSUME Types, Structure, NEW s \in Strategies, RecoverOpen(s)
    PROVE  /\ \A m \in MemIds' : mems'[m] = Contents(wal'[m])
           /\ mems'[mem'] = {}
<1>1. /\ mem' = manifest.maxID + 1 /\ mem' \in Id /\ IdsIn(imm') = Unflushed
      /\ mems' = [i \in Id |-> IF i \in Unflushed THEN wal[i] ELSE {}]
      /\ wal' = [i \in Id |-> IF i = mem' THEN {}
                              ELSE IF i \in manifest.mems THEN Contents(wal[i]) ELSE wal[i]]
      /\ Unflushed \subseteq manifest.mems
  <2>1. mem' <= MaxId /\ mem' = manifest.maxID + 1
    BY RecoverOpenTree
  <2>2. mem' \in Id
    BY <2>1, NamedIds, LsmAssumption DEF Id
  <2> QED
    BY <2>2, RecoverOpenTree, OpenEffect
<1>2. mem' \notin manifest.mems /\ Unflushed \subseteq Id
  <2>1. \A i \in manifest.mems : i <= manifest.maxID
    BY DEF Structure, Counted, Named
  <2>2. manifest.maxID + 1 \notin manifest.mems
    BY <2>1, NamedIds
  <2> QED
    BY <1>1, <2>2, UnflushedType
<1>3. Contents({}) = {}
  BY NoContents
<1>4. mems'[mem'] = {} /\ wal'[mem'] = {}
  BY <1>1, <1>2
<1>5. ASSUME NEW m \in Unflushed
      PROVE  mems'[m] = Contents(wal'[m])
  <2>1. m # mem' /\ m \in Id /\ m \in manifest.mems
    BY <1>1, <1>2, <1>5
  <2>2. mems'[m] = wal[m] /\ wal'[m] = Contents(wal[m])
    BY <1>1, <2>1
  <2>3. wal[m] = Contents(wal[m])
    BY UnflushedType
  <2> QED
    BY <2>2, <2>3
<1> QED
  BY <1>1, <1>3, <1>4, <1>5 DEF MemIds

\* Written is inductive, given the others.
LEMMA WrittenStep ==
    ASSUME Types, Structure, Dated, Vacant, Settled, Written, [Next]_vars
    PROVE  Written'
<1>1. mu'.pc # "log" => IdsIn(mu'.batch) = {}
  BY BatchStep DEF Written
<1>2. ASSUME up' = "up"
      PROVE  \A m \in MemIds' : Backed(m)'
  <2>1. CASE up = "up"
    BY <1>2, <2>1, BackedStep
  <2>2. CASE up # "up"
    <3>1. Serve
      BY <1>2, <2>2, Frames DEF Crash, RecoverOpen, RecoverRecord
    <3>2. /\ UNCHANGED <<wal, mem, imm, mems, mu>> /\ Loaded /\ up # "up"
      BY <3>1 DEF Serve, disk, tree, Loaded
    <3>3. MemIds' = MemIds
      BY <3>2, SameTables
    <3>4. \A m : Begun(m)' = {}
      BY <2>2, <3>2, Busy DEF Begun, Types, Idle, Unlocked
    <3> QED
      BY <3>2, <3>3, <3>4 DEF Backed, Written
  <2> QED
    BY <2>1, <2>2
<1>3. ASSUME Loaded', up' # "up"
      PROVE  (\A m \in MemIds' : mems'[m] = Contents(wal'[m])) /\ mems'[mem'] = {}
  <2>1. CASE ~ Loaded
    <3>1. ~ UNCHANGED vars
      BY <1>3, <2>1 DEF Loaded, vars
    <3> QED
      BY <2>1, <3>1, ClosedSteps, ReplayedOpen
  <2>2. CASE Loaded
    <3>1. up # "up" /\ ~ Crash
      <4>1. ~ Crash
        BY <1>3 DEF Crash, Loaded
      <4> QED
        BY <1>3, <2>2, <4>1, Frames DEF RecoverOpen, RecoverRecord, Serve, Loaded
    <3>2. UNCHANGED <<mem, imm, mems>>
      BY <2>2, <3>1, OpeningSteps
    <3>3. ~ WalAppend
      BY <2>2, <3>1, Busy DEF WalAppend
    <3>4. \A m \in MemIds : wal'[m] = wal[m]
      BY <1>3, <2>2, <3>3, LogStays
    <3>5. MemIds' = MemIds
      BY <3>2, SameTables
    <3> QED
      BY <2>2, <3>1, <3>2, <3>4, <3>5 DEF Written
  <2> QED
    BY <2>1, <2>2
<1>4. mu'.logged <= Len(mu'.batch)
  BY LoggedPart DEF Written
<1> QED
  BY <1>1, <1>2, <1>3, <1>4 DEF Written, Backed

-----------------------------------------------------------------------------
\* What is visible is in a memtable or a table, and what is recoverable in a
\* log or a table.
LEMMA Parts ==
    /\ \A v : v \in Visible <=> \/ \E m \in MemIds : v \in mems[m]
                                \/ \E t \in TableIds : v \in Table(t)
    /\ \A v : v \in Recoverable <=> \/ \E m \in manifest.mems : v \in Contents(wal[m])
                                    \/ \E t \in RecordedTables : v \in Table(t)
  BY DEF Visible, Recoverable, MemIds, Table

\* Versions are entries.
LEMMA PartsTyped ==
    ASSUME Types
    PROVE  /\ Visible \subseteq Entry /\ Recoverable \subseteq Entry
           /\ log \subseteq Entry /\ torn \subseteq Entry
           /\ \A v \in Entry : v.ts \in Nat /\ v.ts > 0 /\ v \in Version
<1>1. \A m \in manifest.mems : m \in Id
  BY NamedIds
<1>2. \A v \in Visible : v \in Entry
  BY BufferedNat, Parts DEF MemIds
<1>3. \A m \in manifest.mems : \A v \in Contents(wal[m]) : v \in Entry
  BY <1>1, BufferedNat DEF Buffered
<1>4. \A v \in Recoverable : v \in Entry
  BY <1>3, BufferedNat, Parts
<1>5. \A v \in Entry : v.ts \in Nat /\ v.ts > 0 /\ v \in Version
  BY EntryVersion, LsmAssumption DEF Entry
<1> QED
  BY <1>2, <1>4, <1>5 DEF Types, CounterTypes

\* No two tiers share a version.
LEMMA VisibleUnique ==
    ASSUME Types, Ordered, Unique, Runs, Loaded
    PROVE  OneVersionPerTs(Visible)
<1>1. /\ Live = MemIds /\ MemIds \subseteq Id
      /\ \A t \in TableIds : \E n \in TierNo : t \in Tier(n)
  BY BufferedNat, NowLoaded
<1>2. \A m, n \in MemIds : \A v \in mems[m], w \in mems[n] :
        m # n => v.ts # w.ts
  <2>1. ASSUME NEW m \in MemIds, NEW n \in MemIds, m > n,
               NEW v \in mems[m], NEW w \in mems[n]
        PROVE  v.ts # w.ts
    <3>1. v.ts > w.ts
      BY <1>1, <2>1 DEF Ordered, MemsOrdered, Newer, Buffered
    <3>2. v.ts \in Nat /\ w.ts \in Nat
      BY <1>1, BufferedNat
    <3> QED
      BY <3>1, <3>2
  <2>2. \A m, n \in MemIds : m = n \/ m > n \/ n > m
    BY <1>1 DEF Id
  <2> QED
    BY <2>1, <2>2
<1>3. \A m \in MemIds, t \in TableIds : \A v \in mems[m], w \in Table(t) : v.ts # w.ts
  <2> SUFFICES ASSUME NEW m \in MemIds, NEW t \in TableIds,
                      NEW v \in mems[m], NEW w \in Table(t)
               PROVE  v.ts # w.ts
    OBVIOUS
  <2>1. v.ts > w.ts
    BY <1>1 DEF Ordered, MemsAbove, Newer, Buffered
  <2>2. v.ts \in Nat /\ w.ts \in Nat
    BY <1>1, BufferedNat
  <2> QED
    BY <2>1, <2>2
<1>4. \A m \in MemIds : OneVersionPerTs(mems[m])
  BY <1>1 DEF Unique
<1>5. OneVersionPerTs(UNION {Table(t) : t \in TableIds})
  BY TablesUnique
<1>6. ASSUME NEW v \in Visible, NEW w \in Visible, v.key = w.key, v.ts = w.ts
      PROVE  v = w
  <2>1. CASE \E m \in MemIds : v \in mems[m]
    BY <1>2, <1>3, <1>4, <1>6, <2>1, Parts DEF OneVersionPerTs
  <2>2. CASE \E t \in TableIds : v \in Table(t)
    <3>1. v \in UNION {Table(t) : t \in TableIds}
      BY <2>2
    <3>2. \E t \in TableIds : w \in Table(t)
      BY <1>3, <1>6, <2>2, Parts
    <3>3. w \in UNION {Table(t) : t \in TableIds}
      BY <3>2
    <3> QED
      BY <1>5, <1>6, <3>1, <3>3 DEF OneVersionPerTs
  <2> QED
    BY <2>1, <2>2, Parts
<1> QED
  BY <1>6 DEF OneVersionPerTs

\* Batches have a timestamp each, acknowledged or not, and the one being
\* written has the last.
Stamped ==
    /\ OneVersionPerTs(log)
    /\ \A v \in log, w \in torn : v.ts # w.ts
    /\ up = "up" => \A v \in log \cup torn : v.ts <= ts
    /\ mu.pc = "log" => \A v \in log \cup torn : v.ts < ts

\* What an open engine shows is no younger than its clock.
LEMMA VisibleDated ==
    ASSUME Types, Dated, Settled, Loaded
    PROVE  \A v \in Visible : v.ts <= ts
  BY NotYounger, Parts DEF Buffered

\* Stamped is inductive, given the others.
LEMMA StampedStep ==
    ASSUME Types, Structure, Dated, Settled, Ordered, Unique, Runs, Written, Stamped,
           [Next]_vars
    PROVE  Stamped'
<1>0. /\ \A v \in log \cup torn : v.ts \in Nat
      /\ ts \in Nat
      /\ mu.pc # "free" => up = "up" /\ Loaded
      /\ mu.batch \in Seq(Entry)
      /\ mu.pc = "log" => \A v \in IdsIn(mu.batch) : v.ts = ts
      /\ \A v \in Standing(mu.batch) : v \in IdsIn(mu.batch)
  BY PartsTyped, Busy DEF Types, CounterTypes, WriterTypes, Dated, Standing, IdsIn
<1>1. CASE WriteApply
  <2>1. /\ mu.pc = "log" /\ log' = log \cup Standing(mu.batch) /\ mu'.pc = "free"
        /\ UNCHANGED <<ts, torn>>
    BY <1>1 DEF WriteApply, Release, Unlocked
  <2>2. OneVersionPerTs(log')
    <3>1. OneVersionPerTs(log) /\ \A v \in log : v.ts < ts
      BY <2>1 DEF Stamped
    <3>2. \A v \in IdsIn(mu.batch) : v.ts = ts
      BY <1>0, <2>1
    <3>3. OneVersionPerTs(log \cup Standing(mu.batch))
      BY <1>0, <3>1, <3>2, ApplyUnique
    <3> QED
      BY <2>1, <3>3
  <2>3. \A v \in Standing(mu.batch) : v.ts = ts
    BY <1>0, <2>1
  <2>4. \A v \in log \cup torn : v.ts < ts
    BY <2>1 DEF Stamped
  <2>5. \A v \in log', w \in torn' : v.ts # w.ts
    BY <1>0, <2>1, <2>3, <2>4 DEF Stamped
  <2>6. \A v \in log' \cup torn' : v.ts <= ts'
    <3>1. \A v \in log \cup torn : v.ts <= ts
      BY <1>0, <2>4
    <3>2. \A v \in Standing(mu.batch) : v.ts <= ts
      BY <1>0, <2>3
    <3>3. log' \cup torn' = (log \cup torn) \cup Standing(mu.batch) /\ ts' = ts
      BY <2>1
    <3> QED
      BY <3>1, <3>2, <3>3
  <2> QED
    BY <2>1, <2>2, <2>5, <2>6 DEF Stamped
<1>2. CASE WalAppendFails
  <2>1. /\ mu.pc = "log" /\ torn' = torn \cup IdsIn(mu.batch) /\ mu'.pc = "free"
        /\ UNCHANGED <<ts, log>>
    BY <1>2 DEF WalAppendFails, Release, Unlocked
  <2>2. \A v \in log \cup torn : v.ts < ts
    BY <2>1 DEF Stamped
  <2>3. \A v \in log', w \in torn' : v.ts # w.ts
    BY <1>0, <2>1, <2>2 DEF Stamped
  <2>4. \A v \in log' \cup torn' : v.ts <= ts'
    <3>1. \A v \in log \cup torn : v.ts <= ts
      BY <1>0, <2>2
    <3>2. \A v \in IdsIn(mu.batch) : v.ts <= ts
      BY <1>0, <2>1
    <3>3. log' \cup torn' = (log \cup torn) \cup IdsIn(mu.batch) /\ ts' = ts
      BY <2>1
    <3> QED
      BY <3>1, <3>2, <3>3
  <2> QED
    BY <2>1, <2>3, <2>4 DEF Stamped
<1>3. CASE Crash
  <2>1. /\ torn' = torn \cup IdsIn(mu.batch) /\ mu'.pc = "free" /\ up' = "down"
        /\ log' = log
    BY <1>3 DEF Crash, Unlocked
  <2>2. \A v \in log', w \in torn' : v.ts # w.ts
    <3>1. CASE mu.pc = "log"
      BY <1>0, <2>1, <3>1 DEF Stamped
    <3>2. CASE mu.pc # "log"
      BY <2>1, <3>2 DEF Stamped, Written
    <3> QED
      BY <3>1, <3>2
  <2> QED
    BY <2>1, <2>2 DEF Stamped
<1>4. CASE Serve
  <2>1. /\ log' = Visible /\ torn' = {} /\ up = "opened" /\ UNCHANGED <<ts, mu>>
    BY <1>4 DEF Serve
  <2>2. Loaded /\ mu'.pc # "log"
    <3>1. mu.pc = "free"
      BY <1>0, <2>1
    <3> QED
      BY <2>1, <3>1 DEF Loaded
  <2>3. OneVersionPerTs(log') /\ \A v \in log' : v.ts <= ts'
    BY <2>1, <2>2, VisibleUnique, VisibleDated
  <2> QED
    BY <2>1, <2>2, <2>3 DEF Stamped
<1>5. CASE ~ WriteApply /\ ~ WalAppendFails /\ ~ Crash /\ ~ Serve
  <2>1. UNCHANGED <<log, torn>>
    <3>1. \A w \in 0 .. ts : CompactPick(w) => log' = log
      BY DEF CompactPick
    <3> QED
      BY <1>5, <3>1, Frames
  <2>2. ASSUME up' = "up"
        PROVE  \A v \in log' \cup torn' : v.ts <= ts'
    <3>1. up = "up"
      BY <1>5, <2>2, Frames DEF RecoverOpen, RecoverRecord
    <3>2. ts <= ts' /\ ts' \in Nat
      BY <2>2, <3>1, ClockRuns, TypesStep DEF Loaded, Types, CounterTypes
    <3>3. \A v \in log \cup torn : v.ts <= ts
      BY <3>1 DEF Stamped
    <3>4. \A v \in log \cup torn : v.ts <= ts'
      BY <1>0, <3>2, <3>3
    <3> QED
      BY <2>1, <3>4
  <2>3. ASSUME mu'.pc = "log"
        PROVE  \A v \in log' \cup torn' : v.ts < ts'
    <3>1. up' = "up"
      BY <2>3, TypesStep DEF Types, Idle, Unlocked
    <3>2. up = "up"
      BY <1>5, <3>1, Frames DEF RecoverOpen, RecoverRecord
    <3>3. Loaded /\ Loaded'
      BY <3>1, <3>2 DEF Loaded
    <3>4. ts' = ts + 1 \/ (mu.pc = "log" /\ ts' = ts)
      BY <2>3, <3>3, Writing
    <3>5. \A v \in log \cup torn : v.ts < ts'
      <4>1. CASE ts' = ts + 1
        <5>1. \A v \in log \cup torn : v.ts <= ts
          BY <3>2 DEF Stamped
        <5> QED
          BY <1>0, <4>1, <5>1
      <4>2. CASE mu.pc = "log" /\ ts' = ts
        BY <4>2 DEF Stamped
      <4> QED
        BY <3>4, <4>1, <4>2
    <3> QED
      BY <2>1, <3>5
  <2> QED
    BY <2>1, <2>2, <2>3 DEF Stamped
<1> QED
  BY <1>1, <1>2, <1>3, <1>4, <1>5

-----------------------------------------------------------------------------
\* What the tables of a task hold together.
Inputs == UNION {Table(i) : i \in IdsIn(InputIDs(comp.task))}

\* What a merge has written and what it has not are together its inputs
\* collected at a timestamp that no reader is below.
MergeKept ==
    comp.pc = "merge" =>
      /\ comp.task.toBottom => comp.task.lowerLevel = MaxLevels
      /\ \E w \in 0 .. floor : Merged = Compacted(Inputs, comp.task.toBottom, w)

\* A pick raises the floor to the watermark it uses at the bottom.
LEMMA PickKept ==
    ASSUME Types, NEW w \in 0 .. ts, CompactPick(w)
    PROVE  MergeKept' /\ floor <= floor'
<1>1. PICK task \in Task(Id), rest \in Content :
        /\ PickShape(task, strategy, l0, levels)
        /\ rest = Compacted(UNION {Contents(sst[i]) : i \in IdsIn(InputIDs(task))},
                            task.toBottom, w)
        /\ comp' = [pc |-> "merge", task |-> task, new |-> <<>>, rest |-> rest, old |-> <<>>]
  BY PickedTask
<1>2. /\ sst' = sst /\ comp'.task = task /\ comp'.rest = rest /\ comp'.new = <<>>
      /\ floor' = IF comp'.task.toBottom THEN Greater(floor, w) ELSE floor
  BY <1>1 DEF CompactPick, disk
<1>3. /\ floor \in Nat /\ w \in Nat /\ floor' \in Nat /\ floor <= floor'
      /\ task.toBottom => w <= floor'
  BY <1>2 DEF Greater, Types, CounterTypes
<1>4. Merged' = rest
  <2>1. IdsIn(comp'.new) = {}
    BY <1>2 DEF IdsIn
  <2> QED
    BY <1>2, <2>1 DEF Merged
<1>5. Inputs' = UNION {Contents(sst[i]) : i \in IdsIn(InputIDs(task))}
  BY <1>2 DEF Inputs, Table
<1>6. \E x \in 0 .. floor' : Merged' = Compacted(Inputs', task.toBottom, x)
  <2>1. Merged' = Compacted(Inputs', task.toBottom, w)
    BY <1>1, <1>4, <1>5
  <2>2. CASE task.toBottom
    <3>1. w \in 0 .. floor'
      BY <1>3, <2>2
    <3> QED
      BY <2>1, <3>1
  <2>3. CASE ~ task.toBottom
    <3>1. Compacted(Inputs', task.toBottom, w) = Compacted(Inputs', task.toBottom, 0)
      BY <2>3 DEF Compacted
    <3>2. 0 \in 0 .. floor'
      BY <1>3
    <3> QED
      BY <2>1, <3>1, <3>2
  <2> QED
    BY <2>2, <2>3
<1>7. task.toBottom => task.lowerLevel = MaxLevels
  BY <1>1 DEF PickShape, WholeTier
<1> QED
  BY <1>2, <1>3, <1>6, <1>7 DEF MergeKept

\* A merge moves versions from the rest to a new table.
LEMMA BuildKept ==
    ASSUME Types, Structure, [Next]_vars, CompactBuild
    PROVE  /\ Merged' = Merged /\ Inputs' = Inputs /\ floor' = floor
           /\ comp.pc = "merge" /\ comp'.task = comp.task
<1>1. /\ comp.pc = "merge" /\ Loaded
      /\ comp'.rest = comp.rest \ NextTable(comp.rest) /\ comp'.task = comp.task
      /\ comp'.new = Append(comp.new, nextID) /\ nextID \in Id
      /\ sst' = [sst EXCEPT ![nextID] = NextTable(comp.rest)]
      /\ sst \in [Id -> Content \cup {NoFile}]
      /\ comp.new \in Seq(Id) /\ comp.rest \in Content /\ floor' = floor
  BY IdNext, Busy DEF CompactBuild, Types, DiskTypes, CompTypes, history
<1>2. NextTable(comp.rest) \subseteq comp.rest
  BY DEF NextTable
<1>3. PICK id \in Id : id = nextID
  BY <1>1
<1>4. Table(id)' = NextTable(comp.rest)
  <2>1. sst'[id] = NextTable(comp.rest)
    BY <1>1, <1>3
  <2>2. NextTable(comp.rest) # NoFile
    BY <1>1, <1>2, NoFileAssumption DEF Content
  <2> QED
    BY <2>1, <2>2 DEF Table, Contents
<1>5. \A i \in IdsIn(comp.new) \cup IdsIn(InputIDs(comp.task)) : Table(i)' = Table(i)
  BY <1>1, TableStays, TaskInputs
<1>6. IdsIn(comp'.new) = IdsIn(comp.new) \cup {id}
  BY <1>1, <1>3, AppendIds
<1>7. Merged' = Merged
  BY <1>1, <1>2, <1>4, <1>5, <1>6 DEF Merged
<1>8. Inputs' = Inputs
  BY <1>1, <1>5 DEF Inputs
<1> QED
  BY <1>1, <1>7, <1>8

\* MergeKept is inductive, given the others.
LEMMA MergeKeptStep ==
    ASSUME Types, Structure, MergeKept, [Next]_vars
    PROVE  MergeKept'
<1> SUFFICES ASSUME comp'.pc = "merge"
             PROVE  MergeKept'
  BY DEF MergeKept
<1>1. CASE \E w \in 0 .. ts : CompactPick(w)
  BY <1>1, PickKept
<1>2. CASE CompactBuild
  BY <1>2, BuildKept DEF MergeKept
<1>3. CASE ~ (\E w \in 0 .. ts : CompactPick(w)) /\ ~ CompactBuild
  <2>1. ~ Crash /\ ~ CompactBuildFails /\ ~ CompactSwap /\ ~ CompactRecordFails
    <3>1. ~ Crash /\ ~ CompactBuildFails /\ ~ CompactRecordFails
      BY DEF Crash, CompactBuildFails, CompactRecordFails, NoComp
    <3>2. ~ CompactSwap
      BY DEF CompactSwap, NoComp
    <3> QED
      BY <3>1, <3>2
  <2>2. ~ CompactDelete
    <3>1. comp \in [pc : {"idle", "merge", "delete"}, task : Task(Id) \cup {NoTask},
                    rest : Content, new : Seq(Id), old : Seq(Id)]
      BY DEF Types, CompTypes
    <3>2. comp.pc = "delete" => [comp EXCEPT !.old = Tail(@)].pc = "delete"
      BY <3>1
    <3>3. NoComp.pc = "idle"
      BY DEF NoComp
    <3> QED
      BY <3>2, <3>3 DEF CompactDelete
  <2>3. UNCHANGED comp /\ comp.pc = "merge" /\ up = "up" /\ Loaded
    BY <1>3, <2>1, <2>2, Frames, Busy
  <2>4. UNCHANGED floor
    BY <1>3, <2>3, Frames DEF WriteApply, Serve
  <2>5. \A i \in IdsIn(comp.new) \cup IdsIn(InputIDs(comp.task)) : Table(i)' = Table(i)
    BY <2>3, TableStays, TaskInputs
  <2>6. Merged' = Merged /\ Inputs' = Inputs
    BY <2>3, <2>5 DEF Merged, Inputs
  <2> QED
    BY <2>3, <2>4, <2>6 DEF MergeKept
<1> QED
  BY <1>1, <1>2, <1>3

-----------------------------------------------------------------------------
\* A flush puts the table in the place of the memtable.
LEMMA FlushVisible ==
    ASSUME Types, Structure, [Next]_vars, FlushSwap
    PROVE  Visible' = Visible
<1>1. /\ mu.pc = "flush" /\ mems' = [mems EXCEPT ![Oldest] = {}] /\ mems \in [Id -> Content]
      /\ Oldest \in IdsIn(imm) /\ mem' = mem /\ IdsIn(imm') = IdsIn(imm) \ {Oldest}
      /\ TableIds' = TableIds \cup {Oldest} /\ sst' = sst /\ Loaded
      /\ Oldest \in Id
  BY FlushEffect, Busy DEF FlushSwap, Types, TreeTypes
<1>2. mem \notin IdsIn(imm) /\ sst[Oldest] = mems[Oldest]
  BY <1>1 DEF Structure, Apart
<1>3. Table(Oldest) = mems[Oldest]
  BY <1>1, <1>2, NotAFile DEF Table, Contents
<1>4. MemIds' = MemIds \ {Oldest} /\ Oldest \in MemIds /\ MemIds \subseteq Id
  BY <1>1, <1>2, BufferedNat DEF MemIds
<1>5. \A m \in MemIds' : mems'[m] = mems[m]
  BY <1>1, <1>4
<1>6. \A t : Table(t)' = Table(t)
  BY <1>1 DEF Table
<1>7. Visible = UNION ({mems[m] : m \in MemIds} \cup {Table(t) : t \in TableIds})
  BY DEF Visible, MemIds, Table
<1>8. Visible' = UNION ({mems'[m] : m \in MemIds'} \cup {Table(t)' : t \in TableIds'})
  BY DEF Visible, MemIds, Table
<1> QED
  BY <1>1, <1>3, <1>4, <1>5, <1>6, <1>7, <1>8

\* What is visible changes with a batch and with the swap of a compaction.
LEMMA VisibleSteps ==
    ASSUME Types, Structure, Vacant, [Next]_vars, up = "up", up' = "up"
    PROVE  /\ WriteApply => Visible' = Visible \cup Standing(mu.batch)
           /\ WriteApply \/ SwapIn \/ Visible' = Visible
<1>0. /\ Loaded /\ Loaded' /\ mems \in [Id -> Content] /\ mem \in Id /\ MemIds \subseteq Id
      /\ mem \in MemIds
      /\ ~ Crash /\ (\A s \in Strategies : ~ RecoverOpen(s)) /\ ~ Serve
  BY BufferedNat DEF Loaded, Types, TreeTypes, MemIds, Crash, RecoverOpen, Serve
<1>1. /\ Visible = UNION ({mems[m] : m \in MemIds} \cup {Table(t) : t \in TableIds})
      /\ Visible' = UNION ({mems'[m] : m \in MemIds'} \cup {Table(t)' : t \in TableIds'})
  BY DEF Visible, MemIds, Table
<1>2. \A t \in TableIds : Table(t)' = Table(t)
  BY <1>0, TableStays
<1>3. ASSUME WriteApply
      PROVE  Visible' = Visible \cup Standing(mu.batch)
  <2>1. /\ mems' = [mems EXCEPT ![mem] = mems[mem] \cup Standing(mu.batch)]
        /\ UNCHANGED <<mem, imm, l0, levels>>
    BY <1>3 DEF WriteApply
  <2>2. MemIds' = MemIds /\ TableIds' = TableIds
    BY <2>1, SameTables
  <2>3. /\ mems'[mem] = mems[mem] \cup Standing(mu.batch)
        /\ \A m \in MemIds : m # mem => mems'[m] = mems[m]
    BY <1>0, <2>1
  <2>4. ASSUME NEW v \in Visible'
        PROVE  v \in Visible \cup Standing(mu.batch)
    BY <1>1, <1>2, <2>2, <2>3
  <2>5. ASSUME NEW v \in Visible \cup Standing(mu.batch)
        PROVE  v \in Visible'
    <3>1. CASE v \in Standing(mu.batch)
      BY <1>0, <1>1, <2>2, <2>3, <3>1
    <3>2. CASE \E t \in TableIds : v \in Table(t)
      BY <1>1, <1>2, <2>2, <3>2
    <3>3. CASE \E m \in MemIds : v \in mems[m]
      <4>1. PICK m \in MemIds : v \in mems[m]
        BY <3>3
      <4>2. v \in mems'[m]
        BY <2>3, <4>1
      <4> QED
        BY <1>1, <2>2, <4>2
    <3> QED
      BY <2>5, <3>1, <3>2, <3>3, Parts
  <2> QED
    BY <2>4, <2>5
<1>4. ASSUME NewMemtable
      PROVE  Visible' = Visible
  <2>1. /\ mu.pc = "freeze" /\ UNCHANGED <<wal, mems, l0, levels>>
        /\ MemIds' = MemIds \cup {mu.id} /\ mu.id \in Id
    BY <1>4, FreezeEffect DEF NewMemtable, Types, WriterTypes
  <2>2. mu.id \notin MemIds
    BY <1>0, <2>1 DEF Structure, Apart, InUse
  <2>3. mems[mu.id] = {}
    BY <1>0, <2>1, <2>2 DEF Vacant
  <2>4. TableIds' = TableIds
    BY <2>1, SameTables
  <2> QED
    BY <1>1, <1>2, <2>1, <2>3, <2>4
<1>5. ASSUME FlushSwap
      PROVE  Visible' = Visible
  BY <1>5, FlushVisible
<1>6. ASSUME ~ WriteApply, ~ NewMemtable, ~ FlushSwap, ~ SwapIn
      PROVE  Visible' = Visible
  <2>1. UNCHANGED <<mem, imm, mems, l0, levels>>
    BY <1>0, <1>6, Frames, StepsOf
  <2>2. MemIds' = MemIds /\ TableIds' = TableIds
    BY <2>1, SameTables
  <2> QED
    BY <1>1, <1>2, <2>1, <2>2
<1> QED
  BY <1>3, <1>4, <1>5, <1>6

\* What was collected is older than anything in memory.
Collected ==
    up = "up" =>
      \A v \in log \ Visible, m \in MemIds : \A w \in Buffered(m) : w.ts > v.ts

\* Collected is inductive, given the others.
LEMMA CollectedStep ==
    ASSUME Types, Structure, Dated, Vacant, Ordered, Stamped, Collected, [Next]_vars
    PROVE  Collected'
<1> SUFFICES ASSUME up' = "up", NEW v \in log' \ Visible', NEW m \in MemIds',
                    NEW w \in Buffered(m)'
             PROVE  w.ts > v.ts
  BY DEF Collected
<1>1. CASE up # "up"
  <2>1. Serve
    BY <1>1, Frames DEF Crash, RecoverOpen, RecoverRecord
  <2>2. log' = Visible /\ UNCHANGED <<sst, mem, imm, mems, l0, levels>>
    BY <2>1 DEF Serve, disk, tree
  <2>3. Visible' = Visible
    BY <2>2 DEF Visible, TableIds
  <2> QED
    BY <2>2, <2>3
<1>2. CASE up = "up"
  <2>0. Loaded /\ Loaded' /\ \A x \in log : x.ts \in Nat
    BY <1>2, PartsTyped DEF Loaded
  <2>1. v \in log
    <3>1. CASE WriteApply
      BY <1>2, <3>1, VisibleSteps DEF WriteApply
    <3>2. CASE ~ WriteApply
      <4>1. \A x \in 0 .. ts : CompactPick(x) => log' = log
        BY DEF CompactPick
      <4> QED
        BY <1>2, <3>2, <4>1, Frames DEF Serve
    <3> QED
      BY <3>1, <3>2
  <2>2. CASE v \notin Visible
    <3>1. m \in MemIds => \A x \in Buffered(m) : x.ts > v.ts
      BY <1>2, <2>1, <2>2 DEF Collected
    <3>2. CASE m \in MemIds /\ w \in Buffered(m)
      BY <3>1, <3>2
    <3>3. CASE mu.pc = "log" /\ w \in IdsIn(mu.batch)
      BY <2>0, <2>1, <3>3 DEF Stamped, Dated
    <3> QED
      BY <2>0, <3>2, <3>3, BufferSteps DEF MemIds
  <2>3. CASE v \in Visible
    <3>1. SwapIn
      BY <1>2, <2>3, VisibleSteps
    <3>2. UNCHANGED <<wal, mem, imm, mems>>
      BY <3>1 DEF SwapIn
    <3>3. MemIds' = MemIds /\ Buffered(m)' = Buffered(m)
      BY <3>2, SameTables DEF Buffered
    <3>4. ~ \E n \in MemIds : v \in mems[n]
      BY <3>2, <3>3, Parts DEF Visible, MemIds
    <3>5. PICK t \in TableIds : v \in Table(t)
      BY <2>3, <3>4, Parts
    <3> QED
      BY <2>0, <3>3, <3>5, NowLoaded DEF Ordered, MemsAbove, Newer
  <2> QED
    BY <2>2, <2>3
<1> QED
  BY <1>1, <1>2

\* What a swap leaves alone.
Others ==
    UNION ({mems[m] : m \in MemIds}
           \cup {Table(t) : t \in TableIds \ IdsIn(InputIDs(comp.task))})

\* A swap replaces the inputs by the output, and nothing else.
LEMMA SwapVisible ==
    ASSUME Types, Structure, [Next]_vars, SwapIn
    PROVE  Visible = Others \cup Inputs /\ Visible' = Others \cup Merged
<1>0. /\ comp.pc = "merge" /\ comp.rest = {} /\ Loaded
      /\ UNCHANGED <<sst, mem, imm, mems>>
  BY Busy DEF SwapIn
<1>1. /\ IdsIn(InputIDs(comp.task)) = IdsIn(comp.task.upperIDs) \cup IdsIn(comp.task.lowerIDs)
      /\ IdsIn(comp.task.upperIDs) \subseteq TierIds(comp.task.upperLevel)
      /\ IdsIn(comp.task.lowerIDs) = TierIds(comp.task.lowerLevel)
      /\ comp.task.upperLevel \in TierNo /\ comp.task.lowerLevel \in TierNo
      /\ comp.task.upperLevel # comp.task.lowerLevel
      /\ IdsIn(InputIDs(comp.task)) \subseteq TableIds
  BY <1>0, TaskInputs
<1>2. \A n \in TierNo :
        TierIds(n)' = IF n = comp.task.lowerLevel THEN IdsIn(comp.new)
                      ELSE IF n = comp.task.upperLevel
                           THEN TierIds(n) \ IdsIn(comp.task.upperIDs)
                      ELSE TierIds(n)
  BY SwapEffect DEF Structure
<1>3. /\ TableIds = UNION {TierIds(n) : n \in TierNo}
      /\ TableIds' = UNION {TierIds(n)' : n \in TierNo}
  BY TypesStep, TablesByTier, TablesByTierNext DEF Types, TreeTypes, Levels
<1>4. \A m, n \in TierNo : m # n => TierIds(m) \cap TierIds(n) = {}
  BY <1>0 DEF Structure, Homes
<1>5. TableIds' = (TableIds \ IdsIn(InputIDs(comp.task))) \cup IdsIn(comp.new)
  <2>1. ASSUME NEW n \in TierNo, NEW t \in TierIds(n)'
        PROVE  t \in (TableIds \ IdsIn(InputIDs(comp.task))) \cup IdsIn(comp.new)
    <3>1. CASE n = comp.task.lowerLevel
      BY <1>2, <2>1, <3>1
    <3>2. CASE n # comp.task.lowerLevel
      <4>1. t \in TierIds(n) /\ (n = comp.task.upperLevel => t \notin IdsIn(comp.task.upperIDs))
        BY <1>2, <2>1, <3>2
      <4>2. t \notin IdsIn(comp.task.lowerIDs)
        BY <1>1, <1>4, <3>2, <4>1
      <4>3. t \notin IdsIn(comp.task.upperIDs)
        BY <1>1, <1>4, <4>1
      <4> QED
        BY <1>1, <1>3, <4>1, <4>2, <4>3
    <3> QED
      BY <3>1, <3>2
  <2>2. ASSUME NEW t \in TableIds, t \notin IdsIn(InputIDs(comp.task))
        PROVE  \E n \in TierNo : t \in TierIds(n)'
    <3>1. PICK n \in TierNo : t \in TierIds(n)
      BY <1>3, <2>2
    <3>2. n # comp.task.lowerLevel /\ t \notin IdsIn(comp.task.upperIDs)
      BY <1>1, <2>2, <3>1
    <3> QED
      BY <1>2, <3>1, <3>2
  <2>3. ASSUME NEW t \in IdsIn(comp.new)
        PROVE  \E n \in TierNo : t \in TierIds(n)'
    <3>1. PICK n \in TierNo : n = comp.task.lowerLevel
      BY <1>1
    <3>2. t \in TierIds(n)'
      BY <1>2, <3>1
    <3> QED
      BY <3>2
  <2> QED
    BY <1>1, <1>3, <2>1, <2>2, <2>3
<1>6. MemIds' = MemIds /\ \A t : Table(t)' = Table(t)
  BY <1>0, SameTables DEF Table
<1>7. /\ Visible = UNION ({mems[m] : m \in MemIds} \cup {Table(t) : t \in TableIds})
      /\ Visible' = UNION ({mems'[m] : m \in MemIds'} \cup {Table(t)' : t \in TableIds'})
  BY DEF Visible, MemIds, Table
<1>8. Visible = Others \cup Inputs
  BY <1>1, <1>7 DEF Others, Inputs
<1>9. Visible' = Others \cup Merged
  BY <1>0, <1>5, <1>6, <1>7 DEF Others, Merged
<1> QED
  BY <1>8, <1>9

\* Into the last level a merge takes the oldest versions of all.
LEMMA SwapAbove ==
    ASSUME Types, Structure, Ordered, MergeBelow, comp.pc = "merge",
           comp.task.lowerLevel = MaxLevels
    PROVE  TierAbove(Others, Inputs)
<1>0. /\ Loaded /\ Live = MemIds
      /\ \A n \in TierNo : Tier(n) = TierIds(n) /\ TierIds(n) \subseteq TableIds
      /\ \A t \in TableIds : \E n \in TierNo : t \in Tier(n)
  BY Busy, NowLoaded
<1>1. /\ IdsIn(InputIDs(comp.task)) = IdsIn(comp.task.upperIDs) \cup IdsIn(comp.task.lowerIDs)
      /\ IdsIn(comp.task.upperIDs) \subseteq TierIds(comp.task.upperLevel)
      /\ IdsIn(comp.task.lowerIDs) = TierIds(MaxLevels)
      /\ comp.task.upperLevel \in TierNo /\ MaxLevels \in TierNo
      /\ IdsIn(InputIDs(comp.task)) \subseteq TableIds
  BY TaskInputs
<1>2. /\ comp.task.upperLevel \in 0 .. MaxLevels - 1
      /\ strategy = "full" => comp.task.upperLevel = 0
      /\ strategy # "full" => MaxLevels = comp.task.upperLevel + 1
  BY DEF Structure, TaskPicked
<1>3. ASSUME NEW m \in MemIds, NEW v \in mems[m], NEW u \in IdsIn(InputIDs(comp.task)),
             NEW w \in Table(u)
      PROVE  v.ts > w.ts
  BY <1>0, <1>1, <1>3 DEF Ordered, MemsAbove, Newer, Buffered
<1>4. ASSUME NEW t \in TableIds, t \notin IdsIn(InputIDs(comp.task)), NEW v \in Table(t),
             NEW u \in IdsIn(InputIDs(comp.task)), NEW w \in Table(u)
      PROVE  v.ts > w.ts
  <2>1. PICK n \in TierNo : t \in TierIds(n)
    BY <1>0
  <2>2. n # MaxLevels /\ n < MaxLevels
    <3>1. n # MaxLevels
      BY <1>1, <1>4, <2>1
    <3> QED
      BY <3>1, ControllerAssumption DEF TierNo
  <2>3. CASE u \in IdsIn(comp.task.lowerIDs)
    <3>1. Newer(Table(t), Table(u))
      BY <1>0, <1>1, <2>1, <2>2, <2>3 DEF Ordered, TiersOrdered
    <3> QED
      BY <3>1 DEF Newer
  <2>4. CASE u \in IdsIn(comp.task.upperIDs)
    <3>1. CASE n = comp.task.upperLevel
      <4>1. Newer(Table(t), Table(u))
        BY <1>1, <1>4, <2>1, <2>4, <3>1 DEF MergeBelow
      <4> QED
        BY <4>1 DEF Newer
    <3>2. CASE n < comp.task.upperLevel
      <4>1. Newer(Table(t), Table(u))
        BY <1>0, <1>1, <2>1, <2>4, <3>2 DEF Ordered, TiersOrdered
      <4> QED
        BY <4>1 DEF Newer
    <3>3. CASE n > comp.task.upperLevel
      <4>1. strategy = "full" /\ n \in 1 .. MaxLevels
        BY <1>2, <2>2, <3>3 DEF TierNo
      <4>2. levels[n] = <<>>
        BY <2>2, <4>1 DEF Structure, Unfilled
      <4>3. TierIds(n) = {}
        BY <4>1, <4>2 DEF TierIds, IdsIn
      <4> QED
        BY <2>1, <4>3
    <3> QED
      BY <1>1, <3>1, <3>2, <3>3 DEF TierNo
  <2> QED
    BY <1>1, <2>3, <2>4
<1>5. ASSUME NEW v \in Others, NEW w \in Inputs
      PROVE  v.ts > w.ts
  <2>1. PICK u \in IdsIn(InputIDs(comp.task)) : w \in Table(u)
    BY DEF Inputs
  <2>2. \/ \E m \in MemIds : v \in mems[m]
        \/ \E t \in TableIds : t \notin IdsIn(InputIDs(comp.task)) /\ v \in Table(t)
    BY DEF Others
  <2> QED
    BY <1>3, <1>4, <2>1, <2>2
<1> QED
  BY <1>5 DEF TierAbove

\* A swap gives a store that is like the old one from the floor on.
LEMMA SwapKept ==
    ASSUME Types, Structure, Ordered, MergeBelow, MergeKept, [Next]_vars, SwapIn
    PROVE  Visible' \subseteq Visible /\ Kept(Visible', floor) = Kept(Visible, floor)
<1>1. comp.pc = "merge" /\ floor \in Nat
  BY DEF SwapIn, Types, CounterTypes
<1>2. PICK w \in 0 .. floor : Merged = Compacted(Inputs, comp.task.toBottom, w)
  BY <1>1 DEF MergeKept
<1>3. Visible = Others \cup Inputs /\ Visible' = Others \cup Merged
  BY SwapVisible
<1>4. /\ Others \in SUBSET Version /\ Inputs \in SUBSET Version
      /\ \A v \in Inputs : v.ts > 0
      /\ w \in Nat /\ w <= floor /\ Visible \in SUBSET Version
  BY <1>1, <1>3, PartsTyped
<1>5. Visible' \subseteq Visible
  BY <1>2, <1>3 DEF Compacted, Kept
<1>6. CASE comp.task.toBottom
  <2>1. TierAbove(Others, Inputs)
    BY <1>1, <1>6, SwapAbove DEF MergeKept
  <2>2. Merged = Kept(Inputs, w)
    BY <1>2, <1>6 DEF Compacted
  <2>3. Kept(Others \cup Kept(Inputs, w), w) = Kept(Others \cup Inputs, w)
    BY <1>4, <2>1, KeptBelow
  <2>4. Kept(Visible', w) = Kept(Visible, w)
    BY <1>3, <2>2, <2>3
  <2>5. PICK now \in SUBSET Version : now = Visible'
    BY <1>4, <1>5
  <2>6. Kept(now, floor) = Kept(Visible, floor)
    BY <1>1, <1>4, <1>5, <2>4, <2>5, KeptLater
  <2> QED
    BY <1>5, <2>5, <2>6
<1>7. CASE ~ comp.task.toBottom
  <2>1. Compacted(Inputs, FALSE, w) = Inputs
    BY <1>4, UpperCompactionKeepsAll
  <2>2. comp.task.toBottom = FALSE
    <3>1. comp.task \in Task(Id)
      BY <1>1 DEF Types, CompTypes
    <3> QED
      BY <1>7, <3>1 DEF Task
  <2>3. Visible' = Visible
    BY <1>2, <1>3, <2>1, <2>2
  <2> QED
    BY <2>3
<1> QED
  BY <1>6, <1>7

-----------------------------------------------------------------------------
(* From the floor on, the tiers are the acknowledged batches; when the     *)
(* engine is not running, the files are, with part of the doubtful ones.   *)

OpenKept ==
    up = "up" => Visible \subseteq log /\ Kept(Visible, floor) = Kept(log, floor)

ClosedKept ==
    up # "up" =>
      /\ Recoverable \subseteq log \cup torn
      /\ Loaded => Visible = Recoverable
      /\ Kept(Recoverable, floor) = Kept(log \cup (torn \cap Recoverable), floor)

\* OpenKept is inductive, given the others.
LEMMA OpenKeptStep ==
    ASSUME Types, Structure, Dated, Vacant, Ordered, MergeBelow, MergeKept, Stamped, OpenKept,
           [Next]_vars
    PROVE  OpenKept'
<1> SUFFICES ASSUME up' = "up"
             PROVE  OpenKept'
  BY DEF OpenKept
<1>0. /\ floor \in Nat /\ log \in SUBSET Version /\ Visible \in SUBSET Version
      /\ \A v \in log : v.ts \in Nat
  BY PartsTyped DEF Types, CounterTypes
<1>1. CASE up # "up"
  <2>1. Serve
    BY <1>1, Frames DEF Crash, RecoverOpen, RecoverRecord
  <2>2. log' = Visible /\ UNCHANGED <<sst, mem, imm, mems, l0, levels>>
    BY <2>1 DEF Serve, disk, tree
  <2>3. Visible' = Visible
    BY <2>2 DEF Visible, TableIds
  <2> QED
    BY <2>2, <2>3 DEF OpenKept
<1>2. CASE up = "up"
  <2>0. Visible \subseteq log /\ Kept(Visible, floor) = Kept(log, floor) /\ Loaded
    BY <1>2 DEF OpenKept, Loaded
  <2>1. CASE WriteApply
    <3>1. /\ log' = log \cup Standing(mu.batch) /\ floor' = floor /\ mu.pc = "log"
          /\ Visible' = Visible \cup Standing(mu.batch)
      BY <1>2, <2>1, VisibleSteps DEF WriteApply
    <3>2. /\ \A x \in Standing(mu.batch) : x.ts = ts
          /\ Standing(mu.batch) \in SUBSET Version
      BY <2>0, <3>1, EntryVersion DEF Dated, Standing, IdsIn, Types, WriterTypes
    <3>3. Newer(Standing(mu.batch), log \ Visible)
      BY <1>0, <3>1, <3>2 DEF Stamped, Types, CounterTypes, Newer
    <3>4. Kept(Visible \cup Standing(mu.batch), floor) = Kept(log \cup Standing(mu.batch), floor)
      BY <1>0, <2>0, <3>2, <3>3, KeptGrow
    <3> QED
      BY <2>0, <3>1, <3>4 DEF OpenKept
  <2>2. CASE \E w \in 0 .. ts : CompactPick(w)
    <3>1. /\ log' = log /\ floor <= floor' /\ ~ SwapIn /\ ~ WriteApply
      BY <2>2, PickKept DEF CompactPick, SwapIn, WriteApply, Free
    <3>2. Visible' = Visible /\ floor' \in Nat
      BY <1>2, <3>1, VisibleSteps, TypesStep DEF Types, CounterTypes
    <3>3. Kept(Visible, floor') = Kept(log, floor')
      BY <1>0, <2>0, <3>1, <3>2, KeptLater
    <3> QED
      BY <2>0, <3>1, <3>2, <3>3 DEF OpenKept
  <2>3. CASE SwapIn
    <3>1. UNCHANGED <<log, floor>>
      BY <2>3, Frames DEF SwapIn, WriteApply, CompactPick, Serve, Free
    <3> QED
      BY <2>0, <2>3, <3>1, SwapKept DEF OpenKept
  <2>4. CASE ~ WriteApply /\ ~ SwapIn /\ ~ \E w \in 0 .. ts : CompactPick(w)
    <3>1. UNCHANGED <<log, floor>>
      BY <1>2, <2>4, Frames DEF Serve
    <3>2. Visible' = Visible
      BY <1>2, <2>4, VisibleSteps
    <3> QED
      BY <2>0, <3>1, <3>2 DEF OpenKept
  <2> QED
    BY <2>1, <2>2, <2>3, <2>4
<1> QED
  BY <1>1, <1>2

\* What the files hold beyond what is visible is doubtful once the process dies.
LEMMA CrashFinds ==
    ASSUME Types, Written, SameTiers, Logged, up = "up", Crash
    PROVE  /\ Visible \subseteq Recoverable /\ Recoverable \subseteq Visible \cup torn'
           /\ \A x \in Recoverable \ Visible : \E m \in MemIds : x \in Buffered(m)
<1>1. /\ Loaded /\ torn' = torn \cup IdsIn(mu.batch) /\ TableIds = RecordedTables
      /\ MemIds \subseteq manifest.mems
      /\ \A i \in manifest.mems \ MemIds : Contents(wal[i]) = {}
  <2>1. DOMAIN levels = 1 .. MaxLevels
    BY DEF Types, TreeTypes, Levels
  <2> QED
    BY <2>1 DEF Crash, Loaded, SameTiers, Logged, MemIds, TableIds, RecordedTables
<1>2. \A m \in MemIds : Begun(m) \subseteq IdsIn(mu.batch)
  <2>1. mu.batch \in Seq(Entry) /\ mu.logged \in Nat /\ mu.logged <= Len(mu.batch)
    BY DEF Types, WriterTypes, Written
  <2>2. StandingOf(mu.batch, mu.logged) \subseteq IdsIn(mu.batch)
    BY <2>1, StandingParts
  <2> QED
    BY <2>2 DEF Begun
<1>3. \A m \in MemIds : /\ mems[m] \subseteq Contents(wal[m])
                        /\ Contents(wal[m]) \subseteq mems[m] \cup torn'
  BY <1>1, <1>2 DEF Written
<1>4. ASSUME NEW x \in Recoverable
      PROVE  \/ x \in Visible
             \/ x \in torn' /\ \E m \in MemIds : x \in Buffered(m)
  <2>1. CASE \E t \in RecordedTables : x \in Table(t)
    BY <1>1, <2>1, Parts
  <2>2. CASE \E m \in manifest.mems : x \in Contents(wal[m])
    <3>1. PICK m \in MemIds : x \in Contents(wal[m])
      BY <1>1, <2>2
    <3> QED
      BY <1>3, <3>1, Parts DEF Buffered
  <2> QED
    BY <1>4, <2>1, <2>2, Parts
<1>5. \A x \in Visible : x \in Recoverable
  BY <1>1, <1>3, Parts
<1> QED
  BY <1>4, <1>5

\* A crash leaves the files.
LEMMA CrashKept ==
    ASSUME Types, Structure, Written, SameTiers, Logged, Stamped, Stamped', Collected, OpenKept,
           up = "up", Crash
    PROVE  /\ ClosedKept'
           /\ Recoverable' = Recoverable
<1>0. /\ floor' = floor /\ floor \in Nat /\ log' = log /\ UNCHANGED <<wal, sst, manifest>>
      /\ ~ Loaded' /\ Visible \subseteq log /\ Kept(Visible, floor) = Kept(log, floor)
      /\ log \in SUBSET Version /\ Recoverable \in SUBSET Version
  BY PartsTyped DEF Crash, disk, Loaded, OpenKept, Types, CounterTypes
<1>1. Recoverable' = Recoverable
  BY <1>0 DEF Recoverable, RecordedTables
<1>2. /\ Visible \subseteq Recoverable /\ Recoverable \subseteq Visible \cup torn'
      /\ \A x \in Recoverable \ Visible : \E m \in MemIds : x \in Buffered(m)
  BY CrashFinds
<1>3. \A v \in log : v \notin torn'
  BY <1>0 DEF Stamped
<1> DEFINE xs == Recoverable \ Visible
<1>4. torn' \cap Recoverable = xs
  BY <1>0, <1>2, <1>3
<1>5. Newer(xs, log \ Visible)
  BY <1>2 DEF Collected, Newer
<1>6. Kept(Visible \cup xs, floor) = Kept(log \cup xs, floor)
  <2>1. xs \in SUBSET Version /\ Visible \in SUBSET Version
    BY <1>0
  <2> HIDE DEF xs
  <2>2. /\ log \in SUBSET Version /\ floor \in Nat
        /\ Visible \subseteq log /\ Kept(Visible, floor) = Kept(log, floor)
    BY <1>0
  <2> QED
    BY <1>5, <2>1, <2>2, KeptGrow
<1>7. Visible \cup xs = Recoverable
  BY <1>2
<1>8. Kept(Recoverable', floor') = Kept(log' \cup (torn' \cap Recoverable'), floor')
  BY <1>0, <1>1, <1>4, <1>6, <1>7
<1>9. Recoverable' \subseteq log' \cup torn'
  BY <1>0, <1>1, <1>2
<1> QED
  BY <1>0, <1>1, <1>8, <1>9 DEF ClosedKept

\* Open changes no version on disk, and shows all it finds.
LEMMA OpenFinds ==
    ASSUME Types, Structure, NEW s \in Strategies, RecoverOpen(s)
    PROVE  Recoverable' = Recoverable /\ Visible' = Recoverable
<1>1. /\ mem' = manifest.maxID + 1 /\ IdsIn(imm') = Unflushed /\ TableIds' = RecordedTables
      /\ Unflushed \subseteq manifest.mems /\ UNCHANGED <<manifest, sst>>
      /\ wal' = [i \in Id |-> IF i = mem' THEN {}
                              ELSE IF i \in manifest.mems THEN Contents(wal[i]) ELSE wal[i]]
  BY OpenEffect, RecoverOpenTree
<1>2. /\ mem' \notin manifest.mems /\ manifest.mems \subseteq Id
      /\ wal \in [Id -> Content \cup {NoFile}]
  <2>1. \A i \in manifest.mems : i <= manifest.maxID
    BY DEF Structure, Counted, Named
  <2>2. manifest.maxID + 1 \notin manifest.mems
    BY <2>1, NamedIds
  <2> QED
    BY <1>1, <2>2, NamedIds DEF Types, DiskTypes
<1>3. \A m \in manifest.mems : Contents(wal'[m]) = Contents(wal[m])
  <2> SUFFICES ASSUME NEW m \in manifest.mems
               PROVE  Contents(wal'[m]) = Contents(wal[m])
    OBVIOUS
  <2>1. wal'[m] = Contents(wal[m]) /\ wal[m] \in Content \cup {NoFile}
    BY <1>1, <1>2
  <2>2. Contents(wal[m]) \in Content
    BY <2>1, ContentsType
  <2>3. Contents(wal[m]) # NoFile
    BY <2>2, NotAFile
  <2>4. Contents(wal'[m]) = wal'[m]
    BY <2>1, <2>3 DEF Contents
  <2> QED
    BY <2>1, <2>4
<1>4. RecordedTables' = RecordedTables /\ \A t : Table(t)' = Table(t)
  BY <1>1, SameTables DEF Table
<1>5. Recoverable' = Recoverable
  <2>1. Recoverable = UNION ({Contents(wal[m]) : m \in manifest.mems}
                             \cup {Table(t) : t \in RecordedTables})
    BY DEF Recoverable, Table
  <2>2. Recoverable' = UNION ({Contents(wal'[m]) : m \in manifest'.mems}
                              \cup {Table(t)' : t \in RecordedTables'})
    BY DEF Recoverable, Table
  <2>3. {Contents(wal'[m]) : m \in manifest'.mems} = {Contents(wal[m]) : m \in manifest.mems}
    <3> DEFINE old(m) == Contents(wal[m])
               new(m) == Contents(wal'[m])
    <3>1. manifest'.mems = manifest.mems
      BY <1>1
    <3>2. \A m \in manifest.mems : new(m) = old(m)
      BY <1>3
    <3> HIDE DEF old, new
    <3>3. {new(m) : m \in manifest.mems} = {old(m) : m \in manifest.mems}
      BY <3>2
    <3> QED
      BY <3>1, <3>3 DEF old, new
  <2>4. {Table(t)' : t \in RecordedTables'} = {Table(t) : t \in RecordedTables}
    <3> SUFFICES ASSUME NEW vs
                 PROVE  vs \in {Table(t)' : t \in RecordedTables'}
                          <=> vs \in {Table(t) : t \in RecordedTables}
      OBVIOUS
    <3>1. vs \in {Table(t)' : t \in RecordedTables'} <=> \E t \in RecordedTables' : vs = Table(t)'
      OBVIOUS
    <3>2. vs \in {Table(t) : t \in RecordedTables} <=> \E t \in RecordedTables : vs = Table(t)
      OBVIOUS
    <3> QED
      BY <1>4, <3>1, <3>2
  <2> QED
    BY <2>1, <2>2, <2>3, <2>4
<1>6. /\ \A m \in MemIds' : mems'[m] = Contents(wal'[m])
      /\ mems'[mem'] = {}
  BY ReplayedOpen
<1>7. MemIds' = {mem'} \cup Unflushed
  BY <1>1 DEF MemIds
<1>8. \A m \in Unflushed : mems'[m] = Contents(wal[m])
  BY <1>1, <1>3, <1>6, <1>7
<1>9. \A m \in manifest.mems \ Unflushed : Contents(wal[m]) = {}
  BY DEF Unflushed
<1>10. Visible' = UNION ({mems'[m] : m \in MemIds'} \cup {Table(t)' : t \in TableIds'})
  BY DEF Visible, MemIds, Table
<1>11. ASSUME NEW v \in Visible'
       PROVE  v \in Recoverable
  <2>1. CASE \E m \in MemIds' : v \in mems'[m]
    <3>1. PICK m \in Unflushed : v \in mems'[m]
      BY <1>6, <1>7, <2>1
    <3> QED
      BY <1>1, <1>8, <3>1, Parts
  <2>2. CASE \E t \in TableIds' : v \in Table(t)'
    BY <1>1, <1>4, <2>2, Parts
  <2> QED
    BY <1>10, <2>1, <2>2
<1>12. ASSUME NEW v \in Recoverable
       PROVE  v \in Visible'
  <2>1. CASE \E m \in manifest.mems : v \in Contents(wal[m])
    <3>1. PICK m \in Unflushed : v \in Contents(wal[m])
      BY <1>9, <2>1
    <3>2. m \in MemIds' /\ v \in mems'[m]
      BY <1>7, <1>8, <3>1
    <3> QED
      BY <1>10, <3>2
  <2>2. CASE \E t \in RecordedTables : v \in Table(t)
    BY <1>1, <1>4, <1>10, <2>2
  <2> QED
    BY <2>1, <2>2, Parts
<1> QED
  BY <1>5, <1>11, <1>12

\* Nothing that Open does later changes what it found.
LEMMA OpeningKeeps ==
    ASSUME Types, Structure, Written, Logged, [Next]_vars, Loaded, up # "up",
           RecoverRecord \/ DeleteOrphan
    PROVE  /\ Recoverable' = Recoverable /\ Visible' = Visible
           /\ UNCHANGED <<log, torn, floor>> /\ Loaded' /\ up' # "up"
<1>0. /\ UNCHANGED <<mem, imm, mems, l0, levels, log, torn, floor>> /\ Loaded' /\ up' # "up"
      /\ ~ WalAppend
  BY Busy DEF RecoverRecord, DeleteOrphan, tree, history, Loaded, WalAppend
<1>1. \A t \in TableIds \cup RecordedTables : Table(t)' = Table(t)
  BY TableStays
<1>2. Visible' = Visible
  <2>1. Visible = UNION ({mems[m] : m \in MemIds} \cup {Table(t) : t \in TableIds})
    BY DEF Visible, MemIds, Table
  <2>2. Visible' = UNION ({mems'[m] : m \in MemIds'} \cup {Table(t)' : t \in TableIds'})
    BY DEF Visible, MemIds, Table
  <2>3. MemIds' = MemIds /\ TableIds' = TableIds
    BY <1>0, SameTables
  <2> QED
    BY <1>0, <1>1, <2>1, <2>2, <2>3
<1>3. Recoverable = UNION ({Contents(wal[m]) : m \in manifest.mems}
                           \cup {Table(t) : t \in RecordedTables})
  BY DEF Recoverable, Table
<1>4. Recoverable' = UNION ({Contents(wal'[m]) : m \in manifest'.mems}
                            \cup {Table(t)' : t \in RecordedTables'})
  BY DEF Recoverable, Table
<1>5. CASE RecoverRecord
  <2>1. manifest' = RecordMemtable(manifest, mem) /\ UNCHANGED <<wal, sst>> /\ mem \in Id
    BY <1>5 DEF RecoverRecord, Types, TreeTypes
  <2>2. manifest'.mems = manifest.mems \cup {mem} /\ RecordedTables' = RecordedTables
    BY <2>1, RecordEffect
  <2>3. Contents(wal[mem]) = {}
    BY DEF Written, MemIds
  <2> QED
    BY <1>0, <1>1, <1>2, <1>3, <1>4, <2>1, <2>2, <2>3
<1>6. CASE DeleteOrphan
  <2>1. manifest' = manifest /\ RecordedTables' = RecordedTables
    BY <1>6, SameTables DEF DeleteOrphan
  <2>2. \A m \in manifest.mems : Contents(wal'[m]) = Contents(wal[m])
    <3> SUFFICES ASSUME NEW m \in manifest.mems
                 PROVE  Contents(wal'[m]) = Contents(wal[m])
      OBVIOUS
    <3>1. CASE m \in MemIds
      BY <1>0, <3>1, LogStays
    <3>2. CASE m \notin MemIds
      <4>1. Contents(wal[m]) = {} /\ m \in Id
        BY <3>2, NamedIds DEF Logged
      <4> QED
        BY <1>0, <4>1, LogsNotFilled
    <3> QED
      BY <3>1, <3>2
  <2> QED
    BY <1>0, <1>1, <1>2, <1>3, <1>4, <2>1, <2>2
<1> QED
  BY <1>5, <1>6

\* ClosedKept is inductive, given the others.
LEMMA ClosedKeptStep ==
    ASSUME Types, Structure, Written, Synced, Stamped, Stamped', Collected, OpenKept, ClosedKept,
           [Next]_vars
    PROVE  /\ ClosedKept'
           /\ up # "up" /\ up' # "up" => /\ Recoverable' = Recoverable
                                         /\ UNCHANGED <<log, torn, floor>>
<1>1. CASE up = "up" /\ up' # "up"
  <2>1. Crash
    BY <1>1, Frames DEF RecoverOpen, RecoverRecord, Serve
  <2>2. SameTiers /\ Logged
    BY <2>1 DEF Crash, Synced
  <2> QED
    BY <1>1, <2>1, <2>2, CrashKept
<1>2. CASE up # "up" /\ up' # "up"
  <2>0. /\ Recoverable \subseteq log \cup torn
        /\ Loaded => Visible = Recoverable
        /\ Kept(Recoverable, floor) = Kept(log \cup (torn \cap Recoverable), floor)
        /\ Logged
    BY <1>2 DEF ClosedKept, Synced
  <2>1. /\ Recoverable' = Recoverable /\ UNCHANGED <<log, torn, floor>>
        /\ Loaded' => Visible' = Recoverable'
    <3>1. CASE UNCHANGED vars
      <4>1. UNCHANGED <<wal, sst, manifest, up, mem, imm, mems, l0, levels, log, torn, floor>>
        BY <3>1 DEF vars
      <4>2. Recoverable' = Recoverable /\ Visible' = Visible
        BY <4>1 DEF Recoverable, RecordedTables, Visible, TableIds
      <4> QED
        BY <2>0, <4>1, <4>2 DEF Loaded
    <3>2. CASE \E s \in Strategies : RecoverOpen(s)
      <4>1. UNCHANGED <<log, torn, floor>>
        BY <3>2 DEF RecoverOpen, history
      <4> QED
        BY <3>2, <4>1, OpenFinds
    <3>3. CASE RecoverRecord \/ DeleteOrphan
      <4>1. Loaded
        BY <3>3 DEF RecoverRecord, DeleteOrphan, Loaded
      <4> QED
        BY <1>2, <2>0, <3>3, <4>1, OpeningKeeps
    <3>4. CASE Crash
      <4>1. UNCHANGED <<wal, sst, manifest, log, floor>> /\ ~ Loaded'
        BY <3>4 DEF Crash, disk, Loaded
      <4>2. torn' = torn
        BY <1>2, <3>4 DEF Crash, Types, Idle, Unlocked, IdsIn
      <4>3. Recoverable' = Recoverable
        BY <4>1 DEF Recoverable, RecordedTables
      <4> QED
        BY <4>1, <4>2, <4>3
    <3>5. ~ Serve
      BY <1>2 DEF Serve
    <3>6. CASE ~ Loaded
      BY <3>1, <3>2, <3>6, ClosedSteps
    <3>7. CASE Loaded
      BY <1>2, <3>1, <3>3, <3>4, <3>5, <3>7, OpeningSteps
    <3> QED
      BY <3>6, <3>7
  <2>2. Recoverable' \subseteq log' \cup torn'
    BY <2>0, <2>1
  <2>3. Kept(Recoverable', floor') = Kept(log' \cup (torn' \cap Recoverable'), floor')
    BY <2>0, <2>1
  <2> QED
    BY <1>2, <2>1, <2>2, <2>3 DEF ClosedKept
<1>3. CASE up' = "up"
  BY <1>3 DEF ClosedKept
<1> QED
  BY <1>1, <1>2, <1>3

-----------------------------------------------------------------------------
StoreInv == Written /\ Stamped /\ MergeKept /\ Collected /\ OpenKept /\ ClosedKept

\* All of it holds when an empty directory has been opened.
LEMMA StoreInit == Init => StoreInv
<1> SUFFICES ASSUME Init
             PROVE  StoreInv
  OBVIOUS
<1>1. /\ mems = [i \in Id |-> {}] /\ 0 \in Id /\ MemIds = {0} /\ mem = 0
      /\ wal = [i \in Id |-> IF i = 0 THEN {} ELSE NoFile]
      /\ mu = Unlocked /\ comp = NoComp /\ up = "up" /\ log = {} /\ torn = {} /\ floor = 0
      /\ l0 = <<>> /\ levels = NoLevels /\ Len(<<>>) = 0
  BY LsmAssumption DEF Init, Id, MemIds, IdsIn
<1>2. Contents(wal[0]) = {} /\ mems[0] = {}
  BY <1>1, NoContents
<1>3. \A m : Begun(m) = {}
  BY <1>1 DEF Begun, Unlocked
<1>4. Written
  BY <1>1, <1>2, <1>3 DEF Written, Unlocked, IdsIn
<1>5. Stamped /\ Collected
  BY <1>1 DEF Stamped, Collected, OneVersionPerTs, Unlocked
<1>6. MergeKept
  BY <1>1 DEF MergeKept, NoComp
<1>7. Visible = {}
  <2>1. TableIds = {}
    BY <1>1 DEF TableIds, NoLevels, IdsIn
  <2> QED
    BY <1>1, <1>2, <2>1 DEF Visible, MemIds
<1>8. OpenKept
  BY <1>1, <1>7 DEF OpenKept
<1>9. ClosedKept
  BY <1>1 DEF ClosedKept
<1> QED
  BY <1>4, <1>5, <1>6, <1>8, <1>9 DEF StoreInv

\* What the steps rely on.
Layout == /\ Types /\ Structure /\ Dated /\ Synced /\ Filling
          /\ Ordered /\ MergeBelow /\ Sorted

\* It holds in every reachable state.
LEMMA LayoutAlways ==
    ASSUME ~ Reconfigure, ~ Crashes \/ "manifest" \notin Faults
    PROVE  Spec => []Layout
<1>1. /\ Types /\ Structure /\ (Dated /\ Emptied) /\ Synced
      /\ (Filling /\ Ordered /\ MergeBelow) /\ Sorted
      => Layout
  BY DEF Layout
<1>2. Spec => []Types
  BY TypesAlways
<1>3. Spec => []Structure
  BY StructureAlways
<1>4. Spec => [](Dated /\ Emptied)
  BY DatedAlways
<1>5. Spec => []Synced
  BY SyncedAlways
<1>6. Spec => [](Filling /\ Ordered /\ MergeBelow)
  BY OrderedAlways
<1>7. Spec => []Sorted
  BY SortedAlways
<1> QED
  BY <1>1, <1>2, <1>3, <1>4, <1>5, <1>6, <1>7, PTL

\* StoreInv is inductive, given the layout's invariants.
LEMMA StoreInvStep ==
    ASSUME Layout, StoreInv, [Next]_vars
    PROVE  StoreInv'
<1>1. /\ Types /\ Structure /\ Dated /\ Synced /\ Vacant /\ Settled /\ Ordered /\ MergeBelow
      /\ Unique /\ Runs
      /\ Written /\ Stamped /\ MergeKept /\ Collected /\ OpenKept /\ ClosedKept
  BY DEF Layout, Filling, Sorted, StoreInv
<1>2. Written'
  BY <1>1, WrittenStep
<1>3. Stamped'
  BY <1>1, StampedStep
<1>4. MergeKept'
  BY <1>1, MergeKeptStep
<1>5. Collected'
  BY <1>1, CollectedStep
<1>6. OpenKept'
  BY <1>1, OpenKeptStep
<1>7. ClosedKept'
  BY <1>1, <1>3, ClosedKeptStep
<1> QED
  BY <1>2, <1>3, <1>4, <1>5, <1>6, <1>7 DEF StoreInv

\* StoreInv holds in every reachable state.
LEMMA StoreInvAlways ==
    ASSUME ~ Reconfigure, ~ Crashes \/ "manifest" \notin Faults
    PROVE  Spec => [](Layout /\ StoreInv)
<1>1. Init => StoreInv
  BY StoreInit
<1>2. Layout /\ StoreInv /\ [Next]_vars => StoreInv'
  BY StoreInvStep
<1>3. Spec => []Layout
  BY LayoutAlways
<1> QED
  BY <1>1, <1>2, <1>3, PTL DEF Spec

(***************************************************************************)
(* At every timestamp from the floor on the tiers together answer as the   *)
(* acknowledged batches do, with the part of the interrupted ones that     *)
(* reached a log: freezing, flushing, compacting, crashing and reopening   *)
(* lose nothing that can be read and bring nothing back that was deleted   *)
(* (storage.go, compact.go:16-21, recover.go:46-149).  What a compaction   *)
(* into the bottom level drops was below the watermark and is older than   *)
(* whatever lies above; what a log holds beyond its memtable belongs to a  *)
(* batch that was never acknowledged.                                      *)
(***************************************************************************)
THEOREM LsmReadsExpected ==
    ASSUME ~ Reconfigure, ~ Crashes \/ "manifest" \notin Faults
    PROVE  Spec => []ReadsExpected
<1>1. Layout /\ StoreInv => ReadsExpected
  <2> SUFFICES ASSUME Layout, StoreInv, Loaded, NEW k \in Key, NEW t \in floor .. top
               PROVE  ReadAt(Visible, k, t) = ReadAt(Outcome, k, t)
    BY DEF ReadsExpected
  <2>1. /\ Types /\ Ordered /\ Unique /\ Runs /\ Stamped /\ OpenKept /\ ClosedKept
    BY DEF Layout, Sorted, StoreInv
  <2>2. /\ floor \in Nat /\ t \in Nat /\ floor <= t
        /\ Visible \in SUBSET Version /\ Outcome \in SUBSET Version
        /\ \A v \in log, w \in torn : v.ts # w.ts
    BY <2>1, PartsTyped DEF Types, CounterTypes, Outcome, Stamped
  <2>3. OneVersionPerTs(Visible)
    BY <2>1, VisibleUnique
  <2>4. OneVersionPerTs(Outcome)
    BY <2>1, <2>2, <2>3 DEF Outcome, OneVersionPerTs, Stamped
  <2>5. Kept(Visible, floor) = Kept(Outcome, floor)
    <3>1. CASE up = "up"
      <4>1. torn \cap Visible = {}
        BY <2>1, <2>2, <3>1 DEF OpenKept
      <4>2. Outcome = log
        BY <4>1 DEF Outcome
      <4> QED
        BY <2>1, <3>1, <4>2 DEF OpenKept
    <3>2. CASE up # "up"
      BY <2>1, <3>2 DEF ClosedKept, Outcome
    <3> QED
      BY <3>1, <3>2
  <2> QED
    BY <2>2, <2>3, <2>4, <2>5, KeptReads
<1> QED
  BY <1>1, StoreInvAlways, PTL

-----------------------------------------------------------------------------
(* The engine implements KvStore: every step is one of the store, or none. *)

\* What a client can tell of the content of the store.
Answers == Kept(IF up = "up" THEN Visible ELSE Recoverable, floor)

\* The store's operators are those of the engine.
LEMMA StoreOperators ==
    ASSUME NEW vs, NEW w
    PROVE  Store!Kept(vs, w) = Kept(vs, w)
  BY DEF Store!Kept, Store!IsNewest, Kept, IsNewest

\* An empty directory is an empty store.
LEMMA StoreStarts ==
    ASSUME Init, StoreInv
    PROVE  Store!Init
<1>1. up = "up" /\ log = {} /\ torn = {} /\ floor = 0
  BY DEF Init
<1>2. Visible = {}
  BY <1>1 DEF StoreInv, OpenKept
<1>3. Kept({}, 0) = {}
  BY DEF Kept
<1> QED
  BY <1>1, <1>2, <1>3 DEF Store!Init

\* A batch is acknowledged, unless it is empty.
LEMMA ApplyCommits ==
    ASSUME Layout, StoreInv, StoreInv', [Next]_vars, WriteApply
    PROVE  Store!Commit \/ UNCHANGED Store!vars
<1>1. /\ mu.pc = "log" /\ log' = log \cup Standing(mu.batch) /\ UNCHANGED <<up, torn, floor>>
      /\ up = "up" /\ Loaded
  BY Busy DEF WriteApply, Layout
<1>2. /\ \A v \in Standing(mu.batch) : v.ts = ts
      /\ \A v \in log : v.ts < ts
  BY <1>1 DEF Layout, Dated, Standing, IdsIn, StoreInv, Stamped
<1>3. Answers = Kept(log, floor) /\ Answers' = Kept(log', floor')
  BY <1>1 DEF Answers, StoreInv, OpenKept
<1>4. CASE log' = log
  BY <1>1, <1>3, <1>4 DEF Store!vars, Answers
<1>5. CASE log' # log
  <2>1. /\ log' \ log # {} /\ log \subseteq log'
        /\ \A v \in log' \ log : v \in Standing(mu.batch)
    BY <1>1, <1>5
  <2>2. \A v, w \in log' \ log : v.ts = w.ts
    BY <1>2, <2>1
  <2>3. \A v \in log' \ log, w \in log : w.ts < v.ts
    BY <1>2, <2>1
  <2> QED
    BY <1>1, <1>3, <2>1, <2>2, <2>3, StoreOperators DEF Store!Commit, Answers
<1> QED
  BY <1>4, <1>5

\* A batch is refused.
LEMMA RefusalFails ==
    ASSUME Layout, StoreInv, StoreInv', [Next]_vars, WalAppendFails
    PROVE  Store!Fail \/ UNCHANGED Store!vars
<1>1. /\ torn' = torn \cup IdsIn(mu.batch) /\ UNCHANGED <<up, log, floor>> /\ up = "up"
  BY Busy DEF WalAppendFails, Layout
<1>2. Answers' = Answers
  BY <1>1 DEF Answers, StoreInv, OpenKept
<1> QED
  BY <1>1, <1>2 DEF Store!Fail, Store!vars, Answers

\* A pick may raise the floor.
LEMMA PickCollects ==
    ASSUME Layout, StoreInv, Layout', StoreInv', NEW w \in 0 .. ts, CompactPick(w)
    PROVE  Store!Collect \/ UNCHANGED Store!vars
<1>1. /\ UNCHANGED <<up, log, torn>> /\ up = "up" /\ floor <= floor'
      /\ floor \in Nat /\ floor' \in Nat
  BY PickKept DEF CompactPick, Free, Running, Layout, Types, CounterTypes
<1>2. Answers = Kept(log, floor) /\ Answers' = Kept(log', floor')
  BY <1>1 DEF Answers, StoreInv, OpenKept
<1>3. CASE floor' = floor
  BY <1>1, <1>2, <1>3 DEF Store!vars, Answers
<1>4. CASE floor' # floor
  <2>1. floor' > floor
    BY <1>1, <1>4
  <2> QED
    BY <1>1, <1>2, <2>1, StoreOperators DEF Store!Collect, Answers
<1> QED
  BY <1>3, <1>4

\* The process dies.
LEMMA CrashCrashes ==
    ASSUME Layout, StoreInv, StoreInv', up = "up", Crash
    PROVE  Store!Crash
<1>1. /\ UNCHANGED <<log, floor>> /\ torn \subseteq torn' /\ up' = "down"
  BY DEF Crash
<1>2. Answers' = Kept(log \cup (torn' \cap Recoverable'), floor)
  BY <1>1 DEF Answers, StoreInv, ClosedKept
<1> DEFINE found == torn' \cap Recoverable'
<1>3. found \in SUBSET torn' /\ Answers' = Kept(log \cup found, floor)
  BY <1>2
<1> HIDE DEF found
<1> QED
  BY <1>1, <1>3, StoreOperators DEF Store!Crash, Answers

\* Open returns.
LEMMA ServeRecovers ==
    ASSUME Layout, StoreInv, Layout', StoreInv', Serve
    PROVE  Store!Recover
<1>1. /\ up = "opened" /\ up' = "up" /\ log' = Visible /\ torn' = {} /\ floor' = 0 /\ Loaded
  BY DEF Serve, Loaded
<1>2. Answers = Kept(Visible, floor)
  BY <1>1 DEF Answers, StoreInv, ClosedKept
<1>3. Answers' = Kept(log', 0)
  BY <1>1 DEF Answers, StoreInv, OpenKept
<1>4. Kept(log', 0) = log'
  <2>1. Visible \in SUBSET Version /\ \A v \in Visible : v.ts > 0
    BY PartsTyped DEF Layout
  <2>2. Kept(Visible, 0) = Visible
    BY <2>1, KeptAll
  <2> QED
    BY <1>1, <2>2
<1> QED
  BY <1>1, <1>2, <1>3, <1>4, StoreOperators DEF Store!Recover, Answers

\* Every step of the engine is a step of the store or leaves it as it is.
LEMMA StoreStep ==
    ASSUME Layout, StoreInv, Layout', StoreInv', [Next]_vars
    PROVE  [Store!Next]_(Store!vars)
<1>1. CASE WriteApply
  BY <1>1, ApplyCommits DEF Store!Next
<1>2. CASE WalAppendFails
  BY <1>2, RefusalFails DEF Store!Next
<1>3. CASE \E w \in 0 .. ts : CompactPick(w)
  BY <1>3, PickCollects DEF Store!Next
<1>4. CASE Crash /\ up = "up"
  BY <1>4, CrashCrashes DEF Store!Next
<1>5. CASE Serve
  BY <1>5, ServeRecovers DEF Store!Next
<1>6. CASE /\ ~ WriteApply /\ ~ WalAppendFails /\ ~ (Crash /\ up = "up") /\ ~ Serve
           /\ ~ \E w \in 0 .. ts : CompactPick(w)
  <2>1. CASE up = "up"
    <3>1. UNCHANGED <<log, torn, floor>>
      BY <1>6, <2>1, Frames
    <3>2. up' = "up"
      BY <1>6, <2>1, Frames DEF RecoverOpen, RecoverRecord
    <3>3. Answers' = Answers
      BY <2>1, <3>1, <3>2 DEF Answers, StoreInv, OpenKept
    <3> QED
      BY <2>1, <3>1, <3>2, <3>3 DEF Store!vars, Answers
  <2>2. CASE up # "up"
    <3>1. up' # "up"
      BY <1>6, <2>2, Frames DEF Crash, RecoverOpen, RecoverRecord
    <3>2. Recoverable' = Recoverable /\ UNCHANGED <<log, torn, floor>>
      BY <2>2, <3>1, ClosedKeptStep DEF Layout, StoreInv
    <3>3. Answers' = Answers
      BY <2>2, <3>1, <3>2 DEF Answers
    <3> QED
      BY <2>2, <3>1, <3>2, <3>3 DEF Store!vars, Answers
  <2> QED
    BY <2>1, <2>2
<1> QED
  BY <1>1, <1>2, <1>3, <1>4, <1>5, <1>6

(***************************************************************************)
(* The engine is the versioned store KvStore describes: a set of versions  *)
(* that grows by whole batches in timestamp order, forgets only what       *)
(* nobody can ask for, and that a crash does not shrink, whenever the      *)
(* process dies (storage.go, compact.go, recover.go; README.md:14-15).     *)
(***************************************************************************)
THEOREM LsmStoreKept ==
    ASSUME ~ Reconfigure, ~ Crashes \/ "manifest" \notin Faults
    PROVE  Spec => StoreKept
<1>1. Init /\ StoreInv => Store!Init
  BY StoreStarts
<1>2. /\ Layout /\ StoreInv /\ Layout' /\ StoreInv' /\ [Next]_vars
      => [Store!Next]_(Store!vars)
  BY StoreStep
<1>3. Spec => [](Layout /\ StoreInv)
  BY StoreInvAlways
<1> QED
  BY <1>1, <1>2, <1>3, PTL DEF Spec, StoreKept, Store!Spec
=============================================================================
