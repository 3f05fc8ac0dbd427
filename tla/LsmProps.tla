------------------------------- MODULE LsmProps -------------------------------
(* What the layout has to guarantee, in memory and across crashes.         *)
EXTENDS LsmTree

Loaded == up # "down"

\* Entries of interrupted batches that reached a log count once recovered.
Outcome == log \cup (torn \cap Visible)

(***************************************************************************)
(* At every timestamp a reader may still use, the tiers together answer as *)
(* the acknowledged batches do: freezing, flushing, compacting, crashing   *)
(* and reopening lose nothing, and bring nothing back that was deleted     *)
(* (2b design:39, "acknowledged writes survive a crash"; compact.go:16-21).*)
(***************************************************************************)
ReadsExpected ==
    Loaded => \A k \in Key, t \in floor .. top :
                ReadAt(Visible, k, t) = ReadAt(Outcome, k, t)

(***************************************************************************)
(* The engine is a versioned store: what a client may read at or above the *)
(* watermark changes only when a batch is acknowledged, and is on disk     *)
(* from then on, whenever the process dies, in a flush, a compaction or a  *)
(* recovery (2b design:39; README.md:14-15).                               *)
(***************************************************************************)
Recoverable == UNION ({Contents(wal[m]) : m \in manifest.mems}
                      \cup {Contents(sst[t]) : t \in RecordedTables})

Store == INSTANCE KvStore WITH
    running  <- up = "up",
    writes   <- log,
    doubtful <- torn,
    horizon  <- floor,
    content  <- Kept(IF up = "up" THEN Visible ELSE Recoverable, floor)

StoreKept == Store!Spec

(***************************************************************************)
(* The timestamp of a batch is above every version the engine has or would *)
(* recover, also after a restart that set the counter back because the     *)
(* newest versions had been collected (recover.go:133-149, mvcc.go:36).    *)
(***************************************************************************)
TsFresh ==
    mu.pc = "log" => \A v \in (Visible \cup Recoverable) \ IdsIn(mu.batch) : v.ts < ts

(***************************************************************************)
(* Whenever the process dies, Open can replay the manifest and finds every *)
(* table it names (compact.go:153-155, recover.go:46-91).                  *)
(***************************************************************************)
AlwaysReopenable ==
    \A s \in Strategies : s = strategy \/ Reconfigure => Reopenable(s)

(***************************************************************************)
(* Replaying the manifest rebuilds the layout in memory: the same tiers in *)
(* the same order, the same unflushed memtables (recover.go:56-77).        *)
(***************************************************************************)
LayoutReplayed ==
    up = "up" /\ mu.pc = "free" =>
      /\ manifest.l0 = l0
      /\ manifest.levels = levels
      /\ {m \in manifest.mems : Contents(wal[m]) # {}} \ {mem} = IdsIn(imm)
      /\ mem \in manifest.mems

(***************************************************************************)
(* An upper tier only holds younger versions of a key than the tiers below *)
(* it: memtable, immutable memtables newest first, L0 newest first, L1 and *)
(* so on.  The newest-first merges and the whole-level compactions rely on *)
(* it (compact.go:16, compaction.go:15-16).                                *)
(***************************************************************************)
Tiers == <<mems[mem]>>
         \o [i \in DOMAIN imm |-> mems[imm[i]]]
         \o [i \in DOMAIN l0 |-> Contents(sst[l0[i]])]
         \o [i \in DOMAIN levels |-> UNION {Contents(sst[t]) : t \in IdsIn(levels[i])}]

TierOrder ==
    Loaded => \A i, j \in DOMAIN Tiers : i < j => TierAbove(Tiers[i], Tiers[j])

(***************************************************************************)
(* The tables of a level are one sorted run: key-sorted and not            *)
(* overlapping (storage.go:49), as the concatenating iterator assumes.     *)
(***************************************************************************)
SortedRuns ==
    \A n \in DOMAIN levels : \A i, j \in DOMAIN levels[n] :
      i < j => \A v \in Contents(sst[levels[n][i]]), w \in Contents(sst[levels[n][j]]) :
                 Before(v, w)

(***************************************************************************)
(* An id is never given out twice while a file under it is needed: no step *)
(* truncates the log of an unflushed memtable or overwrites a table of the *)
(* layout (storage.go:169-179, recover.go:114-119).                        *)
(***************************************************************************)
FilesKept ==
    [][/\ \A i \in manifest.mems \cap manifest'.mems :
            Contents(wal[i]) \ IdsIn(mu.batch) \subseteq Contents(wal'[i])
       /\ \A i \in IdsIn(manifest.l0) : 
            i \in IdsIn(manifest'.l0) => sst'[i] = sst[i]
       /\ \A n \in 1 .. MaxLevels : \A i \in IdsIn(manifest.levels[n]) :
            i \in IdsIn(manifest'.levels[n]) => sst'[i] = sst[i]]_vars

-----------------------------------------------------------------------------
(* What the documentation says, and the code does not keep. *)

(***************************************************************************)
(* "WriteBatch applies all its operations atomically" (2b design:41): once *)
(* the engine is open again, all of an interrupted batch is there or none. *)
(***************************************************************************)
BatchAtomic ==
    Loaded => \A v, w \in torn : v.ts = w.ts => (v \in Visible <=> w \in Visible)

(***************************************************************************)
(* "in-flight readers holding an older *state snapshot keep working        *)
(* against still-open handles" (2a design:223-225): the tables a reader    *)
(* captured stay open until it is done.                                    *)
(***************************************************************************)
ReaderTablesOpen ==
    \A r \in Reader : held[r] # NoReader => \A i \in held[r] : sst[i] # NoFile
=============================================================================
