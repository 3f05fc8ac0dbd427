------------------------------ MODULE MvccProps ------------------------------
(***************************************************************************)
(* What the controller has to guarantee.  A transaction is *clean* when    *)
(* its Begin did not overlap a commit: no timestamp was handed out between *)
(* latestTs and addReader, and none was handed out but not yet applied.    *)
(* Everything stated of clean transactions holds whatever the other        *)
(* goroutines do; MCMvcc's violation runs show what the others may see.    *)
(***************************************************************************)
EXTENDS Mvcc

Open(t)      == txn[t].status = "open"
CleanOpen(t) == Open(t) /\ hist[t].clean

\* t counts in mvcc.readers: from Begin until Commit or Rollback releases it.
Registered(t) ==
    \/ Open(t)
    \/ \E c \in Client :
         /\ call[c].txn = t
         /\ call[c].pc \in {"validate", "stamp", "apply", "record", "release",
                            "rollback"}

(***************************************************************************)
(* mvcc.readers counts exactly the transactions that are registered: the   *)
(* done flag makes Commit and Rollback release a reader once, however they *)
(* race (txn.go:113-176, mvcc.go:52-68).                                   *)
(***************************************************************************)
ReadersExact ==
    \A r \in Ts :
      readers[r] = Cardinality({t \in Txn : Registered(t) /\ txn[t].readTs = r})

(***************************************************************************)
(* Garbage collection never drops what a clean open snapshot reads, nor    *)
(* what a one-shot Get reads while the timestamp it took is still the      *)
(* latest and applied: the tree answers as the complete history would      *)
(* (compact.go:16-21, storage.go:351-354).                                 *)
(***************************************************************************)
SnapshotRetained ==
    /\ \A t \in Txn : CleanOpen(t) =>
         \A k \in Key : ReadAt(store, k, txn[t].readTs) = ReadAt(log, k, txn[t].readTs)
    /\ \A c \in Client : At(c, "get") /\ call[c].seen = ts /\ ~ InFlight =>
         ReadAt(store, call[c].key, ts) = ReadAt(log, call[c].key, ts)

(***************************************************************************)
(* No step changes what a clean open transaction reads from its snapshot   *)
(* (storage.go:338-349, "a consistent snapshot").                          *)
(***************************************************************************)
SnapshotStable ==
    [][\A t \in Txn : CleanOpen(t) =>
         \A k \in Key : ReadAt(store', k, txn[t].readTs) = ReadAt(store, k, txn[t].readTs)]_vars

(***************************************************************************)
(* Whatever was applied after a clean open snapshot is still in the        *)
(* history its commit will be validated against, or is just being recorded *)
(* there (mvcc.go:88-108).                                                 *)
(***************************************************************************)
HistoryComplete ==
    \A t \in Txn, v \in log :
      CleanOpen(t) /\ v.ts > txn[t].readTs =>
        \/ \E e \in committed : e.ts = v.ts /\ Hash[v.key] \in e.writeSet
        \/ \E c \in Client : At(c, "record") /\ call[c].ts = v.ts

(***************************************************************************)
(* Batches become visible in the order of their timestamps, so that every  *)
(* memtable holds younger versions than the ones frozen before it          *)
(* (storage.go:232-251, txn.go:113-164 under commitMu).                    *)
(***************************************************************************)
AppliedInTsOrder ==
    [][\A v \in log' \ log : \A w \in log : w.ts < v.ts]_vars

(***************************************************************************)
(* Why that is so, as an inductive invariant: between taking commitMu and  *)
(* giving it back a call has the mutex to itself, everything applied was   *)
(* stamped at or below mvcc.ts, a key has one version per timestamp, and a *)
(* call that is about to apply its batch holds the only timestamp above    *)
(* all of it (mvcc.go:22-41, txn.go:113-164, storage.go:235-238).          *)
(***************************************************************************)
Committing == {"validate", "stamp", "apply", "record", "release", "prune", "filter"}

CommitOrder ==
    /\ \A c \in Client : call[c].pc \in Committing => commitMu = c
    /\ \A v \in log : v.ts <= ts
    /\ \A c \in Client : At(c, "apply") =>
         call[c].ts = ts /\ \A v \in log : v.ts < ts
    /\ OneVersionPerTs(log)
    /\ store \subseteq log

(***************************************************************************)
(* A clean transaction that passed validation read, from its snapshot,     *)
(* exactly what one running alone at its commit timestamp would read       *)
(* (txn.go:133-139).  Keys a scan passed over as absent are not covered:   *)
(* see ScansSerializable.                                                  *)
(***************************************************************************)
ReadsSerializable ==
    \A c \in Client, k \in Key :
      LET t == call[c].txn IN
      At(c, "apply") /\ t # None => 
        (hist[t].clean /\ hist[t].reads[k] # Unset =>
           hist[t].reads[k] = ReadAt(log, k, call[c].ts - 1))

(***************************************************************************)
(* Of two overlapping writers of a key the later committer aborts: when a  *)
(* clean transaction is about to apply its writes, nobody has written one  *)
(* of its keys since its snapshot (txn.go:133-139).                        *)
(***************************************************************************)
FirstCommitterWins ==
    \A c \in Client, v \in log :
      LET t == call[c].txn IN
      At(c, "apply") /\ t # None =>
        (hist[t].clean /\ v.key \in WrittenBy(call[c].batch) =>
           v.ts <= txn[t].readTs)

(***************************************************************************)
(* A serialization error has a cause: some batch applied after the         *)
(* snapshot wrote a key with the hash of one the transaction accessed      *)
(* (mvcc.go:117-134).                                                      *)
(***************************************************************************)
AbortHasCause ==
    [][\A c \in Client : AbortOnConflict(c) =>
         \E v \in log : /\ v.ts > txn[call[c].txn].readTs
                        /\ Hash[v.key] \in txn[call[c].txn].access]_vars

(***************************************************************************)
(* Every call returns: no path through Commit or Write, failing ones       *)
(* included, keeps commitMu.                                               *)
(***************************************************************************)
CallsReturn == \A c \in Client : ~ At(c, "idle") ~> At(c, "idle")

-----------------------------------------------------------------------------
(* What the documentation says of every transaction and every read. *)

(***************************************************************************)
(* "Begin starts a transaction reading a consistent snapshot at the latest *)
(* committed timestamp" (storage.go:338-339): no step changes what any     *)
(* open transaction reads.                                                 *)
(***************************************************************************)
EverySnapshotStable ==
    [][\A t \in Txn : Open(t) =>
         \A k \in Key : ReadAt(store', k, txn[t].readTs) = ReadAt(store, k, txn[t].readTs)]_vars

(***************************************************************************)
(* "pruneCommitted drops history entries no open transaction can still     *)
(* need" (mvcc.go:95-96): what was applied after the snapshot of any open  *)
(* transaction is still in the history.                                    *)
(***************************************************************************)
EveryHistoryComplete ==
    \A t \in Txn, v \in log :
      Open(t) /\ v.ts > txn[t].readTs =>
        \/ \E e \in committed : e.ts = v.ts /\ Hash[v.key] \in e.writeSet
        \/ \E c \in Client : At(c, "record") /\ call[c].ts = v.ts

(***************************************************************************)
(* "serializable transactions" (README.md:5): a clean transaction that     *)
(* passed validation may commit only if the keys its scans found absent    *)
(* are still absent at its commit timestamp.                               *)
(***************************************************************************)
ScansSerializable ==
    \A c \in Client, k \in Key :
      LET t == call[c].txn IN
      At(c, "apply") /\ t # None =>
        (hist[t].clean /\ k \in hist[t].missed =>
           ReadAt(log, k, call[c].ts - 1) = Tombstone)
=============================================================================
