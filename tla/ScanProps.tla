------------------------------ MODULE ScanProps ------------------------------
(* A scan hands out the snapshot overlaid with the transaction's writes.   *)
EXTENDS Scan

TypeOK ==
    /\ DOMAIN source = 1 .. Tiers /\ DOMAIN head = 1 .. Tiers
    /\ \A i \in 1 .. Tiers : head[i] = End \/ head[i] \in source[i]
    /\ current \in 0 .. Tiers
    /\ step \in {"find", "skip", "stand"} /\ user \in Key \cup {NoKey}
    /\ {cur, pending} \subseteq [key : Key \cup {NoKey}, val : Stored]
    /\ status \in {"running", "done", "failed", "silent"}

\* What a reader of the snapshot gets for k, its own writes first.
Answer(k) ==
    IF start.local[k] # Unset THEN start.local[k] ELSE ReadAt(start.versions, k, ReadTs)

KeysFound == {k \in Key : InRange(k) /\ Answer(k) # Tombstone}

Handed == {out[i].key : i \in DOMAIN out}

(***************************************************************************)
(* Whatever is committed meanwhile, what has been handed out is the        *)
(* beginning of the range of the snapshot with the local writes over it,   *)
(* and all of it when the scan ends without an error: no key is lost,      *)
(* repeated, out of order or at another version (storage.go:281, 364;      *)
(* txn.go:194-196), and each was recorded for validation.                  *)
(***************************************************************************)
ScanExact ==
    /\ \A i \in DOMAIN out : out[i].key \in KeysFound /\ out[i].val = Answer(out[i].key)
    /\ \A i, j \in DOMAIN out : i < j => out[i].key < out[j].key
    /\ \A k \in KeysFound \ Handed : status # "done" /\ \A j \in Handed : j < k
    /\ access = Handed

(***************************************************************************)
(* "`Get`/`Scan` distinguish \"key absent\" from \"I/O error\"" (week 1      *)
(* design:169): a scan that looks exhausted has handed out everything.     *)
(***************************************************************************)
EndMeansAll == status \in {"done", "silent"} => KeysFound \subseteq Handed

(***************************************************************************)
(* A scan ends: commits that insert ahead of it cannot hold it up, since   *)
(* they add at most one pass over a bounded number of versions             *)
(* (mvcc_iterator.go:30-64, txn.go:213-271).                               *)
(***************************************************************************)
ScanEnds == <>(status # "running")
=============================================================================
