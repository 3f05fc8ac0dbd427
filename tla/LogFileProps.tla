---------------------------- MODULE LogFileProps ----------------------------
(* What the two files promise.                                             *)
EXTENDS LogFile

TypeOK ==
    /\ \A i \in DOMAIN file : file[i].rec \in Record /\ file[i].part \in 1 .. file[i].rec.size
    /\ synced \in 0 .. Len(file)
    /\ state \in {"up", "down"} /\ short \in BOOLEAN
    /\ pos \in 1 .. Len(file) + 1
    /\ writing.rec \in Record \cup {NoRecord}
    /\ acked \in Seq(Record) /\ safe \in 0 .. Len(acked)
    /\ doubt \in Seq(Record)

(***************************************************************************)
(* The file always parses to the acknowledged records, in order, followed  *)
(* by some of those a crash has left in doubt: crashes at any point, also  *)
(* while the file is being extended after a recovery, lose and reorder     *)
(* nothing; losing power loses only what was never synced (2b design:39,   *)
(* wal.go:32-35, manifest.go:89).  A write that was short does no harm to  *)
(* the records before it; what is written after it is lost.                *)
(***************************************************************************)
LogExact ==
    LET now == Records(file) IN
    IsPrefix(acked, now) /\ IsPrefix(now, acked \o doubt \o InFlight)

(***************************************************************************)
(* Recovery never takes the traces of a crash for corruption: "a truncated *)
(* trailing WAL record is silently dropped", and for the manifest          *)
(* "truncated trailing record dropped" (2b design:224, 237).               *)
(***************************************************************************)
RecoverySucceeds == state = "down" /\ ~ short => ~ Corrupt(file, StopAt(file))
=============================================================================
