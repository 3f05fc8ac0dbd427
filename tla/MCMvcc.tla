------------------------------- MODULE MCMvcc -------------------------------
(* Small instances of Mvcc for TLC. *)
EXTENDS MvccProps, TLC

Symmetry == Permutations(Client) \cup Permutations(Txn) \cup Permutations(Key)

\* Distinct keys have distinct hashes.
HashDistinct == [k \in Key |-> k]

\* Inputs: every batch, whole-range scans, a lookup of every key, or none.
AnyBatch  == [Key -> Stored \cup {Unset}]
PutOne    == {[k \in Key |-> IF k = x THEN v ELSE Unset] : x \in Key, v \in Stored}
WholeRange == {Key}
EveryKey  == Key
NoInput   == {}
=============================================================================
