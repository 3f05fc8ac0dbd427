CONSTANTS
    Client = {c1, c2}
    Txn = {t1, t2}
    Key = {k1, k2}
    Value = {v}
    Tombstone = tomb
    None = none
    Unset = unset
    HashValue = {k1, k2}
    Hash <- HashDistinct
    Batches <- NoInput
    Ranges <- WholeRange
    Lookups <- NoInput
    MaxTs = 2
    Faults = {"wal"}
SYMMETRY Symmetry
SPECIFICATION Spec
\* The bound on timestamps and on transactions lets the system run out of work.
CHECK_DEADLOCK FALSE
INVARIANTS
    TypeOK
    ReadersExact
    HistoryComplete
    ReadsSerializable
    FirstCommitterWins
PROPERTIES
    AbortHasCause
