CONSTANTS
    Client = {c1, c2}
    Txn = {t1}
    Key = {k1}
    Value = {v}
    Tombstone = tomb
    None = none
    Unset = unset
    HashValue = {k1}
    Hash <- HashDistinct
    Batches <- PutOne
    Ranges <- WholeRange
    Lookups <- EveryKey
    MaxTs = 2
    Faults = {"wal", "freeze"}
SPECIFICATION FairSpec
\* The bound on timestamps and on transactions lets the system run out of work.
CHECK_DEADLOCK FALSE
INVARIANTS
    SnapshotRetained
    CommitOrder
PROPERTIES
    SnapshotStable
    AppliedInTsOrder
    CallsReturn
