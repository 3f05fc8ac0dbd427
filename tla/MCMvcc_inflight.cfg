CONSTANTS
    Client = {c1, c2}
    Txn = {t1}
    Key = {k1}
    Value = {v}
    Tombstone = tomb
    None = none
    Unset = unset
    HashValue = {k1}
    Hash <- HashDistinct
    Batches <- PutOne
    Ranges <- WholeRange
    Lookups <- NoInput
    MaxTs = 2
    Faults = {}
SPECIFICATION Spec
CHECK_DEADLOCK FALSE
PROPERTY
    EverySnapshotStable
