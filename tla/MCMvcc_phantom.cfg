CONSTANTS
    Client = {c1}
    Txn = {t1, t2}
    Key = {k1, k2}
    Value = {v}
    Tombstone = tomb
    None = none
    Unset = unset
    HashValue = {k1, k2}
    Hash <- HashDistinct
    Batches <- NoInput
    Ranges <- WholeRange
    Lookups <- NoInput
    MaxTs = 2
    Faults = {}
SPECIFICATION Spec
CHECK_DEADLOCK FALSE
INVARIANT
    ScansSerializable
