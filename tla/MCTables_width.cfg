CONSTANTS
    Key = {1, 2}
    Value = {1, 65536}
    Tombstone = 0
    KeyLen = 9
    BlockSize = 4096
    TargetSSTSize = 4096
    MaxTs = 2
    ReadErrors = TRUE
    NoBuilder = nobuilder
    Ended = ended
    Absent = absent
SPECIFICATION Spec
\* A walk that has ended stops.
CHECK_DEADLOCK FALSE
INVARIANTS
    EntriesIntact
