CONSTANTS
    Key = {1, 2}
    Value = {"v"}
    Tombstone = "tomb"
    Tiers = 2
    Memtables = 1
    ReadTs = 2
    MaxTs = 3
    Later = 1
    Commits = {"v"}
    Ranges <- AllRanges
    Unset = unset
    EmptyKey = 0
    ReadErrors = TRUE
    NoKey = nokey
    End = end
SPECIFICATION Spec
\* A scan that has ended stops.
CHECK_DEADLOCK FALSE
INVARIANTS
    EndMeansAll
