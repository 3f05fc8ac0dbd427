CONSTANTS
    Key = {1, 2}
    Value = {"v"}
    Tombstone = "tomb"
    Batches <- PutBothTwice
    FreezeAt = 2
    TableSize = 1
    Strategies = {"full", "leveled"}
    Reconfigure = FALSE
    Reader = {"r"}
    Crashes = FALSE
    Faults = {"manifest", "table"}
    MaxTs = 2
    MaxId = 5
    MaxLevels = 2
    L0Trigger = 1
    Multiplier = 2
    BaseSize = 2
    NoTask = notask
    NoFile = nofile
    NoReader = noreader
SPECIFICATION Spec
\* The bounds on timestamps and ids let the system run out of work.
CHECK_DEADLOCK FALSE
INVARIANTS
    ReadsExpected
    AlwaysReopenable
    TierOrder
    SortedRuns
