CONSTANTS
    Key = {1, 2}
    Value = {"v"}
    Tombstone = "tomb"
    Batches <- PutBothTwice
    FreezeAt = 2
    TableSize = 1
    Strategies = {"full", "leveled"}
    Reconfigure = FALSE
    Reader = {}
    Crashes = TRUE
    Faults = {"wal"}
    MaxTs = 3
    MaxId = 4
    MaxLevels = 2
    L0Trigger = 2
    Multiplier = 2
    BaseSize = 2
    NoTask = notask
    NoFile = nofile
    NoReader = noreader
SPECIFICATION Spec
\* The bounds on timestamps and ids let the system run out of work.
CHECK_DEADLOCK FALSE
INVARIANTS
    TypeOK
    LayoutReplayed
    TierOrder
    AlwaysReopenable
    TsFresh
PROPERTIES
    FilesKept
    StoreKept
