CONSTANTS
    Key = {1, 2}
    Value = {"v"}
    Tombstone = "tomb"
    Batches <- PutBoth
    FreezeAt = 2
    TableSize = 1
    Strategies = {"full"}
    Reconfigure = FALSE
    Reader = {}
    Crashes = TRUE
    Faults = {}
    MaxTs = 1
    MaxId = 2
    MaxLevels = 2
    L0Trigger = 2
    Multiplier = 2
    BaseSize = 2
    NoTask = notask
    NoFile = nofile
    NoReader = noreader
SPECIFICATION Spec
\* The bounds on timestamps and ids let the system run out of work.
CHECK_DEADLOCK FALSE
INVARIANT
    BatchAtomic
