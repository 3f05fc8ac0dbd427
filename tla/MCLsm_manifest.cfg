CONSTANTS
    Key = {1, 2}
    Value = {"v"}
    Tombstone = "tomb"
    Batches <- PutDeleteBoth
    FreezeAt = 2
    TableSize = 1
    Strategies = {"full"}
    Reconfigure = FALSE
    Reader = {}
    Crashes = TRUE
    Faults = {"manifest"}
    MaxTs = 3
    MaxId = 4
    MaxLevels = 2
    L0Trigger = 2
    Multiplier = 2
    BaseSize = 2
    NoTask = notask
    NoFile = nofile
    NoReader = noreader
SPECIFICATION Spec
\* The bounds on timestamps and ids let the system run out of work.
CHECK_DEADLOCK FALSE
INVARIANT
    ReadsExpected
