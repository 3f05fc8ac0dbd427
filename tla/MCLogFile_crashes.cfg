CONSTANTS
    Kinds = {"wal", "wal-sync", "manifest"}
    Sizes = {1, 2, 4}
    MaxRecords = 4
    MaxTears <- OneTornManifest
    ShortWrites = {"wal", "wal-sync"}
    NoRecord = norecord
SPECIFICATION Spec
\* Recovery refuses a file with a short write in its middle.
CHECK_DEADLOCK FALSE
INVARIANTS
    TypeOK
    LogExact
    RecoverySucceeds
