CONSTANTS
    Key = {1, 2, 3}
    Value = {1, 20}
    Tombstone = 0
    KeyLen = 9
    BlockSize = 37
    TargetSSTSize = 60
    MaxTs = 2
    ReadErrors = TRUE
    NoBuilder = nobuilder
    Ended = ended
    Absent = absent
    MergedKey = {1, 2}
    Sources = 4
    Failing = {3, 4}
    End = end
SPECIFICATION SpecEither
\* A walk that has ended stops.
CHECK_DEADLOCK FALSE
INVARIANTS
    TypeOK
    SizesBounded
    MetaExact
PROPERTIES
    IteratesContents
    MergesSources
