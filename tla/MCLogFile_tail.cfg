CONSTANTS
    Kinds = {"manifest"}
    Sizes = {1, 2, 4}
    MaxRecords = 4
    MaxTears <- TwoTorn
    ShortWrites = {}
    NoRecord = norecord
SPECIFICATION Spec
INVARIANTS
    RecoverySucceeds
