CONSTANTS
    Strategies = {"full", "leveled", "none"}
    Table = {1, 2, 3, 4}
    MaxSize = 4
    MaxLevels = 3
    L0Trigger = 2
    Multiplier = 2
    BaseSize = 2
    NoTask = notask
SPECIFICATION Spec
\* A closed engine stops.
CHECK_DEADLOCK FALSE
INVARIANTS
    TypeOK
    TablesPlacedOnce
    QuietWhenClosed
PROPERTIES
    CloseReturns
    TablesLeaveL0
