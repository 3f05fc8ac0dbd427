CONSTANTS
    Key = {1, 2, 3, 4}
    MaxLevel = 3
    MaxBatch = 2
    Reader = {"r"}
    Reordered = FALSE
SPECIFICATION Spec
INVARIANTS
    SearchExact
    IterationExact
