SPECIFICATION Spec
CONSTANTS
    MaxTxns = 3
    MaxRows = 2
    MaxTime = 2
    MaxParts = 3
    OldCopies = FALSE
INVARIANTS
    RefsAreKept
    PartitionsAreDated
CHECK_DEADLOCK FALSE
