SPECIFICATION Spec
CONSTANTS
    MaxTxns = 3
    MaxRows = 2
    MaxTime = 2
    MaxParts = 3
    OldCopies = TRUE
INVARIANTS
    RefsAreKept
CHECK_DEADLOCK FALSE
