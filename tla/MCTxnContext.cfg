SPECIFICATION Spec
CONSTANTS
    MemLimit = 1
    MaxSize = 4
    Header = 1
    Sizes = {1, 3}
    MaxDepth = 3
    MaxOps = 4
    MaxTxns = 3
INVARIANTS
    VerifiesHold
    MemberHasAppliedPrefix
    MigrateLogIsExact
PROPERTY
    EntriesAreTransactions
CHECK_DEADLOCK FALSE
