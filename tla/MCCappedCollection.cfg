SPECIFICATION Spec
CONSTANTS
    Clients = {c1, c2}
    MaxObjects = 1
    MaxSize = 8
    K = 2
    MaxDepth = 2
    MaxPK = 3
    MaxTxns = 3
    Updates = TRUE
    Secondaries = TRUE
    CommitsFail = TRUE
SYMMETRY Symmetry
INVARIANTS
    PrimaryReaderMissesNothing
    SecondaryReaderMissesNothing
    LeastKeysAreNoted
    SecondaryStatsAreExact
    StatsAreExact
    NothingOlderIsLeft
CHECK_DEADLOCK FALSE
