SPECIFICATION FairSpec
CONSTANTS
    A = A
    B = B
    c1 = c1
    Shard = {A, B}
    Coll = {c1}
    Key = {k1}
    Mongos = {w1}
    FirstOwner <- OneAtA
    FirstPin <- Pinned
    MaxMoves = 2
    MaxWrites = 2
    MaxFaults = 1
    LostLockAt = {"check", "donate", "config"}
    AbortAt = {"CATCHUP", "STEADY"}
INVARIANTS
    OwnerHasEverything
    ClaimsAreTrue
PROPERTY
    CriticalSectionEnds
CHECK_DEADLOCK FALSE
