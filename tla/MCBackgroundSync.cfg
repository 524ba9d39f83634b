SPECIFICATION Spec
CONSTANTS
    Timestamps = {0}
    SelfID = 1
    HashMod = 1
    MaxPrimarySeqNo = 2
    MaxGTSeqNo = 1
    FirstGTID <- MCFirstGTID
    HighWater = 1
    LowWater = 1
    MaxTries = 2
    MaxFailures = 2
    MaxOps = 2
    MaxMaintenance = 1
    Shutdowns = TRUE
    Reconfigs = TRUE
CONSTRAINT NotBoth
INVARIANTS
    PrimaryIsSettled
    NothingUnappliedIsForgotten
    RollbackFindsNothingQueued
    NoVerifyFails
PROPERTY
    RefinesManager
CHECK_DEADLOCK FALSE
