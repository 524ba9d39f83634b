SPECIFICATION FairSpec
CONSTANTS
    Timestamps = {0}
    SelfID = 1
    HashMod = 1
    MaxPrimarySeqNo = 1
    MaxGTSeqNo = 2
    FirstGTID <- MCFirstGTID
    HighWater = 1
    LowWater = 1
    MaxTries = 2
    MaxFailures = 1
    MaxOps = 2
    MaxMaintenance = 1
    Shutdowns = FALSE
    Reconfigs = TRUE
INVARIANTS
    StateMatchesReplication
PROPERTIES
    StopReturns
    StartReturns
    EveryEntryIsApplied
    ProducerIsReleased
