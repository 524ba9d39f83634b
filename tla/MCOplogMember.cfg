SPECIFICATION FairSpec
CONSTANTS
    MaxGTID = 4
    MaxCrashes = 2
    MaxTakeovers = 1
    MaxFailedAttempts = 2
    CrashAfterClone = FALSE
INVARIANTS LogsMatch NothingUnappliedIsLost ReplInfoIsSafe
PROPERTY CatchesUp
CHECK_DEADLOCK FALSE
