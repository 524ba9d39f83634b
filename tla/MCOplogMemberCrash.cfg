SPECIFICATION Spec
CONSTANTS
    MaxGTID = 4
    MaxCrashes = 1
    MaxTakeovers = 1
    MaxFailedAttempts = 2
    CrashAfterClone = TRUE
INVARIANT LogsMatch
CHECK_DEADLOCK FALSE
