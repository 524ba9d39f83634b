SPECIFICATION TailSpec
CONSTANTS
    Timestamps = {0}
    SelfID = 1
    HashMod = 1
    MaxPrimarySeqNo = 2
    MaxGTSeqNo = 2
    MaxEntries = 4
    Races = FALSE
INVARIANTS
    ManagerInv
    MethodAssertsHold
    CursorMissesNothing
    CursorReturnsCommitted
PROPERTIES
    MinLiveNeverMovesBack
    GTIDsNeverReused
