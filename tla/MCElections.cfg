SPECIFICATION FairSpec
CONSTANTS
    N = 2
    Votes <- OneVoteEach
    Hot = {0, 1}
    Priority <- Descending
    TenSeconds = 1
    TimeWrap = 8
    FirstTime = 12
    MaxEvents = 1
INVARIANT BoxIsAligned
PROPERTIES BestPrimaryAtLast
