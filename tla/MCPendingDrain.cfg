\* Two records, the second spends what the first pays, room for one delta, and a failing read or a prune.
CONSTANTS
    Records = {1, 2}
    Timestamp <- MCTimestamp
    Creator <- MCCreator
    Needs <- MCNeeds
    MaxPerIdentity = 1
    MaxTotal = 2
    MaxQueue = 3
    EarlySettled = {2}
    MaxPrunes = 1
    MaxReadErrors = 1
    MaxUpsets = 1
SPECIFICATION PendingLiveSpec
CHECK_DEADLOCK FALSE
INVARIANTS
    AppliedOnce
    MarkedIsApplied
    CommitGated
    ParkedIsDurable
PROPERTIES
    FinalizedCommits
