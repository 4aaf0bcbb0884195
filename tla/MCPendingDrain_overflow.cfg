\* A finality queue with room for one event.
CONSTANTS
    Records = {1, 2}
    Timestamp <- MCTimestamp
    Creator <- MCCreator
    Needs <- MCNeeds
    MaxPerIdentity = 2
    MaxTotal = 2
    MaxQueue = 1
    EarlySettled = {}
    MaxPrunes = 0
    MaxReadErrors = 0
    MaxUpsets = 0
SPECIFICATION PendingLiveSpec
CHECK_DEADLOCK FALSE
PROPERTIES
    FinalizedCommits
