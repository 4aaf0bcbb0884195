\* A checkpoint between two commits out of timestamp order.
CONSTANTS
    Records = {1, 2}
    Timestamp <- MCTimestamp
    Creator <- MCCreator
    Needs <- MCNeeds
    MaxPerIdentity = 2
    MaxTotal = 2
    MaxQueue = 2
    EarlySettled = {}
    MaxPrunes = 0
    MaxReadErrors = 0
    MaxUpsets = 0
    MaxRestarts = 1
SPECIFICATION RestartSpec
CHECK_DEADLOCK FALSE
INVARIANTS
    MarkedIsReplayed
