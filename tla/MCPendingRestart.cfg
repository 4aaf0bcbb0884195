\* Two records and a restart, or one record, two restarts, sweeps and prunes.
CONSTANTS
    Records = {1, 2}
    Timestamp <- MCTimestamp
    Creator <- MCCreator
    Needs <- MCNeeds
    MaxPerIdentity = 2
    MaxTotal = 1
    MaxQueue = 2
    EarlySettled = {}
    MaxPrunes = 2
    MaxReadErrors = 0
    MaxUpsets = 2
    MaxRestarts = 2
SPECIFICATION MCSpec
CHECK_DEADLOCK FALSE
INVARIANTS
    RestartTypeOK
    CommittedOnce
    LostBelowFloor
PROPERTIES
    RearmedCommits
