\* One prediction and two epochs; the lock is contended when its epoch is sealed.
CONSTANTS
    auth = auth
    p1 = p1
    Identities <- MCIdentities
    Authority = auth
    Records = {1}
    Amounts = {10}
    Times = {1}
    MaxSupply = 25
    MaxWitnessReward = 1
    GenesisTransferCap = 5
    InitialBalances <- MCInitialBalances
    Epochs = {1, 2}
    Sandbox = FALSE
    MinPredictionStake = 10
    PredictedValues = {6}
    Counts = {5}
    MaxPasses = 2
SPECIFICATION PRFairSpec
CHECK_DEADLOCK FALSE
PROPERTIES
    ContendedEvaluated
