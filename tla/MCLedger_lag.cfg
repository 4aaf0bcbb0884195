\* Two accounts, a flush and a reconciliation of their tree; no fault.
CONSTANTS
    auth = auth
    v = v
    Identities <- MCIdentities
    Authority = auth
    Records = {1, 2, 3}
    Amounts = {10}
    Times = {2, 4}
    MaxSupply = 34
    MaxWitnessReward = 10
    GenesisTransferCap = 5
    InitialBalances <- MCInitialBalances
    MinStake = 10
    UnstakeCooldown = 1
    GenesisStake <- MCGenesisStake
    MaxJury = 0
    Epochs = {1}
    Sandbox = FALSE
    MinPredictionStake = 10
    PredictedValues = {6}
    Counts = {5}
    MaxPasses = 1
    DormancyThreshold = 2
    WakeupWindow = 1
    WitnessBondMin = 10
    MaxDecay = 1
    Ids <- MCIdentities
    GenesisIds = {auth}
    MaxState = 2
    MaxFaults = 0
    MaxScan = 3
    MaxDelete = 1
    NoWriter = NoWriter
    MaxFlushes = 1
    MaxTaken = 2
SPECIFICATION MCSpec
CHECK_DEADLOCK FALSE
INVARIANTS
    LagIsMarked
