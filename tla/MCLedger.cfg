\* Three records of any kind, applied in any order; or two accounts, their tree and two of
\* its writers.
CONSTANTS
    auth = auth
    v = v
    Identities <- MCIdentities
    Authority = auth
    Records = {1, 2, 3}
    Amounts = {10}
    Times = {2, 4}
    MaxSupply = 34
    MaxWitnessReward = 10
    GenesisTransferCap = 5
    InitialBalances <- MCInitialBalances
    MinStake = 10
    UnstakeCooldown = 1
    GenesisStake <- MCGenesisStake
    MaxJury = 0
    Epochs = {1}
    Sandbox = FALSE
    MinPredictionStake = 10
    PredictedValues = {6}
    Counts = {5}
    MaxPasses = 1
    DormancyThreshold = 2
    WakeupWindow = 1
    WitnessBondMin = 10
    MaxDecay = 1
    Ids <- MCIdentities
    GenesisIds = {auth}
    MaxState = 2
    MaxFaults = 1
    MaxScan = 3
    MaxDelete = 1
    NoWriter = NoWriter
    MaxFlushes = 2
    MaxTaken = 2
SPECIFICATION MCSpec
CHECK_DEADLOCK FALSE
INVARIANTS
    LedgerTypeOK
    LedgerConservation
    StakeBooks
    RootMatchesLeaves
PROPERTIES
    FlushLeavesNoLag
    ReconcileExact
