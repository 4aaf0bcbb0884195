\* Three or four ledger records of one family between transfers, burns, mints and
\* rewards, or two proposals, or the effects of one finality with two lapses.
CONSTANTS
    auth = auth
    v = v
    Identities <- MCIdentities
    Authority = auth
    Records = {1, 2, 3, 4}
    Amounts = {1, 10}
    Times = {1, 2, 3, 4}
    MaxSupply = 26
    MaxWitnessReward = 1
    GenesisTransferCap = 5
    InitialBalances <- MCInitialBalances
    MinStake = 10
    UnstakeCooldown = 1
    GenesisStake <- MCGenesisStake
    MaxJury = 2
    Epochs = {1}
    Sandbox = FALSE
    MinPredictionStake = 10
    PredictedValues = {0, 6}
    Counts = {0, 5}
    MaxPasses = 2
    DormancyThreshold = 1
    WakeupWindow = 1
    WitnessBondMin = 10
    MaxDecay = 1
    Q = 10
    EInvQ = 4
    Tau = 2
    MaxTime = 3
    Voters <- MCIdentities
    Exchanges = {}
    Proposals = {1, 2}
    Category <- MCCategory
    Committee <- MCCommittee
    NoCommittee = NoCommittee
    NoOne = NoOne
    MaxStake = 1
    MinProposalStake = 1
    VotingPeriod = 1
    CommitteeVotingPeriod = 1
    ExecutionDelay = 1
    ChallengePeriod = 2
    TransitionPeriod <- MCTransition
    Rids = {1, 2}
    Witnesses = {"w1", "w2"}
    GenesisHash = auth
    Worthless = {}
    Workers = {1, 2}
    Capacity = 1
    MaxLapses = 2
    MaxBudget = 1
SPECIFICATION ACSpec
CHECK_DEADLOCK FALSE
INVARIANTS
    LedgerConservation
    GovernanceTypeOK
    CountersExact
    SettledInTime
    ParamChangedOnce
    CreditedOnce
    PublishedOnce
    EffectsNotLost
    ClaimsHeld
PROPERTIES
    SlashUnderCap
    PayoutBounds
    WakingRestartsTheClock
    WeighedOnce
    VerdictStands
