\* Two accounts and two transfers, with every release path and one boot.
CONSTANTS
    a = a
    b = b
    t1 = t1
    t2 = t2
    Identities <- MCIdentities
    Transfers <- MCTransfers
    Amounts = {1, 2}
    Supply = 3
    ClaimTimeout = 1
    ReapHorizon = 1
    PruneAge = 2
    CommitteeSizes = {1, 3}
    SealEpochs = {0, 1}
    MaxTime = 3
    MaxRestarts = 1
    MaxLockTime = 0
SPECIFICATION MCSpec
CHECK_DEADLOCK FALSE
INVARIANTS
    EscrowBooks
    EscrowConservation
    IndexSound
PROPERTIES
    SealSplitsReleases
    ReleasedIsFinal
    ImplementsEscrow
    EveryLockReleased
