CONSTANTS
    o1 = o1
    s1 = s1
    wa = wa
    wb = wb
    wc = wc
    Ordinary = {o1}
    Seals = {s1}
    Stakers = {wa, wb, wc}
    Stake <- MCStake
    CreatorOf <- MCCreatorOf
    Listed <- MCListed
    LocalSeals = {s1}
    ClusterOf <- MCClusterOf
    MinWitnesses = 2
    MinClusters = 2
    MaxUnresolved = 1
    MaxPruneTicks = 1
    None = None
SPECIFICATION MCSpec
CHECK_DEADLOCK FALSE
INVARIANTS
    NoSelfAttestation
    MembersFinalWhileKept
PROPERTIES
    DowngradeKeepsFinality
    FinalIsIndexed
