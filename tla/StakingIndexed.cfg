SPECIFICATION StakingIndexSpec
CONSTANTS
    ann = ann
    bob = bob
    prod = prod
    staging = staging
    NoRow = NoRow
    Users = {ann, bob}
    Deployments = {prod, staging}
    Production = prod
    Scopes <- ScopesHere
    BucketMax <- BucketsHere
    InitialCap = 3
    Caps <- OneCap
    WeightBase = 2
    WeightCoefficient = 1
    MaxStakes = 4
    MaxLockup = 2
    FixedPenaltyPeriod = 1
    MinPenalty = 0
    MaxPenalty = 2
    PenaltyUnit = 4
    Wad = 2
    RewardAmounts <- ThreeOnly
    RewardDurations <- TwoOnly
    DustThreshold = 1
INVARIANTS StakeLedgersAgree RewardsCovered IndexMirrorsPortfolios IndexTotalsAgree
PROPERTIES EarningsUndisturbed IndexHaltsAtLastExit
CHECK_DEADLOCK FALSE
