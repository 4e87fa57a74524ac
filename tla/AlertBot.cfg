SPECIFICATION FairSpec
CONSTANTS
    mainnet = mainnet
    base = base
    NetworkOrder <- BothNetworks
    Jobs = {1, 2}
    Window = 0
    MaxBlocks = 3
    Scopes <- ScopesHere
INVARIANTS NothingPassedOver ToldOnce
PROPERTIES FileGoesOn EveryLogSettled
