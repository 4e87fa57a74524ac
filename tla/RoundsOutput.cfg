SPECIFICATION FairSpec
CONSTANTS
    u1 = u1
    u2 = u2
    Users = {u1, u2}
    NoOne = NoOne
    VaultType = "Output"
    MaxRound = 2
    Amounts <- JustOne
    InitialWallet = 2
    Prices <- TwoPrices
    PriceUnit = 2
    MinPositions = {0, 2}
    Delistable = {u1}
    MaxRollbacks = 1
INVARIANTS ExchangeBacked
PROPERTIES MinPositionKept ClosedRoundsSettle
