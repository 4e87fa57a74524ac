SPECIFICATION IndexSpec
CONSTANTS
    u1 = u1
    u2 = u2
    Users = {u1, u2}
    NoOne = NoOne
    VaultType = "Output"
    MaxRound = 1
    Amounts = {1}
    InitialWallet = 1
    Prices <- OnePrice
    PriceUnit = 2
    MinPositions = {1}
    Delistable = {}
    MaxRollbacks = 1
    MaxQueued = 2
    MaxRegistry = 2
SYMMETRY UsersSym
INVARIANTS IndexFollowsRounds IndexedFlowsBalance IndexRowsAddUp
PROPERTIES IndexFollowsReceipts IndexedPayoutsComplete
