SPECIFICATION Spec
CONSTANTS
    u1 = u1
    u2 = u2
    Users = {u1, u2}
    NoOne = NoOne
    VaultType = "Input"
    MaxRound = 2
    Amounts <- OneTwo
    InitialWallet = 2
    Prices <- ThreePrices
    PriceUnit = 2
    MinPositions = {0}
    Delistable = {}
    MaxRollbacks = 1
SYMMETRY UsersSym
INVARIANTS TypeOK RoundsInOrder SettledRoundSolvent ReceiptLedgersAgree PrincipalBacked
PROPERTIES SettledIsFinal ImplementsPromise
