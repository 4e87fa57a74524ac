SPECIFICATION Spec
CONSTANTS
    u1 = u1
    u2 = u2
    a1 = a1
    a2 = a2
    Users = {u1}
    TipJar = TipJar
    RewardsManager = RewardsManager
    Arks = {a1}
    Buffer = Buffer
    KeeperDataArks = {}
    InitialArks = {}
    InitialWallet = 2
    InitialConfig <- FleetCapped
    InitialArkConfig <- ArkOpen
    InitialTipRate = 0
    Unlimited = 1000
    MaxUint = MaxUint
    Hundred = 4
    Year = 1
    MaxTipRate = 1
    StartTime = 1
    MaxTime = 3
    MinimumPauseTime = 1
    MinCooldown = 0
    MaxCooldown = 1
    InitialCooldown = 0
    OperationsLimit = 3
    Explored = {"rebalances", "config", "pauses", "transfers", "tips"}
    Receivers = {u1}
    Amounts = {2}
    ShareAmounts = {2}
    Legs <- UserLegs
    MaxLegs = 1
    TipRates = {1}
    DepositCaps = {0, 4}
    ArkCaps = {0, 9}
    Percentages = {4}
    FlowLimits = {9}
    BufferMinimums = {0}
    OperationLimits = {3}
    PauseTimes = {2}
    Cooldowns = {1}
    Gains = {2}
    Losses = {1}
    MaxValueMoves = 0
PROPERTIES PauseHolds
INVARIANTS BalancesMatchSupply NoAssetsOutsideFleet
