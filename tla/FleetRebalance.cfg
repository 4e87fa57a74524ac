SPECIFICATION Spec
CONSTANTS
    u1 = u1
    u2 = u2
    a1 = a1
    a2 = a2
    Users = {u1}
    TipJar = TipJar
    RewardsManager = RewardsManager
    Arks = {a1, a2}
    Buffer = Buffer
    KeeperDataArks = {a2}
    InitialArks = {a1, a2}
    InitialWallet = 5
    InitialConfig <- FleetCapped5
    InitialArkConfig <- ArkTight
    InitialTipRate = 0
    Unlimited = 1000
    MaxUint = MaxUint
    Hundred = 4
    Year = 1
    MaxTipRate = 1
    StartTime = 1
    MaxTime = 2
    MinimumPauseTime = 1
    MinCooldown = 0
    MaxCooldown = 1
    InitialCooldown = 1
    OperationsLimit = 3
    Explored = {"rebalances"}
    Receivers = {u1}
    Amounts = {2, 5}
    ShareAmounts = {1}
    Legs <- RebalanceLegs
    MaxLegs = 3
    TipRates = {0}
    DepositCaps = {}
    ArkCaps = {0}
    Percentages = {2}
    FlowLimits = {3}
    BufferMinimums = {2}
    OperationLimits = {2}
    PauseTimes = {}
    Cooldowns = {}
    Gains = {1}
    Losses = {1}
    MaxValueMoves = 1
PROPERTIES RebalanceRespectsArkLimits
