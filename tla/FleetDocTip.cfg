SPECIFICATION Spec
CONSTANTS
    u1 = u1
    u2 = u2
    a1 = a1
    a2 = a2
    Users = {u1}
    TipJar = TipJar
    RewardsManager = RewardsManager
    Arks = {a1}
    Buffer = Buffer
    KeeperDataArks = {}
    InitialArks = {a1}
    InitialWallet = 400
    InitialConfig <- FleetUncapped
    InitialArkConfig <- ArkOpen
    InitialTipRate = 1
    Unlimited = 1000
    MaxUint = MaxUint
    Hundred = 20
    Year = 1
    MaxTipRate = 1
    StartTime = 1
    MaxTime = 2
    MinimumPauseTime = 1
    MinCooldown = 0
    MaxCooldown = 1
    InitialCooldown = 0
    OperationsLimit = 3
    Explored = {"rebalances", "tips"}
    Receivers = {u1}
    Amounts = {400}
    ShareAmounts = {400}
    Legs = {}
    MaxLegs = 1
    TipRates = {0}
    DepositCaps = {}
    ArkCaps = {}
    Percentages = {}
    FlowLimits = {}
    BufferMinimums = {}
    OperationLimits = {}
    PauseTimes = {}
    Cooldowns = {}
    Gains = {2}
    Losses = {1}
    MaxValueMoves = 1
PROPERTIES TipOnPreTipSupply
