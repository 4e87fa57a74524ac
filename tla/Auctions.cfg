SPECIFICATION RaftSpec
CONSTANTS
    a1 = a1
    a2 = a2
    buffer = buffer
    rwd = rwd
    usd = usd
    Arks = {a1, a2, buffer}
    Tokens = {rwd, usd}
    AssetOf <- Assets
    BufferOf <- Buffers
    KeeperDataArks = {a2}
    Hundred = 2
    TokenUnit = 2
    Wei = 2
    AuctionParams <- FewParams
    Yielding <- SomeYielding
    Configurable <- BothConfigured
    Listable <- SomeListed
    RewardAmounts = {2}
    BuyAmounts = {1, 2}
    MaxIncomes = 2
    MaxTime = 3
INVARIANTS TypeOK ProceedsReachArk TokensAccountedFor NoPaymentLeftBehind
PROPERTIES PriceOnlyFalls
