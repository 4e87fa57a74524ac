--------------------------- MODULE FleetCommander ---------------------------
(***************************************************************************)
(* FleetCommander: the ERC-4626 vault that spreads its assets over a       *)
(* buffer ark and the active arks, with its Tipper, its config provider,   *)
(* its pausing, its rebalance cooldown and the arks' own accounting.       *)
(*                                                                         *)
(* One external call is one transaction and one action; a call that        *)
(* reverts is a step that is not there.  A call made for somebody else     *)
(* with an allowance acts for the owner, so the caller of a withdrawal is  *)
(* the owner.  The transient cache lives inside one call and is filled at  *)
(* its start with the values the model reads directly.                     *)
(*                                                                         *)
(* An operator whose comment starts with `Slip:' is no part of the model:  *)
(* it is a way its successor could go wrong in the code, put in its place  *)
(* to see that the properties notice.                                      *)
(***************************************************************************)
EXTENDS ShareMath, Sequences, SequencesExt, FiniteSets

CONSTANTS
    Users,             \* depositors
    TipJar,            \* the tip jar's account
    RewardsManager,    \* config.stakingRewardsManager's account
    Arks,              \* arks the governor may add
    Buffer,            \* the buffer ark
    KeeperDataArks,    \* arks with requiresKeeperData
    InitialArks,       \* arks active from the start
    InitialWallet,     \* assets each account starts with
    InitialConfig,     \* [depositCap, minimumBufferBalance, maxRebalanceOperations]
    InitialArkConfig,  \* [depositCap, maxPercentage, maxInflow, maxOutflow]
    InitialTipRate,
    Unlimited,         \* Constants.MAX_UINT256 as a cap or a limit
    MaxUint,           \* Constants.MAX_UINT256 as an amount
    Hundred,           \* PERCENTAGE_100
    Year,              \* SECONDS_PER_YEAR in ticks
    MaxTipRate,        \* MAX_TIP_RATE
    StartTime, MaxTime,  \* bound: the clock
    MinimumPauseTime,  \* MINIMUM_PAUSE_TIME_SECONDS
    MinCooldown, MaxCooldown, InitialCooldown,
    OperationsLimit,   \* MAX_REBALANCE_OPERATIONS
    Explored,          \* bound: the groups of calls a run explores
    \* bounds: the arguments of the calls
    Receivers, Amounts, ShareAmounts, Legs, MaxLegs, TipRates, DepositCaps,
    ArkCaps, Percentages, FlowLimits, BufferMinimums, OperationLimits, PauseTimes,
    Cooldowns, Gains, Losses, MaxValueMoves

Accounts == Users \cup {TipJar, RewardsManager}
AllArks == Arks \cup {Buffer}

\* The fleet's and the arks' parameters, unsigned integers.
FleetConfigs == [depositCap : Nat, minimumBufferBalance : Nat, maxRebalanceOperations : Nat]
ArkConfigs   == [depositCap : Nat, maxPercentage : 0..Hundred, maxInflow : Nat, maxOutflow : Nat]

ASSUME AccountAssumption == /\ IsFiniteSet(Users) /\ IsFiniteSet(Arks)
                            /\ TipJar \notin Users /\ TipJar # RewardsManager
                            /\ Buffer \notin Arks
                            /\ InitialArks \subseteq Arks
                            /\ KeeperDataArks \subseteq Arks
                            /\ Receivers \subseteq Accounts
ASSUME NumberAssumption  == /\ Hundred \in Nat \ {0} /\ Year \in Nat \ {0}
                            /\ MaxTipRate \in Nat /\ InitialTipRate \in 0..MaxTipRate
                            /\ MinCooldown \in Nat /\ MaxCooldown \in Nat
                            /\ InitialCooldown \in MinCooldown..MaxCooldown
                            /\ StartTime \in Nat /\ MaxTime \in Nat
                            /\ MaxCooldown <= StartTime /\ StartTime <= MaxTime
                            /\ MinimumPauseTime \in Nat
                            /\ InitialWallet \in Nat /\ MaxValueMoves \in Nat
                            /\ Unlimited \in Nat /\ MaxUint \notin Nat
ASSUME ConfigAssumption  == /\ InitialConfig \in FleetConfigs
                            /\ InitialArkConfig \in ArkConfigs
ASSUME ArgumentAssumption ==
    /\ Amounts \cup ShareAmounts \cup Gains \cup Losses \subseteq Nat
    /\ TipRates \cup DepositCaps \cup BufferMinimums \cup OperationLimits \subseteq Nat
    /\ ArkCaps \cup Percentages \cup FlowLimits \cup PauseTimes \subseteq Nat
ASSUME LegAssumption     == Legs \subseteq
                              [from : AllArks, to : AllArks, amount : Nat \cup {MaxUint}]

VARIABLES
    shares,            \* ERC-20 balances of the fleet's shares
    totalShares,       \* ERC-20 _totalSupply, tips not yet minted left out
    wallet,            \* asset balances of the accounts
    arkAssets,         \* totalAssets() of each ark
    illiquid,          \* arks whose market cannot pay out at the moment
    activeArks,        \* _activeArks
    commanderRole,     \* arks on which the fleet holds COMMANDER_ROLE
    arkConfig,         \* the config of each ark
    config,            \* config of the fleet
    tipRate, lastTipTimestamp,
    paused, pauseStartTime, minimumPauseTime,
    cooldown, lastActionTimestamp,
    transfersEnabled,
    now,               \* block.timestamp
    valueMoves         \* gains and losses so far (counts up to MaxValueMoves)

arkVars    == <<arkAssets, illiquid>>
clockVars  == <<now, valueMoves>>
setupVars  == <<activeArks, commanderRole, arkConfig, config>>
pauseVars  == <<paused, pauseStartTime, minimumPauseTime>>
vars == <<shares, totalShares, wallet, arkAssets, illiquid, activeArks,
          commanderRole, arkConfig, config, tipRate, lastTipTimestamp, paused,
          pauseStartTime, minimumPauseTime, cooldown, lastActionTimestamp,
          transfersEnabled, now, valueMoves>>

---------------------------------------------------------------------------
(* Assets *)

FleetArks == activeArks \cup {Buffer}
TotalAssets == SumOver(arkAssets, FleetArks)

\* Ark.withdrawableTotalAssets: nothing without the keeper's data, otherwise
\* what the market of the ark can pay.
WithdrawableAssets(ark) ==
    IF ark \in KeeperDataArks \/ ark \in illiquid THEN 0 ELSE arkAssets[ark]
WithdrawableTotalAssets == SumOver([a \in AllArks |-> WithdrawableAssets(a)], FleetArks)

ArkConfigOf(ark) ==
    IF ark = Buffer
    THEN [depositCap |-> Unlimited, maxPercentage |-> Hundred,
          maxInflow |-> Unlimited, maxOutflow |-> Unlimited]
    ELSE arkConfig[ark]

EffectiveArkDepositCap(ark, tvl) ==
    Smaller(ApplyPercentage(tvl, ArkConfigOf(ark).maxPercentage, Hundred),
            ArkConfigOf(ark).depositCap)

---------------------------------------------------------------------------
(* Tips *)

CalculateTip(totalSharesArg, timeElapsed) ==
    ApplyPercentage(totalSharesArg, (timeElapsed * tipRate) \div Year, Hundred)

PreviewTip(supply) ==
    IF now = lastTipTimestamp \/ tipRate = 0 THEN 0
    ELSE CalculateTip(supply - shares[TipJar], now - lastTipTimestamp)

\* totalSupply() outside a collecting call: the tip to come is included.
TotalSupplyView == totalShares + PreviewTip(totalShares)

\* The effect of _accrueTip(tipJar, supply) on the clock of the tips.
AccrueClock(supply) ==
    lastTipTimestamp' =
        IF tipRate = 0 \/ PreviewTip(supply) > 0 THEN now ELSE lastTipTimestamp

\* The state modifier collectTip leaves to the body: the tip is computed on,
\* and added to, the supply without the tip to come.
Tip == PreviewTip(totalShares)

\* Slip: the supply is read before the tip is minted.
UntippedSupply == totalShares
TippedSupply == totalShares + Tip
TippedShares == [shares EXCEPT ![TipJar] = @ + Tip]
CollectTip == AccrueClock(totalShares)

---------------------------------------------------------------------------
(* Deposits *)

\* What maxDeposit leaves below the cap, limited by the caller's balance.
MaxDeposit(caller) ==
    Smaller(IF TotalAssets > config.depositCap THEN 0
            ELSE config.depositCap - TotalAssets, wallet[caller])

\* Slip: the limit in shares is rounded up.
MaxMintUp(caller) == SharesUp(MaxDeposit(caller), TotalAssets, TippedSupply)

MaxMint(caller) == SharesDown(MaxDeposit(caller), TotalAssets, TippedSupply)

TakeIn(caller, receiver, assets, newShares) ==
    /\ CollectTip
    /\ shares' = [TippedShares EXCEPT ![receiver] = @ + newShares]
    /\ totalShares' = TippedSupply + newShares
    /\ wallet' = [wallet EXCEPT ![caller] = @ - assets]
    /\ arkAssets' = [arkAssets EXCEPT ![Buffer] = @ + assets]
    /\ UNCHANGED <<illiquid, setupVars, tipRate, pauseVars, cooldown,
                   lastActionTimestamp, transfersEnabled, clockVars>>

Deposit(caller, receiver, assets) ==
    /\ ~paused
    /\ assets # 0
    /\ assets <= MaxDeposit(caller)
    /\ TakeIn(caller, receiver, assets, SharesDown(assets, TotalAssets, TippedSupply))

Mint(caller, receiver, newShares) ==
    LET assets == AssetsUp(newShares, TotalAssets, TippedSupply) IN
    /\ ~paused
    /\ newShares # 0
    /\ newShares <= MaxMint(caller)
    /\ assets <= wallet[caller]
    /\ TakeIn(caller, receiver, assets, newShares)

---------------------------------------------------------------------------
(* Withdrawals *)

\* Slip: the value of the shares is rounded up.
RedeemValueUp(owner) == AssetsUp(TippedShares[owner], TotalAssets, TippedSupply)

\* previewRedeem(balanceOf(owner)).
RedeemValue(owner) == AssetsDown(TippedShares[owner], TotalAssets, TippedSupply)

MaxBufferWithdraw(owner) == Smaller(arkAssets[Buffer], RedeemValue(owner))
MaxWithdraw(owner) == Smaller(WithdrawableTotalAssets, RedeemValue(owner))
MaxRedeem(owner) ==
    Smaller(SharesDown(WithdrawableTotalAssets, TotalAssets, TippedSupply),
            TippedShares[owner])
MaxBufferRedeem(owner) ==
    Smaller(SharesUp(arkAssets[Buffer], TotalAssets, TippedSupply),
            TippedShares[owner])

\* Burn of the owner's shares and payment to the receiver, after the arks
\* have paid the vault.
PayOut(owner, receiver, assets, burnt) ==
    /\ CollectTip
    /\ TippedShares[owner] >= burnt
    /\ shares' = [TippedShares EXCEPT ![owner] = @ - burnt]
    /\ totalShares' = TippedSupply - burnt
    /\ wallet' = [wallet EXCEPT ![receiver] = @ + assets]
    /\ UNCHANGED <<illiquid, setupVars, tipRate, pauseVars, cooldown,
                   transfersEnabled, clockVars>>

PayFromBuffer(owner, receiver, assets, burnt) ==
    /\ arkAssets[Buffer] >= assets
    /\ arkAssets' = [arkAssets EXCEPT ![Buffer] = @ - assets]
    /\ PayOut(owner, receiver, assets, burnt)
    /\ UNCHANGED lastActionTimestamp

\* Slip: every ark is asked for the whole amount.
DrainedFromEach(ark, assets, rank) == Smaller(WithdrawableAssets(ark), assets)

\* _forceDisembarkFromSortedArks: the arks that can pay, by ascending assets;
\* `rank` orders those with the same assets.
DrainedFrom(ark, assets, rank) ==
    LET before == {a \in FleetArks :
                     \/ WithdrawableAssets(a) < WithdrawableAssets(ark)
                     \/ /\ WithdrawableAssets(a) = WithdrawableAssets(ark)
                        /\ rank[a] < rank[ark]}
        earlier == SumOver([a \in AllArks |-> WithdrawableAssets(a)], before)
    IN  IF earlier >= assets THEN 0
        ELSE Smaller(WithdrawableAssets(ark), assets - earlier)

Rankings == {r \in [AllArks -> 1..Cardinality(AllArks)] :
                \A a, b \in AllArks : r[a] = r[b] => a = b}

PayFromArks(owner, receiver, assets, burnt) ==
    /\ \E rank \in Rankings :
          arkAssets' = [a \in AllArks |->
              IF a \in FleetArks THEN arkAssets[a] - DrainedFrom(a, assets, rank)
              ELSE arkAssets[a]]
    /\ PayOut(owner, receiver, assets, burnt)
    /\ lastActionTimestamp' = 0

WithdrawFromBuffer(owner, receiver, assets) ==
    LET burnt == SharesUp(assets, TotalAssets, TippedSupply) IN
    /\ ~paused
    /\ burnt # 0
    /\ assets <= MaxBufferWithdraw(owner)
    /\ PayFromBuffer(owner, receiver, assets, burnt)

RedeemFromBuffer(owner, receiver, burnt) ==
    /\ ~paused
    /\ burnt # 0
    /\ burnt <= MaxBufferRedeem(owner)
    /\ PayFromBuffer(owner, receiver, AssetsDown(burnt, TotalAssets, TippedSupply), burnt)

WithdrawFromArks(owner, receiver, assets) ==
    LET burnt == SharesUp(assets, TotalAssets, TippedSupply) IN
    /\ ~paused
    /\ burnt # 0
    /\ assets <= MaxWithdraw(owner)
    /\ PayFromArks(owner, receiver, assets, burnt)

RedeemFromArks(owner, receiver, burnt) ==
    /\ ~paused
    /\ burnt # 0
    /\ burnt <= MaxRedeem(owner)
    /\ PayFromArks(owner, receiver, AssetsDown(burnt, TotalAssets, TippedSupply), burnt)

Withdraw(owner, receiver, amount) ==
    LET assets == IF amount = MaxUint THEN RedeemValue(owner) ELSE amount IN
    \/ /\ assets <= arkAssets[Buffer]
       /\ WithdrawFromBuffer(owner, receiver, assets)
    \/ /\ assets > arkAssets[Buffer]
       /\ WithdrawFromArks(owner, receiver, assets)

Redeem(owner, receiver, amount) ==
    LET burnt == IF amount = MaxUint THEN TippedShares[owner] ELSE amount
        bufferInShares == SharesDown(arkAssets[Buffer], TotalAssets, TippedSupply)
    IN
    \/ /\ burnt <= bufferInShares
       /\ RedeemFromBuffer(owner, receiver, burnt)
    \/ /\ burnt > bufferInShares
       /\ RedeemFromArks(owner, receiver, burnt)

---------------------------------------------------------------------------
(* Tips and transfers *)

\* tip() and setTipRate() pass totalSupply() while the collecting flag is not
\* set, so the supply they accrue on already includes the tip to come.
AccrueOnView ==
    LET minted == PreviewTip(TotalSupplyView) IN
    /\ AccrueClock(TotalSupplyView)
    /\ shares' = [shares EXCEPT ![TipJar] = @ + minted]
    /\ totalShares' = totalShares + minted

TipCall ==
    /\ ~paused
    /\ AccrueOnView
    /\ UNCHANGED <<wallet, arkVars, setupVars, tipRate, pauseVars, cooldown,
                   lastActionTimestamp, transfersEnabled, clockVars>>

\* Slip: any rate is accepted.
AnyTipRate(newTipRate) == TRUE

\* The bound _setTipRate puts on the rate.
ValidTipRate(newTipRate) == newTipRate <= MaxTipRate

SetTipRate(newTipRate) ==
    /\ ~paused
    /\ ValidTipRate(newTipRate)
    /\ AccrueOnView
    /\ tipRate' = newTipRate
    /\ UNCHANGED <<wallet, arkVars, setupVars, pauseVars, cooldown,
                   lastActionTimestamp, transfersEnabled, clockVars>>

\* Slip: both balances are read before either is written.
TransferStale(spender, from, to, amount) ==
    /\ transfersEnabled \/ spender = RewardsManager
    /\ shares[from] >= amount
    /\ shares' = [shares EXCEPT ![from] = @ - amount, ![to] = shares[to] + amount]
    /\ UNCHANGED <<totalShares, wallet, arkVars, setupVars, tipRate,
                   lastTipTimestamp, pauseVars, cooldown, lastActionTimestamp,
                   transfersEnabled, clockVars>>

\* transfer (spender = from) and transferFrom (spender approved by from).
Transfer(spender, from, to, amount) ==
    /\ transfersEnabled \/ spender = RewardsManager
    /\ shares[from] >= amount
    /\ shares' = [[shares EXCEPT ![from] = @ - amount] EXCEPT ![to] = @ + amount]
    /\ UNCHANGED <<totalShares, wallet, arkVars, setupVars, tipRate,
                   lastTipTimestamp, pauseVars, cooldown, lastActionTimestamp,
                   transfersEnabled, clockVars>>

---------------------------------------------------------------------------
(* Rebalancing *)

\* _validateAdjustBuffer, before any leg is executed: the net change of the
\* buffer with MaxUint read as what the source ark holds at that moment.
NetBufferChange(legs) ==
    LET change(leg) ==
            IF leg.to = Buffer
            THEN IF leg.amount = MaxUint THEN arkAssets[leg.from] ELSE leg.amount
            ELSE IF leg.from = Buffer THEN -leg.amount ELSE 0
    IN  FoldLeft(LAMBDA acc, leg : acc + change(leg), 0, legs)

AdjustBufferValid(legs) ==
    /\ \A i \in DOMAIN legs :
          legs[i].from = Buffer /\ legs[i].to # Buffer => legs[i].amount # MaxUint
    /\ NetBufferChange(legs) < 0 =>
          /\ arkAssets[Buffer] > config.minimumBufferBalance
          /\ -NetBufferChange(legs) <= arkAssets[Buffer] - config.minimumBufferBalance

\* Slip: each leg is held against the limits on its own.
NoFlow(flows, ark) == 0

\* cacheArkFlow: what the legs before this one moved into or out of the ark.
FlowSoFar(flows, ark) == flows[ark]

\* _reallocateAssets: one leg, executed on the state the legs before it left.
\* `st` holds the arks' assets and the flows of this call so far.
ReallocateAssets(st, leg) ==
    LET amount == IF leg.amount = MaxUint THEN st.assets[leg.from] ELSE leg.amount
        inflow == FlowSoFar(st.inflow, leg.to) + amount
        outflow == FlowSoFar(st.outflow, leg.from) + amount
        tvl == SumOver(st.assets, FleetArks)
        valid == /\ st.ok
                 /\ amount # 0
                 /\ leg.to \in FleetArks /\ leg.from \in FleetArks
                 /\ ArkConfigOf(leg.to).depositCap # 0
                 /\ outflow <= ArkConfigOf(leg.from).maxOutflow
                 /\ inflow <= ArkConfigOf(leg.to).maxInflow
                 /\ st.assets[leg.to] + amount <= EffectiveArkDepositCap(leg.to, tvl)
                 /\ leg.from \notin illiquid
                 /\ st.assets[leg.from] >= amount
    IN  IF ~valid THEN [st EXCEPT !.ok = FALSE]
        ELSE [ok |-> TRUE,
              assets |-> [[st.assets EXCEPT ![leg.from] = @ - amount]
                                     EXCEPT ![leg.to] = @ + amount],
              inflow |-> [st.inflow EXCEPT ![leg.to] = inflow],
              outflow |-> [st.outflow EXCEPT ![leg.from] = outflow]]

ReallocateAllAssets(legs) ==
    LET none == [a \in AllArks |-> 0] IN
    FoldLeft(ReallocateAssets,
             [ok |-> TRUE, assets |-> arkAssets, inflow |-> none, outflow |-> none],
             legs)

RebalanceBody(legs) ==
    LET outcome == ReallocateAllAssets(legs) IN
    /\ ~paused
    /\ Len(legs) <= config.maxRebalanceOperations
    /\ Len(legs) # 0
    /\ AdjustBufferValid(legs)
    /\ outcome.ok
    /\ arkAssets' = outcome.assets
    /\ CollectTip
    /\ shares' = TippedShares
    /\ totalShares' = TippedSupply
    /\ UNCHANGED <<wallet, illiquid, setupVars, tipRate, pauseVars, cooldown,
                   transfersEnabled, clockVars>>

Rebalance(legs) ==
    /\ now - lastActionTimestamp >= cooldown
    /\ RebalanceBody(legs)
    /\ lastActionTimestamp' = now

ForceRebalance(legs) ==
    /\ RebalanceBody(legs)
    /\ UNCHANGED lastActionTimestamp

---------------------------------------------------------------------------
(* Configuration *)

FundsUnchanged == UNCHANGED <<shares, totalShares, wallet, arkVars, tipRate,
                              lastTipTimestamp, clockVars>>
RestUnchanged == UNCHANGED <<pauseVars, cooldown, lastActionTimestamp,
                             transfersEnabled>>

\* The governor grants the fleet the commander role of an ark it will add.
GrantCommanderRole(ark) ==
    /\ commanderRole' = commanderRole \cup {ark}
    /\ UNCHANGED <<activeArks, arkConfig, config>>
    /\ FundsUnchanged /\ RestUnchanged

AddArk(ark) ==
    /\ ~paused
    /\ ark \notin FleetArks
    /\ ark \in commanderRole
    /\ activeArks' = activeArks \cup {ark}
    /\ UNCHANGED <<commanderRole, arkConfig, config>>
    /\ FundsUnchanged /\ RestUnchanged

\* Slip: only the cap of the ark is checked.
CapIsZero(ark) == arkConfig[ark].depositCap = 0

\* _validateArkRemoval.
ArkRemovable(ark) == arkConfig[ark].depositCap = 0 /\ arkAssets[ark] = 0

RemoveArk(ark) ==
    /\ ~paused
    /\ ark \in activeArks
    /\ ArkRemovable(ark)
    /\ activeArks' = activeArks \ {ark}
    /\ commanderRole' = commanderRole \ {ark}
    /\ UNCHANGED <<arkConfig, config>>
    /\ FundsUnchanged /\ RestUnchanged

\* setArkDepositCap, setArkMaxDepositPercentageOfTVL, setArkMaxRebalanceInflow
\* and setArkMaxRebalanceOutflow; `newConfig` differs in the field being set.
SetArkConfig(ark, newConfig) ==
    /\ ~paused
    /\ ark \in activeArks
    /\ arkConfig' = [arkConfig EXCEPT ![ark] = newConfig]
    /\ UNCHANGED <<activeArks, commanderRole, config>>
    /\ FundsUnchanged /\ RestUnchanged

SetArkDepositCap(ark, cap) ==
    SetArkConfig(ark, [arkConfig[ark] EXCEPT !.depositCap = cap])
SetArkMaxDepositPercentageOfTVL(ark, percentage) ==
    /\ percentage <= Hundred
    /\ SetArkConfig(ark, [arkConfig[ark] EXCEPT !.maxPercentage = percentage])
SetArkMaxRebalanceInflow(ark, limit) ==
    SetArkConfig(ark, [arkConfig[ark] EXCEPT !.maxInflow = limit])
SetArkMaxRebalanceOutflow(ark, limit) ==
    SetArkConfig(ark, [arkConfig[ark] EXCEPT !.maxOutflow = limit])

SetConfig(newConfig) ==
    /\ ~paused
    /\ config' = newConfig
    /\ UNCHANGED <<activeArks, commanderRole, arkConfig>>
    /\ FundsUnchanged /\ RestUnchanged

SetFleetDepositCap(cap) == SetConfig([config EXCEPT !.depositCap = cap])
SetMinimumBufferBalance(minimum) ==
    SetConfig([config EXCEPT !.minimumBufferBalance = minimum])
SetMaxRebalanceOperations(limit) ==
    /\ limit <= OperationsLimit
    /\ SetConfig([config EXCEPT !.maxRebalanceOperations = limit])

SetFleetTokenTransferability ==
    /\ ~paused
    /\ transfersEnabled' = TRUE
    /\ UNCHANGED <<setupVars, pauseVars, cooldown, lastActionTimestamp>>
    /\ FundsUnchanged

UpdateRebalanceCooldown(newCooldown) ==
    /\ ~paused
    /\ newCooldown \in MinCooldown..MaxCooldown
    /\ cooldown' = newCooldown
    /\ UNCHANGED <<setupVars, pauseVars, lastActionTimestamp, transfersEnabled>>
    /\ FundsUnchanged

SetMinimumPauseTime(newTime) ==
    /\ ~paused
    /\ newTime >= MinimumPauseTime
    /\ minimumPauseTime' = newTime
    /\ UNCHANGED <<paused, pauseStartTime, setupVars, cooldown,
                   lastActionTimestamp, transfersEnabled>>
    /\ FundsUnchanged

Pause ==
    /\ ~paused
    /\ paused' = TRUE
    /\ pauseStartTime' = now
    /\ UNCHANGED <<minimumPauseTime, setupVars, cooldown, lastActionTimestamp,
                   transfersEnabled>>
    /\ FundsUnchanged

\* Slip: the minimum time is counted from the wrong moment.
PauseElapsedSinceStart == now >= minimumPauseTime

\* The minimum pause time is over.
PauseElapsed == now >= pauseStartTime + minimumPauseTime

Unpause ==
    /\ paused
    /\ PauseElapsed
    /\ paused' = FALSE
    /\ UNCHANGED <<pauseStartTime, minimumPauseTime, setupVars, cooldown,
                   lastActionTimestamp, transfersEnabled>>
    /\ FundsUnchanged

---------------------------------------------------------------------------
(* Environment: time, the markets behind the arks *)

Tick ==
    /\ now < MaxTime
    /\ now' = now + 1
    /\ UNCHANGED <<shares, totalShares, wallet, arkVars, setupVars, tipRate,
                   lastTipTimestamp, pauseVars, cooldown, lastActionTimestamp,
                   transfersEnabled, valueMoves>>

\* A position earns or loses; an ark without a position does neither.
ArkValueMoves(ark, newAssets) ==
    /\ ark # Buffer
    /\ arkAssets[ark] > 0
    /\ arkAssets' = [arkAssets EXCEPT ![ark] = newAssets]
    /\ valueMoves < MaxValueMoves
    /\ valueMoves' = valueMoves + 1
    /\ UNCHANGED <<shares, totalShares, wallet, illiquid, setupVars, tipRate,
                   lastTipTimestamp, pauseVars, cooldown, lastActionTimestamp,
                   transfersEnabled, now>>

ArkGains(ark, gain) == ArkValueMoves(ark, arkAssets[ark] + gain)
ArkLoses(ark, loss) == arkAssets[ark] >= loss /\ ArkValueMoves(ark, arkAssets[ark] - loss)

ArkLiquidityMoves(ark) ==
    /\ ark # Buffer
    /\ illiquid' = IF ark \in illiquid THEN illiquid \ {ark} ELSE illiquid \cup {ark}
    /\ UNCHANGED <<shares, totalShares, wallet, arkAssets, setupVars, tipRate,
                   lastTipTimestamp, pauseVars, cooldown, lastActionTimestamp,
                   transfersEnabled, clockVars>>

---------------------------------------------------------------------------
(* Specification *)

Init ==
    /\ shares = [a \in Accounts |-> 0]
    /\ totalShares = 0
    /\ wallet = [a \in Accounts |-> IF a \in Users THEN InitialWallet ELSE 0]
    /\ arkAssets = [a \in AllArks |-> 0]
    /\ illiquid = {}
    /\ activeArks = InitialArks
    /\ commanderRole = InitialArks
    /\ arkConfig = [a \in Arks |-> InitialArkConfig]
    /\ config = InitialConfig
    /\ tipRate = InitialTipRate
    /\ lastTipTimestamp = StartTime
    /\ paused = FALSE
    /\ pauseStartTime = 0
    /\ minimumPauseTime = MinimumPauseTime
    /\ cooldown = InitialCooldown
    /\ lastActionTimestamp = 0
    /\ transfersEnabled = FALSE
    /\ now = StartTime
    /\ valueMoves = 0

DepositStep ==
    \E u \in Users, r \in Receivers :
        \/ \E x \in Amounts : Deposit(u, r, x)
        \/ \E s \in ShareAmounts : Mint(u, r, s)

\* The tip jar redeems like any owner.
WithdrawStep ==
    \E o \in Accounts, r \in Receivers :
        \/ \E x \in Amounts \cup {MaxUint} : Withdraw(o, r, x)
        \/ \E s \in ShareAmounts \cup {MaxUint} : Redeem(o, r, s)
        \/ \E x \in Amounts : WithdrawFromBuffer(o, r, x) \/ WithdrawFromArks(o, r, x)
        \/ \E s \in ShareAmounts : RedeemFromBuffer(o, r, s) \/ RedeemFromArks(o, r, s)

TransferStep ==
    \/ SetFleetTokenTransferability
    \/ \E spender, from, to \in Accounts, s \in ShareAmounts : Transfer(spender, from, to, s)

LegSequences == UNION {[1..n -> Legs] : n \in 1..MaxLegs}

RebalanceStep ==
    \E legs \in LegSequences : Rebalance(legs) \/ ForceRebalance(legs)

ConfigStep ==
    \/ \E a \in Arks :
          \/ GrantCommanderRole(a)
          \/ AddArk(a)
          \/ RemoveArk(a)
          \/ \E x \in ArkCaps : SetArkDepositCap(a, x)
          \/ \E p \in Percentages : SetArkMaxDepositPercentageOfTVL(a, p)
          \/ \E x \in FlowLimits : \/ SetArkMaxRebalanceInflow(a, x)
                                   \/ SetArkMaxRebalanceOutflow(a, x)
    \/ \E x \in DepositCaps : SetFleetDepositCap(x)
    \/ \E x \in BufferMinimums : SetMinimumBufferBalance(x)
    \/ \E n \in OperationLimits : SetMaxRebalanceOperations(n)
    \/ \E c \in Cooldowns : UpdateRebalanceCooldown(c)

PauseStep ==
    \/ \E t \in PauseTimes : SetMinimumPauseTime(t)
    \/ Pause
    \/ Unpause

TipStep == TipCall \/ \E r \in TipRates : SetTipRate(r)

EnvironmentStep ==
    \/ Tick
    \/ \E a \in Arks : \/ \E g \in Gains : ArkGains(a, g)
                       \/ \E l \in Losses : ArkLoses(a, l)
                       \/ ArkLiquidityMoves(a)

Next ==
    \/ DepositStep
    \/ WithdrawStep
    \/ "transfers" \in Explored /\ TransferStep
    \/ "rebalances" \in Explored /\ RebalanceStep
    \/ "config" \in Explored /\ ConfigStep
    \/ "pauses" \in Explored /\ PauseStep
    \/ "tips" \in Explored /\ TipStep
    \/ EnvironmentStep

Spec == Init /\ [][Next]_vars

---------------------------------------------------------------------------
(* Properties *)

\* The types and ranges of the state: no balance, no ark and no supply is
\* overdrawn, the clocks of tips, pauses and rebalances are never ahead of time.
TypeOK ==
    /\ shares \in [Accounts -> Nat] /\ totalShares \in Nat
    /\ wallet \in [Accounts -> Nat]
    /\ arkAssets \in [AllArks -> Nat]
    /\ illiquid \subseteq Arks
    /\ activeArks \subseteq commanderRole /\ commanderRole \subseteq Arks
    /\ arkConfig \in [Arks -> ArkConfigs] /\ config \in FleetConfigs
    /\ tipRate \in 0..MaxTipRate
    /\ lastTipTimestamp \in StartTime..now /\ now \in StartTime..MaxTime
    /\ paused \in BOOLEAN /\ transfersEnabled \in BOOLEAN
    /\ pauseStartTime \in 0..now /\ minimumPauseTime \in Nat
    /\ cooldown \in MinCooldown..MaxCooldown
    /\ lastActionTimestamp \in 0..now
    /\ valueMoves \in 0..MaxValueMoves

\* The balances add up to the supply: tips, deposits, burns and transfers, also
\* a transfer to oneself, keep the two ledgers together.
BalancesMatchSupply == SumOver(shares, Accounts) = totalShares

\* Nobody who deposits, mints, withdraws or redeems, by any of the six paths,
\* takes value from the others: the assets behind a share do not fall, whatever
\* tips are accrued and however the amounts are rounded.
SharePriceProtected ==
    [][wallet' # wallet =>
          (TotalAssets' + 1) * (TippedSupply + 1)
              >= (TotalAssets + 1) * (totalShares' + 1)]_vars

\* What a call moves is what it accounts for: a deposit arrives in the fleet
\* and a withdrawal is collected from the arks to the unit, whatever the order
\* in which they are emptied.
AssetsConserved ==
    [][wallet' # wallet =>
          SumOver(wallet', Accounts) + TotalAssets'
              = SumOver(wallet, Accounts) + TotalAssets]_vars

\* A deposit or a mint, whose assets are rounded up after the limit was rounded
\* down, never takes the fleet above its deposit cap.
DepositCapRespected ==
    [][(wallet' # wallet /\ TotalAssets' > TotalAssets) =>
          TotalAssets' <= config.depositCap]_vars

\* A step in which the arks trade assets among themselves and nothing else.
RebalanceMoves == arkAssets' # arkAssets /\ wallet' = wallet
                     /\ TotalAssets' = TotalAssets

\* All legs of a rebalance together respect every ark's limits: an ark does not
\* gain more than its inflow limit nor ends above its effective cap, and does
\* not lose more than its outflow limit, however the legs are ordered, repeated
\* or chained.
RebalanceRespectsArkLimits ==
    [][RebalanceMoves => \A a \in Arks :
          /\ arkAssets'[a] > arkAssets[a] =>
                /\ arkConfig[a].depositCap > 0
                /\ arkAssets'[a] - arkAssets[a] <= arkConfig[a].maxInflow
                /\ arkAssets'[a] <= EffectiveArkDepositCap(a, TotalAssets)
          /\ arkAssets[a] - arkAssets'[a] <= arkConfig[a].maxOutflow]_vars

\* No asset is out of the fleet's reach: an ark that is not part of the fleet,
\* never added or removed again, holds nothing of it.
NoAssetsOutsideFleet == \A a \in AllArks \ FleetArks : arkAssets[a] = 0

\* While the fleet is paused no call moves funds between accounts and arks,
\* creates shares or changes the setup, and it stays paused for at least the
\* minimum time that was in force when it was paused.
PauseHolds ==
    [][paused => /\ UNCHANGED <<wallet, totalShares, activeArks, arkConfig, config,
                                tipRate, cooldown, minimumPauseTime>>
                 /\ ~RebalanceMoves
                 /\ ~paused' => now - pauseStartTime >= minimumPauseTime]_vars

\* Every position can be withdrawn: when the fleet is not paused and its arks
\* can pay, withdraw(MAX) succeeds for an owner of shares that are worth
\* anything, whatever losses, tips, rebalances and roundings came before.
CanExit ==
    (~paused /\ WithdrawableTotalAssets = TotalAssets) =>
        \A u \in Accounts : RedeemValue(u) > 0 => ENABLED Withdraw(u, u, MaxUint)

\* FleetCommander.sol, comment on _validateAdjustBuffer: it "ensures that the
\* buffer balance remains above the minimum required balance".
BufferStaysAboveMinimum ==
    [][(RebalanceMoves /\ arkAssets'[Buffer] < arkAssets[Buffer]) =>
          arkAssets'[Buffer] >= config.minimumBufferBalance]_vars

\* FleetCommander.sol, comment in totalSupply(): "when collecting fee we
\* require totalSupply to be the pre tip totalSupply".
TipOnPreTipSupply ==
    [][(wallet' = wallet /\ totalShares' # totalShares) =>
          totalShares' = TippedSupply]_vars

\* IFleetCommander.sol on redeem: "If set to type(uint256).max, it will redeem
\* all shares owned by the owner".
RedeemMaxRedeemsAll ==
    (~paused /\ WithdrawableTotalAssets = TotalAssets) =>
        \A u \in Accounts : RedeemValue(u) > 0 => ENABLED Redeem(u, u, MaxUint)
=============================================================================
