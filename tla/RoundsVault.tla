---------------------------- MODULE RoundsVault ----------------------------
(***************************************************************************)
(* The rounds vault of core-contracts: RoundsVaultBase with its Input and  *)
(* Output flavours, on top of ERC4626MultiToken and ERC1155FullSupply.     *)
(*                                                                         *)
(* Users put the vault's underlying token in during a round and get an     *)
(* ERC-1155 receipt whose id is the round.  A keeper closes the round      *)
(* (nextRound), later settles it against the target ERC-4626 vault         *)
(* (setRoundSettled), and receipts are then exchanged at the rate of that  *)
(* settlement.  The governor can roll a round back to Opened, the keeper   *)
(* can retry it.  Every external call is one transaction, so one action;   *)
(* a call that reverts is a step that is not there.                        *)
(*                                                                         *)
(* The caller of a redemption or of a transfer is the owner of the         *)
(* receipts or an operator the owner approved, who acts for the owner.     *)
(* A batch is modelled with two entries (possibly of the same round).      *)
(*                                                                         *)
(* An operator whose comment starts with `Slip:' is no part of the model:  *)
(* it is a way its successor could go wrong in the code, put in its place  *)
(* to see that the properties notice.                                      *)
(***************************************************************************)
EXTENDS Sums, FiniteSets

CONSTANTS
    Users,          \* accounts that may hold receipts
    NoOne,          \* address(0)
    VaultType,      \* "Input" or "Output" (BaseVaultType)
    MaxRound,       \* bound: the last round the model opens
    Amounts,        \* bound: token amounts of one call
    InitialWallet,  \* underlying tokens each user starts with
    Prices,         \* bound: prices of the target vault, [num |->, den |->]
    PriceUnit,      \* 10 ** decimals, the base of the fallback rate
    MinPositions,   \* bound: values the governor gives minPositionSize
    Delistable,     \* bound: users the whitelist manager may add or remove
    MaxRollbacks    \* bound: emergency rollbacks the governor makes

Rounds == 0..MaxRound
RoundStates == {"NotOpened", "Opened", "InSettlement", "Settled"}
NoRate == [baseAmount |-> 0, quoteAmount |-> 0]

ASSUME UsersAssumption   == IsFiniteSet(Users) /\ NoOne \notin Users
ASSUME TypeAssumption    == VaultType \in {"Input", "Output"}
ASSUME BoundAssumption   == /\ MaxRound \in Nat /\ Amounts \subseteq Nat
                            /\ InitialWallet \in Nat /\ MinPositions \subseteq Nat
                            /\ Delistable \subseteq Users /\ MaxRollbacks \in Nat
ASSUME PriceAssumption   == /\ Prices \subseteq [num : Nat, den : Nat \ {0}]
                            /\ PriceUnit \in Nat \ {0}
ASSUME PricePositive     == /\ Prices # {}
                            /\ \A p \in Prices : p.num > 0

VARIABLES
    roundNumber,      \* _roundNumber
    roundState,       \* roundState[id]
    exchangeRate,     \* _exchangeRateByRound[id]
    receipts,         \* ERC-1155 balanceOf, [user][id]
    supply,           \* ERC1155Supply totalSupply(id)
    balanceOfAll,     \* ERC1155FullSupply _totalSupplyByAccount
    minPositionSize,
    whitelisted,      \* accounts whitelisted in the context of the target vault
    wallet,           \* underlying tokens of each user
    exchangeWallet,   \* exchange tokens of each user
    vaultAssets,      \* underlying tokens held by the rounds vault
    vaultExchange,    \* exchange tokens held by the rounds vault
    price,            \* target vault: assets per share
    targetOpen,       \* target vault accepts deposit and redeem
    rollbacks,        \* emergency rollbacks so far (counts up to MaxRollbacks)
    paidOut           \* history: exchange tokens paid against each round

receiptVars == <<receipts, supply, balanceOfAll>>
tokenVars   == <<wallet, exchangeWallet, vaultAssets, vaultExchange, paidOut>>
roundVars   == <<roundNumber, roundState, exchangeRate, rollbacks>>
configVars  == <<minPositionSize, whitelisted>>
targetVars  == <<price, targetOpen>>
vars == <<roundNumber, roundState, exchangeRate, rollbacks, receipts, supply,
          balanceOfAll, wallet, exchangeWallet, vaultAssets, vaultExchange,
          paidOut, minPositionSize, whitelisted, price, targetOpen>>

---------------------------------------------------------------------------
(* Prices and positions *)

\* convertToAssets and convertToShares of the target vault, rounded down.
AssetsFor(shares) == (shares * price.num) \div price.den
SharesFor(assets) == (assets * price.den) \div price.num

\* What the target vault returns for `amount` of the underlying.
TargetOutput(amount) ==
    IF VaultType = "Input" THEN SharesFor(amount) ELSE AssetsFor(amount)

\* Slip: the quote is rounded up.
QuoteUp(rate, amount) ==
    (amount * rate.baseAmount + rate.quoteAmount - 1) \div rate.quoteAmount

\* Price.quote: mulDiv rounds down.
Quote(rate, amount) == (amount * rate.baseAmount) \div rate.quoteAmount

\* Shares of the target vault a user holds outside the rounds vault.
TargetShares(u) == IF VaultType = "Input" THEN exchangeWallet[u] ELSE wallet[u]

\* The aggregate position _validateAggregateAssets measures.
Position(u) ==
    (IF VaultType = "Input" THEN balanceOfAll[u] ELSE 0)
        + AssetsFor(TargetShares(u))

MeetsMinimum(u) == Position(u) = 0 \/ Position(u) >= minPositionSize

\* Slip: only the account that receives is checked.
ValidateIncoming(outgoing, incoming) ==
    minPositionSize > 0 => (incoming # NoOne => MeetsMinimum(incoming)')

\* The check modifier validateMinPosition makes after the body of the call.
ValidateMinPosition(outgoing, incoming) ==
    minPositionSize > 0 =>
        /\ (outgoing # NoOne /\ (outgoing # incoming \/ balanceOfAll'[outgoing] > 0))
              => MeetsMinimum(outgoing)'
        /\ (incoming # outgoing /\ incoming # NoOne) => MeetsMinimum(incoming)'

---------------------------------------------------------------------------
(* Receipts *)

Minted(bal, u, id, amount) == [bal EXCEPT ![u][id] = @ + amount]
Burned(bal, u, id, amount) == [bal EXCEPT ![u][id] = @ - amount]

\* Slip: the account's sum over all rounds is not updated.
BurnFromRoundOnly(owner, id, amount) ==
    /\ receipts[owner][id] >= amount
    /\ receipts' = Burned(receipts, owner, id, amount)
    /\ supply' = [supply EXCEPT ![id] = @ - amount]
    /\ UNCHANGED balanceOfAll

\* _update on a burn of one entry; the ERC-1155 balance check is the guard.
Burn(owner, id, amount) ==
    /\ receipts[owner][id] >= amount
    /\ receipts' = Burned(receipts, owner, id, amount)
    /\ supply' = [supply EXCEPT ![id] = @ - amount]
    /\ balanceOfAll' = [balanceOfAll EXCEPT ![owner] = @ - amount]

\* Slip: the second balance is read before the first burn.
BurnBatchStale(owner, id1, amount1, id2, amount2) ==
    /\ receipts[owner][id1] >= amount1 /\ receipts[owner][id2] >= amount2
    /\ receipts' = Burned(Burned(receipts, owner, id1, amount1), owner, id2, amount2)
    /\ supply' = [[supply EXCEPT ![id1] = @ - amount1] EXCEPT ![id2] = @ - amount2]
    /\ balanceOfAll' = [balanceOfAll EXCEPT ![owner] = @ - (amount1 + amount2)]

\* _update on a burn of two entries, one after the other.
BurnBatch(owner, id1, amount1, id2, amount2) ==
    LET first == Burned(receipts, owner, id1, amount1) IN
    /\ receipts[owner][id1] >= amount1
    /\ first[owner][id2] >= amount2
    /\ receipts' = Burned(first, owner, id2, amount2)
    /\ supply' = [[supply EXCEPT ![id1] = @ - amount1] EXCEPT ![id2] = @ - amount2]
    /\ balanceOfAll' = [balanceOfAll EXCEPT ![owner] = @ - (amount1 + amount2)]

---------------------------------------------------------------------------
(* User operations *)

\* _getMintId.
MintId == roundNumber

Deposit(caller, receiver, amount) ==
    /\ {caller, receiver} \subseteq whitelisted
    /\ wallet[caller] >= amount
    /\ receipts' = Minted(receipts, receiver, MintId, amount)
    /\ supply' = [supply EXCEPT ![MintId] = @ + amount]
    /\ balanceOfAll' = [balanceOfAll EXCEPT ![receiver] = @ + amount]
    /\ wallet' = [wallet EXCEPT ![caller] = @ - amount]
    /\ vaultAssets' = vaultAssets + amount
    /\ UNCHANGED <<exchangeWallet, vaultExchange, paidOut>>
    /\ UNCHANGED <<roundVars, configVars, targetVars>>
    /\ ValidateMinPosition(IF VaultType = "Input" THEN NoOne ELSE caller, receiver)

\* Slip: the principal of any round that has begun can be taken out.
AnyBegun(id) == roundState[id] # "NotOpened"

\* The rounds whose principal can be redeemed.
Redeemable(id) == roundState[id] = "Opened"

\* The tokens a redemption of principal moves.
ReturnPrincipal(receiver, amount) ==
    /\ wallet' = [wallet EXCEPT ![receiver] = @ + amount]
    /\ vaultAssets' = vaultAssets - amount
    /\ UNCHANGED <<exchangeWallet, vaultExchange, paidOut>>

Redeem(owner, receiver, id, amount) ==
    /\ {owner, receiver} \subseteq whitelisted
    /\ Redeemable(id)
    /\ amount <= balanceOfAll[owner]
    /\ Burn(owner, id, amount)
    /\ vaultAssets >= amount
    /\ ReturnPrincipal(receiver, amount)
    /\ UNCHANGED <<roundVars, configVars, targetVars>>
    /\ ValidateMinPosition(owner, receiver)

RedeemBatch(owner, receiver, id1, amount1, id2, amount2) ==
    /\ {owner, receiver} \subseteq whitelisted
    /\ Redeemable(id1) /\ Redeemable(id2)
    /\ amount1 + amount2 <= balanceOfAll[owner]
    /\ BurnBatch(owner, id1, amount1, id2, amount2)
    /\ vaultAssets >= amount1 + amount2
    /\ ReturnPrincipal(receiver, amount1 + amount2)
    /\ UNCHANGED <<roundVars, configVars, targetVars>>
    /\ ValidateMinPosition(owner, receiver)

RedeemExchangeAsset(owner, receiver, id, amount) ==
    LET out == Quote(exchangeRate[id], amount) IN
    /\ {owner, receiver} \subseteq whitelisted
    /\ id < roundNumber
    /\ roundState[id] = "Settled"
    /\ Burn(owner, id, amount)
    /\ vaultExchange >= out
    /\ exchangeWallet' = [exchangeWallet EXCEPT ![receiver] = @ + out]
    /\ vaultExchange' = vaultExchange - out
    /\ paidOut' = [paidOut EXCEPT ![id] = @ + out]
    /\ UNCHANGED <<wallet, vaultAssets>>
    /\ UNCHANGED <<roundVars, configVars, targetVars>>
    /\ ValidateMinPosition(owner, receiver)

\* Each entry is quoted, and rounded down, on its own.
RedeemExchangeAssetBatch(owner, receiver, id1, amount1, id2, amount2) ==
    LET out1 == Quote(exchangeRate[id1], amount1)
        out2 == Quote(exchangeRate[id2], amount2)
    IN
    /\ {owner, receiver} \subseteq whitelisted
    /\ id1 < roundNumber /\ id2 < roundNumber
    /\ roundState[id1] = "Settled" /\ roundState[id2] = "Settled"
    /\ BurnBatch(owner, id1, amount1, id2, amount2)
    /\ vaultExchange >= out1 + out2
    /\ exchangeWallet' = [exchangeWallet EXCEPT ![receiver] = @ + out1 + out2]
    /\ vaultExchange' = vaultExchange - (out1 + out2)
    /\ paidOut' = [[paidOut EXCEPT ![id1] = @ + out1] EXCEPT ![id2] = @ + out2]
    /\ UNCHANGED <<wallet, vaultAssets>>
    /\ UNCHANGED <<roundVars, configVars, targetVars>>
    /\ ValidateMinPosition(owner, receiver)

SafeTransferFrom(from, to, id, amount) ==
    /\ {from, to} \subseteq whitelisted
    /\ receipts[from][id] >= amount
    /\ receipts' = Minted(Burned(receipts, from, id, amount), to, id, amount)
    /\ balanceOfAll' = [[balanceOfAll EXCEPT ![to] = @ + amount]
                                       EXCEPT ![from] = @ - amount]
    /\ UNCHANGED <<supply, tokenVars, roundVars, configVars, targetVars>>
    /\ ValidateMinPosition(from, to)

SafeBatchTransferFrom(from, to, id1, amount1, id2, amount2) ==
    LET first == Minted(Burned(receipts, from, id1, amount1), to, id1, amount1) IN
    /\ {from, to} \subseteq whitelisted
    /\ receipts[from][id1] >= amount1
    /\ first[from][id2] >= amount2
    /\ receipts' = Minted(Burned(first, from, id2, amount2), to, id2, amount2)
    /\ balanceOfAll' = [[balanceOfAll EXCEPT ![to] = @ + (amount1 + amount2)]
                                       EXCEPT ![from] = @ - (amount1 + amount2)]
    /\ UNCHANGED <<supply, tokenVars, roundVars, configVars, targetVars>>
    /\ ValidateMinPosition(from, to)

---------------------------------------------------------------------------
(* Keeper and governor operations *)

\* Slip: the next round is counted but not opened.
NextRoundUnopened ==
    /\ roundNumber < MaxRound
    /\ roundState[roundNumber] = "Opened"
    /\ roundState' = [roundState EXCEPT ![roundNumber] = "InSettlement"]
    /\ roundNumber' = roundNumber + 1
    /\ UNCHANGED <<exchangeRate, rollbacks>>
    /\ UNCHANGED <<receiptVars, tokenVars, configVars, targetVars>>

NextRound ==
    /\ roundNumber < MaxRound
    /\ roundState[roundNumber] = "Opened"
    /\ roundState' = [roundState EXCEPT ![roundNumber] = "InSettlement",
                                        ![roundNumber + 1] = "Opened"]
    /\ roundNumber' = roundNumber + 1
    /\ UNCHANGED <<exchangeRate, rollbacks>>
    /\ UNCHANGED <<receiptVars, tokenVars, configVars, targetVars>>

\* Slips: a settled round can be retried too, or only the last closed round.
RetriableSettled(id) == id < roundNumber /\ roundState[id] \in {"Opened", "Settled"}
RetriableLast(id) == id = roundNumber - 1 /\ roundState[id] = "Opened"

\* The rounds _startSettlement accepts from retryRound.
Retriable(id) == id < roundNumber /\ roundState[id] = "Opened"

RetryRound(id) ==
    /\ Retriable(id)
    /\ roundState' = [roundState EXCEPT ![id] = "InSettlement"]
    /\ UNCHANGED <<roundNumber, exchangeRate, rollbacks>>
    /\ UNCHANGED <<receiptVars, tokenVars, configVars, targetVars>>

\* Slip: the preview of the target vault instead of the trade.
PreviewRate(id) == [baseAmount |-> TargetOutput(PriceUnit), quoteAmount |-> PriceUnit]

\* The rate _setRoundSettled stores: the trade that was made, or the preview
\* of the target vault when the round is empty.
SettlementRate(id) ==
    IF supply[id] > 0
    THEN [baseAmount |-> TargetOutput(supply[id]), quoteAmount |-> supply[id]]
    ELSE [baseAmount |-> TargetOutput(PriceUnit), quoteAmount |-> PriceUnit]

\* The target vault takes the trade; it is not called for an empty round.
TargetAccepts(id) == supply[id] > 0 => targetOpen

SetRoundSettled(id) ==
    /\ roundState[id] = "InSettlement"
    /\ TargetAccepts(id)
    /\ vaultAssets >= supply[id]
    /\ roundState' = [roundState EXCEPT ![id] = "Settled"]
    /\ exchangeRate' = [exchangeRate EXCEPT ![id] = SettlementRate(id)]
    /\ vaultAssets' = vaultAssets - supply[id]
    /\ vaultExchange' = vaultExchange + TargetOutput(supply[id])
    /\ UNCHANGED <<roundNumber, rollbacks, wallet, exchangeWallet, paidOut>>
    /\ UNCHANGED <<receiptVars, configVars, targetVars>>

\* A repeated id reverts the batch: the second pass finds the round Settled.
SetRoundSettledBatch(id1, id2) ==
    /\ id1 # id2
    /\ roundState[id1] = "InSettlement" /\ roundState[id2] = "InSettlement"
    /\ TargetAccepts(id1) /\ TargetAccepts(id2)
    /\ vaultAssets >= supply[id1] + supply[id2]
    /\ roundState' = [roundState EXCEPT ![id1] = "Settled", ![id2] = "Settled"]
    /\ exchangeRate' = [exchangeRate EXCEPT ![id1] = SettlementRate(id1),
                                            ![id2] = SettlementRate(id2)]
    /\ vaultAssets' = vaultAssets - (supply[id1] + supply[id2])
    /\ vaultExchange' = vaultExchange + TargetOutput(supply[id1])
                                      + TargetOutput(supply[id2])
    /\ UNCHANGED <<roundNumber, rollbacks, wallet, exchangeWallet, paidOut>>
    /\ UNCHANGED <<receiptVars, configVars, targetVars>>

EmergencyRollbackRound(id) ==
    /\ rollbacks < MaxRollbacks
    /\ roundState[id] = "InSettlement"
    /\ roundState' = [roundState EXCEPT ![id] = "Opened"]
    /\ rollbacks' = rollbacks + 1
    /\ UNCHANGED <<roundNumber, exchangeRate>>
    /\ UNCHANGED <<receiptVars, tokenVars, configVars, targetVars>>

SetMinPositionSize(size) ==
    /\ minPositionSize' = size
    /\ UNCHANGED <<whitelisted, receiptVars, tokenVars, roundVars, targetVars>>

---------------------------------------------------------------------------
(* The access manager's whitelist and the target vault (environment) *)

SetWhitelisted(account, allowed) ==
    /\ whitelisted' = IF allowed THEN whitelisted \cup {account}
                                 ELSE whitelisted \ {account}
    /\ UNCHANGED <<minPositionSize, receiptVars, tokenVars, roundVars, targetVars>>

TargetPriceMoves ==
    /\ price' \in Prices
    /\ UNCHANGED <<targetOpen, receiptVars, tokenVars, roundVars, configVars>>

TargetCloses ==
    /\ targetOpen
    /\ targetOpen' = FALSE
    /\ UNCHANGED <<price, receiptVars, tokenVars, roundVars, configVars>>

TargetOpens ==
    /\ ~targetOpen
    /\ targetOpen' = TRUE
    /\ UNCHANGED <<price, receiptVars, tokenVars, roundVars, configVars>>

---------------------------------------------------------------------------
(* Specification *)

Init ==
    /\ roundNumber = 0
    /\ roundState = [id \in Rounds |-> IF id = 0 THEN "Opened" ELSE "NotOpened"]
    /\ exchangeRate = [id \in Rounds |-> NoRate]
    /\ receipts = [u \in Users |-> [id \in Rounds |-> 0]]
    /\ supply = [id \in Rounds |-> 0]
    /\ balanceOfAll = [u \in Users |-> 0]
    /\ minPositionSize = 0
    /\ whitelisted = Users
    /\ wallet = [u \in Users |-> InitialWallet]
    /\ exchangeWallet = [u \in Users |-> 0]
    /\ vaultAssets = 0
    /\ vaultExchange = 0
    /\ price \in Prices
    /\ targetOpen = TRUE
    /\ rollbacks = 0
    /\ paidOut = [id \in Rounds |-> 0]

UserStep ==
    \E u, v \in Users, a \in Amounts :
        \/ Deposit(u, v, a)
        \/ \E id \in Rounds : \/ Redeem(u, v, id, a)
                              \/ RedeemExchangeAsset(u, v, id, a)
                              \/ SafeTransferFrom(u, v, id, a)

BatchStep ==
    \E u, v \in Users, a, b \in Amounts, i, j \in Rounds :
        \/ RedeemBatch(u, v, i, a, j, b)
        \/ RedeemExchangeAssetBatch(u, v, i, a, j, b)
        \/ SafeBatchTransferFrom(u, v, i, a, j, b)

KeeperStep ==
    \/ NextRound
    \/ \E id \in Rounds : RetryRound(id) \/ SetRoundSettled(id)
    \/ \E i, j \in Rounds : SetRoundSettledBatch(i, j)

GovernorStep ==
    \/ \E id \in Rounds : EmergencyRollbackRound(id)
    \/ \E m \in MinPositions : SetMinPositionSize(m)

EnvironmentStep ==
    \/ \E u \in Delistable, b \in BOOLEAN : SetWhitelisted(u, b)
    \/ TargetPriceMoves
    \/ TargetCloses
    \/ TargetOpens

Next == UserStep \/ BatchStep \/ KeeperStep \/ GovernorStep \/ EnvironmentStep

Spec == Init /\ [][Next]_vars

\* The keeper is a service that works off what is to be done: it retries a
\* round that was rolled back and settles a round whenever the target vault
\* is, time and again, open for the trade; the target vault reopens.
Fairness ==
    /\ \A id \in Rounds : /\ WF_vars(RetryRound(id))
                          /\ SF_vars(SetRoundSettled(id))
    /\ WF_vars(TargetOpens)

FairSpec == Spec /\ Fairness

---------------------------------------------------------------------------
(* Properties *)

\* The types and ranges of the state: every balance, supply and ledger, and what
\* the vault holds, stays natural, although the burn decrements unchecked.
TypeOK ==
    /\ roundNumber \in Rounds
    /\ roundState \in [Rounds -> RoundStates]
    /\ exchangeRate \in [Rounds -> [baseAmount : Nat, quoteAmount : Nat]]
    /\ receipts \in [Users -> [Rounds -> Nat]]
    /\ supply \in [Rounds -> Nat]
    /\ balanceOfAll \in [Users -> Nat]
    /\ minPositionSize \in Nat
    /\ whitelisted \subseteq Users
    /\ wallet \in [Users -> Nat] /\ exchangeWallet \in [Users -> Nat]
    /\ vaultAssets \in Nat /\ vaultExchange \in Nat
    /\ price \in Prices /\ targetOpen \in BOOLEAN
    /\ rollbacks \in 0..MaxRollbacks
    /\ paidOut \in [Rounds -> Nat]

\* Exactly the rounds up to the current one have begun, the current one is
\* collecting, and nothing was ever deposited in a round to come: no order of
\* nextRound, retryRound, setRoundSettled and emergencyRollbackRound leaves
\* deposits going to a round that does not take them.
RoundsInOrder ==
    /\ roundState[roundNumber] = "Opened"
    /\ \A id \in Rounds : /\ (roundState[id] = "NotOpened") <=> (id > roundNumber)
                          /\ id > roundNumber => supply[id] = 0

\* A settled round has a rate that can be quoted, and what it has paid so far
\* together with what its remaining receipts are owed never exceeds what its
\* own trade brought in: no sequence of partial, batched or transferred
\* redemptions, each rounded on its own, takes from another round.
SettledRoundSolvent ==
    \A id \in Rounds : roundState[id] = "Settled" =>
        LET rate == exchangeRate[id] IN
        /\ rate.quoteAmount > 0
        /\ (rate.baseAmount - paidOut[id]) * rate.quoteAmount
              >= supply[id] * rate.baseAmount

\* The three ledgers of receipts agree: the ERC-1155 balances, the supply of
\* each round and the sum each account holds over all rounds, which the burn
\* decrements unchecked.
ReceiptLedgersAgree ==
    /\ \A id \in Rounds : supply[id] = SumOver([u \in Users |-> receipts[u][id]], Users)
    /\ \A u \in Users : balanceOfAll[u] = SumOver(receipts[u], Rounds)

\* The vault holds exactly the principal of the rounds that are not settled,
\* so that a redemption or a settlement never spends another round's
\* principal.
PrincipalBacked ==
    vaultAssets = SumOver(supply, {id \in Rounds : roundState[id] # "Settled"})

\* The exchange tokens in the vault cover what every settled round still owes
\* to all of its receipts.
ExchangeBacked ==
    LET settled == {id \in Rounds : roundState[id] = "Settled"}
        owed    == [id \in settled |-> Quote(exchangeRate[id], supply[id])]
    IN  vaultExchange >= SumOver(owed, settled)

\* All holders can be paid: the exchange tokens in the vault cover what every
\* holder is quoted for what he holds of every settled round, each quote rounded
\* on its own, after any sequence of redemptions and transfers.
HoldersCovered ==
    LET settled == {id \in Rounds : roundState[id] = "Settled"}
        claims  == [id \in settled |->
            SumOver([u \in Users |-> Quote(exchangeRate[id], receipts[u][id])], Users)]
    IN  vaultExchange >= SumOver(claims, settled)

\* Settlement is final: once a round is Settled it stays so at the same rate,
\* whatever the keeper retries or the governor rolls back.
SettledIsFinal ==
    [][\A id \in Rounds : roundState[id] = "Settled" =>
          /\ roundState'[id] = "Settled"
          /\ exchangeRate'[id] = exchangeRate[id]]_vars

\* The liability of a round in settlement is frozen: the amount that
\* _setRoundSettled trades is the amount the round held when it was closed or
\* retried, and no deposit or redemption changes it on the way.
FrozenInSettlement ==
    [][\A id \in Rounds : roundState[id] = "InSettlement" =>
          supply'[id] = supply[id]]_vars

\* A change of a user's position by a deposit, a redemption or a transfer
\* leaves him at zero or at the minimum position at least, unless he gave up
\* his last receipt.
MinPositionKept ==
    [][\A u \in Users :
          (price' = price /\ minPositionSize' = minPositionSize
              /\ Position(u)' # Position(u) /\ balanceOfAll'[u] > 0)
              => MeetsMinimum(u)']_vars

\* Every round that is closed is settled in the end, also after rollbacks and
\* while the target vault closes and reopens.
ClosedRoundsSettle ==
    \A id \in Rounds : (id < roundNumber) ~> (roundState[id] = "Settled")

\* The abstract round the vault implements.  The pot of a settled round is what
\* its trade brought in less what was paid against it.
PromisePhase == [id \in Rounds |->
    CASE roundState[id] = "NotOpened"    -> "future"
      [] roundState[id] = "Opened"       -> "open"
      [] roundState[id] = "InSettlement" -> "locked"
      [] roundState[id] = "Settled"      -> "final"]

PromisePot == [id \in Rounds |->
    IF roundState[id] = "Settled" THEN exchangeRate[id].baseAmount - paidOut[id] ELSE 0]

PromiseTerms == [id \in Rounds |->
    [out |-> exchangeRate[id].baseAmount, for |-> exchangeRate[id].quoteAmount]]

Promise == INSTANCE RoundsPromise
    WITH phase <- PromisePhase, pooled <- supply, pot <- PromisePot, terms <- PromiseTerms

\* Seen round by round the vault does what RoundsPromise allows: a round is
\* finalised once, on the amount it held, and pays only out of its own pot.
ImplementsPromise == Promise!Spec
=============================================================================
