-------------------------------- MODULE Raft --------------------------------
(***************************************************************************)
(* The Raft: it collects the reward tokens of the arks of all fleets,      *)
(* sells them in Dutch auctions for the asset of the ark they came from    *)
(* and boards the proceeds there.  One action per external function; the   *)
(* Dutch auction library is part of the functions that call it.            *)
(*                                                                         *)
(* All tokens lie in one balance per token, whatever they are held for:    *)
(* tokens still to be auctioned, tokens on auction, unsold ones, and the   *)
(* payments that wait for an ark.  A token may be the reward of one ark    *)
(* and the asset of another.                                               *)
(***************************************************************************)
EXTENDS ShareMath

CONSTANTS
    Arks,            \* the arks, buffer arks included
    Tokens,          \* the tokens: rewards and assets
    AssetOf,         \* asset() of each ark
    BufferOf,        \* bufferArk() of each ark's commander
    KeeperDataArks,  \* the arks with requiresKeeperData()
    Hundred,         \* 100 percent
    TokenUnit,       \* 10 to the decimals of an auctioned token
    Wei,             \* 10 to (18 - decimals) of a payment token
    AuctionParams,   \* bound: the auction parameters a curator sets
    Yielding,        \* bound: the pairs of ark and token that yield rewards
    Configurable,    \* bound: the pairs a curator sets auction parameters of
    Listable,        \* bound: the pairs a curator lists and the governor excludes
    RewardAmounts,   \* bound: amounts of one harvest or claim
    BuyAmounts,      \* bound: amounts of one purchase
    MaxIncomes,      \* bound: harvests and claims
    MaxTime          \* bound: the clock

\* The pairs of ark and reward token by which the Raft keeps its books.
Lots == Arks \X Tokens
Params == [duration : Nat, startPrice : Nat, endPrice : Nat, kickerRewardPercentage : Nat,
           decayType : {"Linear", "Quadratic"}]

Auctions == [running : BOOLEAN, remaining : Nat, startTime : Nat, endTime : Nat,
             startPrice : Nat, endPrice : Nat, decayType : {"Linear", "Quadratic"}]

ASSUME ArkAssumption ==
    /\ AssetOf \in [Arks -> Tokens] /\ BufferOf \in [Arks -> Arks] /\ KeeperDataArks \subseteq Arks
    /\ \A a \in Arks : /\ AssetOf[BufferOf[a]] = AssetOf[a]
                       /\ BufferOf[BufferOf[a]] = BufferOf[a]
                       /\ BufferOf[a] \notin KeeperDataArks
ASSUME FiniteAssumption == IsFiniteSet(Arks) /\ IsFiniteSet(Tokens)
ASSUME UnitAssumption == /\ Hundred \in Nat \ {0} /\ TokenUnit \in Nat \ {0} /\ Wei \in Nat \ {0}
ASSUME InputAssumption ==
    /\ AuctionParams \subseteq Params /\ {Yielding, Configurable, Listable} \subseteq SUBSET Lots
    /\ RewardAmounts \subseteq Nat /\ BuyAmounts \subseteq Nat
    /\ MaxIncomes \in Nat /\ MaxTime \in Nat

VARIABLES
    obtainedTokens,        \* per lot: swept or harvested and not yet auctioned
    unsoldTokens,          \* per lot: left over by the auctions that ended
    paymentTokensToBoard,  \* per lot: payments that have not reached the ark
    auctions,              \* per lot
    arkAuctionParameters,  \* per lot
    sweepableTokens,       \* the lots the curators listed
    nonSweepableTokens,    \* the lots the governor excluded
    raftBalance,           \* the tokens the Raft holds
    arkBalance,            \* per lot: the tokens the ark holds
    now,                   \* block.timestamp
    boarded,               \* history, per ark: what the Raft boarded
    paidFor,               \* history, per ark: what buyers paid for its tokens
    socialized,            \* history, per token: what socializeLosses sent away
    incomes                \* bound: harvests and claims so far

bookVars == <<obtainedTokens, unsoldTokens, paymentTokensToBoard, auctions>>
configVars == <<arkAuctionParameters, sweepableTokens, nonSweepableTokens>>
moneyVars == <<raftBalance, arkBalance, boarded, paidFor, socialized>>
raftVars == <<bookVars, configVars, moneyVars, now, incomes>>

----------------------------------------------------------------------------
(* The Dutch auction *)

\* An auction that was finalized is treated like one that never was.
NoAuction == [running |-> FALSE, remaining |-> 0, startTime |-> 0, endTime |-> 0,
              startPrice |-> 0, endPrice |-> 0, decayType |-> "Linear"]

LinearDecay(startPrice, endPrice, elapsed, duration) ==
    (startPrice * Wei - ((startPrice - endPrice) * Wei * elapsed) \div duration) \div Wei

\* Slip: the square of the time that elapsed.
QuadraticDecayUp(startPrice, endPrice, elapsed, duration) ==
    (endPrice * Wei + ((startPrice - endPrice) * Wei * (elapsed * elapsed))
                          \div (duration * duration)) \div Wei

QuadraticDecay(startPrice, endPrice, elapsed, duration) ==
    LET left == duration - elapsed IN
    (endPrice * Wei + ((startPrice - endPrice) * Wei * (left * left))
                          \div (duration * duration)) \div Wei

GetCurrentPrice(auction) ==
    LET elapsed  == now - auction.startTime
        duration == auction.endTime - auction.startTime
    IN  IF elapsed >= duration THEN auction.endPrice
        ELSE IF auction.decayType = "Linear"
        THEN LinearDecay(auction.startPrice, auction.endPrice, elapsed, duration)
        ELSE QuadraticDecay(auction.startPrice, auction.endPrice, elapsed, duration)

\* The cost is rounded down in the payment token.
TotalCost(price, amount) == (price * amount) \div TokenUnit

----------------------------------------------------------------------------
(* Settling and boarding *)

\* Slip: what was boarded stays noted as to be boarded.
StillToBoard(l, waiting) == [paymentTokensToBoard EXCEPT ![l] = waiting]

ToBoardAfter(l, waiting) == [paymentTokensToBoard EXCEPT ![l] = 0]

\* _board: `waiting` tokens of the asset go to the ark.  A buffer ark keeps them
\* as its balance, the others invest them.
BoardProceeds(l, waiting, balance) ==
    LET asset == AssetOf[l[1]] IN
    /\ balance[asset] >= waiting
    /\ raftBalance' = [balance EXCEPT ![asset] = @ - waiting]
    /\ paymentTokensToBoard' = ToBoardAfter(l, waiting)
    /\ boarded' = [boarded EXCEPT ![l[1]] = @ + waiting]
    /\ arkBalance' = IF BufferOf[l[1]] = l[1]
                     THEN [arkBalance EXCEPT ![<<l[1], asset>>] = @ + waiting] ELSE arkBalance

\* Slip: the arks that do require keeper data.
BoardsWithData(ark) == ark \in KeeperDataArks

\* The arks whose proceeds are boarded at once.
BoardsAtOnce(ark) == ark \notin KeeperDataArks

\* _settleAuction: what is left is unsold; `waiting` has been paid for the lot
\* and `balance` is what the Raft holds.
SettleAuction(l, left, waiting, balance) ==
    /\ auctions' = [auctions EXCEPT ![l] = NoAuction]
    /\ unsoldTokens' = [unsoldTokens EXCEPT ![l] = @ + left]
    /\ \/ /\ BoardsAtOnce(l[1])
          /\ BoardProceeds(l, waiting, balance)
       \/ /\ ~BoardsAtOnce(l[1])
          /\ paymentTokensToBoard' = [paymentTokensToBoard EXCEPT ![l] = waiting]
          /\ raftBalance' = balance
          /\ UNCHANGED <<arkBalance, boarded>>

\* Slip: only what the Raft holds limits a purchase.
HeldFor(auction, amount) == auction.running

Available(auction, amount) == auction.running /\ amount <= auction.remaining

BuyTokens(ark, token, amount) ==
    LET l       == <<ark, token>>
        auction == auctions[l]
        cost    == TotalCost(GetCurrentPrice(auction), amount)
        paid    == [raftBalance EXCEPT ![AssetOf[ark]] = @ + cost]
        balance == [paid EXCEPT ![token] = @ - amount]
        waiting == paymentTokensToBoard[l] + cost
    IN
    /\ Available(auction, amount) /\ now < auction.endTime
    /\ paid[token] >= amount
    /\ paidFor' = [paidFor EXCEPT ![ark] = @ + cost]
    /\ \/ /\ amount = auction.remaining
          /\ SettleAuction(l, 0, waiting, balance)
       \/ /\ amount # auction.remaining
          /\ auctions' = [auctions EXCEPT ![l].remaining = @ - amount]
          /\ paymentTokensToBoard' = [paymentTokensToBoard EXCEPT ![l] = waiting]
          /\ raftBalance' = balance
          /\ UNCHANGED <<unsoldTokens, arkBalance, boarded>>
    /\ UNCHANGED <<obtainedTokens, configVars, socialized, now, incomes>>

FinalizeAuction(ark, token) ==
    LET l == <<ark, token>> IN
    /\ auctions[l].running /\ now >= auctions[l].endTime
    /\ SettleAuction(l, auctions[l].remaining, paymentTokensToBoard[l], raftBalance)
    /\ UNCHANGED <<obtainedTokens, configVars, paidFor, socialized, now, incomes>>

\* Only arks that require keeper data; with nothing to board nothing happens.
Board(ark, token) ==
    /\ ark \in KeeperDataArks
    /\ BoardProceeds(<<ark, token>>, paymentTokensToBoard[<<ark, token>>], raftBalance)
    /\ UNCHANGED <<obtainedTokens, unsoldTokens, auctions, configVars, paidFor, socialized,
                   now, incomes>>

----------------------------------------------------------------------------
(* Starting auctions *)

\* Slip: the unsold tokens are put on auction and stay noted as unsold.
UnsoldKept(started) == unsoldTokens

UnsoldAfter(started) == [l \in Lots |-> IF l \in started THEN 0 ELSE unsoldTokens[l]]

\* _startAuction for each of the tokens: what was obtained and what is unsold is
\* put on auction, less the reward of the kicker, who is paid at once.
\* `obtained` and `balance` are the books and the holdings of that moment.
StartAuctions(ark, tokens, obtained, balance) ==
    LET total(t)  == obtained[<<ark, t>>] + unsoldTokens[<<ark, t>>]
        params(t) == arkAuctionParameters[<<ark, t>>]
        reward(t) == ApplyPercentage(total(t), params(t).kickerRewardPercentage, Hundred)
        started   == {ark} \X tokens
    IN
    /\ \A t \in tokens :
          /\ params(t).duration # 0 /\ ~auctions[<<ark, t>>].running
          /\ params(t).startPrice > params(t).endPrice /\ total(t) # 0
          /\ params(t).kickerRewardPercentage <= Hundred
          /\ balance[t] >= reward(t)
    /\ auctions' = [l \in Lots |->
          IF l \in started
          THEN [running |-> TRUE, remaining |-> total(l[2]) - reward(l[2]), startTime |-> now,
                endTime |-> now + params(l[2]).duration, startPrice |-> params(l[2]).startPrice,
                endPrice |-> params(l[2]).endPrice, decayType |-> params(l[2]).decayType]
          ELSE auctions[l]]
    /\ obtainedTokens' = [l \in Lots |-> IF l \in started THEN 0 ELSE obtained[l]]
    /\ unsoldTokens' = UnsoldAfter(started)
    /\ raftBalance' = [t \in Tokens |-> IF t \in tokens THEN balance[t] - reward(t) ELSE balance[t]]

StartAuction(ark, token) ==
    /\ StartAuctions(ark, {token}, obtainedTokens, raftBalance)
    /\ UNCHANGED <<paymentTokensToBoard, configVars, arkBalance, boarded, paidFor, socialized,
                   now, incomes>>

----------------------------------------------------------------------------
(* Harvesting and sweeping: `amounts` says what was brought of each token *)

Noted(ark, amounts) ==
    [l \in Lots |-> IF l[1] = ark /\ l[2] \in DOMAIN amounts
                    THEN obtainedTokens[l] + amounts[l[2]] ELSE obtainedTokens[l]]
Received(balance, amounts) ==
    [t \in Tokens |-> IF t \in DOMAIN amounts THEN balance[t] + amounts[t] ELSE balance[t]]

Harvest(ark, amounts) ==
    /\ obtainedTokens' = Noted(ark, amounts)
    /\ raftBalance' = Received(raftBalance, amounts)
    /\ incomes' = incomes + 1
    /\ UNCHANGED <<unsoldTokens, paymentTokensToBoard, auctions, configVars, arkBalance, boarded,
                   paidFor, socialized, now>>

HarvestAndStartAuction(ark, amounts) ==
    /\ StartAuctions(ark, DOMAIN amounts, Noted(ark, amounts), Received(raftBalance, amounts))
    /\ incomes' = incomes + 1
    /\ UNCHANGED <<paymentTokensToBoard, configVars, arkBalance, boarded, paidFor, socialized, now>>

\* Ark.sweep first boards what the ark holds of its asset into the buffer ark.
IdleBoarded(ark) ==
    LET asset == AssetOf[ark] IN
    IF BufferOf[ark] = ark THEN arkBalance
    ELSE [arkBalance EXCEPT ![<<ark, asset>>] = 0,
                            ![<<BufferOf[ark], asset>>] = @ + arkBalance[<<ark, asset>>]]
Swept(ark, tokens) == [t \in tokens |-> IdleBoarded(ark)[<<ark, t>>]]

\* Every token must be listed and not excluded; the ark is left without them.
SweepArk(ark, tokens) ==
    /\ {ark} \X tokens \subseteq sweepableTokens \ nonSweepableTokens
    /\ arkBalance' = [l \in Lots |-> IF l \in {ark} \X tokens THEN 0 ELSE IdleBoarded(ark)[l]]

Sweep(ark, tokens) ==
    /\ SweepArk(ark, tokens)
    /\ obtainedTokens' = Noted(ark, Swept(ark, tokens))
    /\ raftBalance' = Received(raftBalance, Swept(ark, tokens))
    /\ UNCHANGED <<unsoldTokens, paymentTokensToBoard, auctions, configVars, boarded, paidFor,
                   socialized, now, incomes>>

\* A token of which the ark holds nothing is returned as address zero, for which
\* no auction can be started and no transfer made: the call reverts.
SweepAndStartAuction(ark, tokens) ==
    /\ \A t \in tokens : Swept(ark, tokens)[t] > 0
    /\ SweepArk(ark, tokens)
    /\ StartAuctions(ark, tokens, Noted(ark, Swept(ark, tokens)),
                     Received(raftBalance, Swept(ark, tokens)))
    /\ UNCHANGED <<paymentTokensToBoard, configVars, boarded, paidFor, socialized, now, incomes>>

\* What was swept is sent away at once, and stays noted as obtained.
SocializeLosses(ark, tokens) ==
    /\ \A t \in tokens : Swept(ark, tokens)[t] > 0
    /\ SweepArk(ark, tokens)
    /\ obtainedTokens' = Noted(ark, Swept(ark, tokens))
    /\ socialized' = Received(socialized, Swept(ark, tokens))
    /\ UNCHANGED <<unsoldTokens, paymentTokensToBoard, auctions, configVars, raftBalance, boarded,
                   paidFor, now, incomes>>

----------------------------------------------------------------------------
(* Configuration and environment *)

SetSweepableToken(l, isSweepable) ==
    /\ sweepableTokens' = IF isSweepable THEN sweepableTokens \cup {l} ELSE sweepableTokens \ {l}
    /\ UNCHANGED <<bookVars, moneyVars, arkAuctionParameters, nonSweepableTokens, now, incomes>>

SetNonSweepableToken(l, isNonSweepable) ==
    /\ nonSweepableTokens' =
          IF isNonSweepable THEN nonSweepableTokens \cup {l} ELSE nonSweepableTokens \ {l}
    /\ UNCHANGED <<bookVars, moneyVars, arkAuctionParameters, sweepableTokens, now, incomes>>

SetArkAuctionParameters(l, parameters) ==
    /\ parameters.duration # 0
    /\ arkAuctionParameters' = [arkAuctionParameters EXCEPT ![l] = parameters]
    /\ UNCHANGED <<bookVars, moneyVars, sweepableTokens, nonSweepableTokens, now, incomes>>

\* Rewards that are claimed for an ark by others, and tokens sent to it.
TokensReachArk(l, amount) ==
    /\ arkBalance' = [arkBalance EXCEPT ![l] = @ + amount]
    /\ incomes' = incomes + 1
    /\ UNCHANGED <<bookVars, configVars, raftBalance, boarded, paidFor, socialized, now>>

Tick == /\ now < MaxTime
        /\ now' = now + 1
        /\ UNCHANGED <<bookVars, configVars, moneyVars, incomes>>

RaftInit ==
    /\ obtainedTokens = [l \in Lots |-> 0] /\ unsoldTokens = [l \in Lots |-> 0]
    /\ paymentTokensToBoard = [l \in Lots |-> 0] /\ auctions = [l \in Lots |-> NoAuction]
    /\ arkAuctionParameters = [l \in Lots |->
          [duration |-> 0, startPrice |-> 0, endPrice |-> 0, kickerRewardPercentage |-> 0,
           decayType |-> "Linear"]]
    /\ sweepableTokens = {} /\ nonSweepableTokens = {}
    /\ raftBalance = [t \in Tokens |-> 0] /\ arkBalance = [l \in Lots |-> 0]
    /\ boarded = [a \in Arks |-> 0] /\ paidFor = [a \in Arks |-> 0]
    /\ socialized = [t \in Tokens |-> 0] /\ now = 0 /\ incomes = 0

\* The tokens of an ark among the given lots.
TokensOf(ark, lots) == {t \in Tokens : <<ark, t>> \in lots}

IncomeStep ==
    /\ incomes < MaxIncomes
    /\ \/ \E ark \in Arks : \E tokens \in SUBSET TokensOf(ark, Yielding) \ {{}} :
             \E amounts \in [tokens -> RewardAmounts] :
                \/ Harvest(ark, amounts)
                \/ HarvestAndStartAuction(ark, amounts)
       \/ \E l \in Yielding, amount \in RewardAmounts : TokensReachArk(l, amount)

SweepStep ==
    \E ark \in Arks : \E tokens \in SUBSET TokensOf(ark, Listable) :
        \/ Sweep(ark, tokens)
        \/ SweepAndStartAuction(ark, tokens)
        \/ SocializeLosses(ark, tokens)

AuctionStep ==
    \E ark \in Arks, token \in Tokens :
        \/ StartAuction(ark, token)
        \/ \E amount \in BuyAmounts : BuyTokens(ark, token, amount)
        \/ FinalizeAuction(ark, token)
        \/ Board(ark, token)

SetupStep ==
    \/ \E l \in Listable, b \in BOOLEAN : SetSweepableToken(l, b) \/ SetNonSweepableToken(l, b)
    \/ \E l \in Configurable, parameters \in AuctionParams :
          SetArkAuctionParameters(l, parameters)

RaftNext == IncomeStep \/ SweepStep \/ AuctionStep \/ SetupStep \/ Tick

RaftSpec == RaftInit /\ [][RaftNext]_raftVars

----------------------------------------------------------------------------
(* Properties *)

\* Types and ranges: no book, balance or auction is overdrawn.
TypeOK ==
    /\ obtainedTokens \in [Lots -> Nat] /\ unsoldTokens \in [Lots -> Nat]
    /\ paymentTokensToBoard \in [Lots -> Nat] /\ arkAuctionParameters \in [Lots -> Params]
    /\ auctions \in [Lots -> Auctions]
    /\ sweepableTokens \subseteq Lots /\ nonSweepableTokens \subseteq Lots
    /\ raftBalance \in [Tokens -> Nat] /\ arkBalance \in [Lots -> Nat]
    /\ boarded \in [Arks -> Nat] /\ paidFor \in [Arks -> Nat] /\ socialized \in [Tokens -> Nat]
    /\ now \in Nat /\ incomes \in Nat

\* What the books of a lot say the Raft holds of a token for it.
Claim(l, t) ==
    (IF l[2] = t THEN obtainedTokens[l] + unsoldTokens[l] + auctions[l].remaining ELSE 0)
  + (IF AssetOf[l[1]] = t THEN paymentTokensToBoard[l] ELSE 0)

\* The one balance the Raft has of each token is what the books of all lots say,
\* tokens to be auctioned, on auction, unsold and payments together, less exactly
\* what socializeLosses sent away without taking it off the books.
TokensAccountedFor ==
    \A t \in Tokens :
        raftBalance[t] + socialized[t] = SumOver([l \in Lots |-> Claim(l, t)], Lots)

\* Every payment reaches the ark whose tokens were sold, once: what was boarded
\* and what still waits is what was paid, however many auctions the ark had and
\* whatever other lots share the balance.
ProceedsReachArk ==
    \A a \in Arks :
        paidFor[a] = boarded[a] + SumOver([t \in Tokens |-> paymentTokensToBoard[<<a, t>>]], Tokens)

\* An ark that takes no keeper data has no board call: its payments wait only
\* while the auction runs, and none is left behind when it ends in either way.
NoPaymentLeftBehind ==
    \A l \in Lots :
        l[1] \notin KeeperDataArks /\ ~auctions[l].running => paymentTokensToBoard[l] = 0

\* While an auction runs its price never rises, whatever the roundings of the
\* decay and whatever parameters the curator sets meanwhile, nor does it fall
\* below the end price.
PriceOnlyFalls ==
    [][\A l \in Lots : auctions[l].running /\ auctions'[l].running =>
          /\ GetCurrentPrice(auctions[l])' <= GetCurrentPrice(auctions[l])
          /\ GetCurrentPrice(auctions[l])' >= auctions[l].endPrice]_raftVars
=============================================================================
