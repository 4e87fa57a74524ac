---------------------------- MODULE SummerStaking ----------------------------
(***************************************************************************)
(* Governance staking: SummerStaking with the reward accounting it         *)
(* inherits from StakingRewardsManagerBase, the wrapper that holds the     *)
(* staked SUMR and the StakedSummerToken (xSUMR) that carries the votes.   *)
(*                                                                         *)
(* Several deployments of the staking contract mint and burn one xSUMR.    *)
(* An account's stakes in a deployment form a portfolio: index 0 collects  *)
(* everything staked without lockup, every further index is one lockup,    *)
(* and an emptied lockup is replaced by the last one.  Rewards are shared  *)
(* by weight: the longer the lockup the heavier the stake.  One reward     *)
(* token is modelled for each deployment; a reward the governor announces  *)
(* is streamed over its period.                                            *)
(*                                                                         *)
(* Every external call is one transaction, so one action; a call that      *)
(* reverts is a step that is not there.  The approvals a call needs (of    *)
(* SUMR to stake, of xSUMR to unstake) are taken to be given before it.    *)
(*                                                                         *)
(* An operator whose comment starts with `Slip:' is no part of the model:  *)
(* it is a way its successor could go wrong in the code.                   *)
(***************************************************************************)
EXTENDS Sums, Sequences, FiniteSets

CONSTANTS
    Users,             \* accounts
    Deployments,       \* addresses of the staking contract
    Scopes,            \* bounds of a behaviour, one of which is chosen at its start:
                       \*   stakers      the accounts that stake in each deployment
                       \*   wallets      SUMR each account starts with
                       \*   amounts      amounts of one call
                       \*   periods      lockup periods asked for
                       \*   delegations  who may let whom act: <<deployment, owner, caller>>
                       \*   burners      accounts that may burn their xSUMR
                       \*   rewarded     the deployments that are given rewards
                       \*   governed     the deployments whose settings change
                       \*   time         the clock
                       \*   governance   calls of the governor and the guardian
    BucketMax,         \* the longest lockup of each bucket; the first is 0
    InitialCap,        \* cap of every bucket when staking opens
    Caps,              \* bound: caps the governor gives later
    WeightBase, WeightCoefficient,   \* weight of lockup t is 1 + coefficient * t^2 / base
    MaxStakes,         \* MAX_AMOUNT_OF_STAKES
    MaxLockup,         \* MAX_LOCKUP_PERIOD
    FixedPenaltyPeriod, MinPenalty, MaxPenalty, PenaltyUnit,
    Wad,               \* scale of reward rates
    RewardAmounts,     \* bound: rewards the governor announces
    RewardDurations,   \* bound: periods they are streamed over
    DustThreshold

Buckets == 1..Len(BucketMax)

ASSUME ScopeAssumption   ==
    /\ IsFiniteSet(Users) /\ IsFiniteSet(Deployments)
    /\ Scopes \subseteq [stakers : [Deployments -> SUBSET Users], wallets : [Users -> Nat],
                         amounts : SUBSET (Nat \ {0}), periods : SUBSET (0..MaxLockup),
                         delegations : SUBSET (Deployments \X Users \X Users),
                         burners : SUBSET Users, rewarded : SUBSET Deployments,
                         governed : SUBSET Deployments,
                         time : Nat, governance : Nat]
ASSUME StakeAssumption   == /\ Caps \subseteq Nat /\ InitialCap \in Nat
                            /\ WeightBase \in Nat \ {0} /\ WeightCoefficient \in Nat
                            /\ MaxStakes \in Nat \ {0} /\ MaxLockup \in Nat \ {0}
ASSUME BucketAssumption  == /\ BucketMax \in Seq(Nat) /\ Len(BucketMax) > 0
                            /\ BucketMax[1] = 0 /\ BucketMax[Len(BucketMax)] = MaxLockup
                            /\ \A k \in 1..(Len(BucketMax) - 1) : BucketMax[k] < BucketMax[k + 1]
ASSUME PenaltyAssumption == /\ FixedPenaltyPeriod \in Nat /\ PenaltyUnit \in Nat \ {0}
                            /\ MinPenalty \in 0..PenaltyUnit /\ MaxPenalty \in 0..PenaltyUnit
ASSUME RewardAssumption  == /\ Wad \in Nat \ {0} /\ RewardAmounts \subseteq Nat
                            /\ RewardDurations \subseteq Nat \ {0} /\ DustThreshold \in Nat

VARIABLES
    scope,             \* the bounds of this behaviour
    now,               \* block.timestamp
    summer,            \* SUMR of each account
    treasury,          \* SUMR of the treasury
    xSumr,             \* xSUMR of each account
    paused,            \* xSUMR: no mint, no burn
    wrapped,           \* SUMR each deployment holds in the wrapper
    portfolio,         \* stakesByOwner, [deployment][account], a sequence
    balances,          \* _balances
    weightedBalances,
    totalSupply,       \* weighted
    bucketStaked, bucketCap,   \* bucketData
    isAuthorized,      \* pairs <<owner, caller>> of each deployment
    penaltyEnabled,
    reward,            \* rewardData of the reward token, and whether it is listed
    rewardPaid,        \* userRewardPerTokenPaid
    rewards,           \* rewards owed since the account's last update
    rewardHeld,        \* reward tokens the deployment holds
    rewardSuspect,     \* history: the reward was swept or listed a second time
    governance         \* calls of governor and guardian so far

stakeVars  == <<portfolio, balances, weightedBalances, totalSupply, bucketStaked>>
tokenVars  == <<summer, treasury, xSumr, wrapped>>
configVars == <<bucketCap, penaltyEnabled, paused, governance>>
rewardVars == <<reward, rewardPaid, rewards, rewardHeld, rewardSuspect>>
stakingVars == <<scope, now, stakeVars, tokenVars, configVars, isAuthorized, rewardVars>>

---------------------------------------------------------------------------
(* Weights, buckets and penalties *)

Least(a, b) == IF a < b THEN a ELSE b

CalculateWeightedStake(amount, period) ==
    (amount * (WeightBase + WeightCoefficient * period * period)) \div WeightBase

\* Slip: a period at the top of a bucket counts for the next one.
FindBucketAbove(period) ==
    CHOOSE k \in Buckets : /\ period < BucketMax[k] \/ k = Len(BucketMax)
                           /\ \A j \in 1..(k - 1) : period >= BucketMax[j]

\* _findBucket: the first bucket that is long enough.
FindBucket(period) ==
    CHOOSE k \in Buckets : /\ period <= BucketMax[k]
                           /\ \A j \in 1..(k - 1) : period > BucketMax[j]

CalculatePenaltyPercentage(d, stake) ==
    LET remaining == stake.lockupEndTime - now IN
    IF ~penaltyEnabled[d] \/ remaining <= 0 THEN 0
    ELSE IF remaining < FixedPenaltyPeriod THEN MinPenalty
    ELSE (remaining * MaxPenalty) \div MaxLockup

CalculatePenalty(d, stake, amount) ==
    (CalculatePenaltyPercentage(d, stake) * amount) \div PenaltyUnit

---------------------------------------------------------------------------
(* Rewards *)

LastTimeRewardApplicable(d) == Least(now, reward[d].periodFinish)

RewardPerToken(d) ==
    IF totalSupply[d] = 0 THEN reward[d].stored
    ELSE reward[d].stored
            + ((LastTimeRewardApplicable(d) - reward[d].lastUpdateTime) * reward[d].rate)
                  \div totalSupply[d]

Earned(d, u) ==
    (weightedBalances[d][u] * (RewardPerToken(d) - rewardPaid[d][u])) \div Wad + rewards[d][u]

\* The first half of _updateReward: the token's own record, if it is listed.
Accrued(d) ==
    IF ~reward[d].listed THEN reward[d]
    ELSE [reward[d] EXCEPT !.stored = RewardPerToken(d),
                           !.lastUpdateTime = LastTimeRewardApplicable(d)]

\* Slip: the account is not marked as paid up to the new index.
UpdateRewardUnmarked(d, u) ==
    /\ reward' = [reward EXCEPT ![d] = Accrued(d)]
    /\ rewards' = IF reward[d].listed THEN [rewards EXCEPT ![d][u] = Earned(d, u)] ELSE rewards
    /\ UNCHANGED rewardPaid

\* _updateReward for an account.
UpdateReward(d, u) ==
    /\ reward' = [reward EXCEPT ![d] = Accrued(d)]
    /\ rewards' = IF reward[d].listed THEN [rewards EXCEPT ![d][u] = Earned(d, u)] ELSE rewards
    /\ rewardPaid' = IF reward[d].listed
                     THEN [rewardPaid EXCEPT ![d][u] = RewardPerToken(d)] ELSE rewardPaid

---------------------------------------------------------------------------
(* Staking *)

NewStake(amount, period) ==
    [amount |-> amount, weightedAmount |-> CalculateWeightedStake(amount, period),
     lockupEndTime |-> now + period, lockupPeriod |-> period]

\* _ensurePortfolio: index 0 is there, empty, before the first stake.
EnsurePortfolio(stakes) == IF stakes = <<>> THEN <<NewStake(0, 0)>> ELSE stakes

\* A stake without lockup is added to index 0, any other is appended.
WithStake(stakes, amount, period) ==
    IF period = 0
    THEN [stakes EXCEPT ![1].amount = @ + amount,
                        ![1].weightedAmount = @ + CalculateWeightedStake(amount, 0),
                        ![1].lockupEndTime = now]
    ELSE Append(stakes, NewStake(amount, period))

\* Slip: the others move up by one.
RemoveStakeInOrder(stakes, i) == [k \in 1..(Len(stakes) - 1) |->
                                     IF k <= i THEN stakes[k] ELSE stakes[k + 1]]

\* _removeStake, with indices from 0: the last stake takes the place of i.
RemoveStake(stakes, i) ==
    SubSeq([stakes EXCEPT ![i + 1] = stakes[Len(stakes)]], 1, Len(stakes) - 1)

MayActFor(d, owner, caller) == caller = owner \/ <<owner, caller>> \in isAuthorized[d]

\* stakeLockup, and stakeLockupOnBehalf when the caller is not the receiver.
StakeLockup(d, from, receiver, amount, period) ==
    LET stakes == EnsurePortfolio(portfolio[d][receiver])
        weighted == CalculateWeightedStake(amount, period)
        bucket == FindBucket(period)
    IN
    /\ MayActFor(d, receiver, from)
    /\ bucketStaked[d][bucket] + amount <= bucketCap[d][bucket]
    /\ period > 0 => Len(stakes) < MaxStakes
    /\ summer[from] >= amount
    /\ ~paused
    /\ UpdateReward(d, receiver)
    /\ portfolio' = [portfolio EXCEPT ![d][receiver] = WithStake(stakes, amount, period)]
    /\ balances' = [balances EXCEPT ![d][receiver] = @ + amount]
    /\ weightedBalances' = [weightedBalances EXCEPT ![d][receiver] = @ + weighted]
    /\ totalSupply' = [totalSupply EXCEPT ![d] = @ + weighted]
    /\ bucketStaked' = [bucketStaked EXCEPT ![d][bucket] = @ + amount]
    /\ summer' = [summer EXCEPT ![from] = @ - amount]
    /\ wrapped' = [wrapped EXCEPT ![d] = @ + amount]
    /\ xSumr' = [xSumr EXCEPT ![receiver] = @ + amount]
    /\ UNCHANGED <<scope, now, treasury, configVars, isAuthorized, rewardHeld, rewardSuspect>>

\* Slip: the share is rounded up.
WeightToRemoveUp(stake, amount) ==
    (stake.weightedAmount * amount + stake.amount - 1) \div stake.amount

\* The share of a stake's weight that leaves with part of its amount.
WeightToRemove(stake, amount) == (stake.weightedAmount * amount) \div stake.amount

\* unstakeLockup, with indices from 0.
UnstakeLockup(d, u, i, amount) ==
    LET stakes == portfolio[d][u]
        stake == stakes[i + 1]
        weighted == WeightToRemove(stake, amount)
        penalty == CalculatePenalty(d, stake, amount)
        bucket == FindBucket(stake.lockupPeriod)
        left == [stake EXCEPT !.amount = @ - amount, !.weightedAmount = @ - weighted]
    IN
    /\ amount <= balances[d][u]
    /\ i < Len(stakes)
    /\ stake.amount >= amount
    /\ xSumr[u] >= amount /\ ~paused
    /\ UpdateReward(d, u)
    /\ portfolio' = [portfolio EXCEPT ![d][u] =
                        IF left.amount = 0 /\ i # 0 THEN RemoveStake(stakes, i)
                        ELSE [stakes EXCEPT ![i + 1] = left]]
    /\ balances' = [balances EXCEPT ![d][u] = @ - amount]
    /\ weightedBalances' = [weightedBalances EXCEPT ![d][u] = @ - weighted]
    /\ totalSupply' = [totalSupply EXCEPT ![d] = @ - weighted]
    /\ bucketStaked' = [bucketStaked EXCEPT ![d][bucket] = @ - amount]
    /\ summer' = [summer EXCEPT ![u] = @ + (amount - penalty)]
    /\ treasury' = treasury + penalty
    /\ wrapped' = [wrapped EXCEPT ![d] = @ - amount]
    /\ xSumr' = [xSumr EXCEPT ![u] = @ - amount]
    /\ UNCHANGED <<scope, now, configVars, isAuthorized, rewardHeld, rewardSuspect>>

SetAuthorization(d, owner, caller, b) ==
    /\ isAuthorized' = [isAuthorized EXCEPT ![d] = IF b THEN @ \cup {<<owner, caller>>}
                                                        ELSE @ \ {<<owner, caller>>}]
    /\ UNCHANGED <<scope, now, stakeVars, tokenVars, configVars, rewardVars>>

\* An account may burn its own xSUMR; what it staked is then out of its reach.
BurnOwn(u, amount) ==
    /\ xSumr[u] >= amount /\ ~paused
    /\ xSumr' = [xSumr EXCEPT ![u] = @ - amount]
    /\ UNCHANGED <<scope, now, summer, treasury, wrapped, stakeVars, configVars, isAuthorized,
                   rewardVars>>

\* getReward, and getRewardFor by an authorized caller: the account is paid.
GetReward(d, u) ==
    /\ reward[d].listed
    /\ rewardHeld[d] >= Earned(d, u)
    /\ reward' = [reward EXCEPT ![d] = Accrued(d)]
    /\ rewardPaid' = [rewardPaid EXCEPT ![d][u] = RewardPerToken(d)]
    /\ rewards' = [rewards EXCEPT ![d][u] = 0]
    /\ rewardHeld' = [rewardHeld EXCEPT ![d] = @ - Earned(d, u)]
    /\ UNCHANGED <<scope, now, stakeVars, tokenVars, configVars, isAuthorized, rewardSuspect>>

---------------------------------------------------------------------------
(* The governor, the guardian and the clock *)

\* Slip: the period that is running is dropped unaccrued.
AccruedNever(d) == reward[d]

\* updateReward(address(0)), the modifier of notifyRewardAmount.
AccruedByNotify(d) == Accrued(d)

\* notifyRewardAmount: the new reward replaces what is left of the running one.
NotifyRewardAmount(d, amount, duration) ==
    /\ reward[d].listed => duration = reward[d].rewardsDuration
    /\ reward' = [reward EXCEPT ![d] =
                    [AccruedByNotify(d) EXCEPT !.listed = TRUE, !.rewardsDuration = duration,
                                       !.rate = (amount * Wad) \div duration,
                                       !.lastUpdateTime = now,
                                       !.periodFinish = now + duration]]
    /\ rewardHeld' = [rewardHeld EXCEPT ![d] = @ + amount]
    /\ rewardSuspect' = [rewardSuspect EXCEPT
                            ![d] = @ \/ (~reward[d].listed /\ reward[d].rewardsDuration > 0)]
    /\ UNCHANGED <<rewardPaid, rewards, bucketCap, penaltyEnabled, paused>>

PeriodOver(d) == now > reward[d].periodFinish

SetRewardsDuration(d, duration) ==
    /\ reward[d].listed /\ PeriodOver(d)
    /\ reward' = [reward EXCEPT ![d].rewardsDuration = duration]
    /\ UNCHANGED <<rewardPaid, rewards, rewardHeld, rewardSuspect>>
    /\ UNCHANGED <<bucketCap, penaltyEnabled, paused>>

\* Nothing is accrued for the time since the last update.
RemoveRewardToken(d) ==
    /\ reward[d].listed /\ PeriodOver(d)
    /\ rewardHeld[d] <= DustThreshold
    /\ reward' = [reward EXCEPT ![d].listed = FALSE]
    /\ UNCHANGED <<rewardPaid, rewards, rewardHeld, rewardSuspect>>
    /\ UNCHANGED <<bucketCap, penaltyEnabled, paused>>

\* rescueToken of the reward token: the governor takes all of it.
RescueReward(d) ==
    /\ rewardHeld[d] > 0
    /\ rewardHeld' = [rewardHeld EXCEPT ![d] = 0]
    /\ rewardSuspect' = [rewardSuspect EXCEPT ![d] = TRUE]
    /\ UNCHANGED <<reward, rewardPaid, rewards, bucketCap, penaltyEnabled, paused>>

UpdateLockupBucketCap(d, k, cap) ==
    /\ bucketCap' = [bucketCap EXCEPT ![d][k] = cap]
    /\ UNCHANGED <<penaltyEnabled, paused, rewardVars>>

UpdatePenaltyEnabled(d, b) ==
    /\ penaltyEnabled' = [penaltyEnabled EXCEPT ![d] = b]
    /\ UNCHANGED <<bucketCap, paused, rewardVars>>

\* pause and unpause of xSUMR.
SetPaused(b) ==
    /\ paused # b
    /\ paused' = b
    /\ UNCHANGED <<bucketCap, penaltyEnabled, rewardVars>>

GovernanceStep ==
    /\ governance < scope.governance
    /\ governance' = governance + 1
    /\ \/ \E d \in scope.rewarded :
            \/ \E r \in RewardAmounts, t \in RewardDurations : NotifyRewardAmount(d, r, t)
            \/ \E t \in RewardDurations : SetRewardsDuration(d, t)
            \/ RemoveRewardToken(d)
            \/ RescueReward(d)
       \/ \E d \in scope.governed :
            \/ \E k \in Buckets, cap \in Caps : UpdateLockupBucketCap(d, k, cap)
            \/ \E b \in BOOLEAN : UpdatePenaltyEnabled(d, b)
            \/ \E b \in BOOLEAN : SetPaused(b)
    /\ UNCHANGED <<scope, now, stakeVars, tokenVars, isAuthorized>>

Tick ==
    /\ now < scope.time
    /\ now' = now + 1
    /\ UNCHANGED <<scope, stakeVars, tokenVars, configVars, isAuthorized, rewardVars>>

---------------------------------------------------------------------------
(* Specification *)

NoReward == [listed |-> FALSE, rate |-> 0, rewardsDuration |-> 0, periodFinish |-> 0,
             lastUpdateTime |-> 0, stored |-> 0]

StakingInit ==
    /\ scope \in Scopes
    /\ now = 0
    /\ summer = scope.wallets /\ treasury = 0
    /\ xSumr = [u \in Users |-> 0] /\ paused = FALSE
    /\ wrapped = [d \in Deployments |-> 0]
    /\ portfolio = [d \in Deployments |-> [u \in Users |-> <<>>]]
    /\ balances = [d \in Deployments |-> [u \in Users |-> 0]]
    /\ weightedBalances = [d \in Deployments |-> [u \in Users |-> 0]]
    /\ totalSupply = [d \in Deployments |-> 0]
    /\ bucketStaked = [d \in Deployments |-> [k \in Buckets |-> 0]]
    /\ bucketCap = [d \in Deployments |-> [k \in Buckets |-> InitialCap]]
    /\ isAuthorized = [d \in Deployments |-> {}]
    /\ penaltyEnabled = [d \in Deployments |-> TRUE]
    /\ reward = [d \in Deployments |-> NoReward]
    /\ rewardPaid = [d \in Deployments |-> [u \in Users |-> 0]]
    /\ rewards = [d \in Deployments |-> [u \in Users |-> 0]]
    /\ rewardHeld = [d \in Deployments |-> 0]
    /\ rewardSuspect = [d \in Deployments |-> FALSE]
    /\ governance = 0

\* The steps no handler of the index listens to.
QuietStep ==
    \/ \E w \in scope.delegations, b \in BOOLEAN : SetAuthorization(w[1], w[2], w[3], b)
    \/ \E u \in scope.burners, a \in scope.amounts : BurnOwn(u, a)
    \/ \E d \in Deployments : \E u \in scope.stakers[d] : GetReward(d, u)
    \/ GovernanceStep
    \/ Tick

StakingNext ==
    \/ \E d \in Deployments, a \in scope.amounts, p \in scope.periods :
          \E u, v \in scope.stakers[d] : StakeLockup(d, u, v, a, p)
    \/ \E d \in Deployments, a \in scope.amounts, i \in 0..(MaxStakes - 1) :
          \E u \in scope.stakers[d] : UnstakeLockup(d, u, i, a)
    \/ QuietStep

StakingSpec == StakingInit /\ [][StakingNext]_stakingVars

---------------------------------------------------------------------------
(* Properties *)

InBucket(period, k) == period <= BucketMax[k] /\ (k > 1 => period > BucketMax[k - 1])

\* The sums over a portfolio: amounts, weights, and amounts in one bucket.
Staked(stakes) == SumOver([i \in DOMAIN stakes |-> stakes[i].amount], DOMAIN stakes)
Weight(stakes) == SumOver([i \in DOMAIN stakes |-> stakes[i].weightedAmount], DOMAIN stakes)
StakedIn(stakes, k) ==
    SumOver([i \in DOMAIN stakes |->
                IF InBucket(stakes[i].lockupPeriod, k) THEN stakes[i].amount ELSE 0],
            DOMAIN stakes)

\* Every ledger of a deployment tells the same story after any sequence of
\* stakes, partial and full exits: an account's balance and weight are the sums
\* over its portfolio, the total is the sum of the weights, each bucket holds
\* what is staked at its periods; the wrapper holds what is staked and nobody
\* has more votes than stakes.
StakeLedgersAgree ==
    /\ \A d \in Deployments :
        /\ \A u \in Users :
            /\ balances[d][u] = Staked(portfolio[d][u])
            /\ weightedBalances[d][u] = Weight(portfolio[d][u])
            /\ \A i \in 2..Len(portfolio[d][u]) : portfolio[d][u][i].amount > 0
        /\ totalSupply[d] = SumOver(weightedBalances[d], Users)
        /\ wrapped[d] = SumOver(balances[d], Users)
        /\ \A k \in Buckets :
            bucketStaked[d][k] = SumOver([u \in Users |-> StakedIn(portfolio[d][u], k)], Users)
    /\ \A u \in Users :
          xSumr[u] <= SumOver([d \in Deployments |-> balances[d][u]], Deployments)

\* The reward tokens a deployment holds cover what all accounts have earned,
\* also when a reward is announced while another one runs; unless the governor
\* swept them, or listed again a token that was removed (who stakes while it is
\* not listed is taken to have earned its whole history).
RewardsCovered ==
    \A d \in Deployments : (reward[d].listed /\ ~rewardSuspect[d]) =>
        rewardHeld[d] >= SumOver([u \in Users |-> Earned(d, u)], Users)

\* Only time changes what an account has earned: a stake, an exit, a claim or an
\* announcement leaves the earnings of all accounts as they are, except that
\* what leaves the contract is taken from the account that is paid.
EarningsUndisturbed ==
    [][now' = now =>
        \A d \in Deployments :
            (reward[d].listed /\ reward'[d].listed /\ ~rewardSuspect'[d]) =>
                \A u \in Users :
                    \/ Earned(d, u)' = Earned(d, u)
                    \/ Earned(d, u)' = 0
                          /\ rewardHeld'[d] = rewardHeld[d] - Earned(d, u)]_stakingVars
=============================================================================
