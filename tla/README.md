# TLA+ verification of the Summer Earn protocol

These modules model the core of the protocol in `src/packages`: the rounds vault
and the fleet commander with the components they are made of, the Raft with its Dutch
auctions, the registry of rounds vaults and the index a subgraph keeps of it, governance
staking and its index, and the governance alert bot. TLC checks them on small instances,
TLAPS proves all their safety properties but one (section 5) for all instances.
`PROJECT.json` lists every run, the source lines behind every definition, the hazards the
properties are aimed at, the differences found between code and documentation, and the
theorems.

Paths below are relative to `src/packages`.

## 1. Inventory

The repository is a Solidity monorepo with deployment scripts, subgraphs and front
ends around the contracts. A transaction is atomic and the chain serialises
transactions, so for the contracts concurrency means: in which order do calls of
users, keepers, curators, guardians and governors arrive, and what did the world
(prices, market liquidity, the clock) do in between. The subgraphs run one handler
per event in the order of the chain; the alert bot is a process that polls, overlaps
with itself, fails and restarts.

| Component | State | Operations | Interacts with | What makes it correct |
|---|---|---|---|---|
| **Rounds vault** (`core-contracts/.../rounds-vault`, `extensions/ERC1155FullSupply`, `ERC4626MultiToken*`) | current round, state and rate per round, ERC-1155 receipts, supply per round, sum per account, minimum position | deposit, redeem(+batch), redeemExchangeAsset(+batch), transfers, nextRound, retryRound, setRoundSettled(+batch), rollback | target ERC-4626 vault, access manager's whitelist | receipts are backed, settlement is final, a round pays from its own trade |
| **Fleet commander** (`FleetCommander`, `...Cache`, `...CacheLib`, `...ConfigProvider`) | shares, active arks, fleet config, transient cache | deposit, mint, six withdrawal paths, rebalance, config | arks, tipper, tip jar, rewards manager | no path takes value from other holders; limits hold; everyone can leave |
| **Tipper** | tip rate, last accrual | accrue on each call, setTipRate, tip | fleet supply, tip jar | the fee is charged once, on the supply before the fee |
| **Pausing, cooldown** | paused, since, minimum; last action | pause, unpause; enforce | every fleet call | a pause freezes funds for its minimum time |
| **Arks** (`Ark`, `ArkConfigProvider`, `BufferArk`, 36 adapters) | position in a market, limits | board, disembark, move, harvest, sweep | fleet, Raft, markets | assets are reported once and reachable |
| **Raft, auctions, BuyAndBurn** | obtained, unsold and to-be-boarded tokens per ark, auctions | harvest, sweep, auction, buy, finalize, board | arks, Dutch auction library | the ledgers cover the tokens held |
| **TipJar** | streams with allocations and locks | shake, stream management | fleets | allocations sum to at most 100 %, all is distributed |
| **Rounds vault registry** (`RoundsVaultRegistry`) | one pair of vaults per fleet, active or not | register, set, clear, deactivate, reactivate | institutions subgraph | the subgraph follows the vaults it names |
| **Institutions subgraph** (`summer-earn-institutions-v2-subgraph`) | rows of pairs, vaults, rounds, receipts | a handler per event | rounds vault, registry | the rows tell what the vault did |
| **Governance staking** (`SummerStaking`, `StakingRewardsManagerBase`, `StakedSummerToken`, `WrappedStakingToken`) | portfolios, buckets, weights, reward streams, xSUMR | stake, unstake, claim, notify, caps, penalties, pause | SUMR, treasury, several deployments with one xSUMR | ledgers match portfolios; rewards are covered |
| **Protocol subgraph** (`summer-earn-protocol-subgraph`) | stake rows by index, last index per account, totals | `handleStaked`, `handleUnstaked` (and many mappings of fleets) | governance staking | the rows mirror the portfolios |
| **Governance alert bot** (`summer-earn-gov-alert-bot`) | block reached per network, in a file and in each cycle | poll, tell, save, `/check`, `/tx` | RPC nodes, Telegram, disk, scheduler | no event of the governor or timelock is missed |
| **Fleet and governance rewards managers** | staked fleet shares, decayed votes | stake, unstake, claim, notify | fleets, decay | rewards are covered |
| **Governance** (governor, timelock, token, decay, vesting) | proposals, votes, decay | OpenZeppelin life cycle | bridge | one vote per power, timelocked execution |
| **Chain bridge** (`BridgeRouter`, adapters, registry) | nonce, operation to adapter, read originators | transfer, message, read, deliver | LayerZero, Stargate | an operation is delivered to its receiver, reads to their originator |
| **DCA manager**, **intent system** | strategies; escrows and bonds | create, edit, pause, execute; fill | vaults, oracles, keepers | bounded executions; no double spend |
| **Access, configuration, RWA oracles, registries, AdmiralsQuarters** | roles, addresses, prices | setters | all | role checks |
| Other off-chain services, deployment, front ends | - | - | - | not part of the model |

The behaviours that are hard in the contracts are not data races but sequences: a round rolled
back behind the current one, receipts of several rounds paid from one balance at
different prices, a rebalance whose legs change what later legs were validated
against, tips accrued by some calls on one supply and by others on another,
rounding in opposite directions on six withdrawal paths, a stake's index that names
another stake after an exit, a reward announced while another one runs. In the
subgraphs it is a copy that is kept by other code than the original: a vault named
long after it started, swap-and-pop repeated on rows, a sum divided again. In the
bot it is interleaving, crashes, partial failure and retries. Each is an entry of
`hazards` with its line and its properties; the list names those a test would
hardly reach.

## 2. Modules

| Module | Models | Theorems |
|---|---|---|
| `RoundsVault` | the rounds vault, both flavours, and its environment | |
| `RoundsPromise` | what a rounds vault promises about each round (abstract) | |
| `Sums` | sums over finite sets | |
| `LedgerLemmas` | facts about sums over finite sets, rounding and running sums, for the proofs | yes |
| `RoundsVaultProofs` | the theorems of `RoundsVault`: its invariants, that it implements `RoundsPromise`, the tokens it holds, the calls it must accept | yes |
| `ShareMath` | ERC-4626 share arithmetic, percentages | |
| `FleetCommander` | the fleet with tipper, pausing, cooldown, config and arks | |
| `FleetProofs` | the theorems of `FleetCommander` | yes |
| `Raft` | the Raft with the Dutch auction library, and the sweep of an ark | |
| `RaftProofs` | the theorems of `Raft` | yes |
| `RoundsIndex` | extends `RoundsVault`: the registry, and the institutions subgraph's handlers and rows | |
| `RoundsIndexProofs` | the theorems of `RoundsIndex` | yes |
| `SummerStaking` | governance staking with its rewards and xSUMR | |
| `StakingProofs` | the theorems of `SummerStaking` | yes |
| `StakingIndex` | extends `SummerStaking`: the protocol subgraph's handlers and rows | |
| `StakingIndexProofs` | the theorems of `StakingIndex` | yes |
| `AlertBot` | the governance alert bot with nodes, chat, disk and scheduler | |
| `AlertBotProofs` | the theorems of `AlertBot` | yes |
| `MCRoundsVault`, `MCFleetCommander`, `MCRaft`, `MCRoundsIndex`, `MCStakingIndex`, `MCAlertBot` | model values and bounds | |

An operator whose comment starts with `Slip:` is not part of a model. It is a way
the definition after it could be wrong in the code (a dropped guard, the other
rounding, a stale read); with it in place the property named in `mutants` fails,
which shows that the property is about that code.

### RoundsVault

Each external function is one action with the same name. Variables are the
storage of the contracts (the comment behind each names it), the token balances
of users and vault, and one history variable, `paidOut`, the exchange tokens paid
against each round.

* `deposit`, `redeem`, `redeemBatch`, `redeemExchangeAsset(Batch)` and the two
  transfers check the whitelist for every party, move receipts in all three
  ledgers as `_update` does, and end with the check of `validateMinPosition`,
  which reads the state after the call and therefore is written with primes.
* Batches have two entries, which may name the same round; the second entry is
  checked on the balances the first one left, as the loop does.
* `setRoundSettled` trades the supply of the round at the target's price and stores
  the trade as the rate; an empty round stores the preview for one unit and does
  not call the target. `setRoundSettledBatch` has two ids; a repeated id reverts.
* The environment: the target vault's price moves, it closes and reopens, the
  whitelist changes.

Left out: approvals (an operator acts for the owner), URIs, events, and the
emission of tokens straight to the vault (a donation; no property needs it not to
happen, and none uses the balance as an upper bound of anything).

### FleetCommander

Each external function of the fleet that changes funds or setup is one action;
modifiers are part of it. How the code's parts appear:

* *Cache.* `useCache`/`useWithdrawCache` fill the transient cache at the start of a
  call from the arks and flush it at the end, so within one call the cached totals
  are the totals before it, and the model reads those directly.
* *Tips.* `collectTip` accrues first and computes on the supply including the new
  tip shares: `TippedSupply`, `TippedShares`. `tip()` and `setTipRate()` accrue on
  `totalSupply()`, which outside a collecting call contains the tip to come:
  `AccrueOnView`. The clock moves only when a tip was minted or the rate is zero.
* *Withdrawals from arks.* `_forceDisembarkFromSortedArks` empties arks in ascending
  order of what they can pay. Arks with equal amounts are ordered by a ranking the
  model chooses freely, so every order the sort can produce is covered.
* *Rebalance.* `AdjustBufferValid` is evaluated on the state before the first leg,
  as `_validateAdjustBuffer` is. `ReallocateAssets` is one leg: limits on flows
  accumulated over the call, effective cap on the state the earlier legs left,
  and a failure of any leg makes the call impossible.
* *Arks.* An ark is its assets, whether its market can pay, and whether it needs
  keeper data (then it offers nothing to withdrawals). Gains, losses and
  illiquidity are environment steps, bounded by `MaxValueMoves`.

Left out: `updateStakingRewardsManager` (an address), allowances, the rewards
manager's own state (only its exemption from the transfer lock is there), several
calls in one transaction, harvest and sweep of arks (which are in `Raft`).

`Explored` selects groups of calls, so that a run spends its states on its
question. It only removes actions: every group is explored by a passing run.

### Raft

The Raft keeps its books per *lot*, a pair of an ark and a reward token: `obtainedTokens`,
`unsoldTokens`, `paymentTokensToBoard` and `auctions` are functions of lots. What it holds is one
balance per token, `raftBalance`, whatever it is held for, and a token may be the reward of one ark
and the asset of another.

* Each external function is an action with its name; the functions of `DutchAuctionLibrary`
  and `AuctionManagerBase` are part of the calls that use them. A purchase that leaves nothing
  finalizes and settles the auction in the same call; settling boards at once (`BoardProceeds`)
  unless the ark requires keeper data, whose payments wait for `board`.
* `StartAuctions` starts one auction per token of a harvest or sweep, each with what was obtained,
  just now included, and what is unsold, less the kicker's reward.
* `GetCurrentPrice` has both curves in the code's order of roundings: in 18 decimals, then in the
  decimals of the payment token. `Wei` and `TokenUnit` are the powers of ten between them; tokens
  have at most 18 decimals.
* `Sweep` and its relatives contain `Ark.sweep`: the ark's idle assets go to the buffer
  first, then every token that is listed and not excluded goes to the Raft. A token of
  which the ark holds nothing is returned as address zero, which the other two functions trip over.
* `SocializeLosses` sends away what was swept and leaves it in `obtainedTokens`.
* `boarded`, `paidFor` and `socialized` are history variables.

Left out: ids of auctions, what buyers, kickers and receivers hold, the investment of what is
boarded (the fleet's side of an ark is in `FleetCommander`), the removal of an ark from its fleet
while its auction runs, `BuyAndBurn`, which sells by the same library.

### RoundsIndex

A transaction and the handlers of its events are one action: graph-node hands the
events of a block to the handlers in order, and nothing reads the rows in between.
Each handler is an operator from the index to the index, and the handlers of a
transaction are nested with the first event innermost, so their order is in the
model: a deposit is `TransferSingle` then `DepositWithReceipt`, a settlement is the
trade then `RoundSettled`. `MarkExchangeAssetRedemptionBatch` divides the one amount
the event of a batch carries over its rounds by the *stored* rates and gives the rest
to the last one, as the code does.

The registry is a second contract. `fromStart` says whether the vault was registered
before its first deposit; otherwise its owner may name it at any later time (or
another one first, or again), and everything before is never seen. The stored amounts
may then be negative. `createRoundsVault` returns a row that exists; naming a vault
twice also asks graph-node for its data source twice, which graph-node does once.

Left out: gross counters, rows of single transfers, time stamps and decimals (nothing
reads them back), and the mappings of fleets, arks and snapshots.

### SummerStaking and StakingIndex

Deployments of the staking contract are separate but mint and burn one xSUMR, which
the caller must hold to leave. Each call is an action; `UpdateReward` is the modifier
it runs first. A portfolio is a sequence whose first entry is the stake without
lockup; `RemoveStake` is swap-and-pop. Weights are `amount * (1 + k t^2)` in small
units. Time is a counter: lockups run out, penalties fall, rewards stream.

`StakingIndex` runs `handleStaked` and `handleUnstaked` on the events. The code keeps the
last index of an account in two columns, one for the production deployment and one
for all others. `BigInt.div` by zero aborts the handler and graph-node stops the
subgraph: `Halt`. The averages themselves are not kept, only what they divide by.

Left out: votes and their delegation, staking modules added and removed, rescues of
other tokens, further reward tokens (each has its own record).

### AlertBot

A cycle (`run`) or a `/check` is a job that goes through the networks; its steps are
what it does between two awaits. A job holds a copy of the state it loaded. `cron`
does not wait for the cycle before, so several run. `told` counts the messages of each
log; `lost` records logs that no cycle is going to look at again although they were not
told, and only three things add to it: a message the chat refused or a transaction that
was not found, a node that answered for a chain that ends earlier than the block
number it was asked for, and blocks before the window of a bot without state. The faults
are steps of the environment, each kind once in a behaviour.

Left out: what the messages say, decoding of calls, `/tx` (it changes no state), and
networks without a governor or a timelock.

## 3. Runs

| Run | Question | Bounds |
|---|---|---|
| `RoundsInput` | do the ledgers, the order and finality of rounds and the solvency of each round survive every order of calls; does the vault implement `RoundsPromise` | 2 users, rounds 0..2, 2 tokens each, prices 1, 3/2, 1/2, 1 rollback |
| `RoundsOutput` | is every settled receipt covered by the tokens held; is the minimum position kept; is every closed round settled in the end | Output flavour, 2 users with 2 tokens each, rounds 0..2, prices 1 and 3/2, minimum 0 or 2, one user delistable, 1 rollback, target closes any time, `FairSpec` |
| `FleetUsers` | value protection, conservation, deposit cap, exit on all user paths | 2 users and the tip jar, 1 ark and the buffer, 2 ticks, one gain or loss, a tip of a quarter per tick |
| `FleetRebalance` | do all legs together respect the limits | 2 arks (one with keeper data) and the buffer, up to 3 legs out of 6, caps 4, flows 2, three quarters of the TVL (setters move them to 3 and a half) |
| `FleetConfig` | configuration against deposits, rebalances and pauses; do transfers keep the ledger | 1 ark added and removed, 3 ticks, transfers, tips |
| `Auctions` | do the books of all lots say what each balance holds; does every payment reach its ark; does the price only fall | 2 arks (one with keeper data) and their buffer, a reward token and the asset, which is also the second ark's reward; 2 harvests or claims of 2 tokens, both curves, 3 ticks |
| `RoundsIndexed` | does the index follow a vault that is registered early, late or twice; do its rows and payments add up | Output flavour, 2 users with 1 token each, rounds 0..1, 1 rollback, 2 calls of the registry's owner |
| `StakingIndexed` | do ledgers, buckets and rewards agree with the portfolios; does the index mirror them; when does it halt | 2 accounts, 2 deployments; one of three scopes: up to 4 stakes each, settings and delegation, rewards over 3 ticks and 3 governance calls |
| `AlertBot` | is every log told once, in spite of every fault | 2 networks; one of three scopes: 2 faults with one job on two networks or on both sources, 1 fault with two jobs |
| `FleetDocBuffer`, `FleetDocTip`, `FleetDocRedeem` | a sentence of the source's comments, violated | see section 6 |

*Why the bounds are enough.* Two holders are needed for one to take from the other
and a third gives nothing new, since no rule relates three. Three rounds make a
settled, a rolled-back and a current round coexist. Two tokens and prices that do
not divide them make every rounding happen in both directions. Two amounts make
partial and full exits, three legs make every chain a -> b -> a -> c pattern that
the flow counters can confuse.

*Scopes.* `StakingIndexed` and `AlertBot` choose one of several sets of bounds in the
initial state. Swap-and-pop, delegation and reward streams do not read each other's
state but multiply each other's states; each scope keeps small what it does not ask
about. Three lockups of one account in one deployment are the least that distinguish
swap-and-pop from moving up; two deployments are needed for the two counters; three
ticks and three announcements reach every phase of a reward (running, over, replaced,
removed, listed again, swept). For the bot two networks show that one does not keep
up the other, two blocks with logs on one of them that a cycle may stop between them,
two jobs every overlap of copies of the state.

*Scaled units.* A percentage of 100 % is 4 (20 in one run, 2 in `Auctions`), a year is one tick and
share prices are small fractions: what is checked is the direction of every
rounding and the order of reads, which small units exercise at every step, not
the size of realistic fees. Intermediate products fit 256 bits in the code for
any realistic supply; overflow is not modelled.

*Symmetry* of the users is used where a run's cfg says so; in those runs no
constant tells users apart, and none of them checks liveness.

*Deadlock* is checked in every passing run but `StakingIndexed`; none can stop, because
the price or the market can always move, a call can be made or a cycle started. In
`StakingIndexed` it is not checked: clock and governance are bounded, and accounts that
have spent their tokens on lockups they cannot leave (the votes burnt) have nothing
left to do.

*Fairness* (`RoundsOutput` and `AlertBot`). In `AlertBot` the scheduler starts cycles again
and again, what a cycle awaits is answered or fails (RPC and Telegram clients have
timeouts), and the process that ended is restarted by its container: all three are
weakly fair. In `RoundsOutput` the keeper is a service that works off what is
pending: retrying a rolled-back round is weakly fair. Settling is strongly fair,
because the target vault may close again and again in between and the keeper's
attempt reverts while it is closed; that the vault reopens is weakly fair. Users,
prices and the governor have no fairness. Rollbacks are bounded: a governor that
rolls back forever does keep a round from settling.

## 4. Properties

`RoundsVault`: `RoundsInOrder`, `SettledRoundSolvent`, `ReceiptLedgersAgree`,
`PrincipalBacked`, `ExchangeBacked` (invariants); `SettledIsFinal`, `MinPositionKept` (what a
step may never do);
`ClosedRoundsSettle` (liveness); `ImplementsPromise` (refinement). No run checks `FrozenInSettlement`,
which the refinement asks for as well, and `HoldersCovered`, which follows from
`ExchangeBacked`; both are proved.

`RoundsPromise` is stated round by round: each step of the vault must look, to every
round, like one of eight moves (it begins, collects, gives back, is locked,
reopened, finalised or pays a claim pro rata from its own pot, or is left alone).
The mapping takes the phase from `roundState`, the pot from the stored trade less
`paidOut`, and the terms from the rate. It says more than the invariants: a
final pot comes from a trade of exactly the amount the round held.

`FleetCommander`: `BalancesMatchSupply`, `NoAssetsOutsideFleet`, `CanExit`
(invariants); `SharePriceProtected`, `AssetsConserved`, `DepositCapRespected`,
`RebalanceRespectsArkLimits`, `PauseHolds` (steps).

`Raft`: `TokensAccountedFor`, `ProceedsReachArk`, `NoPaymentLeftBehind` (invariants),
`PriceOnlyFalls` (steps). The first is exact: the one balance per token is the sum of all
claims of the books, less what socializing losses leaves on them.

`RoundsIndex`: `IndexFollowsRounds`, `IndexedFlowsBalance`, `IndexRowsAddUp` (invariants);
`IndexFollowsReceipts`, `IndexedPayoutsComplete` (steps). The first two speak of an index
that saw the vault from its start; the others hold however late it was registered.

`SummerStaking`: `StakeLedgersAgree`, `RewardsCovered` (invariants), `EarningsUndisturbed`
(steps). `StakingIndex`: `IndexMirrorsPortfolios`, `IndexTotalsAgree` (invariants),
`IndexHaltsAtLastExit` (steps): what stops the index, exactly.

`AlertBot`: `NothingPassedOver`, `ToldOnce` (invariants), `FileGoesOn` (steps),
`EveryLogSettled` (liveness).

## 5. Proofs

Every theorem holds for all values of the constants that the named `ASSUME`s of its module
allow; TLC evaluates these in every run of the module.

*Sums.* The properties sum over accounts, rounds, arks and stakes with `SumOver`. What a fold
over a set computes is known to the provers only as a definition, so `LedgerLemmas` first
shows, by induction on the set (`SetInduct`, proved there from the induction over the
naturals), that taking one element out of a finite set takes its term out of the sum, and
derives what the proofs use: a sum changes as its changed terms do (`SumChange`), sums
are monotone and additive, a term and a pair of terms of natural numbers stay within the sum.

### The rounds vault

`RoundsVaultProofs` proves for every finite set of users, every number of rounds, all amounts
and all positive prices:

| Theorem | States |
|---|---|
| `Invariant` | the inductive invariant `IInv` |
| `TypeCorrect` | `TypeOK`: nothing is ever overdrawn |
| `LedgersAgree` | the three receipt ledgers agree, by running sums |
| `ReceiptsAddUp` | `ReceiptLedgersAgree`: the same by sums over the accounts and over the rounds |
| `RoundsStayInOrder`, `SettledRoundsSolvent` | the invariants of the same names |
| `SettlementFinal`, `SettlementFrozen` | the action properties `SettledIsFinal`, `FrozenInSettlement` |
| `VaultKeepsPromise` | the refinement `ImplementsPromise` |
| `PrincipalIsBacked`, `PrincipalSumsUp` | the underlying tokens are the principal of the unsettled rounds, part by part and summed (`PrincipalBacked`) |
| `ExchangeIsBacked`, `ExchangeSumsUp` | the exchange tokens cover what the settled receipts are worth, part by part and summed (`ExchangeBacked`) |
| `HoldersAreCovered` | the invariant `HoldersCovered`: all holders can be paid, each rounded on his own |
| `MinPositionHolds` | the action property `MinPositionKept` |
| `VaultHolds` | the invariant `VaultInv`: `IInv` and the backing of both tokens |
| `ClaimsArePaid`, `PrincipalIsReturned` | from `VaultInv`: redemptions of settled and of open rounds do not revert |
| `KeeperIsNeverBlocked` | from `VaultInv`: every closed round can be retried or settled |

*Assumptions.* The named `ASSUME`s of `RoundsVault`: users are a finite set that does
not contain address zero, bounds are naturals, prices are positive fractions.

*The argument.* `TypeOK` is not inductive: a burn decrements the supply and the
account's sum without a check (the code does it `unchecked`), and that they stay
natural follows only if a single balance never exceeds either sum. So `IInv` adds
`Ledgers`, which states by the running sums along an enumeration of the accounts that a ledger
adds up to a total; a change of one entry shifts the running sums behind it. That payments are
natural needs usable rates, part of `SettledRoundSolvent`; that a new settlement starts with
nothing paid needs `UnsettledUnpaid`; and that a round to come is empty (so that a mint goes to
the current round only) needs `RoundsInOrder`. Solvency of a round is the inequality
`(base - paid) * quote >= supply * base`, kept by a claim because the payment is
rounded down (`ClaimCovered`), by a batch because it is two claims, also when both
name the same round (`RoundPaysTwice`).

*The refinement.* In a step of `RoundsPromise` every round makes a move of its own or none, so the
proof goes round by round: for each move a lemma says which change of a round it is, and each
operation is shown to do to every round, the ones it does not name included, what one of the
lemmas asks for. It uses `IInv` in both states: a batch that names a round twice is one
abstract move because its two payments stay within the pot.

*The tokens held.* Each round has a part in a holding (`PrincipalOf`, `ExchangeOf`).
`PrincipalHeld` says by running sums over the rounds that the parts add up to the holding; for the
exchange tokens the parts add up to no more than the holding (`ExchangeHeld`), since what rounding
leaves behind belongs to no round once its last receipt is gone. Each operation changes the parts
of one or two rounds by what it moves. `PrincipalCovered` and `ExchangeCovered` follow: one
part, or two different ones, never exceed the holding, and by `SettledRoundSolvent` a part
covers what the round's receipts are worth. `HoldersAreCovered` adds that the quotes of parts sum up
to no more than the quote of the whole (`QuotesWithin`).
`MinPositionHolds` shows that the checks at the end of the calls see the position that is
left, also for a batch.

*What can be done.* That a call does not revert is a statement about `ENABLED`, which the provers do
not know. It is stated without: an operator writes out the state the call leads to (`ClaimPaid`,
`PrincipalPaid`, `RoundTraded`, `Locks`), and the theorem says that a step to that state is a step of the
action, from every state that satisfies `VaultInv`, which by `VaultHolds` every reachable state
does. The hypotheses that are left are the reverts the code intends: the whitelist, the
minimum position, and a target vault that does not accept. `MaxWithdrawIsHonoured`,
`WholePositionExits`, `EarningsArePaid`, `AuctionsCanEnd` and `BuyersAreServed` below have the same form.

### The index of the rounds vault

`RoundsIndexProofs` proves about the vault, the registry and the index together, for every number
of rounds, all amounts (empty transfers among them) and any number of calls of the registry's
owner:

| Theorem | States |
|---|---|
| `IndexedVault` | the composition implements the vault's `Spec`, so the theorems above hold in it |
| `ReceiptsIndexed` | the action property `IndexFollowsReceipts` |
| `RoundsIndexed` | the invariant `IndexFollowsRounds` |
| `RowsAddUp` | the invariant `IndexRowsAddUp`, however late the vault was registered |
| `FlowsBalance` | the invariant `IndexedFlowsBalance` |
| `PayoutsComplete` | the action property `IndexedPayoutsComplete`, however late |

The index is read through two views, `Supplies` and `Balances`. Each handler is shown either to
leave both alone (`ReceiptsAlone`) or to change them as the vault changes its own (`AddBalance`,
`TakeBalance`, `AddSupply`), whatever the index held before: for a late registration the two
sides differ, but their changes agree. A batch over one round twice, and a transfer to oneself, are
two moves one after the other on both sides (`Moved`, `Change`). For the life of the rounds a
handler either keeps what is told of every round (`LifeKept`) or writes exactly one (`LifeSet`).
Three things are needed beyond the property: the index knows the vault (`Told`), a round to come
has no rate (`FutureRates`, so that `RoundAdvanced` need not write one), and such a round is told as an
empty one even when a transfer of no receipts has stored it (`Empty`). That a redemption never
names a round to come is `RoundsInOrder`, from `IInv`.

The last three theorems are about six integers of each round: how far the stored supply is from the
stored balances (`RowGap`) and from deposits less redemptions (`BookGap`), what the round holds of
its deposits (`Net`), what was traded (`Traded`), and what was withdrawn from it and credited to
its owners (`Withdrawn`, `Credited`). Each handler shifts them by amounts of one round (`Shifts`),
or leaves them (`Still`); a transaction is the sum of its handlers (`Totals`) and is compared with
what the vault does (`ColumnStep`). A handler alone can open a gap: a burn takes from the supply
what only the next handler counts as redeemed, so the gaps are nothing between transactions, not
between handlers. `FlowsBalance` needs that the net of a round is its supply until it is settled
(`Flow`) and, by `IndexFollowsRounds`, that every round with a supply is stored when it is traded
and that the rate by which a batch is divided has been seen (`RatesSeen`). Without the rate the
parts of a batch may be wrong, but not their sum: `Pays` states both, and `PayoutsComplete` uses
the second only.

### The fleet

`FleetProofs` proves for every finite set of accounts and of arks, all limits, rates, amounts,
clocks, gains and losses, and rebalances of any length:

| Theorem | States |
|---|---|
| `FleetHolds` | the inductive invariant `FInv` |
| `FleetTyped`, `SharesAddUp`, `FleetHoldsAll` | its parts `TypeOK`, `BalancesMatchSupply`, `NoAssetsOutsideFleet` |
| `PriceProtected` | the action property `SharePriceProtected` |
| `AssetsAreConserved` | the action property `AssetsConserved` |
| `CapHolds` | the action property `DepositCapRespected` |
| `ArkLimitsHold` | the action property `RebalanceRespectsArkLimits` |
| `PauseIsKept` | the action property `PauseHolds` |
| `MaxWithdrawIsHonoured` | from `FInv`, not paused: a withdrawal of any amount up to `maxWithdraw` does not revert |
| `WholePositionExits` | from `FInv`: the step `CanExit` asks for, without `ENABLED` |

*Assumptions.* Accounts and arks are finite sets; `Hundred` and `Year` are positive; the setup a
fleet and its arks are deployed with is of the types of the configuration, percentages
included (their constructors validate them); arguments are unsigned.

*The argument.* `FInv` is the conjunction of the type invariant and the two ledgers: that a
burn does not overdraw the supply needs `BalancesMatchSupply`, that the total of the fleet's
assets is what its arks hold when an ark is removed needs `NoAssetsOutsideFleet`. `StepHolds` says
what every kind of call does to shares, supply, assets and clocks, once per action, and the
theorems follow from it. The share arithmetic is reduced to two inequalities per conversion,
`(assets + 1) * down <= amount * (supply + 1) <= (assets + 1) * up` (`Conversion`); with them no
path lowers the ratio of assets + 1 to supply + 1, which is what `SharePriceProtected` compares,
across the tip that is minted before. The legs of a rebalance are a fold over a sequence: its
value after each leg satisfies `LegsHold` (assets moved within the fleet, counted flows that
account for every difference, each ark within its limits), so the last one does, also when legs
chain, repeat or reverse each other. A withdrawal from the arks is a choice of an order; whatever
the order, the arks that are emptied and the one that pays the rest give exactly the amount.

*Leaving.* `maxWithdraw` is computed from shares and from what the arks can pay, the withdrawal
checks it, burns shares rounded up after minting a tip, takes from the buffer or drains the arks.
`MaxWithdrawIsHonoured` shows that these agree in every state of `FInv`: the shares to burn never
exceed the balance (`NoShortfall`) and are not zero (`NothingIsFree`), an amount within what the arks
can pay is found in whatever order they are emptied, and an order always exists (`SomeRanking`).

### The Raft

`RaftProofs` proves for every finite set of arks and of tokens, any assets and buffers, all
parameters of auctions, decimals, amounts, harvests and clocks:

| Theorem | States |
|---|---|
| `RaftHolds` | the inductive invariant `RaftInv` |
| `RaftTyped`, `RaftAccountsForTokens`, `RaftBoardsProceeds`, `RaftLeavesNoPayment` | its parts `TypeOK`, `TokensAccountedFor`, `ProceedsReachArk`, `NoPaymentLeftBehind` |
| `PricesFall` | the action property `PriceOnlyFalls` |
| `AuctionsCanEnd` | from `RaftInv`, nothing of the ark's asset socialized: an auction whose time is over can be finalized |
| `BuyersAreServed` | from `RaftInv`, nothing of both tokens socialized: a purchase of any amount up to what remains succeeds |

*Assumptions.* The named `ASSUME`s of `Raft`: arks and tokens are finite, an ark and its buffer
have the same asset and the buffer takes no keeper data, units are positive, arguments unsigned.

*The argument.* A call changes the books of one ark, and what it does to the balance of a token is
what it does to the books of one lot: a harvest or a purchase of the lot that is bought, a payment
of the lot it waits in. So each difference of a balance is the difference of one term of the sum
(`AccountKept`, `ProceedsKept`), whichever lots share it; the lot whose reward is its own ark's asset is
the case where two parts of one term change (`SellKeeps`). Several tokens of one call are one
after the other in different balances (`GatherKeeps`, `StartKeeps`). `RaftInv` adds `Sound` to the four
invariants: a running auction has a start price above its end price and began before it
ends, and one that does not run has nothing left. Without the last, a lot whose auction was
settled would still count in the sum.

*The price.* Both curves are a quotient of a quotient. `LinearFalls` and `QuadraticFalls` take
the roundings one at a time: a product and a quotient are monotone (`TimesMonotone`,
`DivMonotone`), the end price is an exact multiple (`DivExact`), and the part of a price
difference that has decayed stays within it (`PartWithin`).

*Ending and buying.* The two theorems need the hypothesis on `socialized`: after `socializeLosses`
the books claim more than is held, and a later auction of that token may run out of tokens, the
first hazard of the Raft in `PROJECT.json`. Without it the claim of one lot is a term of the sum
and so within the balance (`ClaimIsHeld`).

### Governance staking and its index

`StakingProofs` and `StakingIndexProofs` prove for any accounts, deployments, buckets, amounts,
lockup periods, numbers of stakes, rewards and penalties:

| Theorem | States |
|---|---|
| `StakesAddUp` | the invariant `StakeLedgersAgree` |
| `RewardsAreCovered` | the invariant `RewardsCovered` |
| `OnlyTimeEarns` | the action property `EarningsUndisturbed` |
| `StakingHolds` | the inductive invariants `StakeInv` and `RewardInv` |
| `EarningsArePaid` | from `StakeInv` and `RewardInv`: `getReward` does not lack tokens |
| `PortfoliosMirrored` | the invariant `IndexMirrorsPortfolios` |
| `TotalsAgree` | the invariant `IndexTotalsAgree` |
| `HaltsAtTheLast` | the action property `IndexHaltsAtLastExit` |
| `IndexedStakingIsStaking`, `ContractKept` | with its index the contract still implements `StakingSpec`, so the first three hold there as well |

*Assumptions.* The named `ASSUME`s of `SummerStaking` and `StakingIndex`; the one to note is that
there is at most one deployment besides the production one, which `subgraph.template.yaml`
bears out: all others would share one column for the last index.

*Ledgers.* Amount, weight and amount in a bucket are measures of a stake; lemmas say how the sum of
a measure over a portfolio changes when a stake is added, appended, reduced, or removed by
swap-and-pop. `StakesAddUp` needs two more facts of every portfolio (`Sound`): weights are
natural, and a lockup is not empty and lies within the longest bucket. A partial exit rounds
the weight down, and the ledgers still agree because both sides are changed by the same amount.

*Rewards.* `Owed` is what a deployment owes times `Wad`, so without any rounding: what accounts
were credited, what their weights have accrued since, and what the running period still
streams. `RewardInv` says it is covered by what is held. Every operation keeps it: crediting an
account rounds down, a change of weight comes after the account was credited, an announcement
puts in what it streams. `EarnedIsOwed` then bounds the sum of the rounded earnings. The
property leaves out tokens that were swept or listed again (`rewardSuspect`), as the code does not
cover those.

*The mirror.* One array is compared with one list of rows (`Mirrors`) for each way both change: a
stake is appended, added to the first, reduced, emptied, or emptied and replaced by the last. A
transaction and its handler then change the same pair in the same way (`PairChanges`). The property
alone is not inductive. An account with a portfolio must have a first row in some deployment
(`FirstRowKept`), or the handler would make one that is younger than the stake; and an empty stake
without lockup that has no row must also have no weight, because the handler starts its row from
zero.

*Totals and halting.* `TotalsInv` joins both invariants with `Counted`: the index's SUMR is the
wrapper's and its number of lockups is the size of the set of pairs of account and index that
are lockups, one more or less with each stake and exit. When the last lockup is emptied that
number is zero and the handler divides by it; otherwise the stake that stays has SUMR, so neither
divisor is zero (`OnlyLockup`, `LastExit`).

### The alert bot

`AlertBotProofs` proves for every list of networks, any number of jobs at a time, every
window and every combination of faults (not only each kind once):

| Theorem | States |
|---|---|
| `CursorsReached` | the inductive invariant `IInv` |
| `BotPassesOverNothing` | the invariant `NothingPassedOver` |
| `BotTellsOnce` | the invariant `ToldOnce` |
| `BotFileGoesOn` | the action property `FileGoesOn` |

A block is *reached* when it exists and every log up to it is settled. `IInv` says that
every cursor, in the file and in each job, is reached (`Reached`), and for a cycle in
the middle of a network that its range starts right behind its cursor (`RangeOK`) and that
each log of the range is told, waits in its hands or is noted as missed (`Fetched`). The
last two are what `FinishNetwork` needs to move the cursor. Reached blocks stay reached
because chains grow and nothing is untold (`ReachedStays`), so a job that does not move
and a file that is written over with older cursors keep the invariant. `FileGoesOn` rests
on `Alone`: without an overlap there is one cycle and its cursors are not behind the file.
`BotTellsOnce` needs the converse of `Reached`: while nothing went wrong, every log above the
cursors of the one job that runs, and outside of what it has told already, is untold.

### Only model-checked

Liveness under fairness (`ClosedRoundsSettle`, `EveryLogSettled`) and `ENABLED` (`CanExit`), which
are out of the prover's reach. What they rest on is proved: `KeeperIsNeverBlocked` that a round which
is not settled can always be moved on, `WholePositionExits` the step that `CanExit` says is enabled.

## 6. Differences between code and documentation

* `FleetDocBuffer`: the comment on `_validateAdjustBuffer` says a rebalance leaves the
  buffer above its minimum. Legs are netted on the state before the call and a MAX
  leg counts the source ark's assets of that moment, so assets named twice are
  counted twice and the buffer can end below the minimum.
* `FleetDocTip`: the comment in `totalSupply()` says tips are accrued on the supply
  before the tip. `tip()` and `setTipRate()` accrue on the supply with it.
* `FleetDocRedeem`: `redeem(MAX)` is documented to redeem all shares. After a loss
  `maxRedeem` of a sole holder is below the balance and the call reverts;
  `withdraw(MAX)` does work (`CanExit`).

Seen while modelling, without a run of their own:

* Rounds vault: `docs/rounds_vault_technical_reference.md` in the rounds-vault directory
  says `redeem` works only for the current round and draws `retryRound` from Settled to
  InSettlement, while the code accepts any Opened round and retries Opened rounds.
* Tipper: the comment on `_accrueTip` says the timestamp is updated to the current one. The code
  does so only when a tip was minted or the rate is zero, and a test expects that. The first
  deposit into an empty fleet leaves the clock at the fleet's start, and its depositor pays tips
  for the time before it; likewise a tip that rounds to nothing is charged later, at the rate of then.
* Raft: `AuctionManagerBase.sol:47` asks to verify that `totalTokens` "matches the actual token
  balance". After `socializeLosses`, which leaves what it sent away in `obtainedTokens`, it does
  not: the next auction of the lot offers tokens that are gone or belong to another lot.
  `TokensAccountedFor` says how many.
* Institutions subgraph: `schema.graphql` says `receiptSupply` "Always equals on-chain
  totalSupply(roundId)". For a vault registered after its first deposits it does not (what
  was missed stays missed, amounts may be negative, `currentRound` is 0 until the next
  `RoundAdvanced`); what does hold is `IndexFollowsReceipts`. The schema calls the base of an
  exchange rate the underlying, while the contract stores the trade's output as base and
  the frozen amount as quote, so the decimal is the inverse of what it is said to be. A
  trade of a round that is not stored is dropped. `clearInputVault` and `clearOutputVault` emit the
  zero address, which the handler passes over: the row keeps naming the cleared vault. A
  transfer of no receipts of a round to come stores that round as open.
* Staking index: `handleUnstaked` divides by the lockups that stay and by the SUMR that stays.
  When a deployment's last lockup is emptied the divisor is zero and the subgraph stops
  (`IndexHaltsAtLastExit` says exactly then). The weighted average lockup period is said to be
  weighted by the SUMR in lockups but divides by all staked SUMR. The row of an empty stake
  without lockup may be missing in an account's second deployment, since
  `_ensureNoLockupStake` counts the rows of all deployments.
* Rewards: a comment in `_notifyRewardAmount` says it checks that the current period is
  complete; the code checks only the duration, and a new announcement replaces the running
  one, whose rest stays in the contract. A reward token that was removed and is listed again
  credits whoever staked meanwhile with its whole history; `RewardsCovered` leaves that out.
* Alert bot: the alarm for a call scheduled past the governor compares the sender of the
  transaction, an account of a person, with the governors' addresses, so every call that is
  scheduled raises it. A failed message, and a transaction that cannot be read, are logged
  and forgotten while the cursor moves on. A first poll that fails leaves no cursor, so the next
  one looks 100 blocks back from its own time.

## 7. Plan

In this order, the most important behaviour first:

1. *(done)* `RoundsVault` with `RoundsPromise`, its runs and its invariants' proofs.
2. *(done)* `FleetCommander` with `ShareMath` and its runs.
3. *(done)* `RoundsIndex`: registry and index of the rounds vault.
4. *(done)* `SummerStaking` with its rewards, and `StakingIndex`.
5. *(done)* `AlertBot` and its proofs; the proofs of `RoundsIndex`.
6. *(done)* The refinement, the backing of both tokens, the mirrored portfolios.
7. *(done)* `Raft` with the Dutch auctions, and its proofs.
8. *(done)* The proofs about sums of the rounds vault and its index, the fleet, governance
   staking and its index, and that the alert bot tells nothing twice.

What would come next, and is not modelled for the reason given:

* `TipJar` on top of the fleet's redemptions: the split of what they pay between streams with
  locked allocations. `BuyAndBurn` on top of the same auctions as `Raft`.
* The chain bridge: `deliver` keeps no record of what it delivered, so once-only delivery is a
  property of the vendored LayerZero and Stargate endpoints, which the repository does not hold.
* `WisdomTreeArk` and the other adapters: their hard part is the behaviour of external
  markets, of which the code only shows the interface.
* `DCAStrategyManager`, the intent system: keepers and solvers act on prices; the contracts
  check single calls.
* Several rebalances in one transaction: the fleet's cache is modelled per call, the flow
  counters that survive it are a hazard without a property.
* The rewards managers of fleets and governance: the accounting is that of
  `StakingRewardsManagerBase`, modelled with `SummerStaking`; their own staking is simpler (no lockups).

Not planned: access and configuration managers (role checks without further
state), the other registries, oracles, OpenZeppelin governance, deployment, the
mappings of fleets and prices in the subgraphs (they copy what they read by call), the
other off-chain services and front ends.
