---------------------------- MODULE StakingIndex ----------------------------
(***************************************************************************)
(* Governance staking together with the index the protocol subgraph keeps  *)
(* of it (mappings/summerStakingV2.ts): a row for every stake, a counter   *)
(* of each account's last index, and the totals of each deployment.        *)
(*                                                                         *)
(* The subgraph sees the events of the chain in order, so a transaction    *)
(* and the handler of its event are one action.  The counter of the        *)
(* production deployment is kept apart from that of all others.  A handler *)
(* that divides by zero is aborted: its writes are lost and the subgraph   *)
(* stops for good.  The averages of the totals are not kept, only the      *)
(* divisions they need.                                                    *)
(***************************************************************************)
EXTENDS SummerStaking

CONSTANTS Production,   \* STAKING_V2_PROD
          NoRow         \* no such row in the store

Indices == 0..(MaxStakes - 1)

\* The subgraph listens to the production deployment and to the staging one.
ASSUME ProductionAssumption == /\ Production \in Deployments
                               /\ \A d, e \in Deployments \ {Production} : d = e
ASSUME NoRowAssumption      == NoRow \notin [amount : Nat, weightedAmount : Int,
                                            lockupEndTime : Int, lockupPeriod : Int]

VARIABLE index   \* [rows, lastLockupIndex, lastLockupIndexProd, summerStaked,
                 \*  amountOfLockedStakes, halted]

allVars == <<stakingVars, index>>

EmptyStakingIndex ==
    [rows |-> [d \in Deployments |-> [u \in Users |-> [i \in Indices |-> NoRow]]],
     lastLockupIndex |-> [u \in Users |-> 0], lastLockupIndexProd |-> [u \in Users |-> 0],
     summerStaked |-> [d \in Deployments |-> 0],
     amountOfLockedStakes |-> [d \in Deployments |-> 0],
     halted |-> FALSE]

---------------------------------------------------------------------------
(* The store *)

BlankRow == [amount |-> 0, weightedAmount |-> 0, lockupEndTime |-> 0, lockupPeriod |-> 0]

\* getOrCreateStakeLockup: a row that is not there is read as a blank one.
RowAt(ix, d, u, i) == IF ix.rows[d][u][i] = NoRow THEN BlankRow ELSE ix.rows[d][u][i]

HasNoRows(ix, u) == \A d \in Deployments, i \in Indices : ix.rows[d][u][i] = NoRow

LastIndexOf(ix, d, u) ==
    IF d = Production THEN ix.lastLockupIndexProd[u] ELSE ix.lastLockupIndex[u]

\* Slip: the deployments share one counter.
MoveLastIndexShared(ix, d, u, by) == [ix EXCEPT !.lastLockupIndex[u] = @ + by,
                                                !.lastLockupIndexProd[u] = @ + by]

MoveLastIndex(ix, d, u, by) ==
    IF d = Production THEN [ix EXCEPT !.lastLockupIndexProd[u] = @ + by]
                      ELSE [ix EXCEPT !.lastLockupIndex[u] = @ + by]

\* An aborted handler leaves the store as it was, and no later event is handled.
Halt(ix) == [ix EXCEPT !.halted = TRUE]

---------------------------------------------------------------------------
(* handleStaked *)

\* _ensureNoLockupStake: an account without any row, in whatever deployment,
\* gets an empty one at index 0.
EnsureNoLockupRow(ix, d, u) ==
    IF HasNoRows(ix, u) THEN [ix EXCEPT !.rows[d][u][0] = [BlankRow EXCEPT !.lockupEndTime = now]]
    ELSE ix

\* _processStakeLockupOnStake: index 0 adds up, any other is written over.
StakedRow(ix, d, u, i, amount, period, weighted) ==
    LET before == IF i = 0 THEN RowAt(ix, d, u, 0) ELSE BlankRow IN
    [amount |-> before.amount + amount, weightedAmount |-> before.weightedAmount + weighted,
     lockupEndTime |-> now + period, lockupPeriod |-> period]

\* Slip: a stake without lockup is counted too.
LockupsAddedAlways(i) == 1

\* What a stake at index i adds to the number of lockups.
LockupsAdded(i) == IF i = 0 THEN 0 ELSE 1

HandleStaked(ix, d, u, i, amount, period, weighted) ==
    LET prepared == IF i = 0 THEN ix ELSE EnsureNoLockupRow(MoveLastIndex(ix, d, u, 1), d, u) IN
    IF ix.halted THEN ix
    ELSE [prepared EXCEPT
            !.rows[d][u][i] = StakedRow(ix, d, u, i, amount, period, weighted),
            !.summerStaked[d] = @ + amount,
            !.amountOfLockedStakes[d] = @ + LockupsAdded(i)]

---------------------------------------------------------------------------
(* handleUnstaked *)

\* Slip: the emptied row goes, but the last one stays where it is.
RemoveRowOnly(ix, d, u, i) ==
    [MoveLastIndex(ix, d, u, -1) EXCEPT !.rows[d][u][i] = NoRow]

\* _removeStake: the row of the last index takes the place of the emptied one.
\* When the last row is not found the emptied one is left.
RemoveRow(ix, d, u, i) ==
    LET last == LastIndexOf(ix, d, u)
        counted == MoveLastIndex(ix, d, u, -1)
    IN
    IF i = last THEN [counted EXCEPT !.rows[d][u][i] = NoRow]
    ELSE IF last \notin Indices \/ ix.rows[d][u][last] = NoRow THEN counted
    ELSE [counted EXCEPT !.rows[d][u][i] = ix.rows[d][u][last],
                         !.rows[d][u][last] = NoRow]

\* Slip: only the average over the weights is taken to fail.
DividesByZeroWeightOnly(ix, d, u, i, amount) ==
    RowAt(ix, d, u, i).amount = 0 \/ (i # 0 /\ ix.summerStaked[d] = amount)

\* The divisions of the handler: by the row's amount, by what stays staked, and
\* by the number of lockups that stay.
DividesByZero(ix, d, u, i, amount) ==
    LET row == RowAt(ix, d, u, i) IN
    \/ row.amount = 0
    \/ i # 0 /\ \/ ix.summerStaked[d] = amount
                \/ row.amount = amount /\ ix.amountOfLockedStakes[d] = 1

HandleUnstaked(ix, d, u, i, amount) ==
    LET row == RowAt(ix, d, u, i)
        left == [row EXCEPT !.amount = @ - amount,
                            !.weightedAmount = @ - (row.weightedAmount * amount) \div row.amount]
        saved == [ix EXCEPT !.rows[d][u][i] = left]
        emptied == left.amount = 0 /\ i # 0
        arranged == IF emptied THEN RemoveRow(saved, d, u, i) ELSE saved
    IN
    IF ix.halted THEN ix
    ELSE IF DividesByZero(ix, d, u, i, amount) THEN Halt(ix)
    ELSE [arranged EXCEPT !.summerStaked[d] = @ - amount,
                          !.amountOfLockedStakes[d] = @ - (IF emptied THEN 1 ELSE 0)]

---------------------------------------------------------------------------
(* Specification *)

\* The index StakedWithLockup carries: 0, or that of the stake appended.
IndexOfStake(d, u, period) ==
    IF period = 0 THEN 0 ELSE Len(EnsurePortfolio(portfolio[d][u]))

IndexedStake(d, from, receiver, amount, period) ==
    /\ StakeLockup(d, from, receiver, amount, period)
    /\ index' = HandleStaked(index, d, receiver, IndexOfStake(d, receiver, period),
                             amount, period, CalculateWeightedStake(amount, period))

IndexedUnstake(d, u, i, amount) ==
    /\ UnstakeLockup(d, u, i, amount)
    /\ index' = HandleUnstaked(index, d, u, i, amount)

StakingIndexInit == StakingInit /\ index = EmptyStakingIndex

StakingIndexNext ==
    \/ \E d \in Deployments, a \in scope.amounts, p \in scope.periods :
          \E u, v \in scope.stakers[d] : IndexedStake(d, u, v, a, p)
    \/ \E d \in Deployments, a \in scope.amounts, i \in Indices :
          \E u \in scope.stakers[d] : IndexedUnstake(d, u, i, a)
    \/ QuietStep /\ UNCHANGED index

StakingIndexSpec == StakingIndexInit /\ [][StakingIndexNext]_allVars

---------------------------------------------------------------------------
(* Properties *)

\* The lockups of a deployment, as pairs of an account and an index.
Locked(d) == {p \in Users \X Indices : p[2] # 0 /\ p[2] < Len(portfolio[d][p[1]])}

\* While it runs, the index holds for every account and deployment the stakes
\* of the portfolio at the indices the contract has them, through all the moves
\* of swap-and-pop, and knows the last index; only an empty stake without
\* lockup may lack its row.
IndexMirrorsPortfolios ==
    ~index.halted =>
        \A d \in Deployments, u \in Users :
            LET stakes == portfolio[d][u] IN
            /\ \A i \in Indices :
                  IF i < Len(stakes)
                  THEN \/ index.rows[d][u][i] = stakes[i + 1]
                       \/ i = 0 /\ stakes[1].amount = 0 /\ index.rows[d][u][0] = NoRow
                  ELSE index.rows[d][u][i] = NoRow
            /\ LastIndexOf(index, d, u) = IF stakes = <<>> THEN 0 ELSE Len(stakes) - 1

\* While it runs, the index counts the SUMR staked in each deployment and its
\* lockups as the contract has them.
IndexTotalsAgree ==
    ~index.halted =>
        \A d \in Deployments :
            /\ index.summerStaked[d] = SumOver(balances[d], Users)
            /\ index.amountOfLockedStakes[d] = Cardinality(Locked(d))

\* The index stops for good at the very moment a deployment's last lockup is
\* emptied, whoever holds it and whatever else stays staked, and at no other.
IndexHaltsAtLastExit ==
    [][~index.halted =>
          (index'.halted <=> \E d \in Deployments : Locked(d) # {} /\ Locked(d)' = {})]_allVars
=============================================================================
