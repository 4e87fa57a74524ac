------------------------- MODULE RoundsVaultProofs -------------------------
(***************************************************************************)
(* Proofs about RoundsVault for all users, rounds, amounts and prices: its *)
(* invariants, that it implements RoundsPromise, that it holds what it     *)
(* owes, and what its users and its keeper can always do.                  *)
(*                                                                         *)
(* The promise is stated round by round, and so is its proof: for each     *)
(* move of RoundsPromise there is a lemma that says what the vault must    *)
(* have done to the round, and every operation is shown to do to every     *)
(* round what one of the lemmas asks for.                                  *)
(*                                                                         *)
(* The vault keeps one balance of each token for all rounds.  The proofs   *)
(* about its money split it: every round has a part, the parts add up to   *)
(* the balance (by running sums, see LedgerLemmas), and an operation on a  *)
(* round changes that round's part only.                                   *)
(***************************************************************************)
EXTENDS RoundsVault, LedgerLemmas

---------------------------------------------------------------------------
(* Arithmetic *)

\* A quotient rounded down, times the divisor, is at most the dividend.
LEMMA DivBound ==
    ASSUME NEW x \in Nat, NEW q \in Nat \ {0}
    PROVE  /\ x \div q \in Nat
           /\ q * (x \div q) <= x
  OBVIOUS

\* The target vault returns a natural amount.
LEMMA TargetOutputType ==
    ASSUME price \in Prices, NEW amount \in Nat
    PROVE  TargetOutput(amount) \in Nat
<1>1. price.num \in Nat \ {0} /\ price.den \in Nat \ {0}
  BY PriceAssumption, PricePositive
<1>2. amount * price.num \in Nat /\ amount * price.den \in Nat
  BY <1>1
<1>3. AssetsFor(amount) \in Nat
  BY <1>1, <1>2, DivBound DEF AssetsFor
<1>4. SharesFor(amount) \in Nat
  BY <1>1, <1>2, DivBound DEF SharesFor
<1> QED
  BY <1>3, <1>4 DEF TargetOutput

\* A claim quoted at base/quote and rounded down takes no more than its part:
\* what is left of the trade still covers the receipts that are left.
LEMMA ClaimCovered ==
    ASSUME NEW base \in Nat, NEW quote \in Nat \ {0}, NEW paid \in Nat,
           NEW left \in Nat, NEW amount \in Nat,
           (base - paid) * quote >= left * base
    PROVE  LET out == (amount * base) \div quote
           IN  /\ out \in Nat
               /\ (base - (paid + out)) * quote >= (left - amount) * base
<1> DEFINE out == (amount * base) \div quote
<1>1. amount * base \in Nat
  OBVIOUS
<1>2. out \in Nat /\ quote * out <= amount * base
  BY <1>1, DivBound
<1> HIDE DEF out
<1>3. (base - (paid + out)) * quote = (base - paid) * quote - quote * out
  BY <1>2
<1>4. (left - amount) * base = left * base - amount * base
  OBVIOUS
<1>5. (base - paid) * quote \in Int /\ left * base \in Int /\ quote * out \in Int
  BY <1>2
<1>6. (base - paid) * quote - quote * out >= left * base - amount * base
  BY <1>1, <1>2, <1>5
<1>7. (base - (paid + out)) * quote >= (left - amount) * base
  BY <1>3, <1>4, <1>6
<1> QED
  BY <1>2, <1>7 DEF out

---------------------------------------------------------------------------
(* The ledgers of receipts *)

\* The ERC-1155 balances add up to the supply of each round and to the sum
\* each account holds over all rounds.
LedgersOf(rec, sup, all) ==
    /\ rec \in [Users -> [Rounds -> Nat]]
    /\ sup \in [Rounds -> Nat]
    /\ all \in [Users -> Nat]
    /\ \A u \in Users : AddsUpTo(rec[u], Rounds, all[u])
    /\ \A id \in Rounds : AddsUpTo([u \in Users |-> rec[u][id]], Users, sup[id])

Ledgers == LedgersOf(receipts, supply, balanceOfAll)

\* A receipt is part of the supply of its round and of its owner's sum.
LEMMA LedgersBound ==
    ASSUME NEW rec, NEW sup, NEW all, LedgersOf(rec, sup, all),
           NEW u \in Users, NEW id \in Rounds
    PROVE  /\ rec[u][id] \in Nat /\ sup[id] \in Nat /\ all[u] \in Nat
           /\ rec[u][id] <= sup[id] /\ rec[u][id] <= all[u]
<1>1. rec[u] \in [Rounds -> Nat] /\ AddsUpTo(rec[u], Rounds, all[u])
  BY DEF LedgersOf
<1>2. rec[u][id] <= all[u]
  BY <1>1, AddsUpBound
<1> DEFINE column == [v \in Users |-> rec[v][id]]
<1>3. column \in [Users -> Nat] /\ AddsUpTo(column, Users, sup[id])
  BY DEF LedgersOf
<1>4. column[u] <= sup[id]
  BY <1>3, AddsUpBound
<1> QED
  BY <1>2, <1>4 DEF LedgersOf

\* Changing one balance and both sums by the same amount keeps them together.
LEMMA LedgersMove ==
    ASSUME NEW rec, NEW sup, NEW all, LedgersOf(rec, sup, all),
           NEW u \in Users, NEW id \in Rounds, NEW d \in Int,
           rec[u][id] + d >= 0
    PROVE  LedgersOf([rec EXCEPT ![u][id] = @ + d], [sup EXCEPT ![id] = @ + d],
                     [all EXCEPT ![u] = @ + d])
<1> DEFINE rec1 == [rec EXCEPT ![u][id] = @ + d]
           sup1 == [sup EXCEPT ![id] = @ + d]
           all1 == [all EXCEPT ![u] = @ + d]
           row == [rec[u] EXCEPT ![id] = @ + d]
           Column(r, k) == [v \in Users |-> r[v][k]]
<1>0. /\ rec \in [Users -> [Rounds -> Nat]] /\ sup \in [Rounds -> Nat]
      /\ all \in [Users -> Nat]
  BY DEF LedgersOf
<1>1. rec[u][id] \in Nat /\ rec[u][id] <= sup[id] /\ rec[u][id] <= all[u]
  BY LedgersBound
<1>2. /\ rec1 \in [Users -> [Rounds -> Nat]] /\ sup1 \in [Rounds -> Nat]
      /\ all1 \in [Users -> Nat]
  BY <1>0, <1>1
<1>3. ASSUME NEW v \in Users PROVE AddsUpTo(rec1[v], Rounds, all1[v])
  <2>1. CASE v = u
    <3>1. AddsUpTo(row, Rounds, all[u] + d)
      BY <1>0, AddsUpChange DEF LedgersOf
    <3>2. rec1[v] = row /\ all1[v] = all[u] + d
      BY <1>0, <2>1
    <3> QED
      BY <3>1, <3>2
  <2>2. CASE v # u
    <3>1. rec1[v] = rec[v] /\ all1[v] = all[v]
      BY <1>0, <2>2
    <3> QED
      BY <3>1 DEF LedgersOf
  <2> QED
    BY <2>1, <2>2
<1>4. ASSUME NEW k \in Rounds PROVE AddsUpTo(Column(rec1, k), Users, sup1[k])
  <2>1. CASE k = id
    <3> DEFINE column == Column(rec, id)
    <3>1. column \in [Users -> Nat] /\ AddsUpTo(column, Users, sup[id])
      BY <1>0 DEF LedgersOf
    <3>2. column[u] + d >= 0
      BY <1>0
    <3> HIDE DEF column
    <3>3. AddsUpTo([column EXCEPT ![u] = @ + d], Users, sup[id] + d)
      BY <3>1, <3>2, AddsUpChange
    <3> USE DEF column
    <3>4. Column(rec1, k) = [column EXCEPT ![u] = @ + d]
      BY <1>0, <2>1
    <3>5. sup1[k] = sup[id] + d
      BY <1>0, <2>1
    <3> QED
      BY <3>3, <3>4, <3>5
  <2>2. CASE k # id
    <3>1. Column(rec1, k) = Column(rec, k) /\ sup1[k] = sup[k]
      BY <1>0, <2>2
    <3> QED
      BY <3>1 DEF LedgersOf
  <2> QED
    BY <2>1, <2>2
<1> QED
  BY <1>2, <1>3, <1>4 DEF LedgersOf

\* One entry minted.
LEMMA MintLedgers ==
    ASSUME NEW rec, NEW sup, NEW all, LedgersOf(rec, sup, all),
           NEW u \in Users, NEW id \in Rounds, NEW amount \in Nat
    PROVE  LedgersOf(Minted(rec, u, id, amount), [sup EXCEPT ![id] = @ + amount],
                     [all EXCEPT ![u] = @ + amount])
<1>1. rec[u][id] + amount >= 0
  BY DEF LedgersOf
<1> QED
  BY <1>1, LedgersMove DEF Minted

\* One entry burnt.
LEMMA BurnLedgers ==
    ASSUME NEW rec, NEW sup, NEW all, LedgersOf(rec, sup, all),
           NEW u \in Users, NEW id \in Rounds, NEW amount \in Nat,
           rec[u][id] >= amount
    PROVE  LedgersOf(Burned(rec, u, id, amount), [sup EXCEPT ![id] = @ - amount],
                     [all EXCEPT ![u] = @ - amount])
<1> DEFINE d == -amount
<1>0. /\ rec \in [Users -> [Rounds -> Nat]] /\ sup \in [Rounds -> Nat]
      /\ all \in [Users -> Nat]
  BY DEF LedgersOf
<1>1. d \in Int /\ rec[u][id] + d >= 0
  BY <1>0
<1>2. LedgersOf([rec EXCEPT ![u][id] = @ + d], [sup EXCEPT ![id] = @ + d],
                [all EXCEPT ![u] = @ + d])
  <2> HIDE DEF d
  <2> QED BY <1>1, LedgersMove
<1>3. rec[u][id] + d = rec[u][id] - amount
  BY <1>0
<1>4. sup[id] + d = sup[id] - amount
  BY <1>0
<1>5. all[u] + d = all[u] - amount
  BY <1>0
<1> HIDE DEF d
<1> QED
  BY <1>2, <1>3, <1>4, <1>5 DEF Burned

\* One entry moved: burnt from one account and minted to another, or to the
\* same one.
LEMMA MoveLedgers ==
    ASSUME NEW rec, NEW sup, NEW all, LedgersOf(rec, sup, all),
           NEW from \in Users, NEW to \in Users, NEW id \in Rounds,
           NEW amount \in Nat, rec[from][id] >= amount
    PROVE  LedgersOf(Minted(Burned(rec, from, id, amount), to, id, amount), sup,
                     [[all EXCEPT ![to] = @ + amount] EXCEPT ![from] = @ - amount])
<1>0. sup \in [Rounds -> Nat] /\ all \in [Users -> Nat]
  BY DEF LedgersOf
<1> DEFINE rec1 == Burned(rec, from, id, amount)
           sup1 == [sup EXCEPT ![id] = @ - amount]
           all1 == [all EXCEPT ![from] = @ - amount]
<1>1. LedgersOf(rec1, sup1, all1)
  BY BurnLedgers
<1>2. LedgersOf(Minted(rec1, to, id, amount), [sup1 EXCEPT ![id] = @ + amount],
                [all1 EXCEPT ![to] = @ + amount])
  <2> HIDE DEF rec1, sup1, all1
  <2> QED BY <1>1, MintLedgers
<1>3. [sup1 EXCEPT ![id] = @ + amount] = sup
  <2>1. sup[id] - amount + amount = sup[id]
    BY <1>0
  <2>2. [sup1 EXCEPT ![id] = @ + amount] = [sup EXCEPT ![id] = sup[id] - amount + amount]
    BY <1>0
  <2> QED
    BY <1>0, <2>1, <2>2
<1>4. [all1 EXCEPT ![to] = @ + amount]
        = [[all EXCEPT ![to] = @ + amount] EXCEPT ![from] = @ - amount]
  <2>1. CASE from = to
    <3>1. all[to] - amount + amount = all[to] + amount - amount
      BY <1>0
    <3>2. [all1 EXCEPT ![to] = @ + amount] = [all EXCEPT ![to] = all[to] - amount + amount]
      BY <1>0, <2>1
    <3>3. [[all EXCEPT ![to] = @ + amount] EXCEPT ![from] = @ - amount]
            = [all EXCEPT ![to] = all[to] + amount - amount]
      <4> DEFINE mid == [all EXCEPT ![to] = @ + amount]
      <4>1. mid[from] = all[to] + amount /\ mid \in [Users -> Nat]
        BY <1>0, <2>1
      <4>2. \A u \in Users : u # to => mid[u] = all[u]
        BY <1>0
      <4> HIDE DEF mid
      <4> DEFINE left == [mid EXCEPT ![from] = @ - amount]
                 right == [all EXCEPT ![to] = all[to] + amount - amount]
      <4>3. left[to] = right[to] /\ left \in [Users -> Int] /\ right \in [Users -> Int]
        BY <1>0, <2>1, <4>1
      <4>4. \A u \in Users : u # to => left[u] = right[u]
        BY <1>0, <2>1, <4>1, <4>2
      <4>5. left = right
        <5> HIDE DEF left, right
        <5> QED BY <4>3, <4>4
      <4> QED
        BY <4>5 DEF mid
    <3> QED
      BY <3>1, <3>2, <3>3
  <2>2. CASE from # to
    BY <1>0, <2>2
  <2> QED
    BY <2>1, <2>2
<1> QED
  BY <1>2, <1>3, <1>4

---------------------------------------------------------------------------
(* The operations on the receipts *)

\* What a call did to the receipts: the ledgers agree afterwards, and only the
\* current round may have grown.
ReceiptsKept ==
    /\ Ledgers'
    /\ \A id \in Rounds : supply'[id] > supply[id] => id = roundNumber

\* A step that leaves the receipts alone keeps the ledgers together.
LEMMA UnchangedReceipts ==
    ASSUME Ledgers, UNCHANGED receiptVars
    PROVE  ReceiptsKept
  BY DEF Ledgers, LedgersOf, receiptVars, ReceiptsKept

\* A burn of one entry keeps the ledgers together and mints nothing.
LEMMA BurnKeeps ==
    ASSUME Ledgers, NEW owner \in Users, NEW id \in Rounds, NEW amount \in Nat,
           Burn(owner, id, amount)
    PROVE  /\ ReceiptsKept
           /\ supply' = [supply EXCEPT ![id] = @ - amount]
           /\ amount <= supply[id]
<1>1. LedgersOf(receipts', supply', balanceOfAll')
  BY BurnLedgers DEF Ledgers, Burn
<1>2. supply \in [Rounds -> Nat] /\ supply' = [supply EXCEPT ![id] = @ - amount]
  BY DEF Ledgers, LedgersOf, Burn
<1>3. receipts[owner][id] <= supply[id] /\ receipts[owner][id] \in Nat
  BY LedgersBound DEF Ledgers
<1>4. amount <= supply[id]
  BY <1>2, <1>3 DEF Burn
<1> QED
  BY <1>1, <1>2, <1>4 DEF ReceiptsKept, Ledgers

\* So does a burn of two entries, also of the same round.
LEMMA BurnBatchKeeps ==
    ASSUME Ledgers, NEW owner \in Users, NEW i \in Rounds, NEW a \in Nat,
           NEW j \in Rounds, NEW b \in Nat, BurnBatch(owner, i, a, j, b)
    PROVE  /\ ReceiptsKept
           /\ supply' = [[supply EXCEPT ![i] = @ - a] EXCEPT ![j] = @ - b]
           /\ a <= supply[i]
           /\ b <= [supply EXCEPT ![i] = @ - a][j]
<1> DEFINE rec1 == Burned(receipts, owner, i, a)
           sup1 == [supply EXCEPT ![i] = @ - a]
           all1 == [balanceOfAll EXCEPT ![owner] = @ - a]
<1>0. supply \in [Rounds -> Nat] /\ balanceOfAll \in [Users -> Nat]
  BY DEF Ledgers, LedgersOf
<1>b. /\ receipts[owner][i] >= a /\ rec1[owner][j] >= b
      /\ receipts' = Burned(rec1, owner, j, b)
      /\ supply' = [sup1 EXCEPT ![j] = @ - b]
      /\ balanceOfAll' = [balanceOfAll EXCEPT ![owner] = @ - (a + b)]
  BY DEF BurnBatch
<1>1. LedgersOf(rec1, sup1, all1)
  BY <1>b, BurnLedgers DEF Ledgers
<1>2. balanceOfAll' = [all1 EXCEPT ![owner] = @ - b]
  <2>1. balanceOfAll[owner] - (a + b) = balanceOfAll[owner] - a - b
    BY <1>0
  <2>2. [all1 EXCEPT ![owner] = @ - b]
          = [balanceOfAll EXCEPT ![owner] = balanceOfAll[owner] - a - b]
    BY <1>0
  <2> QED
    BY <1>b, <2>1, <2>2
<1>3. receipts[owner][i] <= supply[i] /\ receipts[owner][i] \in Nat
  BY LedgersBound DEF Ledgers
<1>4. rec1[owner][j] <= sup1[j] /\ rec1[owner][j] \in Nat /\ sup1[j] \in Nat
  <2> HIDE DEF rec1, sup1, all1
  <2> QED BY <1>1, LedgersBound
<1>5. LedgersOf(receipts', supply', balanceOfAll')
  <2> HIDE DEF rec1, sup1, all1
  <2>1. LedgersOf(Burned(rec1, owner, j, b), [sup1 EXCEPT ![j] = @ - b],
                  [all1 EXCEPT ![owner] = @ - b])
    BY <1>1, <1>b, BurnLedgers
  <2> QED
    BY <1>b, <1>2, <2>1
<1>6. a <= supply[i] /\ b <= sup1[j]
  BY <1>0, <1>b, <1>3, <1>4
<1>7. \A id \in Rounds : supply'[id] <= supply[id]
  BY <1>0, <1>b
<1>8. \A id \in Rounds : supply'[id] \in Nat /\ supply[id] \in Nat
  BY <1>0, <1>5 DEF LedgersOf
<1>9. ReceiptsKept
  BY <1>5, <1>7, <1>8 DEF ReceiptsKept, Ledgers
<1> QED
  BY <1>b, <1>6, <1>9

\* A deposit keeps the ledgers together and mints in the current round.
LEMMA DepositKeeps ==
    ASSUME Ledgers, roundNumber \in Rounds,
           NEW u \in Users, NEW v \in Users, NEW a \in Nat, Deposit(u, v, a)
    PROVE  /\ ReceiptsKept
           /\ supply' = [supply EXCEPT ![roundNumber] = @ + a]
<1>1. LedgersOf(receipts', supply', balanceOfAll')
  BY MintLedgers DEF Ledgers, Deposit, MintId
<1>2. supply \in [Rounds -> Nat] /\ supply' = [supply EXCEPT ![roundNumber] = @ + a]
  BY DEF Ledgers, LedgersOf, Deposit, MintId
<1>3. \A id \in Rounds : supply'[id] > supply[id] => id = roundNumber
  BY <1>2
<1> QED
  BY <1>1, <1>2, <1>3 DEF ReceiptsKept, Ledgers

\* A transfer, also to oneself, keeps the ledgers together and mints nothing.
LEMMA TransferKeeps ==
    ASSUME Ledgers, NEW from \in Users, NEW to \in Users, NEW id \in Rounds,
           NEW a \in Nat, SafeTransferFrom(from, to, id, a)
    PROVE  ReceiptsKept
<1>1. LedgersOf(receipts', supply, balanceOfAll')
  BY MoveLedgers DEF Ledgers, SafeTransferFrom
<1>2. supply' = supply /\ supply \in [Rounds -> Nat]
  BY DEF Ledgers, LedgersOf, SafeTransferFrom
<1> QED
  BY <1>1, <1>2 DEF ReceiptsKept, Ledgers

\* So does a transfer of two entries.
LEMMA BatchTransferKeeps ==
    ASSUME Ledgers, NEW from \in Users, NEW to \in Users,
           NEW i \in Rounds, NEW a \in Nat, NEW j \in Rounds, NEW b \in Nat,
           SafeBatchTransferFrom(from, to, i, a, j, b)
    PROVE  ReceiptsKept
<1> DEFINE rec1 == Minted(Burned(receipts, from, i, a), to, i, a)
           all1 == [[balanceOfAll EXCEPT ![to] = @ + a] EXCEPT ![from] = @ - a]
           all2 == [[all1 EXCEPT ![to] = @ + b] EXCEPT ![from] = @ - b]
           moved == [[balanceOfAll EXCEPT ![to] = @ + (a + b)]
                                   EXCEPT ![from] = @ - (a + b)]
<1>0. supply \in [Rounds -> Nat] /\ balanceOfAll \in [Users -> Nat]
  BY DEF Ledgers, LedgersOf
<1>b. /\ receipts[from][i] >= a /\ rec1[from][j] >= b
      /\ receipts' = Minted(Burned(rec1, from, j, b), to, j, b)
      /\ balanceOfAll' = moved
      /\ supply' = supply
  BY DEF SafeBatchTransferFrom
<1>1. LedgersOf(rec1, supply, all1)
  BY <1>b, MoveLedgers DEF Ledgers
<1>2. LedgersOf(Minted(Burned(rec1, from, j, b), to, j, b), supply, all2)
  <2> HIDE DEF rec1, all1
  <2> QED BY <1>1, <1>b, MoveLedgers
<1>3. all2 = moved
  <2>1. all2 \in [Users -> Int] /\ moved \in [Users -> Int]
    BY <1>0
  <2>2. ASSUME NEW u \in Users PROVE all2[u] = moved[u]
    BY <1>0
  <2> HIDE DEF all2, moved
  <2> QED
    BY <2>1, <2>2
<1>4. LedgersOf(receipts', supply', balanceOfAll')
  <2> HIDE DEF all2, moved
  <2> QED BY <1>b, <1>2, <1>3
<1> QED
  BY <1>0, <1>b, <1>4 DEF ReceiptsKept, Ledgers

\* Every step keeps the ledgers together and mints in the current round only.
LEMMA ReceiptsStep ==
    ASSUME TypeOK, Ledgers, [Next]_vars
    PROVE  ReceiptsKept
<1> USE BoundAssumption
<1>0. roundNumber \in Rounds /\ \A a \in Amounts : a \in Nat
  BY DEF TypeOK
<1>1. ASSUME NEW u \in Users, NEW v \in Users, NEW a \in Amounts, Deposit(u, v, a)
      PROVE  ReceiptsKept
  BY <1>0, <1>1, DepositKeeps
<1>2. ASSUME NEW u \in Users, NEW v \in Users, NEW id \in Rounds, NEW a \in Amounts,
             Redeem(u, v, id, a) \/ RedeemExchangeAsset(u, v, id, a)
      PROVE  ReceiptsKept
  <2>1. Burn(u, id, a)
    BY <1>2 DEF Redeem, RedeemExchangeAsset
  <2> QED
    BY <1>0, <2>1, BurnKeeps
<1>3. ASSUME NEW u \in Users, NEW v \in Users, NEW id \in Rounds, NEW a \in Amounts,
             SafeTransferFrom(u, v, id, a)
      PROVE  ReceiptsKept
  BY <1>0, <1>3, TransferKeeps
<1>4. ASSUME NEW u \in Users, NEW v \in Users, NEW a \in Amounts, NEW b \in Amounts,
             NEW i \in Rounds, NEW j \in Rounds,
             \/ RedeemBatch(u, v, i, a, j, b)
             \/ RedeemExchangeAssetBatch(u, v, i, a, j, b)
      PROVE  ReceiptsKept
  <2>1. BurnBatch(u, i, a, j, b)
    BY <1>4 DEF RedeemBatch, RedeemExchangeAssetBatch
  <2> QED
    BY <1>0, <2>1, BurnBatchKeeps
<1>5. ASSUME NEW u \in Users, NEW v \in Users, NEW a \in Amounts, NEW b \in Amounts,
             NEW i \in Rounds, NEW j \in Rounds, SafeBatchTransferFrom(u, v, i, a, j, b)
      PROVE  ReceiptsKept
  BY <1>0, <1>5, BatchTransferKeeps
<1>6. CASE KeeperStep
  <2>1. UNCHANGED receiptVars
    BY <1>6 DEF KeeperStep, NextRound, RetryRound, SetRoundSettled,
                SetRoundSettledBatch, receiptVars
  <2> QED
    BY <2>1, UnchangedReceipts
<1>7. CASE GovernorStep \/ EnvironmentStep
  <2>1. UNCHANGED receiptVars
    BY <1>7 DEF GovernorStep, EmergencyRollbackRound, SetMinPositionSize,
                EnvironmentStep, SetWhitelisted, TargetPriceMoves, TargetCloses,
                TargetOpens, receiptVars
  <2> QED
    BY <2>1, UnchangedReceipts
<1>8. CASE UNCHANGED vars
  BY <1>8, UnchangedReceipts DEF vars, receiptVars
<1> QED
  BY <1>1, <1>2, <1>3, <1>4, <1>5, <1>6, <1>7, <1>8 DEF Next, UserStep, BatchStep

---------------------------------------------------------------------------
(* Type correctness *)

\* Before a round is settled nothing has been paid against it.
UnsettledUnpaid == \A id \in Rounds : roundState[id] # "Settled" => paidOut[id] = 0

\* The rates of the settled rounds can be quoted.
RatesUsable ==
    \A id \in Rounds : roundState[id] = "Settled" => exchangeRate[id].quoteAmount > 0

\* The inductive invariant.  The types alone are not inductive: that a burn
\* leaves the supply and the account's sum natural rests on the ledgers, and
\* that a quote is natural on the rate's divisor.
IInv == TypeOK /\ Ledgers /\ RoundsInOrder /\ SettledRoundSolvent /\ UnsettledUnpaid

\* A usable rate quotes a natural amount.
LEMMA QuoteType ==
    ASSUME TypeOK, RatesUsable, NEW id \in Rounds, roundState[id] = "Settled",
           NEW amount \in Nat
    PROVE  Quote(exchangeRate[id], amount) \in Nat
<1>1. exchangeRate[id].baseAmount \in Nat /\ exchangeRate[id].quoteAmount \in Nat \ {0}
  BY DEF TypeOK, RatesUsable
<1>2. amount * exchangeRate[id].baseAmount \in Nat
  BY <1>1
<1> QED
  BY <1>1, <1>2, DivBound DEF Quote

\* A settlement stores a natural rate that can be quoted.
LEMMA RateType ==
    ASSUME TypeOK, NEW id \in Rounds
    PROVE  /\ TargetOutput(supply[id]) \in Nat
           /\ SettlementRate(id) \in [baseAmount : Nat, quoteAmount : Nat]
           /\ SettlementRate(id).quoteAmount > 0
<1>1. supply[id] \in Nat /\ price \in Prices /\ PriceUnit \in Nat \ {0}
  BY PriceAssumption DEF TypeOK
<1>2. TargetOutput(supply[id]) \in Nat /\ TargetOutput(PriceUnit) \in Nat
  BY <1>1, TargetOutputType
<1> QED
  BY <1>1, <1>2 DEF SettlementRate

\* Every step keeps the types.
LEMMA TypeStep ==
    ASSUME TypeOK, Ledgers, RatesUsable, [Next]_vars
    PROVE  TypeOK'
<1> USE BoundAssumption
<1>0. /\ receipts' \in [Users -> [Rounds -> Nat]]
      /\ supply' \in [Rounds -> Nat]
      /\ balanceOfAll' \in [Users -> Nat]
  BY ReceiptsStep DEF ReceiptsKept, Ledgers, LedgersOf
<1>1. ASSUME NEW u \in Users, NEW v \in Users, NEW a \in Amounts, Deposit(u, v, a)
      PROVE  TypeOK'
  <2>1. /\ wallet[u] - a \in Nat /\ vaultAssets + a \in Nat
    BY <1>1 DEF TypeOK, Deposit
  <2>2. wallet' \in [Users -> Nat] /\ vaultAssets' \in Nat
    BY <1>1, <2>1 DEF TypeOK, Deposit
  <2> QED
    BY <1>0, <1>1, <2>2 DEF TypeOK, Deposit, roundVars, configVars, targetVars
<1>2. ASSUME NEW v \in Users, NEW amount \in Nat, vaultAssets >= amount,
             ReturnPrincipal(v, amount), UNCHANGED <<roundVars, configVars, targetVars>>
      PROVE  TypeOK'
  <2>1. wallet[v] + amount \in Nat /\ vaultAssets - amount \in Nat
    BY <1>2 DEF TypeOK
  <2>2. wallet' \in [Users -> Nat] /\ vaultAssets' \in Nat
    BY <1>2, <2>1 DEF TypeOK, ReturnPrincipal
  <2> QED
    BY <1>0, <1>2, <2>2 DEF TypeOK, ReturnPrincipal, roundVars, configVars, targetVars
<1>3. ASSUME NEW u \in Users, NEW v \in Users, NEW id \in Rounds, NEW a \in Amounts,
             Redeem(u, v, id, a)
      PROVE  TypeOK'
  BY <1>2, <1>3 DEF Redeem
<1>4. ASSUME NEW u \in Users, NEW v \in Users, NEW i \in Rounds, NEW a \in Amounts,
             NEW j \in Rounds, NEW b \in Amounts, RedeemBatch(u, v, i, a, j, b)
      PROVE  TypeOK'
  <2>1. a + b \in Nat
    OBVIOUS
  <2> QED
    BY <1>2, <1>4, <2>1 DEF RedeemBatch
<1>5. ASSUME NEW u \in Users, NEW v \in Users, NEW id \in Rounds, NEW a \in Amounts,
             RedeemExchangeAsset(u, v, id, a)
      PROVE  TypeOK'
  <2> DEFINE out == Quote(exchangeRate[id], a)
  <2>1. out \in Nat
    BY <1>5, QuoteType DEF RedeemExchangeAsset
  <2>2. /\ vaultExchange >= out
        /\ exchangeWallet' = [exchangeWallet EXCEPT ![v] = @ + out]
        /\ vaultExchange' = vaultExchange - out
        /\ paidOut' = [paidOut EXCEPT ![id] = @ + out]
    BY <1>5 DEF RedeemExchangeAsset
  <2> HIDE DEF out
  <2>3. exchangeWallet' \in [Users -> Nat] /\ vaultExchange' \in Nat
        /\ paidOut' \in [Rounds -> Nat]
    BY <2>1, <2>2 DEF TypeOK
  <2> QED
    BY <1>0, <1>5, <2>3 DEF TypeOK, RedeemExchangeAsset, roundVars, configVars, targetVars
<1>6. ASSUME NEW u \in Users, NEW v \in Users, NEW i \in Rounds, NEW a \in Amounts,
             NEW j \in Rounds, NEW b \in Amounts,
             RedeemExchangeAssetBatch(u, v, i, a, j, b)
      PROVE  TypeOK'
  <2> DEFINE out1 == Quote(exchangeRate[i], a)
             out2 == Quote(exchangeRate[j], b)
  <2>1. out1 \in Nat /\ out2 \in Nat
    BY <1>6, QuoteType DEF RedeemExchangeAssetBatch
  <2>2. /\ vaultExchange >= out1 + out2
        /\ exchangeWallet' = [exchangeWallet EXCEPT ![v] = @ + out1 + out2]
        /\ vaultExchange' = vaultExchange - (out1 + out2)
        /\ paidOut' = [[paidOut EXCEPT ![i] = @ + out1] EXCEPT ![j] = @ + out2]
    BY <1>6 DEF RedeemExchangeAssetBatch
  <2> HIDE DEF out1, out2
  <2>3. exchangeWallet' \in [Users -> Nat] /\ vaultExchange' \in Nat
    BY <2>1, <2>2 DEF TypeOK
  <2>4. paidOut' \in [Rounds -> Nat]
    BY <2>1, <2>2 DEF TypeOK
  <2> QED
    BY <1>0, <1>6, <2>3, <2>4 DEF TypeOK, RedeemExchangeAssetBatch, roundVars,
       configVars, targetVars
<1>7. ASSUME NEW u \in Users, NEW v \in Users, NEW i \in Rounds, NEW a \in Amounts,
             NEW j \in Rounds, NEW b \in Amounts,
             SafeTransferFrom(u, v, i, a) \/ SafeBatchTransferFrom(u, v, i, a, j, b)
      PROVE  TypeOK'
  BY <1>0, <1>7 DEF TypeOK, SafeTransferFrom, SafeBatchTransferFrom, tokenVars,
     roundVars, configVars, targetVars
<1>8. CASE NextRound
  <2>1. roundNumber' \in Rounds
    BY <1>8 DEF TypeOK, NextRound, Rounds
  <2> QED
    BY <1>0, <1>8, <2>1 DEF TypeOK, NextRound, RoundStates, receiptVars, tokenVars,
       configVars, targetVars
<1>9. ASSUME NEW id \in Rounds, RetryRound(id) \/ EmergencyRollbackRound(id)
      PROVE  TypeOK'
  <2>1. roundState' \in [Rounds -> RoundStates]
    BY <1>9 DEF TypeOK, RetryRound, EmergencyRollbackRound, RoundStates
  <2>2. rollbacks' \in 0..MaxRollbacks
    BY <1>9 DEF TypeOK, RetryRound, EmergencyRollbackRound
  <2> QED
    BY <1>0, <1>9, <2>1, <2>2 DEF TypeOK, RetryRound, EmergencyRollbackRound,
       receiptVars, tokenVars, configVars, targetVars
<1>10. ASSUME NEW id \in Rounds, SetRoundSettled(id)
       PROVE  TypeOK'
  <2>1. /\ roundState' \in [Rounds -> RoundStates]
        /\ exchangeRate' \in [Rounds -> [baseAmount : Nat, quoteAmount : Nat]]
    BY <1>10, RateType DEF TypeOK, SetRoundSettled, RoundStates
  <2>2. TargetOutput(supply[id]) \in Nat /\ supply[id] \in Nat
    BY RateType DEF TypeOK
  <2>3. vaultAssets' \in Nat /\ vaultExchange' \in Nat
    BY <1>10, <2>2 DEF TypeOK, SetRoundSettled
  <2> QED
    BY <1>0, <1>10, <2>1, <2>3 DEF TypeOK, SetRoundSettled, receiptVars,
       configVars, targetVars
<1>11. ASSUME NEW i \in Rounds, NEW j \in Rounds, SetRoundSettledBatch(i, j)
       PROVE  TypeOK'
  <2>1. /\ roundState' \in [Rounds -> RoundStates]
        /\ exchangeRate' \in [Rounds -> [baseAmount : Nat, quoteAmount : Nat]]
    BY <1>11, RateType DEF TypeOK, SetRoundSettledBatch, RoundStates
  <2>2. /\ TargetOutput(supply[i]) \in Nat /\ supply[i] \in Nat
        /\ TargetOutput(supply[j]) \in Nat /\ supply[j] \in Nat
    BY RateType DEF TypeOK
  <2>3. vaultAssets' \in Nat /\ vaultExchange' \in Nat
    BY <1>11, <2>2 DEF TypeOK, SetRoundSettledBatch
  <2> QED
    BY <1>0, <1>11, <2>1, <2>3 DEF TypeOK, SetRoundSettledBatch, receiptVars,
       configVars, targetVars
<1>12. ASSUME NEW m \in MinPositions, SetMinPositionSize(m)
       PROVE  TypeOK'
  BY <1>0, <1>12 DEF TypeOK, SetMinPositionSize, receiptVars, tokenVars, roundVars,
     targetVars
<1>13. ASSUME NEW u \in Delistable, NEW allowed \in BOOLEAN, SetWhitelisted(u, allowed)
       PROVE  TypeOK'
  <2>1. whitelisted' \subseteq Users
    BY <1>13 DEF TypeOK, SetWhitelisted
  <2> QED
    BY <1>0, <1>13, <2>1 DEF TypeOK, SetWhitelisted, receiptVars, tokenVars,
       roundVars, targetVars
<1>14. CASE TargetPriceMoves \/ TargetCloses \/ TargetOpens
  BY <1>0, <1>14 DEF TypeOK, TargetPriceMoves, TargetCloses, TargetOpens,
     receiptVars, tokenVars, roundVars, configVars
<1>15. CASE UNCHANGED vars
  BY <1>15 DEF TypeOK, vars
<1> QED
  BY <1>1, <1>3, <1>4, <1>5, <1>6, <1>7, <1>8, <1>9, <1>10, <1>11, <1>12, <1>13,
     <1>14, <1>15
     DEF Next, UserStep, BatchStep, KeeperStep, GovernorStep, EnvironmentStep

---------------------------------------------------------------------------
(* The order of the rounds *)

\* A step that leaves the rounds alone keeps their order, whatever it does to
\* the receipts.
LEMMA SameRounds ==
    ASSUME RoundsInOrder, TypeOK, TypeOK', ReceiptsKept, UNCHANGED roundVars
    PROVE  RoundsInOrder'
<1>1. roundState' = roundState /\ roundNumber' = roundNumber
  BY DEF roundVars
<1>2. ASSUME NEW id \in Rounds, id > roundNumber PROVE supply'[id] = 0
  <2>1. supply[id] = 0 /\ supply'[id] \in Nat /\ id # roundNumber
    BY <1>2 DEF RoundsInOrder, TypeOK, Rounds
  <2> QED
    BY <2>1 DEF ReceiptsKept
<1> QED
  BY <1>1, <1>2 DEF RoundsInOrder

\* Every step keeps the rounds in order.
LEMMA OrderStep ==
    ASSUME TypeOK, TypeOK', Ledgers, RoundsInOrder, [Next]_vars
    PROVE  RoundsInOrder'
<1> USE BoundAssumption
<1>0. ReceiptsKept /\ roundNumber \in Nat /\ \A id \in Rounds : id \in Nat
  <2>1. ReceiptsKept
    BY ReceiptsStep
  <2> QED
    BY <2>1 DEF TypeOK, Rounds
<1>1. CASE UserStep \/ BatchStep \/ UNCHANGED vars \/ EnvironmentStep
  <2>1. UNCHANGED roundVars
    BY <1>1 DEF UserStep, BatchStep, EnvironmentStep, Deposit, Redeem, RedeemBatch,
       RedeemExchangeAsset, RedeemExchangeAssetBatch, SafeTransferFrom,
       SafeBatchTransferFrom, SetWhitelisted, TargetPriceMoves, TargetCloses,
       TargetOpens, vars, roundVars
  <2> QED
    BY <1>0, <2>1, SameRounds
<1>2. CASE NextRound
  <2>1. /\ roundNumber' = roundNumber + 1 /\ roundNumber + 1 \in Rounds
        /\ roundState' = [roundState EXCEPT ![roundNumber] = "InSettlement",
                                            ![roundNumber + 1] = "Opened"]
        /\ supply' = supply
    BY <1>0, <1>2 DEF NextRound, Rounds, receiptVars
  <2>2. roundState \in [Rounds -> RoundStates]
    BY DEF TypeOK
  <2>3. roundState'[roundNumber + 1] = "Opened"
    BY <1>0, <2>1, <2>2
  <2>4. ASSUME NEW id \in Rounds
        PROVE  (roundState'[id] = "NotOpened") <=> (id > roundNumber + 1)
    BY <1>0, <2>1, <2>2 DEF RoundsInOrder
  <2>5. \A id \in Rounds : id > roundNumber + 1 => supply'[id] = 0
    BY <1>0, <2>1 DEF RoundsInOrder
  <2> QED
    BY <2>1, <2>3, <2>4, <2>5 DEF RoundsInOrder
<1>3. ASSUME NEW r \in Rounds,
             \/ RetryRound(r) \/ SetRoundSettled(r) \/ EmergencyRollbackRound(r)
      PROVE  RoundsInOrder'
  <2>1. /\ roundNumber' = roundNumber /\ supply' = supply
        /\ roundState[r] # "NotOpened" /\ roundState'[r] # "NotOpened"
        /\ \A id \in Rounds : id # r => roundState'[id] = roundState[id]
    BY <1>3 DEF RetryRound, Retriable, SetRoundSettled, EmergencyRollbackRound,
       receiptVars, TypeOK
  <2>2. roundState'[roundNumber] = "Opened"
    BY <1>3, <2>1 DEF RetryRound, Retriable, SetRoundSettled,
       EmergencyRollbackRound, TypeOK, RoundsInOrder, Rounds
  <2> QED
    BY <2>1, <2>2 DEF RoundsInOrder
<1>4. ASSUME NEW i \in Rounds, NEW j \in Rounds, SetRoundSettledBatch(i, j)
      PROVE  RoundsInOrder'
  <2>1. /\ roundNumber' = roundNumber /\ supply' = supply
        /\ roundState[i] = "InSettlement" /\ roundState[j] = "InSettlement"
        /\ roundState'[i] = "Settled" /\ roundState'[j] = "Settled"
        /\ \A id \in Rounds : id # i /\ id # j => roundState'[id] = roundState[id]
    BY <1>4 DEF SetRoundSettledBatch, receiptVars, TypeOK
  <2>2. roundState'[roundNumber] = "Opened"
    BY <2>1 DEF TypeOK, RoundsInOrder
  <2> QED
    BY <2>1, <2>2 DEF RoundsInOrder
<1>5. ASSUME NEW m \in MinPositions, SetMinPositionSize(m)
      PROVE  RoundsInOrder'
  BY <1>0, <1>5, SameRounds DEF SetMinPositionSize
<1> QED
  BY <1>1, <1>2, <1>3, <1>4, <1>5 DEF Next, KeeperStep, GovernorStep

---------------------------------------------------------------------------
(* Solvency of the settled rounds *)

\* A round's part of SettledRoundSolvent and UnsettledUnpaid.
RoundSolvent(id) ==
    /\ roundState[id] = "Settled" =>
          /\ exchangeRate[id].quoteAmount > 0
          /\ (exchangeRate[id].baseAmount - paidOut[id]) * exchangeRate[id].quoteAmount
                >= supply[id] * exchangeRate[id].baseAmount
    /\ roundState[id] # "Settled" => paidOut[id] = 0

\* The solvency of the vault is the solvency of each of its rounds.
LEMMA RoundByRound ==
    /\ (SettledRoundSolvent /\ UnsettledUnpaid) <=> \A id \in Rounds : RoundSolvent(id)
    /\ (SettledRoundSolvent /\ UnsettledUnpaid)' <=> \A id \in Rounds : RoundSolvent(id)'
  BY DEF SettledRoundSolvent, UnsettledUnpaid, RoundSolvent

\* A round that a step does not touch stays as solvent as it was; fewer
\* receipts or a round that is not settled do no harm.
LEMMA RoundUntouched ==
    ASSUME TypeOK, TypeOK', NEW id \in Rounds, RoundSolvent(id),
           roundState'[id] = "Settled" <=> roundState[id] = "Settled",
           exchangeRate'[id] = exchangeRate[id], paidOut'[id] = paidOut[id],
           roundState[id] = "Settled" => supply'[id] = supply[id]
    PROVE  RoundSolvent(id)'
  BY DEF RoundSolvent

\* The rate a settlement stores covers the receipts of the round.
LEMMA RoundSettles ==
    ASSUME TypeOK, NEW id \in Rounds, RoundSolvent(id), roundState[id] = "InSettlement",
           roundState'[id] = "Settled", exchangeRate'[id] = SettlementRate(id),
           paidOut' = paidOut, supply' = supply
    PROVE  RoundSolvent(id)'
<1> DEFINE rate == SettlementRate(id)
<1>1. rate.baseAmount \in Nat /\ rate.quoteAmount \in Nat /\ rate.quoteAmount > 0
  BY RateType
<1>2. supply[id] \in Nat /\ paidOut[id] = 0
  BY DEF TypeOK, RoundSolvent
<1>3. CASE supply[id] > 0
  <2>1. rate.quoteAmount = supply[id]
    BY <1>3 DEF SettlementRate
  <2>2. (rate.baseAmount - 0) * rate.quoteAmount = supply[id] * rate.baseAmount
    BY <1>1, <1>2, <2>1
  <2>3. supply[id] * rate.baseAmount \in Nat
    BY <1>1, <1>2
  <2> HIDE DEF rate
  <2>4. (rate.baseAmount - 0) * rate.quoteAmount >= supply[id] * rate.baseAmount
    BY <2>2, <2>3
  <2> QED
    BY <1>1, <1>2, <2>4 DEF RoundSolvent, rate
<1>4. CASE supply[id] = 0
  <2>1. (rate.baseAmount - 0) * rate.quoteAmount \in Nat
    BY <1>1
  <2>2. supply[id] * rate.baseAmount = 0
    BY <1>1, <1>4
  <2> HIDE DEF rate
  <2>3. (rate.baseAmount - 0) * rate.quoteAmount >= supply[id] * rate.baseAmount
    BY <2>1, <2>2
  <2> QED
    BY <1>1, <1>2, <2>3 DEF RoundSolvent, rate
<1> QED
  BY <1>2, <1>3, <1>4

\* The rates of settled rounds can be quoted.
LEMMA SolventRates ==
    ASSUME SettledRoundSolvent PROVE RatesUsable
  BY DEF SettledRoundSolvent, RatesUsable

\* A claim against a settled round is covered by what the round has left.
LEMMA RoundPays ==
    ASSUME TypeOK, NEW id \in Rounds, RoundSolvent(id), roundState[id] = "Settled",
           roundState'[id] = "Settled", exchangeRate'[id] = exchangeRate[id],
           NEW a \in Nat, supply'[id] = supply[id] - a,
           paidOut'[id] = paidOut[id] + Quote(exchangeRate[id], a)
    PROVE  RoundSolvent(id)'
<1> DEFINE base == exchangeRate[id].baseAmount
           quote == exchangeRate[id].quoteAmount
<1>1. /\ base \in Nat /\ quote \in Nat \ {0} /\ paidOut[id] \in Nat /\ supply[id] \in Nat
      /\ (base - paidOut[id]) * quote >= supply[id] * base
  BY DEF TypeOK, RoundSolvent
<1>2. Quote(exchangeRate[id], a) = (a * base) \div quote
  BY DEF Quote
<1> HIDE DEF base, quote
<1>3. (base - (paidOut[id] + Quote(exchangeRate[id], a))) * quote >= (supply[id] - a) * base
  BY <1>1, <1>2, ClaimCovered
<1> QED
  BY <1>1, <1>3 DEF RoundSolvent, base, quote

\* Two claims of one batch, against two rounds or twice against the same one.
LEMMA RoundPaysTwice ==
    ASSUME TypeOK, NEW id \in Rounds, RoundSolvent(id), roundState[id] = "Settled",
           roundState'[id] = "Settled", exchangeRate'[id] = exchangeRate[id],
           NEW a \in Nat, NEW b \in Nat, supply'[id] = supply[id] - a - b,
           a <= supply[id],
           paidOut'[id] = paidOut[id] + Quote(exchangeRate[id], a)
                                      + Quote(exchangeRate[id], b)
    PROVE  RoundSolvent(id)'
<1> DEFINE base == exchangeRate[id].baseAmount
           quote == exchangeRate[id].quoteAmount
           out1 == Quote(exchangeRate[id], a)
           out2 == Quote(exchangeRate[id], b)
<1>1. /\ base \in Nat /\ quote \in Nat \ {0} /\ paidOut[id] \in Nat /\ supply[id] \in Nat
      /\ (base - paidOut[id]) * quote >= supply[id] * base
  BY DEF TypeOK, RoundSolvent
<1>2. out1 = (a * base) \div quote /\ out2 = (b * base) \div quote
  BY DEF Quote
<1>3. paidOut'[id] = paidOut[id] + out1 + out2
  OBVIOUS
<1> HIDE DEF base, quote, out1, out2
<1>4. out1 \in Nat /\ (base - (paidOut[id] + out1)) * quote >= (supply[id] - a) * base
  BY <1>1, <1>2, ClaimCovered
<1>5. supply[id] - a \in Nat /\ paidOut[id] + out1 \in Nat
  BY <1>1, <1>4
<1>6. (base - (paidOut[id] + out1 + out2)) * quote >= (supply[id] - a - b) * base
  BY <1>1, <1>2, <1>4, <1>5, ClaimCovered
<1> QED
  BY <1>1, <1>3, <1>6 DEF RoundSolvent, base, quote

\* Every step keeps every round solvent and unsettled rounds unpaid.
LEMMA SolventStep ==
    ASSUME IInv, TypeOK', [Next]_vars
    PROVE  (SettledRoundSolvent /\ UnsettledUnpaid)'
<1> USE BoundAssumption
<1>0. /\ TypeOK /\ Ledgers /\ RoundsInOrder
      /\ \A id \in Rounds : RoundSolvent(id)
      /\ \A a \in Amounts : a \in Nat
  BY RoundByRound DEF IInv
<1> SUFFICES ASSUME NEW k \in Rounds PROVE RoundSolvent(k)'
  BY RoundByRound
<1>1. ASSUME NEW u \in Users, NEW v \in Users, NEW a \in Amounts, Deposit(u, v, a)
      PROVE  RoundSolvent(k)'
  <2>1. supply' = [supply EXCEPT ![roundNumber] = @ + a] /\ roundNumber \in Rounds
    BY <1>0, <1>1, DepositKeeps DEF TypeOK
  <2>2. roundState[k] = "Settled" => supply'[k] = supply[k]
    BY <1>0, <2>1 DEF RoundsInOrder, TypeOK
  <2> QED
    BY <1>0, <1>1, <2>2, RoundUntouched DEF Deposit, roundVars
<1>2. ASSUME NEW u \in Users, NEW v \in Users, NEW id \in Rounds, NEW a \in Amounts,
             Redeem(u, v, id, a)
      PROVE  RoundSolvent(k)'
  <2>1. roundState[id] = "Opened" /\ supply' = [supply EXCEPT ![id] = @ - a]
    BY <1>2 DEF Redeem, Redeemable, Burn
  <2>2. roundState[k] = "Settled" => supply'[k] = supply[k]
    BY <1>0, <2>1 DEF TypeOK
  <2> QED
    BY <1>0, <1>2, <2>2, RoundUntouched DEF Redeem, ReturnPrincipal, roundVars
<1>3. ASSUME NEW u \in Users, NEW v \in Users, NEW i \in Rounds, NEW a \in Amounts,
             NEW j \in Rounds, NEW b \in Amounts, RedeemBatch(u, v, i, a, j, b)
      PROVE  RoundSolvent(k)'
  <2>1. /\ roundState[i] = "Opened" /\ roundState[j] = "Opened"
        /\ supply' = [[supply EXCEPT ![i] = @ - a] EXCEPT ![j] = @ - b]
    BY <1>3 DEF RedeemBatch, Redeemable, BurnBatch
  <2>2. roundState[k] = "Settled" => supply'[k] = supply[k]
    BY <1>0, <2>1 DEF TypeOK
  <2> QED
    BY <1>0, <1>3, <2>2, RoundUntouched DEF RedeemBatch, ReturnPrincipal, roundVars
<1>4. ASSUME NEW u \in Users, NEW v \in Users, NEW id \in Rounds, NEW a \in Amounts,
             RedeemExchangeAsset(u, v, id, a)
      PROVE  RoundSolvent(k)'
  <2>1. /\ roundState[id] = "Settled" /\ supply' = [supply EXCEPT ![id] = @ - a]
        /\ paidOut' = [paidOut EXCEPT ![id] = @ + Quote(exchangeRate[id], a)]
        /\ UNCHANGED <<roundState, exchangeRate>>
    BY <1>4 DEF RedeemExchangeAsset, Burn, roundVars
  <2>2. CASE k = id
    <3>1. /\ supply'[k] = supply[k] - a
          /\ paidOut'[k] = paidOut[k] + Quote(exchangeRate[k], a)
      BY <1>0, <2>1, <2>2 DEF TypeOK
    <3> QED
      BY <1>0, <2>1, <2>2, <3>1, RoundPays
  <2>3. CASE k # id
    <3>1. supply'[k] = supply[k] /\ paidOut'[k] = paidOut[k]
      BY <1>0, <2>1, <2>3 DEF TypeOK
    <3> QED
      BY <1>0, <2>1, <3>1, RoundUntouched
  <2> QED
    BY <2>2, <2>3
<1>5. ASSUME NEW u \in Users, NEW v \in Users, NEW i \in Rounds, NEW a \in Amounts,
             NEW j \in Rounds, NEW b \in Amounts,
             RedeemExchangeAssetBatch(u, v, i, a, j, b)
      PROVE  RoundSolvent(k)'
  <2> DEFINE out1 == Quote(exchangeRate[i], a)
             out2 == Quote(exchangeRate[j], b)
  <2>1. /\ roundState[i] = "Settled" /\ roundState[j] = "Settled"
        /\ paidOut' = [[paidOut EXCEPT ![i] = @ + out1] EXCEPT ![j] = @ + out2]
        /\ UNCHANGED <<roundState, exchangeRate>>
        /\ BurnBatch(u, i, a, j, b)
    BY <1>5 DEF RedeemExchangeAssetBatch, roundVars
  <2>2. /\ supply' = [[supply EXCEPT ![i] = @ - a] EXCEPT ![j] = @ - b]
        /\ a <= supply[i]
    <3>1. Ledgers /\ a \in Nat /\ b \in Nat /\ BurnBatch(u, i, a, j, b)
      BY <1>0, <2>1
    <3> HIDE DEF out1, out2
    <3> QED
      BY ONLY <3>1, u \in Users, i \in Rounds, j \in Rounds, BurnBatchKeeps
  <2>t. supply \in [Rounds -> Nat] /\ paidOut \in [Rounds -> Nat]
    BY <1>0 DEF TypeOK
  <2>3. CASE k = i /\ k = j
    <3>1. supply'[k] = supply[k] - a - b /\ paidOut'[k] = paidOut[k] + out1 + out2
      <4> HIDE DEF out1, out2
      <4> QED BY <2>1, <2>2, <2>3, <2>t
    <3> QED
      BY <1>0, <2>1, <2>2, <2>3, <3>1, RoundPaysTwice
  <2>4. CASE k = i /\ k # j
    <3>1. supply'[k] = supply[k] - a /\ paidOut'[k] = paidOut[k] + out1
      <4> HIDE DEF out1, out2
      <4> QED BY <2>1, <2>2, <2>4, <2>t
    <3> QED
      BY <1>0, <2>1, <2>4, <3>1, RoundPays
  <2>5. CASE k # i /\ k = j
    <3>1. supply'[k] = supply[k] - b /\ paidOut'[k] = paidOut[k] + out2
      <4> HIDE DEF out1, out2
      <4> QED BY <2>1, <2>2, <2>5, <2>t
    <3> QED
      BY <1>0, <2>1, <2>5, <3>1, RoundPays
  <2>6. CASE k # i /\ k # j
    <3>1. supply'[k] = supply[k] /\ paidOut'[k] = paidOut[k]
      <4> HIDE DEF out1, out2
      <4> QED BY <2>1, <2>2, <2>6, <2>t
    <3> QED
      BY <1>0, <2>1, <3>1, RoundUntouched
  <2> QED
    BY <2>3, <2>4, <2>5, <2>6
<1>6. ASSUME NEW u \in Users, NEW v \in Users, NEW i \in Rounds, NEW a \in Amounts,
             NEW j \in Rounds, NEW b \in Amounts,
             SafeTransferFrom(u, v, i, a) \/ SafeBatchTransferFrom(u, v, i, a, j, b)
      PROVE  RoundSolvent(k)'
  BY <1>0, <1>6, RoundUntouched DEF SafeTransferFrom, SafeBatchTransferFrom,
     tokenVars, roundVars
<1>7. CASE NextRound
  <2>1. /\ roundState[roundNumber] = "Opened" /\ roundNumber + 1 \in Rounds
        /\ roundNumber \in Rounds /\ roundNumber + 1 > roundNumber
    BY <1>0, <1>7 DEF NextRound, TypeOK, Rounds
  <2>2. roundState[roundNumber + 1] = "NotOpened"
    BY <1>0, <2>1 DEF RoundsInOrder
  <2>3. roundState'[k] = "Settled" <=> roundState[k] = "Settled"
    BY <1>0, <1>7, <2>1, <2>2 DEF NextRound, TypeOK
  <2> QED
    BY <1>0, <1>7, <2>3, RoundUntouched DEF NextRound, receiptVars, tokenVars
<1>8. ASSUME NEW id \in Rounds, RetryRound(id) \/ EmergencyRollbackRound(id)
      PROVE  RoundSolvent(k)'
  <2>1. roundState'[k] = "Settled" <=> roundState[k] = "Settled"
    BY <1>0, <1>8 DEF RetryRound, Retriable, EmergencyRollbackRound, TypeOK
  <2> QED
    BY <1>0, <1>8, <2>1, RoundUntouched DEF RetryRound, EmergencyRollbackRound,
       receiptVars, tokenVars
<1>9. ASSUME NEW id \in Rounds, SetRoundSettled(id)
      PROVE  RoundSolvent(k)'
  <2>1. CASE k = id
    BY <1>0, <1>9, <2>1, RoundSettles DEF SetRoundSettled, receiptVars, TypeOK
  <2>2. CASE k # id
    BY <1>0, <1>9, <2>2, RoundUntouched DEF SetRoundSettled, receiptVars, TypeOK
  <2> QED
    BY <2>1, <2>2
<1>10. ASSUME NEW i \in Rounds, NEW j \in Rounds, SetRoundSettledBatch(i, j)
       PROVE  RoundSolvent(k)'
  <2>1. CASE k = i \/ k = j
    <3>1. /\ roundState[k] = "InSettlement" /\ roundState'[k] = "Settled"
          /\ exchangeRate'[k] = SettlementRate(k)
          /\ paidOut' = paidOut /\ supply' = supply
      BY <1>0, <1>10, <2>1 DEF SetRoundSettledBatch, receiptVars, TypeOK
    <3> QED
      BY <1>0, <3>1, RoundSettles
  <2>2. CASE k # i /\ k # j
    <3>1. /\ roundState'[k] = roundState[k] /\ exchangeRate'[k] = exchangeRate[k]
          /\ paidOut' = paidOut /\ supply' = supply
      BY <1>0, <1>10, <2>2 DEF SetRoundSettledBatch, receiptVars, TypeOK
    <3> QED
      BY <1>0, <3>1, RoundUntouched
  <2> QED
    BY <2>1, <2>2
<1>11. CASE EnvironmentStep \/ UNCHANGED vars \/ \E m \in MinPositions : SetMinPositionSize(m)
  <2>1. UNCHANGED <<roundState, exchangeRate, paidOut, supply>>
    BY <1>11 DEF EnvironmentStep, SetWhitelisted, TargetPriceMoves, TargetCloses,
       TargetOpens, SetMinPositionSize, receiptVars, tokenVars, roundVars, vars
  <2> QED
    BY <1>0, <2>1, RoundUntouched
<1> QED
  BY <1>1, <1>2, <1>3, <1>4, <1>5, <1>6, <1>7, <1>8, <1>9, <1>10, <1>11
     DEF Next, UserStep, BatchStep, KeeperStep, GovernorStep

---------------------------------------------------------------------------
(* The invariants *)

\* The inductive invariant holds initially.
LEMMA InitIInv == Init => IInv
<1> SUFFICES ASSUME Init PROVE IInv
  OBVIOUS
<1> USE BoundAssumption DEF Init
<1>r. 0 \in Rounds /\ IsFiniteSet(Rounds) /\ \A id \in Rounds : id \in Nat
  BY FS_Interval DEF Rounds
<1>1. TypeOK
  <2>1. price \in Prices
    OBVIOUS
  <2> QED
    BY <1>r, <2>1 DEF TypeOK, RoundStates, NoRate
<1>2. Ledgers
  <2>1. AddsUpTo([id \in Rounds |-> 0], Rounds, 0)
    BY <1>r, AddsUpEmpty
  <2>2. AddsUpTo([u \in Users |-> 0], Users, 0)
    BY AddsUpEmpty, UsersAssumption
  <2>3. ASSUME NEW u \in Users PROVE AddsUpTo(receipts[u], Rounds, balanceOfAll[u])
    BY <2>1
  <2>4. ASSUME NEW id \in Rounds
        PROVE  AddsUpTo([u \in Users |-> receipts[u][id]], Users, supply[id])
    <3>1. [u \in Users |-> receipts[u][id]] = [u \in Users |-> 0]
      OBVIOUS
    <3> QED
      BY <2>2, <3>1
  <2> QED
    BY <2>3, <2>4 DEF Ledgers, LedgersOf
<1>3. RoundsInOrder
  BY <1>r DEF RoundsInOrder
<1>4. SettledRoundSolvent /\ UnsettledUnpaid
  BY DEF SettledRoundSolvent, UnsettledUnpaid
<1> QED
  BY <1>1, <1>2, <1>3, <1>4 DEF IInv

\* The inductive invariant is kept by every step.
LEMMA IInvStep == IInv /\ [Next]_vars => IInv'
<1> SUFFICES ASSUME IInv, [Next]_vars PROVE IInv'
  OBVIOUS
<1>1. TypeOK /\ Ledgers /\ RoundsInOrder /\ RatesUsable
  BY SolventRates DEF IInv
<1>2. TypeOK'
  BY <1>1, TypeStep
<1>3. Ledgers'
  BY <1>1, ReceiptsStep DEF ReceiptsKept
<1>4. RoundsInOrder'
  BY <1>1, <1>2, OrderStep
<1>5. (SettledRoundSolvent /\ UnsettledUnpaid)'
  BY <1>2, SolventStep
<1> QED
  BY <1>2, <1>3, <1>4, <1>5 DEF IInv

\* The inductive invariant holds in every reachable state.
THEOREM Invariant == Spec => []IInv
<1> QED
  BY InitIInv, IInvStep, PTL DEF Spec

\* No operation of the vault, in any order and by any user, drives a balance, a
\* supply, a ledger or the vault's own holdings below zero: the unchecked
\* decrements of the burn are safe.
THEOREM TypeCorrect == Spec => []TypeOK
<1>1. IInv => TypeOK
  BY DEF IInv
<1> QED
  BY <1>1, Invariant, PTL

\* The ERC-1155 balances, the supply per round and the sum per account always
\* agree.
THEOREM LedgersAgree == Spec => []Ledgers
<1>1. IInv => Ledgers
  BY DEF IInv
<1> QED
  BY <1>1, Invariant, PTL

\* The balances of all holders of a round sum up to its supply, and the
\* balances of an account in all rounds to the sum the burn decrements
\* unchecked, however receipts are minted, redeemed, batched and transferred.
THEOREM ReceiptsAddUp == Spec => []ReceiptLedgersAgree
<1>1. Ledgers => ReceiptLedgersAgree
  <2> SUFFICES ASSUME LedgersOf(receipts, supply, balanceOfAll) PROVE ReceiptLedgersAgree
    BY DEF Ledgers
  <2>1. IsFiniteSet(Users) /\ IsFiniteSet(Rounds)
    BY UsersAssumption, BoundAssumption, FS_Interval DEF Rounds
  <2>2. ASSUME NEW id \in Rounds
        PROVE  supply[id] = SumOver([u \in Users |-> receipts[u][id]], Users)
    <3> DEFINE held == [u \in Users |-> receipts[u][id]]
    <3>1. held \in [Users -> Nat] /\ AddsUpTo(held, Users, supply[id])
      BY DEF LedgersOf
    <3> HIDE DEF held
    <3>2. supply[id] = SumOver(held, Users)
      BY <2>1, <3>1, AddsUpSum
    <3> QED
      BY <3>2 DEF held
  <2>3. ASSUME NEW u \in Users PROVE balanceOfAll[u] = SumOver(receipts[u], Rounds)
    <3>1. receipts[u] \in [Rounds -> Nat] /\ AddsUpTo(receipts[u], Rounds, balanceOfAll[u])
      BY DEF LedgersOf
    <3> QED
      BY <2>1, <3>1, AddsUpSum
  <2> QED
    BY <2>2, <2>3 DEF ReceiptLedgersAgree
<1> QED
  BY <1>1, LedgersAgree, PTL

\* Deposits always go to a round that takes them: the rounds begin one after
\* the other, and the current one is collecting whatever is retried, settled or
\* rolled back.
THEOREM RoundsStayInOrder == Spec => []RoundsInOrder
<1>1. IInv => RoundsInOrder
  BY DEF IInv
<1> QED
  BY <1>1, Invariant, PTL

\* Every settled round pays its receipts out of what its own trade brought in,
\* for all prices and amounts and in every order of redemptions.
THEOREM SettledRoundsSolvent == Spec => []SettledRoundSolvent
<1>1. IInv => SettledRoundSolvent
  BY DEF IInv
<1> QED
  BY <1>1, Invariant, PTL

---------------------------------------------------------------------------
(* The action properties *)

\* A settled round is never settled again, retried or rolled back, and its
\* rate never changes.
THEOREM SettlementFinal == Spec => SettledIsFinal
<1> DEFINE Final == \A id \in Rounds : roundState[id] = "Settled" =>
                       /\ roundState'[id] = "Settled"
                       /\ exchangeRate'[id] = exchangeRate[id]
<1>1. IInv /\ [Next]_vars => [Final]_vars
  <2> SUFFICES ASSUME IInv, Next, NEW k \in Rounds, roundState[k] = "Settled"
               PROVE  roundState'[k] = "Settled" /\ exchangeRate'[k] = exchangeRate[k]
    OBVIOUS
  <2>1. TypeOK /\ RoundsInOrder
    BY DEF IInv
  <2>2. CASE UserStep \/ BatchStep \/ EnvironmentStep
    <3>1. UNCHANGED roundVars
      BY <2>2 DEF UserStep, BatchStep, EnvironmentStep, Deposit, Redeem, RedeemBatch,
         RedeemExchangeAsset, RedeemExchangeAssetBatch, SafeTransferFrom,
         SafeBatchTransferFrom, SetWhitelisted, TargetPriceMoves, TargetCloses,
         TargetOpens, roundVars
    <3> QED
      BY <3>1 DEF roundVars
  <2>3. CASE NextRound
    <3>1. roundState[roundNumber] = "Opened" /\ roundNumber + 1 \in Rounds
          /\ roundNumber + 1 > roundNumber
      BY <2>1, <2>3, BoundAssumption DEF NextRound, TypeOK, Rounds
    <3>2. k # roundNumber /\ k # roundNumber + 1
      BY <2>1, <3>1 DEF RoundsInOrder
    <3> QED
      BY <2>1, <2>3, <3>2 DEF NextRound, TypeOK
  <2>4. ASSUME NEW id \in Rounds,
               RetryRound(id) \/ SetRoundSettled(id) \/ EmergencyRollbackRound(id)
        PROVE  roundState'[k] = "Settled" /\ exchangeRate'[k] = exchangeRate[k]
    <3>1. k # id
      BY <2>4 DEF RetryRound, Retriable, SetRoundSettled, EmergencyRollbackRound
    <3> QED
      BY <2>1, <2>4, <3>1 DEF RetryRound, SetRoundSettled, EmergencyRollbackRound, TypeOK
  <2>5. ASSUME NEW i \in Rounds, NEW j \in Rounds, SetRoundSettledBatch(i, j)
        PROVE  roundState'[k] = "Settled" /\ exchangeRate'[k] = exchangeRate[k]
    <3>1. k # i /\ k # j
      BY <2>5 DEF SetRoundSettledBatch
    <3> QED
      BY <2>1, <2>5, <3>1 DEF SetRoundSettledBatch, TypeOK
  <2>6. CASE \E m \in MinPositions : SetMinPositionSize(m)
    BY <2>6 DEF SetMinPositionSize, roundVars
  <2> QED
    BY <2>2, <2>3, <2>4, <2>5, <2>6 DEF Next, KeeperStep, GovernorStep
<1> QED
  BY <1>1, Invariant, PTL DEF Spec, SettledIsFinal

\* The amount a round holds cannot change between its closing and its
\* settlement.
THEOREM SettlementFrozen == Spec => FrozenInSettlement
<1> DEFINE Frozen == \A id \in Rounds : roundState[id] = "InSettlement" =>
                        supply'[id] = supply[id]
<1>1. IInv /\ [Next]_vars => [Frozen]_vars
  <2> SUFFICES ASSUME IInv, Next, NEW k \in Rounds, roundState[k] = "InSettlement"
               PROVE  supply'[k] = supply[k]
    OBVIOUS
  <2> USE BoundAssumption
  <2>1. TypeOK /\ RoundsInOrder
    BY DEF IInv
  <2>2. ASSUME NEW u \in Users, NEW v \in Users, NEW a \in Amounts, Deposit(u, v, a)
        PROVE  supply'[k] = supply[k]
    <3>1. k # roundNumber
      BY <2>1 DEF RoundsInOrder
    <3> QED
      BY <2>1, <2>2, <3>1 DEF Deposit, MintId, TypeOK
  <2>3. ASSUME NEW u \in Users, NEW v \in Users, NEW id \in Rounds, NEW a \in Amounts,
               Redeem(u, v, id, a) \/ RedeemExchangeAsset(u, v, id, a)
        PROVE  supply'[k] = supply[k]
    <3>1. k # id /\ Burn(u, id, a)
      BY <2>3 DEF Redeem, Redeemable, RedeemExchangeAsset
    <3> QED
      BY <2>1, <3>1 DEF Burn, TypeOK
  <2>4. ASSUME NEW u \in Users, NEW v \in Users, NEW i \in Rounds, NEW a \in Amounts,
               NEW j \in Rounds, NEW b \in Amounts,
               \/ RedeemBatch(u, v, i, a, j, b)
               \/ RedeemExchangeAssetBatch(u, v, i, a, j, b)
        PROVE  supply'[k] = supply[k]
    <3>1. k # i /\ k # j /\ BurnBatch(u, i, a, j, b)
      BY <2>4 DEF RedeemBatch, Redeemable, RedeemExchangeAssetBatch
    <3> QED
      BY <2>1, <3>1 DEF BurnBatch, TypeOK
  <2>5. ASSUME NEW u \in Users, NEW v \in Users, NEW i \in Rounds, NEW a \in Amounts,
               NEW j \in Rounds, NEW b \in Amounts,
               SafeTransferFrom(u, v, i, a) \/ SafeBatchTransferFrom(u, v, i, a, j, b)
        PROVE  supply'[k] = supply[k]
    BY <2>5 DEF SafeTransferFrom, SafeBatchTransferFrom
  <2>6. CASE KeeperStep \/ GovernorStep \/ EnvironmentStep
    <3>1. UNCHANGED receiptVars
      BY <2>6 DEF KeeperStep, NextRound, RetryRound, SetRoundSettled,
         SetRoundSettledBatch, GovernorStep, EmergencyRollbackRound,
         SetMinPositionSize, EnvironmentStep, SetWhitelisted, TargetPriceMoves,
         TargetCloses, TargetOpens, receiptVars
    <3> QED
      BY <3>1 DEF receiptVars
  <2> QED
    BY <2>2, <2>3, <2>4, <2>5, <2>6 DEF Next, UserStep, BatchStep
<1> QED
  BY <1>1, Invariant, PTL DEF Spec, FrozenInSettlement

---------------------------------------------------------------------------
(* The mapping of one round *)

\* What the mapping makes of the state of a round, before and after a step.
LEMMA Mapped ==
    ASSUME NEW k \in Rounds
    PROVE  /\ roundState[k] = "NotOpened" => PromisePhase[k] = "future"
           /\ roundState[k] = "Opened" => PromisePhase[k] = "open"
           /\ roundState[k] = "InSettlement" => PromisePhase[k] = "locked"
           /\ roundState[k] = "Settled" => PromisePhase[k] = "final"
           /\ PromisePot[k] = IF roundState[k] = "Settled"
                              THEN exchangeRate[k].baseAmount - paidOut[k] ELSE 0
           /\ PromiseTerms[k] = [out |-> exchangeRate[k].baseAmount,
                                 for |-> exchangeRate[k].quoteAmount]
  BY DEF PromisePhase, PromisePot, PromiseTerms

\* The same after a step.
LEMMA MappedNext ==
    ASSUME NEW k \in Rounds
    PROVE  /\ roundState'[k] = "NotOpened" => PromisePhase'[k] = "future"
           /\ roundState'[k] = "Opened" => PromisePhase'[k] = "open"
           /\ roundState'[k] = "InSettlement" => PromisePhase'[k] = "locked"
           /\ roundState'[k] = "Settled" => PromisePhase'[k] = "final"
           /\ PromisePot'[k] = IF roundState'[k] = "Settled"
                               THEN exchangeRate'[k].baseAmount - paidOut'[k] ELSE 0
           /\ PromiseTerms'[k] = [out |-> exchangeRate'[k].baseAmount,
                                  for |-> exchangeRate'[k].quoteAmount]
  BY DEF PromisePhase, PromisePot, PromiseTerms

---------------------------------------------------------------------------
(* The moves of one round *)

\* A round of which nothing changes.
LEMMA RoundKeeps ==
    ASSUME TypeOK, NEW k \in Rounds, roundState'[k] = roundState[k], supply'[k] = supply[k],
           exchangeRate'[k] = exchangeRate[k], paidOut'[k] = paidOut[k]
    PROVE  Promise!RoundStep(k)
<1>1. PromisePhase'[k] = PromisePhase[k]
  <2>1. roundState[k] \in {"NotOpened", "Opened", "InSettlement", "Settled"}
    BY DEF TypeOK, RoundStates
  <2> QED
    BY <2>1, Mapped, MappedNext
<1>2. PromiseTerms'[k] = PromiseTerms[k]
  BY DEF PromiseTerms
<1>3. PromisePot'[k] = PromisePot[k]
  <2>1. CASE roundState[k] = "Settled"
    <3>1. /\ PromisePot[k] = exchangeRate[k].baseAmount - paidOut[k]
          /\ PromisePot'[k] = exchangeRate'[k].baseAmount - paidOut'[k]
      BY <2>1, Mapped, MappedNext
    <3> QED
      BY <3>1
  <2>2. CASE roundState[k] # "Settled"
    BY <2>2, Mapped, MappedNext
  <2> QED
    BY <2>1, <2>2
<1> QED
  BY <1>1, <1>2, <1>3 DEF Promise!RoundStep, Promise!Keeps

\* A round that begins, behind one that is closed.
LEMMA RoundBegins ==
    ASSUME NEW k \in Rounds, roundState[k] = "NotOpened", roundState'[k] = "Opened",
           k - 1 \in Rounds, roundState[k - 1] = "Opened", roundState'[k - 1] = "InSettlement",
           supply'[k] = supply[k], supply[k] = 0, exchangeRate'[k] = exchangeRate[k]
    PROVE  Promise!RoundStep(k)
<1>1. PromisePhase[k - 1] = "open" /\ PromisePhase'[k - 1] = "locked"
  BY Mapped, MappedNext
<1>2. /\ PromisePhase[k] = "future" /\ PromisePhase'[k] = "open"
      /\ PromisePot'[k] = PromisePot[k] /\ PromiseTerms'[k] = PromiseTerms[k]
  BY Mapped, MappedNext
<1> QED
  BY <1>1, <1>2 DEF Promise!RoundStep, Promise!Begin

\* The current round takes a deposit.
LEMMA RoundCollects ==
    ASSUME TypeOK, RoundsInOrder, NEW k \in Rounds, k = roundNumber,
           roundState'[k] = roundState[k], supply'[k] > supply[k],
           exchangeRate'[k] = exchangeRate[k]
    PROVE  Promise!RoundStep(k)
<1>1. roundState[k] = "Opened" /\ \A s \in Rounds : s > k => roundState[s] = "NotOpened"
  BY DEF RoundsInOrder
<1>2. PromisePhase[k] = "open" /\ \A s \in Rounds : s > k => PromisePhase[s] = "future"
  BY <1>1, Mapped
<1>3. /\ PromisePhase'[k] = PromisePhase[k] /\ PromisePot'[k] = PromisePot[k]
      /\ PromiseTerms'[k] = PromiseTerms[k]
  BY <1>1, Mapped, MappedNext
<1> QED
  BY <1>2, <1>3 DEF Promise!RoundStep, Promise!Contribute, Promise!Collecting

\* An open round gives principal back.
LEMMA RoundReturns ==
    ASSUME NEW k \in Rounds, roundState[k] = "Opened", roundState'[k] = "Opened",
           supply'[k] \in 0..supply[k], exchangeRate'[k] = exchangeRate[k]
    PROVE  Promise!RoundStep(k)
<1>1. /\ PromisePhase[k] = "open" /\ PromisePhase'[k] = PromisePhase[k]
      /\ PromisePot'[k] = PromisePot[k] /\ PromiseTerms'[k] = PromiseTerms[k]
  BY Mapped, MappedNext
<1> QED
  BY <1>1 DEF Promise!RoundStep, Promise!TakeBack

\* A round is closed, retried or rolled back.
LEMMA RoundLocksOrReopens ==
    ASSUME NEW k \in Rounds, supply'[k] = supply[k], exchangeRate'[k] = exchangeRate[k],
           \/ roundState[k] = "Opened" /\ roundState'[k] = "InSettlement"
           \/ roundState[k] = "InSettlement" /\ roundState'[k] = "Opened"
    PROVE  Promise!RoundStep(k)
<1>1. PromisePot'[k] = PromisePot[k] /\ PromiseTerms'[k] = PromiseTerms[k]
  BY Mapped, MappedNext
<1>2. \/ PromisePhase[k] = "open" /\ PromisePhase'[k] = "locked"
      \/ PromisePhase[k] = "locked" /\ PromisePhase'[k] = "open"
  BY Mapped, MappedNext
<1> QED
  BY <1>1, <1>2 DEF Promise!RoundStep, Promise!Lock, Promise!Reopen

\* A round is settled: on the amount it held, and nothing was paid before.
LEMMA RoundFinalises ==
    ASSUME TypeOK, UnsettledUnpaid, NEW k \in Rounds, roundState[k] = "InSettlement",
           roundState'[k] = "Settled", exchangeRate'[k] = SettlementRate(k),
           paidOut' = paidOut, supply' = supply
    PROVE  Promise!RoundStep(k)
<1>1. PromisePhase[k] = "locked" /\ PromisePhase'[k] = "final"
  BY Mapped, MappedNext
<1>2. paidOut'[k] = 0
  BY DEF UnsettledUnpaid
<1> DEFINE rate == SettlementRate(k)
<1>3. rate.baseAmount \in Nat /\ rate.quoteAmount > 0
  BY RateType
<1>4. supply[k] > 0 => rate.quoteAmount = supply[k]
  BY DEF SettlementRate
<1> HIDE DEF rate
<1>5. /\ PromisePot'[k] = exchangeRate'[k].baseAmount - paidOut'[k]
      /\ PromiseTerms'[k] = [out |-> exchangeRate'[k].baseAmount,
                             for |-> exchangeRate'[k].quoteAmount]
  BY MappedNext
<1>6. exchangeRate'[k] = rate
  BY DEF rate
<1>7. /\ PromisePot'[k] = rate.baseAmount
      /\ PromiseTerms'[k].out = rate.baseAmount /\ PromiseTerms'[k].for = rate.quoteAmount
  BY <1>2, <1>3, <1>5, <1>6
<1> QED
  BY <1>1, <1>3, <1>4, <1>7 DEF Promise!RoundStep, Promise!Finalise

\* What is left of a product that is not negative is not negative.
LEMMA FactorNatural ==
    ASSUME NEW x \in Int, NEW q \in Nat \ {0}, x * q >= 0
    PROVE  x >= 0
<1> SUFFICES ASSUME x <= -1 PROVE FALSE
  OBVIOUS
<1>1. x * q <= -q
  OBVIOUS
<1> QED
  BY <1>1

\* A settled round pays claims: no more than pro rata, and what is left covers
\* the rest, so that the pot stays natural.
LEMMA RoundClaims ==
    ASSUME TypeOK, TypeOK', NEW k \in Rounds, RoundSolvent(k)',
           roundState[k] = "Settled", roundState'[k] = "Settled",
           exchangeRate'[k] = exchangeRate[k], exchangeRate[k].quoteAmount > 0,
           NEW a \in Nat, NEW out \in Nat, supply'[k] = supply[k] - a,
           paidOut'[k] = paidOut[k] + out,
           out * exchangeRate[k].quoteAmount <= a * exchangeRate[k].baseAmount
    PROVE  Promise!RoundStep(k)
<1> DEFINE base == exchangeRate[k].baseAmount
           quote == exchangeRate[k].quoteAmount
           pot == PromisePot[k]
           left == PromisePot'[k]
<1>1. /\ base \in Nat /\ quote \in Nat \ {0}
      /\ paidOut[k] \in Nat /\ supply[k] \in Nat /\ supply'[k] \in Nat
  BY DEF TypeOK
<1>2. /\ PromisePhase[k] = "final" /\ PromisePhase'[k] = "final"
      /\ PromiseTerms'[k] = PromiseTerms[k]
      /\ PromiseTerms[k].out = base /\ PromiseTerms[k].for = quote
  <2>1. PromisePhase[k] = "final" /\ PromisePhase'[k] = "final"
    BY Mapped, MappedNext
  <2>2. PromiseTerms'[k] = PromiseTerms[k] /\ PromiseTerms[k] = [out |-> base, for |-> quote]
    BY Mapped, MappedNext
  <2> QED
    BY <2>1, <2>2
<1>3. pot = base - paidOut[k] /\ left = base - paidOut'[k]
  BY Mapped, MappedNext
<1>4. (base - paidOut'[k]) * quote >= supply'[k] * base
  BY DEF RoundSolvent
<1>5. out * quote <= a * base /\ supply'[k] = supply[k] - a /\ paidOut'[k] = paidOut[k] + out
  OBVIOUS
<1> HIDE DEF base, quote, pot, left
<1>6. left \in Int /\ pot = left + out
  BY <1>1, <1>3, <1>5
<1>7. supply'[k] * base >= 0
  BY <1>1
<1>8. left * quote >= 0
  <2>1. left * quote \in Int /\ supply'[k] * base \in Int /\ left * quote >= supply'[k] * base
    BY <1>1, <1>3, <1>4, <1>6
  <2> QED
    BY <1>7, <2>1
<1>9. left >= 0
  BY <1>1, <1>6, <1>8, FactorNatural
<1>10. left \in 0..pot /\ supply'[k] \in 0..supply[k]
  BY <1>1, <1>5, <1>6, <1>9
<1>11. pot - left = out /\ supply[k] - supply'[k] = a
  BY <1>1, <1>5, <1>6
<1>12. (pot - left) * quote <= (supply[k] - supply'[k]) * base
  BY <1>5, <1>11
<1> QED
  BY <1>2, <1>10, <1>12 DEF Promise!RoundStep, Promise!Claim, pot, left

\* A quote is rounded down.
LEMMA QuoteFair ==
    ASSUME TypeOK, NEW k \in Rounds, exchangeRate[k].quoteAmount > 0, NEW a \in Nat
    PROVE  /\ Quote(exchangeRate[k], a) \in Nat
           /\ Quote(exchangeRate[k], a) * exchangeRate[k].quoteAmount
                 <= a * exchangeRate[k].baseAmount
<1>1. exchangeRate[k].baseAmount \in Nat /\ exchangeRate[k].quoteAmount \in Nat \ {0}
  BY DEF TypeOK
<1> DEFINE quote == exchangeRate[k].quoteAmount
           owed == a * exchangeRate[k].baseAmount
<1>2. owed \in Nat /\ quote \in Nat \ {0} /\ Quote(exchangeRate[k], a) = owed \div quote
  BY <1>1 DEF Quote
<1> HIDE DEF owed, quote
<1>3. owed \div quote \in Nat /\ quote * (owed \div quote) <= owed
  BY <1>2, DivBound
<1>4. (owed \div quote) * quote <= owed
  BY <1>2, <1>3
<1> QED
  BY <1>2, <1>3, <1>4 DEF owed, quote

---------------------------------------------------------------------------
(* The operations *)

\* Every operation of the users is a move of every round.
LEMMA UserPromised ==
    ASSUME IInv, TypeOK', (SettledRoundSolvent /\ UnsettledUnpaid)', UserStep, NEW k \in Rounds
    PROVE  Promise!RoundStep(k)
<1>0. /\ TypeOK /\ Ledgers /\ RoundsInOrder /\ RatesUsable /\ RoundSolvent(k)'
      /\ supply \in [Rounds -> Nat] /\ paidOut \in [Rounds -> Nat]
      /\ supply' \in [Rounds -> Nat] /\ \A a \in Amounts : a \in Nat
  BY RoundByRound, SolventRates, BoundAssumption DEF IInv, TypeOK
<1>1. ASSUME NEW u \in Users, NEW v \in Users, NEW a \in Amounts, Deposit(u, v, a)
      PROVE  Promise!RoundStep(k)
  <2>1. /\ supply' = [supply EXCEPT ![roundNumber] = @ + a] /\ roundNumber \in Rounds
        /\ UNCHANGED <<roundState, exchangeRate, paidOut>>
    <3>1. roundNumber \in Rounds
      BY <1>0 DEF TypeOK
    <3>2. supply' = [supply EXCEPT ![roundNumber] = @ + a]
      BY <1>0, <1>1, <3>1, DepositKeeps
    <3>3. UNCHANGED <<roundState, exchangeRate, paidOut>>
      BY <1>1 DEF Deposit, roundVars
    <3> QED
      BY <3>1, <3>2, <3>3
  <2>2. CASE k = roundNumber /\ a > 0
    <3>1. supply'[k] > supply[k]
      BY <1>0, <2>1, <2>2
    <3> QED
      BY <1>0, <2>1, <2>2, <3>1, RoundCollects
  <2>3. CASE ~(k = roundNumber /\ a > 0)
    <3>1. supply'[k] = supply[k]
      BY <1>0, <2>1, <2>3
    <3> QED
      BY <1>0, <2>1, <3>1, RoundKeeps
  <2> QED
    BY <2>2, <2>3
<1>2. ASSUME NEW u \in Users, NEW v \in Users, NEW id \in Rounds, NEW a \in Amounts,
             Redeem(u, v, id, a)
      PROVE  Promise!RoundStep(k)
  <2>1. /\ roundState[id] = "Opened" /\ supply' = [supply EXCEPT ![id] = @ - a]
        /\ UNCHANGED <<roundState, exchangeRate, paidOut>>
    BY <1>2 DEF Redeem, Redeemable, Burn, ReturnPrincipal, roundVars
  <2>2. CASE k = id
    <3>1. supply'[k] \in 0..supply[k]
      BY <1>0, <2>1, <2>2
    <3> QED
      BY <2>1, <2>2, <3>1, RoundReturns
  <2>3. CASE k # id
    BY <1>0, <2>1, <2>3, RoundKeeps
  <2> QED
    BY <2>2, <2>3
<1>3. ASSUME NEW u \in Users, NEW v \in Users, NEW id \in Rounds, NEW a \in Amounts,
             RedeemExchangeAsset(u, v, id, a)
      PROVE  Promise!RoundStep(k)
  <2> DEFINE out == Quote(exchangeRate[id], a)
  <2>1. /\ roundState[id] = "Settled" /\ supply' = [supply EXCEPT ![id] = @ - a]
        /\ paidOut' = [paidOut EXCEPT ![id] = @ + out]
        /\ UNCHANGED <<roundState, exchangeRate>>
    BY <1>3 DEF RedeemExchangeAsset, Burn, roundVars
  <2>2. exchangeRate[id].quoteAmount > 0
    BY <1>0, <2>1 DEF RatesUsable
  <2>3. /\ out \in Nat
        /\ out * exchangeRate[id].quoteAmount <= a * exchangeRate[id].baseAmount
    BY <1>0, <2>2, QuoteFair
  <2> HIDE DEF out
  <2>4. CASE k = id
    <3>1. supply'[k] = supply[k] - a /\ paidOut'[k] = paidOut[k] + out
      BY <1>0, <2>1, <2>4
    <3> QED
      BY <1>0, <2>1, <2>2, <2>3, <2>4, <3>1, RoundClaims
  <2>5. CASE k # id
    <3>1. supply'[k] = supply[k] /\ paidOut'[k] = paidOut[k]
      BY <1>0, <2>1, <2>5
    <3> QED
      BY <1>0, <2>1, <3>1, RoundKeeps
  <2> QED
    BY <2>4, <2>5
<1>4. ASSUME NEW u \in Users, NEW v \in Users, NEW id \in Rounds, NEW a \in Amounts,
             SafeTransferFrom(u, v, id, a)
      PROVE  Promise!RoundStep(k)
  BY <1>0, <1>4, RoundKeeps DEF SafeTransferFrom, tokenVars, roundVars
<1> QED
  BY <1>1, <1>2, <1>3, <1>4 DEF UserStep

\* So is every batch; two entries of one round are one move of it.
LEMMA BatchPromised ==
    ASSUME IInv, TypeOK', (SettledRoundSolvent /\ UnsettledUnpaid)', BatchStep, NEW k \in Rounds
    PROVE  Promise!RoundStep(k)
<1>0. /\ TypeOK /\ Ledgers /\ RatesUsable /\ RoundSolvent(k)'
      /\ supply \in [Rounds -> Nat] /\ paidOut \in [Rounds -> Nat]
      /\ supply' \in [Rounds -> Nat] /\ \A a \in Amounts : a \in Nat
  BY RoundByRound, SolventRates, BoundAssumption DEF IInv, TypeOK
<1>1. ASSUME NEW u \in Users, NEW v \in Users, NEW i \in Rounds, NEW a \in Amounts,
             NEW j \in Rounds, NEW b \in Amounts, RedeemBatch(u, v, i, a, j, b)
      PROVE  Promise!RoundStep(k)
  <2>1. /\ roundState[i] = "Opened" /\ roundState[j] = "Opened"
        /\ supply' = [[supply EXCEPT ![i] = @ - a] EXCEPT ![j] = @ - b]
        /\ UNCHANGED <<roundState, exchangeRate, paidOut>>
    BY <1>1 DEF RedeemBatch, Redeemable, BurnBatch, ReturnPrincipal, roundVars
  <2>2. CASE k = i \/ k = j
    <3>1. supply'[k] \in 0..supply[k]
      <4>1. supply'[k] \in Nat /\ supply[k] \in Nat /\ a \in Nat /\ b \in Nat
        BY <1>0
      <4>2. \/ supply'[k] = supply[k] - a \/ supply'[k] = supply[k] - b
            \/ supply'[k] = supply[k] - a - b
        BY <1>0, <2>1, <2>2
      <4> QED
        BY <4>1, <4>2
    <3> QED
      BY <2>1, <2>2, <3>1, RoundReturns
  <2>3. CASE k # i /\ k # j
    BY <1>0, <2>1, <2>3, RoundKeeps
  <2> QED
    BY <2>2, <2>3
<1>2. ASSUME NEW u \in Users, NEW v \in Users, NEW i \in Rounds, NEW a \in Amounts,
             NEW j \in Rounds, NEW b \in Amounts,
             RedeemExchangeAssetBatch(u, v, i, a, j, b)
      PROVE  Promise!RoundStep(k)
  <2> DEFINE out1 == Quote(exchangeRate[i], a)
             out2 == Quote(exchangeRate[j], b)
  <2>1. /\ roundState[i] = "Settled" /\ roundState[j] = "Settled"
        /\ supply' = [[supply EXCEPT ![i] = @ - a] EXCEPT ![j] = @ - b]
        /\ paidOut' = [[paidOut EXCEPT ![i] = @ + out1] EXCEPT ![j] = @ + out2]
        /\ UNCHANGED <<roundState, exchangeRate>>
    BY <1>2 DEF RedeemExchangeAssetBatch, BurnBatch, roundVars
  <2>2. exchangeRate[i].quoteAmount > 0 /\ exchangeRate[j].quoteAmount > 0
    BY <1>0, <2>1 DEF RatesUsable
  <2>3. /\ out1 \in Nat /\ out1 * exchangeRate[i].quoteAmount <= a * exchangeRate[i].baseAmount
        /\ out2 \in Nat /\ out2 * exchangeRate[j].quoteAmount <= b * exchangeRate[j].baseAmount
    BY <1>0, <2>2, QuoteFair
  <2>n. a \in Nat /\ b \in Nat
    BY <1>0
  <2> HIDE DEF out1, out2
  <2>4. CASE k = i /\ k = j
    <3> DEFINE base == exchangeRate[k].baseAmount
               quote == exchangeRate[k].quoteAmount
    <3>1. supply'[k] = supply[k] - (a + b) /\ paidOut'[k] = paidOut[k] + (out1 + out2)
      <4>1. supply'[k] = supply[k] - a - b /\ paidOut'[k] = paidOut[k] + out1 + out2
        BY <1>0, <2>1, <2>4
      <4> QED
        BY <1>0, <2>3, <2>n, <4>1
    <3>2. base \in Nat /\ quote \in Nat /\ out1 * quote <= a * base /\ out2 * quote <= b * base
      BY <1>0, <2>3, <2>4 DEF TypeOK
    <3>3. (out1 + out2) * quote <= (a + b) * base
      <4> HIDE DEF base, quote
      <4>1. /\ (out1 + out2) * quote = out1 * quote + out2 * quote
            /\ (a + b) * base = a * base + b * base
        BY <2>3, <2>n, <3>2
      <4>2. /\ out1 * quote \in Int /\ out2 * quote \in Int
            /\ a * base \in Int /\ b * base \in Int
        BY <2>3, <2>n, <3>2
      <4> QED
        BY <3>2, <4>1, <4>2
    <3>4. a + b \in Nat /\ out1 + out2 \in Nat
      BY <2>3, <2>n
    <3> QED
      BY <1>0, <2>1, <2>2, <2>4, <3>1, <3>3, <3>4, RoundClaims
  <2>5. CASE k = i /\ k # j
    <3>1. supply'[k] = supply[k] - a /\ paidOut'[k] = paidOut[k] + out1
      BY <1>0, <2>1, <2>5
    <3> QED
      BY <1>0, <2>1, <2>2, <2>3, <2>n, <2>5, <3>1, RoundClaims
  <2>6. CASE k # i /\ k = j
    <3>1. supply'[k] = supply[k] - b /\ paidOut'[k] = paidOut[k] + out2
      BY <1>0, <2>1, <2>6
    <3> QED
      BY <1>0, <2>1, <2>2, <2>3, <2>n, <2>6, <3>1, RoundClaims
  <2>7. CASE k # i /\ k # j
    <3>1. supply'[k] = supply[k] /\ paidOut'[k] = paidOut[k]
      BY <1>0, <2>1, <2>7
    <3> QED
      BY <1>0, <2>1, <3>1, RoundKeeps
  <2> QED
    BY <2>4, <2>5, <2>6, <2>7
<1>3. ASSUME NEW u \in Users, NEW v \in Users, NEW i \in Rounds, NEW a \in Amounts,
             NEW j \in Rounds, NEW b \in Amounts, SafeBatchTransferFrom(u, v, i, a, j, b)
      PROVE  Promise!RoundStep(k)
  BY <1>0, <1>3, RoundKeeps DEF SafeBatchTransferFrom, tokenVars, roundVars
<1> QED
  BY <1>1, <1>2, <1>3 DEF BatchStep

\* So is every operation of the keeper: two rounds make a move at once when
\* the next one begins, or two are settled.
LEMMA KeeperPromised ==
    ASSUME IInv, KeeperStep, NEW k \in Rounds
    PROVE  Promise!RoundStep(k)
<1>0. /\ TypeOK /\ RoundsInOrder /\ UnsettledUnpaid /\ roundState \in [Rounds -> RoundStates]
      /\ exchangeRate \in [Rounds -> [baseAmount : Nat, quoteAmount : Nat]]
  BY DEF IInv, TypeOK
<1>1. CASE NextRound
  <2>1. /\ roundNumber \in Rounds /\ roundNumber + 1 \in Rounds
        /\ (roundNumber + 1) - 1 = roundNumber /\ roundNumber + 1 > roundNumber
        /\ roundNumber # roundNumber + 1
    <3>1. roundNumber \in Rounds /\ roundNumber < MaxRound
      BY <1>0, <1>1 DEF TypeOK, NextRound
    <3> QED
      BY <3>1, BoundAssumption DEF Rounds
  <2>2. /\ roundState[roundNumber] = "Opened"
        /\ roundState' = [roundState EXCEPT ![roundNumber] = "InSettlement",
                                            ![roundNumber + 1] = "Opened"]
        /\ UNCHANGED <<exchangeRate, supply, paidOut>>
    BY <1>1 DEF NextRound, receiptVars, tokenVars
  <2>3. roundState[roundNumber + 1] = "NotOpened" /\ supply[roundNumber + 1] = 0
    BY <1>0, <2>1 DEF RoundsInOrder
  <2>4. /\ roundState'[roundNumber] = "InSettlement" /\ roundState'[roundNumber + 1] = "Opened"
        /\ \A r \in Rounds \ {roundNumber, roundNumber + 1} : roundState'[r] = roundState[r]
    BY <1>0, <2>1, <2>2
  <2>5. CASE k = roundNumber
    BY <2>2, <2>4, <2>5, RoundLocksOrReopens
  <2>6. CASE k = roundNumber + 1
    <3>1. k - 1 = roundNumber
      BY <2>1, <2>6
    <3> QED
      BY <2>1, <2>2, <2>3, <2>4, <2>6, <3>1, RoundBegins
  <2>7. CASE k \notin {roundNumber, roundNumber + 1}
    BY <1>0, <2>2, <2>4, <2>7, RoundKeeps
  <2> QED
    BY <2>5, <2>6, <2>7
<1>2. ASSUME NEW id \in Rounds, RetryRound(id) PROVE Promise!RoundStep(k)
  <2>1. /\ roundState[id] = "Opened"
        /\ roundState' = [roundState EXCEPT ![id] = "InSettlement"]
        /\ UNCHANGED <<exchangeRate, supply, paidOut>>
    BY <1>2 DEF RetryRound, Retriable, receiptVars, tokenVars
  <2>2. CASE k = id
    BY <1>0, <2>1, <2>2, RoundLocksOrReopens
  <2>3. CASE k # id
    BY <1>0, <2>1, <2>3, RoundKeeps
  <2> QED
    BY <2>2, <2>3
<1>3. ASSUME NEW id \in Rounds, SetRoundSettled(id) PROVE Promise!RoundStep(k)
  <2>1. /\ roundState[id] = "InSettlement"
        /\ roundState' = [roundState EXCEPT ![id] = "Settled"]
        /\ exchangeRate' = [exchangeRate EXCEPT ![id] = SettlementRate(id)]
        /\ supply' = supply /\ paidOut' = paidOut
    BY <1>3 DEF SetRoundSettled, receiptVars
  <2>2. CASE k = id
    BY <1>0, <2>1, <2>2, RoundFinalises
  <2>3. CASE k # id
    BY <1>0, <2>1, <2>3, RoundKeeps
  <2> QED
    BY <2>2, <2>3
<1>4. ASSUME NEW i \in Rounds, NEW j \in Rounds, SetRoundSettledBatch(i, j)
      PROVE  Promise!RoundStep(k)
  <2>1. /\ roundState[i] = "InSettlement" /\ roundState[j] = "InSettlement"
        /\ roundState' = [roundState EXCEPT ![i] = "Settled", ![j] = "Settled"]
        /\ exchangeRate' = [exchangeRate EXCEPT ![i] = SettlementRate(i),
                                                ![j] = SettlementRate(j)]
        /\ supply' = supply /\ paidOut' = paidOut
    BY <1>4 DEF SetRoundSettledBatch, receiptVars
  <2>2. CASE k = i \/ k = j
    <3>1. /\ roundState[k] = "InSettlement" /\ roundState'[k] = "Settled"
          /\ exchangeRate'[k] = SettlementRate(k)
      BY <1>0, <2>1, <2>2
    <3> QED
      BY <1>0, <2>1, <3>1, RoundFinalises
  <2>3. CASE k # i /\ k # j
    BY <1>0, <2>1, <2>3, RoundKeeps
  <2> QED
    BY <2>2, <2>3
<1> QED
  BY <1>1, <1>2, <1>3, <1>4 DEF KeeperStep

\* Every step is a move of every round.
LEMMA StepPromised ==
    ASSUME IInv, IInv', [Next]_vars, NEW k \in Rounds
    PROVE  Promise!RoundStep(k)
<1>0. /\ TypeOK /\ TypeOK' /\ (SettledRoundSolvent /\ UnsettledUnpaid)'
      /\ roundState \in [Rounds -> RoundStates]
  BY DEF IInv, TypeOK
<1>1. CASE UserStep
  BY <1>0, <1>1, UserPromised
<1>2. CASE BatchStep
  BY <1>0, <1>2, BatchPromised
<1>3. CASE KeeperStep
  BY <1>3, KeeperPromised
<1>4. ASSUME NEW id \in Rounds, EmergencyRollbackRound(id) PROVE Promise!RoundStep(k)
  <2>1. /\ roundState[id] = "InSettlement"
        /\ roundState' = [roundState EXCEPT ![id] = "Opened"]
        /\ UNCHANGED <<exchangeRate, supply, paidOut>>
    BY <1>4 DEF EmergencyRollbackRound, receiptVars, tokenVars
  <2>2. CASE k = id
    BY <1>0, <2>1, <2>2, RoundLocksOrReopens
  <2>3. CASE k # id
    BY <1>0, <2>1, <2>3, RoundKeeps
  <2> QED
    BY <2>2, <2>3
<1>5. CASE EnvironmentStep \/ UNCHANGED vars \/ \E m \in MinPositions : SetMinPositionSize(m)
  <2>1. UNCHANGED <<roundState, exchangeRate, paidOut, supply>>
    BY <1>5 DEF EnvironmentStep, SetWhitelisted, TargetPriceMoves, TargetCloses,
       TargetOpens, SetMinPositionSize, receiptVars, tokenVars, roundVars, vars
  <2> QED
    BY <1>0, <2>1, RoundKeeps
<1> QED
  BY <1>1, <1>2, <1>3, <1>4, <1>5 DEF Next, GovernorStep

---------------------------------------------------------------------------
(* The theorem *)

\* Seen round by round the vault does what RoundsPromise allows, in every
\* order of the calls of any users, keepers and governors and at any prices: a
\* round is finalised once, on the amount it held, and pays only out of its
\* own pot.
THEOREM VaultKeepsPromise == Spec => ImplementsPromise
<1>1. Init => Promise!Init
  <2> SUFFICES ASSUME Init PROVE Promise!Init
    OBVIOUS
  <2>1. PromisePhase = [r \in Rounds |-> IF r = 0 THEN "open" ELSE "future"]
    BY DEF Init, PromisePhase
  <2>2. supply = [r \in Rounds |-> 0] /\ PromisePot = [r \in Rounds |-> 0]
    BY DEF Init, PromisePot
  <2>3. PromiseTerms = [r \in Rounds |-> [out |-> 0, for |-> 0]]
    BY DEF Init, PromiseTerms, NoRate
  <2> QED
    BY <2>1, <2>2, <2>3 DEF Promise!Init
<1>2. IInv /\ IInv' /\ [Next]_vars => [Promise!Next]_(Promise!promiseVars)
  BY StepPromised DEF Promise!Next
<1> QED
  BY <1>1, <1>2, Invariant, PTL DEF Spec, ImplementsPromise, Promise!Spec

---------------------------------------------------------------------------
(* The underlying tokens *)

\* The part of each round in the underlying tokens the vault holds.
PrincipalOf == [id \in Rounds |-> IF roundState[id] = "Settled" THEN 0 ELSE supply[id]]

PrincipalHeld == AddsUpTo(PrincipalOf, Rounds, vaultAssets)

\* What the parts of one or of two rounds need is there.
PrincipalCovered ==
    /\ \A id \in Rounds : roundState[id] # "Settled" => supply[id] <= vaultAssets
    /\ \A i, j \in Rounds :
          i # j /\ roundState[i] # "Settled" /\ roundState[j] # "Settled"
             => supply[i] + supply[j] <= vaultAssets

\* Two parts of a total do not exceed it.
LEMMA AddsUpPair ==
    ASSUME NEW S, NEW f \in [S -> Nat], NEW total, AddsUpTo(f, S, total),
           NEW x \in S, NEW y \in S, x # y
    PROVE  f[x] + f[y] <= total
<1> DEFINE d == -f[x]
           g == [f EXCEPT ![x] = @ + d]
<1>1. f[x] \in Nat /\ f[y] \in Nat /\ d \in Int /\ f[x] + d = 0
  OBVIOUS
<1>2. total \in Nat
  BY AddsUpBound
<1> HIDE DEF d
<1>3. AddsUpTo(g, S, total + d)
  <2>1. f[x] + d >= 0
    BY <1>1
  <2>2. AddsUpTo([f EXCEPT ![x] = @ + d], S, total + d)
    BY <1>1, <2>1, AddsUpChange
  <2> QED
    BY <2>2
<1> USE DEF d
<1>4. g \in [S -> Nat] /\ g[y] = f[y]
  BY <1>1
<1> HIDE DEF g
<1>5. g[y] <= total + d
  BY <1>3, <1>4, AddsUpBound
<1> QED
  BY <1>1, <1>2, <1>4, <1>5

\* The parts add up only when each is covered.
LEMMA HeldCovers ==
    ASSUME TypeOK, PrincipalHeld PROVE PrincipalCovered
<1>1. PrincipalOf \in [Rounds -> Nat]
  BY DEF PrincipalOf, TypeOK
<1>2. \A id \in Rounds : roundState[id] # "Settled" => PrincipalOf[id] = supply[id]
  BY DEF PrincipalOf
<1>3. \A id \in Rounds : PrincipalOf[id] <= vaultAssets
  BY <1>1, AddsUpBound DEF PrincipalHeld
<1>4. \A i, j \in Rounds : i # j => PrincipalOf[i] + PrincipalOf[j] <= vaultAssets
  BY <1>1, AddsUpPair DEF PrincipalHeld
<1> QED
  BY <1>2, <1>3, <1>4 DEF PrincipalCovered

\* One part and the balance change by the same amount.
LEMMA PrincipalMoves ==
    ASSUME TypeOK, TypeOK', PrincipalHeld, NEW id \in Rounds, NEW d \in Int,
           PrincipalOf'[id] = PrincipalOf[id] + d,
           \A k \in Rounds \ {id} : PrincipalOf'[k] = PrincipalOf[k],
           vaultAssets' = vaultAssets + d
    PROVE  PrincipalHeld'
<1> DEFINE f == PrincipalOf
           g == PrincipalOf'
<1>1. f \in [Rounds -> Nat] /\ g \in [Rounds -> Nat]
  BY DEF PrincipalOf, TypeOK
<1>2. g[id] = f[id] + d /\ \A k \in Rounds \ {id} : g[k] = f[k]
  OBVIOUS
<1>3. AddsUpTo(f, Rounds, vaultAssets)
  BY DEF PrincipalHeld
<1> HIDE DEF f, g
<1>4. g = [f EXCEPT ![id] = @ + d] /\ f[id] + d >= 0
  BY <1>1, <1>2
<1>5. AddsUpTo([f EXCEPT ![id] = @ + d], Rounds, vaultAssets + d)
  BY <1>1, <1>3, <1>4, AddsUpChange
<1>6. AddsUpTo(g, Rounds, vaultAssets')
  BY <1>4, <1>5
<1> QED
  BY <1>6 DEF PrincipalHeld, g

\* Nothing changes in the parts.
LEMMA PrincipalRests ==
    ASSUME TypeOK, PrincipalHeld, vaultAssets' = vaultAssets,
           \A k \in Rounds : PrincipalOf'[k] = PrincipalOf[k]
    PROVE  PrincipalHeld'
<1>1. PrincipalOf' = PrincipalOf
  BY DEF PrincipalOf
<1> QED
  BY <1>1 DEF PrincipalHeld

\* Two parts change, or one part twice.
LEMMA PrincipalMovesTwice ==
    ASSUME TypeOK, TypeOK', PrincipalHeld, NEW i \in Rounds, NEW j \in Rounds,
           NEW a \in Nat, NEW b \in Nat,
           PrincipalOf' = [[PrincipalOf EXCEPT ![i] = @ - a] EXCEPT ![j] = @ - b],
           a <= PrincipalOf[i], b <= [PrincipalOf EXCEPT ![i] = @ - a][j],
           vaultAssets' = vaultAssets - (a + b)
    PROVE  PrincipalHeld'
<1> DEFINE f == PrincipalOf
           first == [f EXCEPT ![i] = @ - a]
           g == [first EXCEPT ![j] = @ - b]
           minusA == -a
           minusB == -b
<1>1. f \in [Rounds -> Nat] /\ vaultAssets \in Nat /\ AddsUpTo(f, Rounds, vaultAssets)
  BY DEF PrincipalOf, TypeOK, PrincipalHeld
<1>2. PrincipalOf' = g /\ a <= f[i] /\ b <= first[j]
  OBVIOUS
<1> HIDE DEF f
<1>3. /\ first = [f EXCEPT ![i] = @ + minusA] /\ f[i] + minusA >= 0
      /\ minusA \in Int /\ minusB \in Int /\ first \in [Rounds -> Nat]
  <2>1. f[i] \in Nat /\ f[i] - a = f[i] + minusA /\ f[i] - a \in Nat
    BY <1>1, <1>2
  <2>2. first \in [Rounds -> Nat]
    BY <1>1, <2>1
  <2>3. [f EXCEPT ![i] = @ + minusA] = [f EXCEPT ![i] = f[i] + minusA]
    OBVIOUS
  <2>4. first = [f EXCEPT ![i] = f[i] - a]
    OBVIOUS
  <2>5. f[i] + minusA >= 0
    BY <2>1
  <2> HIDE DEF first
  <2>6. first = [f EXCEPT ![i] = @ + minusA]
    BY <2>1, <2>3, <2>4
  <2>7. minusA \in Int /\ minusB \in Int
    OBVIOUS
  <2> QED
    BY <2>2, <2>5, <2>6, <2>7
<1>4. AddsUpTo([f EXCEPT ![i] = @ + minusA], Rounds, vaultAssets + minusA)
  BY <1>1, <1>3, AddsUpChange
<1>5. AddsUpTo(first, Rounds, vaultAssets + minusA)
  BY <1>3, <1>4
<1> HIDE DEF first
<1>6. g = [first EXCEPT ![j] = @ + minusB] /\ first[j] + minusB >= 0
  <2>1. first[j] - b = first[j] + minusB /\ first[j] + minusB >= 0
    BY <1>2, <1>3
  <2>2. g = [first EXCEPT ![j] = first[j] - b]
    OBVIOUS
  <2>3. [first EXCEPT ![j] = @ + minusB] = [first EXCEPT ![j] = first[j] + minusB]
    OBVIOUS
  <2> HIDE DEF g
  <2> QED
    BY <2>1, <2>2, <2>3
<1>7. AddsUpTo([first EXCEPT ![j] = @ + minusB], Rounds, (vaultAssets + minusA) + minusB)
  BY <1>3, <1>5, <1>6, AddsUpChange
<1>8. (vaultAssets + minusA) + minusB = vaultAssets'
  BY <1>1
<1>9. AddsUpTo(g, Rounds, vaultAssets')
  BY <1>6, <1>7, <1>8
<1> QED
  BY <1>2, <1>9 DEF PrincipalHeld

\* Every step keeps the parts and the balance together.
LEMMA PrincipalStep ==
    ASSUME IInv, TypeOK', PrincipalHeld, [Next]_vars
    PROVE  PrincipalHeld'
<1>0. /\ TypeOK /\ Ledgers /\ RoundsInOrder /\ roundState \in [Rounds -> RoundStates]
      /\ supply \in [Rounds -> Nat] /\ supply' \in [Rounds -> Nat]
      /\ roundNumber \in Rounds /\ vaultAssets \in Nat
      /\ \A a \in Amounts : a \in Nat /\ a \in Int /\ -a \in Int
  BY BoundAssumption DEF IInv, TypeOK
<1>p. /\ \A k \in Rounds : PrincipalOf[k] = IF roundState[k] = "Settled" THEN 0 ELSE supply[k]
      /\ \A k \in Rounds :
            PrincipalOf'[k] = IF roundState'[k] = "Settled" THEN 0 ELSE supply'[k]
  BY DEF PrincipalOf
<1>1. ASSUME NEW u \in Users, NEW v \in Users, NEW a \in Amounts, Deposit(u, v, a)
      PROVE  PrincipalHeld'
  <2>1. supply' = [supply EXCEPT ![roundNumber] = @ + a]
    BY <1>0, <1>1, DepositKeeps
  <2>2. roundState' = roundState /\ vaultAssets' = vaultAssets + a
    BY <1>1 DEF Deposit, roundVars
  <2>3. PrincipalOf'[roundNumber] = PrincipalOf[roundNumber] + a
    BY <1>0, <1>p, <2>1, <2>2 DEF RoundsInOrder
  <2>4. \A k \in Rounds \ {roundNumber} : PrincipalOf'[k] = PrincipalOf[k]
    BY <1>0, <1>p, <2>1, <2>2
  <2> QED
    BY <1>0, <2>2, <2>3, <2>4, PrincipalMoves
<1>2. ASSUME NEW u \in Users, NEW v \in Users, NEW id \in Rounds, NEW a \in Amounts,
             Redeem(u, v, id, a)
      PROVE  PrincipalHeld'
  <2> DEFINE d == -a
  <2>1. /\ roundState[id] = "Opened" /\ supply' = [supply EXCEPT ![id] = @ - a]
        /\ roundState' = roundState /\ vaultAssets' = vaultAssets - a
    BY <1>2 DEF Redeem, Redeemable, Burn, ReturnPrincipal, roundVars
  <2>2. d \in Int /\ vaultAssets' = vaultAssets + d
    BY <1>0, <2>1
  <2>3. PrincipalOf'[id] = PrincipalOf[id] + d
    BY <1>0, <1>p, <2>1
  <2>4. \A k \in Rounds \ {id} : PrincipalOf'[k] = PrincipalOf[k]
    BY <1>0, <1>p, <2>1
  <2> HIDE DEF d
  <2> QED
    BY <1>0, <2>2, <2>3, <2>4, PrincipalMoves
<1>3. ASSUME NEW u \in Users, NEW v \in Users, NEW i \in Rounds, NEW a \in Amounts,
             NEW j \in Rounds, NEW b \in Amounts, RedeemBatch(u, v, i, a, j, b)
      PROVE  PrincipalHeld'
  <2>1. /\ roundState[i] = "Opened" /\ roundState[j] = "Opened" /\ roundState' = roundState
        /\ vaultAssets' = vaultAssets - (a + b) /\ BurnBatch(u, i, a, j, b)
    BY <1>3 DEF RedeemBatch, Redeemable, ReturnPrincipal, roundVars
  <2>2. /\ supply' = [[supply EXCEPT ![i] = @ - a] EXCEPT ![j] = @ - b]
        /\ a <= supply[i] /\ b <= [supply EXCEPT ![i] = @ - a][j]
    BY <1>0, <2>1, BurnBatchKeeps
  <2>3. PrincipalOf \in [Rounds -> Nat]
    BY <1>0 DEF PrincipalOf
  <2>4. /\ a <= PrincipalOf[i] /\ b <= [PrincipalOf EXCEPT ![i] = @ - a][j]
    BY <1>0, <1>p, <2>1, <2>2, <2>3
  <2>5. \A k \in Rounds : PrincipalOf'[k]
                            = [[PrincipalOf EXCEPT ![i] = @ - a] EXCEPT ![j] = @ - b][k]
    <3> TAKE k \in Rounds
    <3>1. CASE roundState[k] = "Settled"
      BY <1>0, <1>p, <2>1, <2>3, <3>1
    <3>2. CASE roundState[k] # "Settled"
      BY <1>0, <1>p, <2>1, <2>2, <2>3, <3>2
    <3> QED
      BY <3>1, <3>2
  <2>6. PrincipalOf' = [[PrincipalOf EXCEPT ![i] = @ - a] EXCEPT ![j] = @ - b]
    <3> DEFINE g == PrincipalOf'
    <3>1. g = [k \in Rounds |-> g[k]]
      BY DEF PrincipalOf
    <3> QED
      BY <2>3, <2>5, <3>1
  <2>7. a \in Nat /\ b \in Nat
    BY <1>0
  <2> QED
    BY <1>0, <2>1, <2>4, <2>6, <2>7, PrincipalMovesTwice
<1>4. ASSUME NEW u \in Users, NEW v \in Users, NEW id \in Rounds, NEW a \in Amounts,
             RedeemExchangeAsset(u, v, id, a)
      PROVE  PrincipalHeld'
  <2>1. /\ roundState[id] = "Settled" /\ supply' = [supply EXCEPT ![id] = @ - a]
        /\ roundState' = roundState /\ vaultAssets' = vaultAssets
    BY <1>4 DEF RedeemExchangeAsset, Burn, roundVars
  <2>2. \A k \in Rounds : PrincipalOf'[k] = PrincipalOf[k]
    BY <1>0, <1>p, <2>1
  <2> QED
    BY <1>0, <2>1, <2>2, PrincipalRests
<1>5. ASSUME NEW u \in Users, NEW v \in Users, NEW i \in Rounds, NEW a \in Amounts,
             NEW j \in Rounds, NEW b \in Amounts, RedeemExchangeAssetBatch(u, v, i, a, j, b)
      PROVE  PrincipalHeld'
  <2>1. /\ roundState[i] = "Settled" /\ roundState[j] = "Settled"
        /\ supply' = [[supply EXCEPT ![i] = @ - a] EXCEPT ![j] = @ - b]
        /\ roundState' = roundState /\ vaultAssets' = vaultAssets
    BY <1>5 DEF RedeemExchangeAssetBatch, BurnBatch, roundVars
  <2>2. \A k \in Rounds : PrincipalOf'[k] = PrincipalOf[k]
    BY <1>0, <1>p, <2>1
  <2> QED
    BY <1>0, <2>1, <2>2, PrincipalRests
<1>6. ASSUME NEW id \in Rounds, SetRoundSettled(id) PROVE PrincipalHeld'
  <2> DEFINE d == -supply[id]
  <2>1. /\ roundState[id] = "InSettlement"
        /\ roundState' = [roundState EXCEPT ![id] = "Settled"]
        /\ supply' = supply /\ vaultAssets' = vaultAssets - supply[id]
    BY <1>6 DEF SetRoundSettled, receiptVars
  <2>2. d \in Int /\ vaultAssets' = vaultAssets + d
    BY <1>0, <2>1
  <2>3. PrincipalOf'[id] = PrincipalOf[id] + d
    BY <1>0, <1>p, <2>1
  <2>4. \A k \in Rounds \ {id} : PrincipalOf'[k] = PrincipalOf[k]
    BY <1>0, <1>p, <2>1
  <2> HIDE DEF d
  <2> QED
    BY <1>0, <2>2, <2>3, <2>4, PrincipalMoves
<1>7. ASSUME NEW i \in Rounds, NEW j \in Rounds, SetRoundSettledBatch(i, j)
      PROVE  PrincipalHeld'
  <2> DEFINE a == supply[i]
             b == supply[j]
  <2>1. /\ i # j /\ roundState[i] = "InSettlement" /\ roundState[j] = "InSettlement"
        /\ roundState' = [roundState EXCEPT ![i] = "Settled", ![j] = "Settled"]
        /\ supply' = supply /\ vaultAssets' = vaultAssets - (a + b)
    BY <1>7 DEF SetRoundSettledBatch, receiptVars
  <2>2. PrincipalOf \in [Rounds -> Nat] /\ a \in Nat /\ b \in Nat
    BY <1>0 DEF PrincipalOf
  <2>3. PrincipalOf[i] = a /\ PrincipalOf[j] = b
    BY <1>p, <2>1
  <2>4. \A k \in Rounds : PrincipalOf'[k] = IF k \in {i, j} THEN 0 ELSE PrincipalOf[k]
    BY <1>0, <1>p, <2>1
  <2> HIDE DEF a, b
  <2>5. a <= PrincipalOf[i] /\ b <= [PrincipalOf EXCEPT ![i] = @ - a][j]
    BY <2>1, <2>2, <2>3
  <2>6. PrincipalOf' = [[PrincipalOf EXCEPT ![i] = @ - a] EXCEPT ![j] = @ - b]
    <3> DEFINE g == PrincipalOf'
    <3>1. g = [k \in Rounds |-> g[k]]
      BY DEF PrincipalOf
    <3> QED
      BY <2>1, <2>2, <2>3, <2>4, <3>1
  <2> QED
    BY <1>0, <2>1, <2>2, <2>5, <2>6, PrincipalMovesTwice
<1>8. CASE NextRound
  <2>1. /\ roundNumber + 1 \in Rounds /\ roundNumber + 1 > roundNumber
    <3>1. roundNumber < MaxRound
      BY <1>8 DEF NextRound
    <3> QED
      BY <1>0, <3>1, BoundAssumption DEF Rounds
  <2>2. /\ roundState[roundNumber] = "Opened" /\ roundState[roundNumber + 1] = "NotOpened"
        /\ roundState' = [roundState EXCEPT ![roundNumber] = "InSettlement",
                                            ![roundNumber + 1] = "Opened"]
        /\ supply' = supply /\ vaultAssets' = vaultAssets
    BY <1>0, <1>8, <2>1 DEF NextRound, receiptVars, tokenVars, RoundsInOrder
  <2>3. \A k \in Rounds : PrincipalOf'[k] = PrincipalOf[k]
    BY <1>0, <1>p, <2>2
  <2> QED
    BY <1>0, <2>2, <2>3, PrincipalRests
<1>9. ASSUME NEW id \in Rounds, RetryRound(id) \/ EmergencyRollbackRound(id)
      PROVE  PrincipalHeld'
  <2>1. /\ roundState[id] # "Settled" /\ roundState'[id] # "Settled"
        /\ \A k \in Rounds \ {id} : roundState'[k] = roundState[k]
        /\ supply' = supply /\ vaultAssets' = vaultAssets
    BY <1>0, <1>9 DEF RetryRound, Retriable, EmergencyRollbackRound, receiptVars, tokenVars
  <2>2. \A k \in Rounds : PrincipalOf'[k] = PrincipalOf[k]
    BY <1>p, <2>1
  <2> QED
    BY <1>0, <2>1, <2>2, PrincipalRests
<1>10. ASSUME UNCHANGED <<roundState, supply, vaultAssets>> PROVE PrincipalHeld'
  BY <1>0, <1>p, <1>10, PrincipalRests
<1>11. CASE EnvironmentStep \/ UNCHANGED vars \/ \E m \in MinPositions : SetMinPositionSize(m)
  <2>1. UNCHANGED <<roundState, supply, vaultAssets>>
    BY <1>11 DEF EnvironmentStep, SetWhitelisted, TargetPriceMoves, TargetCloses,
       TargetOpens, SetMinPositionSize, receiptVars, tokenVars, roundVars, vars
  <2> QED
    BY <1>10, <2>1
<1>12. ASSUME NEW u \in Users, NEW v \in Users, NEW i \in Rounds, NEW a \in Amounts,
              NEW j \in Rounds, NEW b \in Amounts,
              SafeTransferFrom(u, v, i, a) \/ SafeBatchTransferFrom(u, v, i, a, j, b)
       PROVE  PrincipalHeld'
  <2>1. UNCHANGED <<roundState, supply, vaultAssets>>
    BY <1>12 DEF SafeTransferFrom, SafeBatchTransferFrom, tokenVars, roundVars
  <2> QED
    BY <1>10, <2>1
<1> QED
  BY <1>1, <1>2, <1>3, <1>4, <1>5, <1>6, <1>7, <1>8, <1>9, <1>11, <1>12
     DEF Next, UserStep, BatchStep, KeeperStep, GovernorStep

\* At every moment the underlying tokens in the vault are the principal of the
\* rounds that are not settled, part by part, so that no redemption of principal
\* and no settlement, of one round or of two, is refused for want of tokens or
\* takes those of another round.
THEOREM PrincipalIsBacked == Spec => [](PrincipalHeld /\ PrincipalCovered)
<1>1. Init => PrincipalHeld
  <2> SUFFICES ASSUME Init PROVE PrincipalHeld
    OBVIOUS
  <2>1. PrincipalOf = [id \in Rounds |-> 0] /\ vaultAssets = 0
    BY DEF Init, PrincipalOf
  <2>2. IsFiniteSet(Rounds)
    BY BoundAssumption, FS_Interval DEF Rounds
  <2> QED
    BY <2>1, <2>2, AddsUpEmpty DEF PrincipalHeld
<1>2. IInv /\ IInv' /\ PrincipalHeld /\ [Next]_vars => PrincipalHeld'
  BY PrincipalStep DEF IInv
<1>3. IInv /\ PrincipalHeld => PrincipalCovered
  BY HeldCovers DEF IInv
<1> QED
  BY <1>1, <1>2, <1>3, Invariant, PTL DEF Spec

\* The underlying tokens in the vault are, to the last one, the sum of the
\* supplies of the rounds that are not settled: no redemption, retry, rollback
\* or settlement leaves a round short of its principal or the vault with a rest.
THEOREM PrincipalSumsUp == Spec => []PrincipalBacked
<1>1. TypeOK /\ PrincipalHeld => PrincipalBacked
  <2> DEFINE unsettled == {id \in Rounds : roundState[id] # "Settled"}
  <2> SUFFICES ASSUME TypeOK, PrincipalHeld PROVE vaultAssets = SumOver(supply, unsettled)
    BY DEF PrincipalBacked
  <2>0. IsFiniteSet(Rounds)
    BY BoundAssumption, FS_Interval DEF Rounds
  <2>1. IsFiniteSet(Rounds) /\ unsettled \in SUBSET Rounds /\ IsFiniteSet(unsettled)
    BY <2>0, FS_Subset
  <2>2. PrincipalOf \in [Rounds -> Nat]
    BY DEF PrincipalOf, TypeOK
  <2>3. /\ \A id \in unsettled : PrincipalOf[id] = supply[id] /\ supply[id] \in Int
        /\ \A id \in Rounds \ unsettled : PrincipalOf[id] = 0
    BY DEF PrincipalOf, TypeOK
  <2> HIDE DEF unsettled
  <2>4. vaultAssets = SumOver(PrincipalOf, Rounds)
    BY <2>1, <2>2, AddsUpSum DEF PrincipalHeld
  <2>5. SumOver(PrincipalOf, Rounds) = SumOver(PrincipalOf, unsettled)
    BY <2>1, <2>3, SumWithin
  <2>6. SumOver(PrincipalOf, unsettled) = SumOver(supply, unsettled)
    BY <2>1, <2>3, SumAgrees
  <2> QED
    BY <2>4, <2>5, <2>6
<1>2. IInv => TypeOK
  BY DEF IInv
<1> QED
  BY <1>1, <1>2, Invariant, PrincipalIsBacked, PTL

---------------------------------------------------------------------------
(* The exchange tokens *)

\* The part of each round in the exchange tokens the vault holds: what its
\* trade brought in less what was paid, until its last receipt is gone.
ExchangeOf ==
    [id \in Rounds |-> IF roundState[id] = "Settled" /\ supply[id] > 0
                       THEN exchangeRate[id].baseAmount - paidOut[id] ELSE 0]

\* The parts add up to no more than the vault holds; what rounding leaves over
\* belongs to no round.
ExchangeHeld == \E total \in Nat : AddsUpTo(ExchangeOf, Rounds, total) /\ total <= vaultExchange

\* What the receipts of a settled round are worth.
Owed(id) == Quote(exchangeRate[id], supply[id])

\* What the receipts of one or of two settled rounds are worth is there.
ExchangeCovered ==
    /\ \A id \in Rounds : roundState[id] = "Settled" => Owed(id) <= vaultExchange
    /\ \A i, j \in Rounds :
          i # j /\ roundState[i] = "Settled" /\ roundState[j] = "Settled"
             => Owed(i) + Owed(j) <= vaultExchange

\* A quote of nothing is nothing.
LEMMA QuoteNothing ==
    ASSUME NEW base \in Nat, NEW quote \in Nat \ {0}
    PROVE  (0 * base) \div quote = 0
<1>1. 0 * base = 0
  OBVIOUS
<1>2. 0 \div quote = 0
  OBVIOUS
<1> QED
  BY <1>1, <1>2

\* What a solvent round has left is natural and covers what it owes.
LEMMA SolventLeft ==
    ASSUME NEW base \in Nat, NEW quote \in Nat \ {0}, NEW paid \in Nat, NEW left \in Nat,
           (base - paid) * quote >= left * base
    PROVE  base - paid \in Nat /\ (left * base) \div quote <= base - paid
<1>1. left * base \in Nat
  OBVIOUS
<1>2. base - paid \in Nat
  <2>1. (base - paid) * quote >= 0
    BY <1>1
  <2>2. ASSUME base - paid < 0 PROVE FALSE
    <3>1. base - paid <= -1
      BY <2>2
    <3>2. (base - paid) * quote <= -quote
      BY <3>1
    <3> QED
      BY <2>1, <3>2
  <2> QED
    BY <2>2
<1>3. (left * base) \div quote <= base - paid
  <2> DEFINE x == left * base
             y == base - paid
  <2>1. x \in Nat /\ y \in Nat /\ x <= y * quote
    BY <1>1, <1>2
  <2> HIDE DEF x, y
  <2>2. x \div quote \in Nat /\ quote * (x \div quote) <= x
    BY <2>1, DivBound
  <2>3. ASSUME x \div quote > y PROVE FALSE
    <3>1. x \div quote >= y + 1
      BY <2>1, <2>2, <2>3
    <3>2. quote * (x \div quote) >= quote * (y + 1)
      BY <2>1, <2>2, <3>1
    <3> QED
      BY <2>1, <2>2, <3>2
  <2>4. x \div quote <= y
    BY <2>1, <2>2, <2>3
  <2> QED
    BY <2>4 DEF x, y
<1> QED
  BY <1>2, <1>3

\* The parts of the rounds are natural and cover what the rounds owe.
LEMMA ExchangeParts ==
    ASSUME TypeOK, SettledRoundSolvent
    PROVE  /\ ExchangeOf \in [Rounds -> Nat]
           /\ \A id \in Rounds : roundState[id] = "Settled" =>
                 /\ exchangeRate[id].baseAmount - paidOut[id] \in Nat
                 /\ Owed(id) \in Nat /\ Owed(id) <= ExchangeOf[id]
<1>1. ASSUME NEW id \in Rounds, roundState[id] = "Settled"
      PROVE  /\ exchangeRate[id].baseAmount - paidOut[id] \in Nat
             /\ Owed(id) \in Nat /\ Owed(id) <= exchangeRate[id].baseAmount - paidOut[id]
             /\ supply[id] = 0 => Owed(id) = 0
  <2> DEFINE base == exchangeRate[id].baseAmount
             quote == exchangeRate[id].quoteAmount
             paid == paidOut[id]
             left == supply[id]
  <2>1. base \in Nat /\ quote \in Nat \ {0} /\ paid \in Nat /\ left \in Nat
    BY <1>1 DEF TypeOK, SettledRoundSolvent
  <2>2. (base - paid) * quote >= left * base
    BY <1>1 DEF SettledRoundSolvent
  <2>3. Owed(id) = (left * base) \div quote
    BY DEF Owed, Quote
  <2> HIDE DEF base, quote, paid, left
  <2>4. base - paid \in Nat /\ (left * base) \div quote <= base - paid
    BY <2>1, <2>2, SolventLeft
  <2>5. left * base \in Nat
    BY <2>1
  <2>6. (left * base) \div quote \in Nat
    BY <2>1, <2>5, DivBound
  <2>7. left = 0 => (left * base) \div quote = 0
    BY <2>1, QuoteNothing
  <2> QED
    BY <2>3, <2>4, <2>6, <2>7 DEF base, quote, paid, left
<1>2. \A id \in Rounds : supply[id] \in Nat
  BY DEF TypeOK
<1>3. ExchangeOf \in [Rounds -> Nat]
  BY <1>1 DEF ExchangeOf
<1> QED
  BY <1>1, <1>2, <1>3 DEF ExchangeOf

\* The parts of the rounds stay natural.
LEMMA ExchangePartsNext ==
    ASSUME TypeOK', SettledRoundSolvent'
    PROVE  /\ ExchangeOf' \in [Rounds -> Nat]
           /\ \A id \in Rounds : roundState'[id] = "Settled" =>
                 exchangeRate'[id].baseAmount - paidOut'[id] \in Nat
<1>1. ASSUME NEW id \in Rounds, roundState'[id] = "Settled"
      PROVE  exchangeRate'[id].baseAmount - paidOut'[id] \in Nat
  <2> DEFINE base == exchangeRate'[id].baseAmount
             quote == exchangeRate'[id].quoteAmount
             paid == paidOut'[id]
             left == supply'[id]
  <2>1. base \in Nat /\ quote \in Nat \ {0} /\ paid \in Nat /\ left \in Nat
    BY <1>1 DEF TypeOK, SettledRoundSolvent
  <2>2. (base - paid) * quote >= left * base
    BY <1>1 DEF SettledRoundSolvent
  <2> HIDE DEF base, quote, paid, left
  <2>3. base - paid \in Nat
    BY <2>1, <2>2, SolventLeft
  <2> QED
    BY <2>3 DEF base, paid
<1> QED
  BY <1>1 DEF ExchangeOf

\* The parts fit into the balance only when what the rounds owe is there.
LEMMA ExchangeHeldCovers ==
    ASSUME TypeOK, SettledRoundSolvent, ExchangeHeld PROVE ExchangeCovered
<1>1. PICK total \in Nat : AddsUpTo(ExchangeOf, Rounds, total) /\ total <= vaultExchange
  BY DEF ExchangeHeld
<1>2. ExchangeOf \in [Rounds -> Nat] /\ vaultExchange \in Nat
  BY ExchangeParts DEF TypeOK
<1>3. \A id \in Rounds : ExchangeOf[id] \in Nat /\ ExchangeOf[id] <= total
  BY <1>1, <1>2, AddsUpBound
<1>4. \A i, j \in Rounds : i # j => ExchangeOf[i] + ExchangeOf[j] <= total
  BY <1>1, <1>2, AddsUpPair
<1>5. \A id \in Rounds : roundState[id] = "Settled" =>
         Owed(id) \in Nat /\ Owed(id) <= ExchangeOf[id]
  BY ExchangeParts
<1> QED
  BY <1>1, <1>2, <1>3, <1>4, <1>5 DEF ExchangeCovered

\* When one part of a total changes, the total changes by as much.
LEMMA PartMoves ==
    ASSUME NEW f \in [Rounds -> Nat], NEW g \in [Rounds -> Nat], NEW total \in Nat,
           AddsUpTo(f, Rounds, total), NEW id \in Rounds,
           \A k \in Rounds \ {id} : g[k] = f[k]
    PROVE  /\ AddsUpTo(g, Rounds, total + (g[id] - f[id]))
           /\ total + (g[id] - f[id]) \in Nat
<1> DEFINE d == g[id] - f[id]
<1>1. d \in Int /\ f[id] + d = g[id] /\ g[id] >= 0
  OBVIOUS
<1> HIDE DEF d
<1>2. g = [f EXCEPT ![id] = @ + d] /\ f[id] + d >= 0
  BY <1>1
<1>3. AddsUpTo([f EXCEPT ![id] = @ + d], Rounds, total + d)
  BY <1>1, <1>2, AddsUpChange
<1>4. AddsUpTo(g, Rounds, total + d)
  BY <1>2, <1>3
<1>5. total + d \in Nat
  BY <1>4, AddsUpBound
<1> QED
  BY <1>4, <1>5 DEF d

\* The parts of at most two rounds change, and the balance at least as much.
LEMMA ExchangeMoves ==
    ASSUME TypeOK, SettledRoundSolvent, TypeOK', SettledRoundSolvent', ExchangeHeld,
           NEW i \in Rounds, NEW j \in Rounds,
           \A k \in Rounds \ {i, j} : ExchangeOf'[k] = ExchangeOf[k],
           vaultExchange' - vaultExchange
              >= IF i = j THEN ExchangeOf'[i] - ExchangeOf[i]
                 ELSE (ExchangeOf'[i] - ExchangeOf[i]) + (ExchangeOf'[j] - ExchangeOf[j])
    PROVE  ExchangeHeld'
<1> DEFINE f == ExchangeOf
           g == ExchangeOf'
           h == [f EXCEPT ![i] = g[i]]
<1>1. f \in [Rounds -> Nat] /\ g \in [Rounds -> Nat]
  BY ExchangeParts, ExchangePartsNext
<1>2. PICK total \in Nat : AddsUpTo(f, Rounds, total) /\ total <= vaultExchange
  BY DEF ExchangeHeld
<1>3. vaultExchange \in Nat /\ vaultExchange' \in Nat
  BY DEF TypeOK
<1>4. ASSUME NEW new \in Nat, AddsUpTo(g, Rounds, new), new <= vaultExchange'
      PROVE  ExchangeHeld'
  BY <1>4 DEF ExchangeHeld
<1>5. /\ \A k \in Rounds \ {i, j} : g[k] = f[k]
      /\ vaultExchange' - vaultExchange
            >= IF i = j THEN g[i] - f[i] ELSE (g[i] - f[i]) + (g[j] - f[j])
  OBVIOUS
<1> HIDE DEF f, g
<1>6. /\ h \in [Rounds -> Nat] /\ h[i] = g[i]
      /\ \A k \in Rounds \ {i} : h[k] = f[k]
  BY <1>1
<1> HIDE DEF h
<1> DEFINE once == total + (h[i] - f[i])
<1>7. AddsUpTo(h, Rounds, once) /\ once \in Nat
  BY <1>1, <1>2, <1>6, PartMoves
<1>8. CASE i = j
  <2>1. g = h
    BY <1>1, <1>5, <1>6, <1>8
  <2>2. once <= vaultExchange'
    BY <1>1, <1>2, <1>3, <1>5, <1>6, <1>8
  <2> QED
    BY <1>4, <1>7, <2>1, <2>2
<1>9. CASE i # j
  <2>1. \A k \in Rounds \ {j} : g[k] = h[k]
    BY <1>1, <1>5, <1>6
  <2> DEFINE twice == once + (g[j] - h[j])
  <2>2. twice <= vaultExchange'
    BY <1>1, <1>2, <1>3, <1>5, <1>6, <1>9
  <2> HIDE DEF once
  <2>3. AddsUpTo(g, Rounds, twice) /\ twice \in Nat
    BY <1>1, <1>6, <1>7, <2>1, PartMoves
  <2> HIDE DEF twice
  <2> QED
    BY <1>4, <2>2, <2>3
<1> QED
  BY <1>8, <1>9

\* A part changes neither when its round is not settled before and after, nor
\* when nothing is done to the round.
LEMMA ExchangeRests ==
    ASSUME NEW k \in Rounds,
           \/ roundState[k] # "Settled" /\ roundState'[k] # "Settled"
           \/ /\ roundState'[k] = roundState[k] /\ supply'[k] = supply[k]
              /\ exchangeRate'[k] = exchangeRate[k] /\ paidOut'[k] = paidOut[k]
    PROVE  ExchangeOf'[k] = ExchangeOf[k]
  BY DEF ExchangeOf

\* The part of a settled round shrinks by what is paid at least.
LEMMA ExchangeSpent ==
    ASSUME TypeOK, TypeOK', SettledRoundSolvent, SettledRoundSolvent', NEW k \in Rounds,
           roundState[k] = "Settled", roundState'[k] = "Settled",
           exchangeRate'[k] = exchangeRate[k], supply'[k] <= supply[k],
           supply[k] = 0 => paidOut'[k] = paidOut[k]
    PROVE  ExchangeOf'[k] - ExchangeOf[k] <= paidOut[k] - paidOut'[k]
<1> DEFINE base == exchangeRate[k].baseAmount
           paid == paidOut[k]
           now == paidOut'[k]
<1>1. /\ supply[k] \in Nat /\ supply'[k] \in Nat /\ paid \in Nat /\ now \in Nat
      /\ base \in Nat
  BY DEF TypeOK
<1>2. base - now \in Nat
  <2>1. exchangeRate'[k].baseAmount - paidOut'[k] \in Nat
    BY ExchangePartsNext
  <2> QED
    BY <2>1
<1>3. /\ ExchangeOf[k] = IF supply[k] > 0 THEN base - paid ELSE 0
      /\ ExchangeOf'[k] = IF supply'[k] > 0 THEN base - now ELSE 0
  BY DEF ExchangeOf
<1>4. supply[k] = 0 => now = paid
  OBVIOUS
<1> HIDE DEF base, paid, now
<1>5. ExchangeOf'[k] - ExchangeOf[k] <= paid - now
  BY <1>1, <1>2, <1>3, <1>4
<1> QED
  BY <1>5 DEF paid, now

\* Every step keeps the parts within the balance.
LEMMA ExchangeStep ==
    ASSUME IInv, IInv', ExchangeHeld, [Next]_vars
    PROVE  ExchangeHeld'
<1>0. /\ TypeOK /\ TypeOK' /\ SettledRoundSolvent /\ SettledRoundSolvent'
      /\ Ledgers /\ RoundsInOrder /\ RatesUsable /\ UnsettledUnpaid
      /\ roundNumber \in Rounds /\ roundState \in [Rounds -> RoundStates]
      /\ supply \in [Rounds -> Nat] /\ paidOut \in [Rounds -> Nat]
      /\ vaultExchange \in Nat /\ vaultExchange' \in Nat
      /\ \A a \in Amounts : a \in Nat
  BY SolventRates, BoundAssumption DEF IInv, TypeOK
<1>r. ASSUME UNCHANGED <<roundState, exchangeRate, paidOut, vaultExchange>>,
             \A k \in Rounds : roundState[k] = "Settled" => supply'[k] = supply[k]
      PROVE  ExchangeHeld'
  <2>1. \A k \in Rounds : ExchangeOf'[k] = ExchangeOf[k]
    BY <1>r, ExchangeRests
  <2>2. ExchangeOf[roundNumber] \in Nat
    BY <1>0, ExchangeParts
  <2> QED
    BY <1>0, <1>r, <2>1, <2>2, ExchangeMoves
<1>1. ASSUME NEW u \in Users, NEW v \in Users, NEW a \in Amounts, Deposit(u, v, a)
      PROVE  ExchangeHeld'
  <2>1. supply' = [supply EXCEPT ![roundNumber] = @ + a]
    BY <1>0, <1>1, DepositKeeps
  <2>2. UNCHANGED <<roundState, exchangeRate, paidOut, vaultExchange>>
    BY <1>1 DEF Deposit, roundVars
  <2>3. roundState[roundNumber] = "Opened"
    BY <1>0 DEF RoundsInOrder
  <2>4. \A k \in Rounds : roundState[k] = "Settled" => supply'[k] = supply[k]
    BY <1>0, <2>1, <2>3
  <2> QED
    BY <1>r, <2>2, <2>4
<1>2. ASSUME NEW u \in Users, NEW v \in Users, NEW id \in Rounds, NEW a \in Amounts,
             Redeem(u, v, id, a)
      PROVE  ExchangeHeld'
  <2>1. /\ roundState[id] = "Opened" /\ supply' = [supply EXCEPT ![id] = @ - a]
        /\ UNCHANGED <<roundState, exchangeRate, paidOut, vaultExchange>>
    BY <1>2 DEF Redeem, Redeemable, Burn, ReturnPrincipal, roundVars
  <2>2. \A k \in Rounds : roundState[k] = "Settled" => supply'[k] = supply[k]
    BY <1>0, <2>1
  <2> QED
    BY <1>r, <2>1, <2>2
<1>3. ASSUME NEW u \in Users, NEW v \in Users, NEW i \in Rounds, NEW a \in Amounts,
             NEW j \in Rounds, NEW b \in Amounts, RedeemBatch(u, v, i, a, j, b)
      PROVE  ExchangeHeld'
  <2>1. /\ roundState[i] = "Opened" /\ roundState[j] = "Opened"
        /\ supply' = [[supply EXCEPT ![i] = @ - a] EXCEPT ![j] = @ - b]
        /\ UNCHANGED <<roundState, exchangeRate, paidOut, vaultExchange>>
    BY <1>3 DEF RedeemBatch, Redeemable, BurnBatch, ReturnPrincipal, roundVars
  <2>2. \A k \in Rounds : roundState[k] = "Settled" => supply'[k] = supply[k]
    BY <1>0, <2>1
  <2> QED
    BY <1>r, <2>1, <2>2
<1>4. ASSUME NEW u \in Users, NEW v \in Users, NEW id \in Rounds, NEW a \in Amounts,
             RedeemExchangeAsset(u, v, id, a)
      PROVE  ExchangeHeld'
  <2> DEFINE out == Quote(exchangeRate[id], a)
  <2>1. /\ roundState[id] = "Settled" /\ Burn(u, id, a)
        /\ paidOut' = [paidOut EXCEPT ![id] = @ + out]
        /\ vaultExchange' = vaultExchange - out
        /\ UNCHANGED <<roundState, exchangeRate>>
    BY <1>4 DEF RedeemExchangeAsset, roundVars
  <2>2. supply' = [supply EXCEPT ![id] = @ - a] /\ a <= supply[id] /\ a \in Nat
    BY <1>0, <2>1, BurnKeeps
  <2>3. out \in Nat
    BY <1>0, <2>1, <2>2, QuoteType
  <2>4. supply[id] = 0 => out = 0
    BY <1>0, <2>1, <2>2, QuoteNothing DEF Quote, RatesUsable, TypeOK
  <2> HIDE DEF out
  <2>5. paidOut'[id] = paidOut[id] + out /\ supply'[id] = supply[id] - a
    BY <1>0, <2>1, <2>2
  <2>6. \A k \in Rounds \ {id} : ExchangeOf'[k] = ExchangeOf[k]
    BY <1>0, <2>1, <2>2, ExchangeRests
  <2>7. ExchangeOf'[id] - ExchangeOf[id] <= paidOut[id] - paidOut'[id]
    <3>1. supply'[id] <= supply[id] /\ (supply[id] = 0 => paidOut'[id] = paidOut[id])
      BY <1>0, <2>2, <2>3, <2>4, <2>5
    <3> QED
      BY <1>0, <2>1, <3>1, ExchangeSpent
  <2>8. ExchangeOf[id] \in Nat /\ ExchangeOf'[id] \in Nat
    BY <1>0, ExchangeParts, ExchangePartsNext
  <2>9. vaultExchange' - vaultExchange >= ExchangeOf'[id] - ExchangeOf[id]
    BY <1>0, <2>1, <2>3, <2>5, <2>7, <2>8
  <2> QED
    BY <1>0, <2>6, <2>9, ExchangeMoves
<1>5. ASSUME NEW u \in Users, NEW v \in Users, NEW i \in Rounds, NEW a \in Amounts,
             NEW j \in Rounds, NEW b \in Amounts, RedeemExchangeAssetBatch(u, v, i, a, j, b)
      PROVE  ExchangeHeld'
  <2> DEFINE out1 == Quote(exchangeRate[i], a)
             out2 == Quote(exchangeRate[j], b)
  <2>1. /\ roundState[i] = "Settled" /\ roundState[j] = "Settled" /\ BurnBatch(u, i, a, j, b)
        /\ paidOut' = [[paidOut EXCEPT ![i] = @ + out1] EXCEPT ![j] = @ + out2]
        /\ vaultExchange' = vaultExchange - (out1 + out2)
        /\ UNCHANGED <<roundState, exchangeRate>>
    BY <1>5 DEF RedeemExchangeAssetBatch, roundVars
  <2>2. /\ supply' = [[supply EXCEPT ![i] = @ - a] EXCEPT ![j] = @ - b]
        /\ a <= supply[i] /\ b <= [supply EXCEPT ![i] = @ - a][j]
        /\ a \in Nat /\ b \in Nat
    BY <1>0, <2>1, BurnBatchKeeps
  <2>3. out1 \in Nat /\ out2 \in Nat
    BY <1>0, <2>1, <2>2, QuoteType
  <2>4. /\ a = 0 => out1 = 0
        /\ b = 0 => out2 = 0
    BY <1>0, <2>1, <2>2, QuoteNothing DEF Quote, RatesUsable, TypeOK
  <2> HIDE DEF out1, out2
  <2>5. /\ supply'[i] <= supply[i] /\ supply'[j] <= supply[j]
        /\ supply[i] = 0 => a = 0 /\ (i = j => b = 0)
        /\ supply[j] = 0 => b = 0 /\ (i = j => a = 0)
    BY <1>0, <2>2
  <2>6. /\ i = j => paidOut'[i] = paidOut[i] + (out1 + out2)
        /\ i # j => paidOut'[i] = paidOut[i] + out1 /\ paidOut'[j] = paidOut[j] + out2
    BY <1>0, <2>1, <2>3
  <2>7. /\ supply[i] = 0 => paidOut'[i] = paidOut[i]
        /\ supply[j] = 0 => paidOut'[j] = paidOut[j]
    BY <1>0, <2>3, <2>4, <2>5, <2>6
  <2>8. /\ ExchangeOf'[i] - ExchangeOf[i] <= paidOut[i] - paidOut'[i]
        /\ ExchangeOf'[j] - ExchangeOf[j] <= paidOut[j] - paidOut'[j]
    BY <1>0, <2>1, <2>5, <2>7, ExchangeSpent
  <2>9. \A k \in Rounds \ {i, j} : ExchangeOf'[k] = ExchangeOf[k]
    BY <1>0, <2>1, <2>2, ExchangeRests
  <2>10. /\ ExchangeOf[i] \in Nat /\ ExchangeOf'[i] \in Nat
         /\ ExchangeOf[j] \in Nat /\ ExchangeOf'[j] \in Nat
         /\ paidOut[i] \in Nat /\ paidOut[j] \in Nat
    BY <1>0, ExchangeParts, ExchangePartsNext
  <2>11. vaultExchange' - vaultExchange
            >= IF i = j THEN ExchangeOf'[i] - ExchangeOf[i]
               ELSE (ExchangeOf'[i] - ExchangeOf[i]) + (ExchangeOf'[j] - ExchangeOf[j])
    BY <1>0, <2>1, <2>3, <2>6, <2>8, <2>10
  <2> QED
    BY <1>0, <2>9, <2>11, ExchangeMoves
<1>6. ASSUME NEW k \in Rounds, roundState[k] = "InSettlement", roundState'[k] = "Settled",
             exchangeRate'[k] = SettlementRate(k), supply' = supply, paidOut' = paidOut
      PROVE  /\ TargetOutput(supply[k]) \in Nat /\ ExchangeOf[k] = 0
             /\ ExchangeOf'[k] \in Nat /\ ExchangeOf'[k] <= TargetOutput(supply[k])
  <2>1. paidOut'[k] = 0 /\ ExchangeOf[k] = 0
    BY <1>0, <1>6 DEF UnsettledUnpaid, ExchangeOf
  <2>2. supply[k] > 0 => exchangeRate'[k].baseAmount = TargetOutput(supply[k])
    BY <1>6 DEF SettlementRate
  <2>3. TargetOutput(supply[k]) \in Nat
    BY <1>0, RateType
  <2>4. ExchangeOf'[k] = IF supply[k] > 0 THEN exchangeRate'[k].baseAmount - paidOut'[k] ELSE 0
    BY <1>6 DEF ExchangeOf
  <2> QED
    BY <1>0, <2>1, <2>2, <2>3, <2>4
<1>7. ASSUME NEW id \in Rounds, SetRoundSettled(id) PROVE ExchangeHeld'
  <2>1. /\ roundState[id] = "InSettlement"
        /\ roundState' = [roundState EXCEPT ![id] = "Settled"]
        /\ exchangeRate' = [exchangeRate EXCEPT ![id] = SettlementRate(id)]
        /\ supply' = supply /\ paidOut' = paidOut
        /\ vaultExchange' = vaultExchange + TargetOutput(supply[id])
    BY <1>7 DEF SetRoundSettled, receiptVars
  <2>2. roundState'[id] = "Settled" /\ exchangeRate'[id] = SettlementRate(id)
    BY <1>0, <2>1 DEF TypeOK
  <2>3. \A k \in Rounds \ {id} : ExchangeOf'[k] = ExchangeOf[k]
    BY <1>0, <2>1, ExchangeRests DEF TypeOK
  <2>4. vaultExchange' - vaultExchange >= ExchangeOf'[id] - ExchangeOf[id]
    BY <1>0, <1>6, <2>1, <2>2
  <2> QED
    BY <1>0, <2>3, <2>4, ExchangeMoves
<1>8. ASSUME NEW i \in Rounds, NEW j \in Rounds, SetRoundSettledBatch(i, j)
      PROVE  ExchangeHeld'
  <2>1. /\ i # j /\ roundState[i] = "InSettlement" /\ roundState[j] = "InSettlement"
        /\ roundState' = [roundState EXCEPT ![i] = "Settled", ![j] = "Settled"]
        /\ exchangeRate' = [exchangeRate EXCEPT ![i] = SettlementRate(i),
                                                ![j] = SettlementRate(j)]
        /\ supply' = supply /\ paidOut' = paidOut
        /\ vaultExchange' = vaultExchange + TargetOutput(supply[i]) + TargetOutput(supply[j])
    BY <1>8 DEF SetRoundSettledBatch, receiptVars
  <2>2. /\ roundState'[i] = "Settled" /\ exchangeRate'[i] = SettlementRate(i)
        /\ roundState'[j] = "Settled" /\ exchangeRate'[j] = SettlementRate(j)
    BY <1>0, <2>1 DEF TypeOK
  <2>3. \A k \in Rounds \ {i, j} : ExchangeOf'[k] = ExchangeOf[k]
    BY <1>0, <2>1, ExchangeRests DEF TypeOK
  <2>4. vaultExchange' - vaultExchange
           >= (ExchangeOf'[i] - ExchangeOf[i]) + (ExchangeOf'[j] - ExchangeOf[j])
    BY <1>0, <1>6, <2>1, <2>2
  <2> QED
    BY <1>0, <2>1, <2>3, <2>4, ExchangeMoves
<1>9. ASSUME UNCHANGED <<supply, vaultExchange, exchangeRate, paidOut>>,
             \A k \in Rounds : \/ roundState'[k] = roundState[k]
                               \/ roundState[k] # "Settled" /\ roundState'[k] # "Settled"
      PROVE  ExchangeHeld'
  <2>1. \A k \in Rounds : ExchangeOf'[k] = ExchangeOf[k]
    BY <1>9, ExchangeRests
  <2>2. ExchangeOf[roundNumber] \in Nat
    BY <1>0, ExchangeParts
  <2> QED
    BY <1>0, <1>9, <2>1, <2>2, ExchangeMoves
<1>10. CASE NextRound
  <2>1. roundNumber + 1 \in Rounds /\ roundNumber + 1 > roundNumber
    <3>1. roundNumber < MaxRound
      BY <1>10 DEF NextRound
    <3> QED
      BY <1>0, <3>1, BoundAssumption DEF Rounds
  <2>2. /\ roundState[roundNumber] = "Opened" /\ roundState[roundNumber + 1] = "NotOpened"
        /\ roundState' = [roundState EXCEPT ![roundNumber] = "InSettlement",
                                            ![roundNumber + 1] = "Opened"]
        /\ UNCHANGED <<supply, vaultExchange, exchangeRate, paidOut>>
    BY <1>0, <1>10, <2>1 DEF NextRound, receiptVars, tokenVars, RoundsInOrder
  <2> QED
    BY <1>0, <1>9, <2>2
<1>11. ASSUME NEW id \in Rounds, RetryRound(id) \/ EmergencyRollbackRound(id)
       PROVE  ExchangeHeld'
  <2>1. /\ roundState[id] # "Settled" /\ roundState'[id] # "Settled"
        /\ \A k \in Rounds \ {id} : roundState'[k] = roundState[k]
        /\ UNCHANGED <<supply, vaultExchange, exchangeRate, paidOut>>
    BY <1>0, <1>11 DEF RetryRound, Retriable, EmergencyRollbackRound, receiptVars, tokenVars
  <2> QED
    BY <1>9, <2>1
<1>12. CASE EnvironmentStep \/ UNCHANGED vars \/ \E m \in MinPositions : SetMinPositionSize(m)
  <2>1. UNCHANGED <<supply, vaultExchange, exchangeRate, paidOut, roundState>>
    BY <1>12 DEF EnvironmentStep, SetWhitelisted, TargetPriceMoves, TargetCloses,
       TargetOpens, SetMinPositionSize, receiptVars, tokenVars, roundVars, vars
  <2> QED
    BY <1>9, <2>1
<1>13. ASSUME NEW u \in Users, NEW v \in Users, NEW i \in Rounds, NEW a \in Amounts,
              NEW j \in Rounds, NEW b \in Amounts,
              SafeTransferFrom(u, v, i, a) \/ SafeBatchTransferFrom(u, v, i, a, j, b)
       PROVE  ExchangeHeld'
  <2>1. UNCHANGED <<supply, vaultExchange, exchangeRate, paidOut, roundState>>
    BY <1>13 DEF SafeTransferFrom, SafeBatchTransferFrom, tokenVars, roundVars
  <2> QED
    BY <1>9, <2>1
<1> QED
  BY <1>1, <1>2, <1>3, <1>4, <1>5, <1>7, <1>8, <1>10, <1>11, <1>12, <1>13
     DEF Next, UserStep, BatchStep, KeeperStep, GovernorStep

\* At every moment the exchange tokens in the vault cover what the receipts of
\* the settled rounds are worth, part by part, so that no claim, alone or in a
\* batch of two rounds, is refused for want of tokens or paid from another
\* round's trade, in whatever order and pieces the claims come.
THEOREM ExchangeIsBacked == Spec => [](ExchangeHeld /\ ExchangeCovered)
<1>1. Init => ExchangeHeld
  <2> SUFFICES ASSUME Init PROVE ExchangeHeld
    OBVIOUS
  <2>1. ExchangeOf = [id \in Rounds |-> 0] /\ vaultExchange = 0
    BY DEF Init, ExchangeOf
  <2>2. IsFiniteSet(Rounds)
    BY BoundAssumption, FS_Interval DEF Rounds
  <2>3. AddsUpTo([id \in Rounds |-> 0], Rounds, 0)
    BY <2>2, AddsUpEmpty
  <2> QED
    BY <2>1, <2>3 DEF ExchangeHeld
<1>2. IInv /\ IInv' /\ ExchangeHeld /\ [Next]_vars => ExchangeHeld'
  BY ExchangeStep
<1>3. IInv /\ ExchangeHeld => ExchangeCovered
  BY ExchangeHeldCovers DEF IInv
<1> QED
  BY <1>1, <1>2, <1>3, Invariant, PTL DEF Spec

\* The exchange tokens in the vault cover the claims of all receipts of all
\* settled rounds together, each claim rounded as the code rounds it.
THEOREM ExchangeSumsUp == Spec => []ExchangeBacked
<1>1. TypeOK /\ SettledRoundSolvent /\ ExchangeHeld => ExchangeBacked
  <2> DEFINE settled == {id \in Rounds : roundState[id] = "Settled"}
             owed    == [id \in settled |-> Quote(exchangeRate[id], supply[id])]
  <2> SUFFICES ASSUME TypeOK, SettledRoundSolvent, ExchangeHeld
               PROVE  vaultExchange >= SumOver(owed, settled)
    BY DEF ExchangeBacked
  <2>0. IsFiniteSet(Rounds)
    BY BoundAssumption, FS_Interval DEF Rounds
  <2>1. IsFiniteSet(Rounds) /\ settled \in SUBSET Rounds /\ IsFiniteSet(settled)
    BY <2>0, FS_Subset
  <2>2. ExchangeOf \in [Rounds -> Nat] /\ vaultExchange \in Nat
    BY ExchangeParts DEF TypeOK
  <2>3. \A id \in settled : owed[id] \in Int /\ owed[id] <= ExchangeOf[id]
    BY ExchangeParts DEF Owed
  <2> HIDE DEF settled, owed
  <2>4. PICK total \in Nat : AddsUpTo(ExchangeOf, Rounds, total) /\ total <= vaultExchange
    BY DEF ExchangeHeld
  <2>5. total = SumOver(ExchangeOf, Rounds)
    BY <2>1, <2>2, <2>4, AddsUpSum
  <2>6. \A id \in Rounds : ExchangeOf[id] \in Nat
    BY <2>2
  <2>7. SumOver(owed, settled) <= SumOver(ExchangeOf, Rounds)
    BY <2>1, <2>3, <2>6, SumLess
  <2>8. SumOver(owed, settled) \in Int
    BY <2>1, <2>3, SumInt
  <2> QED
    BY <2>2, <2>4, <2>5, <2>7, <2>8
<1>2. IInv => TypeOK /\ SettledRoundSolvent
  BY DEF IInv
<1> QED
  BY <1>1, <1>2, Invariant, ExchangeIsBacked, PTL

---------------------------------------------------------------------------
(* The minimum position *)

\* A position is natural after a step that keeps the types.
LEMMA PositionNext ==
    ASSUME TypeOK', NEW u \in Users
    PROVE  Position(u)' \in Nat
<1>1. /\ price' \in Prices /\ balanceOfAll'[u] \in Nat
      /\ exchangeWallet'[u] \in Nat /\ wallet'[u] \in Nat
  BY DEF TypeOK
<1>2. price'.num \in Nat \ {0} /\ price'.den \in Nat \ {0}
  BY <1>1, PriceAssumption, PricePositive
<1>3. TargetShares(u)' \in Nat
  BY <1>1 DEF TargetShares
<1>4. TargetShares(u)' * price'.num \in Nat
  BY <1>2, <1>3
<1>5. AssetsFor(TargetShares(u))' \in Nat
  BY <1>2, <1>4, DivBound DEF AssetsFor
<1> QED
  BY <1>1, <1>5 DEF Position

\* The check after a call measures every account it names that keeps receipts.
LEMMA Validated ==
    ASSUME TypeOK', NEW out \in Users \cup {NoOne}, NEW in \in Users \cup {NoOne},
           ValidateMinPosition(out, in), minPositionSize' = minPositionSize,
           NEW u \in Users, u \in {out, in}, balanceOfAll'[u] > 0
    PROVE  MeetsMinimum(u)'
<1>1. Position(u)' \in Nat /\ minPositionSize' \in Nat /\ u # NoOne
  BY PositionNext, UsersAssumption DEF TypeOK
<1>2. CASE minPositionSize = 0
  BY <1>1, <1>2 DEF MeetsMinimum
<1>3. CASE minPositionSize > 0
  <2>1. CASE u = out
    BY <1>1, <1>3, <2>1 DEF ValidateMinPosition
  <2>2. CASE u = in /\ u # out
    BY <1>1, <1>3, <2>2 DEF ValidateMinPosition
  <2> QED
    BY <2>1, <2>2
<1> QED
  BY <1>1, <1>2, <1>3

\* A position moves only with the tokens, the receipts or the price.
LEMMA PositionRests ==
    ASSUME NEW u \in Users, price' = price, balanceOfAll'[u] = balanceOfAll[u],
           TargetShares(u)' = TargetShares(u)
    PROVE  Position(u)' = Position(u)
  BY DEF Position, AssetsFor

\* No deposit, redemption, claim or transfer, by whom and in whatever batch,
\* leaves an account that keeps receipts with a position between nothing and the
\* minimum.
THEOREM MinPositionHolds == Spec => MinPositionKept
<1> DEFINE Kept == \A u \in Users :
                      (price' = price /\ minPositionSize' = minPositionSize
                          /\ Position(u)' # Position(u) /\ balanceOfAll'[u] > 0)
                         => MeetsMinimum(u)'
<1>1. IInv /\ IInv' /\ [Next]_vars => [Kept]_vars
  <2> SUFFICES ASSUME IInv, IInv', Next, NEW w \in Users, price' = price,
                      minPositionSize' = minPositionSize,
                      Position(w)' # Position(w), balanceOfAll'[w] > 0
               PROVE  MeetsMinimum(w)'
    OBVIOUS
  <2>0. /\ TypeOK' /\ balanceOfAll \in [Users -> Nat] /\ wallet \in [Users -> Nat]
        /\ exchangeWallet \in [Users -> Nat]
        /\ ~ (balanceOfAll'[w] = balanceOfAll[w] /\ TargetShares(w)' = TargetShares(w))
    BY PositionRests DEF IInv, TypeOK
  <2>1. ASSUME UNCHANGED <<balanceOfAll, wallet, exchangeWallet>> PROVE FALSE
    BY <2>0, <2>1 DEF TargetShares
  <2>2. ASSUME NEW u \in Users, NEW v \in Users, ValidateMinPosition(u, v), w \in {u, v}
        PROVE  MeetsMinimum(w)'
    BY <2>0, <2>2, Validated
  <2>3. ASSUME NEW u \in Users, NEW v \in Users, NEW a \in Amounts, Deposit(u, v, a)
        PROVE  MeetsMinimum(w)'
    <3>1. /\ balanceOfAll' = [balanceOfAll EXCEPT ![v] = @ + a]
          /\ wallet' = [wallet EXCEPT ![u] = @ - a] /\ exchangeWallet' = exchangeWallet
          /\ ValidateMinPosition(IF VaultType = "Input" THEN NoOne ELSE u, v)
      BY <2>3 DEF Deposit
    <3>2. w = v \/ (w = u /\ VaultType # "Input")
      BY <2>0, <3>1 DEF TargetShares
    <3> DEFINE out == IF VaultType = "Input" THEN NoOne ELSE u
    <3>3. out \in Users \cup {NoOne} /\ w \in {out, v} /\ ValidateMinPosition(out, v)
      BY <3>1, <3>2
    <3> HIDE DEF out
    <3> QED
      BY <2>0, <3>3, Validated
  <2>4. ASSUME NEW u \in Users, NEW v \in Users, NEW i \in Rounds, NEW a \in Amounts,
               NEW j \in Rounds, NEW b \in Amounts,
               \/ Redeem(u, v, i, a) \/ RedeemBatch(u, v, i, a, j, b)
               \/ RedeemExchangeAsset(u, v, i, a)
               \/ RedeemExchangeAssetBatch(u, v, i, a, j, b)
        PROVE  MeetsMinimum(w)'
    <3>1. /\ \A x \in Users \ {u} : balanceOfAll'[x] = balanceOfAll[x]
          /\ \A x \in Users \ {v} : wallet'[x] = wallet[x]
                                    /\ exchangeWallet'[x] = exchangeWallet[x]
          /\ ValidateMinPosition(u, v)
      BY <2>0, <2>4 DEF Redeem, RedeemBatch, RedeemExchangeAsset, RedeemExchangeAssetBatch,
         Burn, BurnBatch, ReturnPrincipal
    <3>2. w \in {u, v}
      BY <2>0, <3>1 DEF TargetShares
    <3> QED
      BY <2>2, <3>1, <3>2
  <2>5. ASSUME NEW u \in Users, NEW v \in Users, NEW i \in Rounds, NEW a \in Amounts,
               NEW j \in Rounds, NEW b \in Amounts,
               SafeTransferFrom(u, v, i, a) \/ SafeBatchTransferFrom(u, v, i, a, j, b)
        PROVE  MeetsMinimum(w)'
    <3>1. /\ \A x \in Users \ {u, v} : balanceOfAll'[x] = balanceOfAll[x]
          /\ wallet' = wallet /\ exchangeWallet' = exchangeWallet
          /\ ValidateMinPosition(u, v)
      BY <2>0, <2>5 DEF SafeTransferFrom, SafeBatchTransferFrom, tokenVars
    <3>2. w \in {u, v}
      BY <2>0, <3>1 DEF TargetShares
    <3> QED
      BY <2>2, <3>1, <3>2
  <2>6. CASE KeeperStep \/ GovernorStep \/ EnvironmentStep
    <3>1. UNCHANGED <<balanceOfAll, wallet, exchangeWallet>>
      BY <2>6 DEF KeeperStep, NextRound, RetryRound, SetRoundSettled, SetRoundSettledBatch,
         GovernorStep, EmergencyRollbackRound, SetMinPositionSize, EnvironmentStep,
         SetWhitelisted, TargetPriceMoves, TargetCloses, TargetOpens, receiptVars, tokenVars
    <3> QED
      BY <2>1, <3>1
  <2> QED
    BY <2>3, <2>4, <2>5, <2>6 DEF Next, UserStep, BatchStep
<1> QED
  BY <1>1, Invariant, PTL DEF Spec, MinPositionKept
---------------------------------------------------------------------------
(* What the holders and the keeper can do *)

\* Quotes that are rounded down one by one add up to no more than the quote of
\* the sum.
LEMMA QuotesWithin ==
    ASSUME NEW S, IsFiniteSet(S), NEW f, \A x \in S : f[x] \in Nat,
           NEW b \in Nat, NEW q \in Nat \ {0},
           NEW g, \A x \in S : g[x] = (f[x] * b) \div q
    PROVE  SumOver(g, S) \in Nat /\ SumOver(g, S) <= (SumOver(f, S) * b) \div q
<1> DEFINE h == [x \in S |-> f[x] * b]
           k == [x \in S |-> g[x] * q]
           F == SumOver(f, S)
           G == SumOver(g, S)
<1>1. ASSUME NEW x \in S
      PROVE  g[x] \in Nat /\ h[x] \in Nat /\ k[x] \in Int /\ k[x] <= h[x]
  <2> DEFINE y == f[x] * b
  <2>1. y \in Nat
    OBVIOUS
  <2>2. g[x] = y \div q /\ h[x] = y /\ k[x] = g[x] * q
    OBVIOUS
  <2> HIDE DEF y, h, k
  <2>3. g[x] \in Nat /\ q * (y \div q) <= y
    BY <2>1, <2>2, DivBound
  <2>4. g[x] * q \in Int /\ g[x] * q = q * g[x]
    BY <2>3
  <2> QED
    BY <2>1, <2>2, <2>3, <2>4
<1>2. F \in Nat /\ G \in Nat
  BY <1>1, SumNat
<1>3. SumOver(h, S) = F * b
  <2>1. \A x \in S : f[x] \in Int /\ h[x] = f[x] * b
    OBVIOUS
  <2> HIDE DEF h
  <2> QED
    BY <2>1, SumTimes
<1>4. SumOver(k, S) = G * q
  <2>1. \A x \in S : g[x] \in Int /\ k[x] = g[x] * q
    BY <1>1
  <2> HIDE DEF k
  <2> QED
    BY <2>1, SumTimes
<1>5. SumOver(k, S) <= SumOver(h, S)
  <2> HIDE DEF h, k
  <2> QED
    BY <1>1, SumLess
<1> HIDE DEF F, G, h, k
<1> DEFINE total == F * b
           quoted == total \div q
<1>6. total \in Nat /\ G * q <= total
  BY <1>2, <1>3, <1>4, <1>5
<1> HIDE DEF total
<1>7. quoted \in Nat /\ total < q * quoted + q
  BY <1>6, Division
<1> HIDE DEF quoted
<1>8. q * (quoted + 1) = q * quoted + q /\ G * q = q * G /\ q * G \in Nat /\ q * quoted \in Nat
  BY <1>2, <1>7
<1>9. q * G < q * (quoted + 1)
  BY <1>6, <1>7, <1>8
<1>10. G < quoted + 1
  BY <1>2, <1>7, <1>9, Cancel
<1> QED
  BY <1>2, <1>7, <1>10 DEF F, G, quoted, total

\* What the holders of a settled round are quoted one by one is part of what the
\* round owes.
LEMMA HoldersQuoted ==
    ASSUME TypeOK, ReceiptLedgersAgree, RatesUsable, NEW id \in Rounds,
           roundState[id] = "Settled"
    PROVE  LET claim == SumOver([u \in Users |-> Quote(exchangeRate[id], receipts[u][id])], Users)
           IN  claim \in Nat /\ claim <= Quote(exchangeRate[id], supply[id])
<1> DEFINE held == [u \in Users |-> receipts[u][id]]
           quoted == [u \in Users |-> Quote(exchangeRate[id], receipts[u][id])]
           b == exchangeRate[id].baseAmount
           q == exchangeRate[id].quoteAmount
<1>1. b \in Nat /\ q \in Nat \ {0} /\ IsFiniteSet(Users)
  BY UsersAssumption DEF TypeOK, RatesUsable
<1>2. \A u \in Users : held[u] \in Nat /\ quoted[u] = (held[u] * b) \div q
  BY DEF TypeOK, Quote
<1>3. supply[id] = SumOver(held, Users)
  BY DEF ReceiptLedgersAgree
<1>4. Quote(exchangeRate[id], supply[id]) = (SumOver(held, Users) * b) \div q
  BY <1>3 DEF Quote
<1> HIDE DEF held, quoted, b, q
<1>5. SumOver(quoted, Users) \in Nat
      /\ SumOver(quoted, Users) <= (SumOver(held, Users) * b) \div q
  BY <1>1, <1>2, QuotesWithin
<1> QED
  BY <1>4, <1>5 DEF quoted

\* The holders of all settled rounds can all be paid what they are quoted: the
\* vault has the tokens for every one of them, whatever was redeemed, batched or
\* transferred before.
THEOREM HoldersAreCovered == Spec => []HoldersCovered
<1>1. IInv /\ ReceiptLedgersAgree /\ ExchangeBacked => HoldersCovered
  <2> DEFINE settled == {id \in Rounds : roundState[id] = "Settled"}
             owed    == [id \in settled |-> Quote(exchangeRate[id], supply[id])]
             claims  == [id \in settled |->
                SumOver([u \in Users |-> Quote(exchangeRate[id], receipts[u][id])], Users)]
  <2> SUFFICES ASSUME IInv, ReceiptLedgersAgree, ExchangeBacked
               PROVE  vaultExchange >= SumOver(claims, settled)
    BY DEF HoldersCovered
  <2>1. TypeOK /\ RatesUsable
    BY SolventRates DEF IInv
  <2>2. vaultExchange \in Nat /\ vaultExchange >= SumOver(owed, settled)
    BY <2>1 DEF ExchangeBacked, TypeOK
  <2>3. IsFiniteSet(Rounds)
    BY BoundAssumption, FS_Interval DEF Rounds
  <2>4. IsFiniteSet(settled)
    BY <2>3, FS_Subset
  <2>5. ASSUME NEW id \in settled
        PROVE  owed[id] \in Nat /\ claims[id] \in Int /\ claims[id] <= owed[id]
    <3>1. /\ owed[id] = Quote(exchangeRate[id], supply[id])
          /\ claims[id] = SumOver([u \in Users |->
                                      Quote(exchangeRate[id], receipts[u][id])], Users)
          /\ id \in Rounds /\ roundState[id] = "Settled" /\ supply[id] \in Nat
      BY <2>1 DEF TypeOK
    <3>2. claims[id] \in Nat /\ claims[id] <= owed[id]
      BY <2>1, <3>1, HoldersQuoted
    <3>3. owed[id] \in Nat
      BY <2>1, <3>1, QuoteType
    <3> QED
      BY <3>2, <3>3
  <2> HIDE DEF settled, owed, claims
  <2>6. SumOver(claims, settled) <= SumOver(owed, settled)
    BY <2>4, <2>5, SumLess
  <2>7. SumOver(claims, settled) \in Int /\ SumOver(owed, settled) \in Int
    BY <2>4, <2>5, SumInt
  <2> QED
    BY <2>2, <2>6, <2>7
<1> QED
  BY <1>1, Invariant, ReceiptsAddUp, ExchangeSumsUp, PTL

\* What the vault holds for its rounds, besides what IInv says of them.
VaultInv == IInv /\ PrincipalCovered /\ ExchangeCovered

\* Every reachable state satisfies it.
THEOREM VaultHolds == Spec => []VaultInv
<1> QED
  BY Invariant, PrincipalIsBacked, ExchangeIsBacked, PTL DEF VaultInv

\* The state after an owner has been paid for receipts of a settled round.
ClaimPaid(owner, id, amount) ==
    LET out == Quote(exchangeRate[id], amount) IN
    /\ receipts' = Burned(receipts, owner, id, amount)
    /\ supply' = [supply EXCEPT ![id] = @ - amount]
    /\ balanceOfAll' = [balanceOfAll EXCEPT ![owner] = @ - amount]
    /\ exchangeWallet' = [exchangeWallet EXCEPT ![owner] = @ + out]
    /\ vaultExchange' = vaultExchange - out
    /\ paidOut' = [paidOut EXCEPT ![id] = @ + out]
    /\ UNCHANGED <<wallet, vaultAssets, roundVars, configVars, targetVars>>

\* The state after an owner has taken principal back from an open round.
PrincipalPaid(owner, id, amount) ==
    /\ receipts' = Burned(receipts, owner, id, amount)
    /\ supply' = [supply EXCEPT ![id] = @ - amount]
    /\ balanceOfAll' = [balanceOfAll EXCEPT ![owner] = @ - amount]
    /\ wallet' = [wallet EXCEPT ![owner] = @ + amount]
    /\ vaultAssets' = vaultAssets - amount
    /\ UNCHANGED <<exchangeWallet, vaultExchange, paidOut, roundVars, configVars, targetVars>>

\* The only thing validateMinPosition may hold against a redemption to oneself:
\* that it leaves receipts and too small a position.
LeavesTooLittle(owner, amount) ==
    /\ minPositionSize > 0 /\ amount # balanceOfAll[owner]
    /\ ~MeetsMinimum(owner)'

\* Quotes grow with the amount.
LEMMA QuoteGrows ==
    ASSUME NEW base \in Nat, NEW quote \in Nat \ {0}, NEW x \in Nat, NEW y \in Nat, x <= y
    PROVE  (x * base) \div quote <= (y * base) \div quote
<1>1. PICK d \in Nat : y = x + d
  <2>1. y - x \in Nat /\ y = x + (y - x)
    OBVIOUS
  <2> QED
    BY <2>1
<1> DEFINE a == x * base
           b == y * base
           p == a \div quote
           r == b \div quote
<1>2. a \in Nat /\ b \in Nat /\ a <= b
  <2>1. y * base = x * base + d * base /\ x * base \in Nat /\ d * base \in Nat
    BY <1>1
  <2> QED
    BY <2>1
<1> HIDE DEF a, b
<1>3. /\ p \in Nat /\ quote * p <= a
      /\ r \in Nat /\ b < quote * r + quote
  BY <1>2, Division
<1> HIDE DEF p, r
<1>4. quote * (r + 1) = quote * r + quote /\ quote * p \in Nat /\ quote * r \in Nat
  BY <1>3
<1>5. quote * p < quote * (r + 1)
  BY <1>2, <1>3, <1>4
<1>6. p < r + 1
  BY <1>3, <1>5, Cancel
<1> QED
  BY <1>3, <1>6 DEF a, b, p, r

\* The check after a redemption to oneself that does not leave too little.
LEMMA RedemptionValidated ==
    ASSUME TypeOK, NEW owner \in Users, NEW amount \in Nat,
           balanceOfAll' = [balanceOfAll EXCEPT ![owner] = @ - amount],
           ~LeavesTooLittle(owner, amount)
    PROVE  ValidateMinPosition(owner, owner)
<1>1. balanceOfAll[owner] \in Nat /\ balanceOfAll'[owner] = balanceOfAll[owner] - amount
  BY DEF TypeOK
<1>2. amount = balanceOfAll[owner] => ~(balanceOfAll'[owner] > 0)
  BY <1>1
<1> QED
  BY <1>2 DEF ValidateMinPosition, LeavesTooLittle

\* A claim on a settled round is always paid: whatever the other holders and the
\* other rounds did before, the redemption of any part of one's receipts succeeds
\* for a whitelisted owner, unless it leaves him with too small a position.
THEOREM ClaimsArePaid ==
    ASSUME VaultInv, NEW owner \in whitelisted, NEW id \in Rounds, roundState[id] = "Settled",
           NEW amount \in 0..receipts[owner][id], ClaimPaid(owner, id, amount),
           ~LeavesTooLittle(owner, amount)
    PROVE  RedeemExchangeAsset(owner, owner, id, amount)
<1> DEFINE out == Quote(exchangeRate[id], amount)
<1>1. TypeOK /\ Ledgers /\ RoundsInOrder /\ RatesUsable /\ ExchangeCovered
  BY SolventRates DEF VaultInv, IInv
<1>2. owner \in Users /\ {owner, owner} \subseteq whitelisted
  BY <1>1 DEF TypeOK
<1>3. /\ receipts[owner][id] \in Nat /\ supply[id] \in Nat
      /\ receipts[owner][id] <= supply[id]
  BY <1>1, <1>2, LedgersBound DEF Ledgers
<1>4. amount \in Nat /\ amount <= receipts[owner][id] /\ amount <= supply[id]
  BY <1>3
<1>5. id < roundNumber
  <2>1. roundState[roundNumber] = "Opened" /\ ~(id > roundNumber)
    BY <1>1 DEF RoundsInOrder
  <2>2. id # roundNumber /\ id \in Int /\ roundNumber \in Int
    BY <1>1, <2>1 DEF TypeOK, Rounds
  <2> QED
    BY <2>1, <2>2
<1>6. vaultExchange >= out
  <2>1. exchangeRate[id].baseAmount \in Nat /\ exchangeRate[id].quoteAmount \in Nat \ {0}
    BY <1>1 DEF TypeOK, RatesUsable
  <2>2. out <= Owed(id)
    BY <1>3, <1>4, <2>1, QuoteGrows DEF Quote, Owed
  <2>3. out \in Nat /\ Owed(id) \in Nat /\ vaultExchange \in Nat /\ Owed(id) <= vaultExchange
    BY <1>1, <1>3, <1>4, QuoteType DEF Owed, ExchangeCovered, TypeOK
  <2> QED
    BY <2>2, <2>3
<1>7. Burn(owner, id, amount)
  BY <1>3, <1>4 DEF ClaimPaid, Burn
<1>8. ValidateMinPosition(owner, owner)
  BY <1>1, <1>2, <1>4, RedemptionValidated DEF ClaimPaid
<1> QED
  BY <1>2, <1>5, <1>6, <1>7, <1>8 DEF ClaimPaid, RedeemExchangeAsset, roundVars, configVars,
     targetVars

\* Principal in an open round, the current one or one that was rolled back, can
\* always be taken back, in parts or as a whole.
THEOREM PrincipalIsReturned ==
    ASSUME VaultInv, NEW owner \in whitelisted, NEW id \in Rounds, roundState[id] = "Opened",
           NEW amount \in 0..receipts[owner][id], PrincipalPaid(owner, id, amount),
           ~LeavesTooLittle(owner, amount)
    PROVE  Redeem(owner, owner, id, amount)
<1>1. TypeOK /\ Ledgers /\ PrincipalCovered
  BY DEF VaultInv, IInv
<1>2. owner \in Users /\ {owner, owner} \subseteq whitelisted
  BY <1>1 DEF TypeOK
<1>3. /\ receipts[owner][id] \in Nat /\ supply[id] \in Nat /\ balanceOfAll[owner] \in Nat
      /\ receipts[owner][id] <= supply[id] /\ receipts[owner][id] <= balanceOfAll[owner]
  BY <1>1, <1>2, LedgersBound DEF Ledgers
<1>4. /\ amount \in Nat /\ amount <= receipts[owner][id] /\ amount <= supply[id]
      /\ amount <= balanceOfAll[owner]
  BY <1>3
<1>5. vaultAssets >= amount
  <2>1. supply[id] <= vaultAssets /\ vaultAssets \in Nat
    BY <1>1 DEF PrincipalCovered, TypeOK
  <2> QED
    BY <1>3, <1>4, <2>1
<1>6. Burn(owner, id, amount)
  BY <1>3, <1>4 DEF PrincipalPaid, Burn
<1>7. ValidateMinPosition(owner, owner)
  BY <1>1, <1>2, <1>4, RedemptionValidated DEF PrincipalPaid
<1>8. ReturnPrincipal(owner, amount)
  BY DEF PrincipalPaid, ReturnPrincipal
<1> QED
  BY <1>2, <1>4, <1>5, <1>6, <1>7, <1>8 DEF PrincipalPaid, Redeem, Redeemable, roundVars,
     configVars, targetVars

\* The state after a round has been settled against the target vault.
RoundTraded(id) ==
    /\ roundState' = [roundState EXCEPT ![id] = "Settled"]
    /\ exchangeRate' = [exchangeRate EXCEPT ![id] = SettlementRate(id)]
    /\ vaultAssets' = vaultAssets - supply[id]
    /\ vaultExchange' = vaultExchange + TargetOutput(supply[id])
    /\ UNCHANGED <<roundNumber, rollbacks, wallet, exchangeWallet, paidOut>>
    /\ UNCHANGED <<receiptVars, configVars, targetVars>>

\* The state after a round that was rolled back has been closed again.
Locks(id) ==
    /\ roundState' = [roundState EXCEPT ![id] = "InSettlement"]
    /\ UNCHANGED <<roundNumber, exchangeRate, rollbacks>>
    /\ UNCHANGED <<receiptVars, tokenVars, configVars, targetVars>>

\* The vault never stops the keeper: a closed round is settled, or in settlement
\* and settled by a call the target vault accepts, or rolled back and closed again
\* by a retry.  With the fairness of FairSpec this is why ClosedRoundsSettle holds.
THEOREM KeeperIsNeverBlocked ==
    ASSUME VaultInv, NEW id \in Rounds, id < roundNumber
    PROVE  \/ roundState[id] = "Settled"
           \/ /\ roundState[id] = "InSettlement"
              /\ TargetAccepts(id) /\ RoundTraded(id) => SetRoundSettled(id)
           \/ /\ roundState[id] = "Opened"
              /\ Locks(id) => RetryRound(id)
<1>1. TypeOK /\ RoundsInOrder /\ PrincipalCovered
  BY DEF VaultInv, IInv
<1>2. roundState[id] \in {"Opened", "InSettlement", "Settled"}
  <2>1. roundState[id] \in RoundStates /\ id \in Int /\ roundNumber \in Int
    <3>1. roundState[id] \in RoundStates /\ roundNumber \in Rounds
      BY <1>1 DEF TypeOK
    <3> QED
      BY <3>1 DEF Rounds
  <2>2. ~(id > roundNumber)
    BY <2>1
  <2>3. roundState[id] # "NotOpened"
    BY <1>1, <2>2 DEF RoundsInOrder
  <2> QED
    BY <2>1, <2>3 DEF RoundStates
<1>3. ASSUME roundState[id] = "InSettlement", TargetAccepts(id), RoundTraded(id)
      PROVE  SetRoundSettled(id)
  <2>1. vaultAssets >= supply[id]
    BY <1>1, <1>3 DEF PrincipalCovered, TypeOK
  <2> QED
    BY <1>3, <2>1 DEF RoundTraded, SetRoundSettled
<1>4. ASSUME roundState[id] = "Opened", Locks(id)
      PROVE  RetryRound(id)
  BY <1>4 DEF Locks, RetryRound, Retriable
<1> QED
  BY <1>2, <1>3, <1>4
=============================================================================
