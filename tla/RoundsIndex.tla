---------------------------- MODULE RoundsIndex ----------------------------
(***************************************************************************)
(* The rounds vault together with the registry it is announced in and the  *)
(* index the institutions subgraph keeps of it.                            *)
(*                                                                         *)
(* RoundsVaultRegistry is a second contract: its owner registers a pair of *)
(* rounds vaults for a fleet, and may set, clear, deactivate and           *)
(* reactivate it.  The subgraph starts to follow a vault when the registry *)
(* names it, which may be long after the vault started to take deposits:   *)
(* the events of before are never seen.  From then on its handlers run     *)
(* over the events of every transaction in order, so one transaction and   *)
(* the handlers of its events are one action here.  The gross counters     *)
(* totalMinted, totalBurned and underlyingRedeemed of a receipt, the rows  *)
(* of single transfers and the time stamps are left out: nothing reads     *)
(* them back.                                                              *)
(*                                                                         *)
(* A handler is an operator from the index to the index; the handlers of   *)
(* one transaction are nested, the first event innermost.                  *)
(***************************************************************************)
EXTENDS RoundsVault

CONSTANTS
    MaxQueued,      \* bound: deposits of one round the index counts up to
    MaxRegistry     \* bound: calls of the registry's owner

ASSUME IndexBounds == MaxQueued \in Nat /\ MaxRegistry \in Nat

VARIABLES
    pair,           \* the registry's record: [exists, vault, active]
    registryCalls,  \* calls of the owner so far (counts up to MaxRegistry)
    pairRow,        \* the RoundsVaultPair row: [exists, vault, active]
    index,          \* the RoundsVault row with its Round and Receipt rows
    fromStart       \* history: the vault was registered before its first deposit

registryVars == <<pair, registryCalls>>
indexVars    == <<pairRow, index, fromStart>>
allVars      == <<vars, registryVars, indexVars>>

NoPair == [exists |-> FALSE, vault |-> FALSE, active |-> FALSE]

\* A Round row; `known' says whether it is stored.  The nullable columns are
\* NoRate and 0 while they are null.
NoRound == [known |-> FALSE, state |-> "Opened", rate |-> NoRate, receiptSupply |-> 0,
            depositsQueued |-> 0, depositsRedeemed |-> 0, exchangeAssetWithdrawn |-> 0,
            settledUnderlying |-> 0, settledExchange |-> 0, retriedCount |-> 0,
            rolledBack |-> FALSE]

NoReceipt == [balance |-> 0, redeemedForExchange |-> 0, exchangeReceived |-> 0]

EmptyIndex == [known |-> FALSE, currentRound |-> 0, minPositionSize |-> 0,
               round |-> [id \in Rounds |-> NoRound],
               receipt |-> [u \in Users |-> [id \in Rounds |-> NoReceipt]]]

---------------------------------------------------------------------------
(* The store: getOrCreateRound and the columns of a row *)

\* getOrCreateRound: a row that is missing is stored as an open, empty round.
Touched(ix, id) == [ix EXCEPT !.round[id].known = TRUE]

\* A handler of a vault the index does not know does nothing.
IfKnown(ix, handled) == IF ix.known THEN handled ELSE ix

---------------------------------------------------------------------------
(* utils/receipt.ts *)

\* Slip: the receiver's row is computed from what was stored before the
\* sender's was saved.
ApplyReceiptTransferStale(ix, from, to, id, amount) ==
    LET opened == Touched(ix, id)
        sent == IF from = NoOne THEN opened
                ELSE [opened EXCEPT !.receipt[from][id].balance = @ - amount]
        received == IF to = NoOne THEN sent
                    ELSE [sent EXCEPT !.receipt[to][id].balance =
                                          ix.receipt[to][id].balance + amount]
    IN IfKnown(ix, [received EXCEPT !.round[id].receiptSupply =
                        @ + (IF from = NoOne THEN amount ELSE 0)
                          - (IF from # NoOne /\ to = NoOne THEN amount ELSE 0)])

ApplyReceiptTransfer(ix, from, to, id, amount) ==
    LET opened == Touched(ix, id)
        sent == IF from = NoOne THEN opened
                ELSE [opened EXCEPT !.receipt[from][id].balance = @ - amount]
        received == IF to = NoOne THEN sent
                    ELSE [sent EXCEPT !.receipt[to][id].balance = @ + amount]
    IN IfKnown(ix, [received EXCEPT !.round[id].receiptSupply =
                        @ + (IF from = NoOne THEN amount ELSE 0)
                          - (IF from # NoOne /\ to = NoOne THEN amount ELSE 0)])

\* Slip: the round is left out.
MarkUnderlyingRedemptionRowOnly(ix, owner, id, amount) == IfKnown(ix, Touched(ix, id))

MarkUnderlyingRedemption(ix, owner, id, amount) ==
    IfKnown(ix, [Touched(ix, id) EXCEPT !.round[id].depositsRedeemed = @ + amount])

MarkExchangeAssetRedemption(ix, owner, id, amount, exchangeAmount) ==
    IfKnown(ix, [Touched(ix, id) EXCEPT
                    !.receipt[owner][id].redeemedForExchange = @ + amount,
                    !.receipt[owner][id].exchangeReceived = @ + exchangeAmount,
                    !.round[id].exchangeAssetWithdrawn = @ + exchangeAmount])

\* The part of a batch the index works out for one round: its stored rate, or
\* nothing when it has seen no settlement of the round.
IndexedPart(ix, id, amount) ==
    LET rate == ix.round[id].rate IN
    IF rate.quoteAmount = 0 THEN 0 ELSE (amount * rate.baseAmount) \div rate.quoteAmount

\* Slip: what the parts leave of the total is dropped.
MarkBatchNoDust(ix, owner, id1, amount1, id2, amount2, total) ==
    LET part1 == IndexedPart(ix, id1, amount1)
        part2 == IndexedPart(ix, id2, amount2)
    IN MarkExchangeAssetRedemption(MarkExchangeAssetRedemption(ix, owner, id1, amount1, part1),
                                   owner, id2, amount2, part2)

\* What the parts leave of the total that was paid goes to the last row.
MarkExchangeAssetRedemptionBatch(ix, owner, id1, amount1, id2, amount2, total) ==
    LET part1 == IndexedPart(ix, id1, amount1)
    IN MarkExchangeAssetRedemption(MarkExchangeAssetRedemption(ix, owner, id1, amount1, part1),
                                   owner, id2, amount2, total - part1)

---------------------------------------------------------------------------
(* utils/lifecycle.ts *)

ApplyDepositWithReceipt(ix, id, assets) ==
    IfKnown(ix, [Touched(ix, id) EXCEPT !.round[id].depositsQueued = @ + assets])

\* Slip: the closed round is left as it was.
ApplyRoundAdvancedOpenOnly(ix, closing) ==
    IfKnown(ix, [Touched(Touched(ix, closing), closing + 1) EXCEPT
                    !.round[closing + 1].state = "Opened",
                    !.currentRound = closing + 1])

ApplyRoundAdvanced(ix, closing) ==
    IfKnown(ix, [Touched(Touched(ix, closing), closing + 1) EXCEPT
                    !.round[closing].state = "InSettlement",
                    !.round[closing + 1].state = "Opened",
                    !.currentRound = closing + 1])

ApplyRoundSettled(ix, id, rate) ==
    IfKnown(ix, [Touched(ix, id) EXCEPT !.round[id].state = "Settled",
                                        !.round[id].rate = rate])

\* handleAssetsDeposited and handleSharesRedeemed: the target vault is only
\* called, and the event only emitted, for a round that is not empty; a round
\* that is not stored is passed over.
HandleTargetTrade(ix, id, underlying, exchange) ==
    IfKnown(ix, IF underlying > 0 /\ ix.round[id].known
                THEN [ix EXCEPT !.round[id].settledUnderlying = underlying,
                                !.round[id].settledExchange = exchange]
                ELSE ix)

ApplyRoundRetried(ix, id) ==
    IfKnown(ix, [Touched(ix, id) EXCEPT !.round[id].state = "InSettlement",
                                        !.round[id].retriedCount = @ + 1])

ApplyEmergencyRollback(ix, id) ==
    IfKnown(ix, [Touched(ix, id) EXCEPT !.round[id].state = "Opened",
                                        !.round[id].rolledBack = TRUE])

ApplyMinPositionSize(ix, newMin) == IfKnown(ix, [ix EXCEPT !.minPositionSize = newMin])

---------------------------------------------------------------------------
(* mappings/registry.ts *)

\* Slip: the row is written anew each time the registry names the vault.
CreateRoundsVaultAnew(ix) ==
    Touched([EmptyIndex EXCEPT !.known = TRUE, !.minPositionSize = minPositionSize], 0)

\* createRoundsVault: a row that exists is returned as it is.  Of the state of
\* the vault only minPositionSize is read by call; the round is taken to be 0.
CreateRoundsVault(ix) ==
    IF ix.known THEN ix
    ELSE Touched([EmptyIndex EXCEPT !.known = TRUE, !.minPositionSize = minPositionSize], 0)

\* The registry's owner registers the fleet's pair, perhaps without this vault.
RegisterPair(v) ==
    /\ ~pair.exists
    /\ pair' = [exists |-> TRUE, vault |-> v, active |-> TRUE]
    /\ pairRow' = pair'
    /\ index' = IF v = "this" THEN CreateRoundsVault(index) ELSE index

\* setInputVault or setOutputVault.  The row is compared with the vault named.
SetVault(v) ==
    /\ pair.exists /\ v # "none"
    /\ pair' = [pair EXCEPT !.vault = v]
    /\ pairRow' = [pairRow EXCEPT !.vault = v]
    /\ index' = IF pairRow.vault # v /\ v = "this" THEN CreateRoundsVault(index) ELSE index

\* clearInputVault or clearOutputVault; the other vault of the pair is taken to
\* be there.  The event carries the zero address, which the handler passes over.
ClearVault ==
    /\ pair.exists
    /\ pair' = [pair EXCEPT !.vault = "none"]
    /\ UNCHANGED <<pairRow, index>>

SetActive(b) ==
    /\ pair.exists /\ pair.active # b
    /\ pair' = [pair EXCEPT !.active = b]
    /\ pairRow' = [pairRow EXCEPT !.active = b]
    /\ UNCHANGED index

RegistryStep ==
    /\ registryCalls < MaxRegistry
    /\ \/ \E v \in {"none", "this", "other"} : RegisterPair(v) \/ SetVault(v)
       \/ ClearVault
       \/ \E b \in BOOLEAN : SetActive(b)
    /\ registryCalls' = registryCalls + 1
    /\ UNCHANGED <<vars, fromStart>>

---------------------------------------------------------------------------
(* Transactions of the vault with the handlers of their events *)

IndexedUserStep ==
    \E u, v \in Users, a \in Amounts :
        \/ /\ index.round[MintId].depositsQueued + a <= MaxQueued
           /\ Deposit(u, v, a)
           /\ index' = ApplyDepositWithReceipt(
                          ApplyReceiptTransfer(index, NoOne, v, MintId, a), MintId, a)
        \/ \E id \in Rounds :
            \/ /\ Redeem(u, v, id, a)
               /\ index' = MarkUnderlyingRedemption(
                              ApplyReceiptTransfer(index, u, NoOne, id, a), u, id, a)
            \/ /\ RedeemExchangeAsset(u, v, id, a)
               /\ index' = MarkExchangeAssetRedemption(
                              ApplyReceiptTransfer(index, u, NoOne, id, a),
                              u, id, a, Quote(exchangeRate[id], a))
            \/ /\ SafeTransferFrom(u, v, id, a)
               /\ index' = ApplyReceiptTransfer(index, u, v, id, a)

\* TransferBatch of two entries.
ApplyTransferBatch(ix, from, to, i, a, j, b) ==
    ApplyReceiptTransfer(ApplyReceiptTransfer(ix, from, to, i, a), from, to, j, b)

\* An empty entry of a batch does no more than an empty transfer: left out.
IndexedBatchStep ==
    \E u, v \in Users, a, b \in Amounts \ {0}, i, j \in Rounds :
        \/ /\ RedeemBatch(u, v, i, a, j, b)
           /\ index' = MarkUnderlyingRedemption(
                          MarkUnderlyingRedemption(
                              ApplyTransferBatch(index, u, NoOne, i, a, j, b), u, i, a),
                          u, j, b)
        \/ /\ RedeemExchangeAssetBatch(u, v, i, a, j, b)
           /\ index' = MarkExchangeAssetRedemptionBatch(
                          ApplyTransferBatch(index, u, NoOne, i, a, j, b), u, i, a, j, b,
                          Quote(exchangeRate[i], a) + Quote(exchangeRate[j], b))
        \/ /\ SafeBatchTransferFrom(u, v, i, a, j, b)
           /\ index' = ApplyTransferBatch(index, u, v, i, a, j, b)

\* The events of _setRoundSettled: the trade, then RoundSettled.
IndexSettled(ix, id) ==
    ApplyRoundSettled(HandleTargetTrade(ix, id, supply[id], TargetOutput(supply[id])),
                      id, SettlementRate(id))

IndexedKeeperStep ==
    \/ NextRound /\ index' = ApplyRoundAdvanced(index, roundNumber)
    \/ \E id \in Rounds :
        \/ RetryRound(id) /\ index' = ApplyRoundRetried(index, id)
        \/ SetRoundSettled(id) /\ index' = IndexSettled(index, id)
    \/ \E i, j \in Rounds :
        SetRoundSettledBatch(i, j) /\ index' = IndexSettled(IndexSettled(index, i), j)

IndexedGovernorStep ==
    \/ \E id \in Rounds : EmergencyRollbackRound(id) /\ index' = ApplyEmergencyRollback(index, id)
    \/ \E m \in MinPositions : SetMinPositionSize(m) /\ index' = ApplyMinPositionSize(index, m)

VaultStep ==
    /\ \/ IndexedUserStep \/ IndexedBatchStep \/ IndexedKeeperStep \/ IndexedGovernorStep
       \/ EnvironmentStep /\ UNCHANGED index
    /\ UNCHANGED <<registryVars, pairRow, fromStart>>

\* The vault is registered when it is made, or left to be registered later.
IndexInit ==
    /\ Init
    /\ fromStart \in BOOLEAN
    /\ pair = IF fromStart THEN [exists |-> TRUE, vault |-> "this", active |-> TRUE]
                           ELSE NoPair
    /\ pairRow = pair
    /\ registryCalls = 0
    /\ index = IF fromStart THEN CreateRoundsVault(EmptyIndex) ELSE EmptyIndex

IndexSpec == IndexInit /\ [][VaultStep \/ RegistryStep]_allVars

---------------------------------------------------------------------------
(* Properties *)

\* Whenever the vault is registered, and whatever was missed before, the index
\* follows the receipts from then on: each transaction, a batch over one round
\* twice and a transfer to oneself among them, changes every stored balance and
\* the stored supply of every round by what it changes on the chain.
IndexFollowsReceipts ==
    [][index.known =>
        \A id \in Rounds :
            /\ index'.round[id].receiptSupply - index.round[id].receiptSupply
                  = supply'[id] - supply[id]
            /\ \A u \in Users : index'.receipt[u][id].balance - index.receipt[u][id].balance
                                  = receipts'[u][id] - receipts[u][id]]_allVars

\* An index that knew the vault from its first deposit tells the life of every
\* round as the chain has it: each round that has begun is stored, in the state
\* and at the rate it has; which round is collecting, and which minimum position
\* applies.  (A transfer of no receipts can store a round that has not begun,
\* as an open and empty one.)
IndexFollowsRounds ==
    fromStart =>
        /\ index.currentRound = roundNumber /\ index.minPositionSize = minPositionSize
        /\ \A id \in Rounds :
              IF id <= roundNumber
              THEN /\ index.round[id].known
                   /\ index.round[id].state = roundState[id]
                   /\ index.round[id].rate = exchangeRate[id]
              ELSE index.round[id] = [NoRound EXCEPT !.known = index.round[id].known]

\* The rows of a round add up however late the vault was registered, also when
\* they are negative: the stored supply is the sum of the stored balances, and
\* is what was deposited less what was redeemed for either token.
IndexRowsAddUp ==
    \A id \in Rounds :
        LET row == index.round[id] IN
        /\ row.receiptSupply = SumOver([u \in Users |-> index.receipt[u][id].balance], Users)
        /\ row.receiptSupply
              = row.depositsQueued - row.depositsRedeemed
                  - SumOver([u \in Users |-> index.receipt[u][id].redeemedForExchange], Users)

\* What the index says was put into a round less what it says was taken back is
\* what it says was traded when the round was settled; and what it says was
\* paid for a settled round is what the vault paid, round by round.
IndexedFlowsBalance ==
    fromStart =>
        \A id \in Rounds :
            /\ roundState[id] = "Settled" =>
                  index.round[id].settledUnderlying
                      = index.round[id].depositsQueued - index.round[id].depositsRedeemed
            /\ index.round[id].exchangeAssetWithdrawn = paidOut[id]

\* However late the vault was registered, the exchange tokens the index counts
\* as withdrawn, and those it credits to the owners of the receipts, grow by
\* exactly what the vault pays: a batch over rounds whose rate the index never
\* saw loses nothing.
IndexedPayoutsComplete ==
    [][index.known =>
        LET paid == SumOver([id \in Rounds |-> paidOut'[id] - paidOut[id]], Rounds) IN
        /\ SumOver([id \in Rounds |-> index'.round[id].exchangeAssetWithdrawn
                                        - index.round[id].exchangeAssetWithdrawn], Rounds) = paid
        /\ SumOver([id \in Rounds |-> SumOver(
                       [u \in Users |-> index'.receipt[u][id].exchangeReceived
                                          - index.receipt[u][id].exchangeReceived], Users)],
                   Rounds) = paid]_allVars
=============================================================================
