------------------------- MODULE RoundsIndexProofs -------------------------
(***************************************************************************)
(* Proofs about RoundsIndex for all users, rounds, amounts and prices, and *)
(* for every moment the registry may name the vault.                       *)
(*                                                                         *)
(* The index follows the receipts, and it tells the life of every round as *)
(* the chain has it.  For the second, a handler of the receipts or of a    *)
(* sum keeps what the index tells of the rounds (LifeKept); a handler of   *)
(* the life of a round writes that round only (LifeSet).  A round that has *)
(* not begun needs care: its row can be stored by a transfer of no         *)
(* receipts, so it is told apart from an empty one only by being stored.   *)
(*                                                                         *)
(* Last, the sums: each handler shifts what the columns of a round add up  *)
(* to by amounts of that round (Shifts) or leaves them (Still), and the    *)
(* shifts of a transaction come to what it does on the chain (ColumnStep). *)
(***************************************************************************)
EXTENDS RoundsIndex, RoundsVaultProofs

---------------------------------------------------------------------------
(* The types of the rows, and the part of the index the receipts are in *)

Rates == [baseAmount : Nat, quoteAmount : Nat]

RoundRows ==
    [known : BOOLEAN, state : RoundStates, rate : Rates, receiptSupply : Int,
     depositsQueued : Int, depositsRedeemed : Int, exchangeAssetWithdrawn : Int,
     settledUnderlying : Int, settledExchange : Int, retriedCount : Int, rolledBack : BOOLEAN]

ReceiptRows == [balance : Int, redeemedForExchange : Int, exchangeReceived : Int]

Indexes ==
    [known : BOOLEAN, currentRound : Int, minPositionSize : Int,
     round : [Rounds -> RoundRows], receipt : [Users -> [Rounds -> ReceiptRows]]]

Supplies(ix) == [k \in Rounds |-> ix.round[k].receiptSupply]
Balances(ix) == [u \in Users |-> [k \in Rounds |-> ix.receipt[u][k].balance]]

\* What every handler keeps of an index.
Kept(new, ix) == new \in Indexes /\ new.known = ix.known

\* A handler that leaves the receipts alone.
ReceiptsAlone(new, ix) ==
    Kept(new, ix) /\ Supplies(new) = Supplies(ix) /\ Balances(new) = Balances(ix)

---------------------------------------------------------------------------
(* Writing one row *)

\* One Round row replaced: the balances stay, and so do the supplies but for its own.
LEMMA PutRound ==
    ASSUME NEW ix \in Indexes, NEW id \in Rounds, NEW row \in RoundRows
    PROVE  LET new == [ix EXCEPT !.round[id] = row] IN
           /\ Kept(new, ix)
           /\ Supplies(new) = [Supplies(ix) EXCEPT ![id] = row.receiptSupply]
           /\ Balances(new) = Balances(ix)
           /\ new.round = [ix.round EXCEPT ![id] = row]
<1> DEFINE f == [ix.round EXCEPT ![id] = row]
           new == [ix EXCEPT !.round = f]
<1>1. ix.round \in [Rounds -> RoundRows] /\ f \in [Rounds -> RoundRows]
  BY DEF Indexes
<1> HIDE DEF f
<1>2. /\ new \in Indexes /\ new.known = ix.known /\ new.round = f
      /\ new.receipt = ix.receipt
  BY <1>1 DEF Indexes
<1> HIDE DEF new
<1>3. Balances(new) = Balances(ix)
  BY <1>2 DEF Balances
<1>4. Supplies(new) = [Supplies(ix) EXCEPT ![id] = row.receiptSupply]
  <2>1. \A k \in Rounds : new.round[k] = IF k = id THEN row ELSE ix.round[k]
    BY <1>1, <1>2 DEF f
  <2> QED
    BY <2>1 DEF Supplies
<1> QED
  BY <1>2, <1>3, <1>4 DEF Kept, new, f

\* One Receipt row replaced: the supplies stay, and so do the balances but for its own.
LEMMA PutReceipt ==
    ASSUME NEW ix \in Indexes, NEW u \in Users, NEW id \in Rounds, NEW row \in ReceiptRows
    PROVE  LET new == [ix EXCEPT !.receipt[u][id] = row] IN
           /\ Kept(new, ix)
           /\ Supplies(new) = Supplies(ix)
           /\ Balances(new) = [Balances(ix) EXCEPT ![u][id] = row.balance]
           /\ new.round = ix.round
           /\ new.receipt = [ix.receipt EXCEPT ![u][id] = row]
<1> DEFINE f == [ix.receipt EXCEPT ![u][id] = row]
           new == [ix EXCEPT !.receipt = f]
<1>1. ix.receipt \in [Users -> [Rounds -> ReceiptRows]] /\ f \in [Users -> [Rounds -> ReceiptRows]]
  BY DEF Indexes
<1>1a. \A w \in Users, k \in Rounds :
          f[w][k] = IF w = u /\ k = id THEN row ELSE ix.receipt[w][k]
  BY <1>1
<1> HIDE DEF f
<1>2. /\ new \in Indexes /\ new.known = ix.known /\ new.round = ix.round
      /\ new.receipt = f
  BY <1>1 DEF Indexes
<1> HIDE DEF new
<1>3. Supplies(new) = Supplies(ix)
  BY <1>2 DEF Supplies
<1>4. Balances(new) = [Balances(ix) EXCEPT ![u][id] = row.balance]
  <2>1. \A w \in Users, k \in Rounds :
          new.receipt[w][k] = IF w = u /\ k = id THEN row ELSE ix.receipt[w][k]
    BY <1>1a, <1>2
  <2>2. Balances(ix) \in [Users -> [Rounds -> Int]]
    BY <1>1 DEF Balances, ReceiptRows
  <2> DEFINE left == Balances(new)
             right == [Balances(ix) EXCEPT ![u][id] = row.balance]
  <2>3. /\ left = [w \in Users |-> [k \in Rounds |-> left[w][k]]]
        /\ right = [w \in Users |-> [k \in Rounds |-> right[w][k]]]
    <3>1. left = [w \in Users |-> [k \in Rounds |-> left[w][k]]]
      BY DEF Balances
    <3>2. right = [w \in Users |-> [k \in Rounds |-> right[w][k]]]
      BY <2>2
    <3> QED
      BY <3>1, <3>2
  <2>4. \A w \in Users, k \in Rounds : left[w][k] = right[w][k]
    <3>1. \A w \in Users, k \in Rounds :
            right[w][k] = IF w = u /\ k = id THEN row.balance ELSE Balances(ix)[w][k]
      BY <2>2
    <3> QED
      BY <2>1, <3>1 DEF Balances
  <2> HIDE DEF left, right
  <2>5. left = right
    BY <2>3, <2>4
  <2> QED
    BY <2>5 DEF left, right
<1> QED
  BY <1>2, <1>3, <1>4 DEF Kept, new, f

\* getOrCreateRound leaves the receipts and the rates alone.
LEMMA TouchedOK ==
    ASSUME NEW ix \in Indexes, NEW id \in Rounds
    PROVE  /\ ReceiptsAlone(Touched(ix, id), ix)
           /\ \A k \in Rounds : Touched(ix, id).round[k].rate = ix.round[k].rate
           /\ Touched(ix, id).receipt = ix.receipt
<1> DEFINE row == [ix.round[id] EXCEPT !.known = TRUE]
<1>1. ix.round \in [Rounds -> RoundRows] /\ ix.round[id] \in RoundRows
  BY DEF Indexes
<1>2. /\ row \in RoundRows /\ row.receiptSupply = ix.round[id].receiptSupply
      /\ row.rate = ix.round[id].rate
  BY <1>1 DEF RoundRows
<1>3. Touched(ix, id) = [ix EXCEPT !.round[id] = row]
  BY DEF Touched
<1>4. Supplies(ix)[id] = ix.round[id].receiptSupply
  BY DEF Supplies
<1> HIDE DEF row
<1>5. [Supplies(ix) EXCEPT ![id] = row.receiptSupply] = Supplies(ix)
  BY <1>2, <1>4 DEF Supplies
<1>6. /\ Kept(Touched(ix, id), ix) /\ Supplies(Touched(ix, id)) = Supplies(ix)
      /\ Balances(Touched(ix, id)) = Balances(ix)
      /\ Touched(ix, id).round = [ix.round EXCEPT ![id] = row]
  BY <1>2, <1>3, <1>5, PutRound
<1>7. \A k \in Rounds : Touched(ix, id).round[k].rate = ix.round[k].rate
  BY <1>1, <1>2, <1>6
<1>8. Touched(ix, id).receipt = ix.receipt
  BY DEF Touched, Indexes
<1> QED
  BY <1>6, <1>7, <1>8 DEF ReceiptsAlone

\* The rates the index stored are those it had.
SameRates(new, ix) == \A k \in Rounds : new.round[k].rate = ix.round[k].rate

AddBalance(ix, u, id, d) == [ix EXCEPT !.receipt[u][id].balance = @ + d]
TakeBalance(ix, u, id, d) == [ix EXCEPT !.receipt[u][id].balance = @ - d]
AddSupply(ix, id, d, e) == [ix EXCEPT !.round[id].receiptSupply = @ + d - e]

\* A change of one stored balance.
LEMMA BalanceAdded ==
    ASSUME NEW ix \in Indexes, NEW u \in Users, NEW id \in Rounds, NEW d \in Int
    PROVE  LET new == AddBalance(ix, u, id, d) IN
           /\ Kept(new, ix)
           /\ Supplies(new) = Supplies(ix)
           /\ Balances(new) = [Balances(ix) EXCEPT ![u][id] = @ + d]
           /\ SameRates(new, ix)
<1> DEFINE row == [ix.receipt[u][id] EXCEPT !.balance = @ + d]
           new == [ix EXCEPT !.receipt[u][id] = row]
<1>1. ix.receipt[u][id] \in ReceiptRows
  BY DEF Indexes
<1>2. row \in ReceiptRows /\ row.balance = ix.receipt[u][id].balance + d
  BY <1>1 DEF ReceiptRows
<1>3. new = AddBalance(ix, u, id, d)
  BY DEF AddBalance
<1>4. Balances(ix)[u][id] = ix.receipt[u][id].balance
  BY DEF Balances
<1> HIDE DEF row
<1>5. /\ Kept(new, ix) /\ Supplies(new) = Supplies(ix) /\ new.round = ix.round
      /\ Balances(new) = [Balances(ix) EXCEPT ![u][id] = row.balance]
  BY <1>2, PutReceipt
<1> HIDE DEF new
<1>6. Balances(new) = [Balances(ix) EXCEPT ![u][id] = @ + d]
  BY <1>2, <1>4, <1>5
<1> QED
  BY <1>3, <1>5, <1>6 DEF SameRates

\* The same, taken away.
LEMMA BalanceTaken ==
    ASSUME NEW ix \in Indexes, NEW u \in Users, NEW id \in Rounds, NEW d \in Int
    PROVE  LET new == TakeBalance(ix, u, id, d) IN
           /\ Kept(new, ix)
           /\ Supplies(new) = Supplies(ix)
           /\ Balances(new) = [Balances(ix) EXCEPT ![u][id] = @ - d]
           /\ SameRates(new, ix)
<1>1. ix.receipt[u][id].balance \in Int /\ Balances(ix)[u][id] = ix.receipt[u][id].balance
  BY DEF Indexes, ReceiptRows, Balances
<1>2. TakeBalance(ix, u, id, d) = AddBalance(ix, u, id, -d)
  <2>1. ix.receipt[u][id].balance - d = ix.receipt[u][id].balance + (-d)
    BY <1>1
  <2> QED
    BY <2>1 DEF TakeBalance, AddBalance
<1>3. -d \in Int /\ Balances(ix)[u][id] + (-d) = Balances(ix)[u][id] - d
  BY <1>1
<1> QED
  BY <1>2, <1>3, BalanceAdded

\* A change of one stored supply.
LEMMA SupplyAdded ==
    ASSUME NEW ix \in Indexes, NEW id \in Rounds, NEW d \in Int, NEW e \in Int
    PROVE  LET new == AddSupply(ix, id, d, e) IN
           /\ Kept(new, ix)
           /\ Supplies(new) = [Supplies(ix) EXCEPT ![id] = @ + d - e]
           /\ Balances(new) = Balances(ix)
           /\ SameRates(new, ix)
<1> DEFINE row == [ix.round[id] EXCEPT !.receiptSupply = @ + d - e]
           new == [ix EXCEPT !.round[id] = row]
<1>1. ix.round \in [Rounds -> RoundRows] /\ ix.round[id] \in RoundRows
  BY DEF Indexes
<1>2. /\ row \in RoundRows /\ row.receiptSupply = ix.round[id].receiptSupply + d - e
      /\ row.rate = ix.round[id].rate
  BY <1>1 DEF RoundRows
<1>3. new = AddSupply(ix, id, d, e)
  BY DEF AddSupply
<1>4. Supplies(ix)[id] = ix.round[id].receiptSupply
  BY DEF Supplies
<1> HIDE DEF row
<1>5. /\ Kept(new, ix) /\ Balances(new) = Balances(ix)
      /\ new.round = [ix.round EXCEPT ![id] = row]
      /\ Supplies(new) = [Supplies(ix) EXCEPT ![id] = row.receiptSupply]
  BY <1>2, PutRound
<1> HIDE DEF new
<1>6. Supplies(new) = [Supplies(ix) EXCEPT ![id] = @ + d - e]
  BY <1>2, <1>4, <1>5
<1>7. SameRates(new, ix)
  BY <1>1, <1>2, <1>5 DEF SameRates
<1> QED
  BY <1>3, <1>5, <1>6, <1>7

\* The views have integers in them.
LEMMA ViewTypes ==
    ASSUME NEW ix \in Indexes
    PROVE  Supplies(ix) \in [Rounds -> Int] /\ Balances(ix) \in [Users -> [Rounds -> Int]]
  BY DEF Supplies, Balances, Indexes, RoundRows, ReceiptRows

---------------------------------------------------------------------------
(* applyReceiptTransfer: a mint, a burn and a transfer *)

\* A mint adds to the receiver's stored balance and to the supply.
LEMMA MintApplied ==
    ASSUME NEW ix \in Indexes, ix.known, NEW v \in Users, NEW id \in Rounds, NEW a \in Int
    PROVE  LET new == ApplyReceiptTransfer(ix, NoOne, v, id, a) IN
           /\ Kept(new, ix) /\ SameRates(new, ix)
           /\ Supplies(new) = [Supplies(ix) EXCEPT ![id] = @ + a]
           /\ Balances(new) = [Balances(ix) EXCEPT ![v][id] = @ + a]
<1> DEFINE opened == Touched(ix, id)
           received == AddBalance(opened, v, id, a)
           new == AddSupply(received, id, a, 0)
<1>7. ApplyReceiptTransfer(ix, NoOne, v, id, a) = new
  BY UsersAssumption DEF ApplyReceiptTransfer, IfKnown, AddSupply, AddBalance
<1>1. /\ Kept(opened, ix) /\ SameRates(opened, ix) /\ Supplies(opened) = Supplies(ix)
      /\ Balances(opened) = Balances(ix)
  BY TouchedOK DEF SameRates, ReceiptsAlone
<1> HIDE DEF opened
<1>3. /\ Kept(received, opened) /\ Supplies(received) = Supplies(opened)
      /\ Balances(received) = [Balances(opened) EXCEPT ![v][id] = @ + a]
      /\ SameRates(received, opened)
  <2>1. opened \in Indexes
    BY <1>1 DEF Kept
  <2> QED
    BY <2>1, BalanceAdded
<1> HIDE DEF received
<1>4. /\ Kept(new, received) /\ SameRates(new, received)
      /\ Supplies(new) = [Supplies(received) EXCEPT ![id] = @ + a - 0]
      /\ Balances(new) = Balances(received)
  <2>1. received \in Indexes
    BY <1>3 DEF Kept
  <2> QED
    BY <2>1, SupplyAdded
<1> HIDE DEF new
<1>6. Supplies(new) = [Supplies(ix) EXCEPT ![id] = @ + a]
  <2>1. Supplies(ix)[id] + a - 0 = Supplies(ix)[id] + a
    BY ViewTypes
  <2> QED
    BY <1>1, <1>3, <1>4, <2>1
<1>8. Kept(new, ix) /\ SameRates(new, ix)
  BY <1>1, <1>3, <1>4 DEF Kept, SameRates
<1>9. Balances(new) = [Balances(ix) EXCEPT ![v][id] = @ + a]
  BY <1>1, <1>3, <1>4
<1> QED
  BY <1>6, <1>7, <1>8, <1>9

\* A burn takes from the sender's stored balance and from the supply.
LEMMA BurnApplied ==
    ASSUME NEW ix \in Indexes, ix.known, NEW u \in Users, NEW id \in Rounds, NEW a \in Int
    PROVE  LET new == ApplyReceiptTransfer(ix, u, NoOne, id, a) IN
           /\ Kept(new, ix) /\ SameRates(new, ix)
           /\ Supplies(new) = [Supplies(ix) EXCEPT ![id] = @ - a]
           /\ Balances(new) = [Balances(ix) EXCEPT ![u][id] = @ - a]
<1> DEFINE opened == Touched(ix, id)
           sent == TakeBalance(opened, u, id, a)
           new == AddSupply(sent, id, 0, a)
<1>7. ApplyReceiptTransfer(ix, u, NoOne, id, a) = new
  BY UsersAssumption DEF ApplyReceiptTransfer, IfKnown, AddSupply, TakeBalance
<1>1. /\ Kept(opened, ix) /\ SameRates(opened, ix) /\ Supplies(opened) = Supplies(ix)
      /\ Balances(opened) = Balances(ix)
  BY TouchedOK DEF SameRates, ReceiptsAlone
<1> HIDE DEF opened
<1>3. /\ Kept(sent, opened) /\ Supplies(sent) = Supplies(opened)
      /\ Balances(sent) = [Balances(opened) EXCEPT ![u][id] = @ - a]
      /\ SameRates(sent, opened)
  <2>1. opened \in Indexes
    BY <1>1 DEF Kept
  <2> QED
    BY <2>1, BalanceTaken
<1> HIDE DEF sent
<1>4. /\ Kept(new, sent) /\ SameRates(new, sent)
      /\ Supplies(new) = [Supplies(sent) EXCEPT ![id] = @ + 0 - a]
      /\ Balances(new) = Balances(sent)
  <2>1. sent \in Indexes
    BY <1>3 DEF Kept
  <2> QED
    BY <2>1, SupplyAdded
<1> HIDE DEF new
<1>6. Supplies(new) = [Supplies(ix) EXCEPT ![id] = @ - a]
  <2>1. Supplies(ix)[id] + 0 - a = Supplies(ix)[id] - a
    BY ViewTypes
  <2> QED
    BY <1>1, <1>3, <1>4, <2>1
<1>8. Kept(new, ix) /\ SameRates(new, ix)
  BY <1>1, <1>3, <1>4 DEF Kept, SameRates
<1>9. Balances(new) = [Balances(ix) EXCEPT ![u][id] = @ - a]
  BY <1>1, <1>3, <1>4
<1> QED
  BY <1>6, <1>7, <1>8, <1>9

\* A transfer moves between two stored balances, or within one; the supply stays.
LEMMA TransferApplied ==
    ASSUME NEW ix \in Indexes, ix.known, NEW u \in Users, NEW v \in Users,
           NEW id \in Rounds, NEW a \in Int
    PROVE  LET new == ApplyReceiptTransfer(ix, u, v, id, a) IN
           /\ Kept(new, ix) /\ SameRates(new, ix)
           /\ Supplies(new) = Supplies(ix)
           /\ Balances(new) = [[Balances(ix) EXCEPT ![u][id] = @ - a] EXCEPT ![v][id] = @ + a]
<1> DEFINE opened == Touched(ix, id)
           sent == TakeBalance(opened, u, id, a)
           received == AddBalance(sent, v, id, a)
           new == AddSupply(received, id, 0, 0)
<1>7. ApplyReceiptTransfer(ix, u, v, id, a) = new
  BY UsersAssumption DEF ApplyReceiptTransfer, IfKnown, AddSupply, TakeBalance, AddBalance
<1>1. /\ Kept(opened, ix) /\ SameRates(opened, ix) /\ Supplies(opened) = Supplies(ix)
      /\ Balances(opened) = Balances(ix)
  BY TouchedOK DEF SameRates, ReceiptsAlone
<1> HIDE DEF opened
<1>2. /\ Kept(sent, opened) /\ Supplies(sent) = Supplies(opened)
      /\ Balances(sent) = [Balances(opened) EXCEPT ![u][id] = @ - a]
      /\ SameRates(sent, opened)
  <2>1. opened \in Indexes
    BY <1>1 DEF Kept
  <2> QED
    BY <2>1, BalanceTaken
<1> HIDE DEF sent
<1>3. /\ Kept(received, sent) /\ Supplies(received) = Supplies(sent)
      /\ Balances(received) = [Balances(sent) EXCEPT ![v][id] = @ + a]
      /\ SameRates(received, sent)
  <2>1. sent \in Indexes
    BY <1>2 DEF Kept
  <2> QED
    BY <2>1, BalanceAdded
<1> HIDE DEF received
<1>4. /\ Kept(new, received) /\ SameRates(new, received)
      /\ Supplies(new) = [Supplies(received) EXCEPT ![id] = @ + 0 - 0]
      /\ Balances(new) = Balances(received)
  <2>1. received \in Indexes
    BY <1>3 DEF Kept
  <2> QED
    BY <2>1, SupplyAdded
<1> HIDE DEF new
<1>6. Supplies(new) = Supplies(ix)
  <2>1. Supplies(ix) \in [Rounds -> Int] /\ Supplies(ix)[id] + 0 - 0 = Supplies(ix)[id]
    BY ViewTypes
  <2> QED
    BY <1>1, <1>2, <1>3, <1>4, <2>1
<1>8. Kept(new, ix) /\ SameRates(new, ix)
  BY <1>1, <1>2, <1>3, <1>4 DEF Kept, SameRates
<1>9. Balances(new) = [[Balances(ix) EXCEPT ![u][id] = @ - a] EXCEPT ![v][id] = @ + a]
  BY <1>1, <1>2, <1>3, <1>4
<1> QED
  BY <1>6, <1>7, <1>8, <1>9

---------------------------------------------------------------------------
(* The other handlers leave the receipts alone *)

WriteRound(ix, id, row) == [ix EXCEPT !.round[id] = row]
WriteReceipt(ix, u, id, row) == [ix EXCEPT !.receipt[u][id] = row]

\* A round is written anew with the supply it had.
LEMMA RoundWritten ==
    ASSUME NEW ix \in Indexes, NEW id \in Rounds, NEW row \in RoundRows,
           row.receiptSupply = ix.round[id].receiptSupply
    PROVE  ReceiptsAlone(WriteRound(ix, id, row), ix)
<1> DEFINE new == [ix EXCEPT !.round[id] = row]
<1>1. /\ Kept(new, ix) /\ Balances(new) = Balances(ix)
      /\ Supplies(new) = [Supplies(ix) EXCEPT ![id] = row.receiptSupply]
  BY PutRound
<1>2. [Supplies(ix) EXCEPT ![id] = row.receiptSupply] = Supplies(ix)
  BY DEF Supplies
<1>3. WriteRound(ix, id, row) = new
  BY DEF WriteRound
<1> HIDE DEF new
<1> QED
  BY <1>1, <1>2, <1>3 DEF ReceiptsAlone

\* A receipt is written anew with the balance it had.
LEMMA ReceiptWritten ==
    ASSUME NEW ix \in Indexes, NEW u \in Users, NEW id \in Rounds, NEW row \in ReceiptRows,
           row.balance = ix.receipt[u][id].balance
    PROVE  ReceiptsAlone(WriteReceipt(ix, u, id, row), ix)
<1> DEFINE new == [ix EXCEPT !.receipt[u][id] = row]
<1>1. /\ Kept(new, ix) /\ Supplies(new) = Supplies(ix)
      /\ Balances(new) = [Balances(ix) EXCEPT ![u][id] = row.balance]
  BY PutReceipt
<1>2. Balances(ix)[u][id] = row.balance /\ Balances(ix) \in [Users -> [Rounds -> Int]]
  BY ViewTypes DEF Balances
<1>3. [Balances(ix) EXCEPT ![u][id] = row.balance] = Balances(ix)
  BY <1>2
<1>4. WriteReceipt(ix, u, id, row) = new
  BY DEF WriteReceipt
<1> HIDE DEF new
<1> QED
  BY <1>1, <1>3, <1>4 DEF ReceiptsAlone

\* One handler after the other.
LEMMA AloneTwice ==
    ASSUME NEW a, NEW b, NEW c, ReceiptsAlone(b, a), ReceiptsAlone(c, b)
    PROVE  ReceiptsAlone(c, a)
  BY DEF ReceiptsAlone, Kept

\* A handler of one round.
LEMMA RoundHandled ==
    ASSUME NEW ix \in Indexes, NEW id \in Rounds, NEW row \in RoundRows,
           row.receiptSupply = Touched(ix, id).round[id].receiptSupply
    PROVE  ReceiptsAlone(WriteRound(Touched(ix, id), id, row), ix)
<1>1. ReceiptsAlone(Touched(ix, id), ix)
  BY TouchedOK
<1>2. Touched(ix, id) \in Indexes
  BY <1>1 DEF ReceiptsAlone, Kept
<1>3. ReceiptsAlone(WriteRound(Touched(ix, id), id, row), Touched(ix, id))
  BY <1>2, RoundWritten
<1> QED
  BY <1>1, <1>3, AloneTwice

\* The row getOrCreateRound returns.
LEMMA TouchedRow ==
    ASSUME NEW ix \in Indexes, NEW id \in Rounds
    PROVE  Touched(ix, id).round[id] \in RoundRows
<1>1. Touched(ix, id) \in Indexes
  BY TouchedOK DEF ReceiptsAlone, Kept
<1> QED
  BY <1>1 DEF Indexes

\* A handler that does nothing leaves the receipts alone.
LEMMA SameIndex ==
    ASSUME NEW ix \in Indexes PROVE ReceiptsAlone(ix, ix)
  BY DEF ReceiptsAlone, Kept

\* applyDepositWithReceipt writes a sum of the round only.
LEMMA DepositCounted ==
    ASSUME NEW ix \in Indexes, NEW id \in Rounds, NEW a \in Int
    PROVE  ReceiptsAlone(ApplyDepositWithReceipt(ix, id, a), ix)
<1> DEFINE old == Touched(ix, id).round[id]
           row == [old EXCEPT !.depositsQueued = @ + a]
<1>1. old \in RoundRows
  BY TouchedRow
<1>2. WriteRound(Touched(ix, id), id, row)
        = [Touched(ix, id) EXCEPT !.round[id].depositsQueued = @ + a]
  BY DEF WriteRound
<1> HIDE DEF old
<1>3. row \in RoundRows /\ row.receiptSupply = old.receiptSupply
  BY <1>1 DEF RoundRows
<1> HIDE DEF row
<1>4. ReceiptsAlone(WriteRound(Touched(ix, id), id, row), ix)
  BY <1>3, RoundHandled DEF old
<1> QED
  BY <1>2, <1>4, SameIndex DEF ApplyDepositWithReceipt, IfKnown

\* markUnderlyingRedemption writes a sum of the round only.
LEMMA UnderlyingMarked ==
    ASSUME NEW ix \in Indexes, NEW u, NEW id \in Rounds, NEW a \in Int
    PROVE  ReceiptsAlone(MarkUnderlyingRedemption(ix, u, id, a), ix)
<1> DEFINE old == Touched(ix, id).round[id]
           row == [old EXCEPT !.depositsRedeemed = @ + a]
<1>1. old \in RoundRows
  BY TouchedRow
<1>2. WriteRound(Touched(ix, id), id, row)
        = [Touched(ix, id) EXCEPT !.round[id].depositsRedeemed = @ + a]
  BY DEF WriteRound
<1> HIDE DEF old
<1>3. row \in RoundRows /\ row.receiptSupply = old.receiptSupply
  BY <1>1 DEF RoundRows
<1> HIDE DEF row
<1>4. ReceiptsAlone(WriteRound(Touched(ix, id), id, row), ix)
  BY <1>3, RoundHandled DEF old
<1> QED
  BY <1>2, <1>4, SameIndex DEF MarkUnderlyingRedemption, IfKnown

\* applyRoundSettled writes the state and the rate of the round only.
LEMMA RoundSettledAlone ==
    ASSUME NEW ix \in Indexes, NEW id \in Rounds, NEW rate \in Rates
    PROVE  ReceiptsAlone(ApplyRoundSettled(ix, id, rate), ix)
<1> DEFINE old == Touched(ix, id).round[id]
           mid == [old EXCEPT !.state = "Settled"]
           row == [mid EXCEPT !.rate = rate]
           touched == Touched(ix, id)
<1>1. old \in RoundRows
  BY TouchedRow
<1>2. WriteRound(touched, id, row)
        = [touched EXCEPT !.round[id].state = "Settled", !.round[id].rate = rate]
  BY <1>1 DEF WriteRound
<1> HIDE DEF old
<1>3. row \in RoundRows /\ row.receiptSupply = old.receiptSupply
  BY <1>1 DEF RoundRows, RoundStates
<1> HIDE DEF row
<1>4. ReceiptsAlone(WriteRound(Touched(ix, id), id, row), ix)
  BY <1>3, RoundHandled DEF old
<1> QED
  BY <1>2, <1>4, SameIndex DEF ApplyRoundSettled, IfKnown

\* applyRoundRetried writes the state and a count of the round only.
LEMMA RoundRetriedAlone ==
    ASSUME NEW ix \in Indexes, NEW id \in Rounds
    PROVE  ReceiptsAlone(ApplyRoundRetried(ix, id), ix)
<1> DEFINE old == Touched(ix, id).round[id]
           mid == [old EXCEPT !.state = "InSettlement"]
           row == [mid EXCEPT !.retriedCount = @ + 1]
           touched == Touched(ix, id)
<1>1. old \in RoundRows
  BY TouchedRow
<1>2. WriteRound(touched, id, row)
        = [touched EXCEPT !.round[id].state = "InSettlement", !.round[id].retriedCount = @ + 1]
  BY <1>1 DEF WriteRound
<1> HIDE DEF old
<1>3. row \in RoundRows /\ row.receiptSupply = old.receiptSupply
  <2>1. mid \in RoundRows /\ mid.receiptSupply = old.receiptSupply
    BY <1>1 DEF RoundRows, RoundStates
  <2> HIDE DEF mid
  <2> QED
    BY <2>1 DEF RoundRows
<1> HIDE DEF row
<1>4. ReceiptsAlone(WriteRound(Touched(ix, id), id, row), ix)
  BY <1>3, RoundHandled DEF old
<1> QED
  BY <1>2, <1>4, SameIndex DEF ApplyRoundRetried, IfKnown

\* applyEmergencyRollback writes the state and a mark of the round only.
LEMMA RollbackAlone ==
    ASSUME NEW ix \in Indexes, NEW id \in Rounds
    PROVE  ReceiptsAlone(ApplyEmergencyRollback(ix, id), ix)
<1> DEFINE old == Touched(ix, id).round[id]
           mid == [old EXCEPT !.state = "Opened"]
           row == [mid EXCEPT !.rolledBack = TRUE]
           touched == Touched(ix, id)
<1>1. old \in RoundRows
  BY TouchedRow
<1>2. WriteRound(touched, id, row)
        = [touched EXCEPT !.round[id].state = "Opened", !.round[id].rolledBack = TRUE]
  BY <1>1 DEF WriteRound
<1> HIDE DEF old
<1>3. row \in RoundRows /\ row.receiptSupply = old.receiptSupply
  BY <1>1 DEF RoundRows, RoundStates
<1> HIDE DEF row
<1>4. ReceiptsAlone(WriteRound(Touched(ix, id), id, row), ix)
  BY <1>3, RoundHandled DEF old
<1> QED
  BY <1>2, <1>4, SameIndex DEF ApplyEmergencyRollback, IfKnown

\* The trade of a settlement writes two columns of the round only.
LEMMA TradeAlone ==
    ASSUME NEW ix \in Indexes, NEW id \in Rounds, NEW x \in Int, NEW y \in Int
    PROVE  ReceiptsAlone(HandleTargetTrade(ix, id, x, y), ix)
<1> DEFINE old == ix.round[id]
           mid == [old EXCEPT !.settledUnderlying = x]
           row == [mid EXCEPT !.settledExchange = y]
<1>1. old \in RoundRows
  BY DEF Indexes
<1>2. WriteRound(ix, id, row)
        = [ix EXCEPT !.round[id].settledUnderlying = x, !.round[id].settledExchange = y]
  BY <1>1 DEF WriteRound
<1> HIDE DEF old
<1>3. row \in RoundRows /\ row.receiptSupply = old.receiptSupply
  BY <1>1 DEF RoundRows
<1> HIDE DEF row
<1>4. ReceiptsAlone(WriteRound(ix, id, row), ix)
  BY <1>3, RoundWritten DEF old
<1> QED
  BY <1>2, <1>4, SameIndex DEF HandleTargetTrade, IfKnown

\* The columns of the vault's own row.
LEMMA VaultColumns ==
    ASSUME NEW ix \in Indexes, NEW n \in Int
    PROVE  /\ ReceiptsAlone([ix EXCEPT !.currentRound = n], ix)
           /\ ReceiptsAlone([ix EXCEPT !.minPositionSize = n], ix)
<1> DEFINE r == [ix EXCEPT !.currentRound = n]
           m == [ix EXCEPT !.minPositionSize = n]
<1>1. r \in Indexes /\ r.known = ix.known /\ r.round = ix.round /\ r.receipt = ix.receipt
  BY DEF Indexes
<1>2. m \in Indexes /\ m.known = ix.known /\ m.round = ix.round /\ m.receipt = ix.receipt
  BY DEF Indexes
<1> HIDE DEF r, m
<1>3. ReceiptsAlone(r, ix)
  BY <1>1 DEF ReceiptsAlone, Kept, Supplies, Balances
<1>4. ReceiptsAlone(m, ix)
  BY <1>2 DEF ReceiptsAlone, Kept, Supplies, Balances
<1> QED
  BY <1>3, <1>4 DEF r, m

\* applyRoundAdvanced writes the states of two rounds and the vault's own row.
LEMMA RoundAdvancedAlone ==
    ASSUME NEW ix \in Indexes, NEW id \in Rounds, id + 1 \in Rounds
    PROVE  ReceiptsAlone(ApplyRoundAdvanced(ix, id), ix)
<1> DEFINE first == Touched(ix, id)
           opened == Touched(first, id + 1)
           closed == WriteRound(opened, id, [opened.round[id] EXCEPT !.state = "InSettlement"])
           begun == WriteRound(closed, id + 1, [closed.round[id + 1] EXCEPT !.state = "Opened"])
           new == [begun EXCEPT !.currentRound = id + 1]
<1>0. id + 1 \in Int
  BY BoundAssumption DEF Rounds
<1>1. new = [opened EXCEPT !.round[id].state = "InSettlement",
                           !.round[id + 1].state = "Opened", !.currentRound = id + 1]
  BY DEF WriteRound
<1>2. ReceiptsAlone(first, ix) /\ first \in Indexes
  BY TouchedOK DEF ReceiptsAlone, Kept
<1>3. ReceiptsAlone(opened, first) /\ opened \in Indexes
  <2> HIDE DEF first
  <2>1. ReceiptsAlone(opened, first)
    BY <1>2, TouchedOK
  <2> QED
    BY <2>1 DEF ReceiptsAlone, Kept
<1>4. ReceiptsAlone(closed, opened) /\ closed \in Indexes
  <2> HIDE DEF opened
  <2>1. opened.round[id] \in RoundRows
    BY <1>3 DEF Indexes
  <2> DEFINE row == [opened.round[id] EXCEPT !.state = "InSettlement"]
  <2>2. row \in RoundRows /\ row.receiptSupply = opened.round[id].receiptSupply
    BY <2>1 DEF RoundRows, RoundStates
  <2> HIDE DEF row
  <2>3. ReceiptsAlone(WriteRound(opened, id, row), opened)
    BY <1>3, <2>2, RoundWritten
  <2> QED
    BY <2>3 DEF ReceiptsAlone, Kept, row
<1>5. ReceiptsAlone(begun, closed) /\ begun \in Indexes
  <2> HIDE DEF closed
  <2>1. closed.round[id + 1] \in RoundRows
    BY <1>4 DEF Indexes
  <2> DEFINE row == [closed.round[id + 1] EXCEPT !.state = "Opened"]
  <2>2. row \in RoundRows /\ row.receiptSupply = closed.round[id + 1].receiptSupply
    BY <2>1 DEF RoundRows, RoundStates
  <2> HIDE DEF row
  <2>3. ReceiptsAlone(WriteRound(closed, id + 1, row), closed)
    BY <1>4, <2>2, RoundWritten
  <2> QED
    BY <2>3 DEF ReceiptsAlone, Kept, row
<1>6. ReceiptsAlone(new, begun)
  <2> HIDE DEF begun
  <2> QED
    BY <1>0, <1>5, VaultColumns
<1> HIDE DEF first, opened, closed, begun, new
<1>7. ReceiptsAlone(opened, ix)
  BY <1>2, <1>3, AloneTwice
<1>8. ReceiptsAlone(closed, ix)
  BY <1>4, <1>7, AloneTwice
<1>9. ReceiptsAlone(begun, ix)
  BY <1>5, <1>8, AloneTwice
<1>10. ReceiptsAlone(new, ix)
  BY <1>6, <1>9, AloneTwice
<1>11. ApplyRoundAdvanced(ix, id) = IF ix.known THEN new ELSE ix
  BY <1>1 DEF ApplyRoundAdvanced, IfKnown, opened, first
<1> QED
  BY <1>10, <1>11, SameIndex

\* markExchangeAssetRedemption writes two sums of a receipt and one of the round.
LEMMA ExchangeMarked ==
    ASSUME NEW ix \in Indexes, NEW u \in Users, NEW id \in Rounds,
           NEW a \in Int, NEW x \in Int
    PROVE  ReceiptsAlone(MarkExchangeAssetRedemption(ix, u, id, a, x), ix)
<1> DEFINE opened == Touched(ix, id)
           received == opened.receipt[u][id].exchangeReceived + x
           withdrawn == opened.round[id].exchangeAssetWithdrawn + x
           asked == WriteReceipt(opened, u, id,
                        [opened.receipt[u][id] EXCEPT !.redeemedForExchange = @ + a])
           paid == WriteReceipt(asked, u, id,
                        [asked.receipt[u][id] EXCEPT !.exchangeReceived = received])
           new == WriteRound(paid, id,
                        [paid.round[id] EXCEPT !.exchangeAssetWithdrawn = withdrawn])
<1>1. ReceiptsAlone(opened, ix) /\ opened \in Indexes
  BY TouchedOK DEF ReceiptsAlone, Kept
<1>2. new = [opened EXCEPT !.receipt[u][id].redeemedForExchange = @ + a,
                           !.receipt[u][id].exchangeReceived = @ + x,
                           !.round[id].exchangeAssetWithdrawn = @ + x]
  BY DEF WriteRound, WriteReceipt
<1>a. received \in Int /\ withdrawn \in Int
  <2> HIDE DEF opened
  <2> QED
    BY <1>1 DEF Indexes, ReceiptRows, RoundRows
<1> HIDE DEF received, withdrawn
<1>3. ReceiptsAlone(asked, opened) /\ asked \in Indexes
  <2> HIDE DEF opened
  <2> DEFINE old == opened.receipt[u][id]
             row == [old EXCEPT !.redeemedForExchange = @ + a]
  <2>1. old \in ReceiptRows
    BY <1>1 DEF Indexes
  <2> HIDE DEF old
  <2>2. row \in ReceiptRows /\ row.balance = old.balance
    BY <2>1 DEF ReceiptRows
  <2> HIDE DEF row
  <2>3. ReceiptsAlone(WriteReceipt(opened, u, id, row), opened)
    BY <1>1, <2>2, ReceiptWritten DEF old
  <2> QED
    BY <2>3 DEF ReceiptsAlone, Kept, row, old
<1>4. ReceiptsAlone(paid, asked) /\ paid \in Indexes
  <2> HIDE DEF asked
  <2> DEFINE old == asked.receipt[u][id]
             row == [old EXCEPT !.exchangeReceived = received]
  <2>1. old \in ReceiptRows
    BY <1>3 DEF Indexes
  <2> HIDE DEF old
  <2>2. row \in ReceiptRows /\ row.balance = old.balance
    BY <1>a, <2>1 DEF ReceiptRows
  <2> HIDE DEF row
  <2>3. ReceiptsAlone(WriteReceipt(asked, u, id, row), asked)
    BY <1>3, <2>2, ReceiptWritten DEF old
  <2> QED
    BY <2>3 DEF ReceiptsAlone, Kept, row, old
<1>5. ReceiptsAlone(new, paid)
  <2> HIDE DEF paid
  <2> DEFINE row == [paid.round[id] EXCEPT !.exchangeAssetWithdrawn = withdrawn]
  <2>1. paid.round[id] \in RoundRows
    BY <1>4 DEF Indexes
  <2>2. row \in RoundRows /\ row.receiptSupply = paid.round[id].receiptSupply
    BY <1>a, <2>1 DEF RoundRows
  <2> HIDE DEF row
  <2>3. ReceiptsAlone(WriteRound(paid, id, row), paid)
    BY <1>4, <2>2, RoundWritten
  <2> QED
    BY <2>3 DEF row
<1> HIDE DEF opened, asked, paid, new
<1>6. ReceiptsAlone(paid, ix)
  <2>1. ReceiptsAlone(asked, ix)
    BY <1>1, <1>3, AloneTwice
  <2> QED
    BY <1>4, <2>1, AloneTwice
<1>7. ReceiptsAlone(new, ix)
  BY <1>5, <1>6, AloneTwice
<1>8. MarkExchangeAssetRedemption(ix, u, id, a, x) = IF ix.known THEN new ELSE ix
  BY <1>2 DEF MarkExchangeAssetRedemption, IfKnown, opened
<1> QED
  BY <1>7, <1>8, SameIndex

\* The part of a batch the index works out for a round is an integer.
LEMMA PartType ==
    ASSUME NEW ix \in Indexes, NEW id \in Rounds, NEW a \in Nat
    PROVE  IndexedPart(ix, id, a) \in Int
<1> DEFINE rate == ix.round[id].rate
<1>1. rate.baseAmount \in Nat /\ rate.quoteAmount \in Nat
  BY DEF Indexes, RoundRows, Rates
<1> HIDE DEF rate
<1>2. a * rate.baseAmount \in Nat
  BY <1>1
<1>3. rate.quoteAmount # 0 => (a * rate.baseAmount) \div rate.quoteAmount \in Nat
  BY <1>1, <1>2, DivBound
<1> QED
  BY <1>3 DEF IndexedPart, rate

\* So does a batch, whatever it works out for its parts.
LEMMA ExchangeBatchMarked ==
    ASSUME NEW ix \in Indexes, NEW u \in Users, NEW i \in Rounds, NEW a \in Nat,
           NEW j \in Rounds, NEW b \in Nat, NEW total \in Int
    PROVE  ReceiptsAlone(MarkExchangeAssetRedemptionBatch(ix, u, i, a, j, b, total), ix)
<1> DEFINE part == IndexedPart(ix, i, a)
           first == MarkExchangeAssetRedemption(ix, u, i, a, part)
           new == MarkExchangeAssetRedemption(first, u, j, b, total - part)
<1>1. part \in Int /\ total - part \in Int /\ a \in Int /\ b \in Int
  BY PartType
<1> HIDE DEF part
<1>2. ReceiptsAlone(first, ix)
  BY <1>1, ExchangeMarked
<1>3. first \in Indexes
  BY <1>2 DEF ReceiptsAlone, Kept
<1> HIDE DEF first
<1>4. ReceiptsAlone(new, first)
  BY <1>1, <1>3, ExchangeMarked
<1> HIDE DEF new
<1>5. ReceiptsAlone(new, ix)
  BY <1>2, <1>4, AloneTwice
<1> QED
  BY <1>5 DEF MarkExchangeAssetRedemptionBatch, new, first, part

\* The events of one settlement leave the receipts alone.
LEMMA SettledAlone ==
    ASSUME TypeOK, NEW ix \in Indexes, NEW id \in Rounds
    PROVE  ReceiptsAlone(IndexSettled(ix, id), ix)
<1> DEFINE traded == HandleTargetTrade(ix, id, supply[id], TargetOutput(supply[id]))
<1>1. /\ supply[id] \in Int /\ TargetOutput(supply[id]) \in Int
      /\ SettlementRate(id) \in Rates
  BY RateType DEF Rates, TypeOK
<1>2. ReceiptsAlone(traded, ix)
  BY <1>1, TradeAlone
<1>3. traded \in Indexes
  BY <1>2 DEF ReceiptsAlone, Kept
<1>4. IndexSettled(ix, id) = ApplyRoundSettled(traded, id, SettlementRate(id))
  BY DEF IndexSettled
<1> HIDE DEF traded
<1>5. ReceiptsAlone(IndexSettled(ix, id), traded)
  BY <1>1, <1>3, <1>4, RoundSettledAlone
<1> QED
  BY <1>2, <1>5, AloneTwice

\* applyMinPositionSize writes the vault's own row only.
LEMMA MinPositionAlone ==
    ASSUME NEW ix \in Indexes, NEW m \in Int
    PROVE  ReceiptsAlone(ApplyMinPositionSize(ix, m), ix)
  BY VaultColumns, SameIndex DEF ApplyMinPositionSize, IfKnown

---------------------------------------------------------------------------
(* The registry's handler *)

\* The index before the vault is registered is well formed.
LEMMA EmptyIndexType == EmptyIndex \in Indexes
<1>1. NoRound \in RoundRows
  BY DEF NoRound, RoundRows, RoundStates, Rates, NoRate
<1>2. NoReceipt \in ReceiptRows
  BY DEF NoReceipt, ReceiptRows
<1>3. /\ [id \in Rounds |-> NoRound] \in [Rounds -> RoundRows]
      /\ [u \in Users |-> [id \in Rounds |-> NoReceipt]] \in [Users -> [Rounds -> ReceiptRows]]
  BY <1>1, <1>2
<1> DEFINE f == [id \in Rounds |-> NoRound]
           g == [u \in Users |-> [id \in Rounds |-> NoReceipt]]
<1> HIDE DEF f, g
<1>4. [known |-> FALSE, currentRound |-> 0, minPositionSize |-> 0, round |-> f, receipt |-> g]
        \in Indexes
  BY <1>3 DEF Indexes, f, g
<1> QED
  BY <1>4 DEF EmptyIndex, f, g

\* So is the one the registry's handler makes.
LEMMA CreatedType ==
    ASSUME NEW ix \in Indexes, minPositionSize \in Nat
    PROVE  CreateRoundsVault(ix) \in Indexes
<1> DEFINE row == [EmptyIndex EXCEPT !.known = TRUE, !.minPositionSize = minPositionSize]
<1>1. row \in Indexes
  <2> DEFINE e == EmptyIndex
  <2>1. e \in Indexes
    BY EmptyIndexType
  <2> HIDE DEF e
  <2> DEFINE k == [e EXCEPT !.known = TRUE]
  <2>a. k \in Indexes
    BY <2>1 DEF Indexes
  <2> HIDE DEF k
  <2>b. [k EXCEPT !.minPositionSize = minPositionSize] \in Indexes
    BY <2>a DEF Indexes
  <2>2. [e EXCEPT !.known = TRUE, !.minPositionSize = minPositionSize] \in Indexes
    BY <2>b DEF k
  <2> QED
    BY <2>2 DEF e
<1>2. 0 \in Rounds
  BY BoundAssumption DEF Rounds
<1> HIDE DEF row
<1>3. Touched(row, 0) \in Indexes
  BY <1>1, <1>2, TouchedOK DEF ReceiptsAlone, Kept
<1> QED
  BY <1>3 DEF CreateRoundsVault, row

---------------------------------------------------------------------------
(* Every step *)

\* What a step keeps: the types, and, once the index knows the vault, every
\* stored supply and balance changes by what it changes on the chain.
Follows ==
    /\ index' \in Indexes
    /\ index.known =>
        /\ \A k \in Rounds :
              Supplies(index')[k] - Supplies(index)[k] = supply'[k] - supply[k]
        /\ \A u \in Users, k \in Rounds :
              Balances(index')[u][k] - Balances(index)[u][k] = receipts'[u][k] - receipts[u][k]

\* A handler does nothing to an index that does not know the vault.
LEMMA UnknownTransfer ==
    ASSUME NEW ix, ~ix.known, NEW u, NEW v, NEW id, NEW a
    PROVE  ApplyReceiptTransfer(ix, u, v, id, a) = ix
  BY DEF ApplyReceiptTransfer, IfKnown

\* A step that writes no receipts, on the chain or in the index.
LEMMA QuietStep ==
    ASSUME TypeOK, index \in Indexes, ReceiptsAlone(index', index),
           supply' = supply, receipts' = receipts
    PROVE  Follows
<1>1. /\ index' \in Indexes /\ Supplies(index') = Supplies(index)
      /\ Balances(index') = Balances(index)
  BY DEF ReceiptsAlone, Kept
<1>2. /\ Supplies(index) \in [Rounds -> Int] /\ Balances(index) \in [Users -> [Rounds -> Int]]
      /\ supply \in [Rounds -> Int] /\ receipts \in [Users -> [Rounds -> Int]]
  BY ViewTypes DEF TypeOK
<1>3. \A k \in Rounds : Supplies(index)[k] - Supplies(index)[k] = supply[k] - supply[k]
  BY <1>2
<1>4. \A u \in Users, k \in Rounds :
        Balances(index)[u][k] - Balances(index)[u][k] = receipts[u][k] - receipts[u][k]
  BY <1>2
<1> QED
  BY <1>1, <1>3, <1>4 DEF Follows

\* A deposit and the handlers of its events.
LEMMA DepositFollows ==
    ASSUME TypeOK, index \in Indexes, NEW u \in Users, NEW v \in Users, NEW a \in Nat,
           Deposit(u, v, a),
           index' = ApplyDepositWithReceipt(
                        ApplyReceiptTransfer(index, NoOne, v, MintId, a), MintId, a)
    PROVE  Follows
<1> DEFINE id == MintId
           mid == ApplyReceiptTransfer(index, NoOne, v, id, a)
<1>0. id \in Rounds /\ a \in Int
  BY DEF MintId, TypeOK
<1>d. /\ receipts' = [receipts EXCEPT ![v][id] = @ + a]
      /\ supply' = [supply EXCEPT ![id] = @ + a]
  BY DEF Deposit, Minted
<1>i. index' = ApplyDepositWithReceipt(mid, id, a)
  OBVIOUS
<1> HIDE DEF id
<1>1. CASE ~index.known
  <2>1. mid = index
    BY <1>1, UnknownTransfer
  <2>2. ReceiptsAlone(index', index)
    BY <1>0, <1>i, <2>1, DepositCounted
  <2> QED
    BY <1>1, <2>2 DEF Follows, ReceiptsAlone, Kept
<1>2. CASE index.known
  <2>1. /\ Kept(mid, index)
        /\ Supplies(mid) = [Supplies(index) EXCEPT ![id] = @ + a]
        /\ Balances(mid) = [Balances(index) EXCEPT ![v][id] = @ + a]
    BY <1>0, <1>2, MintApplied
  <2>2. mid \in Indexes
    BY <2>1 DEF Kept
  <2> HIDE DEF mid
  <2>3. ReceiptsAlone(index', mid)
    BY <1>0, <1>i, <2>2, DepositCounted
  <2>4. /\ index' \in Indexes
        /\ Supplies(index') = [Supplies(index) EXCEPT ![id] = @ + a]
        /\ Balances(index') = [Balances(index) EXCEPT ![v][id] = @ + a]
    BY <2>1, <2>3 DEF ReceiptsAlone, Kept
  <2>5. /\ Supplies(index) \in [Rounds -> Int] /\ Balances(index) \in [Users -> [Rounds -> Int]]
        /\ supply \in [Rounds -> Int] /\ receipts \in [Users -> [Rounds -> Int]]
    BY ViewTypes DEF TypeOK
  <2>6. \A k \in Rounds : Supplies(index')[k] - Supplies(index)[k] = supply'[k] - supply[k]
    BY <1>0, <1>d, <2>4, <2>5
  <2>7. \A w \in Users, k \in Rounds :
          Balances(index')[w][k] - Balances(index)[w][k] = receipts'[w][k] - receipts[w][k]
    BY <1>0, <1>d, <2>4, <2>5
  <2> QED
    BY <2>4, <2>6, <2>7 DEF Follows
<1> QED
  BY <1>1, <1>2

\* A burn of one entry, followed by a handler that leaves the receipts alone.
LEMMA BurnFollows ==
    ASSUME TypeOK, index \in Indexes, NEW u \in Users, NEW id \in Rounds, NEW a \in Nat,
           Burn(u, id, a),
           ReceiptsAlone(index', ApplyReceiptTransfer(index, u, NoOne, id, a))
    PROVE  Follows
<1> DEFINE mid == ApplyReceiptTransfer(index, u, NoOne, id, a)
<1>d. /\ receipts' = [receipts EXCEPT ![u][id] = @ - a]
      /\ supply' = [supply EXCEPT ![id] = @ - a]
  BY DEF Burn, Burned
<1>1. CASE ~index.known
  <2>1. mid = index
    BY <1>1, UnknownTransfer
  <2> QED
    BY <1>1, <2>1 DEF Follows, ReceiptsAlone, Kept
<1>2. CASE index.known
  <2>0. a \in Int
    OBVIOUS
  <2>1. /\ Supplies(mid) = [Supplies(index) EXCEPT ![id] = @ - a]
        /\ Balances(mid) = [Balances(index) EXCEPT ![u][id] = @ - a]
    BY <1>2, <2>0, BurnApplied
  <2>3. ReceiptsAlone(index', mid)
    OBVIOUS
  <2> HIDE DEF mid
  <2>4. /\ index' \in Indexes
        /\ Supplies(index') = [Supplies(index) EXCEPT ![id] = @ - a]
        /\ Balances(index') = [Balances(index) EXCEPT ![u][id] = @ - a]
    BY <2>1, <2>3 DEF ReceiptsAlone, Kept
  <2>5. /\ Supplies(index) \in [Rounds -> Int] /\ Balances(index) \in [Users -> [Rounds -> Int]]
        /\ supply \in [Rounds -> Int] /\ receipts \in [Users -> [Rounds -> Int]]
    BY ViewTypes DEF TypeOK
  <2>6. \A k \in Rounds : Supplies(index')[k] - Supplies(index)[k] = supply'[k] - supply[k]
    BY <1>d, <2>4, <2>5
  <2>7. \A w \in Users, k \in Rounds :
          Balances(index')[w][k] - Balances(index)[w][k] = receipts'[w][k] - receipts[w][k]
    BY <1>d, <2>4, <2>5
  <2> QED
    BY <2>4, <2>6, <2>7 DEF Follows
<1> QED
  BY <1>1, <1>2

\* Two balances of one entry that moves from one row to another, or to its own.
Moved(h, u, v, id, x) == [[h EXCEPT ![u][id] = @ - x] EXCEPT ![v][id] = @ + x]

\* Two functions that lose the same entries differ by as much as before.
LEMMA TakenTwice ==
    ASSUME NEW f \in [Rounds -> Int], NEW g \in [Rounds -> Int], NEW i \in Rounds,
           NEW a \in Int, NEW j \in Rounds, NEW b \in Int
    PROVE  \A k \in Rounds :
              [[f EXCEPT ![i] = @ - a] EXCEPT ![j] = @ - b][k] - f[k]
                  = [[g EXCEPT ![i] = @ - a] EXCEPT ![j] = @ - b][k] - g[k]
<1> DEFINE f1 == [f EXCEPT ![i] = @ - a]
           g1 == [g EXCEPT ![i] = @ - a]
<1>1. /\ f1 \in [Rounds -> Int] /\ g1 \in [Rounds -> Int]
      /\ \A k \in Rounds : f1[k] - f[k] = g1[k] - g[k]
  OBVIOUS
<1> HIDE DEF f1, g1
<1> DEFINE f2 == [f1 EXCEPT ![j] = @ - b]
           g2 == [g1 EXCEPT ![j] = @ - b]
<1>2. /\ f2 \in [Rounds -> Int] /\ g2 \in [Rounds -> Int]
      /\ \A k \in Rounds : f2[k] - f1[k] = g2[k] - g1[k]
  BY <1>1
<1> HIDE DEF f2, g2
<1>3. \A k \in Rounds : f2[k] - f[k] = g2[k] - g[k]
  <2> TAKE k \in Rounds
  <2>1. /\ f[k] \in Int /\ f1[k] \in Int /\ f2[k] \in Int
        /\ g[k] \in Int /\ g1[k] \in Int /\ g2[k] \in Int
    BY <1>1, <1>2
  <2>2. f1[k] - f[k] = g1[k] - g[k] /\ f2[k] - f1[k] = g2[k] - g1[k]
    BY <1>1, <1>2
  <2> QED
    BY <2>1, <2>2
<1> QED
  BY <1>3 DEF f2, g2, f1, g1

Grids == [Users -> [Rounds -> Int]]

\* What the move adds to the entry k of w.
Change(u, v, id, x, w, k) ==
    (IF w = v /\ k = id THEN x ELSE 0) - (IF w = u /\ k = id THEN x ELSE 0)

\* A move of natural amounts keeps balances integers.
LEMMA MovedType ==
    ASSUME NEW f \in Grids,
           NEW u \in Users, NEW v \in Users, NEW id \in Rounds, NEW x \in Nat
    PROVE  Moved(f, u, v, id, x) \in Grids
<1> DEFINE taken == [f EXCEPT ![u][id] = @ - x]
<1>1. taken \in [Users -> [Rounds -> Int]]
  BY DEF Grids
<1> HIDE DEF taken
<1>2. [taken EXCEPT ![v][id] = @ + x] \in [Users -> [Rounds -> Int]]
  BY <1>1
<1> QED
  BY <1>2 DEF Moved, taken, Grids

\* Each entry changes by what the move adds to it, whatever was there.
LEMMA MovedBy ==
    ASSUME NEW f \in Grids,
           NEW u \in Users, NEW v \in Users, NEW id \in Rounds, NEW x \in Nat,
           NEW w \in Users, NEW k \in Rounds
    PROVE  Moved(f, u, v, id, x)[w][k] = f[w][k] + Change(u, v, id, x, w, k)
<1> DEFINE taken == [f EXCEPT ![u][id] = @ - x]
           old == f[w][k]
<1>1. /\ taken \in [Users -> [Rounds -> Int]] /\ old \in Int
      /\ taken[w][k] = IF w = u /\ k = id THEN old - x ELSE old
  BY DEF Grids
<1> HIDE DEF taken, old
<1> DEFINE given == [taken EXCEPT ![v][id] = @ + x]
           mid == taken[w][k]
<1>2. /\ given[w][k] = (IF w = v /\ k = id THEN mid + x ELSE mid)
      /\ mid \in Int /\ mid = (IF w = u /\ k = id THEN old - x ELSE old)
  BY <1>1
<1>3. given = Moved(f, u, v, id, x)
  BY DEF Moved, taken
<1> DEFINE new == given[w][k]
<1>4. new = (IF w = v /\ k = id THEN mid + x ELSE mid)
  BY <1>2
<1> HIDE DEF new, mid
<1>6. new = old + Change(u, v, id, x, w, k)
  BY <1>1, <1>2, <1>4 DEF Change
<1> QED
  BY <1>3, <1>6 DEF new, old

\* Two entries moved one after the other.
LEMMA MovedTwiceBy ==
    ASSUME NEW f \in Grids, NEW u \in Users, NEW v \in Users,
           NEW i \in Rounds, NEW a \in Nat, NEW j \in Rounds, NEW b \in Nat,
           NEW w \in Users, NEW k \in Rounds
    PROVE  Moved(Moved(f, u, v, i, a), u, v, j, b)[w][k]
              = f[w][k] + Change(u, v, i, a, w, k) + Change(u, v, j, b, w, k)
<1> DEFINE first == Moved(f, u, v, i, a)
<1>1. first \in Grids
  BY MovedType
<1>2. first[w][k] = f[w][k] + Change(u, v, i, a, w, k)
  BY MovedBy
<1> HIDE DEF first
<1>3. Moved(first, u, v, j, b)[w][k] = first[w][k] + Change(u, v, j, b, w, k)
  BY <1>1, MovedBy
<1> QED
  BY <1>2, <1>3 DEF first

\* A burn of two entries, followed by a handler that leaves the receipts alone.
LEMMA BurnBatchFollows ==
    ASSUME TypeOK, index \in Indexes, NEW u \in Users, NEW i \in Rounds, NEW a \in Nat,
           NEW j \in Rounds, NEW b \in Nat, BurnBatch(u, i, a, j, b),
           ReceiptsAlone(index', ApplyTransferBatch(index, u, NoOne, i, a, j, b))
    PROVE  Follows
<1> DEFINE mid == ApplyReceiptTransfer(index, u, NoOne, i, a)
           last == ApplyReceiptTransfer(mid, u, NoOne, j, b)
<1>d. /\ receipts' = [[receipts EXCEPT ![u][i] = @ - a] EXCEPT ![u][j] = @ - b]
      /\ supply' = [[supply EXCEPT ![i] = @ - a] EXCEPT ![j] = @ - b]
  BY DEF BurnBatch, Burned
<1>i. ReceiptsAlone(index', last)
  BY DEF ApplyTransferBatch
<1>1. CASE ~index.known
  <2>1. mid = index /\ last = mid
    BY <1>1, UnknownTransfer
  <2> QED
    BY <1>i, <1>1, <2>1 DEF Follows, ReceiptsAlone, Kept
<1>2. CASE index.known
  <2>0. a \in Int /\ b \in Int
    OBVIOUS
  <2>1. /\ Kept(mid, index)
        /\ Supplies(mid) = [Supplies(index) EXCEPT ![i] = @ - a]
        /\ Balances(mid) = [Balances(index) EXCEPT ![u][i] = @ - a]
    BY <1>2, <2>0, BurnApplied
  <2>2. mid \in Indexes /\ mid.known
    BY <1>2, <2>1 DEF Kept
  <2> HIDE DEF mid
  <2>3. /\ Supplies(last) = [Supplies(mid) EXCEPT ![j] = @ - b]
        /\ Balances(last) = [Balances(mid) EXCEPT ![u][j] = @ - b]
    BY <2>0, <2>2, BurnApplied
  <2> HIDE DEF last
  <2>4. /\ index' \in Indexes
        /\ Supplies(index') = [[Supplies(index) EXCEPT ![i] = @ - a] EXCEPT ![j] = @ - b]
        /\ Balances(index') = [[Balances(index) EXCEPT ![u][i] = @ - a] EXCEPT ![u][j] = @ - b]
    BY <1>i, <2>1, <2>3 DEF ReceiptsAlone, Kept
  <2>5. /\ Supplies(index) \in [Rounds -> Int] /\ Balances(index) \in [Users -> [Rounds -> Int]]
        /\ supply \in [Rounds -> Int] /\ receipts \in [Users -> [Rounds -> Int]]
    BY ViewTypes DEF TypeOK
  <2>6. \A k \in Rounds : Supplies(index')[k] - Supplies(index)[k] = supply'[k] - supply[k]
    <3>1. \A k \in Rounds :
            [[Supplies(index) EXCEPT ![i] = @ - a] EXCEPT ![j] = @ - b][k] - Supplies(index)[k]
                = [[supply EXCEPT ![i] = @ - a] EXCEPT ![j] = @ - b][k] - supply[k]
      BY <2>0, <2>5, TakenTwice
    <3> QED
      BY <1>d, <2>4, <3>1
  <2>7. \A w \in Users, k \in Rounds :
          Balances(index')[w][k] - Balances(index)[w][k] = receipts'[w][k] - receipts[w][k]
    BY <1>d, <2>4, <2>5
  <2> QED
    BY <2>4, <2>6, <2>7 DEF Follows
<1> QED
  BY <1>1, <1>2

\* A transfer of one entry.
LEMMA TransferFollows ==
    ASSUME TypeOK, index \in Indexes, NEW u \in Users, NEW v \in Users,
           NEW id \in Rounds, NEW a \in Nat, SafeTransferFrom(u, v, id, a),
           index' = ApplyReceiptTransfer(index, u, v, id, a)
    PROVE  Follows
<1>d. /\ receipts' = [[receipts EXCEPT ![u][id] = @ - a] EXCEPT ![v][id] = @ + a]
      /\ supply' = supply
  BY DEF SafeTransferFrom, Burned, Minted
<1>1. CASE ~index.known
  BY <1>1, UnknownTransfer DEF Follows
<1>2. CASE index.known
  <2>0. a \in Int
    OBVIOUS
  <2>4. /\ index' \in Indexes
        /\ Supplies(index') = Supplies(index)
        /\ Balances(index') = [[Balances(index) EXCEPT ![u][id] = @ - a] EXCEPT ![v][id] = @ + a]
    BY <1>2, <2>0, TransferApplied DEF Kept
  <2>5. /\ Supplies(index) \in [Rounds -> Int] /\ Balances(index) \in [Users -> [Rounds -> Int]]
        /\ supply \in [Rounds -> Int] /\ receipts \in [Users -> [Rounds -> Int]]
    BY ViewTypes DEF TypeOK
  <2>6. \A k \in Rounds : Supplies(index')[k] - Supplies(index)[k] = supply'[k] - supply[k]
    BY <1>d, <2>4, <2>5
  <2>7. \A w \in Users, k \in Rounds :
          Balances(index')[w][k] - Balances(index)[w][k] = receipts'[w][k] - receipts[w][k]
    BY <1>d, <2>4, <2>5, SMTT(60)
  <2> QED
    BY <2>4, <2>6, <2>7 DEF Follows
<1> QED
  BY <1>1, <1>2

\* A transfer of two entries.
LEMMA BatchTransferFollows ==
    ASSUME TypeOK, index \in Indexes, NEW u \in Users, NEW v \in Users,
           NEW i \in Rounds, NEW a \in Nat, NEW j \in Rounds, NEW b \in Nat,
           SafeBatchTransferFrom(u, v, i, a, j, b),
           index' = ApplyTransferBatch(index, u, v, i, a, j, b)
    PROVE  Follows
<1> DEFINE mid == ApplyReceiptTransfer(index, u, v, i, a)
           first == Moved(receipts, u, v, i, a)
<1>d. receipts' = Moved(first, u, v, j, b) /\ supply' = supply
  BY DEF SafeBatchTransferFrom, Burned, Minted, Moved
<1>i. index' = ApplyReceiptTransfer(mid, u, v, j, b)
  BY DEF ApplyTransferBatch
<1>1. CASE ~index.known
  <2>1. mid = index /\ index' = mid
    BY <1>1, <1>i, UnknownTransfer
  <2> QED
    BY <1>1, <2>1 DEF Follows
<1>2. CASE index.known
  <2>0. a \in Int /\ b \in Int
    OBVIOUS
  <2>1. Kept(mid, index) /\ Supplies(mid) = Supplies(index)
        /\ Balances(mid) = Moved(Balances(index), u, v, i, a)
    BY <1>2, <2>0, TransferApplied DEF Moved
  <2>2. mid \in Indexes /\ mid.known
    BY <1>2, <2>1 DEF Kept
  <2> HIDE DEF mid
  <2>3. /\ Kept(index', mid) /\ Supplies(index') = Supplies(mid)
        /\ Balances(index') = Moved(Balances(mid), u, v, j, b)
    BY <1>i, <2>0, <2>2, TransferApplied DEF Moved
  <2>4. /\ index' \in Indexes /\ Supplies(index') = Supplies(index)
    BY <2>1, <2>3 DEF Kept
  <2>5. /\ Balances(index) \in [Users -> [Rounds -> Int]]
        /\ supply \in [Rounds -> Int] /\ receipts \in [Users -> [Rounds -> Int]]
        /\ Supplies(index) \in [Rounds -> Int]
    BY ViewTypes DEF TypeOK
  <2>6. \A k \in Rounds : Supplies(index')[k] - Supplies(index)[k] = supply'[k] - supply[k]
    BY <1>d, <2>4, <2>5
  <2>10. \A w \in Users, k \in Rounds :
          Balances(index')[w][k] - Balances(index)[w][k] = receipts'[w][k] - receipts[w][k]
    <3> DEFINE mine == Balances(index)
    <3>1. /\ Balances(index') = Moved(Moved(mine, u, v, i, a), u, v, j, b)
          /\ receipts' = Moved(Moved(receipts, u, v, i, a), u, v, j, b)
      BY <1>d, <2>1, <2>3
    <3>2. mine \in Grids /\ receipts \in Grids
      BY <2>5 DEF Grids
    <3> HIDE DEF mine
    <3> SUFFICES ASSUME NEW w \in Users, NEW k \in Rounds
                 PROVE  Balances(index')[w][k] - mine[w][k] = receipts'[w][k] - receipts[w][k]
      BY DEF mine
    <3>a. \A f \in Grids : Moved(Moved(f, u, v, i, a), u, v, j, b)[w][k]
            = f[w][k] + Change(u, v, i, a, w, k) + Change(u, v, j, b, w, k)
      <4> TAKE f \in Grids
      <4> QED
        BY MovedTwiceBy, SMTT(60)
    <3>3. Moved(Moved(mine, u, v, i, a), u, v, j, b)[w][k]
            = mine[w][k] + Change(u, v, i, a, w, k) + Change(u, v, j, b, w, k)
      BY <3>2, <3>a
    <3>4. Moved(Moved(receipts, u, v, i, a), u, v, j, b)[w][k]
            = receipts[w][k] + Change(u, v, i, a, w, k) + Change(u, v, j, b, w, k)
      BY <3>2, <3>a
    <3>5. /\ Change(u, v, i, a, w, k) \in Int /\ Change(u, v, j, b, w, k) \in Int
          /\ mine[w][k] \in Int /\ receipts[w][k] \in Int
      BY <3>2 DEF Change, Grids
    <3> QED
      BY <3>1, <3>3, <3>4, <3>5
  <2> QED
    BY <2>4, <2>6, <2>10 DEF Follows
<1> QED
  BY <1>1, <1>2

\* The keeper's operations write no receipts.
LEMMA KeeperFollows ==
    ASSUME TypeOK, index \in Indexes, IndexedKeeperStep
    PROVE  Follows
<1> USE BoundAssumption
<1>0. roundNumber \in Rounds /\ Rounds = 0..MaxRound
  BY DEF TypeOK, Rounds
<1>1. CASE NextRound /\ index' = ApplyRoundAdvanced(index, roundNumber)
  <2>1. roundNumber + 1 \in Rounds
    BY <1>0, <1>1 DEF NextRound
  <2>2. ReceiptsAlone(index', index)
    BY <1>0, <1>1, <2>1, RoundAdvancedAlone
  <2>3. supply' = supply /\ receipts' = receipts
    BY <1>1 DEF NextRound, receiptVars
  <2> QED
    BY <2>2, <2>3, QuietStep
<1>2. ASSUME NEW id \in Rounds, RetryRound(id), index' = ApplyRoundRetried(index, id)
      PROVE  Follows
  <2>1. supply' = supply /\ receipts' = receipts
    BY <1>2 DEF RetryRound, receiptVars
  <2> QED
    BY <1>2, <2>1, RoundRetriedAlone, QuietStep
<1>3. ASSUME NEW id \in Rounds, SetRoundSettled(id), index' = IndexSettled(index, id)
      PROVE  Follows
  <2>1. supply' = supply /\ receipts' = receipts
    BY <1>3 DEF SetRoundSettled, receiptVars
  <2> QED
    BY <1>3, <2>1, SettledAlone, QuietStep
<1>4. ASSUME NEW i \in Rounds, NEW j \in Rounds, SetRoundSettledBatch(i, j),
             index' = IndexSettled(IndexSettled(index, i), j)
      PROVE  Follows
  <2> DEFINE first == IndexSettled(index, i)
  <2>1. supply' = supply /\ receipts' = receipts
    BY <1>4 DEF SetRoundSettledBatch, receiptVars
  <2>2. ReceiptsAlone(first, index)
    BY SettledAlone
  <2>3. first \in Indexes
    BY <2>2 DEF ReceiptsAlone, Kept
  <2> HIDE DEF first
  <2>4. ReceiptsAlone(IndexSettled(first, j), first)
    BY <2>3, SettledAlone
  <2>5. ReceiptsAlone(IndexSettled(first, j), index)
    BY <2>2, <2>4, AloneTwice
  <2>6. ReceiptsAlone(index', index)
    BY <1>4, <2>5 DEF first
  <2> QED
    BY <2>1, <2>6, QuietStep
<1> QED
  BY <1>1, <1>2, <1>3, <1>4 DEF IndexedKeeperStep

\* Nor do the governor's.
LEMMA GovernorFollows ==
    ASSUME TypeOK, index \in Indexes, IndexedGovernorStep
    PROVE  Follows
<1>1. ASSUME NEW id \in Rounds, EmergencyRollbackRound(id),
             index' = ApplyEmergencyRollback(index, id)
      PROVE  Follows
  <2>1. supply' = supply /\ receipts' = receipts
    BY <1>1 DEF EmergencyRollbackRound, receiptVars
  <2> QED
    BY <1>1, <2>1, RollbackAlone, QuietStep
<1>2. ASSUME NEW m \in MinPositions, SetMinPositionSize(m),
             index' = ApplyMinPositionSize(index, m)
      PROVE  Follows
  <2>1. supply' = supply /\ receipts' = receipts
    BY <1>2 DEF SetMinPositionSize, receiptVars
  <2>2. m \in Int
    BY BoundAssumption
  <2> QED
    BY <1>2, <2>1, <2>2, MinPositionAlone, QuietStep
<1> QED
  BY <1>1, <1>2 DEF IndexedGovernorStep

\* What a burn of receipts leaves is an index again.
LEMMA TransferType ==
    ASSUME NEW ix \in Indexes, NEW u \in Users, NEW id \in Rounds, NEW a \in Int
    PROVE  ApplyReceiptTransfer(ix, u, NoOne, id, a) \in Indexes
<1>1. CASE ix.known
  BY <1>1, BurnApplied DEF Kept
<1>2. CASE ~ix.known
  BY <1>2, UnknownTransfer
<1> QED
  BY <1>1, <1>2

\* The operations of one entry.
LEMMA UserFollows ==
    ASSUME TypeOK, RatesUsable, index \in Indexes, IndexedUserStep
    PROVE  Follows
<1>0. \A a \in Amounts : a \in Nat /\ a \in Int
  BY BoundAssumption
<1>1. ASSUME NEW u \in Users, NEW v \in Users, NEW a \in Amounts, Deposit(u, v, a),
             index' = ApplyDepositWithReceipt(
                          ApplyReceiptTransfer(index, NoOne, v, MintId, a), MintId, a)
      PROVE  Follows
  BY <1>0, <1>1, DepositFollows
<1>2. ASSUME NEW u \in Users, NEW v \in Users, NEW a \in Amounts, NEW id \in Rounds,
             Redeem(u, v, id, a),
             index' = MarkUnderlyingRedemption(
                          ApplyReceiptTransfer(index, u, NoOne, id, a), u, id, a)
      PROVE  Follows
  <2> DEFINE mid == ApplyReceiptTransfer(index, u, NoOne, id, a)
  <2>1. mid \in Indexes
    BY <1>0, TransferType
  <2>2. Burn(u, id, a)
    BY <1>2 DEF Redeem
  <2> HIDE DEF mid
  <2>3. ReceiptsAlone(MarkUnderlyingRedemption(mid, u, id, a), mid)
    BY <1>0, <2>1, UnderlyingMarked
  <2> QED
    BY <1>0, <1>2, <2>2, <2>3, BurnFollows DEF mid
<1>3. ASSUME NEW u \in Users, NEW v \in Users, NEW a \in Amounts, NEW id \in Rounds,
             RedeemExchangeAsset(u, v, id, a),
             index' = MarkExchangeAssetRedemption(
                          ApplyReceiptTransfer(index, u, NoOne, id, a),
                          u, id, a, Quote(exchangeRate[id], a))
      PROVE  Follows
  <2> DEFINE mid == ApplyReceiptTransfer(index, u, NoOne, id, a)
             out == Quote(exchangeRate[id], a)
  <2>1. mid \in Indexes
    BY <1>0, TransferType
  <2>2. Burn(u, id, a) /\ roundState[id] = "Settled"
    BY <1>3 DEF RedeemExchangeAsset
  <2>3. out \in Nat
    BY <1>0, <2>2, QuoteType
  <2>4. out \in Int /\ a \in Int
    BY <1>0, <2>3
  <2> HIDE DEF mid, out
  <2>5. ReceiptsAlone(MarkExchangeAssetRedemption(mid, u, id, a, out), mid)
    BY <2>1, <2>4, ExchangeMarked
  <2> QED
    BY <1>0, <1>3, <2>2, <2>5, BurnFollows DEF mid, out
<1>4. ASSUME NEW u \in Users, NEW v \in Users, NEW a \in Amounts, NEW id \in Rounds,
             SafeTransferFrom(u, v, id, a), index' = ApplyReceiptTransfer(index, u, v, id, a)
      PROVE  Follows
  BY <1>0, <1>4, TransferFollows
<1> QED
  BY <1>1, <1>2, <1>3, <1>4 DEF IndexedUserStep

\* The operations of two entries.
LEMMA BatchFollows ==
    ASSUME TypeOK, RatesUsable, index \in Indexes, IndexedBatchStep
    PROVE  Follows
<1>0. \A a \in Amounts \ {0} : a \in Nat /\ a \in Int
  BY BoundAssumption
<1> DEFINE Burnt(u, i, a, j, b) == ApplyTransferBatch(index, u, NoOne, i, a, j, b)
<1>t. ASSUME NEW u \in Users, NEW a \in Amounts \ {0}, NEW b \in Amounts \ {0},
             NEW i \in Rounds, NEW j \in Rounds
      PROVE  Burnt(u, i, a, j, b) \in Indexes
  <2> DEFINE mid == ApplyReceiptTransfer(index, u, NoOne, i, a)
  <2>1. mid \in Indexes
    BY <1>0, TransferType
  <2> HIDE DEF mid
  <2>2. ApplyReceiptTransfer(mid, u, NoOne, j, b) \in Indexes
    BY <1>0, <2>1, TransferType
  <2> QED
    BY <2>2 DEF ApplyTransferBatch, mid
<1>1. ASSUME NEW u \in Users, NEW v \in Users, NEW a \in Amounts \ {0},
             NEW b \in Amounts \ {0}, NEW i \in Rounds, NEW j \in Rounds,
             RedeemBatch(u, v, i, a, j, b),
             index' = MarkUnderlyingRedemption(
                          MarkUnderlyingRedemption(Burnt(u, i, a, j, b), u, i, a), u, j, b)
      PROVE  Follows
  <2> DEFINE mid == Burnt(u, i, a, j, b)
             first == MarkUnderlyingRedemption(mid, u, i, a)
  <2>1. mid \in Indexes
    BY <1>t
  <2>2. BurnBatch(u, i, a, j, b)
    BY <1>1 DEF RedeemBatch
  <2> HIDE DEF mid
  <2>3. ReceiptsAlone(first, mid)
    BY <1>0, <2>1, UnderlyingMarked
  <2>4. first \in Indexes
    BY <2>3 DEF ReceiptsAlone, Kept
  <2> HIDE DEF first
  <2>5. ReceiptsAlone(MarkUnderlyingRedemption(first, u, j, b), first)
    BY <1>0, <2>4, UnderlyingMarked
  <2>6. ReceiptsAlone(MarkUnderlyingRedemption(first, u, j, b), mid)
    BY <2>3, <2>5, AloneTwice
  <2>7. index' = MarkUnderlyingRedemption(first, u, j, b)
    BY <1>1 DEF first, mid
  <2> QED
    BY <1>0, <2>2, <2>6, <2>7, BurnBatchFollows DEF mid
<1>2. ASSUME NEW u \in Users, NEW v \in Users, NEW a \in Amounts \ {0},
             NEW b \in Amounts \ {0}, NEW i \in Rounds, NEW j \in Rounds,
             RedeemExchangeAssetBatch(u, v, i, a, j, b),
             index' = MarkExchangeAssetRedemptionBatch(
                          Burnt(u, i, a, j, b), u, i, a, j, b,
                          Quote(exchangeRate[i], a) + Quote(exchangeRate[j], b))
      PROVE  Follows
  <2> DEFINE mid == Burnt(u, i, a, j, b)
             out1 == Quote(exchangeRate[i], a)
             out2 == Quote(exchangeRate[j], b)
  <2>1. mid \in Indexes
    BY <1>t
  <2>2. /\ BurnBatch(u, i, a, j, b)
        /\ roundState[i] = "Settled" /\ roundState[j] = "Settled"
    BY <1>2 DEF RedeemExchangeAssetBatch
  <2>3. out1 \in Nat /\ out2 \in Nat
    BY <1>0, <2>2, QuoteType
  <2> HIDE DEF mid, out1, out2
  <2>4. out1 + out2 \in Int
    BY <2>3
  <2>5. ReceiptsAlone(
          MarkExchangeAssetRedemptionBatch(mid, u, i, a, j, b, out1 + out2), mid)
    BY <1>0, <2>1, <2>4, ExchangeBatchMarked
  <2>6. index' = MarkExchangeAssetRedemptionBatch(mid, u, i, a, j, b, out1 + out2)
    BY <1>2 DEF mid, out1, out2
  <2> QED
    BY <1>0, <2>2, <2>5, <2>6, BurnBatchFollows DEF mid
<1>3. ASSUME NEW u \in Users, NEW v \in Users, NEW a \in Amounts \ {0},
             NEW b \in Amounts \ {0}, NEW i \in Rounds, NEW j \in Rounds,
             SafeBatchTransferFrom(u, v, i, a, j, b),
             index' = ApplyTransferBatch(index, u, v, i, a, j, b)
      PROVE  Follows
  BY <1>0, <1>3, BatchTransferFollows
<1> QED
  BY <1>1, <1>2, <1>3 DEF IndexedBatchStep

\* The registry's events store the vault, and write nothing when it is stored.
LEMMA RegistryFollows ==
    ASSUME TypeOK, index \in Indexes, RegistryStep
    PROVE  Follows
<1>1. supply' = supply /\ receipts' = receipts
  BY DEF RegistryStep, vars
<1>2. index' = index \/ index' = CreateRoundsVault(index)
  BY DEF RegistryStep, RegisterPair, SetVault, ClearVault, SetActive
<1>3. index.known => index' = index
  BY <1>2 DEF CreateRoundsVault
<1>4. index' \in Indexes
  BY <1>2, CreatedType DEF TypeOK
<1>5. CASE index.known
  BY <1>1, <1>3, <1>5, SameIndex, QuietStep
<1>6. CASE ~index.known
  BY <1>4, <1>6 DEF Follows
<1> QED
  BY <1>5, <1>6

\* Every step of the vault, of the registry and of the environment.
LEMMA EveryStepFollows ==
    ASSUME TypeOK, RatesUsable, index \in Indexes, [VaultStep \/ RegistryStep]_allVars
    PROVE  Follows
<1>1. CASE IndexedUserStep
  BY <1>1, UserFollows
<1>2. CASE IndexedBatchStep
  BY <1>2, BatchFollows
<1>3. CASE IndexedKeeperStep
  BY <1>3, KeeperFollows
<1>4. CASE IndexedGovernorStep
  BY <1>4, GovernorFollows
<1>5. CASE (EnvironmentStep /\ UNCHANGED index) \/ UNCHANGED allVars
  <2>1. supply' = supply /\ receipts' = receipts /\ index' = index
    BY <1>5 DEF EnvironmentStep, SetWhitelisted, TargetPriceMoves, TargetCloses,
       TargetOpens, receiptVars, allVars, vars, indexVars
  <2> QED
    BY <2>1, SameIndex, QuietStep
<1>6. CASE RegistryStep
  BY <1>6, RegistryFollows
<1> QED
  BY <1>1, <1>2, <1>3, <1>4, <1>5, <1>6 DEF VaultStep

---------------------------------------------------------------------------
(* The theorems *)

\* Every step of the vault, the registry and the index is a step of the vault
\* alone, or none.
LEMMA IndexedStep == [VaultStep \/ RegistryStep]_allVars => [Next]_vars
<1> SUFFICES ASSUME [VaultStep \/ RegistryStep]_allVars PROVE [Next]_vars
  OBVIOUS
<1>1. CASE IndexedUserStep
  BY <1>1 DEF IndexedUserStep, UserStep, Next
<1>2. CASE IndexedBatchStep
  BY <1>2 DEF IndexedBatchStep, BatchStep, Next
<1>3. CASE IndexedKeeperStep
  BY <1>3 DEF IndexedKeeperStep, KeeperStep, Next
<1>4. CASE IndexedGovernorStep
  BY <1>4 DEF IndexedGovernorStep, GovernorStep, Next
<1>5. CASE EnvironmentStep
  BY <1>5 DEF Next
<1>6. CASE RegistryStep \/ UNCHANGED allVars
  BY <1>6 DEF RegistryStep, allVars
<1> QED
  BY <1>1, <1>2, <1>3, <1>4, <1>5, <1>6 DEF VaultStep

\* Being registered and indexed does nothing to the vault: the composition
\* implements its specification, so that every theorem about it holds here too.
THEOREM IndexedVault == IndexSpec => Spec
<1>1. IndexInit => Init
  BY DEF IndexInit
<1> QED
  BY <1>1, IndexedStep, PTL DEF IndexSpec, Spec

\* The rows are well formed in every state.
LEMMA IndexTyped == IndexSpec => [](IInv /\ index \in Indexes)
<1>1. IndexInit => index \in Indexes
  <2> SUFFICES ASSUME IndexInit PROVE index \in Indexes
    OBVIOUS
  <2>1. minPositionSize \in Nat
    BY DEF IndexInit, Init
  <2> QED
    BY <2>1, EmptyIndexType, CreatedType DEF IndexInit
<1>2. IInv /\ index \in Indexes /\ [VaultStep \/ RegistryStep]_allVars => index' \in Indexes
  BY EveryStepFollows, SolventRates DEF IInv, Follows
<1>3. IndexSpec => []IInv
  BY IndexedVault, Invariant, PTL
<1>4. (index \in Indexes)' <=> index' \in Indexes
  OBVIOUS
<1> QED
  BY <1>1, <1>2, <1>3, <1>4, PTL DEF IndexSpec

\* From the moment the registry names the vault, and for every transaction, by
\* anyone and of any amounts (a batch over one round twice, a transfer to
\* oneself and an empty transfer among them), the handlers change the stored
\* balances and supplies by exactly what the vault changes them by.
THEOREM ReceiptsIndexed == IndexSpec => IndexFollowsReceipts
<1> DEFINE Body == index.known =>
                     \A id \in Rounds :
                        /\ index'.round[id].receiptSupply - index.round[id].receiptSupply
                              = supply'[id] - supply[id]
                        /\ \A u \in Users :
                              index'.receipt[u][id].balance - index.receipt[u][id].balance
                                  = receipts'[u][id] - receipts[u][id]
<1>1. IInv /\ index \in Indexes /\ [VaultStep \/ RegistryStep]_allVars => [Body]_allVars
  <2> SUFFICES ASSUME IInv, index \in Indexes, [VaultStep \/ RegistryStep]_allVars,
                      index.known, NEW id \in Rounds
               PROVE  /\ index'.round[id].receiptSupply - index.round[id].receiptSupply
                            = supply'[id] - supply[id]
                      /\ \A u \in Users :
                            index'.receipt[u][id].balance - index.receipt[u][id].balance
                                = receipts'[u][id] - receipts[u][id]
    OBVIOUS
  <2>1. Follows
    BY EveryStepFollows, SolventRates DEF IInv
  <2> QED
    BY <2>1 DEF Follows, Supplies, Balances
<1> QED
  BY <1>1, IndexTyped, PTL DEF IndexSpec, IndexFollowsReceipts

---------------------------------------------------------------------------
(* What the index tells of the rounds *)

\* The round k tells what an empty round does, whether or not it is stored.
Empty(ix, k) == ix.round[k] = [NoRound EXCEPT !.known = ix.round[k].known]

\* The rounds up to n are told, in the states and at the rates given.
Tells(ix, n, states, rates) ==
    \A k \in Rounds :
        /\ k <= n => /\ ix.round[k].known
                     /\ ix.round[k].state = states[k]
                     /\ ix.round[k].rate = rates[k]
        /\ k > n => Empty(ix, k)

\* The vault's own row is as it was.
SameVault(new, ix) ==
    /\ Kept(new, ix)
    /\ new.currentRound = ix.currentRound /\ new.minPositionSize = ix.minPositionSize

\* Rounds up to n are told as before; a later one may have been stored.
LifeKept(new, ix, n) ==
    /\ SameVault(new, ix)
    /\ \A k \in Rounds :
        /\ k <= n => /\ ix.round[k].known => new.round[k].known
                     /\ new.round[k].state = ix.round[k].state
                     /\ new.round[k].rate = ix.round[k].rate
        /\ k > n => \E b \in BOOLEAN : new.round[k] = [ix.round[k] EXCEPT !.known = b]

\* Round id is stored in the state and at the rate given, the others as they were.
LifeSet(new, ix, id, state, rate) ==
    /\ SameVault(new, ix)
    /\ new.round[id].known /\ new.round[id].state = state /\ new.round[id].rate = rate
    /\ \A k \in Rounds \ {id} : new.round[k] = ix.round[k]

\* What is kept twice is kept.
LEMMA LifeKeptTwice ==
    ASSUME NEW a \in Indexes, NEW b, NEW c, NEW n, LifeKept(b, a, n), LifeKept(c, b, n)
    PROVE  LifeKept(c, a, n)
<1>1. SameVault(c, a)
  BY DEF LifeKept, SameVault, Kept
<1>2. ASSUME NEW k \in Rounds, k <= n
      PROVE  /\ a.round[k].known => c.round[k].known
             /\ c.round[k].state = a.round[k].state
             /\ c.round[k].rate = a.round[k].rate
  BY <1>2 DEF LifeKept
<1>3. ASSUME NEW k \in Rounds, k > n
      PROVE  \E d \in BOOLEAN : c.round[k] = [a.round[k] EXCEPT !.known = d]
  <2>1. PICK d \in BOOLEAN : b.round[k] = [a.round[k] EXCEPT !.known = d]
    BY <1>3 DEF LifeKept
  <2>2. PICK e \in BOOLEAN : c.round[k] = [b.round[k] EXCEPT !.known = e]
    BY <1>3 DEF LifeKept
  <2> DEFINE row == a.round[k]
  <2>3. row \in RoundRows
    BY DEF Indexes
  <2> HIDE DEF row
  <2>4. [[row EXCEPT !.known = d] EXCEPT !.known = e] = [row EXCEPT !.known = e]
    BY <2>3 DEF RoundRows
  <2>5. c.round[k] = [row EXCEPT !.known = e]
    BY <2>1, <2>2, <2>4 DEF row
  <2> QED
    BY <2>5 DEF row
<1> QED
  BY <1>1, <1>2, <1>3 DEF LifeKept

\* An index whose rounds are those it had.
LEMMA RoundsAlone ==
    ASSUME NEW ix \in Indexes, NEW new, SameVault(new, ix), new.round = ix.round, NEW n
    PROVE  LifeKept(new, ix, n)
<1>1. ASSUME NEW k \in Rounds
      PROVE  \E b \in BOOLEAN : new.round[k] = [ix.round[k] EXCEPT !.known = b]
  <2> DEFINE row == ix.round[k]
  <2>1. row \in RoundRows
    BY DEF Indexes
  <2> HIDE DEF row
  <2>2. row.known \in BOOLEAN /\ row = [row EXCEPT !.known = row.known]
    BY <2>1 DEF RoundRows
  <2> QED
    BY <2>2 DEF row
<1> QED
  BY <1>1 DEF LifeKept

\* One Round row replaced.
LEMMA RowReplaced ==
    ASSUME NEW ix \in Indexes, NEW id \in Rounds, NEW row \in RoundRows
    PROVE  /\ SameVault(WriteRound(ix, id, row), ix)
           /\ WriteRound(ix, id, row).round = [ix.round EXCEPT ![id] = row]
<1> DEFINE f == [ix.round EXCEPT ![id] = row]
           new == [ix EXCEPT !.round = f]
<1>1. f \in [Rounds -> RoundRows]
  BY DEF Indexes
<1>2. new = WriteRound(ix, id, row)
  BY DEF WriteRound
<1> HIDE DEF f
<1>3. /\ new \in Indexes /\ new.known = ix.known /\ new.round = f
      /\ new.currentRound = ix.currentRound /\ new.minPositionSize = ix.minPositionSize
  BY <1>1 DEF Indexes
<1> HIDE DEF new
<1> QED
  BY <1>2, <1>3 DEF SameVault, Kept, f

\* One Receipt row replaced: the rounds are as they were.
LEMMA ReceiptReplaced ==
    ASSUME NEW ix \in Indexes, NEW u \in Users, NEW id \in Rounds, NEW row \in ReceiptRows, NEW n
    PROVE  LifeKept(WriteReceipt(ix, u, id, row), ix, n)
<1> DEFINE f == [ix.receipt EXCEPT ![u][id] = row]
           new == [ix EXCEPT !.receipt = f]
<1>1. f \in [Users -> [Rounds -> ReceiptRows]]
  BY DEF Indexes
<1>2. new = WriteReceipt(ix, u, id, row)
  BY DEF WriteReceipt
<1> HIDE DEF f
<1>3. /\ new \in Indexes /\ new.known = ix.known /\ new.round = ix.round
      /\ new.currentRound = ix.currentRound /\ new.minPositionSize = ix.minPositionSize
  BY <1>1 DEF Indexes
<1> HIDE DEF new
<1>4. SameVault(new, ix)
  BY <1>3 DEF SameVault, Kept
<1> QED
  BY <1>2, <1>3, <1>4, RoundsAlone

\* A round that has begun, written with the state and the rate it had.
LEMMA SumWritten ==
    ASSUME NEW ix \in Indexes, NEW id \in Rounds, NEW n \in Nat, id <= n, NEW row \in RoundRows,
           ix.round[id].known => row.known,
           row.state = ix.round[id].state, row.rate = ix.round[id].rate
    PROVE  LifeKept(WriteRound(ix, id, row), ix, n)
<1> DEFINE new == WriteRound(ix, id, row)
<1>1. SameVault(new, ix) /\ new.round = [ix.round EXCEPT ![id] = row]
  BY RowReplaced
<1> HIDE DEF new
<1>2. ix.round \in [Rounds -> RoundRows]
  BY DEF Indexes
<1>3. LifeKept(ix, ix, n)
  BY RoundsAlone DEF SameVault, Kept
<1>4. ASSUME NEW k \in Rounds, k # id PROVE new.round[k] = ix.round[k]
  BY <1>1, <1>2, <1>4
<1>5. new.round[id] = row
  BY <1>1, <1>2
<1>6. ASSUME NEW k \in Rounds, k <= n
      PROVE  /\ ix.round[k].known => new.round[k].known
             /\ new.round[k].state = ix.round[k].state
             /\ new.round[k].rate = ix.round[k].rate
  BY <1>4, <1>5
<1>7. ASSUME NEW k \in Rounds, k > n
      PROVE  \E b \in BOOLEAN : new.round[k] = [ix.round[k] EXCEPT !.known = b]
  <2>1. CASE k # id
    BY <1>3, <1>4, <1>7, <2>1 DEF LifeKept
  <2>2. CASE k = id
    BY <1>7, <2>2, BoundAssumption DEF Rounds
  <2> QED
    BY <2>1, <2>2
<1> QED
  BY <1>1, <1>6, <1>7 DEF LifeKept, new

\* getOrCreateRound.
LEMMA TouchedKeeps ==
    ASSUME NEW ix \in Indexes, NEW id \in Rounds, NEW n \in Nat
    PROVE  /\ LifeKept(Touched(ix, id), ix, n)
           /\ LifeSet(Touched(ix, id), ix, id, ix.round[id].state, ix.round[id].rate)
<1> DEFINE old == ix.round[id]
           row == [old EXCEPT !.known = TRUE]
           new == WriteRound(ix, id, row)
<1>1. Touched(ix, id) = new
  BY DEF Touched, WriteRound
<1>2. ix.round \in [Rounds -> RoundRows] /\ old \in RoundRows
  BY DEF Indexes
<1> HIDE DEF old
<1>3. row \in RoundRows /\ row.known /\ row.state = old.state /\ row.rate = old.rate
  BY <1>2 DEF RoundRows
<1>r. row = [old EXCEPT !.known = TRUE]
  OBVIOUS
<1> HIDE DEF row
<1>4. SameVault(new, ix) /\ new.round = [ix.round EXCEPT ![id] = row]
  BY <1>3, RowReplaced
<1> HIDE DEF new
<1>5. /\ new.round[id] = row
      /\ \A k \in Rounds \ {id} : new.round[k] = ix.round[k]
  BY <1>2, <1>4
<1>6. LifeSet(new, ix, id, old.state, old.rate)
  BY <1>3, <1>4, <1>5 DEF LifeSet
<1>7. LifeKept(ix, ix, n)
  BY RoundsAlone DEF SameVault, Kept
<1>8. ASSUME NEW k \in Rounds
      PROVE  /\ k <= n => /\ ix.round[k].known => new.round[k].known
                          /\ new.round[k].state = ix.round[k].state
                          /\ new.round[k].rate = ix.round[k].rate
             /\ k > n => \E b \in BOOLEAN : new.round[k] = [ix.round[k] EXCEPT !.known = b]
  <2>1. CASE k # id
    <3>1. new.round[k] = ix.round[k]
      BY <1>5, <2>1
    <3> QED
      BY <1>7, <3>1 DEF LifeKept
  <2>2. CASE k = id
    <3>1. new.round[k] = row /\ ix.round[k] = old
      BY <1>5, <2>2 DEF old
    <3>2. \E b \in BOOLEAN : row = [old EXCEPT !.known = b]
      BY <1>r
    <3> QED
      BY <1>3, <3>1, <3>2
  <2> QED
    BY <2>1, <2>2
<1>9. LifeKept(new, ix, n)
  BY <1>4, <1>8 DEF LifeKept
<1> QED
  BY <1>1, <1>6, <1>9 DEF old

\* The two writes to a balance.
LEMMA BalanceKeeps ==
    ASSUME NEW ix \in Indexes, NEW u \in Users, NEW id \in Rounds, NEW d \in Int, NEW n
    PROVE  /\ LifeKept(AddBalance(ix, u, id, d), ix, n)
           /\ LifeKept(TakeBalance(ix, u, id, d), ix, n)
<1> DEFINE old == ix.receipt[u][id]
           more == [old EXCEPT !.balance = @ + d]
           less == [old EXCEPT !.balance = @ - d]
<1>1. old \in ReceiptRows
  BY DEF Indexes
<1>2. /\ AddBalance(ix, u, id, d) = WriteReceipt(ix, u, id, more)
      /\ TakeBalance(ix, u, id, d) = WriteReceipt(ix, u, id, less)
  BY DEF AddBalance, TakeBalance, WriteReceipt
<1> HIDE DEF old
<1>3. more \in ReceiptRows /\ less \in ReceiptRows
  BY <1>1 DEF ReceiptRows
<1> HIDE DEF more, less
<1> QED
  BY <1>2, <1>3, ReceiptReplaced

\* The write to a supply: of a round that has begun, or of nothing.
LEMMA SupplyKeeps ==
    ASSUME NEW ix \in Indexes, NEW id \in Rounds, NEW d \in Int, NEW e \in Int,
           NEW n \in Nat, id <= n \/ d = e
    PROVE  LifeKept(AddSupply(ix, id, d, e), ix, n)
<1> DEFINE old == ix.round[id]
           row == [old EXCEPT !.receiptSupply = @ + d - e]
<1>1. ix.round \in [Rounds -> RoundRows] /\ old \in RoundRows
  BY DEF Indexes
<1>2. AddSupply(ix, id, d, e) = WriteRound(ix, id, row)
  BY DEF AddSupply, WriteRound
<1>h. old = ix.round[id]
  OBVIOUS
<1> HIDE DEF old
<1>3. /\ row \in RoundRows /\ row.known = old.known
      /\ row.state = old.state /\ row.rate = old.rate
  BY <1>1 DEF RoundRows
<1>4. d = e => row = old
  BY <1>1 DEF RoundRows
<1> HIDE DEF row
<1>5. CASE id <= n
  BY <1>2, <1>3, <1>5, <1>h, SumWritten
<1>6. CASE d = e
  <2> DEFINE new == WriteRound(ix, id, row)
  <2>1. SameVault(new, ix) /\ new.round = [ix.round EXCEPT ![id] = row]
    BY <1>3, RowReplaced
  <2>2. new.round = ix.round
    BY <1>1, <1>4, <1>6, <1>h, <2>1
  <2> HIDE DEF new
  <2>3. LifeKept(new, ix, n)
    BY <2>1, <2>2, RoundsAlone
  <2> QED
    BY <1>2, <2>3 DEF new
<1> QED
  BY <1>5, <1>6

---------------------------------------------------------------------------
(* The handlers that keep what is told *)

\* A mint and a burn in a round that has begun, and a transfer in any.
LEMMA TransferKeepsLife ==
    ASSUME NEW ix \in Indexes, NEW from \in Users \cup {NoOne}, NEW to \in Users \cup {NoOne},
           NEW id \in Rounds, NEW a \in Nat, NEW n \in Nat,
           id <= n \/ (from # NoOne /\ to # NoOne)
    PROVE  LifeKept(ApplyReceiptTransfer(ix, from, to, id, a), ix, n)
<1> DEFINE opened == Touched(ix, id)
           sent == IF from = NoOne THEN opened ELSE TakeBalance(opened, from, id, a)
           received == IF to = NoOne THEN sent ELSE AddBalance(sent, to, id, a)
           d == IF from = NoOne THEN a ELSE 0
           e == IF from # NoOne /\ to = NoOne THEN a ELSE 0
           new == AddSupply(received, id, d, e)
<1>1. ApplyReceiptTransfer(ix, from, to, id, a) = IfKnown(ix, new)
  BY DEF ApplyReceiptTransfer, AddSupply, TakeBalance, AddBalance
<1>2. LifeKept(opened, ix, n) /\ opened \in Indexes
  BY TouchedKeeps DEF LifeKept, SameVault, Kept
<1>o. opened.round \in [Rounds -> RoundRows]
  <2> HIDE DEF opened
  <2> QED BY <1>2 DEF Indexes
<1> HIDE DEF opened
<1>3. LifeKept(sent, opened, n) /\ sent \in Indexes
  <2>1. LifeKept(opened, opened, n)
    BY <1>2, RoundsAlone DEF SameVault, Kept
  <2>2. from # NoOne => LifeKept(TakeBalance(opened, from, id, a), opened, n)
    BY <1>2, BalanceKeeps
  <2>3. LifeKept(sent, opened, n)
    BY <2>1, <2>2
  <2> QED
    BY <2>3 DEF LifeKept, SameVault, Kept
<1> HIDE DEF sent
<1>4. LifeKept(received, sent, n) /\ received \in Indexes
  <2>1. LifeKept(sent, sent, n)
    BY <1>3, RoundsAlone DEF SameVault, Kept
  <2>2. to # NoOne => LifeKept(AddBalance(sent, to, id, a), sent, n)
    BY <1>3, BalanceKeeps
  <2>3. LifeKept(received, sent, n)
    BY <2>1, <2>2
  <2> QED
    BY <2>3 DEF LifeKept, SameVault, Kept
<1> HIDE DEF received
<1>5. d \in Int /\ e \in Int /\ (id <= n \/ d = e)
  OBVIOUS
<1> HIDE DEF d, e
<1>6. LifeKept(new, received, n)
  BY <1>4, <1>5, SupplyKeeps
<1> HIDE DEF new
<1>7. LifeKept(sent, ix, n)
  BY <1>2, <1>3, LifeKeptTwice
<1>8. LifeKept(received, ix, n)
  BY <1>4, <1>7, LifeKeptTwice
<1>9. LifeKept(new, ix, n)
  BY <1>6, <1>8, LifeKeptTwice
<1>10. LifeKept(ix, ix, n)
  BY RoundsAlone DEF SameVault, Kept
<1> QED
  BY <1>1, <1>9, <1>10 DEF IfKnown

\* A handler that writes a sum of a round that has begun.
LEMMA SumKeepsLife ==
    ASSUME NEW ix \in Indexes, NEW id \in Rounds, NEW n \in Nat, id <= n, NEW row \in RoundRows,
           row.known = Touched(ix, id).round[id].known,
           row.state = Touched(ix, id).round[id].state,
           row.rate = Touched(ix, id).round[id].rate
    PROVE  LifeKept(WriteRound(Touched(ix, id), id, row), ix, n)
<1> DEFINE opened == Touched(ix, id)
<1>1. LifeKept(opened, ix, n) /\ opened \in Indexes
  BY TouchedKeeps DEF LifeKept, SameVault, Kept
<1>2. /\ opened.round[id].known => row.known
      /\ row.state = opened.round[id].state /\ row.rate = opened.round[id].rate
  OBVIOUS
<1> HIDE DEF opened
<1>3. LifeKept(WriteRound(opened, id, row), opened, n)
  BY <1>1, <1>2, SumWritten
<1>4. LifeKept(WriteRound(opened, id, row), ix, n)
  BY <1>1, <1>3, LifeKeptTwice
<1> QED
  BY <1>4 DEF opened

\* A handler that does nothing.
LEMMA SameLife ==
    ASSUME NEW ix \in Indexes, NEW n PROVE LifeKept(ix, ix, n)
  BY RoundsAlone DEF SameVault, Kept

\* applyDepositWithReceipt.
LEMMA DepositKeepsLife ==
    ASSUME NEW ix \in Indexes, NEW id \in Rounds, NEW a \in Int, NEW n \in Nat, id <= n
    PROVE  LifeKept(ApplyDepositWithReceipt(ix, id, a), ix, n)
<1> DEFINE old == Touched(ix, id).round[id]
           row == [old EXCEPT !.depositsQueued = @ + a]
<1>1. old \in RoundRows
  BY TouchedRow
<1>2. WriteRound(Touched(ix, id), id, row)
        = [Touched(ix, id) EXCEPT !.round[id].depositsQueued = @ + a]
  BY DEF WriteRound
<1> HIDE DEF old
<1>3. /\ row \in RoundRows /\ row.known = old.known
      /\ row.state = old.state /\ row.rate = old.rate
  BY <1>1 DEF RoundRows
<1> HIDE DEF row
<1>4. LifeKept(WriteRound(Touched(ix, id), id, row), ix, n)
  BY <1>3, SumKeepsLife DEF old
<1> QED
  BY <1>2, <1>4, SameLife DEF ApplyDepositWithReceipt, IfKnown

\* markUnderlyingRedemption.
LEMMA UnderlyingKeepsLife ==
    ASSUME NEW ix \in Indexes, NEW u, NEW id \in Rounds, NEW a \in Int, NEW n \in Nat, id <= n
    PROVE  LifeKept(MarkUnderlyingRedemption(ix, u, id, a), ix, n)
<1> DEFINE old == Touched(ix, id).round[id]
           row == [old EXCEPT !.depositsRedeemed = @ + a]
<1>1. old \in RoundRows
  BY TouchedRow
<1>2. WriteRound(Touched(ix, id), id, row)
        = [Touched(ix, id) EXCEPT !.round[id].depositsRedeemed = @ + a]
  BY DEF WriteRound
<1> HIDE DEF old
<1>3. /\ row \in RoundRows /\ row.known = old.known
      /\ row.state = old.state /\ row.rate = old.rate
  BY <1>1 DEF RoundRows
<1> HIDE DEF row
<1>4. LifeKept(WriteRound(Touched(ix, id), id, row), ix, n)
  BY <1>3, SumKeepsLife DEF old
<1> QED
  BY <1>2, <1>4, SameLife DEF MarkUnderlyingRedemption, IfKnown

\* The trade of a settlement.
LEMMA TradeKeepsLife ==
    ASSUME NEW ix \in Indexes, NEW id \in Rounds, NEW x \in Int, NEW y \in Int,
           NEW n \in Nat, id <= n
    PROVE  LifeKept(HandleTargetTrade(ix, id, x, y), ix, n)
<1> DEFINE old == ix.round[id]
           mid == [old EXCEPT !.settledUnderlying = x]
           row == [mid EXCEPT !.settledExchange = y]
<1>1. old \in RoundRows
  BY DEF Indexes
<1>2. WriteRound(ix, id, row)
        = [ix EXCEPT !.round[id].settledUnderlying = x, !.round[id].settledExchange = y]
  BY <1>1 DEF WriteRound
<1> HIDE DEF old
<1>3. /\ row \in RoundRows /\ row.known = old.known
      /\ row.state = old.state /\ row.rate = old.rate
  BY <1>1 DEF RoundRows
<1> HIDE DEF row
<1>4. LifeKept(WriteRound(ix, id, row), ix, n)
  BY <1>3, SumWritten DEF old
<1> QED
  BY <1>2, <1>4, SameLife DEF HandleTargetTrade, IfKnown

\* markExchangeAssetRedemption.
LEMMA ExchangeKeepsLife ==
    ASSUME NEW ix \in Indexes, NEW u \in Users, NEW id \in Rounds,
           NEW a \in Int, NEW x \in Int, NEW n \in Nat, id <= n
    PROVE  LifeKept(MarkExchangeAssetRedemption(ix, u, id, a, x), ix, n)
<1> DEFINE opened == Touched(ix, id)
           received == opened.receipt[u][id].exchangeReceived + x
           withdrawn == opened.round[id].exchangeAssetWithdrawn + x
           asked == WriteReceipt(opened, u, id,
                        [opened.receipt[u][id] EXCEPT !.redeemedForExchange = @ + a])
           paid == WriteReceipt(asked, u, id,
                        [asked.receipt[u][id] EXCEPT !.exchangeReceived = received])
           new == WriteRound(paid, id,
                        [paid.round[id] EXCEPT !.exchangeAssetWithdrawn = withdrawn])
<1>1. LifeKept(opened, ix, n) /\ opened \in Indexes
  BY TouchedKeeps DEF LifeKept, SameVault, Kept
<1>2. new = [opened EXCEPT !.receipt[u][id].redeemedForExchange = @ + a,
                           !.receipt[u][id].exchangeReceived = @ + x,
                           !.round[id].exchangeAssetWithdrawn = @ + x]
  BY DEF WriteRound, WriteReceipt
<1>a. received \in Int /\ withdrawn \in Int
  <2> HIDE DEF opened
  <2> QED
    BY <1>1 DEF Indexes, ReceiptRows, RoundRows
<1> HIDE DEF received, withdrawn
<1>3. LifeKept(asked, opened, n) /\ asked \in Indexes
  <2> HIDE DEF opened
  <2> DEFINE old == opened.receipt[u][id]
             row == [old EXCEPT !.redeemedForExchange = @ + a]
  <2>0. old \in ReceiptRows
    BY <1>1 DEF Indexes
  <2> HIDE DEF old
  <2>1. row \in ReceiptRows
    BY <2>0 DEF ReceiptRows
  <2> HIDE DEF row
  <2>2. LifeKept(WriteReceipt(opened, u, id, row), opened, n)
    BY <1>1, <2>1, ReceiptReplaced
  <2> QED
    BY <2>2 DEF LifeKept, SameVault, Kept, row, old
<1>4. LifeKept(paid, asked, n) /\ paid \in Indexes
  <2> HIDE DEF asked
  <2> DEFINE old == asked.receipt[u][id]
             row == [old EXCEPT !.exchangeReceived = received]
  <2>0. old \in ReceiptRows
    BY <1>3 DEF Indexes
  <2> HIDE DEF old
  <2>1. row \in ReceiptRows
    BY <1>a, <2>0 DEF ReceiptRows
  <2> HIDE DEF row
  <2>2. LifeKept(WriteReceipt(asked, u, id, row), asked, n)
    BY <1>3, <2>1, ReceiptReplaced
  <2> QED
    BY <2>2 DEF LifeKept, SameVault, Kept, row, old
<1>5. LifeKept(new, paid, n)
  <2> HIDE DEF paid
  <2> DEFINE old == paid.round[id]
             row == [old EXCEPT !.exchangeAssetWithdrawn = withdrawn]
  <2>1. old \in RoundRows
    BY <1>4 DEF Indexes
  <2> HIDE DEF old
  <2>2. /\ row \in RoundRows /\ row.known = old.known
        /\ row.state = old.state /\ row.rate = old.rate
    BY <1>a, <2>1 DEF RoundRows
  <2> HIDE DEF row
  <2>3. LifeKept(WriteRound(paid, id, row), paid, n)
    BY <1>4, <2>2, SumWritten DEF old
  <2> QED
    BY <2>3 DEF row, old
<1> HIDE DEF opened, asked, paid, new
<1>6. LifeKept(paid, ix, n)
  <2>1. LifeKept(asked, ix, n)
    BY <1>1, <1>3, LifeKeptTwice
  <2> QED
    BY <1>4, <2>1, LifeKeptTwice
<1>7. LifeKept(new, ix, n)
  BY <1>5, <1>6, LifeKeptTwice
<1>8. MarkExchangeAssetRedemption(ix, u, id, a, x) = IF ix.known THEN new ELSE ix
  BY <1>2 DEF MarkExchangeAssetRedemption, IfKnown, opened
<1> QED
  BY <1>7, <1>8, SameLife

\* Two entries of a redemption.
LEMMA ExchangeBatchKeepsLife ==
    ASSUME NEW ix \in Indexes, NEW u \in Users, NEW i \in Rounds, NEW a \in Nat,
           NEW j \in Rounds, NEW b \in Nat, NEW total \in Int,
           NEW n \in Nat, i <= n, j <= n
    PROVE  LifeKept(MarkExchangeAssetRedemptionBatch(ix, u, i, a, j, b, total), ix, n)
<1> DEFINE part == IndexedPart(ix, i, a)
           first == MarkExchangeAssetRedemption(ix, u, i, a, part)
           new == MarkExchangeAssetRedemption(first, u, j, b, total - part)
<1>1. part \in Int /\ total - part \in Int /\ a \in Int /\ b \in Int
  BY PartType
<1> HIDE DEF part
<1>2. LifeKept(first, ix, n)
  BY <1>1, ExchangeKeepsLife
<1>3. first \in Indexes
  BY <1>2 DEF LifeKept, SameVault, Kept
<1> HIDE DEF first
<1>4. LifeKept(new, first, n)
  BY <1>1, <1>3, ExchangeKeepsLife
<1> HIDE DEF new
<1>5. LifeKept(new, ix, n)
  BY <1>2, <1>4, LifeKeptTwice
<1> QED
  BY <1>5 DEF MarkExchangeAssetRedemptionBatch, new, first, part

\* Two entries of a burn or of a transfer.
LEMMA BatchKeepsLife ==
    ASSUME NEW ix \in Indexes, NEW from \in Users, NEW to \in Users \cup {NoOne},
           NEW i \in Rounds, NEW a \in Nat, NEW j \in Rounds, NEW b \in Nat, NEW n \in Nat,
           (i <= n /\ j <= n) \/ to # NoOne
    PROVE  LifeKept(ApplyTransferBatch(ix, from, to, i, a, j, b), ix, n)
<1> DEFINE first == ApplyReceiptTransfer(ix, from, to, i, a)
           new == ApplyReceiptTransfer(first, from, to, j, b)
<1>0. from \in Users \cup {NoOne} /\ from # NoOne
  BY UsersAssumption
<1>1. LifeKept(first, ix, n)
  BY <1>0, TransferKeepsLife
<1>2. first \in Indexes
  BY <1>1 DEF LifeKept, SameVault, Kept
<1> HIDE DEF first
<1>3. LifeKept(new, first, n)
  BY <1>0, <1>2, TransferKeepsLife
<1> HIDE DEF new
<1>4. LifeKept(new, ix, n)
  BY <1>1, <1>3, LifeKeptTwice
<1> QED
  BY <1>4 DEF ApplyTransferBatch, new, first

---------------------------------------------------------------------------
(* The handlers of the life of a round *)

\* A round is stored and written in a new state.
LEMMA RoundSet ==
    ASSUME NEW ix \in Indexes, NEW id \in Rounds, NEW row \in RoundRows, row.known
    PROVE  LifeSet(WriteRound(Touched(ix, id), id, row), ix, id, row.state, row.rate)
<1> DEFINE opened == Touched(ix, id)
           new == WriteRound(opened, id, row)
<1>1. /\ SameVault(opened, ix) /\ opened \in Indexes
      /\ \A k \in Rounds \ {id} : opened.round[k] = ix.round[k]
  BY TouchedKeeps, BoundAssumption DEF LifeSet, SameVault, Kept
<1> HIDE DEF opened
<1>2. opened.round \in [Rounds -> RoundRows]
  BY <1>1 DEF Indexes
<1>3. SameVault(new, opened) /\ new.round = [opened.round EXCEPT ![id] = row]
  BY <1>1, RowReplaced
<1> HIDE DEF new
<1>4. new.round[id] = row /\ \A k \in Rounds \ {id} : new.round[k] = ix.round[k]
  BY <1>1, <1>2, <1>3
<1>5. SameVault(new, ix)
  BY <1>1, <1>3 DEF SameVault, Kept
<1> QED
  BY <1>4, <1>5 DEF LifeSet, new, opened

\* The row getOrCreateRound returns is a stored one.
LEMMA TouchedStored ==
    ASSUME NEW ix \in Indexes, NEW id \in Rounds
    PROVE  /\ Touched(ix, id).round[id] \in RoundRows
           /\ Touched(ix, id).round[id].known
           /\ Touched(ix, id).round[id].state = ix.round[id].state
           /\ Touched(ix, id).round[id].rate = ix.round[id].rate
<1>1. LifeSet(Touched(ix, id), ix, id, ix.round[id].state, ix.round[id].rate)
  <2>1. 0 \in Nat
    OBVIOUS
  <2> QED
    BY <2>1, TouchedKeeps
<1> QED
  BY <1>1, TouchedRow DEF LifeSet

\* applyRoundSettled.
LEMMA SettledSet ==
    ASSUME NEW ix \in Indexes, ix.known, NEW id \in Rounds, NEW rate \in Rates
    PROVE  LifeSet(ApplyRoundSettled(ix, id, rate), ix, id, "Settled", rate)
<1> DEFINE old == Touched(ix, id).round[id]
           mid == [old EXCEPT !.state = "Settled"]
           row == [mid EXCEPT !.rate = rate]
           touched == Touched(ix, id)
<1>1. old \in RoundRows /\ old.known
  BY TouchedStored
<1>2. WriteRound(touched, id, row)
        = [touched EXCEPT !.round[id].state = "Settled", !.round[id].rate = rate]
  BY <1>1 DEF WriteRound
<1> HIDE DEF old
<1>3. row \in RoundRows /\ row.known /\ row.state = "Settled" /\ row.rate = rate
  BY <1>1 DEF RoundRows, RoundStates
<1> HIDE DEF row
<1>4. LifeSet(WriteRound(Touched(ix, id), id, row), ix, id, "Settled", rate)
  BY <1>3, RoundSet
<1> QED
  BY <1>2, <1>4 DEF ApplyRoundSettled, IfKnown

\* applyRoundRetried.
LEMMA RetriedSet ==
    ASSUME NEW ix \in Indexes, ix.known, NEW id \in Rounds
    PROVE  LifeSet(ApplyRoundRetried(ix, id), ix, id, "InSettlement", ix.round[id].rate)
<1> DEFINE old == Touched(ix, id).round[id]
           mid == [old EXCEPT !.state = "InSettlement"]
           row == [mid EXCEPT !.retriedCount = old.retriedCount + 1]
           touched == Touched(ix, id)
<1>1. old \in RoundRows /\ old.known /\ old.rate = ix.round[id].rate
  BY TouchedStored
<1>2. WriteRound(touched, id, row)
        = [touched EXCEPT !.round[id].state = "InSettlement", !.round[id].retriedCount = @ + 1]
  BY DEF WriteRound
<1> HIDE DEF old
<1>3. row \in RoundRows /\ row.known /\ row.state = "InSettlement" /\ row.rate = old.rate
  <2>1. /\ mid \in RoundRows /\ mid.known /\ mid.state = "InSettlement"
        /\ mid.rate = old.rate /\ old.retriedCount + 1 \in Int
    BY <1>1 DEF RoundRows, RoundStates
  <2> HIDE DEF mid
  <2> QED
    BY <2>1 DEF RoundRows
<1> HIDE DEF row
<1>4. LifeSet(WriteRound(Touched(ix, id), id, row), ix, id, "InSettlement", ix.round[id].rate)
  BY <1>1, <1>3, RoundSet
<1> QED
  BY <1>2, <1>4 DEF ApplyRoundRetried, IfKnown

\* applyEmergencyRollback.
LEMMA RollbackSet ==
    ASSUME NEW ix \in Indexes, ix.known, NEW id \in Rounds
    PROVE  LifeSet(ApplyEmergencyRollback(ix, id), ix, id, "Opened", ix.round[id].rate)
<1> DEFINE old == Touched(ix, id).round[id]
           mid == [old EXCEPT !.state = "Opened"]
           row == [mid EXCEPT !.rolledBack = TRUE]
           touched == Touched(ix, id)
<1>1. old \in RoundRows /\ old.known /\ old.rate = ix.round[id].rate
  BY TouchedStored
<1>2. WriteRound(touched, id, row)
        = [touched EXCEPT !.round[id].state = "Opened", !.round[id].rolledBack = TRUE]
  BY <1>1 DEF WriteRound
<1> HIDE DEF old
<1>3. row \in RoundRows /\ row.known /\ row.state = "Opened" /\ row.rate = old.rate
  BY <1>1 DEF RoundRows, RoundStates
<1> HIDE DEF row
<1>4. LifeSet(WriteRound(Touched(ix, id), id, row), ix, id, "Opened", ix.round[id].rate)
  BY <1>1, <1>3, RoundSet
<1> QED
  BY <1>2, <1>4 DEF ApplyEmergencyRollback, IfKnown

\* applyRoundAdvanced: the round is closed and the next one opened.
LEMMA AdvancedSet ==
    ASSUME NEW ix \in Indexes, ix.known, NEW id \in Rounds, id + 1 \in Rounds
    PROVE  LET new == ApplyRoundAdvanced(ix, id) IN
           /\ Kept(new, ix) /\ new.currentRound = id + 1
           /\ new.minPositionSize = ix.minPositionSize
           /\ \A k \in {id, id + 1} : new.round[k].known /\ new.round[k].rate = ix.round[k].rate
           /\ new.round[id].state = "InSettlement" /\ new.round[id + 1].state = "Opened"
           /\ \A k \in Rounds \ {id, id + 1} : new.round[k] = ix.round[k]
<1> DEFINE first == Touched(ix, id)
           opened == Touched(first, id + 1)
           closed == WriteRound(opened, id, [opened.round[id] EXCEPT !.state = "InSettlement"])
           begun == WriteRound(closed, id + 1, [closed.round[id + 1] EXCEPT !.state = "Opened"])
           new == [begun EXCEPT !.currentRound = id + 1]
<1>0. id \in Int /\ id + 1 \in Int /\ id # id + 1 /\ 0 \in Nat
  BY BoundAssumption DEF Rounds
<1>1. new = [opened EXCEPT !.round[id].state = "InSettlement",
                           !.round[id + 1].state = "Opened", !.currentRound = id + 1]
  BY DEF WriteRound
<1>2. first \in Indexes /\ LifeSet(first, ix, id, ix.round[id].state, ix.round[id].rate)
  BY <1>0, TouchedKeeps DEF LifeSet, SameVault, Kept
<1>3. /\ opened \in Indexes
      /\ LifeSet(opened, first, id + 1, first.round[id + 1].state, first.round[id + 1].rate)
  <2> HIDE DEF first
  <2> QED
    BY <1>0, <1>2, TouchedKeeps DEF LifeSet, SameVault, Kept
<1>4. /\ SameVault(opened, ix)
      /\ \A k \in {id, id + 1} : /\ opened.round[k].known
                                 /\ opened.round[k].rate = ix.round[k].rate
      /\ \A k \in Rounds \ {id, id + 1} : opened.round[k] = ix.round[k]
  <2> HIDE DEF first, opened
  <2>1. opened.round[id] = first.round[id] /\ first.round[id + 1] = ix.round[id + 1]
    BY <1>0, <1>2, <1>3 DEF LifeSet
  <2> QED
    BY <1>0, <1>2, <1>3, <2>1 DEF LifeSet, SameVault, Kept
<1> HIDE DEF opened
<1>5. /\ SameVault(closed, opened) /\ closed \in Indexes
      /\ closed.round[id].known /\ closed.round[id].state = "InSettlement"
      /\ closed.round[id].rate = opened.round[id].rate
      /\ \A k \in Rounds \ {id} : closed.round[k] = opened.round[k]
  <2> DEFINE old == opened.round[id]
             row == [old EXCEPT !.state = "InSettlement"]
  <2>1. old \in RoundRows /\ old.known /\ opened.round \in [Rounds -> RoundRows]
    BY <1>3, <1>4 DEF Indexes
  <2> HIDE DEF old
  <2>2. row \in RoundRows /\ row.known /\ row.state = "InSettlement" /\ row.rate = old.rate
    BY <2>1 DEF RoundRows, RoundStates
  <2>3. closed = WriteRound(opened, id, row)
    BY DEF old
  <2> HIDE DEF row, closed
  <2>4. SameVault(closed, opened) /\ closed.round = [opened.round EXCEPT ![id] = row]
    BY <1>3, <2>2, <2>3, RowReplaced
  <2>5. closed.round[id] = row /\ \A k \in Rounds \ {id} : closed.round[k] = opened.round[k]
    BY <2>1, <2>4
  <2> QED
    BY <2>2, <2>4, <2>5 DEF SameVault, Kept, old
<1> HIDE DEF closed
<1>6. /\ SameVault(begun, closed) /\ begun \in Indexes
      /\ begun.round[id + 1].known /\ begun.round[id + 1].state = "Opened"
      /\ begun.round[id + 1].rate = closed.round[id + 1].rate
      /\ \A k \in Rounds \ {id + 1} : begun.round[k] = closed.round[k]
  <2> DEFINE old == closed.round[id + 1]
             row == [old EXCEPT !.state = "Opened"]
  <2>1. old \in RoundRows /\ old.known /\ closed.round \in [Rounds -> RoundRows]
    BY <1>0, <1>4, <1>5 DEF Indexes
  <2> HIDE DEF old
  <2>2. row \in RoundRows /\ row.known /\ row.state = "Opened" /\ row.rate = old.rate
    BY <2>1 DEF RoundRows, RoundStates
  <2>3. begun = WriteRound(closed, id + 1, row)
    BY DEF old
  <2> HIDE DEF row, begun
  <2>4. SameVault(begun, closed) /\ begun.round = [closed.round EXCEPT ![id + 1] = row]
    BY <1>5, <2>2, <2>3, RowReplaced
  <2>5. /\ begun.round[id + 1] = row
        /\ \A k \in Rounds \ {id + 1} : begun.round[k] = closed.round[k]
    BY <2>1, <2>4
  <2> QED
    BY <2>2, <2>4, <2>5 DEF SameVault, Kept, old
<1> HIDE DEF begun
<1>7. /\ new \in Indexes /\ new.known = begun.known /\ new.round = begun.round
      /\ new.currentRound = id + 1 /\ new.minPositionSize = begun.minPositionSize
  BY <1>0, <1>6 DEF Indexes
<1> HIDE DEF new
<1>8. ApplyRoundAdvanced(ix, id) = new
  BY <1>1 DEF ApplyRoundAdvanced, IfKnown, opened, first
<1>9. Kept(new, ix) /\ new.minPositionSize = ix.minPositionSize
  BY <1>4, <1>5, <1>6, <1>7 DEF SameVault, Kept
<1>10. /\ new.round[id].known /\ new.round[id].rate = ix.round[id].rate
       /\ new.round[id].state = "InSettlement"
  BY <1>0, <1>4, <1>5, <1>6, <1>7
<1>11. /\ new.round[id + 1].known /\ new.round[id + 1].rate = ix.round[id + 1].rate
       /\ new.round[id + 1].state = "Opened"
  BY <1>0, <1>4, <1>5, <1>6, <1>7
<1>12. \A k \in Rounds \ {id, id + 1} : new.round[k] = ix.round[k]
  BY <1>4, <1>5, <1>6, <1>7
<1> QED
  BY <1>7, <1>8, <1>9, <1>10, <1>11, <1>12

---------------------------------------------------------------------------
(* The inductive invariant *)

\* A round that has not begun has no rate.
FutureRates == \A k \in Rounds : k > roundNumber => exchangeRate[k] = NoRate

\* What IndexFollowsRounds says, together with the index knowing the vault.
Told ==
    /\ index.known
    /\ index.currentRound = roundNumber /\ index.minPositionSize = minPositionSize
    /\ Tells(index, roundNumber, roundState, exchangeRate)

LifeInv == IInv /\ index \in Indexes /\ FutureRates /\ (fromStart => Told)

\* What is told stays told by handlers that keep it.
LEMMA KeptTells ==
    ASSUME NEW ix, NEW new, NEW n, NEW states, NEW rates,
           Tells(ix, n, states, rates), LifeKept(new, ix, n)
    PROVE  Tells(new, n, states, rates)
<1>1. ASSUME NEW k \in Rounds, k > n PROVE Empty(new, k)
  <2>1. PICK b \in BOOLEAN : new.round[k] = [ix.round[k] EXCEPT !.known = b]
    BY <1>1 DEF LifeKept
  <2>2. ix.round[k] = [NoRound EXCEPT !.known = ix.round[k].known]
    BY <1>1 DEF Tells, Empty
  <2> DEFINE c == ix.round[k].known
  <2>3. [[NoRound EXCEPT !.known = c] EXCEPT !.known = b] = [NoRound EXCEPT !.known = b]
    BY DEF NoRound
  <2>4. new.round[k] = [NoRound EXCEPT !.known = b]
    BY <2>1, <2>2, <2>3
  <2>5. [NoRound EXCEPT !.known = b].known = b
    BY DEF NoRound
  <2> QED
    BY <2>4, <2>5 DEF Empty
<1>2. ASSUME NEW k \in Rounds, k <= n
      PROVE  new.round[k].known /\ new.round[k].state = states[k] /\ new.round[k].rate = rates[k]
  BY <1>2 DEF LifeKept, Tells
<1> QED
  BY <1>1, <1>2 DEF Tells

\* An operation that keeps the life of the rounds, with handlers that keep it.
LEMMA KeptTold ==
    ASSUME index \in Indexes, Told, LifeKept(index', index, roundNumber),
           UNCHANGED <<roundNumber, roundState, exchangeRate, minPositionSize>>
    PROVE  Told'
<1> DEFINE new == index'
<1>1. LifeKept(new, index, roundNumber) /\ Tells(index, roundNumber, roundState, exchangeRate)
  BY DEF Told
<1> HIDE DEF new
<1>2. Tells(new, roundNumber, roundState, exchangeRate)
  BY <1>1, KeptTells
<1>3. /\ new.known /\ new.currentRound = roundNumber
      /\ new.minPositionSize = minPositionSize
  BY <1>1 DEF LifeKept, SameVault, Kept, Told
<1> QED
  BY <1>2, <1>3 DEF Told, Tells, Empty, new

\* What is told of the rounds after one of them was set.
LEMMA SetTells ==
    ASSUME NEW ix \in Indexes, NEW new, NEW n \in Nat, NEW id \in Rounds, id <= n,
           NEW states, NEW rates, NEW state, NEW rate, NEW states2, NEW rates2,
           Tells(ix, n, states, rates), LifeSet(new, ix, id, state, rate),
           states2[id] = state, rates2[id] = rate,
           \A k \in Rounds \ {id} : states2[k] = states[k] /\ rates2[k] = rates[k]
    PROVE  Tells(new, n, states2, rates2)
<1>0. \A k \in Rounds : k \in Int
  BY BoundAssumption DEF Rounds
<1>1. ASSUME NEW k \in Rounds, k <= n
      PROVE  new.round[k].known /\ new.round[k].state = states2[k] /\ new.round[k].rate = rates2[k]
  <2>1. CASE k = id
    BY <2>1 DEF LifeSet
  <2>2. CASE k # id
    <3>1. new.round[k] = ix.round[k] /\ states2[k] = states[k] /\ rates2[k] = rates[k]
      BY <2>2 DEF LifeSet
    <3> QED
      BY <1>1, <3>1 DEF Tells
  <2> QED
    BY <2>1, <2>2
<1>2. ASSUME NEW k \in Rounds, k > n PROVE Empty(new, k)
  <2>1. k # id
    BY <1>0, <1>2
  <2>2. new.round[k] = ix.round[k] /\ Empty(ix, k)
    BY <1>2, <2>1 DEF LifeSet, Tells
  <2> QED
    BY <2>2 DEF Empty
<1> QED
  BY <1>1, <1>2 DEF Tells

\* The same, of the vault.
LEMMA SetTold ==
    ASSUME TypeOK, index \in Indexes, Told, NEW id \in Rounds, id <= roundNumber,
           LifeSet(index', index, id, roundState'[id], exchangeRate'[id]),
           \A k \in Rounds \ {id} : /\ roundState'[k] = roundState[k]
                                    /\ exchangeRate'[k] = exchangeRate[k],
           UNCHANGED <<roundNumber, minPositionSize>>
    PROVE  Told'
<1>1. roundNumber \in Nat
  BY BoundAssumption DEF TypeOK, Rounds
<1> DEFINE new == index'
           states2 == roundState'
           rates2 == exchangeRate'
<1>2. /\ LifeSet(new, index, id, states2[id], rates2[id])
      /\ \A k \in Rounds \ {id} : states2[k] = roundState[k] /\ rates2[k] = exchangeRate[k]
      /\ Tells(index, roundNumber, roundState, exchangeRate)
  BY DEF Told
<1> HIDE DEF new, states2, rates2
<1>3. Tells(new, roundNumber, states2, rates2)
  BY <1>1, <1>2, SetTells
<1>4. /\ new.known /\ new.currentRound = roundNumber /\ new.minPositionSize = minPositionSize
  BY <1>2 DEF LifeSet, SameVault, Kept, Told
<1> QED
  BY <1>3, <1>4 DEF Told, Tells, Empty, new, states2, rates2

\* A settlement sets the round it settles.
LEMMA IndexSettledSet ==
    ASSUME TypeOK, NEW ix \in Indexes, ix.known, NEW id \in Rounds, id <= roundNumber,
           NEW states, NEW rates, NEW states2, NEW rates2,
           Tells(ix, roundNumber, states, rates),
           states2[id] = "Settled", rates2[id] = SettlementRate(id),
           \A k \in Rounds \ {id} : states2[k] = states[k] /\ rates2[k] = rates[k]
    PROVE  LET new == IndexSettled(ix, id) IN
           /\ SameVault(new, ix) /\ Tells(new, roundNumber, states2, rates2)
<1> DEFINE traded == HandleTargetTrade(ix, id, supply[id], TargetOutput(supply[id]))
           new == ApplyRoundSettled(traded, id, SettlementRate(id))
<1>1. /\ supply[id] \in Int /\ TargetOutput(supply[id]) \in Int
      /\ SettlementRate(id) \in Rates
  BY RateType DEF Rates, TypeOK
<1>n. roundNumber \in Nat
  BY BoundAssumption DEF TypeOK, Rounds
<1>2. LifeKept(traded, ix, roundNumber)
  BY <1>1, <1>n, TradeKeepsLife
<1>3. IndexSettled(ix, id) = new
  BY DEF IndexSettled
<1> HIDE DEF traded
<1>4. SameVault(traded, ix) /\ traded \in Indexes /\ traded.known
  BY <1>2 DEF LifeKept, SameVault, Kept
<1>5. LifeSet(new, traded, id, "Settled", SettlementRate(id))
  BY <1>1, <1>4, SettledSet
<1>6. Tells(traded, roundNumber, states, rates)
  BY <1>2, KeptTells
<1> HIDE DEF new
<1>7. Tells(new, roundNumber, states2, rates2)
  BY <1>n, <1>4, <1>5, <1>6, SetTells
<1>8. SameVault(new, ix)
  BY <1>4, <1>5 DEF LifeSet, SameVault, Kept
<1> QED
  BY <1>3, <1>7, <1>8

---------------------------------------------------------------------------
(* Every step *)

\* A round in any state but NotOpened has begun.
LEMMA Begun ==
    ASSUME TypeOK, RoundsInOrder, NEW id \in Rounds, roundState[id] # "NotOpened"
    PROVE  id <= roundNumber /\ roundNumber \in Nat /\ id \in Nat
  BY BoundAssumption DEF RoundsInOrder, TypeOK, Rounds

\* The operations of one entry.
LEMMA UserLife ==
    ASSUME IInv, index \in Indexes, Told, IndexedUserStep
    PROVE  Told'
<1>0. /\ TypeOK /\ RoundsInOrder /\ RatesUsable
      /\ \A a \in Amounts : a \in Nat /\ a \in Int
  BY SolventRates, BoundAssumption DEF IInv
<1>n. roundNumber \in Nat /\ roundNumber \in Rounds /\ roundNumber <= roundNumber
  BY <1>0, BoundAssumption DEF TypeOK, Rounds
<1>u. NoOne \in Users \cup {NoOne} /\ \A u \in Users : u \in Users \cup {NoOne} /\ u # NoOne
  BY UsersAssumption
<1>1. ASSUME NEW u \in Users, NEW v \in Users, NEW a \in Amounts, Deposit(u, v, a),
             index' = ApplyDepositWithReceipt(
                          ApplyReceiptTransfer(index, NoOne, v, MintId, a), MintId, a)
      PROVE  Told'
  <2> DEFINE mid == ApplyReceiptTransfer(index, NoOne, v, roundNumber, a)
  <2>1. LifeKept(mid, index, roundNumber)
    BY <1>0, <1>n, <1>u, TransferKeepsLife
  <2>2. mid \in Indexes
    BY <2>1 DEF LifeKept, SameVault, Kept
  <2> HIDE DEF mid
  <2>3. LifeKept(ApplyDepositWithReceipt(mid, roundNumber, a), mid, roundNumber)
    BY <1>0, <1>n, <2>2, DepositKeepsLife
  <2>4. LifeKept(ApplyDepositWithReceipt(mid, roundNumber, a), index, roundNumber)
    BY <2>1, <2>3, LifeKeptTwice
  <2>5. LifeKept(index', index, roundNumber)
    BY <1>1, <2>4 DEF mid, MintId
  <2>6. UNCHANGED <<roundNumber, roundState, exchangeRate, minPositionSize>>
    BY <1>1 DEF Deposit, roundVars, configVars
  <2> QED
    BY <2>5, <2>6, KeptTold
<1>2. ASSUME NEW u \in Users, NEW v \in Users, NEW a \in Amounts, NEW id \in Rounds,
             Redeem(u, v, id, a),
             index' = MarkUnderlyingRedemption(
                          ApplyReceiptTransfer(index, u, NoOne, id, a), u, id, a)
      PROVE  Told'
  <2> DEFINE mid == ApplyReceiptTransfer(index, u, NoOne, id, a)
  <2>0. id <= roundNumber
    <3>1. roundState[id] # "NotOpened"
      BY <1>2 DEF Redeem, Redeemable
    <3> QED
      BY <1>0, <3>1, Begun
  <2>1. LifeKept(mid, index, roundNumber)
    BY <1>0, <1>n, <1>u, <2>0, TransferKeepsLife
  <2>2. mid \in Indexes
    BY <2>1 DEF LifeKept, SameVault, Kept
  <2> HIDE DEF mid
  <2>3. LifeKept(MarkUnderlyingRedemption(mid, u, id, a), mid, roundNumber)
    BY <1>0, <1>n, <2>0, <2>2, UnderlyingKeepsLife
  <2>4. LifeKept(MarkUnderlyingRedemption(mid, u, id, a), index, roundNumber)
    BY <2>1, <2>3, LifeKeptTwice
  <2>5. LifeKept(index', index, roundNumber)
    BY <1>2, <2>4 DEF mid
  <2>6. UNCHANGED <<roundNumber, roundState, exchangeRate, minPositionSize>>
    BY <1>2 DEF Redeem, roundVars, configVars
  <2> QED
    BY <2>5, <2>6, KeptTold
<1>3. ASSUME NEW u \in Users, NEW v \in Users, NEW a \in Amounts, NEW id \in Rounds,
             RedeemExchangeAsset(u, v, id, a),
             index' = MarkExchangeAssetRedemption(
                          ApplyReceiptTransfer(index, u, NoOne, id, a),
                          u, id, a, Quote(exchangeRate[id], a))
      PROVE  Told'
  <2> DEFINE mid == ApplyReceiptTransfer(index, u, NoOne, id, a)
             out == Quote(exchangeRate[id], a)
             new == MarkExchangeAssetRedemption(mid, u, id, a, out)
  <2>0. id <= roundNumber /\ roundState[id] = "Settled"
    <3>1. roundState[id] = "Settled"
      BY <1>3 DEF RedeemExchangeAsset
    <3> QED
      BY <1>0, <3>1, Begun
  <2>o. out \in Int
    <3>1. out \in Nat
      BY <1>0, <2>0, QuoteType
    <3> QED
      BY <3>1
  <2>1. LifeKept(mid, index, roundNumber)
    BY <1>0, <1>n, <1>u, <2>0, TransferKeepsLife
  <2>2. mid \in Indexes
    BY <2>1 DEF LifeKept, SameVault, Kept
  <2> HIDE DEF mid, out
  <2>3. LifeKept(new, mid, roundNumber)
    BY <1>0, <1>n, <2>0, <2>o, <2>2, ExchangeKeepsLife
  <2>4. LifeKept(new, index, roundNumber)
    BY <2>1, <2>3, LifeKeptTwice
  <2>5. LifeKept(index', index, roundNumber)
    BY <1>3, <2>4 DEF mid, out
  <2>6. UNCHANGED <<roundNumber, roundState, exchangeRate, minPositionSize>>
    BY <1>3 DEF RedeemExchangeAsset, roundVars, configVars
  <2> QED
    BY <2>5, <2>6, KeptTold
<1>4. ASSUME NEW u \in Users, NEW v \in Users, NEW a \in Amounts, NEW id \in Rounds,
             SafeTransferFrom(u, v, id, a), index' = ApplyReceiptTransfer(index, u, v, id, a)
      PROVE  Told'
  <2>1. LifeKept(index', index, roundNumber)
    BY <1>0, <1>n, <1>u, <1>4, TransferKeepsLife
  <2>2. UNCHANGED <<roundNumber, roundState, exchangeRate, minPositionSize>>
    BY <1>4 DEF SafeTransferFrom, roundVars, configVars
  <2> QED
    BY <2>1, <2>2, KeptTold
<1> QED
  BY <1>1, <1>2, <1>3, <1>4 DEF IndexedUserStep

\* The operations of two entries.
LEMMA BatchLife ==
    ASSUME IInv, index \in Indexes, Told, IndexedBatchStep
    PROVE  Told'
<1>0. /\ TypeOK /\ RoundsInOrder /\ RatesUsable
      /\ \A a \in Amounts \ {0} : a \in Nat /\ a \in Int
  BY SolventRates, BoundAssumption DEF IInv
<1>n. roundNumber \in Nat
  BY <1>0, BoundAssumption DEF TypeOK, Rounds
<1>u. NoOne \in Users \cup {NoOne} /\ \A u \in Users : u \in Users \cup {NoOne} /\ u # NoOne
  BY UsersAssumption
<1>1. ASSUME NEW u \in Users, NEW v \in Users, NEW a \in Amounts \ {0},
             NEW b \in Amounts \ {0}, NEW i \in Rounds, NEW j \in Rounds,
             RedeemBatch(u, v, i, a, j, b),
             index' = MarkUnderlyingRedemption(
                          MarkUnderlyingRedemption(
                              ApplyTransferBatch(index, u, NoOne, i, a, j, b), u, i, a),
                          u, j, b)
      PROVE  Told'
  <2> DEFINE mid == ApplyTransferBatch(index, u, NoOne, i, a, j, b)
             first == MarkUnderlyingRedemption(mid, u, i, a)
             new == MarkUnderlyingRedemption(first, u, j, b)
  <2>0. i <= roundNumber /\ j <= roundNumber
    <3>1. roundState[i] # "NotOpened" /\ roundState[j] # "NotOpened"
      BY <1>1 DEF RedeemBatch, Redeemable
    <3> QED
      BY <1>0, <3>1, Begun
  <2>1. LifeKept(mid, index, roundNumber)
    BY <1>0, <1>n, <1>u, <2>0, BatchKeepsLife
  <2>2. mid \in Indexes
    BY <2>1 DEF LifeKept, SameVault, Kept
  <2> HIDE DEF mid
  <2>3. LifeKept(first, mid, roundNumber)
    BY <1>0, <1>n, <2>0, <2>2, UnderlyingKeepsLife
  <2>4. first \in Indexes
    BY <2>3 DEF LifeKept, SameVault, Kept
  <2> HIDE DEF first
  <2>5. LifeKept(new, first, roundNumber)
    BY <1>0, <1>n, <2>0, <2>4, UnderlyingKeepsLife
  <2>6. LifeKept(first, index, roundNumber)
    BY <2>1, <2>3, LifeKeptTwice
  <2>7. LifeKept(new, index, roundNumber)
    BY <2>5, <2>6, LifeKeptTwice
  <2>8. LifeKept(index', index, roundNumber)
    BY <1>1, <2>7 DEF mid, first
  <2>9. UNCHANGED <<roundNumber, roundState, exchangeRate, minPositionSize>>
    BY <1>1 DEF RedeemBatch, roundVars, configVars
  <2> QED
    BY <2>8, <2>9, KeptTold
<1>2. ASSUME NEW u \in Users, NEW v \in Users, NEW a \in Amounts \ {0},
             NEW b \in Amounts \ {0}, NEW i \in Rounds, NEW j \in Rounds,
             RedeemExchangeAssetBatch(u, v, i, a, j, b),
             index' = MarkExchangeAssetRedemptionBatch(
                          ApplyTransferBatch(index, u, NoOne, i, a, j, b), u, i, a, j, b,
                          Quote(exchangeRate[i], a) + Quote(exchangeRate[j], b))
      PROVE  Told'
  <2> DEFINE mid == ApplyTransferBatch(index, u, NoOne, i, a, j, b)
             out1 == Quote(exchangeRate[i], a)
             out2 == Quote(exchangeRate[j], b)
             new == MarkExchangeAssetRedemptionBatch(mid, u, i, a, j, b, out1 + out2)
  <2>s. roundState[i] = "Settled" /\ roundState[j] = "Settled"
    BY <1>2 DEF RedeemExchangeAssetBatch
  <2>0. i <= roundNumber /\ j <= roundNumber
    BY <1>0, <2>s, Begun
  <2>o. out1 \in Nat /\ out2 \in Nat
    BY <1>0, <2>s, QuoteType
  <2>1. LifeKept(mid, index, roundNumber)
    BY <1>0, <1>n, <1>u, <2>0, BatchKeepsLife
  <2>2. mid \in Indexes
    BY <2>1 DEF LifeKept, SameVault, Kept
  <2> HIDE DEF mid, out1, out2
  <2>p. out1 + out2 \in Int
    BY <2>o
  <2>3. LifeKept(new, mid, roundNumber)
    BY <1>0, <1>n, <2>0, <2>p, <2>2, ExchangeBatchKeepsLife
  <2>4. LifeKept(new, index, roundNumber)
    BY <2>1, <2>3, LifeKeptTwice
  <2>5. LifeKept(index', index, roundNumber)
    BY <1>2, <2>4 DEF mid, out1, out2
  <2>6. UNCHANGED <<roundNumber, roundState, exchangeRate, minPositionSize>>
    BY <1>2 DEF RedeemExchangeAssetBatch, roundVars, configVars
  <2> QED
    BY <2>5, <2>6, KeptTold
<1>3. ASSUME NEW u \in Users, NEW v \in Users, NEW a \in Amounts \ {0},
             NEW b \in Amounts \ {0}, NEW i \in Rounds, NEW j \in Rounds,
             SafeBatchTransferFrom(u, v, i, a, j, b),
             index' = ApplyTransferBatch(index, u, v, i, a, j, b)
      PROVE  Told'
  <2>1. LifeKept(index', index, roundNumber)
    BY <1>0, <1>n, <1>u, <1>3, BatchKeepsLife
  <2>2. UNCHANGED <<roundNumber, roundState, exchangeRate, minPositionSize>>
    BY <1>3 DEF SafeBatchTransferFrom, roundVars, configVars
  <2> QED
    BY <2>1, <2>2, KeptTold
<1> QED
  BY <1>1, <1>2, <1>3 DEF IndexedBatchStep

\* The round is closed, and the next one opened at no rate.
LEMMA AdvanceLife ==
    ASSUME IInv, index \in Indexes, FutureRates, Told,
           NextRound, index' = ApplyRoundAdvanced(index, roundNumber)
    PROVE  Told'
<1> DEFINE n == roundNumber
           new == ApplyRoundAdvanced(index, n)
           states2 == roundState'
<1>0. /\ TypeOK /\ n \in Rounds /\ n \in Nat /\ n + 1 \in Rounds /\ n # n + 1
      /\ \A k \in Rounds : k \in Int
  <2>1. TypeOK /\ n \in Rounds /\ n < MaxRound
    BY DEF IInv, TypeOK, NextRound
  <2> QED
    BY <2>1, BoundAssumption DEF Rounds
<1>1. /\ roundNumber' = n + 1 /\ exchangeRate' = exchangeRate
      /\ minPositionSize' = minPositionSize /\ index' = new
  BY DEF NextRound, configVars
<1>2. /\ states2[n] = "InSettlement" /\ states2[n + 1] = "Opened"
      /\ \A k \in Rounds \ {n, n + 1} : states2[k] = roundState[k]
  BY <1>0 DEF NextRound, TypeOK
<1>3. index.known /\ index.minPositionSize = minPositionSize
      /\ Tells(index, n, roundState, exchangeRate)
  BY DEF Told
<1>4. /\ Kept(new, index) /\ new.currentRound = n + 1
      /\ new.minPositionSize = index.minPositionSize
      /\ \A k \in {n, n + 1} : new.round[k].known /\ new.round[k].rate = index.round[k].rate
      /\ new.round[n].state = "InSettlement" /\ new.round[n + 1].state = "Opened"
      /\ \A k \in Rounds \ {n, n + 1} : new.round[k] = index.round[k]
  BY <1>0, <1>3, AdvancedSet
<1>5. exchangeRate[n + 1] = NoRate
  BY <1>0 DEF FutureRates
<1> HIDE DEF new, states2, n
<1>6. index.round[n].rate = exchangeRate[n]
  BY <1>0, <1>3 DEF Tells
<1>7. index.round[n + 1].rate = exchangeRate[n + 1]
  <2>1. Empty(index, n + 1)
    BY <1>0, <1>3 DEF Tells
  <2> QED
    BY <1>5, <2>1 DEF Empty, NoRound
<1>8. ASSUME NEW k \in Rounds, k <= n + 1
      PROVE  /\ new.round[k].known /\ new.round[k].state = states2[k]
             /\ new.round[k].rate = exchangeRate[k]
  <2>1. CASE k \in {n, n + 1}
    BY <1>2, <1>4, <1>6, <1>7, <2>1
  <2>2. CASE k \notin {n, n + 1}
    <3>1. k <= n
      BY <1>0, <1>8, <2>2
    <3>2. new.round[k] = index.round[k] /\ states2[k] = roundState[k]
      BY <1>2, <1>4, <2>2
    <3> QED
      BY <1>3, <3>1, <3>2 DEF Tells
  <2> QED
    BY <2>1, <2>2
<1>9. ASSUME NEW k \in Rounds, k > n + 1 PROVE Empty(new, k)
  <2>1. k > n /\ k \notin {n, n + 1}
    BY <1>0, <1>9
  <2>2. new.round[k] = index.round[k] /\ Empty(index, k)
    BY <1>3, <1>4, <2>1 DEF Tells
  <2> QED
    BY <2>2 DEF Empty
<1>10. Tells(new, n + 1, states2, exchangeRate)
  BY <1>8, <1>9 DEF Tells
<1>11. new.known /\ new.currentRound = n + 1 /\ new.minPositionSize = minPositionSize
  BY <1>3, <1>4 DEF Kept
<1> QED
  BY <1>1, <1>10, <1>11 DEF Told, Tells, Empty, states2

\* Two rounds are settled, one after the other.
LEMMA SettleTwiceLife ==
    ASSUME IInv, index \in Indexes, Told, NEW i \in Rounds, NEW j \in Rounds,
           SetRoundSettledBatch(i, j), index' = IndexSettled(IndexSettled(index, i), j)
    PROVE  Told'
<1> DEFINE states1 == [roundState EXCEPT ![i] = "Settled"]
           rates1 == [exchangeRate EXCEPT ![i] = SettlementRate(i)]
           states2 == roundState'
           rates2 == exchangeRate'
           first == IndexSettled(index, i)
           new == IndexSettled(first, j)
<1>0. /\ TypeOK /\ RoundsInOrder /\ roundState \in [Rounds -> RoundStates]
      /\ exchangeRate \in [Rounds -> Rates]
  BY DEF IInv, TypeOK, Rates
<1>1. i # j /\ i <= roundNumber /\ j <= roundNumber
  <2>1. roundState[i] # "NotOpened" /\ roundState[j] # "NotOpened" /\ i # j
    BY DEF SetRoundSettledBatch
  <2> QED
    BY <1>0, <2>1, Begun
<1>2. /\ states1[i] = "Settled" /\ rates1[i] = SettlementRate(i)
      /\ \A k \in Rounds \ {i} : states1[k] = roundState[k] /\ rates1[k] = exchangeRate[k]
  BY <1>0
<1>3. /\ states2[j] = "Settled" /\ rates2[j] = SettlementRate(j)
      /\ \A k \in Rounds \ {j} : states2[k] = states1[k] /\ rates2[k] = rates1[k]
  BY <1>0, <1>1 DEF SetRoundSettledBatch
<1>4. /\ roundNumber' = roundNumber /\ minPositionSize' = minPositionSize /\ index' = new
  BY DEF SetRoundSettledBatch, configVars
<1>5. /\ index.known /\ index.currentRound = roundNumber
      /\ index.minPositionSize = minPositionSize
      /\ Tells(index, roundNumber, roundState, exchangeRate)
  BY DEF Told
<1> HIDE DEF states1, rates1, states2, rates2
<1>6. SameVault(first, index) /\ Tells(first, roundNumber, states1, rates1)
  BY <1>0, <1>1, <1>2, <1>5, IndexSettledSet
<1>7. first \in Indexes /\ first.known
  BY <1>5, <1>6 DEF SameVault, Kept
<1> HIDE DEF first
<1>8. SameVault(new, first) /\ Tells(new, roundNumber, states2, rates2)
  BY <1>0, <1>1, <1>3, <1>6, <1>7, IndexSettledSet
<1> HIDE DEF new
<1>9. new.known /\ new.currentRound = roundNumber /\ new.minPositionSize = minPositionSize
  BY <1>5, <1>6, <1>8 DEF SameVault, Kept
<1> QED
  BY <1>4, <1>8, <1>9 DEF Told, Tells, Empty, states2, rates2

\* The keeper's operations.
LEMMA KeeperLife ==
    ASSUME IInv, index \in Indexes, FutureRates, Told, IndexedKeeperStep
    PROVE  Told'
<1>0. /\ TypeOK /\ RoundsInOrder /\ roundState \in [Rounds -> RoundStates]
      /\ exchangeRate \in [Rounds -> Rates]
  BY DEF IInv, TypeOK, Rates
<1>t. index.known /\ Tells(index, roundNumber, roundState, exchangeRate)
  BY DEF Told
<1>1. CASE NextRound /\ index' = ApplyRoundAdvanced(index, roundNumber)
  BY <1>1, AdvanceLife
<1>2. ASSUME NEW id \in Rounds, RetryRound(id), index' = ApplyRoundRetried(index, id)
      PROVE  Told'
  <2>1. id <= roundNumber
    <3>1. roundState[id] # "NotOpened"
      BY <1>2 DEF RetryRound, Retriable
    <3> QED
      BY <1>0, <3>1, Begun
  <2>2. /\ roundState'[id] = "InSettlement" /\ exchangeRate'[id] = index.round[id].rate
        /\ \A k \in Rounds \ {id} : /\ roundState'[k] = roundState[k]
                                    /\ exchangeRate'[k] = exchangeRate[k]
        /\ UNCHANGED <<roundNumber, minPositionSize>>
    <3>1. exchangeRate[id] = index.round[id].rate
      BY <1>t, <2>1 DEF Tells
    <3> QED
      BY <1>0, <1>2, <3>1 DEF RetryRound, configVars
  <2>3. LifeSet(index', index, id, roundState'[id], exchangeRate'[id])
    BY <1>2, <1>t, <2>2, RetriedSet
  <2> QED
    BY <1>0, <2>1, <2>2, <2>3, SetTold
<1>3. ASSUME NEW id \in Rounds, SetRoundSettled(id), index' = IndexSettled(index, id)
      PROVE  Told'
  <2> DEFINE states2 == roundState'
             rates2 == exchangeRate'
             new == IndexSettled(index, id)
  <2>1. id <= roundNumber
    <3>1. roundState[id] # "NotOpened"
      BY <1>3 DEF SetRoundSettled
    <3> QED
      BY <1>0, <3>1, Begun
  <2>2. /\ states2[id] = "Settled" /\ rates2[id] = SettlementRate(id)
        /\ \A k \in Rounds \ {id} : states2[k] = roundState[k] /\ rates2[k] = exchangeRate[k]
        /\ UNCHANGED <<roundNumber, minPositionSize>> /\ index' = new
    BY <1>0, <1>3 DEF SetRoundSettled, configVars
  <2> HIDE DEF states2, rates2
  <2>3. SameVault(new, index) /\ Tells(new, roundNumber, states2, rates2)
    BY <1>0, <1>t, <2>1, <2>2, IndexSettledSet
  <2> HIDE DEF new
  <2>4. new.known /\ new.currentRound = roundNumber /\ new.minPositionSize = minPositionSize
    BY <2>3 DEF SameVault, Kept, Told
  <2> QED
    BY <2>2, <2>3, <2>4 DEF Told, Tells, Empty, states2, rates2
<1>4. ASSUME NEW i \in Rounds, NEW j \in Rounds, SetRoundSettledBatch(i, j),
             index' = IndexSettled(IndexSettled(index, i), j)
      PROVE  Told'
  BY <1>4, SettleTwiceLife
<1> QED
  BY <1>1, <1>2, <1>3, <1>4 DEF IndexedKeeperStep

\* The governor's operations.
LEMMA GovernorLife ==
    ASSUME IInv, index \in Indexes, Told, IndexedGovernorStep
    PROVE  Told'
<1>0. /\ TypeOK /\ RoundsInOrder /\ roundState \in [Rounds -> RoundStates]
      /\ exchangeRate \in [Rounds -> Rates]
  BY DEF IInv, TypeOK, Rates
<1>t. index.known /\ Tells(index, roundNumber, roundState, exchangeRate)
  BY DEF Told
<1>1. ASSUME NEW id \in Rounds, EmergencyRollbackRound(id),
             index' = ApplyEmergencyRollback(index, id)
      PROVE  Told'
  <2>1. id <= roundNumber
    <3>1. roundState[id] # "NotOpened"
      BY <1>1 DEF EmergencyRollbackRound
    <3> QED
      BY <1>0, <3>1, Begun
  <2>2. /\ roundState'[id] = "Opened" /\ exchangeRate'[id] = index.round[id].rate
        /\ \A k \in Rounds \ {id} : /\ roundState'[k] = roundState[k]
                                    /\ exchangeRate'[k] = exchangeRate[k]
        /\ UNCHANGED <<roundNumber, minPositionSize>>
    <3>1. exchangeRate[id] = index.round[id].rate
      BY <1>t, <2>1 DEF Tells
    <3> QED
      BY <1>0, <1>1, <3>1 DEF EmergencyRollbackRound, configVars
  <2>3. LifeSet(index', index, id, roundState'[id], exchangeRate'[id])
    BY <1>1, <1>t, <2>2, RollbackSet
  <2> QED
    BY <1>0, <2>1, <2>2, <2>3, SetTold
<1>2. ASSUME NEW m \in MinPositions, SetMinPositionSize(m),
             index' = ApplyMinPositionSize(index, m)
      PROVE  Told'
  <2>1. /\ index'.known /\ index'.currentRound = index.currentRound
        /\ index'.minPositionSize = m /\ index'.round = index.round
    BY <1>2, <1>t DEF ApplyMinPositionSize, IfKnown, Indexes
  <2>2. /\ UNCHANGED <<roundNumber, roundState, exchangeRate>> /\ minPositionSize' = m
    BY <1>2 DEF SetMinPositionSize, roundVars
  <2> QED
    BY <2>1, <2>2 DEF Told, Tells, Empty
<1> QED
  BY <1>1, <1>2 DEF IndexedGovernorStep

\* A round that has not begun gets no rate.
LEMMA FutureRatesStep ==
    ASSUME IInv, FutureRates, [Next]_vars
    PROVE  FutureRates'
<1>0. /\ TypeOK /\ RoundsInOrder /\ roundNumber \in Nat /\ \A k \in Rounds : k \in Int
  <2>1. TypeOK /\ RoundsInOrder /\ roundNumber \in Rounds
    BY DEF IInv, TypeOK
  <2> QED
    BY <2>1, BoundAssumption DEF Rounds
<1>1. CASE UNCHANGED <<roundNumber, exchangeRate>>
  BY <1>1 DEF FutureRates
<1>2. CASE NextRound
  <2>1. roundNumber' = roundNumber + 1 /\ exchangeRate' = exchangeRate
    BY <1>2 DEF NextRound
  <2> QED
    BY <1>0, <2>1 DEF FutureRates
<1>3. ASSUME NEW id \in Rounds, SetRoundSettled(id) PROVE FutureRates'
  <2>1. roundState[id] # "NotOpened" /\ roundNumber' = roundNumber
        /\ exchangeRate' = [exchangeRate EXCEPT ![id] = SettlementRate(id)]
    BY <1>3 DEF SetRoundSettled
  <2>2. id <= roundNumber
    BY <1>0, <2>1, Begun
  <2>3. \A k \in Rounds : k > roundNumber => k # id
    BY <1>0, <2>2
  <2> QED
    BY <1>0, <2>1, <2>3 DEF FutureRates, TypeOK
<1>4. ASSUME NEW i \in Rounds, NEW j \in Rounds, SetRoundSettledBatch(i, j) PROVE FutureRates'
  <2>1. roundState[i] # "NotOpened" /\ roundState[j] # "NotOpened"
        /\ roundNumber' = roundNumber
        /\ exchangeRate' = [exchangeRate EXCEPT ![i] = SettlementRate(i),
                                                ![j] = SettlementRate(j)]
    BY <1>4 DEF SetRoundSettledBatch
  <2>2. i <= roundNumber /\ j <= roundNumber
    BY <1>0, <2>1, Begun
  <2>3. \A k \in Rounds : k > roundNumber => k # i /\ k # j
    BY <1>0, <2>2
  <2> QED
    BY <1>0, <2>1, <2>3 DEF FutureRates, TypeOK
<1>5. CASE UserStep \/ BatchStep
  <2>1. UNCHANGED <<roundNumber, exchangeRate>>
    BY <1>5 DEF UserStep, BatchStep, Deposit, Redeem, RedeemExchangeAsset, SafeTransferFrom,
       RedeemBatch, RedeemExchangeAssetBatch, SafeBatchTransferFrom, roundVars
  <2> QED
    BY <1>1, <2>1
<1>6. CASE GovernorStep \/ EnvironmentStep \/ \E id \in Rounds : RetryRound(id)
  <2>1. UNCHANGED <<roundNumber, exchangeRate>>
    BY <1>6 DEF GovernorStep, EmergencyRollbackRound, SetMinPositionSize, EnvironmentStep,
       SetWhitelisted, TargetPriceMoves, TargetCloses, TargetOpens, RetryRound, roundVars
  <2> QED
    BY <1>1, <2>1
<1>7. CASE UNCHANGED vars
  BY <1>1, <1>7 DEF vars
<1> QED
  BY <1>2, <1>3, <1>4, <1>5, <1>6, <1>7 DEF Next, KeeperStep

\* Every step tells what it did.
LEMMA LifeStep ==
    ASSUME IInv, index \in Indexes, FutureRates, Told, [VaultStep \/ RegistryStep]_allVars
    PROVE  Told'
<1>1. CASE IndexedUserStep
  BY <1>1, UserLife
<1>2. CASE IndexedBatchStep
  BY <1>2, BatchLife
<1>3. CASE IndexedKeeperStep
  BY <1>3, KeeperLife
<1>4. CASE IndexedGovernorStep
  BY <1>4, GovernorLife
<1>5. CASE EnvironmentStep /\ UNCHANGED index
  <2>1. UNCHANGED <<roundNumber, roundState, exchangeRate, minPositionSize, index>>
    BY <1>5 DEF EnvironmentStep, SetWhitelisted, TargetPriceMoves, TargetCloses,
       TargetOpens, roundVars, configVars
  <2> QED
    BY <2>1 DEF Told, Tells, Empty
<1>6. CASE RegistryStep \/ UNCHANGED allVars
  <2>1. UNCHANGED <<roundNumber, roundState, exchangeRate, minPositionSize>>
    BY <1>6 DEF RegistryStep, allVars, vars
  <2>2. index' = index
    BY <1>6 DEF RegistryStep, RegisterPair, SetVault, ClearVault, SetActive,
       CreateRoundsVault, Told, allVars, indexVars
  <2> QED
    BY <2>1, <2>2 DEF Told, Tells, Empty
<1> QED
  BY <1>1, <1>2, <1>3, <1>4, <1>5, <1>6 DEF VaultStep

\* A vault that is registered when it is made is told from the first.
LEMMA LifeInit == IndexInit => FutureRates /\ (fromStart => Told)
<1> SUFFICES ASSUME IndexInit PROVE FutureRates /\ (fromStart => Told)
  OBVIOUS
<1>1. FutureRates
  BY DEF IndexInit, Init, FutureRates
<1>2. ASSUME fromStart PROVE Told
  <2> DEFINE rows == [[id \in Rounds |-> NoRound] EXCEPT ![0] = [@ EXCEPT !.known = TRUE]]
  <2>0. 0 \in Rounds /\ \A k \in Rounds : k \in Int
    BY BoundAssumption DEF Rounds
  <2>1. /\ index.known /\ index.currentRound = 0 /\ index.minPositionSize = minPositionSize
        /\ index.round = rows
    BY <1>2, <2>0 DEF IndexInit, CreateRoundsVault, Touched, EmptyIndex
  <2>2. rows[0] = [NoRound EXCEPT !.known = TRUE]
    BY <2>0
  <2>3. \A k \in Rounds \ {0} : rows[k] = NoRound
    BY <2>0
  <2> HIDE DEF rows
  <2>4. /\ roundNumber = 0 /\ roundState[0] = "Opened" /\ exchangeRate[0] = NoRate
    BY <2>0 DEF IndexInit, Init
  <2>5. ASSUME NEW k \in Rounds, k <= 0
        PROVE  /\ index.round[k].known /\ index.round[k].state = roundState[k]
               /\ index.round[k].rate = exchangeRate[k]
    <3>1. k = 0
      BY <2>5, BoundAssumption DEF Rounds
    <3> QED
      BY <2>1, <2>2, <2>4, <3>1 DEF NoRound
  <2>6. ASSUME NEW k \in Rounds, k > 0 PROVE Empty(index, k)
    <3>1. index.round[k] = NoRound
      BY <2>0, <2>1, <2>3, <2>6
    <3> QED
      BY <3>1 DEF Empty, NoRound
  <2> QED
    BY <2>1, <2>4, <2>5, <2>6 DEF Told, Tells
<1> QED
  BY <1>1, <1>2

---------------------------------------------------------------------------
(* The theorem *)

\* LifeInv holds in every state.
LEMMA LifeInvariant == IndexSpec => []LifeInv
<1>1. IndexInit => FutureRates /\ (fromStart => Told)
  BY LifeInit
<1>2. (IInv /\ index \in Indexes) /\ (FutureRates /\ (fromStart => Told))
        /\ [VaultStep \/ RegistryStep]_allVars
      => (FutureRates /\ (fromStart => Told))'
  <2> SUFFICES ASSUME IInv, index \in Indexes, FutureRates, fromStart => Told,
                      [VaultStep \/ RegistryStep]_allVars
               PROVE  FutureRates' /\ (fromStart' => Told')
    OBVIOUS
  <2>1. fromStart' = fromStart
    BY DEF VaultStep, RegistryStep, allVars, indexVars
  <2>2. FutureRates'
    BY IndexedStep, FutureRatesStep
  <2> QED
    BY <2>1, <2>2, LifeStep
<1> QED
  BY <1>1, <1>2, IndexTyped, PTL DEF IndexSpec, LifeInv

\* A vault that is registered when it is made: whatever the users, the keeper,
\* the governor and the registry's owner do afterwards, and for every number of
\* rounds, the stored rounds are those that have begun, each in the state and at
\* the rate it has on the chain.
THEOREM RoundsIndexed == IndexSpec => []IndexFollowsRounds
<1>1. LifeInv => IndexFollowsRounds
  <2> SUFFICES ASSUME LifeInv, fromStart PROVE IndexFollowsRounds
    BY DEF IndexFollowsRounds
  <2>1. Told /\ roundNumber \in Int /\ \A id \in Rounds : id \in Int
    BY BoundAssumption DEF LifeInv, IInv, TypeOK, Rounds
  <2>2. \A id \in Rounds : ~(id <= roundNumber) => id > roundNumber
    BY <2>1
  <2> QED
    BY <2>1, <2>2 DEF Told, Tells, Empty, IndexFollowsRounds
<1> QED
  BY <1>1, LifeInvariant, PTL
---------------------------------------------------------------------------
(* What the rows of a round add up to *)

Held(ix, k)     == SumOver([u \in Users |-> ix.receipt[u][k].balance], Users)
Taken(ix, k)    == SumOver([u \in Users |-> ix.receipt[u][k].redeemedForExchange], Users)
Credited(ix, k) == SumOver([u \in Users |-> ix.receipt[u][k].exchangeReceived], Users)

\* What a round holds of its deposits, what was traded and what was paid for it.
Net(ix, k)       == ix.round[k].depositsQueued - ix.round[k].depositsRedeemed
Traded(ix, k)    == ix.round[k].settledUnderlying
Withdrawn(ix, k) == ix.round[k].exchangeAssetWithdrawn

\* By how much the supply of a round differs from the balances, and from what
\* was deposited and not taken.
RowGap(ix, k)  == ix.round[k].receiptSupply - Held(ix, k)
BookGap(ix, k) == ix.round[k].receiptSupply - Net(ix, k) + Taken(ix, k)

\* They are integers.
LEMMA ColumnTypes ==
    ASSUME NEW ix \in Indexes, NEW k \in Rounds
    PROVE  /\ Held(ix, k) \in Int /\ Taken(ix, k) \in Int /\ Credited(ix, k) \in Int
           /\ Net(ix, k) \in Int /\ Traded(ix, k) \in Int /\ Withdrawn(ix, k) \in Int
           /\ RowGap(ix, k) \in Int /\ BookGap(ix, k) \in Int
<1> DEFINE b == [u \in Users |-> ix.receipt[u][k].balance]
           t == [u \in Users |-> ix.receipt[u][k].redeemedForExchange]
           r == [u \in Users |-> ix.receipt[u][k].exchangeReceived]
<1>1. \A u \in Users : b[u] \in Int /\ t[u] \in Int /\ r[u] \in Int
  BY DEF Indexes, ReceiptRows
<1>2. IsFiniteSet(Users)
  BY UsersAssumption
<1> HIDE DEF b, t, r
<1>3. SumOver(b, Users) \in Int /\ SumOver(t, Users) \in Int /\ SumOver(r, Users) \in Int
  BY <1>1, <1>2, SumInt
<1>4. Held(ix, k) \in Int /\ Taken(ix, k) \in Int /\ Credited(ix, k) \in Int
  BY <1>3 DEF Held, Taken, Credited, b, t, r
<1>5. /\ ix.round[k].receiptSupply \in Int /\ Net(ix, k) \in Int /\ Traded(ix, k) \in Int
      /\ Withdrawn(ix, k) \in Int
  BY DEF Indexes, RoundRows, Net, Traded, Withdrawn
<1> QED
  BY <1>4, <1>5 DEF RowGap, BookGap

\* An amount that belongs to the round id only.
At(k, id, amount) == IF k = id THEN amount ELSE 0

\* A handler that shifts what the rows of round id add up to, by the amounts given.
Shifts(new, ix, id, row, book, net, traded, withdrawn, credited) ==
    /\ Kept(new, ix)
    /\ \A k \in Rounds :
          /\ RowGap(new, k) = RowGap(ix, k) + At(k, id, row)
          /\ BookGap(new, k) = BookGap(ix, k) + At(k, id, book)
          /\ Net(new, k) = Net(ix, k) + At(k, id, net)
          /\ Traded(new, k) = Traded(ix, k) + At(k, id, traded)
          /\ Withdrawn(new, k) = Withdrawn(ix, k) + At(k, id, withdrawn)
          /\ Credited(new, k) = Credited(ix, k) + At(k, id, credited)

\* A handler that leaves them as they are.
Still(new, ix) ==
    /\ Kept(new, ix)
    /\ \A k \in Rounds :
          /\ RowGap(new, k) = RowGap(ix, k) /\ BookGap(new, k) = BookGap(ix, k)
          /\ Net(new, k) = Net(ix, k) /\ Traded(new, k) = Traded(ix, k)
          /\ Withdrawn(new, k) = Withdrawn(ix, k) /\ Credited(new, k) = Credited(ix, k)

\* Writing a row, as above.
LEMMA WroteRound ==
    ASSUME NEW ix \in Indexes, NEW id \in Rounds, NEW row \in RoundRows
    PROVE  /\ Kept(WriteRound(ix, id, row), ix)
           /\ WriteRound(ix, id, row).round = [ix.round EXCEPT ![id] = row]
<1> DEFINE new == [ix EXCEPT !.round[id] = row]
<1>1. /\ Kept(new, ix) /\ Balances(new) = Balances(ix)
      /\ new.round = [ix.round EXCEPT ![id] = row]
      /\ Supplies(new) = [Supplies(ix) EXCEPT ![id] = row.receiptSupply]
  BY PutRound
<1>2. WriteRound(ix, id, row) = new
  BY DEF WriteRound
<1> HIDE DEF new
<1> QED
  BY <1>1, <1>2

\* The same of a receipt.
LEMMA WroteReceipt ==
    ASSUME NEW ix \in Indexes, NEW u \in Users, NEW id \in Rounds, NEW row \in ReceiptRows
    PROVE  /\ Kept(WriteReceipt(ix, u, id, row), ix)
           /\ WriteReceipt(ix, u, id, row).round = ix.round
           /\ WriteReceipt(ix, u, id, row).receipt = [ix.receipt EXCEPT ![u][id] = row]
<1> DEFINE new == [ix EXCEPT !.receipt[u][id] = row]
<1>1. /\ Kept(new, ix) /\ Supplies(new) = Supplies(ix) /\ new.round = ix.round
      /\ Balances(new) = [Balances(ix) EXCEPT ![u][id] = row.balance]
      /\ new.receipt = [ix.receipt EXCEPT ![u][id] = row]
  BY PutReceipt
<1>2. WriteReceipt(ix, u, id, row) = new
  BY DEF WriteReceipt
<1> HIDE DEF new
<1> QED
  BY <1>1, <1>2

\* One Round row replaced.
LEMMA RoundShifts ==
    ASSUME NEW ix \in Indexes, NEW id \in Rounds, NEW row \in RoundRows
    PROVE  LET old    == ix.round[id]
               supp   == row.receiptSupply - old.receiptSupply
               net    == (row.depositsQueued - row.depositsRedeemed)
                            - (old.depositsQueued - old.depositsRedeemed)
           IN  Shifts(WriteRound(ix, id, row), ix, id, supp, supp - net, net,
                      row.settledUnderlying - old.settledUnderlying,
                      row.exchangeAssetWithdrawn - old.exchangeAssetWithdrawn, 0)
<1> DEFINE old == ix.round[id]
           supp == row.receiptSupply - old.receiptSupply
           net == (row.depositsQueued - row.depositsRedeemed)
                     - (old.depositsQueued - old.depositsRedeemed)
           traded == row.settledUnderlying - old.settledUnderlying
           withdrawn == row.exchangeAssetWithdrawn - old.exchangeAssetWithdrawn
           new == WriteRound(ix, id, row)
<1>1. /\ Kept(new, ix) /\ new.round = [ix.round EXCEPT ![id] = row]
  BY WroteRound
<1>2. new.receipt = ix.receipt
  BY DEF WriteRound, Indexes
<1>3. ix.round \in [Rounds -> RoundRows]
  BY DEF Indexes
<1> HIDE DEF new
<1>4. \A k \in Rounds : Held(new, k) = Held(ix, k) /\ Taken(new, k) = Taken(ix, k)
                          /\ Credited(new, k) = Credited(ix, k)
  BY <1>2 DEF Held, Taken, Credited
<1>5. ASSUME NEW k \in Rounds
      PROVE  /\ RowGap(new, k) = RowGap(ix, k) + At(k, id, supp)
             /\ BookGap(new, k) = BookGap(ix, k) + At(k, id, supp - net)
             /\ Net(new, k) = Net(ix, k) + At(k, id, net)
             /\ Traded(new, k) = Traded(ix, k) + At(k, id, traded)
             /\ Withdrawn(new, k) = Withdrawn(ix, k) + At(k, id, withdrawn)
             /\ Credited(new, k) = Credited(ix, k) + At(k, id, 0)
  <2>1. /\ Held(ix, k) \in Int /\ Taken(ix, k) \in Int /\ Credited(ix, k) \in Int
        /\ RowGap(ix, k) \in Int /\ BookGap(ix, k) \in Int /\ Net(ix, k) \in Int
        /\ Traded(ix, k) \in Int /\ Withdrawn(ix, k) \in Int
    BY ColumnTypes
  <2>2. Credited(new, k) = Credited(ix, k) + At(k, id, 0)
    BY <1>4, <2>1 DEF At
  <2>3. CASE k # id
    <3>1. new.round[k] = ix.round[k]
      BY <1>1, <1>3, <2>3
    <3>2. /\ RowGap(new, k) = RowGap(ix, k) /\ BookGap(new, k) = BookGap(ix, k)
          /\ Net(new, k) = Net(ix, k) /\ Traded(new, k) = Traded(ix, k)
          /\ Withdrawn(new, k) = Withdrawn(ix, k)
      BY <1>4, <3>1 DEF RowGap, BookGap, Net, Traded, Withdrawn
    <3> QED
      BY <2>1, <2>2, <2>3, <3>2 DEF At
  <2>4. CASE k = id
    <3>1. new.round[id] = row
      BY <1>1, <1>3
    <3>2. /\ row.receiptSupply \in Int /\ row.depositsQueued \in Int
          /\ row.depositsRedeemed \in Int /\ row.settledUnderlying \in Int
          /\ row.exchangeAssetWithdrawn \in Int
      BY DEF RoundRows
    <3>3. /\ old.receiptSupply \in Int /\ old.depositsQueued \in Int
          /\ old.depositsRedeemed \in Int /\ old.settledUnderlying \in Int
          /\ old.exchangeAssetWithdrawn \in Int
      BY <1>3 DEF RoundRows
    <3>4. /\ RowGap(new, id) = row.receiptSupply - Held(ix, id)
          /\ RowGap(ix, id) = old.receiptSupply - Held(ix, id)
      BY <1>4, <3>1 DEF RowGap
    <3>5. /\ Net(new, id) = row.depositsQueued - row.depositsRedeemed
          /\ Net(ix, id) = old.depositsQueued - old.depositsRedeemed
      BY <3>1 DEF Net
    <3>6. /\ BookGap(new, id) = row.receiptSupply - Net(new, id) + Taken(ix, id)
          /\ BookGap(ix, id) = old.receiptSupply - Net(ix, id) + Taken(ix, id)
      BY <1>4, <3>1 DEF BookGap
    <3>7. /\ Traded(new, id) = row.settledUnderlying /\ Traded(ix, id) = old.settledUnderlying
          /\ Withdrawn(new, id) = row.exchangeAssetWithdrawn
          /\ Withdrawn(ix, id) = old.exchangeAssetWithdrawn
      BY <3>1 DEF Traded, Withdrawn
    <3> HIDE DEF old
    <3>8. RowGap(new, id) = RowGap(ix, id) + supp
      BY <2>1, <2>4, <3>2, <3>3, <3>4
    <3>9. Net(new, id) = Net(ix, id) + net
      BY <3>2, <3>3, <3>5
    <3>10. BookGap(new, id) = BookGap(ix, id) + (supp - net)
      BY <2>1, <2>4, <3>2, <3>3, <3>5, <3>6
    <3>11. Traded(new, id) = Traded(ix, id) + traded
           /\ Withdrawn(new, id) = Withdrawn(ix, id) + withdrawn
      BY <3>2, <3>3, <3>7
    <3> HIDE DEF supp, net, traded, withdrawn
    <3> QED
      BY <2>2, <2>4, <3>8, <3>9, <3>10, <3>11 DEF At
  <2> QED
    BY <2>3, <2>4
<1> QED
  BY <1>1, <1>5 DEF Shifts, new

\* A sum over the receipts of a round in which one account's column is written.
LEMMA ColumnChange ==
    ASSUME NEW f \in [Users -> Int], NEW g \in [Users -> Int], NEW u \in Users,
           \A v \in Users : v # u => g[v] = f[v]
    PROVE  SumOver(g, Users) = SumOver(f, Users) + (g[u] - f[u])
  BY UsersAssumption, SumChange

\* One Receipt row replaced.
LEMMA ReceiptShifts ==
    ASSUME NEW ix \in Indexes, NEW u \in Users, NEW id \in Rounds, NEW row \in ReceiptRows
    PROVE  LET old == ix.receipt[u][id]
           IN  Shifts(WriteReceipt(ix, u, id, row), ix, id, old.balance - row.balance,
                      row.redeemedForExchange - old.redeemedForExchange, 0, 0, 0,
                      row.exchangeReceived - old.exchangeReceived)
<1> DEFINE old == ix.receipt[u][id]
           held == old.balance - row.balance
           taken == row.redeemedForExchange - old.redeemedForExchange
           credited == row.exchangeReceived - old.exchangeReceived
           new == WriteReceipt(ix, u, id, row)
<1>1. /\ Kept(new, ix) /\ new.round = ix.round
      /\ new.receipt = [ix.receipt EXCEPT ![u][id] = row]
  BY WroteReceipt
<1>2. ix.receipt \in [Users -> [Rounds -> ReceiptRows]]
  BY DEF Indexes
<1>3. \A v \in Users, k \in Rounds :
        new.receipt[v][k] = IF v = u /\ k = id THEN row ELSE ix.receipt[v][k]
  BY <1>1, <1>2
<1>4. row.balance \in Int /\ row.redeemedForExchange \in Int /\ row.exchangeReceived \in Int
  BY DEF ReceiptRows
<1>5. old.balance \in Int /\ old.redeemedForExchange \in Int /\ old.exchangeReceived \in Int
  BY <1>2 DEF ReceiptRows
<1>n. new \in Indexes
  BY <1>1 DEF Kept
<1> HIDE DEF new
<1>6. ASSUME NEW k \in Rounds
      PROVE  /\ Held(new, k) = Held(ix, k) - At(k, id, held)
             /\ Taken(new, k) = Taken(ix, k) + At(k, id, taken)
             /\ Credited(new, k) = Credited(ix, k) + At(k, id, credited)
  <2>1. Held(ix, k) \in Int /\ Taken(ix, k) \in Int /\ Credited(ix, k) \in Int
    BY ColumnTypes
  <2>2. CASE k # id
    <3>1. \A v \in Users : new.receipt[v][k] = ix.receipt[v][k]
      BY <1>3, <2>2
    <3>2. /\ Held(new, k) = Held(ix, k) /\ Taken(new, k) = Taken(ix, k)
          /\ Credited(new, k) = Credited(ix, k)
      BY <3>1 DEF Held, Taken, Credited
    <3> QED
      BY <2>1, <2>2, <3>2 DEF At
  <2>3. CASE k = id
    <3> DEFINE b == [v \in Users |-> ix.receipt[v][id].balance]
               t == [v \in Users |-> ix.receipt[v][id].redeemedForExchange]
               r == [v \in Users |-> ix.receipt[v][id].exchangeReceived]
               bn == [v \in Users |-> new.receipt[v][id].balance]
               tn == [v \in Users |-> new.receipt[v][id].redeemedForExchange]
               rn == [v \in Users |-> new.receipt[v][id].exchangeReceived]
    <3>1. /\ b \in [Users -> Int] /\ t \in [Users -> Int] /\ r \in [Users -> Int]
      BY <1>2 DEF ReceiptRows
    <3>2. /\ bn \in [Users -> Int] /\ tn \in [Users -> Int] /\ rn \in [Users -> Int]
      BY <1>n DEF Indexes, ReceiptRows
    <3>3. /\ \A v \in Users : v # u => bn[v] = b[v] /\ tn[v] = t[v] /\ rn[v] = r[v]
          /\ bn[u] = row.balance /\ tn[u] = row.redeemedForExchange
          /\ rn[u] = row.exchangeReceived
          /\ b[u] = old.balance /\ t[u] = old.redeemedForExchange
          /\ r[u] = old.exchangeReceived
      BY <1>3
    <3>4. /\ Held(new, id) = SumOver(bn, Users) /\ Held(ix, id) = SumOver(b, Users)
          /\ Taken(new, id) = SumOver(tn, Users) /\ Taken(ix, id) = SumOver(t, Users)
          /\ Credited(new, id) = SumOver(rn, Users) /\ Credited(ix, id) = SumOver(r, Users)
      BY DEF Held, Taken, Credited
    <3> HIDE DEF b, t, r, bn, tn, rn, old
    <3>5. SumOver(bn, Users) = SumOver(b, Users) + (row.balance - old.balance)
      BY <3>1, <3>2, <3>3, ColumnChange
    <3>6. SumOver(tn, Users)
            = SumOver(t, Users) + (row.redeemedForExchange - old.redeemedForExchange)
      BY <3>1, <3>2, <3>3, ColumnChange
    <3>7. SumOver(rn, Users)
            = SumOver(r, Users) + (row.exchangeReceived - old.exchangeReceived)
      BY <3>1, <3>2, <3>3, ColumnChange
    <3>8. Held(new, id) = Held(ix, id) - held
      BY <1>4, <1>5, <2>1, <2>3, <3>4, <3>5
    <3>9. Taken(new, id) = Taken(ix, id) + taken /\ Credited(new, id) = Credited(ix, id) + credited
      BY <3>4, <3>6, <3>7
    <3> HIDE DEF held, taken, credited
    <3> QED
      BY <2>3, <3>8, <3>9 DEF At
  <2> QED
    BY <2>2, <2>3
<1>7. held \in Int /\ taken \in Int
  BY <1>4, <1>5
<1> HIDE DEF held, taken, credited, old
<1>8. ASSUME NEW k \in Rounds
      PROVE  /\ RowGap(new, k) = RowGap(ix, k) + At(k, id, held)
             /\ BookGap(new, k) = BookGap(ix, k) + At(k, id, taken)
             /\ Net(new, k) = Net(ix, k) + At(k, id, 0)
             /\ Traded(new, k) = Traded(ix, k) + At(k, id, 0)
             /\ Withdrawn(new, k) = Withdrawn(ix, k) + At(k, id, 0)
             /\ Credited(new, k) = Credited(ix, k) + At(k, id, credited)
  <2>1. /\ Held(ix, k) \in Int /\ Taken(ix, k) \in Int
        /\ Net(ix, k) \in Int /\ Traded(ix, k) \in Int /\ Withdrawn(ix, k) \in Int
    BY ColumnTypes
  <2>2. /\ Net(new, k) = Net(ix, k) /\ Traded(new, k) = Traded(ix, k)
        /\ Withdrawn(new, k) = Withdrawn(ix, k)
    BY <1>1 DEF Net, Traded, Withdrawn
  <2> DEFINE s == ix.round[k].receiptSupply
  <2>3. /\ RowGap(new, k) = s - Held(new, k) /\ RowGap(ix, k) = s - Held(ix, k)
        /\ BookGap(new, k) = s - Net(new, k) + Taken(new, k)
        /\ BookGap(ix, k) = s - Net(ix, k) + Taken(ix, k)
    BY <1>1 DEF RowGap, BookGap
  <2>4. s \in Int
    BY DEF Indexes, RoundRows
  <2>5. At(k, id, held) \in Int /\ At(k, id, taken) \in Int /\ At(k, id, 0) = 0
    BY <1>7 DEF At
  <2> HIDE DEF s
  <2>6. RowGap(new, k) = RowGap(ix, k) + At(k, id, held)
    BY <1>6, <2>1, <2>3, <2>4, <2>5
  <2>7. BookGap(new, k) = BookGap(ix, k) + At(k, id, taken)
    BY <1>6, <2>1, <2>2, <2>3, <2>4, <2>5
  <2> QED
    BY <1>6, <2>1, <2>2, <2>5, <2>6, <2>7
<1> QED
  BY <1>1, <1>8 DEF Shifts, new, held, taken, credited, old

---------------------------------------------------------------------------
(* What the handlers shift *)

\* A handler that does nothing.
LEMMA StillAlone == ASSUME NEW ix \in Indexes PROVE Still(ix, ix)
  BY DEF Still, Kept

\* One handler after the other.
LEMMA StillTwice ==
    ASSUME NEW a, NEW b, NEW c, Still(b, a), Still(c, b)
    PROVE  Still(c, a)
  BY DEF Still, Kept

\* A shift after a handler that shifts nothing.
LEMMA StillThenShifts ==
    ASSUME NEW a, NEW b, NEW c, NEW id, NEW row, NEW book, NEW net, NEW traded,
           NEW withdrawn, NEW credited,
           Still(b, a), Shifts(c, b, id, row, book, net, traded, withdrawn, credited)
    PROVE  Shifts(c, a, id, row, book, net, traded, withdrawn, credited)
  BY DEF Still, Shifts, Kept

\* A shift by nothing.
LEMMA ShiftsNothing ==
    ASSUME NEW ix \in Indexes, NEW new, NEW id, Shifts(new, ix, id, 0, 0, 0, 0, 0, 0)
    PROVE  Still(new, ix)
<1>1. ASSUME NEW k \in Rounds
      PROVE  /\ RowGap(new, k) = RowGap(ix, k) /\ BookGap(new, k) = BookGap(ix, k)
             /\ Net(new, k) = Net(ix, k) /\ Traded(new, k) = Traded(ix, k)
             /\ Withdrawn(new, k) = Withdrawn(ix, k) /\ Credited(new, k) = Credited(ix, k)
  <2>1. /\ RowGap(ix, k) \in Int /\ BookGap(ix, k) \in Int /\ Net(ix, k) \in Int
        /\ Traded(ix, k) \in Int /\ Withdrawn(ix, k) \in Int /\ Credited(ix, k) \in Int
    BY ColumnTypes
  <2>2. At(k, id, 0) = 0
    BY DEF At
  <2> QED
    BY <2>1, <2>2 DEF Shifts
<1> QED
  BY <1>1 DEF Shifts, Still

\* Two shifts of one round.
LEMMA ShiftsTwice ==
    ASSUME NEW a \in Indexes, NEW b, NEW c, NEW id,
           NEW r1 \in Int, NEW b1 \in Int, NEW n1 \in Int, NEW t1 \in Int,
           NEW w1 \in Int, NEW c1 \in Int,
           NEW r2 \in Int, NEW b2 \in Int, NEW n2 \in Int, NEW t2 \in Int,
           NEW w2 \in Int, NEW c2 \in Int,
           Shifts(b, a, id, r1, b1, n1, t1, w1, c1), Shifts(c, b, id, r2, b2, n2, t2, w2, c2)
    PROVE  Shifts(c, a, id, r1 + r2, b1 + b2, n1 + n2, t1 + t2, w1 + w2, c1 + c2)
<1>1. Kept(c, a)
  BY DEF Shifts, Kept
<1>2. ASSUME NEW p \in Int, NEW q \in Int, NEW k
      PROVE  /\ At(k, id, p) + At(k, id, q) = At(k, id, p + q)
             /\ At(k, id, p) \in Int /\ At(k, id, q) \in Int
  BY DEF At
<1>3. ASSUME NEW k \in Rounds
      PROVE  /\ RowGap(c, k) = RowGap(a, k) + At(k, id, r1 + r2)
             /\ BookGap(c, k) = BookGap(a, k) + At(k, id, b1 + b2)
             /\ Net(c, k) = Net(a, k) + At(k, id, n1 + n2)
             /\ Traded(c, k) = Traded(a, k) + At(k, id, t1 + t2)
             /\ Withdrawn(c, k) = Withdrawn(a, k) + At(k, id, w1 + w2)
             /\ Credited(c, k) = Credited(a, k) + At(k, id, c1 + c2)
  <2>1. /\ RowGap(a, k) \in Int /\ BookGap(a, k) \in Int /\ Net(a, k) \in Int
        /\ Traded(a, k) \in Int /\ Withdrawn(a, k) \in Int /\ Credited(a, k) \in Int
    BY ColumnTypes
  <2>2. /\ RowGap(c, k) = RowGap(a, k) + At(k, id, r1) + At(k, id, r2)
        /\ BookGap(c, k) = BookGap(a, k) + At(k, id, b1) + At(k, id, b2)
        /\ Net(c, k) = Net(a, k) + At(k, id, n1) + At(k, id, n2)
        /\ Traded(c, k) = Traded(a, k) + At(k, id, t1) + At(k, id, t2)
        /\ Withdrawn(c, k) = Withdrawn(a, k) + At(k, id, w1) + At(k, id, w2)
        /\ Credited(c, k) = Credited(a, k) + At(k, id, c1) + At(k, id, c2)
    BY DEF Shifts
  <2>3. /\ At(k, id, r1) + At(k, id, r2) = At(k, id, r1 + r2)
        /\ At(k, id, b1) + At(k, id, b2) = At(k, id, b1 + b2)
        /\ At(k, id, n1) + At(k, id, n2) = At(k, id, n1 + n2)
        /\ At(k, id, t1) + At(k, id, t2) = At(k, id, t1 + t2)
        /\ At(k, id, w1) + At(k, id, w2) = At(k, id, w1 + w2)
        /\ At(k, id, c1) + At(k, id, c2) = At(k, id, c1 + c2)
    BY <1>2
  <2>4. /\ At(k, id, r1) \in Int /\ At(k, id, r2) \in Int
        /\ At(k, id, b1) \in Int /\ At(k, id, b2) \in Int
        /\ At(k, id, n1) \in Int /\ At(k, id, n2) \in Int
        /\ At(k, id, t1) \in Int /\ At(k, id, t2) \in Int
        /\ At(k, id, w1) \in Int /\ At(k, id, w2) \in Int
        /\ At(k, id, c1) \in Int /\ At(k, id, c2) \in Int
    BY DEF At
  <2> QED
    BY <2>1, <2>2, <2>3, <2>4
<1> QED
  BY <1>1, <1>3 DEF Shifts

\* A round is written, its sums changed by the amounts given.
LEMMA SumsWritten ==
    ASSUME NEW ix \in Indexes, NEW id \in Rounds, NEW row \in RoundRows,
           NEW supp \in Int, NEW net \in Int, NEW traded \in Int, NEW withdrawn \in Int,
           row.receiptSupply = ix.round[id].receiptSupply + supp,
           row.depositsQueued - row.depositsRedeemed
              = ix.round[id].depositsQueued - ix.round[id].depositsRedeemed + net,
           row.settledUnderlying = ix.round[id].settledUnderlying + traded,
           row.exchangeAssetWithdrawn = ix.round[id].exchangeAssetWithdrawn + withdrawn
    PROVE  Shifts(WriteRound(ix, id, row), ix, id, supp, supp - net, net, traded, withdrawn, 0)
<1> DEFINE old == ix.round[id]
           d1 == row.receiptSupply - old.receiptSupply
           d2 == (row.depositsQueued - row.depositsRedeemed)
                    - (old.depositsQueued - old.depositsRedeemed)
           d3 == row.settledUnderlying - old.settledUnderlying
           d4 == row.exchangeAssetWithdrawn - old.exchangeAssetWithdrawn
<1>1. /\ old.receiptSupply \in Int /\ old.depositsQueued \in Int /\ old.depositsRedeemed \in Int
      /\ old.settledUnderlying \in Int /\ old.exchangeAssetWithdrawn \in Int
  BY DEF Indexes, RoundRows
<1>2. Shifts(WriteRound(ix, id, row), ix, id, d1, d1 - d2, d2, d3, d4, 0)
  BY RoundShifts
<1> HIDE DEF old
<1>3. d1 = supp /\ d2 = net /\ d3 = traded /\ d4 = withdrawn
  BY <1>1 DEF old
<1> HIDE DEF d1, d2, d3, d4
<1> QED
  BY <1>2, <1>3

\* A round is written with the sums it had.
LEMMA SumsAlone ==
    ASSUME NEW ix \in Indexes, NEW id \in Rounds, NEW row \in RoundRows,
           row.receiptSupply = ix.round[id].receiptSupply,
           row.depositsQueued = ix.round[id].depositsQueued,
           row.depositsRedeemed = ix.round[id].depositsRedeemed,
           row.settledUnderlying = ix.round[id].settledUnderlying,
           row.exchangeAssetWithdrawn = ix.round[id].exchangeAssetWithdrawn
    PROVE  Still(WriteRound(ix, id, row), ix)
<1> DEFINE new == WriteRound(ix, id, row)
<1>1. /\ Kept(new, ix) /\ new.round = [ix.round EXCEPT ![id] = row]
  BY WroteRound
<1>2. new.receipt = ix.receipt
  BY DEF WriteRound, Indexes
<1>3. ix.round \in [Rounds -> RoundRows]
  BY DEF Indexes
<1> HIDE DEF new
<1>4. \A k \in Rounds : Held(new, k) = Held(ix, k) /\ Taken(new, k) = Taken(ix, k)
                          /\ Credited(new, k) = Credited(ix, k)
  BY <1>2 DEF Held, Taken, Credited
<1>5. ASSUME NEW k \in Rounds
      PROVE  /\ new.round[k].receiptSupply = ix.round[k].receiptSupply
             /\ new.round[k].depositsQueued = ix.round[k].depositsQueued
             /\ new.round[k].depositsRedeemed = ix.round[k].depositsRedeemed
             /\ new.round[k].settledUnderlying = ix.round[k].settledUnderlying
             /\ new.round[k].exchangeAssetWithdrawn = ix.round[k].exchangeAssetWithdrawn
  <2>1. new.round[k] = IF k = id THEN row ELSE ix.round[k]
    BY <1>1, <1>3
  <2> QED
    BY <2>1
<1> QED
  BY <1>1, <1>4, <1>5 DEF Still, RowGap, BookGap, Net, Traded, Withdrawn, new

\* getOrCreateRound.
LEMMA TouchedStill ==
    ASSUME NEW ix \in Indexes, NEW id \in Rounds
    PROVE  Still(Touched(ix, id), ix) /\ Touched(ix, id) \in Indexes
<1> DEFINE old == ix.round[id]
           row == [old EXCEPT !.known = TRUE]
<1>1. old \in RoundRows
  BY DEF Indexes
<1>2. Touched(ix, id) = WriteRound(ix, id, row)
  BY DEF Touched, WriteRound
<1> HIDE DEF old
<1>3. /\ row \in RoundRows /\ row.receiptSupply = old.receiptSupply
      /\ row.depositsQueued = old.depositsQueued /\ row.depositsRedeemed = old.depositsRedeemed
      /\ row.settledUnderlying = old.settledUnderlying
      /\ row.exchangeAssetWithdrawn = old.exchangeAssetWithdrawn
  BY <1>1 DEF RoundRows
<1> HIDE DEF row
<1>4. Still(WriteRound(ix, id, row), ix)
  BY <1>3, SumsAlone DEF old
<1> QED
  BY <1>2, <1>4 DEF Still, Kept

\* The two writes to a balance.
LEMMA BalanceShifts ==
    ASSUME NEW ix \in Indexes, NEW u \in Users, NEW id \in Rounds, NEW d \in Int
    PROVE  /\ Shifts(AddBalance(ix, u, id, d), ix, id, -d, 0, 0, 0, 0, 0)
           /\ Shifts(TakeBalance(ix, u, id, d), ix, id, d, 0, 0, 0, 0, 0)
<1>1. ASSUME NEW e \in Int
      PROVE  Shifts(AddBalance(ix, u, id, e), ix, id, -e, 0, 0, 0, 0, 0)
  <2> DEFINE old == ix.receipt[u][id]
             row == [old EXCEPT !.balance = @ + e]
             d1 == old.balance - row.balance
             d2 == row.redeemedForExchange - old.redeemedForExchange
             d3 == row.exchangeReceived - old.exchangeReceived
  <2>1. old \in ReceiptRows
    BY DEF Indexes
  <2>2. AddBalance(ix, u, id, e) = WriteReceipt(ix, u, id, row)
    BY DEF AddBalance, WriteReceipt
  <2> HIDE DEF old
  <2>3. /\ row \in ReceiptRows /\ row.balance = old.balance + e
        /\ row.redeemedForExchange = old.redeemedForExchange
        /\ row.exchangeReceived = old.exchangeReceived
        /\ old.balance \in Int /\ old.redeemedForExchange \in Int /\ old.exchangeReceived \in Int
    BY <2>1 DEF ReceiptRows
  <2> HIDE DEF row
  <2>4. d1 = -e /\ d2 = 0 /\ d3 = 0
    BY <2>3
  <2>5. Shifts(WriteReceipt(ix, u, id, row), ix, id, d1, d2, 0, 0, 0, d3)
    BY <2>3, ReceiptShifts DEF old
  <2> HIDE DEF d1, d2, d3
  <2> QED
    BY <2>2, <2>4, <2>5
<1>2. TakeBalance(ix, u, id, d) = AddBalance(ix, u, id, -d)
  <2>1. ix.receipt[u][id].balance - d = ix.receipt[u][id].balance + (-d)
    BY DEF Indexes, ReceiptRows
  <2> QED
    BY <2>1 DEF TakeBalance, AddBalance
<1>3. -d \in Int /\ -(-d) = d
  OBVIOUS
<1>4. Shifts(AddBalance(ix, u, id, -d), ix, id, -(-d), 0, 0, 0, 0, 0)
  BY <1>1, <1>3
<1> QED
  BY <1>1, <1>2, <1>3, <1>4

\* The write to a supply.
LEMMA SupplyShifts ==
    ASSUME NEW ix \in Indexes, NEW id \in Rounds, NEW d \in Int, NEW e \in Int
    PROVE  Shifts(AddSupply(ix, id, d, e), ix, id, d - e, d - e, 0, 0, 0, 0)
<1> DEFINE old == ix.round[id]
           row == [old EXCEPT !.receiptSupply = @ + d - e]
           c == d - e
<1>1. old \in RoundRows
  BY DEF Indexes
<1>2. AddSupply(ix, id, d, e) = WriteRound(ix, id, row)
  BY DEF AddSupply, WriteRound
<1> HIDE DEF old
<1>3. /\ row \in RoundRows /\ row.receiptSupply = old.receiptSupply + d - e
      /\ row.depositsQueued = old.depositsQueued /\ row.depositsRedeemed = old.depositsRedeemed
      /\ row.settledUnderlying = old.settledUnderlying
      /\ row.exchangeAssetWithdrawn = old.exchangeAssetWithdrawn
      /\ old.receiptSupply \in Int /\ old.depositsQueued \in Int /\ old.depositsRedeemed \in Int
      /\ old.settledUnderlying \in Int /\ old.exchangeAssetWithdrawn \in Int
  BY <1>1 DEF RoundRows
<1> HIDE DEF row
<1>4. /\ c \in Int /\ c - 0 = c /\ row.receiptSupply = old.receiptSupply + c
      /\ row.depositsQueued - row.depositsRedeemed
            = old.depositsQueued - old.depositsRedeemed + 0
      /\ row.settledUnderlying = old.settledUnderlying + 0
      /\ row.exchangeAssetWithdrawn = old.exchangeAssetWithdrawn + 0
  BY <1>3
<1> HIDE DEF c
<1>5. Shifts(WriteRound(ix, id, row), ix, id, c, c - 0, 0, 0, 0, 0)
  BY <1>3, <1>4, SumsWritten DEF old
<1> QED
  BY <1>2, <1>4, <1>5 DEF c

\* What a transfer adds to the supply of its round.
Grown(from, to, a) == IF from = NoOne THEN a ELSE IF to = NoOne THEN -a ELSE 0

\* A mint, a burn or a transfer: the rows go on adding up.
LEMMA TransferShifts ==
    ASSUME NEW ix \in Indexes, ix.known, NEW from \in Users \cup {NoOne},
           NEW to \in Users \cup {NoOne}, from # NoOne \/ to # NoOne,
           NEW id \in Rounds, NEW a \in Int
    PROVE  Shifts(ApplyReceiptTransfer(ix, from, to, id, a), ix, id,
                  0, Grown(from, to, a), 0, 0, 0, 0)
<1> DEFINE opened == Touched(ix, id)
           sent == IF from = NoOne THEN opened ELSE TakeBalance(opened, from, id, a)
           received == IF to = NoOne THEN sent ELSE AddBalance(sent, to, id, a)
           d == IF from = NoOne THEN a ELSE 0
           e == IF from # NoOne /\ to = NoOne THEN a ELSE 0
           new == AddSupply(received, id, d, e)
           x == IF from = NoOne THEN 0 ELSE a
           y == IF to = NoOne THEN 0 ELSE -a
           g == Grown(from, to, a)
<1>1. ApplyReceiptTransfer(ix, from, to, id, a) = new
  BY DEF ApplyReceiptTransfer, AddSupply, TakeBalance, AddBalance, IfKnown
<1>2. Still(opened, ix) /\ opened \in Indexes
  BY TouchedStill
<1> HIDE DEF opened
<1>3. Shifts(sent, opened, id, x, 0, 0, 0, 0, 0) /\ sent \in Indexes
  <2>1. CASE from = NoOne
    <3>1. \A k \in Rounds : At(k, id, 0) = 0
      BY DEF At
    <3>2. \A k \in Rounds : /\ RowGap(opened, k) \in Int /\ BookGap(opened, k) \in Int
                            /\ Net(opened, k) \in Int /\ Traded(opened, k) \in Int
                            /\ Withdrawn(opened, k) \in Int /\ Credited(opened, k) \in Int
      BY <1>2, ColumnTypes
    <3>3. Shifts(opened, opened, id, 0, 0, 0, 0, 0, 0)
      BY <1>2, <3>1, <3>2 DEF Shifts, Kept
    <3> QED
      BY <1>2, <2>1, <3>3
  <2>2. CASE from # NoOne
    <3>1. Shifts(TakeBalance(opened, from, id, a), opened, id, a, 0, 0, 0, 0, 0)
      BY <1>2, <2>2, BalanceShifts
    <3> QED
      BY <2>2, <3>1 DEF Shifts, Kept
  <2> QED
    BY <2>1, <2>2
<1> HIDE DEF sent
<1>4. Shifts(received, sent, id, y, 0, 0, 0, 0, 0) /\ received \in Indexes
  <2>1. CASE to = NoOne
    <3>1. \A k \in Rounds : At(k, id, 0) = 0
      BY DEF At
    <3>2. \A k \in Rounds : /\ RowGap(sent, k) \in Int /\ BookGap(sent, k) \in Int
                            /\ Net(sent, k) \in Int /\ Traded(sent, k) \in Int
                            /\ Withdrawn(sent, k) \in Int /\ Credited(sent, k) \in Int
      BY <1>3, ColumnTypes
    <3>3. Shifts(sent, sent, id, 0, 0, 0, 0, 0, 0)
      BY <1>3, <3>1, <3>2 DEF Shifts, Kept
    <3> QED
      BY <1>3, <2>1, <3>3
  <2>2. CASE to # NoOne
    <3>1. Shifts(AddBalance(sent, to, id, a), sent, id, -a, 0, 0, 0, 0, 0)
      BY <1>3, <2>2, BalanceShifts
    <3> QED
      BY <2>2, <3>1 DEF Shifts, Kept
  <2> QED
    BY <2>1, <2>2
<1> HIDE DEF received
<1>5. /\ d \in Int /\ e \in Int /\ x \in Int /\ y \in Int /\ g \in Int
      /\ d - e = g /\ x + y + g = 0
  BY DEF Grown
<1> HIDE DEF d, e, x, y
<1>6. Shifts(new, received, id, g, g, 0, 0, 0, 0)
  BY <1>4, <1>5, SupplyShifts
<1> HIDE DEF g, new
<1>z. 0 \in Int /\ 0 + 0 = 0 /\ 0 + g = g
  BY <1>5
<1>7. Shifts(received, opened, id, x + y, 0 + 0, 0 + 0, 0 + 0, 0 + 0, 0 + 0)
  BY <1>2, <1>3, <1>4, <1>5, <1>z, ShiftsTwice
<1>8. Shifts(received, opened, id, x + y, 0, 0, 0, 0, 0) /\ x + y \in Int
  BY <1>5, <1>7, <1>z
<1>9. Shifts(new, opened, id, x + y + g, 0 + g, 0 + 0, 0 + 0, 0 + 0, 0 + 0)
  BY <1>2, <1>5, <1>6, <1>8, <1>z, ShiftsTwice
<1>10. Shifts(new, opened, id, 0, g, 0, 0, 0, 0)
  BY <1>5, <1>9, <1>z
<1> QED
  BY <1>1, <1>2, <1>10, StillThenShifts DEF g

\* A round is stored and written, its sums changed by the amounts given.
LEMMA OpenedWritten ==
    ASSUME NEW ix \in Indexes, NEW id \in Rounds, NEW row \in RoundRows, NEW net \in Int,
           row.receiptSupply = Touched(ix, id).round[id].receiptSupply,
           row.depositsQueued - row.depositsRedeemed
              = Touched(ix, id).round[id].depositsQueued
                  - Touched(ix, id).round[id].depositsRedeemed + net,
           row.settledUnderlying = Touched(ix, id).round[id].settledUnderlying,
           row.exchangeAssetWithdrawn = Touched(ix, id).round[id].exchangeAssetWithdrawn
    PROVE  Shifts(WriteRound(Touched(ix, id), id, row), ix, id, 0, -net, net, 0, 0, 0)
<1> DEFINE opened == Touched(ix, id)
           old == opened.round[id]
<1>1. Still(opened, ix) /\ opened \in Indexes
  BY TouchedStill
<1>2. /\ row.receiptSupply = old.receiptSupply
      /\ row.depositsQueued - row.depositsRedeemed
            = old.depositsQueued - old.depositsRedeemed + net
      /\ row.settledUnderlying = old.settledUnderlying
      /\ row.exchangeAssetWithdrawn = old.exchangeAssetWithdrawn
  OBVIOUS
<1>3. row.receiptSupply \in Int /\ row.settledUnderlying \in Int
      /\ row.exchangeAssetWithdrawn \in Int
  BY DEF RoundRows
<1>h. old = opened.round[id]
  OBVIOUS
<1> HIDE DEF opened, old
<1>4. /\ row.receiptSupply = old.receiptSupply + 0
      /\ row.settledUnderlying = old.settledUnderlying + 0
      /\ row.exchangeAssetWithdrawn = old.exchangeAssetWithdrawn + 0
      /\ 0 - net = -net
  BY <1>2, <1>3
<1>5. Shifts(WriteRound(opened, id, row), opened, id, 0, 0 - net, net, 0, 0, 0)
  BY <1>1, <1>2, <1>4, <1>h, SumsWritten
<1> QED
  BY <1>1, <1>4, <1>5, StillThenShifts DEF opened

\* applyDepositWithReceipt.
LEMMA DepositShifts ==
    ASSUME NEW ix \in Indexes, ix.known, NEW id \in Rounds, NEW a \in Int
    PROVE  Shifts(ApplyDepositWithReceipt(ix, id, a), ix, id, 0, -a, a, 0, 0, 0)
<1> DEFINE old == Touched(ix, id).round[id]
           row == [old EXCEPT !.depositsQueued = @ + a]
<1>1. old \in RoundRows
  BY TouchedRow
<1>2. WriteRound(Touched(ix, id), id, row)
        = [Touched(ix, id) EXCEPT !.round[id].depositsQueued = @ + a]
  BY DEF WriteRound
<1> HIDE DEF old
<1>3. /\ row \in RoundRows /\ row.receiptSupply = old.receiptSupply
      /\ row.depositsQueued = old.depositsQueued + a
      /\ row.depositsRedeemed = old.depositsRedeemed
      /\ row.settledUnderlying = old.settledUnderlying
      /\ row.exchangeAssetWithdrawn = old.exchangeAssetWithdrawn
      /\ old.depositsQueued \in Int /\ old.depositsRedeemed \in Int
  BY <1>1 DEF RoundRows
<1> HIDE DEF row
<1>4. row.depositsQueued - row.depositsRedeemed
        = old.depositsQueued - old.depositsRedeemed + a
  BY <1>3
<1>5. Shifts(WriteRound(Touched(ix, id), id, row), ix, id, 0, -a, a, 0, 0, 0)
  BY <1>3, <1>4, OpenedWritten DEF old
<1> QED
  BY <1>2, <1>5 DEF ApplyDepositWithReceipt, IfKnown

\* markUnderlyingRedemption.
LEMMA UnderlyingShifts ==
    ASSUME NEW ix \in Indexes, ix.known, NEW u, NEW id \in Rounds, NEW a \in Int
    PROVE  Shifts(MarkUnderlyingRedemption(ix, u, id, a), ix, id, 0, a, -a, 0, 0, 0)
<1> DEFINE old == Touched(ix, id).round[id]
           row == [old EXCEPT !.depositsRedeemed = @ + a]
<1>1. old \in RoundRows
  BY TouchedRow
<1>2. WriteRound(Touched(ix, id), id, row)
        = [Touched(ix, id) EXCEPT !.round[id].depositsRedeemed = @ + a]
  BY DEF WriteRound
<1> HIDE DEF old
<1>3. /\ row \in RoundRows /\ row.receiptSupply = old.receiptSupply
      /\ row.depositsQueued = old.depositsQueued
      /\ row.depositsRedeemed = old.depositsRedeemed + a
      /\ row.settledUnderlying = old.settledUnderlying
      /\ row.exchangeAssetWithdrawn = old.exchangeAssetWithdrawn
      /\ old.depositsQueued \in Int /\ old.depositsRedeemed \in Int
  BY <1>1 DEF RoundRows
<1> HIDE DEF row
<1>4. /\ row.depositsQueued - row.depositsRedeemed
            = old.depositsQueued - old.depositsRedeemed + (-a)
      /\ -a \in Int /\ -(-a) = a
  BY <1>3
<1>5. Shifts(WriteRound(Touched(ix, id), id, row), ix, id, 0, -(-a), -a, 0, 0, 0)
  BY <1>3, <1>4, OpenedWritten DEF old
<1> QED
  BY <1>2, <1>4, <1>5 DEF MarkUnderlyingRedemption, IfKnown

\* A receipt is written, its sums changed by the amounts given.
LEMMA ReceiptSumsWritten ==
    ASSUME NEW ix \in Indexes, NEW u \in Users, NEW id \in Rounds, NEW row \in ReceiptRows,
           NEW taken \in Int, NEW credited \in Int,
           row.balance = ix.receipt[u][id].balance,
           row.redeemedForExchange = ix.receipt[u][id].redeemedForExchange + taken,
           row.exchangeReceived = ix.receipt[u][id].exchangeReceived + credited
    PROVE  Shifts(WriteReceipt(ix, u, id, row), ix, id, 0, taken, 0, 0, 0, credited)
<1> DEFINE old == ix.receipt[u][id]
           d1 == old.balance - row.balance
           d2 == row.redeemedForExchange - old.redeemedForExchange
           d3 == row.exchangeReceived - old.exchangeReceived
<1>1. old.balance \in Int /\ old.redeemedForExchange \in Int /\ old.exchangeReceived \in Int
  BY DEF Indexes, ReceiptRows
<1>2. Shifts(WriteReceipt(ix, u, id, row), ix, id, d1, d2, 0, 0, 0, d3)
  BY ReceiptShifts
<1> HIDE DEF old
<1>3. d1 = 0 /\ d2 = taken /\ d3 = credited
  BY <1>1 DEF old
<1> HIDE DEF d1, d2, d3
<1> QED
  BY <1>2, <1>3

\* markExchangeAssetRedemption.
LEMMA ExchangeShifts ==
    ASSUME NEW ix \in Indexes, ix.known, NEW u \in Users, NEW id \in Rounds,
           NEW a \in Int, NEW x \in Int
    PROVE  Shifts(MarkExchangeAssetRedemption(ix, u, id, a, x), ix, id, 0, a, 0, 0, x, x)
<1> DEFINE opened == Touched(ix, id)
           received == opened.receipt[u][id].exchangeReceived + x
           withdrawn == opened.round[id].exchangeAssetWithdrawn + x
           asked == WriteReceipt(opened, u, id,
                        [opened.receipt[u][id] EXCEPT !.redeemedForExchange = @ + a])
           paid == WriteReceipt(asked, u, id,
                        [asked.receipt[u][id] EXCEPT !.exchangeReceived = received])
           new == WriteRound(paid, id,
                        [paid.round[id] EXCEPT !.exchangeAssetWithdrawn = withdrawn])
<1>1. Still(opened, ix) /\ opened \in Indexes
  BY TouchedStill
<1>2. new = [opened EXCEPT !.receipt[u][id].redeemedForExchange = @ + a,
                           !.receipt[u][id].exchangeReceived = @ + x,
                           !.round[id].exchangeAssetWithdrawn = @ + x]
  BY DEF WriteRound, WriteReceipt
<1>i. /\ received \in Int /\ withdrawn \in Int
      /\ received = opened.receipt[u][id].exchangeReceived + x
      /\ withdrawn = opened.round[id].exchangeAssetWithdrawn + x
  <2> HIDE DEF opened
  <2> QED
    BY <1>1 DEF Indexes, ReceiptRows, RoundRows
<1>z. 0 \in Int /\ 0 - 0 = 0 /\ 0 + 0 = 0 /\ a + 0 = a /\ 0 + x = x /\ x + 0 = x
  OBVIOUS
<1> HIDE DEF received, withdrawn
<1>3. /\ Shifts(asked, opened, id, 0, a, 0, 0, 0, 0) /\ asked \in Indexes
      /\ asked.receipt[u][id].exchangeReceived = opened.receipt[u][id].exchangeReceived
      /\ asked.round = opened.round
  <2> HIDE DEF opened
  <2> DEFINE old == opened.receipt[u][id]
             row == [old EXCEPT !.redeemedForExchange = @ + a]
  <2>1. old \in ReceiptRows /\ opened.receipt \in [Users -> [Rounds -> ReceiptRows]]
    BY <1>1 DEF Indexes
  <2>h. old = opened.receipt[u][id]
    OBVIOUS
  <2> HIDE DEF old
  <2>2. /\ row \in ReceiptRows /\ row.balance = old.balance
        /\ row.redeemedForExchange = old.redeemedForExchange + a
        /\ row.exchangeReceived = old.exchangeReceived /\ old.exchangeReceived \in Int
    BY <2>1 DEF ReceiptRows
  <2>w. asked = WriteReceipt(opened, u, id, row)
    BY DEF old
  <2> HIDE DEF row, asked
  <2>3. row.exchangeReceived = old.exchangeReceived + 0
    BY <2>2
  <2>4. Shifts(asked, opened, id, 0, a, 0, 0, 0, 0)
    BY <1>1, <1>z, <2>2, <2>3, <2>h, <2>w, ReceiptSumsWritten
  <2>5. asked.receipt = [opened.receipt EXCEPT ![u][id] = row] /\ asked.round = opened.round
    BY <1>1, <2>2, <2>w, WroteReceipt
  <2>6. asked.receipt[u][id] = row
    BY <2>1, <2>5
  <2> QED
    BY <2>2, <2>4, <2>5, <2>6, <2>h DEF Shifts, Kept
<1>4. /\ Shifts(paid, asked, id, 0, 0, 0, 0, 0, x) /\ paid \in Indexes
      /\ paid.round = opened.round
  <2> HIDE DEF asked, opened
  <2> DEFINE old == asked.receipt[u][id]
             row == [old EXCEPT !.exchangeReceived = received]
  <2>1. old \in ReceiptRows
    BY <1>3 DEF Indexes
  <2>h. old = asked.receipt[u][id]
    OBVIOUS
  <2> HIDE DEF old
  <2>2. /\ row \in ReceiptRows /\ row.balance = old.balance
        /\ row.redeemedForExchange = old.redeemedForExchange
        /\ row.exchangeReceived = received /\ old.redeemedForExchange \in Int
    BY <1>i, <2>1 DEF ReceiptRows
  <2>w. paid = WriteReceipt(asked, u, id, row)
    BY DEF old
  <2> HIDE DEF row, paid
  <2>3. /\ row.redeemedForExchange = old.redeemedForExchange + 0
        /\ row.exchangeReceived = old.exchangeReceived + x
    BY <1>3, <1>i, <2>2, <2>h
  <2>4. Shifts(paid, asked, id, 0, 0, 0, 0, 0, x)
    BY <1>3, <1>z, <2>2, <2>3, <2>h, <2>w, ReceiptSumsWritten
  <2>5. paid.round = asked.round
    BY <1>3, <2>2, <2>w, WroteReceipt
  <2> QED
    BY <1>3, <2>4, <2>5 DEF Shifts, Kept
<1>5. Shifts(new, paid, id, 0, 0, 0, 0, x, 0)
  <2> HIDE DEF paid, opened
  <2> DEFINE old == paid.round[id]
             row == [old EXCEPT !.exchangeAssetWithdrawn = withdrawn]
  <2>1. old \in RoundRows
    BY <1>4 DEF Indexes
  <2>h. old = paid.round[id]
    OBVIOUS
  <2> HIDE DEF old
  <2>2. /\ row \in RoundRows /\ row.receiptSupply = old.receiptSupply
        /\ row.depositsQueued = old.depositsQueued
        /\ row.depositsRedeemed = old.depositsRedeemed
        /\ row.settledUnderlying = old.settledUnderlying
        /\ row.exchangeAssetWithdrawn = withdrawn
        /\ old.receiptSupply \in Int /\ old.depositsQueued \in Int
        /\ old.depositsRedeemed \in Int /\ old.settledUnderlying \in Int
    BY <1>i, <2>1 DEF RoundRows
  <2>w. new = WriteRound(paid, id, row)
    BY DEF old
  <2> HIDE DEF row, new
  <2>3. /\ row.receiptSupply = old.receiptSupply + 0
        /\ row.depositsQueued - row.depositsRedeemed
              = old.depositsQueued - old.depositsRedeemed + 0
        /\ row.settledUnderlying = old.settledUnderlying + 0
        /\ row.exchangeAssetWithdrawn = old.exchangeAssetWithdrawn + x
    BY <1>4, <1>i, <2>2, <2>h
  <2>4. Shifts(new, paid, id, 0, 0 - 0, 0, 0, x, 0)
    BY <1>4, <1>z, <2>2, <2>3, <2>h, <2>w, SumsWritten
  <2> QED
    BY <1>z, <2>4
<1>8. MarkExchangeAssetRedemption(ix, u, id, a, x) = new
  BY <1>2 DEF MarkExchangeAssetRedemption, IfKnown
<1> HIDE DEF opened, asked, paid, new
<1>9. Shifts(paid, opened, id, 0 + 0, a + 0, 0 + 0, 0 + 0, 0 + 0, 0 + x)
  BY <1>1, <1>3, <1>4, <1>z, ShiftsTwice
<1>10. Shifts(paid, opened, id, 0, a, 0, 0, 0, x)
  BY <1>9, <1>z
<1>11. Shifts(new, opened, id, 0 + 0, a + 0, 0 + 0, 0 + 0, 0 + x, x + 0)
  BY <1>1, <1>5, <1>10, <1>z, ShiftsTwice
<1>12. Shifts(new, opened, id, 0, a, 0, 0, x, x)
  BY <1>11, <1>z
<1> QED
  BY <1>1, <1>8, <1>12, StillThenShifts

\* The trade of a settlement is counted for a round that is not empty and stored.
LEMMA TradeShifts ==
    ASSUME NEW ix \in Indexes, ix.known, NEW id \in Rounds, NEW x \in Int, NEW y \in Int
    PROVE  LET t == IF x > 0 /\ ix.round[id].known THEN x - Traded(ix, id) ELSE 0
           IN  Shifts(HandleTargetTrade(ix, id, x, y), ix, id, 0, 0, 0, t, 0, 0)
<1> DEFINE old == ix.round[id]
           mid == [old EXCEPT !.settledUnderlying = x]
           row == [mid EXCEPT !.settledExchange = y]
           t == x - old.settledUnderlying
           new == HandleTargetTrade(ix, id, x, y)
<1>1. old \in RoundRows
  BY DEF Indexes
<1>2. WriteRound(ix, id, row)
        = [ix EXCEPT !.round[id].settledUnderlying = x, !.round[id].settledExchange = y]
  BY <1>1 DEF WriteRound
<1>h. old = ix.round[id] /\ Traded(ix, id) = old.settledUnderlying
  BY DEF Traded
<1>3. CASE x > 0 /\ old.known
  <2>n. new = WriteRound(ix, id, row)
    BY <1>2, <1>3 DEF HandleTargetTrade, IfKnown
  <2> HIDE DEF old, new
  <2>1. /\ row \in RoundRows /\ row.receiptSupply = old.receiptSupply
        /\ row.depositsQueued = old.depositsQueued
        /\ row.depositsRedeemed = old.depositsRedeemed
        /\ row.settledUnderlying = x
        /\ row.exchangeAssetWithdrawn = old.exchangeAssetWithdrawn
        /\ old.receiptSupply \in Int /\ old.depositsQueued \in Int
        /\ old.depositsRedeemed \in Int /\ old.exchangeAssetWithdrawn \in Int
        /\ old.settledUnderlying \in Int
    BY <1>1 DEF RoundRows
  <2> HIDE DEF row
  <2>2. /\ row.receiptSupply = old.receiptSupply + 0
        /\ row.depositsQueued - row.depositsRedeemed
              = old.depositsQueued - old.depositsRedeemed + 0
        /\ row.settledUnderlying = old.settledUnderlying + t
        /\ row.exchangeAssetWithdrawn = old.exchangeAssetWithdrawn + 0
        /\ 0 - 0 = 0 /\ 0 \in Int /\ t \in Int
    BY <2>1
  <2> HIDE DEF t
  <2>3. Shifts(WriteRound(ix, id, row), ix, id, 0, 0 - 0, 0, t, 0, 0)
    BY <1>h, <2>1, <2>2, SumsWritten
  <2> QED
    BY <1>3, <1>h, <2>2, <2>3, <2>n DEF new, t
<1>4. CASE ~(x > 0 /\ old.known)
  <2>1. new = ix
    BY <1>4 DEF HandleTargetTrade, IfKnown
  <2>2. \A k \in Rounds : At(k, id, 0) = 0
    BY DEF At
  <2>3. \A k \in Rounds : /\ RowGap(ix, k) \in Int /\ BookGap(ix, k) \in Int
                          /\ Net(ix, k) \in Int /\ Traded(ix, k) \in Int
                          /\ Withdrawn(ix, k) \in Int /\ Credited(ix, k) \in Int
    BY ColumnTypes
  <2> HIDE DEF new
  <2>4. Shifts(ix, ix, id, 0, 0, 0, 0, 0, 0)
    BY <2>2, <2>3 DEF Shifts, Kept
  <2> QED
    BY <1>4, <2>1, <2>4 DEF new
<1> QED
  BY <1>3, <1>4

\* A round is stored and written with the sums it had.
LEMMA OpenedAlone ==
    ASSUME NEW ix \in Indexes, NEW id \in Rounds, NEW row \in RoundRows,
           row.receiptSupply = Touched(ix, id).round[id].receiptSupply,
           row.depositsQueued = Touched(ix, id).round[id].depositsQueued,
           row.depositsRedeemed = Touched(ix, id).round[id].depositsRedeemed,
           row.settledUnderlying = Touched(ix, id).round[id].settledUnderlying,
           row.exchangeAssetWithdrawn = Touched(ix, id).round[id].exchangeAssetWithdrawn
    PROVE  Still(WriteRound(Touched(ix, id), id, row), ix)
<1> DEFINE opened == Touched(ix, id)
<1>1. Still(opened, ix) /\ opened \in Indexes
  BY TouchedStill
<1>2. Still(WriteRound(opened, id, row), opened)
  BY <1>1, SumsAlone
<1> QED
  BY <1>1, <1>2, StillTwice

\* The state of a row, and what says nothing of its sums, is written.
SameSums(new, old) ==
    /\ new \in RoundRows /\ new.receiptSupply = old.receiptSupply
    /\ new.depositsQueued = old.depositsQueued /\ new.depositsRedeemed = old.depositsRedeemed
    /\ new.settledUnderlying = old.settledUnderlying
    /\ new.exchangeAssetWithdrawn = old.exchangeAssetWithdrawn

\* Such columns.
LEMMA StateWritten ==
    ASSUME NEW old \in RoundRows, NEW state \in RoundStates, NEW rate \in Rates, NEW n \in Int,
           NEW b \in BOOLEAN
    PROVE  /\ SameSums([old EXCEPT !.state = state], old)
           /\ SameSums([old EXCEPT !.rate = rate], old)
           /\ SameSums([old EXCEPT !.retriedCount = n], old)
           /\ SameSums([old EXCEPT !.rolledBack = b], old)
<1>1. SameSums([old EXCEPT !.state = state], old)
  BY DEF SameSums, RoundRows
<1>2. SameSums([old EXCEPT !.rate = rate], old)
  BY DEF SameSums, RoundRows
<1>3. SameSums([old EXCEPT !.retriedCount = n], old)
  BY DEF SameSums, RoundRows
<1>4. SameSums([old EXCEPT !.rolledBack = b], old)
  BY DEF SameSums, RoundRows
<1> QED
  BY <1>1, <1>2, <1>3, <1>4

\* applyRoundSettled, applyRoundRetried and applyEmergencyRollback write no sums.
LEMMA LifeStill ==
    ASSUME NEW ix \in Indexes, NEW id \in Rounds, NEW rate \in Rates
    PROVE  /\ Still(ApplyRoundSettled(ix, id, rate), ix)
           /\ Still(ApplyRoundRetried(ix, id), ix)
           /\ Still(ApplyEmergencyRollback(ix, id), ix)
<1> DEFINE touched == Touched(ix, id)
           old == touched.round[id]
           settled == [[old EXCEPT !.state = "Settled"] EXCEPT !.rate = rate]
           n == old.retriedCount + 1
           retried == [[old EXCEPT !.state = "InSettlement"] EXCEPT !.retriedCount = n]
           rolled == [[old EXCEPT !.state = "Opened"] EXCEPT !.rolledBack = TRUE]
<1>1. old \in RoundRows /\ n \in Int
  <2>1. old \in RoundRows
    BY TouchedRow
  <2> HIDE DEF old
  <2> QED
    BY <2>1 DEF RoundRows
<1>2. /\ WriteRound(touched, id, settled)
            = [touched EXCEPT !.round[id].state = "Settled", !.round[id].rate = rate]
      /\ WriteRound(touched, id, rolled)
            = [touched EXCEPT !.round[id].state = "Opened", !.round[id].rolledBack = TRUE]
  BY <1>1 DEF WriteRound
<1>3. WriteRound(touched, id, retried)
        = [touched EXCEPT !.round[id].state = "InSettlement", !.round[id].retriedCount = @ + 1]
  BY <1>1 DEF WriteRound
<1>h. old = Touched(ix, id).round[id]
  OBVIOUS
<1> HIDE DEF old, n
<1>4. ASSUME NEW state \in RoundStates
      PROVE  LET mid == [old EXCEPT !.state = state] IN
             /\ SameSums([mid EXCEPT !.rate = rate], old)
             /\ SameSums([mid EXCEPT !.retriedCount = n], old)
             /\ SameSums([mid EXCEPT !.rolledBack = TRUE], old)
  <2> DEFINE mid == [old EXCEPT !.state = state]
  <2>1. SameSums(mid, old)
    BY <1>1, StateWritten
  <2>2. mid \in RoundRows
    BY <2>1 DEF SameSums
  <2> HIDE DEF mid
  <2>3. /\ SameSums([mid EXCEPT !.rate = rate], mid)
        /\ SameSums([mid EXCEPT !.retriedCount = n], mid)
        /\ SameSums([mid EXCEPT !.rolledBack = TRUE], mid)
    BY <1>1, <2>2, StateWritten
  <2>4. \A new : SameSums(new, mid) => SameSums(new, old)
    BY <2>1 DEF SameSums
  <2> QED
    BY <2>3, <2>4 DEF mid
<1>5. SameSums(settled, old) /\ SameSums(retried, old) /\ SameSums(rolled, old)
  BY <1>4 DEF RoundStates
<1> HIDE DEF settled, retried, rolled
<1>6. \A row : SameSums(row, old) => Still(WriteRound(Touched(ix, id), id, row), ix)
  BY <1>h, OpenedAlone DEF SameSums
<1>7. /\ Still(WriteRound(touched, id, settled), ix)
      /\ Still(WriteRound(touched, id, retried), ix)
      /\ Still(WriteRound(touched, id, rolled), ix)
  BY <1>5, <1>6
<1>8. Still(ix, ix)
  BY StillAlone
<1> QED
  BY <1>2, <1>3, <1>7, <1>8 DEF ApplyRoundSettled, ApplyRoundRetried, ApplyEmergencyRollback,
     IfKnown

\* The columns of the vault's own row say nothing of the sums.
LEMMA VaultRowStill ==
    ASSUME NEW ix \in Indexes, NEW n \in Int
    PROVE  Still([ix EXCEPT !.currentRound = n], ix) /\ Still([ix EXCEPT !.minPositionSize = n], ix)
<1> DEFINE r == [ix EXCEPT !.currentRound = n]
           m == [ix EXCEPT !.minPositionSize = n]
<1>1. r \in Indexes /\ r.known = ix.known /\ r.round = ix.round /\ r.receipt = ix.receipt
  BY DEF Indexes
<1>2. m \in Indexes /\ m.known = ix.known /\ m.round = ix.round /\ m.receipt = ix.receipt
  BY DEF Indexes
<1> HIDE DEF r, m
<1>3. Still(r, ix)
  BY <1>1 DEF Still, Kept, RowGap, BookGap, Net, Traded, Withdrawn, Held, Taken, Credited
<1>4. Still(m, ix)
  BY <1>2 DEF Still, Kept, RowGap, BookGap, Net, Traded, Withdrawn, Held, Taken, Credited
<1> QED
  BY <1>3, <1>4 DEF r, m

\* applyRoundAdvanced writes no sums.
LEMMA AdvancedStill ==
    ASSUME NEW ix \in Indexes, NEW id \in Rounds, id + 1 \in Rounds
    PROVE  Still(ApplyRoundAdvanced(ix, id), ix)
<1> DEFINE first == Touched(ix, id)
           opened == Touched(first, id + 1)
           closed == WriteRound(opened, id, [opened.round[id] EXCEPT !.state = "InSettlement"])
           begun == WriteRound(closed, id + 1, [closed.round[id + 1] EXCEPT !.state = "Opened"])
           new == [begun EXCEPT !.currentRound = id + 1]
<1>0. id + 1 \in Int
  BY BoundAssumption DEF Rounds
<1>1. new = [opened EXCEPT !.round[id].state = "InSettlement",
                           !.round[id + 1].state = "Opened", !.currentRound = id + 1]
  BY DEF WriteRound
<1>2. Still(first, ix) /\ first \in Indexes
  BY TouchedStill
<1>3. Still(opened, first) /\ opened \in Indexes
  <2> HIDE DEF first
  <2> QED
    BY <1>2, TouchedStill
<1>s. ASSUME NEW iy \in Indexes, NEW k \in Rounds, NEW state \in RoundStates
      PROVE  Still(WriteRound(iy, k, [iy.round[k] EXCEPT !.state = state]), iy)
  <2> DEFINE row == [iy.round[k] EXCEPT !.state = state]
  <2>1. iy.round[k] \in RoundRows
    BY DEF Indexes
  <2>2. SameSums(row, iy.round[k])
    BY <2>1 DEF SameSums, RoundRows
  <2> HIDE DEF row
  <2>3. Still(WriteRound(iy, k, row), iy)
    BY <2>2, SumsAlone DEF SameSums
  <2> QED
    BY <2>3 DEF row
<1>t. "InSettlement" \in RoundStates /\ "Opened" \in RoundStates
  BY DEF RoundStates
<1>4. Still(closed, opened) /\ closed \in Indexes
  <2> HIDE DEF opened
  <2>1. Still(closed, opened)
    BY <1>3, <1>s, <1>t
  <2> QED
    BY <2>1 DEF Still, Kept
<1>5. Still(begun, closed) /\ begun \in Indexes
  <2> HIDE DEF closed
  <2>1. Still(begun, closed)
    BY <1>4, <1>s, <1>t
  <2> QED
    BY <2>1 DEF Still, Kept
<1>6. Still(new, begun)
  <2> HIDE DEF begun
  <2> QED
    BY <1>0, <1>5, VaultRowStill
<1> HIDE DEF first, opened, closed, begun, new
<1>7. Still(opened, ix)
  BY <1>2, <1>3, StillTwice
<1>8. Still(closed, ix)
  BY <1>4, <1>7, StillTwice
<1>9. Still(begun, ix)
  BY <1>5, <1>8, StillTwice
<1>10. Still(new, ix)
  BY <1>6, <1>9, StillTwice
<1>11. ApplyRoundAdvanced(ix, id) = IF ix.known THEN new ELSE ix
  BY <1>1 DEF ApplyRoundAdvanced, IfKnown, opened, first
<1> QED
  BY <1>10, <1>11, StillAlone

\* The events of one settlement: the trade is counted, and nothing else summed.
LEMMA SettledShifts ==
    ASSUME TypeOK, NEW ix \in Indexes, ix.known, NEW id \in Rounds
    PROVE  LET new == IndexSettled(ix, id)
               t   == IF supply[id] > 0 /\ ix.round[id].known
                      THEN supply[id] - Traded(ix, id) ELSE 0
           IN  /\ Shifts(new, ix, id, 0, 0, 0, t, 0, 0)
               /\ \A k \in Rounds \ {id} : new.round[k] = ix.round[k]
<1> DEFINE traded == HandleTargetTrade(ix, id, supply[id], TargetOutput(supply[id]))
           new == ApplyRoundSettled(traded, id, SettlementRate(id))
           t == IF supply[id] > 0 /\ ix.round[id].known THEN supply[id] - Traded(ix, id) ELSE 0
<1>1. /\ supply[id] \in Int /\ TargetOutput(supply[id]) \in Int
      /\ SettlementRate(id) \in Rates
  BY RateType DEF Rates, TypeOK
<1>2. Shifts(traded, ix, id, 0, 0, 0, t, 0, 0)
  BY <1>1, TradeShifts
<1>3. IndexSettled(ix, id) = new
  BY DEF IndexSettled
<1>4. \A k \in Rounds \ {id} : traded.round[k] = ix.round[k]
  <2> HIDE DEF new
  <2>1. ix.round \in [Rounds -> RoundRows] /\ ix = [ix EXCEPT !.round = ix.round]
    BY DEF Indexes
  <2> QED
    BY <2>1 DEF HandleTargetTrade, IfKnown, Indexes
<1> HIDE DEF traded, t
<1>5. traded \in Indexes /\ traded.known
  BY <1>2 DEF Shifts, Kept
<1>6. Still(new, traded)
  BY <1>1, <1>5, LifeStill
<1>7. LifeSet(new, traded, id, "Settled", SettlementRate(id))
  BY <1>1, <1>5, SettledSet
<1> HIDE DEF new
<1>8. Shifts(new, ix, id, 0, 0, 0, t, 0, 0)
  BY <1>2, <1>6 DEF Still, Shifts, Kept
<1>9. \A k \in Rounds \ {id} : new.round[k] = ix.round[k]
  BY <1>4, <1>7 DEF LifeSet
<1> QED
  BY <1>3, <1>8, <1>9 DEF t

\* applyMinPositionSize.
LEMMA MinPositionStill ==
    ASSUME NEW ix \in Indexes, NEW m \in Int
    PROVE  Still(ApplyMinPositionSize(ix, m), ix)
  BY VaultRowStill, StillAlone DEF ApplyMinPositionSize, IfKnown

---------------------------------------------------------------------------
(* What a transaction sums up to *)

\* The stored rate of every settled round is the one it has.
RatesSeen == \A k \in Rounds : roundState[k] = "Settled" => index.round[k].rate = exchangeRate[k]

\* The net of a round follows its supply until it is settled, and is kept from
\* then on; when the round is settled, its supply is what is counted as traded.
NetFollows(k) ==
    \/ /\ roundState'[k] = "Settled" <=> roundState[k] = "Settled"
       /\ Traded(index', k) = Traded(index, k)
       /\ Net(index', k) - Net(index, k)
             = IF roundState[k] = "Settled" THEN 0 ELSE supply'[k] - supply[k]
    \/ /\ roundState[k] # "Settled" /\ roundState'[k] = "Settled"
       /\ Net(index', k) = Net(index, k) /\ supply'[k] = supply[k]
       /\ Traded(index', k) = IF supply[k] > 0 /\ index.round[k].known
                              THEN supply[k] ELSE Traded(index, k)

\* At most two rounds are paid from, x1 from i and x2 from j; the index counts
\* the same in all, and the same of each if it has seen their rates.
Pays(i, x1, w1, j, x2, w2) ==
    /\ w1 + w2 = x1 + x2
    /\ RatesSeen => w1 = x1 /\ w2 = x2
    /\ \A k \in Rounds :
          /\ paidOut'[k] = paidOut[k] + At(k, i, x1) + At(k, j, x2)
          /\ Withdrawn(index', k) = Withdrawn(index, k) + At(k, i, w1) + At(k, j, w2)
          /\ Credited(index', k) = Credited(index, k) + At(k, i, w1) + At(k, j, w2)

ColumnStep ==
    /\ Kept(index', index)
    /\ \A k \in Rounds : /\ RowGap(index', k) = RowGap(index, k)
                         /\ BookGap(index', k) = BookGap(index, k)
                         /\ NetFollows(k)
    /\ \E i, j \in Rounds, x1, x2, w1, w2 \in Int : Pays(i, x1, w1, j, x2, w2)

\* What the handlers of a transaction about the rounds i and j come to.
Totals(new, ix, i, n1, w1, j, n2, w2) ==
    /\ Kept(new, ix)
    /\ \A k \in Rounds :
          /\ RowGap(new, k) = RowGap(ix, k) /\ BookGap(new, k) = BookGap(ix, k)
          /\ Traded(new, k) = Traded(ix, k)
          /\ Net(new, k) = Net(ix, k) + At(k, i, n1) + At(k, j, n2)
          /\ Withdrawn(new, k) = Withdrawn(ix, k) + At(k, i, w1) + At(k, j, w2)
          /\ Credited(new, k) = Credited(ix, k) + At(k, i, w1) + At(k, j, w2)

\* The handlers of one entry.
LEMMA EntryTotals ==
    ASSUME NEW ix \in Indexes, NEW mid, NEW new, NEW id \in Rounds,
           NEW g \in Int, NEW n \in Int, NEW w \in Int,
           Shifts(mid, ix, id, 0, g, 0, 0, 0, 0), Shifts(new, mid, id, 0, -g, n, 0, w, w)
    PROVE  Totals(new, ix, id, n, w, id, 0, 0)
<1>1. Kept(new, ix)
  BY DEF Shifts, Kept
<1>2. ASSUME NEW k \in Rounds
      PROVE  /\ RowGap(new, k) = RowGap(ix, k) /\ BookGap(new, k) = BookGap(ix, k)
             /\ Traded(new, k) = Traded(ix, k)
             /\ Net(new, k) = Net(ix, k) + At(k, id, n) + At(k, id, 0)
             /\ Withdrawn(new, k) = Withdrawn(ix, k) + At(k, id, w) + At(k, id, 0)
             /\ Credited(new, k) = Credited(ix, k) + At(k, id, w) + At(k, id, 0)
  <2>1. /\ RowGap(ix, k) \in Int /\ BookGap(ix, k) \in Int /\ Net(ix, k) \in Int
        /\ Traded(ix, k) \in Int /\ Withdrawn(ix, k) \in Int /\ Credited(ix, k) \in Int
    BY ColumnTypes
  <2>2. /\ RowGap(new, k) = RowGap(ix, k) + At(k, id, 0) + At(k, id, 0)
        /\ BookGap(new, k) = BookGap(ix, k) + At(k, id, g) + At(k, id, -g)
        /\ Net(new, k) = Net(ix, k) + At(k, id, 0) + At(k, id, n)
        /\ Traded(new, k) = Traded(ix, k) + At(k, id, 0) + At(k, id, 0)
        /\ Withdrawn(new, k) = Withdrawn(ix, k) + At(k, id, 0) + At(k, id, w)
        /\ Credited(new, k) = Credited(ix, k) + At(k, id, 0) + At(k, id, w)
    BY DEF Shifts
  <2>3. /\ At(k, id, 0) = 0 /\ At(k, id, n) \in Int /\ At(k, id, w) \in Int
        /\ At(k, id, g) + At(k, id, -g) = 0 /\ At(k, id, g) \in Int /\ At(k, id, -g) \in Int
    BY DEF At
  <2> QED
    BY <2>1, <2>2, <2>3
<1> QED
  BY <1>1, <1>2 DEF Totals

\* The handlers of two entries: first both burns, then what they were burned for.
LEMMA BatchTotals ==
    ASSUME NEW ix \in Indexes, NEW m1, NEW m2, NEW m3, NEW new,
           NEW i \in Rounds, NEW j \in Rounds, NEW g1 \in Int, NEW g2 \in Int,
           NEW n1 \in Int, NEW n2 \in Int, NEW w1 \in Int, NEW w2 \in Int,
           Shifts(m1, ix, i, 0, g1, 0, 0, 0, 0), Shifts(m2, m1, j, 0, g2, 0, 0, 0, 0),
           Shifts(m3, m2, i, 0, -g1, n1, 0, w1, w1), Shifts(new, m3, j, 0, -g2, n2, 0, w2, w2)
    PROVE  Totals(new, ix, i, n1, w1, j, n2, w2)
<1>1. Kept(new, ix)
  BY DEF Shifts, Kept
<1>2. ASSUME NEW k \in Rounds
      PROVE  /\ RowGap(new, k) = RowGap(ix, k) /\ BookGap(new, k) = BookGap(ix, k)
             /\ Traded(new, k) = Traded(ix, k)
             /\ Net(new, k) = Net(ix, k) + At(k, i, n1) + At(k, j, n2)
             /\ Withdrawn(new, k) = Withdrawn(ix, k) + At(k, i, w1) + At(k, j, w2)
             /\ Credited(new, k) = Credited(ix, k) + At(k, i, w1) + At(k, j, w2)
  <2>1. /\ RowGap(ix, k) \in Int /\ BookGap(ix, k) \in Int /\ Net(ix, k) \in Int
        /\ Traded(ix, k) \in Int /\ Withdrawn(ix, k) \in Int /\ Credited(ix, k) \in Int
    BY ColumnTypes
  <2>2. /\ RowGap(m2, k) = RowGap(ix, k) + At(k, i, 0) + At(k, j, 0)
        /\ BookGap(m2, k) = BookGap(ix, k) + At(k, i, g1) + At(k, j, g2)
        /\ Net(m2, k) = Net(ix, k) + At(k, i, 0) + At(k, j, 0)
        /\ Traded(m2, k) = Traded(ix, k) + At(k, i, 0) + At(k, j, 0)
        /\ Withdrawn(m2, k) = Withdrawn(ix, k) + At(k, i, 0) + At(k, j, 0)
        /\ Credited(m2, k) = Credited(ix, k) + At(k, i, 0) + At(k, j, 0)
    BY DEF Shifts
  <2>3. /\ RowGap(new, k) = RowGap(m2, k) + At(k, i, 0) + At(k, j, 0)
        /\ BookGap(new, k) = BookGap(m2, k) + At(k, i, -g1) + At(k, j, -g2)
        /\ Net(new, k) = Net(m2, k) + At(k, i, n1) + At(k, j, n2)
        /\ Traded(new, k) = Traded(m2, k) + At(k, i, 0) + At(k, j, 0)
        /\ Withdrawn(new, k) = Withdrawn(m2, k) + At(k, i, w1) + At(k, j, w2)
        /\ Credited(new, k) = Credited(m2, k) + At(k, i, w1) + At(k, j, w2)
    BY DEF Shifts
  <2>4. /\ At(k, i, 0) = 0 /\ At(k, j, 0) = 0
        /\ At(k, i, g1) \in Int /\ At(k, i, -g1) = -At(k, i, g1)
        /\ At(k, j, g2) \in Int /\ At(k, j, -g2) = -At(k, j, g2)
    BY DEF At
  <2> QED
    BY <2>1, <2>2, <2>3, <2>4
<1> QED
  BY <1>1, <1>2 DEF Totals

\* What a transaction about the rounds i and j burns or mints, and pays.
Booked(i, s1, x1, j, s2, x2) ==
    \A k \in Rounds : /\ supply'[k] = supply[k] + At(k, i, s1) + At(k, j, s2)
                      /\ paidOut'[k] = paidOut[k] + At(k, i, x1) + At(k, j, x2)

\* A transaction that does to the supplies, and pays, what its handlers sum up.
LEMMA TotalsStep ==
    ASSUME TypeOK, index \in Indexes, roundState' = roundState,
           NEW i \in Rounds, NEW n1 \in Int, NEW s1 \in Int, NEW w1 \in Int, NEW x1 \in Int,
           NEW j \in Rounds, NEW n2 \in Int, NEW s2 \in Int, NEW w2 \in Int, NEW x2 \in Int,
           Totals(index', index, i, n1, w1, j, n2, w2),
           Booked(i, s1, x1, j, s2, x2),
           n1 = IF roundState[i] = "Settled" THEN 0 ELSE s1,
           n2 = IF roundState[j] = "Settled" THEN 0 ELSE s2,
           w1 + w2 = x1 + x2, RatesSeen => w1 = x1 /\ w2 = x2
    PROVE  ColumnStep
<1>1. ASSUME NEW k \in Rounds PROVE NetFollows(k)
  <2> DEFINE settled == roundState[k] = "Settled"
             net == Net(index, k)
             net2 == Net(index', k)
             sup == supply[k]
             sup2 == supply'[k]
  <2>1. net \in Int /\ sup \in Int
    BY ColumnTypes DEF TypeOK
  <2>2. /\ net2 = net + At(k, i, n1) + At(k, j, n2)
        /\ sup2 = sup + At(k, i, s1) + At(k, j, s2)
        /\ Traded(index', k) = Traded(index, k)
    BY DEF Totals, Booked
  <2>3. /\ settled => At(k, i, n1) = 0 /\ At(k, j, n2) = 0
        /\ ~settled => At(k, i, n1) = At(k, i, s1) /\ At(k, j, n2) = At(k, j, s2)
        /\ At(k, i, s1) \in Int /\ At(k, j, s2) \in Int
    BY DEF At
  <2>4. settled <=> roundState'[k] = "Settled"
    OBVIOUS
  <2> HIDE DEF settled, net, net2, sup, sup2
  <2>5. net2 - net = IF settled THEN 0 ELSE sup2 - sup
    BY <2>1, <2>2, <2>3
  <2> QED
    BY <2>2, <2>4, <2>5 DEF NetFollows, settled, net, net2, sup, sup2
<1>2. Pays(i, x1, w1, j, x2, w2)
  BY DEF Pays, Totals, Booked
<1> QED
  BY <1>1, <1>2 DEF ColumnStep, Totals

\* The same of one entry, whose payout the index credits as it is.
LEMMA EntryStep ==
    ASSUME TypeOK, index \in Indexes, roundState' = roundState,
           NEW id \in Rounds, NEW n \in Int, NEW s \in Int, NEW w \in Int,
           Totals(index', index, id, n, w, id, 0, 0),
           Booked(id, s, w, id, 0, 0),
           n = IF roundState[id] = "Settled" THEN 0 ELSE s
    PROVE  ColumnStep
<1> DEFINE z == 0
<1>1. Totals(index', index, id, n, w, id, z, z)
  OBVIOUS
<1>2. Booked(id, s, w, id, z, z)
  OBVIOUS
<1>3. z \in Int /\ z = IF roundState[id] = "Settled" THEN 0 ELSE z
  OBVIOUS
<1> HIDE DEF z
<1>4. w + z = w + z /\ (RatesSeen => w = w /\ z = z)
  OBVIOUS
<1> QED
  BY <1>1, <1>2, <1>3, <1>4, TotalsStep

\* The same of two entries that pay nothing in exchange assets.
LEMMA BurnStep ==
    ASSUME TypeOK, index \in Indexes, roundState' = roundState,
           NEW i \in Rounds, NEW s1 \in Int, NEW j \in Rounds, NEW s2 \in Int,
           Totals(index', index, i, s1, 0, j, s2, 0),
           Booked(i, s1, 0, j, s2, 0),
           roundState[i] # "Settled", roundState[j] # "Settled"
    PROVE  ColumnStep
<1> DEFINE z == 0
<1>1. z \in Int /\ Totals(index', index, i, s1, z, j, s2, z)
  OBVIOUS
<1>2. Booked(i, s1, z, j, s2, z)
  OBVIOUS
<1>3. /\ s1 = IF roundState[i] = "Settled" THEN 0 ELSE s1
      /\ s2 = IF roundState[j] = "Settled" THEN 0 ELSE s2
  OBVIOUS
<1> HIDE DEF z
<1>4. z + z = z + z /\ (RatesSeen => z = z /\ z = z)
  OBVIOUS
<1> QED
  BY <1>1, <1>2, <1>3, <1>4, TotalsStep

\* A transaction that moves no receipts and pays nothing, nor settles a round.
LEMMA QuietSums ==
    ASSUME TypeOK, index \in Indexes, Still(index', index), supply' = supply, paidOut' = paidOut,
           \A k \in Rounds : roundState'[k] = "Settled" <=> roundState[k] = "Settled"
    PROVE  ColumnStep
<1>0. 0 \in Rounds /\ 0 \in Int /\ 0 + 0 = 0 + 0
  BY BoundAssumption DEF Rounds
<1>1. ASSUME NEW k \in Rounds PROVE NetFollows(k)
  <2>1. /\ Net(index', k) = Net(index, k) /\ Traded(index', k) = Traded(index, k)
    BY DEF Still
  <2>2. Net(index, k) - Net(index, k) = 0 /\ supply[k] - supply[k] = 0
    BY ColumnTypes DEF TypeOK
  <2> QED
    BY <2>1, <2>2 DEF NetFollows
<1>2. Pays(0, 0, 0, 0, 0, 0)
  <2>1. ASSUME NEW k \in Rounds
        PROVE  /\ paidOut'[k] = paidOut[k] + At(k, 0, 0) + At(k, 0, 0)
               /\ Withdrawn(index', k) = Withdrawn(index, k) + At(k, 0, 0) + At(k, 0, 0)
               /\ Credited(index', k) = Credited(index, k) + At(k, 0, 0) + At(k, 0, 0)
    <3>1. At(k, 0, 0) = 0
      BY DEF At
    <3>2. /\ paidOut[k] \in Int /\ Withdrawn(index, k) \in Int /\ Credited(index, k) \in Int
      BY ColumnTypes DEF TypeOK
    <3>3. /\ paidOut'[k] = paidOut[k] /\ Withdrawn(index', k) = Withdrawn(index, k)
          /\ Credited(index', k) = Credited(index, k)
      BY DEF Still
    <3> QED
      BY <3>1, <3>2, <3>3
  <2> QED
    BY <2>1 DEF Pays
<1> QED
  BY <1>0, <1>1, <1>2 DEF ColumnStep, Still

\* Writes of one entry of a sum, pointwise.
LEMMA EntryWritten ==
    ASSUME NEW f \in [Rounds -> Int], NEW id \in Rounds, NEW d \in Int, NEW k \in Rounds
    PROVE  /\ [f EXCEPT ![id] = @ + d][k] = f[k] + At(k, id, d) + At(k, id, 0)
           /\ f[k] = f[k] + At(k, id, 0) + At(k, id, 0)
           /\ [f EXCEPT ![id] = @ - d][k] = f[k] + At(k, id, -d) + At(k, id, 0)
  BY DEF At

\* The same of two.
LEMMA TwoAdded ==
    ASSUME NEW f \in [Rounds -> Int], NEW i \in Rounds, NEW x \in Int, NEW j \in Rounds,
           NEW y \in Int, NEW k \in Rounds
    PROVE  [[f EXCEPT ![i] = @ + x] EXCEPT ![j] = @ + y][k] = f[k] + At(k, i, x) + At(k, j, y)
<1> DEFINE g == [f EXCEPT ![i] = @ + x]
           h == [g EXCEPT ![j] = @ + y]
<1>1. g \in [Rounds -> Int] /\ g[k] = f[k] + At(k, i, x)
  BY DEF At
<1> HIDE DEF g
<1>2. h[k] = g[k] + At(k, j, y)
  BY <1>1 DEF At
<1> QED
  BY <1>1, <1>2 DEF g

\* Two burns, and what is left as it was.
LEMMA EntriesWritten ==
    ASSUME NEW f \in [Rounds -> Int], NEW i \in Rounds, NEW d \in Int, NEW j \in Rounds,
           NEW e \in Int, NEW k \in Rounds
    PROVE  /\ [[f EXCEPT ![i] = @ - d] EXCEPT ![j] = @ - e][k]
                 = f[k] + At(k, i, -d) + At(k, j, -e)
           /\ f[k] = f[k] + At(k, i, 0) + At(k, j, 0)
<1>2. [[f EXCEPT ![i] = @ - d] EXCEPT ![j] = @ - e][k] = f[k] + At(k, i, -d) + At(k, j, -e)
  <2> DEFINE g == [f EXCEPT ![i] = @ - d]
             h == [g EXCEPT ![j] = @ - e]
  <2>1. g \in [Rounds -> Int] /\ g[k] = f[k] + At(k, i, -d)
    BY DEF At
  <2> HIDE DEF g
  <2>2. h[k] = g[k] + At(k, j, -e)
    BY <2>1 DEF At
  <2> QED
    BY <2>1, <2>2 DEF g
<1>3. f[k] = f[k] + At(k, i, 0) + At(k, j, 0)
  BY DEF At
<1> QED
  BY <1>2, <1>3

\* The operations of one entry.
LEMMA UserSums ==
    ASSUME TypeOK, RoundsInOrder, RatesUsable, index \in Indexes, index.known, IndexedUserStep
    PROVE  ColumnStep
<1>a. \A a \in Amounts : a \in Nat /\ a \in Int /\ -a \in Int /\ -(-a) = a
  BY BoundAssumption
<1>f. supply \in [Rounds -> Int] /\ paidOut \in [Rounds -> Int]
  BY DEF TypeOK
<1>u. NoOne \in Users \cup {NoOne} /\ \A u \in Users : u \in Users \cup {NoOne} /\ u # NoOne
  BY UsersAssumption
<1>z. 0 \in Int /\ 0 + 0 = 0 + 0
  OBVIOUS
<1>1. ASSUME NEW u \in Users, NEW v \in Users, NEW a \in Amounts, Deposit(u, v, a),
             index' = ApplyDepositWithReceipt(
                          ApplyReceiptTransfer(index, NoOne, v, MintId, a), MintId, a)
      PROVE  ColumnStep
  <2> DEFINE id == roundNumber
             mid == ApplyReceiptTransfer(index, NoOne, v, id, a)
  <2>0. id \in Rounds /\ roundState[id] # "Settled"
    BY DEF TypeOK, RoundsInOrder
  <2>i. index' = ApplyDepositWithReceipt(mid, id, a)
    BY <1>1 DEF MintId
  <2>s. /\ supply' = [supply EXCEPT ![id] = @ + a] /\ paidOut' = paidOut
        /\ roundState' = roundState
    BY <1>1 DEF Deposit, MintId, roundVars
  <2> HIDE DEF id
  <2>1. Shifts(mid, index, id, 0, a, 0, 0, 0, 0)
    <3>1. Grown(NoOne, v, a) = a
      BY DEF Grown
    <3>2. Shifts(mid, index, id, 0, Grown(NoOne, v, a), 0, 0, 0, 0)
      BY <1>a, <1>u, <2>0, TransferShifts
    <3> QED
      BY <3>1, <3>2
  <2> HIDE DEF mid
  <2>2. mid \in Indexes /\ mid.known
    BY <2>1 DEF Shifts, Kept
  <2>3. Shifts(index', mid, id, 0, -a, a, 0, 0, 0)
    BY <1>a, <2>0, <2>2, <2>i, DepositShifts
  <2>4. Totals(index', index, id, a, 0, id, 0, 0)
    BY <1>a, <1>z, <2>0, <2>1, <2>3, EntryTotals
  <2>5. Booked(id, a, 0, id, 0, 0)
    BY <1>a, <1>f, <2>0, <2>s, EntryWritten DEF Booked
  <2>6. a = IF roundState[id] = "Settled" THEN 0 ELSE a
    BY <2>0
  <2> QED
    BY <1>a, <1>z, <2>0, <2>4, <2>5, <2>6, <2>s, EntryStep
<1>b. ASSUME NEW u \in Users, NEW id \in Rounds, NEW a \in Amounts
      PROVE  LET mid == ApplyReceiptTransfer(index, u, NoOne, id, a) IN
             mid \in Indexes /\ mid.known /\ Shifts(mid, index, id, 0, -a, 0, 0, 0, 0)
  <2> DEFINE mid == ApplyReceiptTransfer(index, u, NoOne, id, a)
  <2>1. Grown(u, NoOne, a) = -a
    BY <1>u DEF Grown
  <2>2. Shifts(mid, index, id, 0, Grown(u, NoOne, a), 0, 0, 0, 0)
    BY <1>a, <1>u, TransferShifts
  <2> HIDE DEF mid
  <2>3. Shifts(mid, index, id, 0, -a, 0, 0, 0, 0)
    BY <2>1, <2>2
  <2> QED
    BY <2>3 DEF Shifts, Kept, mid
<1>2. ASSUME NEW u \in Users, NEW v \in Users, NEW a \in Amounts, NEW id \in Rounds,
             Redeem(u, v, id, a),
             index' = MarkUnderlyingRedemption(
                          ApplyReceiptTransfer(index, u, NoOne, id, a), u, id, a)
      PROVE  ColumnStep
  <2> DEFINE mid == ApplyReceiptTransfer(index, u, NoOne, id, a)
  <2>0. roundState[id] # "Settled"
    BY <1>2 DEF Redeem, Redeemable
  <2>s. /\ supply' = [supply EXCEPT ![id] = @ - a] /\ paidOut' = paidOut
        /\ roundState' = roundState
    BY <1>2 DEF Redeem, Burn, ReturnPrincipal, roundVars
  <2>2. mid \in Indexes /\ mid.known /\ Shifts(mid, index, id, 0, -a, 0, 0, 0, 0)
    BY <1>b
  <2>i. index' = MarkUnderlyingRedemption(mid, u, id, a)
    BY <1>2
  <2> HIDE DEF mid
  <2>3. Shifts(index', mid, id, 0, a, -a, 0, 0, 0)
    BY <1>a, <2>2, <2>i, UnderlyingShifts
  <2>g. -a \in Int /\ -(-a) = a
    BY <1>a
  <2>4. Totals(index', index, id, -a, 0, id, 0, 0)
    <3> DEFINE g == -a
    <3>1. g \in Int /\ -g = a
      BY <2>g
    <3>2. Shifts(mid, index, id, 0, g, 0, 0, 0, 0) /\ Shifts(index', mid, id, 0, -g, g, 0, 0, 0)
      BY <2>2, <2>3, <3>1
    <3> HIDE DEF g
    <3>3. Totals(index', index, id, g, 0, id, 0, 0)
      BY <1>z, <3>1, <3>2, EntryTotals
    <3> QED
      BY <3>3 DEF g
  <2>5. Booked(id, -a, 0, id, 0, 0)
    BY <1>a, <1>f, <2>s, EntryWritten DEF Booked
  <2>6. -a = IF roundState[id] = "Settled" THEN 0 ELSE -a
    BY <2>0
  <2> QED
    BY <1>z, <2>4, <2>5, <2>6, <2>g, <2>s, EntryStep
<1>3. ASSUME NEW u \in Users, NEW v \in Users, NEW a \in Amounts, NEW id \in Rounds,
             RedeemExchangeAsset(u, v, id, a),
             index' = MarkExchangeAssetRedemption(
                          ApplyReceiptTransfer(index, u, NoOne, id, a),
                          u, id, a, Quote(exchangeRate[id], a))
      PROVE  ColumnStep
  <2> DEFINE mid == ApplyReceiptTransfer(index, u, NoOne, id, a)
             out == Quote(exchangeRate[id], a)
  <2>0. roundState[id] = "Settled"
    BY <1>3 DEF RedeemExchangeAsset
  <2>o. out \in Nat
    BY <1>a, <2>0, QuoteType
  <2>s. /\ supply' = [supply EXCEPT ![id] = @ - a] /\ paidOut' = [paidOut EXCEPT ![id] = @ + out]
        /\ roundState' = roundState
    BY <1>3 DEF RedeemExchangeAsset, Burn, roundVars
  <2>2. mid \in Indexes /\ mid.known /\ Shifts(mid, index, id, 0, -a, 0, 0, 0, 0)
    BY <1>b
  <2>i. index' = MarkExchangeAssetRedemption(mid, u, id, a, out)
    BY <1>3
  <2> HIDE DEF mid, out
  <2>p. out \in Int /\ out + 0 = out + 0
    BY <2>o
  <2>3. Shifts(index', mid, id, 0, a, 0, 0, out, out)
    BY <1>a, <2>2, <2>i, <2>p, ExchangeShifts
  <2>4. Totals(index', index, id, 0, out, id, 0, 0)
    <3> DEFINE g == -a
    <3>1. g \in Int /\ -g = a
      BY <1>a
    <3>2. Shifts(mid, index, id, 0, g, 0, 0, 0, 0) /\ Shifts(index', mid, id, 0, -g, 0, 0, out, out)
      BY <2>2, <2>3, <3>1
    <3> HIDE DEF g
    <3> QED
      BY <1>z, <2>p, <3>1, <3>2, EntryTotals
  <2>5. Booked(id, -a, out, id, 0, 0)
    BY <1>a, <1>f, <2>p, <2>s, EntryWritten DEF Booked
  <2>6. 0 = IF roundState[id] = "Settled" THEN 0 ELSE -a
    BY <2>0
  <2> QED
    BY <1>a, <1>z, <2>4, <2>5, <2>6, <2>p, <2>s, EntryStep
<1>4. ASSUME NEW u \in Users, NEW v \in Users, NEW a \in Amounts, NEW id \in Rounds,
             SafeTransferFrom(u, v, id, a), index' = ApplyReceiptTransfer(index, u, v, id, a)
      PROVE  ColumnStep
  <2>1. Grown(u, v, a) = 0
    BY <1>u DEF Grown
  <2>2. Shifts(index', index, id, 0, Grown(u, v, a), 0, 0, 0, 0)
    BY <1>4, <1>a, <1>u, TransferShifts
  <2>3. Still(index', index)
    BY <2>1, <2>2, ShiftsNothing
  <2>4. supply' = supply /\ paidOut' = paidOut /\ roundState' = roundState
    BY <1>4 DEF SafeTransferFrom, tokenVars, roundVars
  <2> QED
    BY <2>3, <2>4, QuietSums
<1> QED
  BY <1>1, <1>2, <1>3, <1>4 DEF IndexedUserStep

\* The burn of two entries.
LEMMA BurnsShift ==
    ASSUME NEW ix \in Indexes, ix.known, NEW u \in Users, NEW i \in Rounds, NEW a \in Int,
           NEW j \in Rounds, NEW b \in Int
    PROVE  LET m1 == ApplyReceiptTransfer(ix, u, NoOne, i, a)
               m2 == ApplyTransferBatch(ix, u, NoOne, i, a, j, b)
           IN  /\ Shifts(m1, ix, i, 0, -a, 0, 0, 0, 0) /\ Shifts(m2, m1, j, 0, -b, 0, 0, 0, 0)
               /\ m2 \in Indexes /\ m2.known /\ SameRates(m2, ix)
<1> DEFINE m1 == ApplyReceiptTransfer(ix, u, NoOne, i, a)
           m2 == ApplyReceiptTransfer(m1, u, NoOne, j, b)
<1>u. NoOne \in Users \cup {NoOne} /\ u \in Users \cup {NoOne} /\ u # NoOne
  BY UsersAssumption
<1>g. Grown(u, NoOne, a) = -a /\ Grown(u, NoOne, b) = -b
  BY <1>u DEF Grown
<1>1. Shifts(m1, ix, i, 0, Grown(u, NoOne, a), 0, 0, 0, 0)
  BY <1>u, TransferShifts
<1>2. SameRates(m1, ix)
  BY BurnApplied
<1>m. m2 = ApplyTransferBatch(ix, u, NoOne, i, a, j, b)
  BY DEF ApplyTransferBatch
<1> HIDE DEF m1
<1>3. m1 \in Indexes /\ m1.known
  BY <1>1 DEF Shifts, Kept
<1>4. Shifts(m2, m1, j, 0, Grown(u, NoOne, b), 0, 0, 0, 0)
  BY <1>3, <1>u, TransferShifts
<1>5. SameRates(m2, m1)
  BY <1>3, BurnApplied
<1> HIDE DEF m2
<1>6. m2 \in Indexes /\ m2.known
  BY <1>3, <1>4 DEF Shifts, Kept
<1>7. SameRates(m2, ix)
  BY <1>2, <1>5 DEF SameRates
<1> QED
  BY <1>1, <1>4, <1>6, <1>7, <1>g, <1>m DEF m1

\* The rows of a batch: the indexed part of the first, and the rest of the total.
LEMMA PartsMarked ==
    ASSUME NEW ix, NEW u, NEW i, NEW a, NEW j, NEW b, NEW total
    PROVE  MarkExchangeAssetRedemptionBatch(ix, u, i, a, j, b, total)
              = MarkExchangeAssetRedemption(
                    MarkExchangeAssetRedemption(ix, u, i, a, IndexedPart(ix, i, a)),
                    u, j, b, total - IndexedPart(ix, i, a))
  BY Zenon DEF MarkExchangeAssetRedemptionBatch

\* The operations of two entries.
LEMMA BatchSums ==
    ASSUME TypeOK, RatesUsable, index \in Indexes, index.known, IndexedBatchStep
    PROVE  ColumnStep
<1>a. \A a \in Amounts : a \in Nat /\ a \in Int /\ -a \in Int /\ -(-a) = a
  BY BoundAssumption
<1>f. supply \in [Rounds -> Int] /\ paidOut \in [Rounds -> Int]
  BY DEF TypeOK
<1>z. 0 \in Int /\ 0 + 0 = 0 + 0
  OBVIOUS
<1>1. ASSUME NEW u \in Users, NEW v \in Users, NEW a \in Amounts \ {0},
             NEW b \in Amounts \ {0}, NEW i \in Rounds, NEW j \in Rounds,
             RedeemBatch(u, v, i, a, j, b),
             index' = MarkUnderlyingRedemption(
                          MarkUnderlyingRedemption(
                              ApplyTransferBatch(index, u, NoOne, i, a, j, b), u, i, a),
                          u, j, b)
      PROVE  ColumnStep
  <2> DEFINE m1 == ApplyReceiptTransfer(index, u, NoOne, i, a)
             m2 == ApplyTransferBatch(index, u, NoOne, i, a, j, b)
             m3 == MarkUnderlyingRedemption(m2, u, i, a)
             g == -a
             h == -b
  <2>0. roundState[i] # "Settled" /\ roundState[j] # "Settled"
    BY <1>1 DEF RedeemBatch, Redeemable
  <2>s. /\ supply' = [[supply EXCEPT ![i] = @ - a] EXCEPT ![j] = @ - b] /\ paidOut' = paidOut
        /\ roundState' = roundState
    BY <1>1 DEF RedeemBatch, BurnBatch, ReturnPrincipal, roundVars
  <2>1. a \in Int /\ b \in Int /\ g \in Int /\ h \in Int /\ -g = a /\ -h = b
    BY <1>a
  <2>2. /\ Shifts(m1, index, i, 0, g, 0, 0, 0, 0) /\ Shifts(m2, m1, j, 0, h, 0, 0, 0, 0)
        /\ m2 \in Indexes /\ m2.known
    BY <2>1, BurnsShift
  <2>i. index' = MarkUnderlyingRedemption(m3, u, j, b)
    BY <1>1
  <2> HIDE DEF m1, m2
  <2>3. Shifts(m3, m2, i, 0, a, g, 0, 0, 0)
    BY <2>1, <2>2, UnderlyingShifts
  <2> HIDE DEF m3
  <2>4. m3 \in Indexes /\ m3.known
    BY <2>2, <2>3 DEF Shifts, Kept
  <2>5. Shifts(index', m3, j, 0, b, h, 0, 0, 0)
    BY <2>1, <2>4, <2>i, UnderlyingShifts
  <2>6. ASSUME NEW k \in Rounds
        PROVE  /\ supply'[k] = supply[k] + At(k, i, g) + At(k, j, h)
               /\ paidOut'[k] = paidOut[k] + At(k, i, 0) + At(k, j, 0)
    <3>1. [[supply EXCEPT ![i] = @ - a] EXCEPT ![j] = @ - b][k]
             = supply[k] + At(k, i, g) + At(k, j, h)
      BY <1>f, <2>1, EntriesWritten
    <3>2. paidOut[k] = paidOut[k] + At(k, i, 0) + At(k, j, 0)
      <4>1. paidOut[k] \in Int /\ At(k, i, 0) = 0 /\ At(k, j, 0) = 0
        BY <1>f DEF At
      <4> QED
        BY <4>1
    <3> QED
      BY <2>s, <3>1, <3>2
  <2>6m. Booked(i, g, 0, j, h, 0)
    BY <2>6 DEF Booked
  <2> HIDE DEF g, h
  <2>7. Shifts(m3, m2, i, 0, -g, g, 0, 0, 0) /\ Shifts(index', m3, j, 0, -h, h, 0, 0, 0)
    BY <2>1, <2>3, <2>5
  <2>8. Totals(index', index, i, g, 0, j, h, 0)
    BY <1>z, <2>1, <2>2, <2>7, BatchTotals
  <2> QED
    BY <2>0, <2>1, <2>6m, <2>8, <2>s, BurnStep
<1>2. ASSUME NEW u \in Users, NEW v \in Users, NEW a \in Amounts \ {0},
             NEW b \in Amounts \ {0}, NEW i \in Rounds, NEW j \in Rounds,
             RedeemExchangeAssetBatch(u, v, i, a, j, b),
             index' = MarkExchangeAssetRedemptionBatch(
                          ApplyTransferBatch(index, u, NoOne, i, a, j, b), u, i, a, j, b,
                          Quote(exchangeRate[i], a) + Quote(exchangeRate[j], b))
      PROVE  ColumnStep
  <2> DEFINE m1 == ApplyReceiptTransfer(index, u, NoOne, i, a)
             m2 == ApplyTransferBatch(index, u, NoOne, i, a, j, b)
             x1 == Quote(exchangeRate[i], a)
             x2 == Quote(exchangeRate[j], b)
             w1 == IndexedPart(m2, i, a)
             w2 == (x1 + x2) - w1
             m3 == MarkExchangeAssetRedemption(m2, u, i, a, w1)
             g == -a
             h == -b
  <2>0. roundState[i] = "Settled" /\ roundState[j] = "Settled"
    BY <1>2 DEF RedeemExchangeAssetBatch
  <2>s. /\ supply' = [[supply EXCEPT ![i] = @ - a] EXCEPT ![j] = @ - b]
        /\ paidOut' = [[paidOut EXCEPT ![i] = @ + x1] EXCEPT ![j] = @ + x2]
        /\ roundState' = roundState
    BY <1>2 DEF RedeemExchangeAssetBatch, BurnBatch, roundVars
  <2>1. a \in Int /\ b \in Int /\ g \in Int /\ h \in Int /\ -g = a /\ -h = b
    BY <1>a
  <2>2. /\ Shifts(m1, index, i, 0, g, 0, 0, 0, 0) /\ Shifts(m2, m1, j, 0, h, 0, 0, 0, 0)
        /\ m2 \in Indexes /\ m2.known /\ SameRates(m2, index)
    BY <2>1, BurnsShift
  <2>i. index' = MarkExchangeAssetRedemption(m3, u, j, b, w2)
    <3>1. index' = MarkExchangeAssetRedemptionBatch(m2, u, i, a, j, b, x1 + x2)
      BY <1>2
    <3> HIDE DEF m1, m2, x1, x2
    <3> QED
      BY <3>1, PartsMarked
  <2>n. a \in Nat /\ b \in Nat
    BY <1>a
  <2>x. x1 \in Nat /\ x2 \in Nat
    BY <2>0, <2>n, QuoteType
  <2>r. RatesSeen => w1 = x1
    <3> SUFFICES ASSUME RatesSeen PROVE w1 = x1
      OBVIOUS
    <3>1. m2.round[i].rate = exchangeRate[i]
      BY <2>0, <2>2 DEF RatesSeen, SameRates
    <3>2. exchangeRate[i].quoteAmount # 0
      BY <2>0 DEF RatesUsable, TypeOK
    <3> QED
      BY <3>1, <3>2 DEF IndexedPart, Quote
  <2> HIDE DEF m1, m2
  <2>w. w1 \in Int
    BY <2>2, <2>n, PartType
  <2> HIDE DEF x1, x2, w1
  <2>v. w2 \in Int /\ w1 + w2 = x1 + x2 /\ (w1 = x1 => w2 = x2)
    BY <2>w, <2>x
  <2> HIDE DEF w2
  <2>3. Shifts(m3, m2, i, 0, a, 0, 0, w1, w1)
    BY <2>1, <2>2, <2>w, ExchangeShifts
  <2> HIDE DEF m3
  <2>4. m3 \in Indexes /\ m3.known
    BY <2>2, <2>3 DEF Shifts, Kept
  <2>5. Shifts(index', m3, j, 0, b, 0, 0, w2, w2)
    BY <2>1, <2>4, <2>i, <2>v, ExchangeShifts
  <2>y. x1 \in Int /\ x2 \in Int
    BY <2>x
  <2>6. ASSUME NEW k \in Rounds
        PROVE  /\ supply'[k] = supply[k] + At(k, i, g) + At(k, j, h)
               /\ paidOut'[k] = paidOut[k] + At(k, i, x1) + At(k, j, x2)
    <3>1. [[supply EXCEPT ![i] = @ - a] EXCEPT ![j] = @ - b][k]
             = supply[k] + At(k, i, g) + At(k, j, h)
      BY <1>f, <2>1, EntriesWritten
    <3>2. [[paidOut EXCEPT ![i] = @ + x1] EXCEPT ![j] = @ + x2][k]
             = paidOut[k] + At(k, i, x1) + At(k, j, x2)
      BY <1>f, <2>y, TwoAdded
    <3> QED
      BY <2>s, <3>1, <3>2
  <2>6m. Booked(i, g, x1, j, h, x2)
    BY <2>6 DEF Booked
  <2> HIDE DEF g, h
  <2>7. Shifts(m3, m2, i, 0, -g, 0, 0, w1, w1) /\ Shifts(index', m3, j, 0, -h, 0, 0, w2, w2)
    BY <2>1, <2>3, <2>5
  <2>8. Totals(index', index, i, 0, w1, j, 0, w2)
    BY <1>z, <2>1, <2>2, <2>7, <2>v, <2>w, BatchTotals
  <2>9. /\ 0 = IF roundState[i] = "Settled" THEN 0 ELSE g
        /\ 0 = IF roundState[j] = "Settled" THEN 0 ELSE h
    BY <2>0
  <2>10. RatesSeen => w1 = x1 /\ w2 = x2
    BY <2>r, <2>v
  <2> QED
    BY <1>z, <2>1, <2>6m, <2>8, <2>9, <2>10, <2>s, <2>v, <2>w, <2>y, TotalsStep
<1>3. ASSUME NEW u \in Users, NEW v \in Users, NEW a \in Amounts \ {0},
             NEW b \in Amounts \ {0}, NEW i \in Rounds, NEW j \in Rounds,
             SafeBatchTransferFrom(u, v, i, a, j, b),
             index' = ApplyTransferBatch(index, u, v, i, a, j, b)
      PROVE  ColumnStep
  <2> DEFINE mid == ApplyReceiptTransfer(index, u, v, i, a)
  <2>0. /\ u \in Users \cup {NoOne} /\ v \in Users \cup {NoOne} /\ u # NoOne /\ v # NoOne
        /\ a \in Int /\ b \in Int
    BY <1>a, UsersAssumption
  <2>1. Grown(u, v, a) = 0 /\ Grown(u, v, b) = 0
    BY <2>0 DEF Grown
  <2>2. Shifts(mid, index, i, 0, Grown(u, v, a), 0, 0, 0, 0)
    BY <2>0, TransferShifts
  <2>i. index' = ApplyReceiptTransfer(mid, u, v, j, b)
    BY <1>3 DEF ApplyTransferBatch
  <2> HIDE DEF mid
  <2>3. Still(mid, index)
    BY <2>1, <2>2, ShiftsNothing
  <2>4. mid \in Indexes /\ mid.known
    BY <2>3 DEF Still, Kept
  <2>5. Shifts(index', mid, j, 0, Grown(u, v, b), 0, 0, 0, 0)
    BY <2>0, <2>4, <2>i, TransferShifts
  <2>6. Still(index', mid)
    BY <2>1, <2>4, <2>5, ShiftsNothing
  <2>7. Still(index', index)
    BY <2>3, <2>6, StillTwice
  <2>8. supply' = supply /\ paidOut' = paidOut /\ roundState' = roundState
    BY <1>3 DEF SafeBatchTransferFrom, tokenVars, roundVars
  <2> QED
    BY <2>7, <2>8, QuietSums
<1> QED
  BY <1>1, <1>2, <1>3 DEF IndexedBatchStep

\* The rounds of S are settled: what they hold is counted as traded, and the
\* other sums are as they were.
Settles(new, ix, S) ==
    /\ Kept(new, ix)
    /\ \A k \in Rounds :
          /\ RowGap(new, k) = RowGap(ix, k) /\ BookGap(new, k) = BookGap(ix, k)
          /\ Net(new, k) = Net(ix, k) /\ Withdrawn(new, k) = Withdrawn(ix, k)
          /\ Credited(new, k) = Credited(ix, k)
          /\ Traded(new, k) = IF k \in S /\ supply[k] > 0 /\ ix.round[k].known
                              THEN supply[k] ELSE Traded(ix, k)

\* The events of one settlement.
LEMMA OneSettled ==
    ASSUME TypeOK, NEW ix \in Indexes, ix.known, NEW id \in Rounds
    PROVE  /\ Settles(IndexSettled(ix, id), ix, {id})
           /\ \A k \in Rounds \ {id} : IndexSettled(ix, id).round[k] = ix.round[k]
<1> DEFINE new == IndexSettled(ix, id)
           t == IF supply[id] > 0 /\ ix.round[id].known THEN supply[id] - Traded(ix, id) ELSE 0
<1>1. /\ Shifts(new, ix, id, 0, 0, 0, t, 0, 0)
      /\ \A k \in Rounds \ {id} : new.round[k] = ix.round[k]
  BY SettledShifts
<1> HIDE DEF new
<1>2. ASSUME NEW k \in Rounds
      PROVE  /\ RowGap(new, k) = RowGap(ix, k) /\ BookGap(new, k) = BookGap(ix, k)
             /\ Net(new, k) = Net(ix, k) /\ Withdrawn(new, k) = Withdrawn(ix, k)
             /\ Credited(new, k) = Credited(ix, k)
             /\ Traded(new, k) = IF k \in {id} /\ supply[k] > 0 /\ ix.round[k].known
                                 THEN supply[k] ELSE Traded(ix, k)
  <2>1. /\ RowGap(ix, k) \in Int /\ BookGap(ix, k) \in Int /\ Net(ix, k) \in Int
        /\ Traded(ix, k) \in Int /\ Withdrawn(ix, k) \in Int /\ Credited(ix, k) \in Int
    BY ColumnTypes
  <2>2. /\ RowGap(new, k) = RowGap(ix, k) + At(k, id, 0)
        /\ BookGap(new, k) = BookGap(ix, k) + At(k, id, 0)
        /\ Net(new, k) = Net(ix, k) + At(k, id, 0)
        /\ Traded(new, k) = Traded(ix, k) + At(k, id, t)
        /\ Withdrawn(new, k) = Withdrawn(ix, k) + At(k, id, 0)
        /\ Credited(new, k) = Credited(ix, k) + At(k, id, 0)
    BY <1>1 DEF Shifts
  <2>3. At(k, id, 0) = 0
    BY DEF At
  <2>4. supply[k] \in Int
    BY DEF TypeOK
  <2>5. CASE k # id
    <3>1. At(k, id, t) = 0
      BY <2>5 DEF At
    <3> QED
      BY <2>1, <2>2, <2>3, <2>5, <3>1
  <2>6. CASE k = id
    <3>1. At(k, id, t) = t
      BY <2>6 DEF At
    <3>2. Traded(ix, k) + t = IF k \in {id} /\ supply[k] > 0 /\ ix.round[k].known
                              THEN supply[k] ELSE Traded(ix, k)
      BY <2>1, <2>4, <2>6
    <3> QED
      BY <2>1, <2>2, <2>3, <3>1, <3>2
  <2> QED
    BY <2>5, <2>6
<1> QED
  BY <1>1, <1>2 DEF Settles, Shifts, new

\* A settlement of the rounds of S.
LEMMA SettlesSums ==
    ASSUME TypeOK, index \in Indexes, NEW S \in SUBSET Rounds, Settles(index', index, S),
           supply' = supply, paidOut' = paidOut,
           \A k \in S : roundState[k] # "Settled" /\ roundState'[k] = "Settled",
           \A k \in Rounds \ S : roundState'[k] = roundState[k]
    PROVE  ColumnStep
<1>0. 0 \in Rounds /\ 0 \in Int /\ 0 + 0 = 0 + 0
  BY BoundAssumption DEF Rounds
<1>1. ASSUME NEW k \in Rounds PROVE NetFollows(k)
  <2>1. /\ Net(index', k) = Net(index, k)
        /\ Traded(index', k) = IF k \in S /\ supply[k] > 0 /\ index.round[k].known
                               THEN supply[k] ELSE Traded(index, k)
    BY DEF Settles
  <2>2. Net(index, k) - Net(index, k) = 0 /\ supply[k] - supply[k] = 0
    BY ColumnTypes DEF TypeOK
  <2> QED
    BY <2>1, <2>2 DEF NetFollows
<1>2. Pays(0, 0, 0, 0, 0, 0)
  <2>1. ASSUME NEW k \in Rounds
        PROVE  /\ paidOut'[k] = paidOut[k] + At(k, 0, 0) + At(k, 0, 0)
               /\ Withdrawn(index', k) = Withdrawn(index, k) + At(k, 0, 0) + At(k, 0, 0)
               /\ Credited(index', k) = Credited(index, k) + At(k, 0, 0) + At(k, 0, 0)
    <3>1. At(k, 0, 0) = 0
      BY DEF At
    <3>2. /\ paidOut[k] \in Int /\ Withdrawn(index, k) \in Int /\ Credited(index, k) \in Int
      BY ColumnTypes DEF TypeOK
    <3>3. /\ paidOut'[k] = paidOut[k] /\ Withdrawn(index', k) = Withdrawn(index, k)
          /\ Credited(index', k) = Credited(index, k)
      BY DEF Settles
    <3> QED
      BY <3>1, <3>2, <3>3
  <2> QED
    BY <2>1 DEF Pays
<1> QED
  BY <1>0, <1>1, <1>2 DEF ColumnStep, Settles

\* The keeper's operations.
LEMMA KeeperSums ==
    ASSUME TypeOK, RoundsInOrder, index \in Indexes, index.known, IndexedKeeperStep
    PROVE  ColumnStep
<1>0. roundNumber \in Rounds /\ Rounds = 0..MaxRound /\ MaxRound \in Nat
  BY BoundAssumption DEF TypeOK, Rounds
<1>s. roundState \in [Rounds -> RoundStates]
  BY DEF TypeOK
<1>1. CASE NextRound /\ index' = ApplyRoundAdvanced(index, roundNumber)
  <2>1. roundNumber + 1 \in Rounds /\ roundNumber + 1 > roundNumber
    BY <1>0, <1>1 DEF NextRound
  <2>2. Still(index', index)
    BY <1>0, <1>1, <2>1, AdvancedStill
  <2>3. /\ supply' = supply /\ paidOut' = paidOut
        /\ roundState' = [roundState EXCEPT ![roundNumber] = "InSettlement",
                                            ![roundNumber + 1] = "Opened"]
        /\ roundState[roundNumber] = "Opened"
    BY <1>1 DEF NextRound, receiptVars, tokenVars
  <2>4. roundState[roundNumber + 1] = "NotOpened"
    BY <2>1 DEF RoundsInOrder
  <2>5. \A k \in Rounds : roundState'[k] = "Settled" <=> roundState[k] = "Settled"
    BY <1>0, <1>s, <2>1, <2>3, <2>4
  <2> QED
    BY <2>2, <2>3, <2>5, QuietSums
<1>r. NoRate \in Rates
  BY DEF NoRate, Rates
<1>2. ASSUME NEW id \in Rounds, RetryRound(id), index' = ApplyRoundRetried(index, id)
      PROVE  ColumnStep
  <2>1. /\ supply' = supply /\ paidOut' = paidOut /\ roundState[id] = "Opened"
        /\ roundState' = [roundState EXCEPT ![id] = "InSettlement"]
    BY <1>2 DEF RetryRound, Retriable, receiptVars, tokenVars
  <2>2. Still(index', index)
    BY <1>2, <1>r, LifeStill
  <2>3. \A k \in Rounds : roundState'[k] = "Settled" <=> roundState[k] = "Settled"
    BY <1>s, <2>1
  <2> QED
    BY <2>1, <2>2, <2>3, QuietSums
<1>3. ASSUME NEW id \in Rounds, SetRoundSettled(id), index' = IndexSettled(index, id)
      PROVE  ColumnStep
  <2>1. /\ supply' = supply /\ paidOut' = paidOut /\ roundState[id] = "InSettlement"
        /\ roundState' = [roundState EXCEPT ![id] = "Settled"]
    BY <1>3 DEF SetRoundSettled, receiptVars
  <2>2. Settles(index', index, {id})
    BY <1>3, OneSettled
  <2>3. /\ \A k \in {id} : roundState[k] # "Settled" /\ roundState'[k] = "Settled"
        /\ \A k \in Rounds \ {id} : roundState'[k] = roundState[k]
    BY <1>s, <2>1
  <2>4. {id} \in SUBSET Rounds
    OBVIOUS
  <2> QED
    BY <2>1, <2>2, <2>3, <2>4, SettlesSums
<1>4. ASSUME NEW i \in Rounds, NEW j \in Rounds, SetRoundSettledBatch(i, j),
             index' = IndexSettled(IndexSettled(index, i), j)
      PROVE  ColumnStep
  <2> DEFINE mid == IndexSettled(index, i)
             S == {i, j}
  <2>1. /\ supply' = supply /\ paidOut' = paidOut /\ i # j
        /\ roundState[i] = "InSettlement" /\ roundState[j] = "InSettlement"
        /\ roundState' = [roundState EXCEPT ![i] = "Settled", ![j] = "Settled"]
    BY <1>4 DEF SetRoundSettledBatch, receiptVars
  <2>2. Settles(mid, index, {i}) /\ \A k \in Rounds \ {i} : mid.round[k] = index.round[k]
    BY OneSettled
  <2>i. index' = IndexSettled(mid, j)
    BY <1>4
  <2> HIDE DEF mid
  <2>3. mid \in Indexes /\ mid.known
    BY <2>2 DEF Settles, Kept
  <2>4. Settles(index', mid, {j})
    BY <2>3, <2>i, OneSettled
  <2>5. ASSUME NEW k \in Rounds
        PROVE  Traded(index', k) = IF k \in S /\ supply[k] > 0 /\ index.round[k].known
                                   THEN supply[k] ELSE Traded(index, k)
    <3>1. /\ Traded(mid, k) = IF k \in {i} /\ supply[k] > 0 /\ index.round[k].known
                              THEN supply[k] ELSE Traded(index, k)
          /\ Traded(index', k) = IF k \in {j} /\ supply[k] > 0 /\ mid.round[k].known
                                 THEN supply[k] ELSE Traded(mid, k)
      BY <2>2, <2>4 DEF Settles
    <3>2. k # i => mid.round[k] = index.round[k]
      BY <2>2
    <3> QED
      BY <2>1, <3>1, <3>2
  <2>6. Settles(index', index, S)
    <3>1. Kept(index', index)
      BY <2>2, <2>4 DEF Settles, Kept
    <3>2. \A k \in Rounds :
             /\ RowGap(index', k) = RowGap(index, k) /\ BookGap(index', k) = BookGap(index, k)
             /\ Net(index', k) = Net(index, k) /\ Withdrawn(index', k) = Withdrawn(index, k)
             /\ Credited(index', k) = Credited(index, k)
      BY <2>2, <2>4 DEF Settles
    <3> HIDE DEF S
    <3> QED
      BY <2>5, <3>1, <3>2 DEF Settles
  <2>7. /\ \A k \in S : roundState[k] # "Settled" /\ roundState'[k] = "Settled"
        /\ \A k \in Rounds \ S : roundState'[k] = roundState[k]
        /\ S \in SUBSET Rounds
    BY <1>s, <2>1
  <2> HIDE DEF S
  <2> QED
    BY <2>1, <2>6, <2>7, SettlesSums
<1> QED
  BY <1>1, <1>2, <1>3, <1>4 DEF IndexedKeeperStep

\* The governor's operations.
LEMMA GovernorSums ==
    ASSUME TypeOK, index \in Indexes, index.known, IndexedGovernorStep
    PROVE  ColumnStep
<1>s. roundState \in [Rounds -> RoundStates]
  BY DEF TypeOK
<1>r. NoRate \in Rates
  BY DEF NoRate, Rates
<1>1. ASSUME NEW id \in Rounds, EmergencyRollbackRound(id),
             index' = ApplyEmergencyRollback(index, id)
      PROVE  ColumnStep
  <2>1. /\ supply' = supply /\ paidOut' = paidOut /\ roundState[id] = "InSettlement"
        /\ roundState' = [roundState EXCEPT ![id] = "Opened"]
    BY <1>1 DEF EmergencyRollbackRound, receiptVars, tokenVars
  <2>2. Still(index', index)
    BY <1>1, <1>r, LifeStill
  <2>3. \A k \in Rounds : roundState'[k] = "Settled" <=> roundState[k] = "Settled"
    BY <1>s, <2>1
  <2> QED
    BY <2>1, <2>2, <2>3, QuietSums
<1>2. ASSUME NEW m \in MinPositions, SetMinPositionSize(m),
             index' = ApplyMinPositionSize(index, m)
      PROVE  ColumnStep
  <2>1. supply' = supply /\ paidOut' = paidOut /\ roundState' = roundState
    BY <1>2 DEF SetMinPositionSize, receiptVars, tokenVars, roundVars
  <2>2. m \in Int
    BY BoundAssumption
  <2>3. Still(index', index)
    BY <1>2, <2>2, MinPositionStill
  <2> QED
    BY <2>1, <2>3, QuietSums
<1> QED
  BY <1>1, <1>2 DEF IndexedGovernorStep

\* Every step, once the index knows the vault.
LEMMA EveryStepSums ==
    ASSUME TypeOK, RoundsInOrder, RatesUsable, index \in Indexes, index.known,
           [VaultStep \/ RegistryStep]_allVars
    PROVE  ColumnStep
<1>1. CASE IndexedUserStep
  BY <1>1, UserSums
<1>2. CASE IndexedBatchStep
  BY <1>2, BatchSums
<1>3. CASE IndexedKeeperStep
  BY <1>3, KeeperSums
<1>4. CASE IndexedGovernorStep
  BY <1>4, GovernorSums
<1>5. CASE (EnvironmentStep /\ UNCHANGED index) \/ RegistryStep \/ UNCHANGED allVars
  <2>1. /\ supply' = supply /\ paidOut' = paidOut /\ roundState' = roundState
        /\ index' = index
    <3>1. CASE EnvironmentStep /\ UNCHANGED index
      BY <3>1 DEF EnvironmentStep, SetWhitelisted, TargetPriceMoves, TargetCloses,
         TargetOpens, receiptVars, tokenVars, roundVars
    <3>2. CASE RegistryStep
      BY <3>2 DEF RegistryStep, RegisterPair, SetVault, ClearVault, SetActive,
         CreateRoundsVault, vars
    <3>3. CASE UNCHANGED allVars
      BY <3>3 DEF allVars, vars, indexVars
    <3> QED
      BY <1>5, <3>1, <3>2, <3>3
  <2>2. Still(index', index)
    BY <2>1, StillAlone
  <2> QED
    BY <2>1, <2>2, QuietSums
<1> QED
  BY <1>1, <1>2, <1>3, <1>4, <1>5 DEF VaultStep

---------------------------------------------------------------------------
(* The rows add up, however late the vault is registered *)

RowsZero(ix) == \A k \in Rounds : RowGap(ix, k) = 0 /\ BookGap(ix, k) = 0

\* A handler does nothing to an index that does not know the vault.
LEMMA UnknownHandled == ASSUME NEW ix, ~ix.known, NEW handled PROVE IfKnown(ix, handled) = ix
  BY DEF IfKnown

\* That is every one of them.
LEMMA UnknownHandlers ==
    ASSUME NEW ix, ~ix.known, NEW u, NEW v, NEW id, NEW a, NEW out, NEW rate
    PROVE  /\ ApplyDepositWithReceipt(ix, id, a) = ix
           /\ MarkUnderlyingRedemption(ix, u, id, a) = ix
           /\ MarkExchangeAssetRedemption(ix, u, id, a, out) = ix
           /\ ApplyRoundAdvanced(ix, id) = ix
           /\ ApplyRoundRetried(ix, id) = ix
           /\ ApplyRoundSettled(ix, id, rate) = ix
           /\ HandleTargetTrade(ix, id, a, out) = ix
           /\ ApplyEmergencyRollback(ix, id) = ix
           /\ ApplyMinPositionSize(ix, a) = ix
<1>1. ApplyDepositWithReceipt(ix, id, a) = ix
  BY UnknownHandled DEF ApplyDepositWithReceipt
<1>2. MarkUnderlyingRedemption(ix, u, id, a) = ix
  BY UnknownHandled DEF MarkUnderlyingRedemption
<1>3. MarkExchangeAssetRedemption(ix, u, id, a, out) = ix
  BY UnknownHandled DEF MarkExchangeAssetRedemption
<1>4. ApplyRoundAdvanced(ix, id) = ix
  BY UnknownHandled DEF ApplyRoundAdvanced
<1>5. ApplyRoundRetried(ix, id) = ix
  BY UnknownHandled DEF ApplyRoundRetried
<1>6. ApplyRoundSettled(ix, id, rate) = ix
  BY UnknownHandled DEF ApplyRoundSettled
<1>7. HandleTargetTrade(ix, id, a, out) = ix
  BY UnknownHandled DEF HandleTargetTrade
<1>8. ApplyEmergencyRollback(ix, id) = ix
  BY UnknownHandled DEF ApplyEmergencyRollback
<1>9. ApplyMinPositionSize(ix, a) = ix
  BY UnknownHandled DEF ApplyMinPositionSize
<1> QED
  BY <1>1, <1>2, <1>3, <1>4, <1>5, <1>6, <1>7, <1>8, <1>9

\* Nor do the handlers of a whole transaction.
LEMMA UnknownStays ==
    ASSUME ~index.known, VaultStep
    PROVE  index' = index
<1>u. ASSUME NEW u, NEW v, NEW id, NEW a, NEW j, NEW b, NEW out
      PROVE  /\ ApplyReceiptTransfer(index, u, v, id, a) = index
             /\ ApplyTransferBatch(index, u, v, id, a, j, b) = index
             /\ MarkUnderlyingRedemption(index, u, id, a) = index
             /\ MarkExchangeAssetRedemption(index, u, id, a, out) = index
  BY UnknownTransfer, UnknownHandlers DEF ApplyTransferBatch
<1>b. ASSUME NEW u, NEW i, NEW a, NEW j, NEW b, NEW out
      PROVE  MarkExchangeAssetRedemptionBatch(index, u, i, a, j, b, out) = index
  BY <1>u, PartsMarked
<1>s. ASSUME NEW id PROVE IndexSettled(index, id) = index
  BY UnknownHandlers DEF IndexSettled
<1>1. CASE IndexedUserStep
  BY <1>1, <1>u, UnknownHandlers DEF IndexedUserStep
<1>2. CASE IndexedBatchStep
  BY <1>2, <1>b, <1>u DEF IndexedBatchStep
<1>3. CASE IndexedKeeperStep
  BY <1>3, <1>s, UnknownHandlers DEF IndexedKeeperStep
<1>4. CASE IndexedGovernorStep
  BY <1>4, UnknownHandlers DEF IndexedGovernorStep
<1> QED
  BY <1>1, <1>2, <1>3, <1>4 DEF VaultStep

\* A round nothing was written to.
LEMMA EmptySums ==
    ASSUME NEW ix \in Indexes, NEW k \in Rounds, Empty(ix, k),
           \A u \in Users : ix.receipt[u][k] = NoReceipt
    PROVE  /\ RowGap(ix, k) = 0 /\ BookGap(ix, k) = 0
           /\ Net(ix, k) = 0 /\ Traded(ix, k) = 0 /\ Withdrawn(ix, k) = 0
<1> DEFINE b == [u \in Users |-> ix.receipt[u][k].balance]
           t == [u \in Users |-> ix.receipt[u][k].redeemedForExchange]
<1>1. \A u \in Users : b[u] = 0 /\ t[u] = 0
  BY DEF NoReceipt
<1>2. IsFiniteSet(Users)
  BY UsersAssumption
<1> HIDE DEF b, t
<1>3. SumOver(b, Users) = 0 /\ SumOver(t, Users) = 0
  BY <1>1, <1>2, SumZero
<1>4. Held(ix, k) = 0 /\ Taken(ix, k) = 0
  BY <1>3 DEF Held, Taken, b, t
<1>5. /\ ix.round[k].receiptSupply = 0 /\ ix.round[k].depositsQueued = 0
      /\ ix.round[k].depositsRedeemed = 0 /\ ix.round[k].exchangeAssetWithdrawn = 0
      /\ ix.round[k].settledUnderlying = 0
  BY DEF Empty, NoRound
<1> QED
  BY <1>4, <1>5 DEF RowGap, BookGap, Net, Traded, Withdrawn

\* The index is empty when the registry names the vault, and before.
LEMMA FreshSums ==
    ASSUME minPositionSize \in Nat, NEW ix, ix = EmptyIndex \/ ix = CreateRoundsVault(EmptyIndex),
           NEW k \in Rounds
    PROVE  /\ RowGap(ix, k) = 0 /\ BookGap(ix, k) = 0
           /\ Net(ix, k) = 0 /\ Traded(ix, k) = 0 /\ Withdrawn(ix, k) = 0
<1> DEFINE rows == [id \in Rounds |-> NoRound]
           rows0 == [rows EXCEPT ![0] = [@ EXCEPT !.known = TRUE]]
<1>1. ix \in Indexes
  BY EmptyIndexType, CreatedType
<1>2. 0 \in Rounds
  BY BoundAssumption DEF Rounds
<1> DEFINE none == [u \in Users |-> [id \in Rounds |-> NoReceipt]]
           e == EmptyIndex
           named == [e EXCEPT !.known = TRUE, !.minPositionSize = minPositionSize]
<1>a. ~e.known /\ e.round = rows /\ e.receipt = none
  BY DEF EmptyIndex
<1>b. e \in Indexes
  BY EmptyIndexType
<1>c. ix = e \/ ix = Touched(named, 0)
  BY <1>a DEF CreateRoundsVault
<1> HIDE DEF e, rows, none
<1>d. named \in Indexes /\ named.round = rows /\ named.receipt = none
  <2> DEFINE half == [e EXCEPT !.known = TRUE]
  <2>1. half \in Indexes /\ half.round = rows /\ half.receipt = none
    BY <1>a, <1>b DEF Indexes
  <2> HIDE DEF half
  <2> DEFINE full == [half EXCEPT !.minPositionSize = minPositionSize]
  <2>2. full \in Indexes /\ full.round = rows /\ full.receipt = none
    BY <2>1 DEF Indexes
  <2>3. full = named
    BY DEF half
  <2> HIDE DEF full, named
  <2> QED
    BY <2>2, <2>3
<1> HIDE DEF named
<1>e. /\ Touched(named, 0).round = [rows EXCEPT ![0] = [@ EXCEPT !.known = TRUE]]
      /\ Touched(named, 0).receipt = none
  BY <1>d DEF Touched, Indexes
<1> HIDE DEF rows0
<1>3. ix.round = rows \/ ix.round = rows0
  BY <1>a, <1>c, <1>e DEF rows0
<1>4. ix.receipt = none
  BY <1>a, <1>c, <1>e
<1> USE DEF rows, rows0
<1>5. rows[k] = NoRound /\ (rows0[k] = NoRound \/ rows0[k] = [NoRound EXCEPT !.known = TRUE])
  BY <1>2
<1> HIDE DEF rows, rows0
<1>6. Empty(ix, k)
  BY <1>3, <1>5 DEF Empty, NoRound
<1>7. \A u \in Users : ix.receipt[u][k] = NoReceipt
  BY <1>4 DEF none
<1> QED
  BY <1>1, <1>6, <1>7, EmptySums

\* The registry's handler makes the same of any index it does not find.
LEMMA RegistryMakes ==
    ASSUME RegistryStep
    PROVE  index' = index \/ (~index.known /\ index' = CreateRoundsVault(EmptyIndex))
<1>1. index' = index \/ index' = CreateRoundsVault(index)
  BY DEF RegistryStep, RegisterPair, SetVault, ClearVault, SetActive
<1>2. ~EmptyIndex.known
  BY DEF EmptyIndex
<1> QED
  BY <1>1, <1>2 DEF CreateRoundsVault

\* Every step keeps the sums of the rows.
LEMMA RowsStep ==
    ASSUME IInv, index \in Indexes, RowsZero(index), [VaultStep \/ RegistryStep]_allVars
    PROVE  RowsZero(index')
<1>0. TypeOK /\ RoundsInOrder /\ RatesUsable
  BY SolventRates DEF IInv
<1>1. CASE index.known
  <2>1. ColumnStep
    BY <1>0, <1>1, EveryStepSums
  <2> QED
    BY <2>1 DEF ColumnStep, RowsZero
<1>2. CASE ~index.known
  <2>1. CASE VaultStep
    <3>1. index' = index
      BY <1>2, <2>1, UnknownStays
    <3> QED
      BY <3>1
  <2>2. CASE RegistryStep
    <3>1. CASE index' = index
      BY <3>1
    <3>2. CASE index' = CreateRoundsVault(EmptyIndex)
      <4> DEFINE made == CreateRoundsVault(EmptyIndex)
      <4>1. minPositionSize \in Nat
        BY <1>0 DEF TypeOK
      <4> HIDE DEF made
      <4>2. RowsZero(made)
        BY <4>1, FreshSums DEF RowsZero, made
      <4>3. index' = made
        BY <3>2 DEF made
      <4> QED
        BY <4>2, <4>3
    <3> QED
      BY <2>2, <3>1, <3>2, RegistryMakes
  <2>3. CASE UNCHANGED allVars
    <3>1. index' = index
      BY <2>3 DEF allVars, indexVars
    <3> QED
      BY <3>1
  <2> QED
    BY <2>1, <2>2, <2>3
<1> QED
  BY <1>1, <1>2

\* In every state the rows have no gap.
LEMMA RowsInvariant == IndexSpec => []RowsZero(index)
<1>1. IndexInit => RowsZero(index)
  <2> SUFFICES ASSUME IndexInit, NEW k \in Rounds
               PROVE  RowGap(index, k) = 0 /\ BookGap(index, k) = 0
    BY DEF RowsZero
  <2>1. index = EmptyIndex \/ index = CreateRoundsVault(EmptyIndex)
    BY DEF IndexInit
  <2>2. minPositionSize \in Nat
    BY DEF IndexInit, Init
  <2> QED
    BY <2>1, <2>2, FreshSums
<1>2. (IInv /\ index \in Indexes) /\ RowsZero(index) /\ [VaultStep \/ RegistryStep]_allVars
        => RowsZero(index)'
  BY RowsStep
<1> QED
  BY <1>1, <1>2, IndexTyped, PTL DEF IndexSpec

\* For any users, rounds and amounts, and wherever in the life of the vault the
\* registry names it: the supply stored of a round is what the stored balances
\* add up to, and what was deposited less what was redeemed for either token.
THEOREM RowsAddUp == IndexSpec => []IndexRowsAddUp
<1>1. index \in Indexes /\ RowsZero(index) => IndexRowsAddUp
  <2> SUFFICES ASSUME index \in Indexes, RowsZero(index), NEW id \in Rounds
               PROVE  /\ index.round[id].receiptSupply = Held(index, id)
                      /\ index.round[id].receiptSupply
                            = index.round[id].depositsQueued - index.round[id].depositsRedeemed
                                - Taken(index, id)
    BY DEF IndexRowsAddUp, Held, Taken
  <2>1. /\ index.round[id].receiptSupply \in Int /\ index.round[id].depositsQueued \in Int
        /\ index.round[id].depositsRedeemed \in Int
    BY DEF Indexes, RoundRows
  <2>2. Held(index, id) \in Int /\ Taken(index, id) \in Int
    BY ColumnTypes
  <2>3. RowGap(index, id) = 0 /\ BookGap(index, id) = 0
    BY DEF RowsZero
  <2> QED
    BY <2>1, <2>2, <2>3 DEF RowGap, BookGap, Net
<1> QED
  BY <1>1, RowsInvariant, IndexTyped, PTL

---------------------------------------------------------------------------
(* What was put in, taken out and paid, from the first deposit on *)

\* What the index holds of a round follows its supply until it is settled; from
\* then on it is what was traded.  What it says was paid is what was paid.
Flow(k) ==
    /\ IF roundState[k] = "Settled" THEN Traded(index, k) = Net(index, k)
       ELSE Net(index, k) = supply[k] /\ Traded(index, k) = 0
    /\ Withdrawn(index, k) = paidOut[k]

Flows == \A k \in Rounds : Flow(k)

\* Every step keeps the flows of an index that was told of everything.
LEMMA FlowsStep ==
    ASSUME IInv, index \in Indexes, Told, Flows, [VaultStep \/ RegistryStep]_allVars
    PROVE  Flows'
<1>0. TypeOK /\ RoundsInOrder /\ RatesUsable /\ index.known
  BY SolventRates DEF IInv, Told
<1>1. ColumnStep
  BY <1>0, EveryStepSums
<1>2. RatesSeen
  BY <1>0, Begun DEF RatesSeen, Told, Tells
<1>3. PICK i \in Rounds, j \in Rounds, x1 \in Int, x2 \in Int, w1 \in Int, w2 \in Int :
         Pays(i, x1, w1, j, x2, w2)
  BY <1>1 DEF ColumnStep
<1>4. SUFFICES ASSUME NEW k \in Rounds PROVE Flow(k)'
  BY DEF Flows
<1> DEFINE net == Net(index, k)
           net2 == Net(index', k)
           sup == supply[k]
           sup2 == supply'[k]
           traded == Traded(index, k)
           traded2 == Traded(index', k)
<1>5. net \in Int /\ sup \in Nat
  BY <1>0, ColumnTypes DEF TypeOK
<1>k. index' \in Indexes /\ sup2 \in Int
  <2>1. [Next]_vars
    BY IndexedStep
  <2>2. TypeOK'
    BY <1>0, <2>1, TypeStep DEF IInv
  <2> QED
    BY <1>1, <2>2 DEF ColumnStep, Kept, TypeOK
<1>m. net2 \in Int
  BY <1>k, ColumnTypes
<1>6. Withdrawn(index', k) = paidOut'[k]
  <2>1. w1 = x1 /\ w2 = x2
    BY <1>2, <1>3 DEF Pays
  <2>2. /\ paidOut'[k] = paidOut[k] + At(k, i, x1) + At(k, j, x2)
        /\ Withdrawn(index', k) = Withdrawn(index, k) + At(k, i, w1) + At(k, j, w2)
    BY <1>3 DEF Pays
  <2> QED
    BY <2>1, <2>2 DEF Flows, Flow
<1>7. IF roundState'[k] = "Settled" THEN traded2 = net2 ELSE net2 = sup2 /\ traded2 = 0
  <2>1. IF roundState[k] = "Settled" THEN traded = net ELSE net = sup /\ traded = 0
    BY DEF Flows, Flow
  <2>2. sup > 0 => index.round[k].known
    <3> SUFFICES ASSUME sup > 0 PROVE index.round[k].known
      OBVIOUS
    <3>1. roundNumber \in Int /\ k \in Int
      BY <1>0, BoundAssumption DEF TypeOK, Rounds
    <3>2. ~(k > roundNumber)
      BY <1>0 DEF RoundsInOrder
    <3>3. k <= roundNumber
      BY <3>1, <3>2
    <3> QED
      BY <3>3 DEF Told, Tells
  <2>3. NetFollows(k)
    BY <1>1 DEF ColumnStep
  <2>4. CASE /\ roundState'[k] = "Settled" <=> roundState[k] = "Settled"
             /\ traded2 = traded
             /\ net2 - net = IF roundState[k] = "Settled" THEN 0 ELSE sup2 - sup
    <3> HIDE DEF net, net2, sup, sup2, traded, traded2
    <3> QED
      BY <1>5, <1>k, <1>m, <2>1, <2>4
  <2>5. CASE /\ roundState[k] # "Settled" /\ roundState'[k] = "Settled"
             /\ net2 = net /\ sup2 = sup
             /\ traded2 = IF sup > 0 /\ index.round[k].known THEN sup ELSE traded
    <3> HIDE DEF net, net2, sup, sup2, traded, traded2
    <3> QED
      BY <1>5, <2>1, <2>2, <2>5
  <2> QED
    BY <2>3, <2>4, <2>5 DEF NetFollows
<1> QED
  BY <1>6, <1>7 DEF Flow

\* They hold in every state of a vault that is registered when it is made.
LEMMA FlowsInvariant == IndexSpec => [](fromStart => Flows)
<1>1. IndexInit => (fromStart => Flows)
  <2> SUFFICES ASSUME IndexInit, fromStart, NEW k \in Rounds PROVE Flow(k)
    BY DEF Flows
  <2>1. index = CreateRoundsVault(EmptyIndex) /\ minPositionSize \in Nat
    BY DEF IndexInit, Init
  <2>2. Net(index, k) = 0 /\ Traded(index, k) = 0 /\ Withdrawn(index, k) = 0
    BY <2>1, FreshSums
  <2>3. roundState[k] # "Settled" /\ supply[k] = 0 /\ paidOut[k] = 0
    BY DEF IndexInit, Init
  <2> QED
    BY <2>2, <2>3 DEF Flow
<1>2. LifeInv /\ (fromStart => Flows) /\ [VaultStep \/ RegistryStep]_allVars
        => (fromStart => Flows)'
  <2> SUFFICES ASSUME LifeInv, fromStart => Flows, [VaultStep \/ RegistryStep]_allVars,
                      fromStart'
               PROVE  Flows'
    OBVIOUS
  <2>1. fromStart
    BY DEF VaultStep, RegistryStep, allVars, indexVars
  <2> QED
    BY <2>1, FlowsStep DEF LifeInv
<1> QED
  BY <1>1, <1>2, LifeInvariant, PTL DEF IndexSpec

\* For any users, rounds, amounts and prices: an index that knew the vault from
\* its first deposit says of every settled round that what was put in and not
\* taken back was traded, and says of every round what the vault paid for it.
THEOREM FlowsBalance == IndexSpec => []IndexedFlowsBalance
<1>1. (fromStart => Flows) => IndexedFlowsBalance
  BY DEF Flows, Flow, IndexedFlowsBalance, Net, Traded, Withdrawn
<1> QED
  BY <1>1, FlowsInvariant, PTL

---------------------------------------------------------------------------
(* Nothing of a payout is lost *)

\* The rounds are finitely many.
LEMMA RoundsFinite == IsFiniteSet(Rounds)
  BY BoundAssumption, FS_Interval DEF Rounds

\* An amount of one round adds up to itself.
LEMMA SumAt ==
    ASSUME NEW i \in Rounds, NEW x \in Int
    PROVE  SumOver([k \in Rounds |-> At(k, i, x)], Rounds) = x
<1> DEFINE f == [k \in Rounds |-> At(k, i, x)]
<1>1. f[i] = x /\ \A k \in Rounds : f[k] \in Int /\ (k # i => f[k] = 0)
  BY DEF At
<1> HIDE DEF f
<1>2. SumOver(f, Rounds) = f[i] + SumOver(f, Rounds \ {i})
  BY <1>1, RoundsFinite, SumSplit
<1>3. SumOver(f, Rounds \ {i}) = 0
  BY <1>1, RoundsFinite, FS_Subset, SumZero
<1>4. SumOver(f, Rounds) = x
  BY <1>1, <1>2, <1>3
<1> QED
  BY <1>4 DEF f

\* Amounts of two rounds.
IsTwo(h, i, x, j, y) == \A k \in Rounds : h[k] = At(k, i, x) + At(k, j, y)

\* They add up as well.
LEMMA SumTwo ==
    ASSUME NEW h, NEW i \in Rounds, NEW x \in Int, NEW j \in Rounds, NEW y \in Int,
           IsTwo(h, i, x, j, y)
    PROVE  SumOver(h, Rounds) = x + y
<1> DEFINE f == [k \in Rounds |-> At(k, i, x)]
           g == [k \in Rounds |-> At(k, j, y)]
<1>1. \A k \in Rounds : f[k] \in Int /\ g[k] \in Int /\ h[k] = f[k] + g[k]
  BY DEF At, IsTwo
<1>2. SumOver(f, Rounds) = x /\ SumOver(g, Rounds) = y
  BY SumAt
<1> HIDE DEF f, g
<1>3. SumOver(h, Rounds) = SumOver(f, Rounds) + SumOver(g, Rounds)
  BY <1>1, RoundsFinite, SumPlus
<1> QED
  BY <1>2, <1>3

\* What is credited in a round is what its owners are credited with.
LEMMA CreditsAddUp ==
    ASSUME NEW ix \in Indexes, NEW new \in Indexes, NEW k \in Rounds
    PROVE  SumOver([u \in Users |-> new.receipt[u][k].exchangeReceived
                                      - ix.receipt[u][k].exchangeReceived], Users)
              = Credited(new, k) - Credited(ix, k)
<1> DEFINE d == [u \in Users |-> new.receipt[u][k].exchangeReceived
                                   - ix.receipt[u][k].exchangeReceived]
           f == [u \in Users |-> ix.receipt[u][k].exchangeReceived]
           h == [u \in Users |-> new.receipt[u][k].exchangeReceived]
<1>1. \A u \in Users : f[u] \in Int /\ h[u] \in Int
  BY DEF Indexes, ReceiptRows
<1>2. \A u \in Users : d[u] = h[u] - f[u]
  OBVIOUS
<1>e. SumOver(f, Users) = Credited(ix, k) /\ SumOver(h, Users) = Credited(new, k)
  BY DEF Credited
<1> HIDE DEF d, f, h
<1>3. \A u \in Users : d[u] \in Int /\ h[u] = f[u] + d[u]
  BY <1>1, <1>2
<1>4. IsFiniteSet(Users)
  BY UsersAssumption
<1>5. SumOver(h, Users) = SumOver(f, Users) + SumOver(d, Users)
  BY <1>1, <1>3, <1>4, SumPlus
<1>6. SumOver(f, Users) \in Int /\ SumOver(d, Users) \in Int
  BY <1>1, <1>3, <1>4, SumInt
<1>7. SumOver(d, Users) = Credited(new, k) - Credited(ix, k)
  BY <1>5, <1>6, <1>e
<1> QED
  BY <1>7 DEF d

\* The sums of one step.
LEMMA PayoutsStep ==
    ASSUME IInv, index \in Indexes, index.known, [VaultStep \/ RegistryStep]_allVars
    PROVE  LET paid == SumOver([id \in Rounds |-> paidOut'[id] - paidOut[id]], Rounds) IN
           /\ SumOver([id \in Rounds |-> index'.round[id].exchangeAssetWithdrawn
                                           - index.round[id].exchangeAssetWithdrawn], Rounds)
                 = paid
           /\ SumOver([id \in Rounds |-> SumOver(
                          [u \in Users |-> index'.receipt[u][id].exchangeReceived
                                             - index.receipt[u][id].exchangeReceived], Users)],
                      Rounds) = paid
<1>0. TypeOK /\ RoundsInOrder /\ RatesUsable
  BY SolventRates DEF IInv
<1>1. ColumnStep /\ index' \in Indexes
  BY <1>0, EveryStepSums DEF ColumnStep, Kept
<1>2. PICK i \in Rounds, j \in Rounds, x1 \in Int, x2 \in Int, w1 \in Int, w2 \in Int :
         Pays(i, x1, w1, j, x2, w2)
  BY <1>1 DEF ColumnStep
<1> DEFINE p == [id \in Rounds |-> paidOut'[id] - paidOut[id]]
           w == [id \in Rounds |-> index'.round[id].exchangeAssetWithdrawn
                                     - index.round[id].exchangeAssetWithdrawn]
           c == [id \in Rounds |-> SumOver(
                    [u \in Users |-> index'.receipt[u][id].exchangeReceived
                                       - index.receipt[u][id].exchangeReceived], Users)]
<1>3. ASSUME NEW k \in Rounds
      PROVE  /\ p[k] = At(k, i, x1) + At(k, j, x2)
             /\ w[k] = At(k, i, w1) + At(k, j, w2)
             /\ c[k] = At(k, i, w1) + At(k, j, w2)
  <2>1. /\ At(k, i, x1) \in Int /\ At(k, j, x2) \in Int
        /\ At(k, i, w1) \in Int /\ At(k, j, w2) \in Int
    BY DEF At
  <2>2. paidOut[k] \in Int /\ Withdrawn(index, k) \in Int /\ Credited(index, k) \in Int
    BY <1>0, ColumnTypes DEF TypeOK
  <2>3. /\ paidOut'[k] = paidOut[k] + At(k, i, x1) + At(k, j, x2)
        /\ Withdrawn(index', k) = Withdrawn(index, k) + At(k, i, w1) + At(k, j, w2)
        /\ Credited(index', k) = Credited(index, k) + At(k, i, w1) + At(k, j, w2)
    BY <1>2 DEF Pays
  <2>4. p[k] = paidOut'[k] - paidOut[k]
    OBVIOUS
  <2>5. w[k] = Withdrawn(index', k) - Withdrawn(index, k)
    BY DEF Withdrawn
  <2>6. c[k] = Credited(index', k) - Credited(index, k)
    BY <1>1, CreditsAddUp
  <2> HIDE DEF p, w, c
  <2>7. p[k] = At(k, i, x1) + At(k, j, x2)
    BY <2>1, <2>2, <2>3, <2>4
  <2>8. w[k] = At(k, i, w1) + At(k, j, w2)
    BY <2>1, <2>2, <2>3, <2>5
  <2>9. c[k] = At(k, i, w1) + At(k, j, w2)
    BY <2>1, <2>2, <2>3, <2>6
  <2> QED
    BY <2>7, <2>8, <2>9
<1> HIDE DEF p, w, c
<1>t. /\ IsTwo(p, i, x1, j, x2) /\ IsTwo(w, i, w1, j, w2)
      /\ IsTwo(c, i, w1, j, w2)
  BY <1>3 DEF IsTwo
<1>4. SumOver(p, Rounds) = x1 + x2
  BY <1>t, SumTwo
<1>5. SumOver(w, Rounds) = w1 + w2
  BY <1>t, SumTwo
<1>6. SumOver(c, Rounds) = w1 + w2
  BY <1>t, SumTwo
<1>7. w1 + w2 = x1 + x2
  BY <1>2 DEF Pays
<1>8. SumOver(w, Rounds) = SumOver(p, Rounds) /\ SumOver(c, Rounds) = SumOver(p, Rounds)
  BY <1>4, <1>5, <1>6, <1>7
<1> QED
  BY <1>8 DEF p, w, c

\* For any users, rounds, amounts and prices, and wherever in the life of the
\* vault the registry names it: every transaction makes the exchange tokens the
\* index counts, in all and to the owners, grow by exactly what the vault pays,
\* a batch over rounds whose rates the index never saw among them.
THEOREM PayoutsComplete == IndexSpec => IndexedPayoutsComplete
<1> DEFINE Body ==
        index.known =>
            LET paid == SumOver([id \in Rounds |-> paidOut'[id] - paidOut[id]], Rounds) IN
            /\ SumOver([id \in Rounds |-> index'.round[id].exchangeAssetWithdrawn
                                            - index.round[id].exchangeAssetWithdrawn], Rounds)
                  = paid
            /\ SumOver([id \in Rounds |-> SumOver(
                           [u \in Users |-> index'.receipt[u][id].exchangeReceived
                                              - index.receipt[u][id].exchangeReceived], Users)],
                       Rounds) = paid
<1>1. (IInv /\ index \in Indexes) /\ [VaultStep \/ RegistryStep]_allVars => Body
  BY PayoutsStep
<1> HIDE DEF Body
<1>2. IndexSpec => [][Body]_allVars
  BY <1>1, IndexTyped, PTL DEF IndexSpec
<1>3. [][Body]_allVars => IndexedPayoutsComplete
  BY DEF Body, IndexedPayoutsComplete
<1> QED
  BY <1>2, <1>3
=============================================================================
