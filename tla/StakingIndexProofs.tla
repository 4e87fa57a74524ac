------------------------- MODULE StakingIndexProofs -------------------------
(***************************************************************************)
(* That the staking index mirrors the portfolios, that its totals are      *)
(* theirs, and that it halts at a deployment's last exit from a lockup and *)
(* nowhere else: for any number of accounts, stakes, lockup periods and    *)
(* amounts.                                                                *)
(*                                                                         *)
(* The contract keeps the stakes of an account in an array and fills the   *)
(* gap of an emptied one with the last; the index keeps rows by number and *)
(* moves them after the events.  The proof compares one array with one     *)
(* list of rows, for each of the ways both change, and then shows that a   *)
(* transaction and its handler change the same pair in the same way.  The  *)
(* totals follow from the same steps, as the size of the set of lockups    *)
(* and as a sum over the portfolios.                                       *)
(***************************************************************************)
EXTENDS StakingIndex, StakingProofs

\* A row, if there is one, is that of a stake.
Row == Stake \cup {NoRow}

\* The rows of one account in one deployment are those of its portfolio.
Mirrors(rows, s) ==
    \A i \in Indices :
        IF i < Len(s)
        THEN \/ rows[i] = s[i + 1]
             \/ i = 0 /\ s[1].amount = 0 /\ s[1].weightedAmount = 0 /\ rows[0] = NoRow
        ELSE rows[i] = NoRow

LastIndexIn(s) == IF s = <<>> THEN 0 ELSE Len(s) - 1

IndexType ==
    [rows : [Deployments -> [Users -> [Indices -> Row]]], lastLockupIndex : [Users -> Int],
     lastLockupIndexProd : [Users -> Int], summerStaked : [Deployments -> Int],
     amountOfLockedStakes : [Deployments -> Int], halted : BOOLEAN]

---------------------------------------------------------------------------
(* The store *)

\* Nothing but the rows and the counter of one account in one deployment, and
\* totals, is different.
OnlyAt(new, old, d, u) ==
    /\ new \in IndexType /\ new.halted = old.halted
    /\ \A e \in Deployments, v \in Users :
          e # d \/ v # u => /\ new.rows[e][v] = old.rows[e][v]
                            /\ LastIndexOf(new, e, v) = LastIndexOf(old, e, v)

\* A row that is written.
LEMMA RowWritten ==
    ASSUME NEW ix \in IndexType, NEW d \in Deployments, NEW u \in Users, NEW i \in Indices,
           NEW row \in Row
    PROVE  LET new == [ix EXCEPT !.rows[d][u][i] = row]
           IN  /\ OnlyAt(new, ix, d, u)
               /\ new.rows[d][u] = [ix.rows[d][u] EXCEPT ![i] = row]
               /\ LastIndexOf(new, d, u) = LastIndexOf(ix, d, u)
<1> DEFINE rows == ix.rows
           one == [rows[d][u] EXCEPT ![i] = row]
           two == [rows[d] EXCEPT ![u] = one]
           three == [rows EXCEPT ![d] = two]
           new == [ix EXCEPT !.rows = three]
<1>1. [ix EXCEPT !.rows[d][u][i] = row] = new
  OBVIOUS
<1>2. rows \in [Deployments -> [Users -> [Indices -> Row]]]
  BY DEF IndexType
<1> HIDE DEF rows
<1>3. one \in [Indices -> Row]
  BY <1>2
<1> HIDE DEF one
<1>4. two \in [Users -> [Indices -> Row]] /\ two[u] = one
      /\ \A v \in Users : v # u => two[v] = rows[d][v]
  BY <1>2, <1>3
<1> HIDE DEF two
<1>5. three \in [Deployments -> [Users -> [Indices -> Row]]] /\ three[d] = two
      /\ \A e \in Deployments : e # d => three[e] = rows[e]
  BY <1>2, <1>4
<1> HIDE DEF three
<1>6. /\ new \in IndexType /\ new.rows = three /\ new.halted = ix.halted
      /\ new.lastLockupIndex = ix.lastLockupIndex
      /\ new.lastLockupIndexProd = ix.lastLockupIndexProd
  BY <1>5 DEF IndexType
<1> HIDE DEF new
<1>7. \A e \in Deployments, v \in Users : LastIndexOf(new, e, v) = LastIndexOf(ix, e, v)
  BY <1>6 DEF LastIndexOf
<1>8. \A e \in Deployments, v \in Users : e # d \/ v # u => new.rows[e][v] = ix.rows[e][v]
  BY <1>4, <1>5, <1>6 DEF rows
<1>9. new.rows[d][u] = [ix.rows[d][u] EXCEPT ![i] = row]
  BY <1>4, <1>5, <1>6 DEF one, rows
<1> QED
  BY <1>1, <1>6, <1>7, <1>8, <1>9 DEF OnlyAt

\* A counter that moves.  The deployments share no counter, as only one of
\* them is not the production one.
LEMMA CounterMoved ==
    ASSUME NEW ix \in IndexType, NEW d \in Deployments, NEW u \in Users, NEW by \in Int
    PROVE  LET new == MoveLastIndex(ix, d, u, by)
           IN  /\ OnlyAt(new, ix, d, u) /\ new.rows = ix.rows
               /\ LastIndexOf(new, d, u) = LastIndexOf(ix, d, u) + by
<1> DEFINE prod == [ix.lastLockupIndexProd EXCEPT ![u] = @ + by]
           rest == [ix.lastLockupIndex EXCEPT ![u] = @ + by]
<1>1. /\ ix.lastLockupIndexProd \in [Users -> Int] /\ ix.lastLockupIndex \in [Users -> Int]
  BY DEF IndexType
<1>2. /\ prod \in [Users -> Int] /\ prod[u] = ix.lastLockupIndexProd[u] + by
      /\ \A v \in Users : v # u => prod[v] = ix.lastLockupIndexProd[v]
      /\ rest \in [Users -> Int] /\ rest[u] = ix.lastLockupIndex[u] + by
      /\ \A v \in Users : v # u => rest[v] = ix.lastLockupIndex[v]
  BY <1>1
<1> HIDE DEF prod, rest
<1>3. CASE d = Production
  <2> DEFINE new == [ix EXCEPT !.lastLockupIndexProd = prod]
  <2>1. MoveLastIndex(ix, d, u, by) = new
    BY <1>3 DEF MoveLastIndex, prod
  <2>2. /\ new \in IndexType /\ new.rows = ix.rows /\ new.halted = ix.halted
        /\ new.lastLockupIndexProd = prod /\ new.lastLockupIndex = ix.lastLockupIndex
    BY <1>2 DEF IndexType
  <2> HIDE DEF new
  <2> QED
    BY <1>2, <1>3, <2>1, <2>2 DEF OnlyAt, LastIndexOf
<1>4. CASE d # Production
  <2> DEFINE new == [ix EXCEPT !.lastLockupIndex = rest]
  <2>1. MoveLastIndex(ix, d, u, by) = new
    BY <1>4 DEF MoveLastIndex, rest
  <2>2. /\ new \in IndexType /\ new.rows = ix.rows /\ new.halted = ix.halted
        /\ new.lastLockupIndex = rest /\ new.lastLockupIndexProd = ix.lastLockupIndexProd
    BY <1>2 DEF IndexType
  <2> HIDE DEF new
  <2>3. \A e \in Deployments : e # Production => e = d
    BY <1>4, ProductionAssumption
  <2> QED
    BY <1>2, <1>4, <2>1, <2>2, <2>3 DEF OnlyAt, LastIndexOf
<1> QED
  BY <1>3, <1>4

\* One change after the other.
LEMMA OnlyAtTwice ==
    ASSUME NEW a, NEW b, NEW c, NEW d \in Deployments, NEW u \in Users,
           OnlyAt(b, a, d, u), OnlyAt(c, b, d, u)
    PROVE  OnlyAt(c, a, d, u)
  BY DEF OnlyAt

---------------------------------------------------------------------------
(* The handlers *)

\* The rows a stake finds: the first one is made for an account without any.
RowsBefore(ix, d, u, i) ==
    IF i # 0 /\ HasNoRows(ix, u)
    THEN [ix.rows[d][u] EXCEPT ![0] = [BlankRow EXCEPT !.lockupEndTime = now]]
    ELSE ix.rows[d][u]

\* A blank row is one.
LEMMA BlankRowType ==
    ASSUME now \in Nat
    PROVE  /\ BlankRow \in Stake /\ [BlankRow EXCEPT !.lockupEndTime = now] \in Stake
           /\ [BlankRow EXCEPT !.lockupEndTime = now]
                 = [amount |-> 0, weightedAmount |-> 0, lockupEndTime |-> now, lockupPeriod |-> 0]
           /\ \A ix \in IndexType, d \in Deployments, u \in Users, i \in Indices :
                 RowAt(ix, d, u, i) \in Stake
  BY DEF BlankRow, Stake, RowAt, IndexType, Row

\* What a stake at index i, stored as row, does to rows and counter.
StakeEffect(new, ix, d, u, i, row) ==
    /\ OnlyAt(new, ix, d, u) /\ row \in Stake
    /\ new.rows[d][u] = [RowsBefore(ix, d, u, i) EXCEPT ![i] = row]
    /\ LastIndexOf(new, d, u) = LastIndexOf(ix, d, u) + LockupsAdded(i)

\* The handler of a stake has that effect.
LEMMA StakeHandled ==
    ASSUME NEW ix \in IndexType, ix.halted = FALSE, NEW d \in Deployments, NEW u \in Users,
           NEW i \in Indices, NEW amount \in Nat, NEW period \in Nat, NEW weighted \in Int,
           now \in Nat
    PROVE  StakeEffect(HandleStaked(ix, d, u, i, amount, period, weighted), ix, d, u, i,
                       StakedRow(ix, d, u, i, amount, period, weighted))
<1> DEFINE row == StakedRow(ix, d, u, i, amount, period, weighted)
           k == LockupsAdded(i)
           counted == MoveLastIndex(ix, d, u, 1)
           prepared == IF i = 0 THEN ix ELSE EnsureNoLockupRow(counted, d, u)
           written == [prepared EXCEPT !.rows[d][u][i] = row]
           new == [written EXCEPT !.summerStaked[d] = @ + amount,
                                  !.amountOfLockedStakes[d] = @ + k]
<1>0. 0 \in Indices
  BY StakeAssumption DEF Indices
<1>1. row \in Stake /\ row \in Row
  <2> DEFINE x == IF i = 0 THEN RowAt(ix, d, u, 0) ELSE BlankRow
  <2>1. x \in Stake
    BY <1>0, BlankRowType
  <2>2. row = [amount |-> x.amount + amount, weightedAmount |-> x.weightedAmount + weighted,
               lockupEndTime |-> now + period, lockupPeriod |-> period]
    BY DEF StakedRow
  <2> HIDE DEF x, row
  <2> QED
    BY <2>1, <2>2 DEF Stake, Row
<1>2. HandleStaked(ix, d, u, i, amount, period, weighted) = new
  BY DEF HandleStaked
<1> HIDE DEF row
<1>3. k \in Int /\ k = IF i = 0 THEN 0 ELSE 1
  BY DEF LockupsAdded
<1>4. /\ OnlyAt(prepared, ix, d, u)
      /\ prepared.rows[d][u] = RowsBefore(ix, d, u, i)
      /\ LastIndexOf(prepared, d, u) = LastIndexOf(ix, d, u) + k
  <2>0. LastIndexOf(ix, d, u) \in Int
    BY DEF LastIndexOf, IndexType
  <2>1. CASE i = 0
    BY <1>3, <2>0, <2>1 DEF OnlyAt, RowsBefore
  <2>2. CASE i # 0
    <3>1. /\ OnlyAt(counted, ix, d, u) /\ counted.rows = ix.rows /\ counted \in IndexType
          /\ LastIndexOf(counted, d, u) = LastIndexOf(ix, d, u) + 1
      BY CounterMoved DEF OnlyAt
    <3>2. HasNoRows(counted, u) <=> HasNoRows(ix, u)
      BY <3>1 DEF HasNoRows
    <3>3. prepared = EnsureNoLockupRow(counted, d, u)
      BY <2>2
    <3> HIDE DEF counted, prepared
    <3>4. CASE HasNoRows(ix, u)
      <4> DEFINE empty == [BlankRow EXCEPT !.lockupEndTime = now]
      <4>1. prepared = [counted EXCEPT !.rows[d][u][0] = empty]
        BY <3>2, <3>3, <3>4 DEF EnsureNoLockupRow
      <4>2. empty \in Row
        BY BlankRowType DEF Row
      <4> HIDE DEF empty
      <4>3. /\ OnlyAt(prepared, counted, d, u)
            /\ prepared.rows[d][u] = [counted.rows[d][u] EXCEPT ![0] = empty]
            /\ LastIndexOf(prepared, d, u) = LastIndexOf(counted, d, u)
        BY <1>0, <3>1, <4>1, <4>2, RowWritten
      <4> QED
        BY <1>3, <2>2, <3>1, <3>4, <4>3, OnlyAtTwice DEF RowsBefore, empty
    <3>5. CASE ~HasNoRows(ix, u)
      BY <1>3, <2>2, <3>1, <3>2, <3>3, <3>5 DEF RowsBefore, EnsureNoLockupRow
    <3> QED
      BY <3>4, <3>5
  <2> QED
    BY <2>1, <2>2
<1> HIDE DEF prepared, k
<1>5. /\ OnlyAt(written, prepared, d, u) /\ written \in IndexType
      /\ written.rows[d][u] = [prepared.rows[d][u] EXCEPT ![i] = row]
      /\ LastIndexOf(written, d, u) = LastIndexOf(prepared, d, u)
  <2>1. prepared \in IndexType
    BY <1>4 DEF OnlyAt
  <2>2. /\ OnlyAt(written, prepared, d, u)
        /\ written.rows[d][u] = [prepared.rows[d][u] EXCEPT ![i] = row]
        /\ LastIndexOf(written, d, u) = LastIndexOf(prepared, d, u)
    BY <1>1, <2>1, RowWritten
  <2> HIDE DEF written
  <2> QED
    BY <2>2 DEF OnlyAt
<1> HIDE DEF written
<1>6. /\ OnlyAt(new, written, d, u) /\ new.rows = written.rows
      /\ LastIndexOf(new, d, u) = LastIndexOf(written, d, u)
  <2> DEFINE staked == [written.summerStaked EXCEPT ![d] = @ + amount]
             locked == [written.amountOfLockedStakes EXCEPT ![d] = @ + k]
  <2>1. staked \in [Deployments -> Int] /\ locked \in [Deployments -> Int]
    BY <1>3, <1>5 DEF IndexType
  <2>2. new = [written EXCEPT !.summerStaked = staked, !.amountOfLockedStakes = locked]
    BY <1>5 DEF IndexType
  <2> HIDE DEF staked, locked
  <2>3. /\ new \in IndexType /\ new.rows = written.rows /\ new.halted = written.halted
        /\ new.lastLockupIndex = written.lastLockupIndex
        /\ new.lastLockupIndexProd = written.lastLockupIndexProd
    BY <1>5, <2>1, <2>2 DEF IndexType
  <2> HIDE DEF new
  <2> QED
    BY <2>3 DEF OnlyAt, LastIndexOf
<1> HIDE DEF new
<1>7. OnlyAt(new, ix, d, u)
  BY <1>4, <1>5, <1>6, OnlyAtTwice
<1> QED
  BY <1>1, <1>2, <1>4, <1>5, <1>6, <1>7 DEF k, row, StakeEffect

\* The rows after a part of a stake has left, or all of it.
RowsAfter(rows, i, last, left) ==
    IF left.amount # 0 \/ i = 0 THEN [rows EXCEPT ![i] = left]
    ELSE IF i = last THEN [rows EXCEPT ![i] = NoRow]
    ELSE [rows EXCEPT ![i] = rows[last], ![last] = NoRow]

\* What is left of a row when a part of it leaves.
RowLeft(row, amount) ==
    [row EXCEPT !.amount = @ - amount,
                !.weightedAmount = @ - (row.weightedAmount * amount) \div row.amount]

\* What an exit from index i that leaves a row does to rows and counter.
ExitEffect(new, ix, d, u, i, left) ==
    /\ OnlyAt(new, ix, d, u) /\ left \in Stake
    /\ new.rows[d][u] = RowsAfter(ix.rows[d][u], i, LastIndexOf(ix, d, u), left)
    /\ LastIndexOf(new, d, u) = LastIndexOf(ix, d, u)
                                   - (IF left.amount = 0 /\ i # 0 THEN 1 ELSE 0)

\* The handler of an exit has that effect, if it divides by zero nowhere and the
\* last row is there.
LEMMA ExitHandled ==
    ASSUME NEW ix \in IndexType, ix.halted = FALSE, NEW d \in Deployments, NEW u \in Users,
           NEW i \in Indices, NEW amount \in Nat, ~DividesByZero(ix, d, u, i, amount),
           amount <= RowAt(ix, d, u, i).amount,
           LastIndexOf(ix, d, u) \in Indices, ix.rows[d][u][LastIndexOf(ix, d, u)] # NoRow
    PROVE  ExitEffect(HandleUnstaked(ix, d, u, i, amount), ix, d, u, i,
                      RowLeft(RowAt(ix, d, u, i), amount))
<1> DEFINE row == RowAt(ix, d, u, i)
           left == [row EXCEPT !.amount = @ - amount,
                               !.weightedAmount =
                                  @ - (row.weightedAmount * amount) \div row.amount]
           last == LastIndexOf(ix, d, u)
           saved == [ix EXCEPT !.rows[d][u][i] = left]
           emptied == left.amount = 0 /\ i # 0
           arranged == IF emptied THEN RemoveRow(saved, d, u, i) ELSE saved
           less == -amount
           fewer == -(IF emptied THEN 1 ELSE 0)
           new == [arranged EXCEPT !.summerStaked[d] = @ + less,
                                   !.amountOfLockedStakes[d] = @ + fewer]
<1>1. row \in Stake /\ row.amount # 0 /\ row.amount >= amount
  <2>1. row \in Stake
    BY BlankRowType DEF Stake, RowAt, IndexType, Row, BlankRow
  <2> QED
    BY <2>1 DEF DividesByZero
<1>2. left \in Stake /\ left \in Row
  <2> DEFINE w == (row.weightedAmount * amount) \div row.amount
  <2>1. w \in Int
    <3>1. row.weightedAmount \in Int /\ row.amount \in Nat \ {0}
      BY <1>1 DEF Stake
    <3>2. row.weightedAmount * amount \in Int
      BY <3>1
    <3> QED
      BY <3>1, <3>2
  <2> HIDE DEF row, w
  <2> DEFINE a == row.amount - amount
             b == row.weightedAmount - w
  <2>2. a \in Nat /\ b \in Int
    BY <1>1, <2>1 DEF Stake
  <2> HIDE DEF a, b
  <2>3. [row EXCEPT !.amount = a, !.weightedAmount = b] \in Stake
    BY <1>1, <2>2 DEF Stake
  <2> USE DEF a, b
  <2>4. [row EXCEPT !.amount = @ - amount, !.weightedAmount = @ - w]
           = [row EXCEPT !.amount = a, !.weightedAmount = b]
    BY <1>1 DEF Stake
  <2> HIDE DEF a, b
  <2> QED
    BY <2>3, <2>4 DEF w, Row
<1>3. LastIndexOf(ix, d, u) \in Int /\ less \in Int /\ fewer \in Int
      /\ ix.rows[d][u] \in [Indices -> Row]
  BY DEF LastIndexOf, IndexType
<1>4. HandleUnstaked(ix, d, u, i, amount) = new
  <2> HIDE DEF left
  <2>1. HandleUnstaked(ix, d, u, i, amount)
          = [arranged EXCEPT !.summerStaked[d] = @ - amount,
                             !.amountOfLockedStakes[d] = @ - (IF emptied THEN 1 ELSE 0)]
    BY DEF HandleUnstaked, left
  <2> QED
    BY <2>1
<1> HIDE DEF left
<1>5. /\ OnlyAt(saved, ix, d, u) /\ saved \in IndexType
      /\ saved.rows[d][u] = [ix.rows[d][u] EXCEPT ![i] = left]
      /\ LastIndexOf(saved, d, u) = last
  <2>1. /\ OnlyAt(saved, ix, d, u)
        /\ saved.rows[d][u] = [ix.rows[d][u] EXCEPT ![i] = left]
        /\ LastIndexOf(saved, d, u) = last
    BY <1>2, RowWritten
  <2> HIDE DEF saved
  <2> QED
    BY <2>1 DEF OnlyAt
<1> HIDE DEF row, saved
<1>6. /\ OnlyAt(arranged, ix, d, u) /\ arranged \in IndexType
      /\ arranged.rows[d][u] = RowsAfter(ix.rows[d][u], i, last, left)
      /\ LastIndexOf(arranged, d, u) = last + fewer
  <2>1. CASE ~emptied
    BY <1>3, <1>5, <2>1 DEF RowsAfter
  <2>2. CASE emptied
    <3> DEFINE counted == MoveLastIndex(saved, d, u, -1)
    <3>1. /\ OnlyAt(counted, saved, d, u) /\ counted.rows = saved.rows /\ counted \in IndexType
          /\ LastIndexOf(counted, d, u) = last - 1
      <4>1. -1 \in Int /\ LastIndexOf(saved, d, u) + (-1) = last - 1
        BY <1>3, <1>5
      <4> QED
        BY <1>5, <4>1, CounterMoved DEF OnlyAt
    <3>2. arranged = RemoveRow(saved, d, u, i)
      BY <2>2
    <3>3. NoRow \in Row
      BY DEF Row
    <3> HIDE DEF counted, arranged
    <3>4. CASE i = last
      <4>1. arranged = [counted EXCEPT !.rows[d][u][i] = NoRow]
        BY <1>5, <3>2, <3>4 DEF RemoveRow, counted
      <4>2. /\ OnlyAt(arranged, counted, d, u)
            /\ arranged.rows[d][u] = [counted.rows[d][u] EXCEPT ![i] = NoRow]
            /\ LastIndexOf(arranged, d, u) = last - 1
        BY <3>1, <3>3, <4>1, RowWritten, SMTT(60)
      <4>3. arranged.rows[d][u] = RowsAfter(ix.rows[d][u], i, last, left)
        BY <1>3, <1>5, <2>2, <3>1, <3>4, <4>2 DEF RowsAfter
      <4>4. OnlyAt(arranged, ix, d, u) /\ arranged \in IndexType
        BY <1>5, <3>1, <4>2, OnlyAtTwice DEF OnlyAt
      <4> QED
        BY <1>3, <2>2, <4>2, <4>3, <4>4
    <3>5. CASE i # last
      <4>1. saved.rows[d][u][last] = ix.rows[d][u][last]
        BY <1>3, <1>5, <3>5
      <4> DEFINE tail == saved.rows[d][u][last]
                 moved == [counted EXCEPT !.rows[d][u][i] = tail]
      <4>2. tail \in Row
        BY <1>3, <4>1
      <4>3. arranged = [moved EXCEPT !.rows[d][u][last] = NoRow]
        BY <1>5, <3>2, <3>5, <4>1 DEF RemoveRow, counted
      <4> HIDE DEF tail
      <4>4. /\ OnlyAt(moved, counted, d, u) /\ moved \in IndexType
            /\ moved.rows[d][u] = [counted.rows[d][u] EXCEPT ![i] = tail]
            /\ LastIndexOf(moved, d, u) = last - 1
        <5>1. /\ OnlyAt(moved, counted, d, u)
              /\ moved.rows[d][u] = [counted.rows[d][u] EXCEPT ![i] = tail]
              /\ LastIndexOf(moved, d, u) = LastIndexOf(counted, d, u)
          BY <3>1, <4>2, RowWritten
        <5> HIDE DEF moved
        <5> QED
          BY <3>1, <5>1 DEF OnlyAt
      <4> HIDE DEF moved
      <4>5. /\ OnlyAt(arranged, moved, d, u)
            /\ arranged.rows[d][u] = [moved.rows[d][u] EXCEPT ![last] = NoRow]
            /\ LastIndexOf(arranged, d, u) = last - 1
        <5> DEFINE gone == [moved EXCEPT !.rows[d][u][last] = NoRow]
        <5>0. last \in Indices
          OBVIOUS
        <5> HIDE DEF last
        <5>1. /\ OnlyAt(gone, moved, d, u)
              /\ gone.rows[d][u] = [moved.rows[d][u] EXCEPT ![last] = NoRow]
              /\ LastIndexOf(gone, d, u) = LastIndexOf(moved, d, u)
          BY <3>3, <4>4, <5>0, RowWritten, SMTT(60)
        <5> HIDE DEF gone
        <5>2. arranged = gone
          BY <4>3 DEF gone
        <5> QED
          BY <4>4, <5>1, <5>2
      <4>6. arranged.rows[d][u] = RowsAfter(ix.rows[d][u], i, last, left)
        <5> DEFINE rows == ix.rows[d][u]
        <5>1. arranged.rows[d][u]
                = [[[rows EXCEPT ![i] = left] EXCEPT ![i] = tail] EXCEPT ![last] = NoRow]
          BY <1>5, <3>1, <4>4, <4>5
        <5>2. tail = rows[last] /\ rows \in [Indices -> Row]
          BY <1>3, <4>1 DEF tail
        <5>3. RowsAfter(rows, i, last, left) = [rows EXCEPT ![i] = rows[last], ![last] = NoRow]
          BY <2>2, <3>5 DEF RowsAfter
        <5> HIDE DEF rows
        <5> QED
          BY <5>1, <5>2, <5>3 DEF rows
      <4>7. OnlyAt(arranged, ix, d, u) /\ arranged \in IndexType
        BY <1>5, <3>1, <4>4, <4>5, OnlyAtTwice DEF OnlyAt
      <4> QED
        BY <1>3, <2>2, <4>5, <4>6, <4>7
    <3> QED
      BY <3>4, <3>5
  <2> QED
    BY <2>1, <2>2
<1> HIDE DEF arranged
<1>7. /\ OnlyAt(new, arranged, d, u) /\ new.rows = arranged.rows
      /\ LastIndexOf(new, d, u) = LastIndexOf(arranged, d, u)
  <2> HIDE DEF less, fewer
  <2> DEFINE staked == [arranged.summerStaked EXCEPT ![d] = @ + less]
             locked == [arranged.amountOfLockedStakes EXCEPT ![d] = @ + fewer]
  <2>1. staked \in [Deployments -> Int] /\ locked \in [Deployments -> Int]
    BY <1>3, <1>6 DEF IndexType
  <2>2. new = [arranged EXCEPT !.summerStaked = staked, !.amountOfLockedStakes = locked]
    BY <1>6 DEF IndexType
  <2> HIDE DEF staked, locked
  <2>3. /\ new \in IndexType /\ new.rows = arranged.rows /\ new.halted = arranged.halted
        /\ new.lastLockupIndex = arranged.lastLockupIndex
        /\ new.lastLockupIndexProd = arranged.lastLockupIndexProd
    BY <1>6, <2>1, <2>2 DEF IndexType
  <2> HIDE DEF new
  <2> QED
    BY <2>3 DEF OnlyAt, LastIndexOf
<1> HIDE DEF new
<1>8. OnlyAt(new, ix, d, u)
  BY <1>6, <1>7, OnlyAtTwice
<1> QED
  BY <1>2, <1>3, <1>4, <1>6, <1>7, <1>8 DEF left, row, ExitEffect, RowLeft

---------------------------------------------------------------------------
(* Portfolios and rows *)

\* The facts about indices the proofs use.
LEMMA IndexFacts ==
    /\ 0 \in Indices /\ Indices \subseteq Nat
    /\ \A i \in Nat : i \in Indices <=> i < MaxStakes
  BY StakeAssumption DEF Indices

\* A stake that holds something has its row.
LEMMA RowThere ==
    ASSUME NEW s \in Portfolio, NEW rows \in [Indices -> Row], Mirrors(rows, s),
           NEW i \in Indices, i < Len(s)
    PROVE  /\ s[i + 1].amount # 0 \/ i # 0 => rows[i] = s[i + 1] /\ rows[i] # NoRow
           /\ rows[i] # NoRow => rows[i] = s[i + 1]
<1>1. i + 1 \in 1..Len(s) /\ s[i + 1] \in Stake
  BY PortfolioFacts, IndexFacts
<1>2. s[i + 1] # NoRow
  BY <1>1, NoRowAssumption DEF Stake
<1>3. \/ rows[i] = s[i + 1]
      \/ i = 0 /\ s[1].amount = 0 /\ s[1].weightedAmount = 0 /\ rows[0] = NoRow
  BY DEF Mirrors
<1>4. i = 0 => i + 1 = 1
  OBVIOUS
<1> QED
  BY <1>2, <1>3, <1>4

\* The preparations of the contract and of the handler agree.
LEMMA MirrorPrepared ==
    ASSUME NEW s \in Portfolio, NEW rows \in [Indices -> Row], Mirrors(rows, s),
           now \in Nat, NEW before, NEW empty \in Stake,
           empty = NewStake(0, 0), empty.amount = 0, empty.weightedAmount = 0,
           \/ before = rows
           \/ s = <<>> /\ before = [rows EXCEPT ![0] = empty]
    PROVE  Mirrors(before, EnsurePortfolio(s)) /\ before \in [Indices -> Row]
<1> DEFINE e == EnsurePortfolio(s)
<1>1. /\ e \in Portfolio /\ (s # <<>> => e = s)
      /\ (s = <<>> => Len(e) = 1 /\ e[1] = empty)
  BY Prepared
<1>2. before \in [Indices -> Row]
  BY IndexFacts DEF Row
<1>3. CASE s # <<>>
  BY <1>1, <1>2, <1>3
<1>4. CASE s = <<>>
  <2>1. \A i \in Indices : rows[i] = NoRow
    BY <1>4, IndexFacts, EmptySeq DEF Mirrors
  <2> HIDE DEF e
  <2>2. Len(e) = 1 /\ e[1] = empty
    BY <1>1, <1>4
  <2>3. \A i \in Indices : i # 0 => before[i] = NoRow /\ ~(i < 1)
    BY <2>1, IndexFacts
  <2>4. before[0] = empty \/ before[0] = NoRow
    BY <2>1, IndexFacts
  <2> QED
    BY <1>2, <2>2, <2>3, <2>4 DEF Mirrors, e
<1> QED
  BY <1>3, <1>4

\* A stake without lockup and its row.
LEMMA MirrorFirst ==
    ASSUME NEW e \in Portfolio, e # <<>>, NEW rows \in [Indices -> Row], Mirrors(rows, e),
           NEW r \in Portfolio, Len(r) = Len(e), \A k \in 2..Len(e) : r[k] = e[k],
           NEW row \in Stake, r[1] = row
    PROVE  Mirrors([rows EXCEPT ![0] = row], r)
<1>1. Len(e) \in Nat \ {0}
  BY PortfolioFacts
<1> SUFFICES ASSUME NEW i \in Indices
             PROVE  IF i < Len(r)
                    THEN [rows EXCEPT ![0] = row][i] = r[i + 1]
                    ELSE [rows EXCEPT ![0] = row][i] = NoRow
  BY DEF Mirrors
<1>2. CASE i = 0
  BY <1>1, <1>2
<1>3. CASE i # 0 /\ i < Len(e)
  <2>1. i + 1 \in 2..Len(e)
    BY <1>1, <1>3, IndexFacts
  <2> QED
    BY <1>3, <2>1 DEF Mirrors
<1>4. CASE ~(i < Len(e))
  BY <1>1, <1>4 DEF Mirrors
<1> QED
  BY <1>2, <1>3, <1>4

\* A lockup that is appended and its row.
LEMMA MirrorAppended ==
    ASSUME NEW e \in Portfolio, e # <<>>, NEW rows \in [Indices -> Row], Mirrors(rows, e),
           NEW r \in Portfolio, Len(r) = Len(e) + 1, \A k \in 1..Len(e) : r[k] = e[k],
           NEW row \in Stake, r[Len(e) + 1] = row, Len(e) \in Indices
    PROVE  Mirrors([rows EXCEPT ![Len(e)] = row], r)
<1>1. Len(e) \in Nat \ {0}
  BY PortfolioFacts
<1> DEFINE n == Len(e)
           new == [rows EXCEPT ![n] = row]
<1>2. new[n] = row /\ \A i \in Indices : i # n => new[i] = rows[i]
  OBVIOUS
<1>3. r[1] = e[1]
  BY <1>1
<1> SUFFICES ASSUME NEW i \in Indices
             PROVE  IF i < Len(r)
                    THEN \/ new[i] = r[i + 1]
                         \/ i = 0 /\ r[1].amount = 0 /\ r[1].weightedAmount = 0
                                  /\ new[0] = NoRow
                    ELSE new[i] = NoRow
  BY DEF Mirrors
<1> HIDE DEF new
<1>4. CASE i = n
  BY <1>1, <1>2, <1>4
<1>5. CASE i < n
  <2>1. r[i + 1] = e[i + 1] /\ i < Len(r) /\ i # n
    BY <1>1, <1>5, IndexFacts
  <2>2. \/ rows[i] = e[i + 1]
        \/ i = 0 /\ e[1].amount = 0 /\ e[1].weightedAmount = 0 /\ rows[0] = NoRow
    BY <1>5 DEF Mirrors
  <2> QED
    BY <1>2, <1>3, <2>1, <2>2
<1>6. CASE i > n
  <2>1. ~(i < Len(r)) /\ ~(i < n) /\ i # n
    BY <1>1, <1>6, IndexFacts
  <2> QED
    BY <1>2, <2>1 DEF Mirrors
<1> QED
  BY <1>1, <1>4, <1>5, <1>6, IndexFacts

\* r is s with the stake of index i replaced.
ReplacedAt(s, i, left, r) ==
    Len(r) = Len(s) /\ \A k \in 1..Len(s) : r[k] = IF k = i + 1 THEN left ELSE s[k]

\* A stake that gives up a part and its row.
LEMMA MirrorReplaced ==
    ASSUME NEW s \in Portfolio, NEW rows \in [Indices -> Row], Mirrors(rows, s),
           NEW i \in Indices, i < Len(s), NEW left \in Stake,
           NEW r \in Portfolio, ReplacedAt(s, i, left, r), NEW new,
           new[i] = left, \A j \in Indices : j # i => new[j] = rows[j]
    PROVE  Mirrors(new, r)
<1>1. /\ Len(s) \in Nat \ {0} /\ i \in Nat /\ Len(r) = Len(s)
      /\ \A k \in 1..Len(s) : r[k] = IF k = i + 1 THEN left ELSE s[k]
  BY PortfolioFacts, IndexFacts DEF ReplacedAt
<1>2. new[i] = left /\ \A j \in Indices : j # i => new[j] = rows[j]
  OBVIOUS
<1> SUFFICES ASSUME NEW j \in Indices
             PROVE  IF j < Len(r)
                    THEN \/ new[j] = r[j + 1]
                         \/ j = 0 /\ r[1].amount = 0 /\ r[1].weightedAmount = 0
                                  /\ new[0] = NoRow
                    ELSE new[j] = NoRow
  BY DEF Mirrors
<1>3. CASE j = i
  BY <1>1, <1>2, <1>3
<1>4. CASE j # i /\ j < Len(s)
  <2>1. r[j + 1] = s[j + 1]
    BY <1>1, <1>4, IndexFacts, SMTT(60)
  <2>2. \/ rows[j] = s[j + 1]
        \/ j = 0 /\ s[1].amount = 0 /\ s[1].weightedAmount = 0 /\ rows[0] = NoRow
    BY <1>4 DEF Mirrors
  <2>3. j = 0 => r[1] = s[1]
    BY <2>1
  <2> QED
    BY <1>1, <1>2, <1>4, <2>1, <2>2, <2>3
<1>5. CASE ~(j < Len(s))
  BY <1>1, <1>2, <1>5 DEF Mirrors
<1> QED
  BY <1>3, <1>4, <1>5

\* A stake that is emptied, and the last one that takes its place, and their
\* rows.
LEMMA MirrorRemoved ==
    ASSUME NEW s \in Portfolio, NEW rows \in [Indices -> Row], Mirrors(rows, s),
           NEW i \in Indices, i # 0, i < Len(s), NEW left \in Stake, left.amount = 0
    PROVE  Mirrors(RowsAfter(rows, i, Len(s) - 1, left), RemoveStake(s, i))
<1>1. Len(s) \in Nat /\ Len(s) > 1 /\ i \in Nat /\ Len(s) <= MaxStakes
  BY PortfolioFacts, IndexFacts
<1> DEFINE n == Len(s)
           r == RemoveStake(s, i)
           new == RowsAfter(rows, i, n - 1, left)
<1>2. /\ r \in Portfolio /\ Len(r) = n - 1
      /\ \A k \in 1..(n - 1) : r[k] = IF k = i + 1 THEN s[n] ELSE s[k]
  BY <1>1, Removed
<1>3. n - 1 \in Indices /\ n - 1 < n /\ (n - 1) + 1 = n
  BY <1>1, IndexFacts, StakeAssumption
<1>4. rows[n - 1] = s[n]
  BY <1>1, <1>3, RowThere
<1>5. /\ new[n - 1] = NoRow /\ (i # n - 1 => new[i] = s[n])
      /\ \A j \in Indices : j # i /\ j # n - 1 => new[j] = rows[j]
  BY <1>3, <1>4 DEF RowsAfter
<1> HIDE DEF new, r
<1> SUFFICES ASSUME NEW j \in Indices
             PROVE  IF j < n - 1
                    THEN \/ new[j] = r[j + 1]
                         \/ j = 0 /\ r[1].amount = 0 /\ r[1].weightedAmount = 0
                                  /\ new[0] = NoRow
                    ELSE new[j] = NoRow
  BY <1>2 DEF Mirrors, new, r
<1>6. CASE j < n - 1
  <2>1. j + 1 \in 1..(n - 1) /\ j # n - 1 /\ j < n /\ j \in Nat
    BY <1>1, <1>6, IndexFacts
  <2>2. CASE j = i
    <3>1. r[j + 1] = s[n]
      BY <1>2, <2>1, <2>2
    <3> QED
      BY <1>5, <1>6, <2>1, <2>2, <3>1
  <2>3. CASE j # i
    <3>1. r[j + 1] = s[j + 1] /\ new[j] = rows[j]
      BY <1>1, <1>2, <1>5, <2>1, <2>3
    <3>2. \/ rows[j] = s[j + 1]
          \/ j = 0 /\ s[1].amount = 0 /\ s[1].weightedAmount = 0 /\ rows[0] = NoRow
      BY <2>1 DEF Mirrors
    <3>3. j = 0 => r[1] = s[1]
      BY <3>1
    <3> QED
      BY <1>6, <3>1, <3>2, <3>3
  <2> QED
    BY <2>2, <2>3
<1>7. CASE ~(j < n - 1)
  <2>1. j = n - 1 \/ (j # n - 1 /\ j # i /\ ~(j < n))
    BY <1>1, <1>7, IndexFacts
  <2>2. ~(j < n) => rows[j] = NoRow
    BY DEF Mirrors
  <2> QED
    BY <1>5, <1>7, <2>1, <2>2
<1> QED
  BY <1>6, <1>7

---------------------------------------------------------------------------
(* The invariant *)

StakingType ==
    /\ scope \in Scopes /\ now \in Nat
    /\ portfolio \in [Deployments -> [Users -> Portfolio]]
    /\ index \in IndexType

\* Rows and counters are those of the portfolios.
Mirrored ==
    \A d \in Deployments, u \in Users :
        /\ Mirrors(index.rows[d][u], portfolio[d][u])
        /\ LastIndexOf(index, d, u) = LastIndexIn(portfolio[d][u])

\* An account that ever staked has its first row somewhere.  The handler makes
\* the row of an empty stake only for an account without any row; had such an
\* account a portfolio, the row would be younger than the stake.
FirstRowKept ==
    \A u \in Users :
        (\E d \in Deployments : portfolio[d][u] # <<>>)
            => \E d \in Deployments : index.rows[d][u][0] # NoRow

\* The inductive invariant.  That an empty portfolio has no rows, and that an
\* unlocked stake without a row weighs nothing, is part of Mirrors: the handler
\* starts such a row from zero.
IndexInv == StakingType /\ (index.halted = FALSE => Mirrored /\ FirstRowKept)

\* A portfolio and its rows change together.
LEMMA PairChanges ==
    ASSUME StakingType, Mirrored, NEW d \in Deployments, NEW u \in Users,
           NEW new \in Portfolio, portfolio' = [portfolio EXCEPT ![d][u] = new],
           OnlyAt(index', index, d, u), Mirrors(index'.rows[d][u], new),
           LastIndexOf(index', d, u) = LastIndexIn(new)
    PROVE  Mirrored' /\ portfolio' \in [Deployments -> [Users -> Portfolio]]
<1>1. portfolio' \in [Deployments -> [Users -> Portfolio]]
  BY DEF StakingType
<1>2. \A e \in Deployments, v \in Users :
         portfolio'[e][v] = IF e = d /\ v = u THEN new ELSE portfolio[e][v]
  BY DEF StakingType
<1>3. ASSUME NEW e \in Deployments, NEW v \in Users
      PROVE  /\ Mirrors(index'.rows[e][v], portfolio'[e][v])
             /\ LastIndexOf(index', e, v) = LastIndexIn(portfolio'[e][v])
  <2>1. CASE e = d /\ v = u
    BY <1>2, <2>1
  <2>2. CASE e # d \/ v # u
    <3>1. portfolio'[e][v] = portfolio[e][v]
      BY <1>2, <2>2
    <3>2. /\ index'.rows[e][v] = index.rows[e][v]
          /\ LastIndexOf(index', e, v) = LastIndexOf(index, e, v)
      BY <2>2 DEF OnlyAt
    <3> QED
      BY <3>1, <3>2 DEF Mirrored
  <2> QED
    BY <2>1, <2>2
<1>4. \A e \in Deployments, v \in Users :
         /\ Mirrors(index'.rows[e][v], portfolio'[e][v])
         /\ LastIndexOf(index', e, v) = LastIndexIn(portfolio'[e][v])
  BY <1>3
<1>5. Mirrored'
  BY <1>4 DEF Mirrored, LastIndexOf
<1> QED
  BY <1>1, <1>5

\* A stake and its handler.
LEMMA StakeStep ==
    ASSUME StakingType, index.halted = FALSE, Mirrored, FirstRowKept,
           NEW d \in Deployments, NEW from, NEW u \in Users, NEW amount \in Nat,
           NEW period \in Nat, IndexedStake(d, from, u, amount, period)
    PROVE  IndexInv'
<1> DEFINE s == portfolio[d][u]
           e == EnsurePortfolio(s)
           r == WithStake(e, amount, period)
           i == IndexOfStake(d, u, period)
           weighted == CalculateWeightedStake(amount, period)
           row == StakedRow(index, d, u, i, amount, period, weighted)
           rows == index.rows[d][u]
           before == RowsBefore(index, d, u, i)
<1>1. /\ s \in Portfolio /\ now \in Nat /\ weighted \in Int /\ index \in IndexType
      /\ rows \in [Indices -> Row] /\ Mirrors(rows, s)
      /\ LastIndexOf(index, d, u) = LastIndexIn(s)
  BY NewStakeType DEF StakingType, Mirrored, IndexType
<1>2. /\ portfolio' = [portfolio EXCEPT ![d][u] = r] /\ now' = now /\ scope' = scope
      /\ period > 0 => Len(e) < MaxStakes
      /\ index' = HandleStaked(index, d, u, i, amount, period, weighted)
  BY DEF IndexedStake, StakeLockup
<1>3. /\ e \in Portfolio /\ e # <<>> /\ Len(e) \in Nat \ {0} /\ (s # <<>> => e = s)
      /\ (s = <<>> => Len(e) = 1 /\ e[1] = NewStake(0, 0))
  BY <1>1, Prepared, PortfolioFacts
<1>4. i \in Indices /\ i = IF period = 0 THEN 0 ELSE Len(e)
  BY <1>2, <1>3, IndexFacts DEF IndexOfStake
<1> DEFINE empty == [BlankRow EXCEPT !.lockupEndTime = now]
<1>5. /\ empty \in Stake /\ empty = NewStake(0, 0)
      /\ empty.amount = 0 /\ empty.weightedAmount = 0
  <2>1. CalculateWeightedStake(0, 0) = 0
    <3>1. 0 * (WeightBase + WeightCoefficient * 0 * 0) = 0
      BY StakeAssumption
    <3>2. 0 \div WeightBase = 0
      BY StakeAssumption
    <3> QED
      BY <3>1, <3>2 DEF CalculateWeightedStake
  <2>2. empty = [amount |-> 0, weightedAmount |-> 0, lockupEndTime |-> now, lockupPeriod |-> 0]
        /\ empty \in Stake
    BY <1>1, BlankRowType
  <2>3. NewStake(0, 0) = [amount |-> 0, weightedAmount |-> 0, lockupEndTime |-> now + 0,
                          lockupPeriod |-> 0]
    BY <2>1 DEF NewStake
  <2>4. now + 0 = now
    BY <1>1
  <2> HIDE DEF empty
  <2> QED
    BY <2>2, <2>3, <2>4
<1>6. HasNoRows(index, u) => s = <<>>
  BY FirstRowKept, IndexFacts DEF HasNoRows, FirstRowKept
<1>7. Mirrors(before, e) /\ before \in [Indices -> Row]
  <2>1. before = rows \/ (s = <<>> /\ before = [rows EXCEPT ![0] = empty])
    BY <1>6 DEF RowsBefore
  <2> HIDE DEF before, empty, rows, s, e
  <2>2. Mirrors(before, EnsurePortfolio(s)) /\ before \in [Indices -> Row]
    BY <1>1, <1>5, <2>1, MirrorPrepared
  <2> QED
    BY <2>2 DEF e
<1>8. /\ OnlyAt(index', index, d, u) /\ row \in Stake
      /\ index'.rows[d][u] = [before EXCEPT ![i] = row]
      /\ LastIndexOf(index', d, u) = LastIndexOf(index, d, u) + LockupsAdded(i)
  <2> DEFINE new == HandleStaked(index, d, u, i, amount, period, weighted)
  <2>1. index \in IndexType /\ i \in Indices /\ weighted \in Int /\ now \in Nat
    BY <1>1, <1>4
  <2> HIDE DEF i, weighted, rows, s
  <2>2. /\ OnlyAt(new, index, d, u) /\ row \in Stake
        /\ new.rows[d][u] = [before EXCEPT ![i] = row]
        /\ LastIndexOf(new, d, u) = LastIndexOf(index, d, u) + LockupsAdded(i)
    <3>1. StakeEffect(new, index, d, u, i, row)
      BY <2>1, StakeHandled
    <3> QED
      BY <3>1 DEF StakeEffect
  <2> HIDE DEF row, before
  <2>3. index' = new
    BY <1>2
  <2> HIDE DEF new
  <2> QED
    BY <2>2, <2>3
<1>9. /\ r \in Portfolio /\ Mirrors(index'.rows[d][u], r)
      /\ LastIndexOf(index', d, u) = LastIndexIn(r)
  <2>1. CASE period = 0
    <3>1. /\ r \in Portfolio /\ Len(r) = Len(e)
          /\ r[1] = [amount |-> e[1].amount + amount,
                     weightedAmount |-> e[1].weightedAmount + weighted,
                     lockupEndTime |-> now, lockupPeriod |-> 0]
          /\ \A k \in 2..Len(e) : r[k] = e[k]
      BY <1>1, <1>3, <2>1, AddedToFirst
    <3>2. LET x == RowAt(index, d, u, 0)
          IN  x.amount = e[1].amount /\ x.weightedAmount = e[1].weightedAmount
      <4>1. CASE rows[0] = NoRow
        <5>1. RowAt(index, d, u, 0) = BlankRow
          BY <4>1 DEF RowAt
        <5>2. e[1].amount = 0 /\ e[1].weightedAmount = 0
          <6>1. CASE s = <<>>
            BY <1>3, <1>5, <6>1
          <6>2. CASE s # <<>>
            <7>1. Len(s) > 0 /\ s = e /\ 0 < Len(s) /\ 0 + 1 = 1 /\ s[1] \in Stake
              BY <1>1, <1>3, <6>2, PortfolioFacts
            <7>2. s[1] # NoRow
              BY <7>1, NoRowAssumption DEF Stake
            <7>3. rows[0] = s[1] \/ (s[1].amount = 0 /\ s[1].weightedAmount = 0)
              BY <1>1, <7>1, IndexFacts DEF Mirrors
            <7> QED
              BY <4>1, <7>1, <7>2, <7>3
          <6> QED
            BY <6>1, <6>2
        <5> QED
          BY <5>1, <5>2 DEF BlankRow
      <4>2. CASE rows[0] # NoRow
        <5>1. RowAt(index, d, u, 0) = rows[0]
          BY <4>2 DEF RowAt
        <5>2. s # <<>> /\ 0 < Len(s) /\ e = s
          <6>1. s # <<>>
            BY <1>1, <4>2, IndexFacts, EmptySeq DEF Mirrors
          <6> QED
            BY <1>1, <1>3, <6>1, PortfolioFacts
        <5>3. rows[0] = s[0 + 1]
          BY <1>1, <4>2, <5>2, RowThere, IndexFacts
        <5> QED
          BY <5>1, <5>2, <5>3
      <4> QED
        BY <4>1, <4>2
    <3>3. row = r[1]
      <4>1. row = [amount |-> RowAt(index, d, u, 0).amount + amount,
                   weightedAmount |-> RowAt(index, d, u, 0).weightedAmount + weighted,
                   lockupEndTime |-> now + period, lockupPeriod |-> period]
        BY <1>4, <2>1 DEF StakedRow
      <4>2. now + period = now
        BY <1>1, <2>1
      <4> HIDE DEF row, r, e, weighted
      <4> QED
        BY <2>1, <3>1, <3>2, <4>1, <4>2
    <3>4. Mirrors(index'.rows[d][u], r)
      <4> HIDE DEF row, r, e, before, i
      <4> QED
        <5>1. Mirrors([before EXCEPT ![0] = row], r)
          BY <1>3, <1>7, <1>8, <3>1, <3>3, MirrorFirst
        <5>2. index'.rows[d][u] = [before EXCEPT ![0] = row]
          BY <1>4, <1>8, <2>1
        <5> QED
          BY <5>1, <5>2
    <3>5. LastIndexOf(index', d, u) = LastIndexIn(r)
      <4>1. LockupsAdded(i) = 0 /\ LastIndexIn(s) = Len(e) - 1 /\ LastIndexIn(r) = Len(r) - 1
        BY <1>3, <1>4, <2>1, <3>1, PortfolioFacts DEF LockupsAdded, LastIndexIn
      <4> QED
        BY <1>1, <1>3, <1>8, <3>1, <4>1
    <3> QED
      BY <3>1, <3>4, <3>5
  <2>2. CASE period > 0
    <3>1. /\ r \in Portfolio /\ Len(r) = Len(e) + 1
          /\ r[Len(e) + 1] = NewStake(amount, period) /\ \A k \in 1..Len(e) : r[k] = e[k]
      BY <1>1, <1>2, <1>3, <2>2, Appended
    <3>2. i = Len(e) /\ i # 0
      BY <1>3, <1>4, <2>2
    <3>3. row = r[Len(e) + 1]
      <4>1. row = [amount |-> 0 + amount, weightedAmount |-> 0 + weighted,
                   lockupEndTime |-> now + period, lockupPeriod |-> period]
        BY <3>2 DEF StakedRow, BlankRow
      <4>2. 0 + amount = amount /\ 0 + weighted = weighted
        BY <1>1
      <4> QED
        BY <3>1, <4>1, <4>2 DEF NewStake
    <3>4. Mirrors(index'.rows[d][u], r)
      <4> HIDE DEF row, r, e, before, i
      <4> QED
        <5>1. Mirrors([before EXCEPT ![Len(e)] = row], r)
          BY <1>3, <1>4, <1>7, <1>8, <3>1, <3>2, <3>3, MirrorAppended
        <5>2. index'.rows[d][u] = [before EXCEPT ![Len(e)] = row]
          BY <1>8, <3>2
        <5> QED
          BY <5>1, <5>2
    <3>5. LastIndexOf(index', d, u) = LastIndexIn(r)
      <4>1. /\ LockupsAdded(i) = 1 /\ LastIndexIn(s) = Len(e) - 1
            /\ LastIndexIn(r) = Len(r) - 1
        BY <1>3, <3>1, <3>2, PortfolioFacts DEF LockupsAdded, LastIndexIn
      <4> QED
        BY <1>1, <1>3, <1>8, <3>1, <4>1
    <3> QED
      BY <3>1, <3>4, <3>5
  <2> QED
    BY <2>1, <2>2
<1>10. Mirrored' /\ portfolio' \in [Deployments -> [Users -> Portfolio]]
  <2> HIDE DEF r
  <2> QED
    BY <1>2, <1>8, <1>9, PairChanges
<1>11. \A v \in Users : (\E f \in Deployments : portfolio'[f][v] # <<>>)
                           => \E f \in Deployments : index'.rows[f][v][0] # NoRow
  <2>0. /\ \A f \in Deployments, v \in Users :
              f # d \/ v # u => /\ index'.rows[f][v] = index.rows[f][v]
                                /\ portfolio'[f][v] = portfolio[f][v]
        /\ index' \in IndexType
    BY <1>2, <1>8 DEF OnlyAt, StakingType
  <2>1. ASSUME NEW v \in Users, v # u, NEW f \in Deployments, portfolio'[f][v] # <<>>
        PROVE  \E g \in Deployments : index'.rows[g][v][0] # NoRow
    BY <2>0, <2>1 DEF FirstRowKept
  <2>2. \E g \in Deployments : index'.rows[g][u][0] # NoRow
    <3>1. CASE i = 0
      <4>1. index'.rows[d][u][0] = row
        BY <1>4, <1>7, <1>8, <3>1
      <4>2. row # NoRow
        BY <1>8, NoRowAssumption DEF Stake
      <4> QED
        BY <4>1, <4>2
    <3>2. CASE i # 0
      <4>1. index'.rows[d][u][0] = before[0]
        BY <1>7, <1>8, <3>2, IndexFacts
      <4>2. CASE HasNoRows(index, u)
        <5>1. before[0] = empty
          BY <1>1, <3>2, <4>2, IndexFacts DEF RowsBefore
        <5>2. empty # NoRow
          BY <1>5, NoRowAssumption DEF Stake
        <5> QED
          BY <4>1, <5>1, <5>2
      <4>3. CASE ~HasNoRows(index, u)
        <5>1. PICK f \in Deployments, j \in Indices : index.rows[f][u][j] # NoRow
          BY <4>3 DEF HasNoRows
        <5>2. portfolio[f][u] # <<>>
          <6>1. Mirrors(index.rows[f][u], portfolio[f][u])
            BY DEF Mirrored
          <6> QED
            BY <5>1, <6>1, IndexFacts, EmptySeq DEF Mirrors
        <5>3. PICK g \in Deployments : index.rows[g][u][0] # NoRow
          BY <5>2 DEF FirstRowKept
        <5>4. before = rows
          BY <4>3 DEF RowsBefore
        <5>5. CASE g = d
          BY <4>1, <5>3, <5>4, <5>5
        <5>6. CASE g # d
          BY <2>0, <5>3, <5>6
        <5> QED
          BY <5>5, <5>6
      <4> QED
        BY <4>2, <4>3
    <3> QED
      BY <3>1, <3>2
  <2> QED
    BY <2>1, <2>2
<1>12. FirstRowKept'
  BY <1>11 DEF FirstRowKept
<1>13. StakingType'
  BY <1>2, <1>8, <1>10 DEF StakingType, OnlyAt
<1> QED
  BY <1>10, <1>12, <1>13 DEF IndexInv

\* The stake an exit leaves behind, and the portfolio.
LEMMA ExitPortfolio ==
    ASSUME StakingType, NEW d \in Deployments, NEW u \in Users, NEW i \in Indices,
           NEW amount \in Nat \ {0}, UnstakeLockup(d, u, i, amount)
    PROVE  LET s == portfolio[d][u]
               left == RowLeft(s[i + 1], amount)
           IN  /\ i < Len(s) /\ s[i + 1].amount >= amount /\ s[i + 1].amount # 0
               /\ left \in Stake /\ now' = now /\ scope' = scope
               /\ \E r \in Portfolio :
                     /\ portfolio' = [portfolio EXCEPT ![d][u] = r]
                     /\ IF left.amount = 0 /\ i # 0 THEN r = RemoveStake(s, i)
                        ELSE /\ Len(r) = Len(s)
                             /\ \A k \in 1..Len(s) : r[k] = IF k = i + 1 THEN left ELSE s[k]
<1> DEFINE s == portfolio[d][u]
           stake == s[i + 1]
           left == RowLeft(stake, amount)
           r == IF left.amount = 0 /\ i # 0 THEN RemoveStake(s, i)
                ELSE [s EXCEPT ![i + 1] = left]
<1>1. /\ i < Len(s) /\ stake.amount >= amount /\ now' = now /\ scope' = scope
  BY DEF UnstakeLockup
<1>2. portfolio' = [portfolio EXCEPT ![d][u] = r]
  BY DEF UnstakeLockup, RowLeft, WeightToRemove
<1>3. s \in Portfolio /\ i + 1 \in 1..Len(s) /\ stake \in Stake /\ i \in Nat
  <2>1. s \in Portfolio /\ i \in Nat
    BY IndexFacts DEF StakingType
  <2> HIDE DEF s
  <2> QED
    BY <1>1, <2>1, PortfolioFacts
<1>4. stake.amount \in Nat \ {0} /\ stake.weightedAmount \in Int
  <2> HIDE DEF stake
  <2> QED
    BY <1>1, <1>3 DEF Stake
<1>5. left \in Stake /\ left.lockupPeriod = stake.lockupPeriod
  <2> DEFINE a == stake.amount - amount
             w == (stake.weightedAmount * amount) \div stake.amount
             b == stake.weightedAmount - w
  <2>1. w \in Int
    <3>1. stake.weightedAmount * amount \in Int
      BY <1>4
    <3> QED
      BY <1>4, <3>1
  <2> HIDE DEF stake, w
  <2>2. a \in Nat /\ b \in Int
    BY <1>1, <1>4, <2>1
  <2>3. left = [stake EXCEPT !.amount = a, !.weightedAmount = b]
    BY <1>3 DEF RowLeft, Stake, w
  <2> HIDE DEF a, b, left
  <2> QED
    BY <1>3, <2>2, <2>3 DEF Stake
<1> HIDE DEF left
<1>6. /\ r \in Portfolio
      /\ IF left.amount = 0 /\ i # 0 THEN r = RemoveStake(s, i)
         ELSE /\ Len(r) = Len(s)
              /\ \A k \in 1..Len(s) : r[k] = IF k = i + 1 THEN left ELSE s[k]
  <2> HIDE DEF s
  <2>1. CASE left.amount = 0 /\ i # 0
    BY <1>1, <1>3, <2>1, Removed
  <2>2. CASE ~(left.amount = 0 /\ i # 0)
    BY <1>3, <1>5, <2>2, Replaced
  <2> QED
    BY <2>1, <2>2
<1> HIDE DEF r
<1> QED
  BY <1>1, <1>2, <1>4, <1>5, <1>6 DEF left

\* Its row is that of the stake, and the counter leads to the last row.
LEMMA ExitedRow ==
    ASSUME StakingType, Mirrored, NEW d \in Deployments, NEW u \in Users, NEW i \in Indices,
           NEW amount \in Nat \ {0}, UnstakeLockup(d, u, i, amount)
    PROVE  LET s == portfolio[d][u]
               rows == index.rows[d][u]
               last == LastIndexOf(index, d, u)
           IN  /\ rows[i] = s[i + 1] /\ rows[i] # NoRow /\ RowAt(index, d, u, i) = s[i + 1]
               /\ last = Len(s) - 1 /\ last \in Indices /\ rows[last] # NoRow
               /\ amount <= RowAt(index, d, u, i).amount
<1> DEFINE s == portfolio[d][u]
           rows == index.rows[d][u]
           last == LastIndexOf(index, d, u)
<1>2. /\ s \in Portfolio /\ index \in IndexType /\ rows \in [Indices -> Row]
      /\ Mirrors(rows, s) /\ last = LastIndexIn(s) /\ now \in Nat
  BY DEF StakingType, Mirrored, IndexType
<1>3. i < Len(s) /\ s[i + 1].amount >= amount
  BY ExitPortfolio
<1>5. rows[i] = s[i + 1] /\ rows[i] # NoRow /\ RowAt(index, d, u, i) = s[i + 1]
  <2>1. rows[i] = s[i + 1] /\ rows[i] # NoRow
    <3> HIDE DEF s, rows
    <3> QED
      BY <1>2, <1>3, RowThere
  <2> QED
    BY <2>1 DEF RowAt
<1>6. last = Len(s) - 1 /\ last \in Indices /\ rows[last] # NoRow
  <2>1. Len(s) \in Nat /\ Len(s) <= MaxStakes /\ i \in Nat /\ s # <<>>
    <3> HIDE DEF s
    <3> QED
      BY <1>2, <1>3, PortfolioFacts, IndexFacts
  <2>2. last = Len(s) - 1
    BY <1>2, <2>1 DEF LastIndexIn
  <2>3. last \in Indices /\ last < Len(s) /\ (i # last => last # 0)
    <3> DEFINE n == Len(s)
    <3>1. n \in Nat /\ n <= MaxStakes /\ i \in Nat /\ i < n /\ last = n - 1
      BY <1>3, <2>1, <2>2
    <3>2. MaxStakes \in Nat
      BY StakeAssumption
    <3> HIDE DEF last, n
    <3>3. last \in Nat /\ last < MaxStakes /\ last < n /\ (i # last => last # 0)
      BY <3>1, <3>2, SMT
    <3>4. last \in Indices
      BY <3>2, <3>3, IndexFacts
    <3> QED
      BY <3>3, <3>4 DEF n
  <2>4. i # last => rows[last] # NoRow
    <3> HIDE DEF last, rows, s
    <3> QED
      BY <1>2, <2>3, RowThere
  <2> QED
    BY <1>5, <2>2, <2>3, <2>4
<1>7. amount <= RowAt(index, d, u, i).amount
  <2>1. s[i + 1] \in Stake
    BY <1>2, <1>3, PortfolioFacts, IndexFacts
  <2> HIDE DEF s
  <2> QED
    BY <1>3, <1>5, <2>1 DEF Stake
<1> QED
  BY <1>5, <1>6, <1>7

\* An exit and its handler.
LEMMA ExitStep ==
    ASSUME StakingType, index.halted = FALSE, Mirrored, FirstRowKept,
           NEW d \in Deployments, NEW u \in Users, NEW i \in Indices,
           NEW amount \in Nat \ {0}, IndexedUnstake(d, u, i, amount),
           ~DividesByZero(index, d, u, i, amount)
    PROVE  IndexInv'
<1> DEFINE s == portfolio[d][u]
           rows == index.rows[d][u]
           last == LastIndexOf(index, d, u)
           left == RowLeft(s[i + 1], amount)
           new == HandleUnstaked(index, d, u, i, amount)
<1>1. index' = new
  BY DEF IndexedUnstake
<1>2. /\ s \in Portfolio /\ index \in IndexType /\ rows \in [Indices -> Row]
      /\ Mirrors(rows, s) /\ last = LastIndexIn(s) /\ now \in Nat
  BY DEF StakingType, Mirrored, IndexType
<1>3. /\ i < Len(s) /\ s[i + 1].amount >= amount /\ s[i + 1].amount # 0
      /\ left \in Stake /\ now' = now /\ scope' = scope
  BY ExitPortfolio DEF IndexedUnstake
<1>4. PICK r \in Portfolio :
         /\ portfolio' = [portfolio EXCEPT ![d][u] = r]
         /\ IF left.amount = 0 /\ i # 0 THEN r = RemoveStake(s, i)
            ELSE /\ Len(r) = Len(s)
                 /\ \A k \in 1..Len(s) : r[k] = IF k = i + 1 THEN left ELSE s[k]
  BY ExitPortfolio DEF IndexedUnstake
<1>5. rows[i] = s[i + 1] /\ rows[i] # NoRow /\ RowAt(index, d, u, i) = s[i + 1]
  BY ExitedRow DEF IndexedUnstake
<1>6. last = Len(s) - 1 /\ last \in Indices /\ rows[last] # NoRow
  BY ExitedRow DEF IndexedUnstake
<1>7. /\ OnlyAt(index', index, d, u)
      /\ index'.rows[d][u] = RowsAfter(rows, i, last, left)
      /\ LastIndexOf(index', d, u) = last - (IF left.amount = 0 /\ i # 0 THEN 1 ELSE 0)
  <2>1. amount <= RowAt(index, d, u, i).amount
    BY ExitedRow DEF IndexedUnstake
  <2>2. ExitEffect(new, index, d, u, i, RowLeft(RowAt(index, d, u, i), amount))
    <3>1. amount \in Nat
      OBVIOUS
    <3> HIDE DEF new
    <3> QED
      BY <1>2, <1>6, <2>1, <3>1, ExitHandled DEF new
  <2>3. ExitEffect(new, index, d, u, i, left)
    BY <1>5, <2>2
  <2> HIDE DEF new, left
  <2> QED
    BY <1>1, <2>3 DEF ExitEffect
<1> HIDE DEF new, left
<1>8. Mirrors(index'.rows[d][u], r) /\ LastIndexOf(index', d, u) = LastIndexIn(r)
  <2> HIDE DEF s, rows
  <2>1. CASE left.amount = 0 /\ i # 0
    <3>1. Mirrors(RowsAfter(rows, i, Len(s) - 1, left), RemoveStake(s, i))
      BY <1>2, <1>3, <2>1, MirrorRemoved
    <3>2. Mirrors(index'.rows[d][u], r)
      BY <1>4, <1>6, <1>7, <2>1, <3>1
    <3>3. r # <<>> /\ Len(r) = Len(s) - 1 /\ Len(s) \in Nat
      BY <1>2, <1>3, <1>4, <2>1, Removed, IndexFacts, PortfolioFacts
    <3> QED
      BY <1>6, <1>7, <2>1, <3>2, <3>3 DEF LastIndexIn
  <2>2. CASE ~(left.amount = 0 /\ i # 0)
    <3>1. RowsAfter(rows, i, last, left) = [rows EXCEPT ![i] = left]
      BY <2>2 DEF RowsAfter
    <3>2. Len(r) = Len(s) /\ \A k \in 1..Len(s) : r[k] = IF k = i + 1 THEN left ELSE s[k]
      BY <1>4, <2>2
    <3>3. Mirrors([rows EXCEPT ![i] = left], r)
      <4>1. /\ s \in Portfolio /\ rows \in [Indices -> Row] /\ Mirrors(rows, s)
            /\ i < Len(s) /\ left \in Stake /\ r \in Portfolio
        BY <1>2, <1>3, <1>4
      <4>2. ReplacedAt(s, i, left, r)
        BY <3>2 DEF ReplacedAt
      <4> DEFINE kept == [rows EXCEPT ![i] = left]
      <4> HIDE DEF s, rows, left
      <4>3. kept[i] = left /\ \A j \in Indices : j # i => kept[j] = rows[j]
        BY <4>1
      <4> HIDE DEF kept
      <4>4. Mirrors(kept, r)
        BY <4>1, <4>2, <4>3, MirrorReplaced
      <4> QED
        BY <4>4 DEF kept
    <3>4. r # <<>> /\ Len(s) \in Nat
      BY <1>2, <1>3, <3>2, PortfolioFacts, IndexFacts
    <3> QED
      BY <1>6, <1>7, <2>2, <3>1, <3>2, <3>3, <3>4 DEF LastIndexIn
  <2> QED
    BY <2>1, <2>2
<1>9. Mirrored' /\ portfolio' \in [Deployments -> [Users -> Portfolio]]
  BY <1>4, <1>7, <1>8, PairChanges
<1>10. \A v \in Users, f \in Deployments :
          index.rows[f][v][0] # NoRow => index'.rows[f][v][0] # NoRow
  <2> TAKE v \in Users, f \in Deployments
  <2>1. CASE f # d \/ v # u
    BY <1>7, <2>1 DEF OnlyAt
  <2>2. CASE f = d /\ v = u
    <3>1. left # NoRow
      BY <1>3, NoRowAssumption DEF Stake
    <3>2. CASE i = 0
      BY <1>2, <1>7, <2>2, <3>1, <3>2, IndexFacts DEF RowsAfter
    <3>3. CASE i # 0
      <4>1. i # last => last # 0
        BY <1>2, <1>3, <1>6, <3>3, PortfolioFacts, IndexFacts
      <4> HIDE DEF last
      <4>2. i = last => last # 0
        BY <3>3
      <4>3. RowsAfter(rows, i, last, left)[0] = rows[0]
        <5> HIDE DEF rows
        <5> QED
          BY <1>2, <3>3, <4>1, <4>2, IndexFacts DEF RowsAfter
      <4> QED
        BY <1>7, <2>2, <4>3
    <3> QED
      BY <3>2, <3>3
  <2> QED
    BY <2>1, <2>2
<1>11. \A v \in Users, f \in Deployments : portfolio'[f][v] # <<>>
          => \E g \in Deployments : portfolio[g][v] # <<>>
  <2>1. \A f \in Deployments, v \in Users : f # d \/ v # u => portfolio'[f][v] = portfolio[f][v]
    BY <1>4 DEF StakingType
  <2>2. portfolio[d][u] # <<>>
    BY <1>2, <1>3, PortfolioFacts, IndexFacts
  <2> QED
    BY <2>1, <2>2
<1>12. FirstRowKept'
  BY <1>10, <1>11 DEF FirstRowKept
<1>13. StakingType'
  BY <1>2, <1>3, <1>7, <1>9 DEF StakingType, OnlyAt
<1> QED
  BY <1>9, <1>12, <1>13 DEF IndexInv

\* The index starts empty, as the portfolios do.
LEMMA InitIndexInv == StakingIndexInit => IndexInv
<1> SUFFICES ASSUME StakingIndexInit PROVE IndexInv
  OBVIOUS
<1>1. /\ scope \in Scopes /\ now = 0 /\ index = EmptyStakingIndex
      /\ portfolio = [d \in Deployments |-> [u \in Users |-> <<>>]]
  BY DEF StakingIndexInit, StakingInit
<1>2. <<>> \in Portfolio /\ Len(<<>>) = 0
  BY StakeAssumption, EmptySeq DEF Portfolio
<1>3. index \in IndexType
  BY <1>1 DEF EmptyStakingIndex, IndexType, Row
<1>4. /\ \A d \in Deployments, u \in Users, i \in Indices : index.rows[d][u][i] = NoRow
      /\ \A d \in Deployments, u \in Users : LastIndexOf(index, d, u) = 0
  BY <1>1 DEF EmptyStakingIndex, LastIndexOf
<1>5. \A d \in Deployments, u \in Users : portfolio[d][u] = <<>>
  BY <1>1
<1>6. Mirrored
  BY <1>2, <1>4, <1>5, IndexFacts DEF Mirrored, Mirrors, LastIndexIn
<1>7. FirstRowKept
  BY <1>5 DEF FirstRowKept
<1>8. StakingType
  BY <1>1, <1>2, <1>3, <1>5 DEF StakingType
<1> QED
  BY <1>6, <1>7, <1>8 DEF IndexInv

\* Every transaction and its handler keep the index in step with the contract.
LEMMA IndexInvStep == IndexInv /\ [StakingIndexNext]_allVars => IndexInv'
<1> SUFFICES ASSUME IndexInv, [StakingIndexNext]_allVars PROVE IndexInv'
  OBVIOUS
<1>1. StakingType /\ scope \in Scopes /\ index.halted \in BOOLEAN
  BY DEF IndexInv, StakingType, IndexType
<1>2. /\ scope.amounts \subseteq Nat \ {0} /\ scope.periods \subseteq Nat
      /\ \A d \in Deployments : scope.stakers[d] \subseteq Users
  BY <1>1, ScopeAssumption, StakeAssumption
<1>3. ASSUME StakingType', index' = index, portfolio' = portfolio PROVE IndexInv'
  BY <1>3 DEF IndexInv, Mirrored, FirstRowKept, LastIndexOf
<1>4. ASSUME NEW d \in Deployments, NEW u \in Users, NEW r \in Portfolio,
             portfolio' = [portfolio EXCEPT ![d][u] = r], now' = now, scope' = scope,
             index' \in IndexType, index'.halted = TRUE
      PROVE  IndexInv'
  <2>1. portfolio' \in [Deployments -> [Users -> Portfolio]]
    BY <1>1, <1>4 DEF StakingType
  <2> QED
    BY <1>1, <1>4, <2>1 DEF IndexInv, StakingType
<1>5. ASSUME NEW d \in Deployments, NEW a \in Nat \ {0}, NEW p \in Nat, NEW from,
             NEW u \in Users, IndexedStake(d, from, u, a, p)
      PROVE  IndexInv'
  <2>1. CASE index.halted = FALSE
    BY <1>1, <1>5, <2>1, StakeStep DEF IndexInv
  <2>2. CASE index.halted = TRUE
    <3> DEFINE e == EnsurePortfolio(portfolio[d][u])
    <3>1. index' = index /\ now' = now /\ scope' = scope /\ (p > 0 => Len(e) < MaxStakes)
          /\ portfolio' = [portfolio EXCEPT ![d][u] = WithStake(e, a, p)]
      BY <1>5, <2>2 DEF IndexedStake, StakeLockup, HandleStaked
    <3>2. e \in Portfolio /\ e # <<>> /\ now \in Nat
      BY <1>1, Prepared DEF StakingType
    <3> HIDE DEF e
    <3>3. WithStake(e, a, p) \in Portfolio
      <4>1. CASE p = 0
        BY <3>2, <4>1, AddedToFirst
      <4>2. CASE p > 0
        BY <3>1, <3>2, <4>2, Appended
      <4> QED
        BY <4>1, <4>2
    <3>4. index' \in IndexType /\ index'.halted = TRUE
      BY <1>1, <2>2, <3>1 DEF StakingType
    <3> QED
      BY <1>4, <3>1, <3>3, <3>4
  <2> QED
    BY <1>1, <2>1, <2>2
<1>6. ASSUME NEW d \in Deployments, NEW a \in Nat \ {0}, NEW i \in Indices, NEW u \in Users,
             IndexedUnstake(d, u, i, a)
      PROVE  IndexInv'
  <2>1. CASE index.halted = FALSE /\ ~DividesByZero(index, d, u, i, a)
    BY <1>1, <1>6, <2>1, ExitStep DEF IndexInv
  <2>2. CASE index.halted = TRUE \/ DividesByZero(index, d, u, i, a)
    <3>1. index' = index \/ index' = Halt(index)
      BY <1>6, <2>2 DEF IndexedUnstake, HandleUnstaked
    <3>2. index.halted = FALSE => index' = Halt(index)
      BY <1>6, <2>2 DEF IndexedUnstake, HandleUnstaked
    <3>3. Halt(index) \in IndexType /\ Halt(index).halted = TRUE
      BY <1>1 DEF StakingType, IndexType, Halt
    <3>4. index' \in IndexType /\ index'.halted = TRUE
      BY <1>1, <3>1, <3>2, <3>3 DEF StakingType
    <3>5. PICK r \in Portfolio : portfolio' = [portfolio EXCEPT ![d][u] = r]
      BY <1>1, <1>6, ExitPortfolio DEF IndexedUnstake
    <3>6. now' = now /\ scope' = scope
      BY <1>6 DEF IndexedUnstake, UnstakeLockup
    <3> QED
      BY <1>4, <3>4, <3>5, <3>6
  <2> QED
    BY <1>1, <2>1, <2>2
<1>7. ASSUME (QuietStep /\ UNCHANGED index) \/ UNCHANGED allVars
      PROVE  IndexInv'
  <2>1. /\ index' = index /\ portfolio' = portfolio /\ scope' = scope
        /\ now' = now \/ now' = now + 1
    BY <1>7 DEF QuietStep, SetAuthorization, BurnOwn, GetReward, GovernanceStep, Tick,
       stakeVars, allVars, stakingVars
  <2>2. StakingType'
    BY <1>1, <2>1 DEF StakingType
  <2> QED
    BY <1>3, <2>1, <2>2
<1> QED
  BY <1>2, <1>5, <1>6, <1>7 DEF StakingIndexNext

\* While it runs, the index holds the stakes of every portfolio at the indices
\* the contract has them, through every order of stakes, partial exits and moves
\* of swap-and-pop, for any numbers of accounts and stakes.
THEOREM PortfoliosMirrored == StakingIndexSpec => []IndexMirrorsPortfolios
<1>1. IndexInv => IndexMirrorsPortfolios
  <2> SUFFICES ASSUME IndexInv, ~index.halted, NEW d \in Deployments, NEW u \in Users
               PROVE  LET stakes == portfolio[d][u] IN
                      /\ \A i \in Indices :
                            IF i < Len(stakes)
                            THEN \/ index.rows[d][u][i] = stakes[i + 1]
                                 \/ i = 0 /\ stakes[1].amount = 0
                                          /\ index.rows[d][u][0] = NoRow
                            ELSE index.rows[d][u][i] = NoRow
                      /\ LastIndexOf(index, d, u)
                            = IF stakes = <<>> THEN 0 ELSE Len(stakes) - 1
    BY DEF IndexMirrorsPortfolios
  <2>1. index.halted = FALSE
    BY DEF IndexInv, StakingType, IndexType
  <2>2. Mirrored
    BY <2>1 DEF IndexInv
  <2> QED
    BY <2>2 DEF Mirrored, Mirrors, LastIndexIn
<1> QED
  BY <1>1, InitIndexInv, IndexInvStep, PTL DEF StakingIndexSpec

---------------------------------------------------------------------------
(* The ledgers, with the index beside them *)

\* The index takes no part in what the contract does.
LEMMA IndexLooksOn == [StakingIndexNext]_allVars => [StakingNext]_stakingVars
<1> SUFFICES ASSUME [StakingIndexNext]_allVars PROVE [StakingNext]_stakingVars
  OBVIOUS
<1>1. ASSUME NEW d \in Deployments, NEW a \in scope.amounts, NEW p \in scope.periods,
             NEW u \in scope.stakers[d], NEW v \in scope.stakers[d], IndexedStake(d, u, v, a, p)
      PROVE  StakingNext
  <2>1. StakeLockup(d, u, v, a, p)
    BY <1>1 DEF IndexedStake
  <2> QED
    BY <2>1 DEF StakingNext
<1>2. ASSUME NEW d \in Deployments, NEW a \in scope.amounts, NEW i \in Indices,
             NEW u \in scope.stakers[d], IndexedUnstake(d, u, i, a)
      PROVE  StakingNext
  <2>1. UnstakeLockup(d, u, i, a) /\ i \in 0..(MaxStakes - 1)
    BY <1>2 DEF IndexedUnstake, Indices
  <2> QED
    BY <2>1 DEF StakingNext
<1>3. CASE QuietStep
  BY <1>3 DEF StakingNext
<1>4. CASE UNCHANGED allVars
  BY <1>4 DEF allVars
<1> QED
  BY <1>1, <1>2, <1>3, <1>4 DEF StakingIndexNext

\* Every behaviour of contract and index is one of the contract.
THEOREM IndexedStakingIsStaking == StakingIndexSpec => StakingSpec
<1>1. StakingIndexInit => StakingInit
  BY DEF StakingIndexInit
<1> QED
  BY <1>1, IndexLooksOn, PTL DEF StakingIndexSpec, StakingSpec

---------------------------------------------------------------------------
(* The totals of the index *)

SameTotals(new, old) ==
    /\ new.summerStaked = old.summerStaked /\ new.halted = old.halted
    /\ new.amountOfLockedStakes = old.amountOfLockedStakes

\* Writing a row, and moving a counter, changes no totals.
LEMMA RowKeepsTotals ==
    ASSUME NEW ix \in IndexType, NEW d \in Deployments, NEW u \in Users, NEW i \in Indices,
           NEW row \in Row
    PROVE  LET new == [ix EXCEPT !.rows[d][u][i] = row]
           IN  new \in IndexType /\ SameTotals(new, ix)
<1> DEFINE new == [ix EXCEPT !.rows[d][u][i] = row]
<1>1. new \in IndexType
  BY RowWritten DEF OnlyAt
<1>2. SameTotals(new, ix)
  BY DEF SameTotals, IndexType
<1> QED
  BY <1>1, <1>2

\* The counter of the last index moves; the totals do not.
LEMMA CounterKeepsTotals ==
    ASSUME NEW ix \in IndexType, NEW d \in Deployments, NEW u \in Users, NEW by \in Int
    PROVE  LET new == MoveLastIndex(ix, d, u, by)
           IN  new \in IndexType /\ SameTotals(new, ix)
<1> DEFINE new == MoveLastIndex(ix, d, u, by)
<1>1. new \in IndexType
  BY CounterMoved DEF OnlyAt
<1>2. SameTotals(new, ix)
  BY DEF SameTotals, IndexType, MoveLastIndex
<1> QED
  BY <1>1, <1>2

\* The totals of one deployment move.
MovesTotals(new, old, d, staked, locked) ==
    /\ new.halted = old.halted
    /\ \A e \in Deployments :
          /\ new.summerStaked[e] = old.summerStaked[e] + (IF e = d THEN staked ELSE 0)
          /\ new.amountOfLockedStakes[e]
                = old.amountOfLockedStakes[e] + (IF e = d THEN locked ELSE 0)

\* What the handlers write into the two totals of a deployment.
LEMMA TotalsWritten ==
    ASSUME NEW ix \in IndexType, NEW d \in Deployments, NEW a \in Int, NEW b \in Int
    PROVE  MovesTotals([ix EXCEPT !.summerStaked[d] = @ + a, !.amountOfLockedStakes[d] = @ + b],
                       ix, d, a, b)
<1> DEFINE new == [ix EXCEPT !.summerStaked[d] = @ + a, !.amountOfLockedStakes[d] = @ + b]
           staked == [ix.summerStaked EXCEPT ![d] = @ + a]
           locked == [ix.amountOfLockedStakes EXCEPT ![d] = @ + b]
<1>1. /\ ix.summerStaked \in [Deployments -> Int]
      /\ ix.amountOfLockedStakes \in [Deployments -> Int]
  BY DEF IndexType
<1>2. new = [ix EXCEPT !.summerStaked = staked, !.amountOfLockedStakes = locked]
  BY DEF IndexType
<1>3. \A e \in Deployments :
         /\ staked[e] = ix.summerStaked[e] + (IF e = d THEN a ELSE 0)
         /\ locked[e] = ix.amountOfLockedStakes[e] + (IF e = d THEN b ELSE 0)
  BY <1>1
<1> HIDE DEF staked, locked
<1>4. /\ new.summerStaked = staked /\ new.amountOfLockedStakes = locked
      /\ new.halted = ix.halted
  BY <1>2 DEF IndexType
<1> HIDE DEF new
<1> QED
  BY <1>3, <1>4 DEF MovesTotals, new

\* What the handler of a stake does to the totals.
LEMMA StakeTotals ==
    ASSUME NEW ix \in IndexType, ix.halted = FALSE, NEW d \in Deployments, NEW u \in Users,
           NEW i \in Indices, NEW amount \in Nat, NEW period \in Nat, NEW weighted \in Int,
           now \in Nat
    PROVE  MovesTotals(HandleStaked(ix, d, u, i, amount, period, weighted), ix, d,
                       amount, LockupsAdded(i))
<1> DEFINE row == StakedRow(ix, d, u, i, amount, period, weighted)
           counted == MoveLastIndex(ix, d, u, 1)
           prepared == IF i = 0 THEN ix ELSE EnsureNoLockupRow(counted, d, u)
           written == [prepared EXCEPT !.rows[d][u][i] = row]
           k == LockupsAdded(i)
           new == [written EXCEPT !.summerStaked[d] = @ + amount,
                                  !.amountOfLockedStakes[d] = @ + k]
<1>1. row \in Row
  BY StakeHandled DEF StakeEffect, Row
<1> HIDE DEF row
<1>2. counted \in IndexType /\ SameTotals(counted, ix)
  BY CounterKeepsTotals
<1> HIDE DEF counted
<1>3. prepared \in IndexType /\ SameTotals(prepared, ix)
  <2> DEFINE empty == [BlankRow EXCEPT !.lockupEndTime = now]
             x == [counted EXCEPT !.rows[d][u][0] = empty]
  <2>1. empty \in Row /\ 0 \in Indices
    BY BlankRowType, IndexFacts DEF Row
  <2> HIDE DEF empty
  <2>2. x \in IndexType /\ SameTotals(x, counted)
    BY <1>2, <2>1, RowKeepsTotals
  <2>3. prepared = ix \/ prepared = counted \/ prepared = x
    BY DEF EnsureNoLockupRow, empty
  <2>4. SameTotals(ix, ix)
    BY DEF SameTotals
  <2> HIDE DEF x, prepared
  <2>5. SameTotals(x, ix)
    BY <1>2, <2>2 DEF SameTotals
  <2> QED
    BY <1>2, <2>2, <2>3, <2>4, <2>5
<1>4. HandleStaked(ix, d, u, i, amount, period, weighted) = new
  BY DEF HandleStaked, row, counted
<1> HIDE DEF prepared
<1>5. written \in IndexType /\ SameTotals(written, prepared)
  BY <1>1, <1>3, RowKeepsTotals
<1>6. k \in Int /\ amount \in Int
  BY DEF LockupsAdded
<1> HIDE DEF written, k
<1>7. MovesTotals(new, written, d, amount, k)
  BY <1>5, <1>6, TotalsWritten
<1> HIDE DEF new
<1> QED
  BY <1>3, <1>4, <1>5, <1>7 DEF SameTotals, MovesTotals, k

\* What the handler of an exit does to them.
LEMMA ExitTotals ==
    ASSUME NEW ix \in IndexType, ix.halted = FALSE, NEW d \in Deployments, NEW u \in Users,
           NEW i \in Indices, NEW amount \in Nat, ~DividesByZero(ix, d, u, i, amount),
           amount <= RowAt(ix, d, u, i).amount,
           LastIndexOf(ix, d, u) \in Indices, ix.rows[d][u][LastIndexOf(ix, d, u)] # NoRow
    PROVE  LET left == RowLeft(RowAt(ix, d, u, i), amount)
           IN  MovesTotals(HandleUnstaked(ix, d, u, i, amount), ix, d, -amount,
                           IF left.amount = 0 /\ i # 0 THEN -1 ELSE 0)
<1> DEFINE left == RowLeft(RowAt(ix, d, u, i), amount)
           saved == [ix EXCEPT !.rows[d][u][i] = left]
           emptied == left.amount = 0 /\ i # 0
           arranged == IF emptied THEN RemoveRow(saved, d, u, i) ELSE saved
           less == -amount
           fewer == IF emptied THEN -1 ELSE 0
           new == [arranged EXCEPT !.summerStaked[d] = @ + less,
                                   !.amountOfLockedStakes[d] = @ + fewer]
<1>1. left \in Row
  BY ExitHandled DEF ExitEffect, Row
<1>2. HandleUnstaked(ix, d, u, i, amount)
        = [arranged EXCEPT !.summerStaked[d] = @ - amount,
                           !.amountOfLockedStakes[d] = @ - (IF emptied THEN 1 ELSE 0)]
  BY DEF HandleUnstaked, RowLeft
<1> HIDE DEF left
<1>3. saved \in IndexType /\ SameTotals(saved, ix)
  BY <1>1, RowKeepsTotals
<1> HIDE DEF saved
<1>4. arranged \in IndexType /\ SameTotals(arranged, saved)
  <2> DEFINE last == LastIndexOf(saved, d, u)
             counted == MoveLastIndex(saved, d, u, -1)
             x == [counted EXCEPT !.rows[d][u][i] = NoRow]
             tail == saved.rows[d][u][last]
             y == [counted EXCEPT !.rows[d][u][i] = tail]
             z == [y EXCEPT !.rows[d][u][last] = NoRow]
  <2>1. counted \in IndexType /\ SameTotals(counted, saved)
    BY <1>3, CounterKeepsTotals
  <2>2. NoRow \in Row
    BY DEF Row
  <2>3. \/ arranged = saved \/ arranged = x \/ arranged = counted
        \/ last \in Indices /\ arranged = z
    <3>1. CASE ~emptied
      BY <3>1
    <3>2. CASE emptied
      <4>1. arranged = RemoveRow(saved, d, u, i)
        BY <3>2
      <4>2. [counted EXCEPT !.rows[d][u][i] = tail, !.rows[d][u][last] = NoRow] = z
        OBVIOUS
      <4> HIDE DEF arranged, z
      <4> QED
        BY <4>1, <4>2 DEF RemoveRow
    <3> QED
      BY <3>1, <3>2
  <2> HIDE DEF counted, arranged
  <2>4. x \in IndexType /\ SameTotals(x, counted)
    BY <2>1, <2>2, RowKeepsTotals
  <2>5. ASSUME last \in Indices PROVE z \in IndexType /\ SameTotals(z, counted)
    <3>1. tail \in Row
      BY <1>3, <2>5 DEF IndexType
    <3> HIDE DEF tail, last
    <3>2. y \in IndexType /\ SameTotals(y, counted)
      BY <2>1, <3>1, RowKeepsTotals
    <3> HIDE DEF y
    <3>3. z \in IndexType /\ SameTotals(z, y)
      BY <2>2, <2>5, <3>2, RowKeepsTotals
    <3> HIDE DEF z
    <3> QED
      BY <3>2, <3>3 DEF SameTotals
  <2> HIDE DEF x, z, last
  <2> QED
    BY <1>3, <2>1, <2>3, <2>4, <2>5 DEF SameTotals
<1> HIDE DEF arranged
<1>5. less \in Int /\ fewer \in Int
  OBVIOUS
<1>6. HandleUnstaked(ix, d, u, i, amount) = new
  <2>1. /\ arranged.summerStaked[d] \in Int /\ arranged.amountOfLockedStakes[d] \in Int
    BY <1>4 DEF IndexType
  <2>2. /\ arranged.summerStaked[d] - amount = arranged.summerStaked[d] + less
        /\ arranged.amountOfLockedStakes[d] - (IF emptied THEN 1 ELSE 0)
              = arranged.amountOfLockedStakes[d] + fewer
    BY <2>1
  <2> HIDE DEF less, fewer, emptied
  <2> QED
    BY <1>2, <2>2
<1> HIDE DEF less, fewer
<1>7. MovesTotals(new, arranged, d, less, fewer)
  BY <1>4, <1>5, TotalsWritten
<1> HIDE DEF new
<1>8. MovesTotals(new, ix, d, less, fewer)
  BY <1>3, <1>4, <1>7 DEF SameTotals, MovesTotals
<1> QED
  BY <1>6, <1>8 DEF less, fewer, emptied, left

---------------------------------------------------------------------------
(* The lockups of a deployment *)

\* There are finitely many.
LEMMA LockedFinite ==
    ASSUME NEW d
    PROVE  IsFiniteSet(Locked(d)) /\ Cardinality(Locked(d)) \in Nat
<1> DEFINE All == Users \X Indices
<1>1. IsFiniteSet(Indices)
  <2>1. 0 \in Int /\ MaxStakes - 1 \in Int
    BY StakeAssumption
  <2> QED
    BY <2>1, FS_Interval DEF Indices
<1>2. IsFiniteSet(All)
  BY <1>1, ScopeAssumption, FS_Product
<1>3. Locked(d) \in SUBSET All
  BY DEF Locked
<1> HIDE DEF All
<1>4. IsFiniteSet(Locked(d))
  BY <1>2, <1>3, FS_Subset
<1> QED
  BY <1>4, FS_CardinalityType

\* Which pairs are lockups.
LEMMA LockedPairs ==
    ASSUME NEW d, NEW v \in Users, NEW j \in Indices
    PROVE  /\ <<v, j>> \in Locked(d) <=> j # 0 /\ j < Len(portfolio[d][v])
           /\ (<<v, j>> \in Locked(d)') <=> j # 0 /\ j < Len(portfolio'[d][v])
  BY DEF Locked

\* When one portfolio changes, only its own lockups come and go.
LEMMA LockedElsewhere ==
    ASSUME NEW d \in Deployments, NEW u \in Users, NEW r,
           portfolio \in [Deployments -> [Users -> Portfolio]],
           portfolio' = [portfolio EXCEPT ![d][u] = r]
    PROVE  /\ \A e \in Deployments : e # d => Locked(e)' = Locked(e)
           /\ \A v \in Users : v # u => portfolio'[d][v] = portfolio[d][v]
           /\ portfolio'[d][u] = r
<1>1. \A e \in Deployments, v \in Users :
         portfolio'[e][v] = IF e = d /\ v = u THEN r ELSE portfolio[e][v]
  OBVIOUS
<1> QED
  BY <1>1 DEF Locked

\* A pair is a lockup of a portfolio that is longer than its index.
LockupIn(n, k) == k # 0 /\ k < n

\* The lengths tell how they do.
LEMMA LockedSame ==
    ASSUME NEW d \in Deployments, NEW u \in Users, NEW r,
           portfolio \in [Deployments -> [Users -> Portfolio]],
           portfolio' = [portfolio EXCEPT ![d][u] = r],
           \A k \in Indices : LockupIn(Len(r), k) <=> LockupIn(Len(portfolio[d][u]), k)
    PROVE  Locked(d)' = Locked(d)
<1>1. ASSUME NEW v \in Users, NEW k \in Indices
      PROVE  (<<v, k>> \in Locked(d)') <=> <<v, k>> \in Locked(d)
  BY LockedElsewhere, LockedPairs DEF LockupIn
<1> QED
  BY <1>1 DEF Locked

\* A portfolio with one lockup more adds one pair.
LEMMA LockedMore ==
    ASSUME NEW d \in Deployments, NEW u \in Users, NEW r, NEW j \in Indices,
           portfolio \in [Deployments -> [Users -> Portfolio]],
           portfolio' = [portfolio EXCEPT ![d][u] = r],
           \A k \in Indices :
              LockupIn(Len(r), k) <=> LockupIn(Len(portfolio[d][u]), k) \/ k = j
    PROVE  Locked(d)' = Locked(d) \cup {<<u, j>>}
<1>1. ASSUME NEW v \in Users, NEW k \in Indices
      PROVE  (<<v, k>> \in Locked(d)') <=> <<v, k>> \in Locked(d) \/ (v = u /\ k = j)
  BY LockedElsewhere, LockedPairs DEF LockupIn
<1>2. \A p \in Users \X Indices : p \in Locked(d)' <=> p \in Locked(d) \/ p = <<u, j>>
  BY <1>1
<1>3. Locked(d)' \subseteq Users \X Indices /\ Locked(d) \subseteq Users \X Indices
  BY DEF Locked
<1>4. <<u, j>> \in Users \X Indices
  OBVIOUS
<1> QED
  BY <1>2, <1>3, <1>4

\* A portfolio with one lockup less takes one pair away.
LEMMA LockedLess ==
    ASSUME NEW d \in Deployments, NEW u \in Users, NEW r, NEW j \in Indices,
           portfolio \in [Deployments -> [Users -> Portfolio]],
           portfolio' = [portfolio EXCEPT ![d][u] = r],
           \A k \in Indices :
              LockupIn(Len(r), k) <=> LockupIn(Len(portfolio[d][u]), k) /\ k # j
    PROVE  Locked(d)' = Locked(d) \ {<<u, j>>}
<1>1. ASSUME NEW v \in Users, NEW k \in Indices
      PROVE  (<<v, k>> \in Locked(d)') <=> <<v, k>> \in Locked(d) /\ ~(v = u /\ k = j)
  BY LockedElsewhere, LockedPairs DEF LockupIn
<1>2. \A p \in Users \X Indices : p \in Locked(d)' <=> p \in Locked(d) /\ p # <<u, j>>
  BY <1>1
<1>3. Locked(d)' \subseteq Users \X Indices /\ Locked(d) \subseteq Users \X Indices
  BY DEF Locked
<1> QED
  BY <1>2, <1>3

\* A stake without lockup adds none, any other one at the index of its event.
LEMMA StakeLocks ==
    ASSUME StakeTypes, NEW d \in Deployments, NEW from, NEW u \in Users,
           NEW amount \in Nat \ {0}, NEW period \in Nat,
           StakeLockup(d, from, u, amount, period)
    PROVE  LET j == IndexOfStake(d, u, period)
           IN  /\ j \in Indices /\ \A e \in Deployments : e # d => Locked(e)' = Locked(e)
               /\ period = 0 => j = 0 /\ Locked(d)' = Locked(d)
               /\ period > 0 => /\ j # 0 /\ <<u, j>> \notin Locked(d)
                                /\ Locked(d)' = Locked(d) \cup {<<u, j>>}
<1> DEFINE s == portfolio[d][u]
           e == EnsurePortfolio(s)
           r == WithStake(e, amount, period)
           j == IndexOfStake(d, u, period)
<1>1. /\ s \in Portfolio /\ now \in Nat /\ portfolio \in [Deployments -> [Users -> Portfolio]]
  BY DEF StakeTypes
<1>2. portfolio' = [portfolio EXCEPT ![d][u] = r] /\ (period > 0 => Len(e) < MaxStakes)
  BY DEF StakeLockup
<1>3. e \in Portfolio /\ e # <<>> /\ (s # <<>> => e = s) /\ (s = <<>> => Len(e) = 1)
  BY <1>1, Prepared
<1>4. Len(e) \in Nat \ {0} /\ Len(s) \in Nat /\ (s = <<>> => Len(s) = 0)
  <2> HIDE DEF e, s
  <2> QED
    BY <1>1, <1>3, PortfolioFacts
<1>5. \A k \in Indices : LockupIn(Len(e), k) <=> LockupIn(Len(s), k)
  <2> TAKE k \in Indices
  <2> DEFINE n == Len(e)
             m == Len(s)
  <2>1. k \in Nat /\ n \in Nat /\ m \in Nat /\ (n = m \/ (n = 1 /\ m = 0))
    BY <1>3, <1>4, IndexFacts
  <2> HIDE DEF n, m
  <2>2. LockupIn(n, k) <=> LockupIn(m, k)
    BY <2>1 DEF LockupIn
  <2> QED
    BY <2>2 DEF n, m
<1>6. j = IF period = 0 THEN 0 ELSE Len(e)
  BY DEF IndexOfStake
<1>e. \A f \in Deployments : f # d => Locked(f)' = Locked(f)
  <2> HIDE DEF r
  <2> QED
    BY <1>1, <1>2, LockedElsewhere
<1>7. CASE period = 0
  <2>1. Len(r) = Len(e)
    BY <1>1, <1>3, <1>7, AddedToFirst
  <2>2. j = 0 /\ 0 \in Indices
    BY <1>6, <1>7, IndexFacts
  <2>3. \A k \in Indices : LockupIn(Len(r), k) <=> LockupIn(Len(s), k)
    BY <1>5, <2>1
  <2> HIDE DEF r, j
  <2>4. Locked(d)' = Locked(d)
    BY <1>1, <1>2, <2>3, LockedSame
  <2>5. ~(period > 0)
    BY <1>7
  <2> QED
    BY <1>7, <1>e, <2>2, <2>4, <2>5, Zenon DEF j
<1>8. CASE period > 0
  <2>1. j = Len(e) /\ j \in Indices /\ j # 0
    BY <1>2, <1>4, <1>6, <1>8, IndexFacts
  <2>2. Len(r) = Len(e) + 1
    BY <1>1, <1>2, <1>3, <1>8, Appended
  <2>3. \A k \in Indices : LockupIn(Len(r), k) <=> LockupIn(Len(s), k) \/ k = j
    <3> TAKE k \in Indices
    <3> DEFINE n == Len(e)
    <3>1. n \in Nat \ {0} /\ k \in Nat /\ Len(r) = n + 1 /\ j = n
      BY <1>4, <2>1, <2>2, IndexFacts
    <3> HIDE DEF n, r, j
    <3>2. LockupIn(n + 1, k) <=> LockupIn(n, k) \/ k = n
      BY <3>1 DEF LockupIn
    <3> QED
      BY <1>5, <3>1, <3>2 DEF n
  <2>4. ~(j < Len(s))
    <3>1. LockupIn(Len(e), j) <=> LockupIn(Len(s), j)
      BY <1>5, <2>1
    <3>2. ~(Len(e) < Len(e))
      <4> DEFINE n == Len(e)
      <4>1. n \in Nat
        BY <1>4
      <4> HIDE DEF n
      <4>2. ~(n < n)
        BY <4>1
      <4> QED
        BY <4>2 DEF n
    <3> QED
      BY <2>1, <3>1, <3>2 DEF LockupIn
  <2>5. <<u, j>> \notin Locked(d)
    BY <2>1, <2>4, LockedPairs
  <2> HIDE DEF r, j
  <2>6. Locked(d)' = Locked(d) \cup {<<u, j>>}
    BY <1>1, <1>2, <2>1, <2>3, LockedMore
  <2>7. period # 0
    BY <1>8
  <2> QED
    BY <1>8, <1>e, <2>1, <2>5, <2>6, <2>7, Zenon DEF j
<1> QED
  BY <1>7, <1>8

\* The exit that empties a lockup takes one, any other none.
LEMMA ExitUnlocks ==
    ASSUME StakingType, NEW d \in Deployments, NEW u \in Users, NEW i \in Indices,
           NEW amount \in Nat \ {0}, UnstakeLockup(d, u, i, amount)
    PROVE  LET s == portfolio[d][u]
               left == RowLeft(s[i + 1], amount)
               emptied == left.amount = 0 /\ i # 0
               last == Len(s) - 1
           IN  /\ \A e \in Deployments : e # d => Locked(e)' = Locked(e)
               /\ i # 0 => <<u, i>> \in Locked(d)
               /\ ~emptied => Locked(d)' = Locked(d)
               /\ emptied => /\ <<u, last>> \in Locked(d)
                             /\ Locked(d)' = Locked(d) \ {<<u, last>>}
<1> DEFINE s == portfolio[d][u]
           left == RowLeft(s[i + 1], amount)
           emptied == left.amount = 0 /\ i # 0
           n == Len(s)
           last == n - 1
<1>1. PICK r \in Portfolio :
         /\ portfolio' = [portfolio EXCEPT ![d][u] = r]
         /\ IF left.amount = 0 /\ i # 0 THEN r = RemoveStake(s, i)
            ELSE /\ Len(r) = Len(s)
                 /\ \A k \in 1..Len(s) : r[k] = IF k = i + 1 THEN left ELSE s[k]
  BY ExitPortfolio
<1>2. i < n /\ s \in Portfolio /\ portfolio \in [Deployments -> [Users -> Portfolio]]
  BY ExitPortfolio DEF StakingType
<1>3. n \in Nat /\ n <= MaxStakes /\ i \in Nat /\ \A k \in Indices : k \in Nat
  <2> HIDE DEF s
  <2> QED
    BY <1>2, PortfolioFacts, IndexFacts
<1>4. i # 0 => <<u, i>> \in Locked(d)
  BY <1>2, LockedPairs
<1>e. \A f \in Deployments : f # d => Locked(f)' = Locked(f)
  BY <1>1, <1>2, LockedElsewhere
<1>5. CASE ~emptied
  <2>1. Len(r) = n
    BY <1>1, <1>5
  <2>2. \A k \in Indices : LockupIn(Len(r), k) <=> LockupIn(Len(s), k)
    BY <2>1
  <2>3. Locked(d)' = Locked(d)
    BY <1>1, <1>2, <2>2, LockedSame
  <2> QED
    BY <1>4, <1>5, <1>e, <2>3
<1>6. CASE emptied
  <2>1. r = RemoveStake(s, i)
    BY <1>1, <1>6
  <2>2. Len(r) = n - 1
    <3>1. i # 0
      BY <1>6
    <3> HIDE DEF s
    <3> QED
      BY <1>2, <1>3, <2>1, <3>1, Removed
  <2>3. last \in Indices /\ last # 0 /\ last < n
    <3>1. MaxStakes \in Nat /\ i # 0
      BY <1>6, StakeAssumption
    <3> HIDE DEF n
    <3>2. last \in Nat /\ last < MaxStakes /\ last # 0 /\ last < n
      BY <1>2, <1>3, <3>1
    <3> QED
      BY <3>1, <3>2, IndexFacts
  <2>4. \A k \in Indices : LockupIn(Len(r), k) <=> LockupIn(Len(s), k) /\ k # last
    <3> TAKE k \in Indices
    <3>1. k \in Nat
      BY <1>3
    <3>2. LockupIn(n - 1, k) <=> LockupIn(n, k) /\ k # n - 1
      <4> HIDE DEF n
      <4> QED
        BY <1>3, <3>1 DEF LockupIn
    <3> QED
      BY <2>2, <3>2
  <2>5. <<u, last>> \in Locked(d)
    BY <2>3, LockedPairs
  <2> HIDE DEF last
  <2>6. Locked(d)' = Locked(d) \ {<<u, last>>}
    BY <1>1, <1>2, <2>3, <2>4, LockedLess
  <2> QED
    BY <1>4, <1>6, <1>e, <2>5, <2>6 DEF last
<1> QED
  BY <1>5, <1>6

---------------------------------------------------------------------------
(* The totals and the lockups *)

\* What the index counts in each deployment, while it runs.  Together with the
\* invariants of the index and of the ledgers it is inductive.
Counted ==
    \A d \in Deployments :
        /\ index.summerStaked[d] = wrapped[d]
        /\ index.amountOfLockedStakes[d] = Cardinality(Locked(d))

TotalsInv == IndexInv /\ StakeInv /\ (index.halted = FALSE => Counted)

\* The totals of one deployment move as what they count does.
LEMMA CountedMoves ==
    ASSUME TotalsInv, Counted, NEW d \in Deployments, NEW a \in Int, NEW k \in Int,
           MovesTotals(index', index, d, a, k), wrapped' = [wrapped EXCEPT ![d] = @ + a],
           \A e \in Deployments : e # d => Locked(e)' = Locked(e),
           Cardinality(Locked(d)') = Cardinality(Locked(d)) + k
    PROVE  Counted'
<1>1. ASSUME NEW e \in Deployments
      PROVE  /\ index'.summerStaked[e] = wrapped'[e]
             /\ index'.amountOfLockedStakes[e] = Cardinality(Locked(e)')
  <2>1. /\ index'.summerStaked[e] = index.summerStaked[e] + (IF e = d THEN a ELSE 0)
        /\ index'.amountOfLockedStakes[e]
              = index.amountOfLockedStakes[e] + (IF e = d THEN k ELSE 0)
    BY DEF MovesTotals
  <2>2. /\ index.summerStaked[e] = wrapped[e] /\ wrapped[e] \in Int
        /\ index.amountOfLockedStakes[e] = Cardinality(Locked(e))
    BY DEF Counted, TotalsInv, StakeInv, StakeTypes
  <2>3. wrapped'[e] = wrapped[e] + (IF e = d THEN a ELSE 0)
    BY <2>2 DEF TotalsInv, StakeInv, StakeTypes
  <2>4. Cardinality(Locked(e)) \in Nat
    BY LockedFinite
  <2>5. Cardinality(Locked(e)') = Cardinality(Locked(e)) + (IF e = d THEN k ELSE 0)
    <3>1. CASE e = d
      BY <3>1
    <3>2. CASE e # d
      BY <2>4, <3>2
    <3> QED
      BY <3>1, <3>2
  <2> QED
    BY <2>1, <2>2, <2>3, <2>5
<1>2. \A e \in Deployments :
         /\ index'.summerStaked[e] = wrapped'[e]
         /\ index'.amountOfLockedStakes[e] = Cardinality(Locked(e)')
  BY <1>1
<1> QED
  BY <1>2 DEF Counted, Locked

\* A stake is counted.
LEMMA StakeCounted ==
    ASSUME TotalsInv, Counted, index.halted = FALSE, NEW d \in Deployments, NEW from,
           NEW u \in Users, NEW amount \in Nat \ {0}, NEW period \in Nat,
           IndexedStake(d, from, u, amount, period)
    PROVE  Counted'
<1> DEFINE j == IndexOfStake(d, u, period)
           k == LockupsAdded(j)
           w == CalculateWeightedStake(amount, period)
<1>1. index' = HandleStaked(index, d, u, j, amount, period, w)
  BY DEF IndexedStake
<1>2. StakeLockup(d, from, u, amount, period) /\ StakeTypes /\ index \in IndexType /\ now \in Nat
  BY DEF IndexedStake, TotalsInv, StakeInv, IndexInv, StakingType
<1>3. wrapped' = [wrapped EXCEPT ![d] = @ + amount]
  BY <1>2 DEF StakeLockup
<1>4. /\ j \in Indices /\ \A e \in Deployments : e # d => Locked(e)' = Locked(e)
      /\ period = 0 => j = 0 /\ Locked(d)' = Locked(d)
      /\ period > 0 => /\ j # 0 /\ <<u, j>> \notin Locked(d)
                       /\ Locked(d)' = Locked(d) \cup {<<u, j>>}
  BY <1>2, StakeLocks
<1>5. w \in Int
  BY <1>2, WeightOf
<1> HIDE DEF j, w
<1>6. MovesTotals(index', index, d, amount, k)
  BY <1>1, <1>2, <1>4, <1>5, StakeTotals
<1>7. Cardinality(Locked(d)') = Cardinality(Locked(d)) + k
  <2>1. IsFiniteSet(Locked(d)) /\ Cardinality(Locked(d)) \in Nat
    BY LockedFinite
  <2>2. CASE period = 0
    BY <1>4, <2>1, <2>2 DEF LockupsAdded
  <2>3. CASE period > 0
    <3>1. Cardinality(Locked(d) \cup {<<u, j>>}) = Cardinality(Locked(d)) + 1
      BY <1>4, <2>1, <2>3, FS_AddElement
    <3> QED
      BY <1>4, <2>3, <3>1 DEF LockupsAdded
  <2> QED
    BY <2>2, <2>3
<1>8. amount \in Int /\ k \in Int
  BY DEF LockupsAdded
<1> HIDE DEF k
<1> QED
  BY <1>3, <1>4, <1>6, <1>7, <1>8, CountedMoves

\* So is an exit, unless the handler stops.
LEMMA ExitCounted ==
    ASSUME TotalsInv, Counted, index.halted = FALSE, NEW d \in Deployments, NEW u \in Users,
           NEW i \in Indices, NEW amount \in Nat \ {0}, IndexedUnstake(d, u, i, amount),
           ~DividesByZero(index, d, u, i, amount)
    PROVE  Counted'
<1> DEFINE s == portfolio[d][u]
           left == RowLeft(s[i + 1], amount)
           emptied == left.amount = 0 /\ i # 0
           last == Len(s) - 1
           less == -amount
           k == IF emptied THEN -1 ELSE 0
<1>1. index' = HandleUnstaked(index, d, u, i, amount)
  BY DEF IndexedUnstake
<1>2. /\ UnstakeLockup(d, u, i, amount) /\ StakingType /\ index \in IndexType /\ Mirrored
      /\ wrapped \in [Deployments -> Int]
  BY DEF IndexedUnstake, TotalsInv, StakeInv, StakeTypes, IndexInv, StakingType
<1>3. /\ RowAt(index, d, u, i) = s[i + 1] /\ amount <= RowAt(index, d, u, i).amount
      /\ LastIndexOf(index, d, u) \in Indices
      /\ index.rows[d][u][LastIndexOf(index, d, u)] # NoRow
  BY <1>2, ExitedRow
<1>4. MovesTotals(index', index, d, less, k)
  <2>1. amount \in Nat
    OBVIOUS
  <2>2. LET row == RowLeft(RowAt(index, d, u, i), amount)
        IN  MovesTotals(index', index, d, -amount, IF row.amount = 0 /\ i # 0 THEN -1 ELSE 0)
    BY <1>1, <1>2, <1>3, <2>1, ExitTotals
  <2> QED
    BY <1>3, <2>2
<1>5. /\ \A e \in Deployments : e # d => Locked(e)' = Locked(e)
      /\ ~emptied => Locked(d)' = Locked(d)
      /\ emptied => /\ <<u, last>> \in Locked(d)
                    /\ Locked(d)' = Locked(d) \ {<<u, last>>}
  BY <1>2, ExitUnlocks
<1> HIDE DEF emptied, last
<1>6. Cardinality(Locked(d)') = Cardinality(Locked(d)) + k
  <2>1. IsFiniteSet(Locked(d)) /\ Cardinality(Locked(d)) \in Nat
    BY LockedFinite
  <2>2. CASE ~emptied
    BY <1>5, <2>1, <2>2
  <2>3. CASE emptied
    <3>1. Cardinality(Locked(d) \ {<<u, last>>}) = Cardinality(Locked(d)) - 1
      BY <1>5, <2>1, <2>3, FS_RemoveElement
    <3> QED
      BY <1>5, <2>1, <2>3, <3>1
  <2> QED
    BY <2>2, <2>3
<1>7. wrapped' = [wrapped EXCEPT ![d] = @ + less]
  <2>1. wrapped' = [wrapped EXCEPT ![d] = @ - amount]
    BY <1>2 DEF UnstakeLockup
  <2>2. wrapped[d] - amount = wrapped[d] + less
    BY <1>2
  <2> HIDE DEF less
  <2> QED
    BY <1>2, <2>1, <2>2
<1>8. less \in Int /\ k \in Int
  OBVIOUS
<1> HIDE DEF less, k
<1> QED
  BY <1>4, <1>5, <1>6, <1>7, <1>8, CountedMoves

\* Nothing is staked and nothing counted at first.
LEMMA InitTotalsInv == StakingIndexInit => TotalsInv
<1> SUFFICES ASSUME StakingIndexInit PROVE TotalsInv
  OBVIOUS
<1>1. IndexInv /\ StakeInv
  BY InitIndexInv, InitStakeInv DEF StakingIndexInit
<1>2. /\ \A d \in Deployments : index.summerStaked[d] = 0 /\ wrapped[d] = 0
      /\ \A d \in Deployments : index.amountOfLockedStakes[d] = 0
      /\ \A d \in Deployments, u \in Users : portfolio[d][u] = <<>>
  BY DEF StakingIndexInit, StakingInit, EmptyStakingIndex
<1>3. ASSUME NEW d \in Deployments PROVE Locked(d) = {}
  <2>1. \A v \in Users, j \in Indices : ~(<<v, j>> \in Locked(d))
    <3> TAKE v \in Users, j \in Indices
    <3>1. portfolio[d][v] = <<>> /\ Len(<<>>) = 0
      BY <1>2
    <3>2. j \in Nat
      BY IndexFacts
    <3>3. ~(j < 0)
      BY <3>2
    <3> QED
      BY <3>1, <3>3, LockedPairs
  <2>2. Locked(d) \subseteq Users \X Indices
    BY DEF Locked
  <2> QED
    BY <2>1, <2>2
<1>4. Counted
  BY <1>2, <1>3, FS_EmptySet DEF Counted
<1> QED
  BY <1>1, <1>4 DEF TotalsInv

\* A step nobody tells the index of changes neither stakes nor lockups.
LEMMA QuietKeepsLocked ==
    ASSUME (QuietStep /\ UNCHANGED index) \/ UNCHANGED allVars
    PROVE  /\ index' = index /\ portfolio' = portfolio /\ wrapped' = wrapped
           /\ \A d : Locked(d)' = Locked(d)
<1>1. index' = index /\ portfolio' = portfolio /\ wrapped' = wrapped
  BY DEF QuietStep, SetAuthorization, BurnOwn, GetReward, GovernanceStep, Tick,
     stakeVars, tokenVars, allVars, stakingVars
<1> QED
  BY <1>1 DEF Locked

\* Every step keeps the count.
LEMMA TotalsInvStep == TotalsInv /\ [StakingIndexNext]_allVars => TotalsInv'
<1> SUFFICES ASSUME TotalsInv, [StakingIndexNext]_allVars PROVE TotalsInv'
  OBVIOUS
<1>1. IndexInv' /\ StakeInv'
  BY IndexInvStep, IndexLooksOn, StakeInvStep DEF TotalsInv
<1>2. /\ scope \in Scopes /\ index.halted \in BOOLEAN /\ index'.halted \in BOOLEAN
  BY <1>1 DEF TotalsInv, IndexInv, StakingType, IndexType
<1>3. SUFFICES ASSUME index'.halted = FALSE PROVE Counted'
  BY <1>1 DEF TotalsInv
<1>4. ASSUME NEW d \in Deployments, NEW a \in Nat \ {0}, NEW p \in Nat, NEW from,
             NEW u \in Users, IndexedStake(d, from, u, a, p)
      PROVE  Counted'
  <2>1. index.halted = FALSE
    BY <1>2, <1>3, <1>4 DEF IndexedStake, HandleStaked
  <2>2. Counted
    BY <2>1 DEF TotalsInv
  <2> QED
    BY <1>4, <2>1, <2>2, StakeCounted
<1>5. ASSUME NEW d \in Deployments, NEW a \in Nat \ {0}, NEW i \in Indices, NEW u \in Users,
             IndexedUnstake(d, u, i, a)
      PROVE  Counted'
  <2>1. index.halted = FALSE
    BY <1>2, <1>3, <1>5 DEF IndexedUnstake, HandleUnstaked
  <2>2. Counted
    BY <2>1 DEF TotalsInv
  <2>3. ~DividesByZero(index, d, u, i, a)
    <3>1. index \in IndexType
      BY DEF TotalsInv, IndexInv, StakingType
    <3>2. Halt(index).halted = TRUE
      BY <3>1 DEF Halt, IndexType
    <3> QED
      BY <1>3, <1>5, <2>1, <3>2 DEF IndexedUnstake, HandleUnstaked
  <2> QED
    BY <1>5, <2>1, <2>2, <2>3, ExitCounted
<1>6. ASSUME (QuietStep /\ UNCHANGED index) \/ UNCHANGED allVars PROVE Counted'
  <2>1. index' = index /\ wrapped' = wrapped /\ \A d : Locked(d)' = Locked(d)
    BY <1>6, QuietKeepsLocked
  <2>2. Counted
    BY <1>3, <2>1 DEF TotalsInv
  <2> QED
    BY <2>1, <2>2 DEF Counted
<1>7. /\ scope.amounts \subseteq Nat \ {0} /\ scope.periods \subseteq Nat
      /\ \A d \in Deployments : scope.stakers[d] \subseteq Users
  BY <1>2, ScopeFacts
<1> QED
  BY <1>4, <1>5, <1>6, <1>7 DEF StakingIndexNext

\* While it runs, the index counts the SUMR staked in each deployment, and its
\* lockups, as the contract has them: for any accounts, amounts and stakes.
THEOREM TotalsAgree == StakingIndexSpec => []IndexTotalsAgree
<1>1. TotalsInv => IndexTotalsAgree
  <2> SUFFICES ASSUME TotalsInv, ~index.halted, NEW d \in Deployments
               PROVE  /\ index.summerStaked[d] = SumOver(balances[d], Users)
                      /\ index.amountOfLockedStakes[d] = Cardinality(Locked(d))
    BY DEF IndexTotalsAgree
  <2>1. index.halted = FALSE
    BY DEF TotalsInv, IndexInv, StakingType, IndexType
  <2>2. Counted
    BY <2>1 DEF TotalsInv
  <2>3. wrapped[d] = SumOver(balances[d], Users)
    BY DEF TotalsInv, StakeInv, StakeLedgersAgree
  <2> QED
    BY <2>2, <2>3 DEF Counted
<1> QED
  BY <1>1, InitTotalsInv, TotalsInvStep, PTL DEF StakingIndexSpec

---------------------------------------------------------------------------
(* The last lockup *)

\* No stake, and no two, hold more than the account's balance.
LEMMA StakesWithin ==
    ASSUME NEW s \in Portfolio
    PROVE  /\ Staked(s) \in Nat
           /\ \A i \in 1..Len(s) : s[i].amount \in Nat /\ s[i].amount <= Staked(s)
           /\ \A i, j \in 1..Len(s) : i # j => s[i].amount + s[j].amount <= Staked(s)
<1> DEFINE D == DOMAIN s
           f == [i \in DOMAIN s |-> s[i].amount]
<1>1. D = 1..Len(s) /\ IsFiniteSet(D) /\ \A i \in D : s[i] \in Stake
  BY PortfolioDomain
<1>2. \A i \in D : f[i] = s[i].amount /\ f[i] \in Nat
  BY <1>1 DEF Stake
<1>3. Staked(s) = SumOver(f, D)
  BY DEF Staked
<1> HIDE DEF D, f
<1>4. SumOver(f, D) \in Nat /\ \A i \in D : f[i] <= SumOver(f, D)
  BY <1>1, <1>2, SumNat
<1>5. \A i, j \in D : i # j => f[i] + f[j] <= SumOver(f, D)
  BY <1>1, <1>2, SumPair
<1> QED
  BY <1>1, <1>2, <1>3, <1>4, <1>5

\* A lockup holds something, within the balance of its account.
LEMMA LockupHolds ==
    ASSUME StakeInv, NEW d \in Deployments, NEW v \in Users, NEW j \in Indices,
           <<v, j>> \in Locked(d)
    PROVE  LET s == portfolio[d][v]
           IN  j + 1 \in 1..Len(s) /\ s[j + 1].amount > 0
<1> DEFINE s == portfolio[d][v]
           n == Len(s)
<1>1. s \in Portfolio /\ j # 0 /\ j < n /\ \A k \in 2..n : s[k].amount > 0
  BY LockedPairs DEF StakeInv, StakeTypes, StakeLedgersAgree
<1>2. n \in Nat /\ j \in Nat
  <2> HIDE DEF s
  <2> QED
    BY <1>1, PortfolioFacts, IndexFacts
<1> HIDE DEF n
<1>3. j + 1 \in 2..n /\ j + 1 \in 1..n
  BY <1>1, <1>2
<1> HIDE DEF s
<1> QED
  BY <1>1, <1>3 DEF n, s

\* The balances of a deployment, and what the wrapper holds of it.
LEMMA BalancesWithin ==
    ASSUME StakeInv, NEW d \in Deployments
    PROVE  /\ \A v \in Users : /\ portfolio[d][v] \in Portfolio
                               /\ balances[d][v] = Staked(portfolio[d][v])
                               /\ balances[d][v] \in Nat /\ balances[d][v] <= wrapped[d]
           /\ \A v, w \in Users : v # w => balances[d][v] + balances[d][w] <= wrapped[d]
           /\ wrapped[d] \in Nat
<1> DEFINE f == balances[d]
<1>1. \A v \in Users : portfolio[d][v] \in Portfolio /\ f[v] = Staked(portfolio[d][v])
  BY DEF StakeInv, StakeTypes, StakeLedgersAgree
<1>2. \A v \in Users : f[v] \in Nat
  BY <1>1, StakesWithin
<1>3. wrapped[d] = SumOver(f, Users) /\ IsFiniteSet(Users)
  BY ScopeAssumption DEF StakeInv, StakeLedgersAgree
<1> HIDE DEF f
<1>4. SumOver(f, Users) \in Nat /\ \A v \in Users : f[v] <= SumOver(f, Users)
  BY <1>2, <1>3, SumNat
<1>5. \A v, w \in Users : v # w => f[v] + f[w] <= SumOver(f, Users)
  BY <1>2, <1>3, SumPair
<1> QED
  BY <1>1, <1>2, <1>3, <1>4, <1>5 DEF f

\* A lockup that is as large as all that is staked is the only one.
LEMMA OnlyLockup ==
    ASSUME StakeInv, NEW d \in Deployments, NEW u \in Users, NEW i \in Indices,
           <<u, i>> \in Locked(d), portfolio[d][u][i + 1].amount >= wrapped[d]
    PROVE  Locked(d) = {<<u, i>>} /\ portfolio[d][u][i + 1].amount = wrapped[d]
<1> DEFINE s == portfolio[d][u]
           a == s[i + 1].amount
           w == wrapped[d]
           b == balances[d]
<1>1. /\ s \in Portfolio /\ b[u] = Staked(s) /\ b[u] \in Nat /\ b[u] <= w /\ w \in Nat
  BY BalancesWithin
<1>2. i + 1 \in 1..Len(s) /\ a > 0
  BY LockupHolds
<1>3. a \in Nat /\ a <= b[u]
  <2> HIDE DEF s
  <2> QED
    BY <1>1, <1>2, StakesWithin
<1>4. a >= w
  OBVIOUS
<1>5. a = w /\ b[u] = w
  <2> HIDE DEF a, b, w
  <2> QED
    BY <1>1, <1>3, <1>4
<1>6. ASSUME NEW v \in Users, NEW j \in Indices, <<v, j>> \in Locked(d)
      PROVE  v = u /\ j = i
  <2> DEFINE r == portfolio[d][v]
             c == r[j + 1].amount
  <2>1. j + 1 \in 1..Len(r) /\ c > 0 /\ r \in Portfolio
    BY <1>6, LockupHolds, BalancesWithin
  <2>2. c \in Nat /\ c <= Staked(r)
    <3> HIDE DEF r
    <3> QED
      BY <2>1, StakesWithin
  <2>3. ASSUME v # u PROVE FALSE
    <3>1. b[u] + b[v] <= w /\ b[v] \in Nat /\ b[v] = Staked(r)
      BY <2>3, BalancesWithin
    <3> HIDE DEF a, b, w, c
    <3> QED
      BY <1>1, <1>5, <2>1, <2>2, <3>1
  <2>4. ASSUME v = u, j # i PROVE FALSE
    <3>1. i \in Nat /\ j \in Nat
      BY IndexFacts
    <3>2. i + 1 # j + 1 /\ j + 1 \in 1..Len(s) /\ c = s[j + 1].amount
      BY <2>1, <2>4, <3>1
    <3>3. a + c <= Staked(s)
      <4>1. s[i + 1].amount + s[j + 1].amount <= Staked(s)
        <5> HIDE DEF s
        <5> QED
          BY <1>1, <1>2, <3>2, StakesWithin
      <4> QED
        BY <3>2, <4>1
    <3> HIDE DEF a, b, w, c
    <3> QED
      BY <1>1, <1>3, <1>5, <2>1, <2>2, <3>3
  <2> QED
    BY <2>3, <2>4
<1>7. Locked(d) \subseteq Users \X Indices
  BY DEF Locked
<1> QED
  BY <1>5, <1>6, <1>7

\* The handler of an exit divides by zero just when the exit empties the last
\* lockup of its deployment.
LEMMA LastExit ==
    ASSUME TotalsInv, Counted, Mirrored, NEW d \in Deployments, NEW u \in Users,
           NEW i \in Indices, NEW amount \in Nat \ {0}, UnstakeLockup(d, u, i, amount)
    PROVE  /\ \A e \in Deployments : e # d => Locked(e)' = Locked(e)
           /\ DividesByZero(index, d, u, i, amount) <=> Locked(d) # {} /\ Locked(d)' = {}
<1> DEFINE s == portfolio[d][u]
           x == s[i + 1]
           row == RowAt(index, d, u, i)
           left == RowLeft(x, amount)
           emptied == left.amount = 0 /\ i # 0
           last == Len(s) - 1
           L == Locked(d)
<1>1. StakingType /\ StakeInv
  BY DEF TotalsInv, IndexInv
<1>2. row = x /\ x.amount # 0 /\ x.amount >= amount
  BY <1>1, ExitedRow, ExitPortfolio
<1>3. /\ \A e \in Deployments : e # d => Locked(e)' = Locked(e)
      /\ i # 0 => <<u, i>> \in Locked(d)
      /\ ~emptied => Locked(d)' = Locked(d)
      /\ emptied => /\ <<u, last>> \in Locked(d)
                    /\ Locked(d)' = Locked(d) \ {<<u, last>>}
  BY <1>1, ExitUnlocks
<1>4. x.amount \in Nat
  <2>1. s \in Portfolio /\ i < Len(s) /\ i \in Nat
    BY <1>1, ExitPortfolio, IndexFacts DEF StakingType
  <2>2. x \in Stake
    <3> HIDE DEF s
    <3> QED
      BY <2>1, PortfolioFacts
  <2> QED
    BY <2>2 DEF Stake
<1>5. emptied <=> i # 0 /\ x.amount = amount
  <2>1. left.amount = x.amount - amount
    <3>1. x \in Stake
      <4>1. s \in Portfolio /\ i < Len(s) /\ i \in Nat
        BY <1>1, ExitPortfolio, IndexFacts DEF StakingType
      <4> HIDE DEF s
      <4> QED
        BY <4>1, PortfolioFacts
    <3> HIDE DEF x
    <3> QED
      BY <3>1 DEF RowLeft, Stake
  <2> HIDE DEF left, x
  <2> QED
    BY <1>4, <2>1
<1>6. /\ index.summerStaked[d] = wrapped[d]
      /\ index.amountOfLockedStakes[d] = Cardinality(L)
  BY DEF Counted
<1>7. DividesByZero(index, d, u, i, amount)
        <=> i # 0 /\ (wrapped[d] = amount \/ (x.amount = amount /\ Cardinality(L) = 1))
  <2> HIDE DEF row, x, L
  <2> QED
    BY <1>2, <1>6 DEF DividesByZero, row
<1>8. IsFiniteSet(L) /\ Cardinality(L) \in Nat
  BY LockedFinite
<1>9. ASSUME L # {}, Locked(d)' = {} PROVE DividesByZero(index, d, u, i, amount)
  <2>1. emptied
    BY <1>3, <1>9
  <2>2. L = {<<u, last>>}
    BY <1>3, <1>9, <2>1
  <2>3. Cardinality(L) = 1
    BY <2>2, FS_Singleton
  <2> QED
    BY <1>5, <1>7, <2>1, <2>3
<1>10. ASSUME DividesByZero(index, d, u, i, amount) PROVE L # {} /\ Locked(d)' = {}
  <2>1. i # 0 /\ <<u, i>> \in L
    BY <1>3, <1>7, <1>10
  <2>2. Cardinality(L) = 1 /\ x.amount = amount
    <3>1. CASE wrapped[d] = amount
      <4>1. L = {<<u, i>>} /\ x.amount = wrapped[d]
        BY <1>1, <1>2, <2>1, <3>1, OnlyLockup
      <4> QED
        BY <3>1, <4>1, FS_Singleton
    <3>2. CASE wrapped[d] # amount
      BY <1>7, <1>10, <3>2
    <3> QED
      BY <3>1, <3>2
  <2>3. emptied
    BY <1>5, <2>1, <2>2
  <2>4. <<u, last>> \in L /\ Locked(d)' = L \ {<<u, last>>}
    BY <1>3, <2>3
  <2> HIDE DEF L, last
  <2>5. IsFiniteSet(L \ {<<u, last>>}) /\ Cardinality(L \ {<<u, last>>}) = 0
    BY <1>8, <2>2, <2>4, FS_RemoveElement
  <2>6. L \ {<<u, last>>} = {}
    BY <2>5, FS_EmptySet
  <2> QED
    BY <2>1, <2>4, <2>6
<1> QED
  BY <1>3, <1>9, <1>10

\* What the index does for good when a deployment loses its last lockup.
HaltsAtLastExit ==
    ~index.halted =>
        (index'.halted <=> \E d \in Deployments : Locked(d) # {} /\ Locked(d)' = {})

\* Every step does.
LEMMA HaltsStep == TotalsInv /\ [StakingIndexNext]_allVars => HaltsAtLastExit
<1> SUFFICES ASSUME TotalsInv, [StakingIndexNext]_allVars, ~index.halted
             PROVE  index'.halted
                       <=> \E d \in Deployments : Locked(d) # {} /\ Locked(d)' = {}
  BY DEF HaltsAtLastExit
<1> DEFINE Gone == \E d \in Deployments : Locked(d) # {} /\ Locked(d)' = {}
<1>1. /\ scope \in Scopes /\ index.halted = FALSE /\ index \in IndexType /\ Mirrored
      /\ Counted /\ StakeTypes /\ StakingType /\ now \in Nat
  BY DEF TotalsInv, IndexInv, StakeInv, StakingType, IndexType
<1>2. ASSUME NEW d \in Deployments, NEW a \in Nat \ {0}, NEW p \in Nat, NEW from,
             NEW u \in Users, IndexedStake(d, from, u, a, p)
      PROVE  index'.halted <=> Gone
  <2> DEFINE j == IndexOfStake(d, u, p)
             w == CalculateWeightedStake(a, p)
  <2>1. index' = HandleStaked(index, d, u, j, a, p, w)
    BY <1>2 DEF IndexedStake
  <2>2. /\ j \in Indices /\ \A e \in Deployments : e # d => Locked(e)' = Locked(e)
        /\ p = 0 => j = 0 /\ Locked(d)' = Locked(d)
        /\ p > 0 => /\ j # 0 /\ <<u, j>> \notin Locked(d)
                    /\ Locked(d)' = Locked(d) \cup {<<u, j>>}
    BY <1>1, <1>2, StakeLocks DEF IndexedStake
  <2>3. w \in Int /\ a \in Nat /\ (p = 0 \/ p > 0)
    BY WeightOf
  <2> HIDE DEF j, w
  <2>4. index'.halted = index.halted
    <3>1. MovesTotals(index', index, d, a, LockupsAdded(j))
      BY <1>1, <2>1, <2>2, <2>3, StakeTotals
    <3> QED
      BY <3>1 DEF MovesTotals
  <2>5. Locked(d) \subseteq Locked(d)'
    BY <2>2, <2>3
  <2>6. ~Gone
    BY <2>2, <2>5
  <2> QED
    BY <2>4, <2>6
<1>3. ASSUME NEW d \in Deployments, NEW a \in Nat \ {0}, NEW i \in Indices, NEW u \in Users,
             IndexedUnstake(d, u, i, a)
      PROVE  index'.halted <=> Gone
  <2>1. UnstakeLockup(d, u, i, a) /\ index' = HandleUnstaked(index, d, u, i, a)
    BY <1>3 DEF IndexedUnstake
  <2>2. /\ \A e \in Deployments : e # d => Locked(e)' = Locked(e)
        /\ DividesByZero(index, d, u, i, a) <=> Locked(d) # {} /\ Locked(d)' = {}
    BY <1>1, <2>1, LastExit
  <2>3. Gone <=> DividesByZero(index, d, u, i, a)
    BY <2>2
  <2>4. CASE DividesByZero(index, d, u, i, a)
    <3>1. index' = Halt(index)
      BY <1>1, <2>1, <2>4 DEF HandleUnstaked
    <3>2. index'.halted
      BY <1>1, <3>1 DEF Halt, IndexType
    <3> QED
      BY <2>3, <2>4, <3>2
  <2>5. CASE ~DividesByZero(index, d, u, i, a)
    <3>1. /\ a <= RowAt(index, d, u, i).amount /\ a \in Nat
          /\ LastIndexOf(index, d, u) \in Indices
          /\ index.rows[d][u][LastIndexOf(index, d, u)] # NoRow
      BY <1>1, <2>1, ExitedRow
    <3>2. index'.halted = index.halted
      <4>1. LET left == RowLeft(RowAt(index, d, u, i), a)
            IN  MovesTotals(index', index, d, -a, IF left.amount = 0 /\ i # 0 THEN -1 ELSE 0)
        BY <1>1, <2>1, <2>5, <3>1, ExitTotals
      <4> QED
        BY <4>1 DEF MovesTotals
    <3> QED
      BY <1>1, <2>3, <2>5, <3>2
  <2> QED
    BY <2>4, <2>5
<1>4. ASSUME (QuietStep /\ UNCHANGED index) \/ UNCHANGED allVars
      PROVE  index'.halted <=> Gone
  <2>1. index' = index /\ \A d : Locked(d)' = Locked(d)
    BY <1>4, QuietKeepsLocked
  <2> QED
    BY <1>1, <2>1
<1>5. /\ scope.amounts \subseteq Nat \ {0} /\ scope.periods \subseteq Nat
      /\ \A d \in Deployments : scope.stakers[d] \subseteq Users
  BY <1>1, ScopeFacts
<1> QED
  BY <1>2, <1>3, <1>4, <1>5 DEF StakingIndexNext

\* The index stops for good at the very moment a deployment's last lockup is
\* emptied, and at no other: for any accounts, amounts and stakes.
THEOREM HaltsAtTheLast == StakingIndexSpec => IndexHaltsAtLastExit
<1>1. TotalsInv /\ [StakingIndexNext]_allVars => [HaltsAtLastExit]_allVars
  BY HaltsStep
<1> QED
  BY <1>1, InitTotalsInv, TotalsInvStep, PTL
     DEF StakingIndexSpec, IndexHaltsAtLastExit, HaltsAtLastExit

---------------------------------------------------------------------------
(* What holds of the contract holds beside the index *)

\* The ledgers agree, the rewards are covered and only time earns.
THEOREM ContractKept ==
    StakingIndexSpec => []StakeLedgersAgree /\ []RewardsCovered /\ EarningsUndisturbed
  BY IndexedStakingIsStaking, StakesAddUp, RewardsAreCovered, OnlyTimeEarns, PTL

=============================================================================
