---------------------------- MODULE StakingProofs ----------------------------
(***************************************************************************)
(* That the ledgers of governance staking agree, that the rewards a        *)
(* deployment holds cover what was earned, and that only time changes      *)
(* earnings: for any number of accounts, deployments, stakes and buckets,  *)
(* any lockups, amounts, reward rates and periods.                         *)
(*                                                                         *)
(* Amount, weight and amount in a bucket are measures of a stake, and one  *)
(* set of lemmas says how the sum of a measure over a portfolio changes    *)
(* when a stake is added, appended, replaced or removed.  What a contract  *)
(* owes is a sum over the accounts; rounding only ever lowers it.          *)
(***************************************************************************)
EXTENDS SummerStaking, LedgerLemmas, SequenceTheorems

\* A stake.
Stake == [amount : Nat, weightedAmount : Int, lockupEndTime : Int, lockupPeriod : Int]

\* A portfolio begins with the stake without lockup and has at most MaxStakes.
Portfolio == {s \in Seq(Stake) : Len(s) <= MaxStakes /\ (s # <<>> => s[1].lockupPeriod = 0)}

---------------------------------------------------------------------------
(* Portfolios *)

\* The facts about a portfolio the proofs use.
LEMMA PortfolioFacts ==
    ASSUME NEW s \in Portfolio
    PROVE  /\ s \in Seq(Stake) /\ Len(s) \in Nat /\ Len(s) <= MaxStakes
           /\ \A k \in 1..Len(s) : s[k] \in Stake
           /\ s = <<>> <=> Len(s) = 0
           /\ s # <<>> => s[1].lockupPeriod = 0
  BY EmptySeq, ElementOfSeq DEF Portfolio

\* A new stake is one.
LEMMA NewStakeType ==
    ASSUME now \in Nat, NEW amount \in Nat, NEW period \in Nat
    PROVE  /\ CalculateWeightedStake(amount, period) \in Int
           /\ NewStake(amount, period) \in Stake
<1>1. amount * (WeightBase + WeightCoefficient * period * period) \in Int
  BY StakeAssumption
<1>2. CalculateWeightedStake(amount, period) \in Int
  BY <1>1, StakeAssumption DEF CalculateWeightedStake
<1> QED
  BY <1>2 DEF NewStake, Stake

\* A portfolio is prepared by an empty stake without lockup.
LEMMA Prepared ==
    ASSUME NEW s \in Portfolio, now \in Nat
    PROVE  LET e == EnsurePortfolio(s)
           IN  /\ e \in Portfolio /\ e # <<>>
               /\ s # <<>> => e = s
               /\ s = <<>> => Len(e) = 1 /\ e[1] = NewStake(0, 0)
<1>1. CASE s = <<>>
  <2> DEFINE new == NewStake(0, 0)
             e == <<new>>
  <2>1. new \in Stake /\ new.lockupPeriod = 0
    BY NewStakeType DEF NewStake
  <2> HIDE DEF new
  <2>2. e \in Seq(Stake) /\ Len(e) = 1 /\ e[1] = new /\ e # <<>>
    BY <2>1
  <2>3. e \in Portfolio
    BY <2>1, <2>2, StakeAssumption DEF Portfolio
  <2> QED
    BY <1>1, <2>2, <2>3 DEF EnsurePortfolio, new
<1>2. CASE s # <<>>
  BY <1>2 DEF EnsurePortfolio
<1> QED
  BY <1>1, <1>2

\* A stake without lockup is added to the first entry.
LEMMA AddedToFirst ==
    ASSUME NEW s \in Portfolio, s # <<>>, NEW amount \in Nat, now \in Nat
    PROVE  LET r == WithStake(s, amount, 0)
           IN  /\ r \in Portfolio /\ Len(r) = Len(s)
               /\ r[1] = [amount |-> s[1].amount + amount,
                          weightedAmount |-> s[1].weightedAmount
                                                + CalculateWeightedStake(amount, 0),
                          lockupEndTime |-> now, lockupPeriod |-> 0]
               /\ \A k \in 2..Len(s) : r[k] = s[k]
<1> DEFINE w == CalculateWeightedStake(amount, 0)
           first == [amount |-> s[1].amount + amount, weightedAmount |-> s[1].weightedAmount + w,
                     lockupEndTime |-> now, lockupPeriod |-> 0]
           r == [s EXCEPT ![1] = first]
<1>1. s \in Seq(Stake) /\ Len(s) \in Nat \ {0} /\ s[1] \in Stake /\ s[1].lockupPeriod = 0
      /\ Len(s) <= MaxStakes
  BY PortfolioFacts
<1>2. w \in Int
  BY NewStakeType
<1>3. first \in Stake
  BY <1>1, <1>2, SMTT(60) DEF Stake
<1>4. WithStake(s, amount, 0) = r
  <2> HIDE DEF w
  <2>1. WithStake(s, amount, 0)
          = [s EXCEPT ![1].amount = @ + amount, ![1].weightedAmount = @ + w,
                      ![1].lockupEndTime = now]
    BY DEF WithStake, w
  <2>2. DOMAIN s = 1..Len(s) /\ s \in [1..Len(s) -> Stake]
    BY <1>1, LenProperties
  <2> DEFINE x == s[1]
             more == [x EXCEPT !.amount = @ + amount]
             heavier == [more EXCEPT !.weightedAmount = @ + w]
             later == [heavier EXCEPT !.lockupEndTime = now]
  <2>3. x \in Stake /\ x.lockupPeriod = 0
    BY <1>1
  <2> HIDE DEF x
  <2>4. more = [amount |-> x.amount + amount, weightedAmount |-> x.weightedAmount,
                lockupEndTime |-> x.lockupEndTime, lockupPeriod |-> 0]
    BY <2>3 DEF Stake
  <2> HIDE DEF more
  <2>5. heavier = [amount |-> x.amount + amount, weightedAmount |-> x.weightedAmount + w,
                   lockupEndTime |-> x.lockupEndTime, lockupPeriod |-> 0]
    BY <2>4
  <2> HIDE DEF heavier
  <2>6. later = first
    BY <2>5 DEF x
  <2> USE DEF heavier, more, x
  <2> HIDE DEF first
  <2>7. WithStake(s, amount, 0) = [s EXCEPT ![1] = later]
    <3> DEFINE s1 == [s EXCEPT ![1] = more]
               s2 == [s1 EXCEPT ![1] = heavier]
    <3>1. [s EXCEPT ![1].amount = @ + amount] = s1
      OBVIOUS
    <3>2. s1[1] = more /\ 1 \in DOMAIN s1
      BY <1>1, <2>2
    <3> HIDE DEF s1
    <3>3. [s1 EXCEPT ![1].weightedAmount = @ + w] = s2
      BY <3>2
    <3>4. s2[1] = heavier /\ 1 \in DOMAIN s2
      BY <3>2
    <3> HIDE DEF s2
    <3>5. [s2 EXCEPT ![1].lockupEndTime = now] = [s2 EXCEPT ![1] = later]
      BY <3>4
    <3>6. [s2 EXCEPT ![1] = later] = [s EXCEPT ![1] = later]
      BY DEF s1, s2
    <3>7. WithStake(s, amount, 0) = [s2 EXCEPT ![1].lockupEndTime = now]
      <4>1. [s EXCEPT ![1].amount = @ + amount, ![1].weightedAmount = @ + w,
                      ![1].lockupEndTime = now]
              = [[[s EXCEPT ![1].amount = @ + amount] EXCEPT ![1].weightedAmount = @ + w]
                    EXCEPT ![1].lockupEndTime = now]
        OBVIOUS
      <4> QED
        BY <2>1, <3>1, <3>3, <4>1
    <3> QED
      BY <3>5, <3>6, <3>7
  <2> QED
    BY <2>6, <2>7
<1> HIDE DEF first
<1>5. r \in Seq(Stake) /\ Len(r) = Len(s)
      /\ \A j \in 1..Len(s) : r[j] = IF j = 1 THEN first ELSE s[j]
  BY <1>1, <1>3, ExceptSeq
<1>6. r \in Portfolio
  BY <1>1, <1>5 DEF Portfolio, first
<1> HIDE DEF r
<1>7. r[1] = first /\ \A k \in 2..Len(s) : r[k] = s[k]
  BY <1>1, <1>5
<1> QED
  BY <1>4, <1>5, <1>6, <1>7 DEF first

\* A lockup is appended.
LEMMA Appended ==
    ASSUME NEW s \in Portfolio, s # <<>>, Len(s) < MaxStakes, NEW amount \in Nat,
           NEW period \in Nat, period > 0, now \in Nat
    PROVE  LET r == WithStake(s, amount, period)
           IN  /\ r \in Portfolio /\ Len(r) = Len(s) + 1
               /\ r[Len(s) + 1] = NewStake(amount, period)
               /\ \A k \in 1..Len(s) : r[k] = s[k]
<1> DEFINE new == NewStake(amount, period)
           r == Append(s, new)
<1>1. s \in Seq(Stake) /\ Len(s) \in Nat \ {0} /\ s[1].lockupPeriod = 0
  BY PortfolioFacts
<1>2. new \in Stake
  BY NewStakeType
<1>3. WithStake(s, amount, period) = r
  BY DEF WithStake
<1> HIDE DEF new
<1>4. r \in Seq(Stake) /\ Len(r) = Len(s) + 1 /\ r[Len(s) + 1] = new
      /\ \A k \in 1..Len(s) : r[k] = s[k]
  BY <1>1, <1>2
<1> HIDE DEF r
<1>5. r[1] = s[1] /\ Len(r) <= MaxStakes
  BY <1>1, <1>4, StakeAssumption
<1>6. r \in Portfolio
  BY <1>1, <1>4, <1>5 DEF Portfolio
<1> QED
  BY <1>3, <1>4, <1>6 DEF new, r

\* A stake that keeps its period can be replaced by another.
LEMMA Replaced ==
    ASSUME NEW s \in Portfolio, NEW k \in 1..Len(s), NEW new \in Stake,
           new.lockupPeriod = s[k].lockupPeriod
    PROVE  LET r == [s EXCEPT ![k] = new]
           IN  /\ r \in Portfolio /\ Len(r) = Len(s)
               /\ \A j \in 1..Len(s) : r[j] = IF j = k THEN new ELSE s[j]
<1>1. s \in Seq(Stake) /\ Len(s) \in Nat \ {0} /\ s[1].lockupPeriod = 0
      /\ Len(s) <= MaxStakes
  BY PortfolioFacts
<1> DEFINE r == [s EXCEPT ![k] = new]
<1>2. r \in Seq(Stake) /\ Len(r) = Len(s)
      /\ \A j \in 1..Len(s) : r[j] = IF j = k THEN new ELSE s[j]
  BY <1>1, ExceptSeq
<1> HIDE DEF r
<1>3. r \in Portfolio
  BY <1>1, <1>2 DEF Portfolio
<1> QED
  BY <1>2, <1>3 DEF r

\* The last stake takes the place of one that is removed.
LEMMA Removed ==
    ASSUME NEW s \in Portfolio, NEW i \in Nat, i # 0, i < Len(s)
    PROVE  LET r == RemoveStake(s, i)
           IN  /\ r \in Portfolio /\ Len(r) = Len(s) - 1 /\ r # <<>>
               /\ \A k \in 1..(Len(s) - 1) : r[k] = IF k = i + 1 THEN s[Len(s)] ELSE s[k]
<1>1. s \in Seq(Stake) /\ Len(s) \in Nat /\ Len(s) > 1 /\ s[1].lockupPeriod = 0
      /\ Len(s) <= MaxStakes /\ \A k \in 1..Len(s) : s[k] \in Stake
  BY PortfolioFacts
<1> DEFINE n == Len(s)
           moved == [s EXCEPT ![i + 1] = s[n]]
           r == SubSeq(moved, 1, n - 1)
<1>2. s[n] \in Stake /\ i + 1 \in 1..n
  BY <1>1
<1>3. \A j \in 1..n : moved[j] = IF j = i + 1 THEN s[n] ELSE s[j]
  BY <1>1, <1>2, ExceptSeq
<1>4. \A j \in 1..(n - 1) : moved[j] \in Stake
  BY <1>1, <1>2, <1>3
<1> HIDE DEF moved
<1>5. r \in Seq(Stake) /\ Len(r) = n - 1 /\ \A j \in 1..(n - 1) : r[j] = moved[j]
  <2>1. n - 1 \in Int /\ 1 <= n - 1 /\ (n - 1) - 1 + 1 = n - 1
    BY <1>1
  <2>2. /\ r \in Seq(Stake) /\ Len(r) = IF 1 <= n - 1 THEN (n - 1) - 1 + 1 ELSE 0
        /\ \A j \in 1..((n - 1) - 1 + 1) : r[j] = moved[1 + j - 1]
    BY <1>4, <2>1, SubSeqProperties
  <2>3. \A j \in 1..(n - 1) : 1 + j - 1 = j
    BY <2>1
  <2> QED
    BY <2>1, <2>2, <2>3
<1>6. RemoveStake(s, i) = r
  BY DEF RemoveStake, moved
<1> HIDE DEF r
<1>7. \A k \in 1..(n - 1) : r[k] = IF k = i + 1 THEN s[n] ELSE s[k]
  BY <1>1, <1>3, <1>5
<1>8. r # <<>> /\ r[1] = s[1]
  BY <1>1, <1>5, <1>7, EmptySeq
<1>9. r \in Portfolio
  <2>1. Len(r) <= MaxStakes
    BY <1>1, <1>5, StakeAssumption
  <2> QED
    BY <1>1, <1>5, <1>8, <2>1 DEF Portfolio
<1> QED
  BY <1>5, <1>6, <1>7, <1>8, <1>9

---------------------------------------------------------------------------
(* Buckets *)

\* The buckets grow.
LEMMA BucketsGrow ==
    ASSUME NEW i \in Buckets, NEW j \in Buckets, i <= j
    PROVE  BucketMax[i] <= BucketMax[j]
<1> DEFINE T == {n \in Nat : n \in Buckets /\ i <= n => BucketMax[i] <= BucketMax[n]}
<1>1. Len(BucketMax) \in Nat /\ \A k \in Buckets : BucketMax[k] \in Nat
  BY BucketAssumption, ElementOfSeq DEF Buckets
<1>2. 0 \in T
  BY DEF Buckets
<1>3. ASSUME NEW n \in Nat, n \in T PROVE n + 1 \in T
  <2> SUFFICES ASSUME n + 1 \in Buckets, i <= n + 1 PROVE BucketMax[i] <= BucketMax[n + 1]
    OBVIOUS
  <2>1. CASE i = n + 1
    BY <1>1, <2>1
  <2>2. CASE i <= n
    <3>1. n \in Buckets /\ n \in 1..(Len(BucketMax) - 1)
      BY <1>1, <2>2 DEF Buckets
    <3>2. BucketMax[i] <= BucketMax[n]
      BY <1>3, <2>2, <3>1
    <3>3. BucketMax[n] < BucketMax[n + 1]
      BY <3>1, BucketAssumption
    <3> QED
      BY <1>1, <3>1, <3>2, <3>3
  <2> QED
    BY <2>1, <2>2 DEF Buckets
<1>4. Nat \subseteq T
  <2> HIDE DEF T
  <2> QED
    BY <1>2, <1>3, NatInduct
<1> QED
  BY <1>4 DEF Buckets

\* Every lockup has a bucket that is long enough and follows shorter ones.
LEMMA BucketFound ==
    ASSUME NEW period \in 0..MaxLockup
    PROVE  \E k \in Buckets : /\ period <= BucketMax[k]
                              /\ \A j \in 1..(k - 1) : period > BucketMax[j]
<1> DEFINE Fits(k) == /\ period <= BucketMax[k]
                      /\ \A j \in 1..(k - 1) : period > BucketMax[j]
           T == {n \in Nat : n <= Len(BucketMax) =>
                    (\A j \in 1..n : period > BucketMax[j]) \/ \E k \in 1..n : Fits(k)}
<1>1. /\ Len(BucketMax) \in Nat /\ Len(BucketMax) \in Buckets
      /\ \A k \in Buckets : BucketMax[k] \in Nat
      /\ BucketMax[Len(BucketMax)] = MaxLockup /\ period \in Nat /\ period <= MaxLockup
  BY BucketAssumption, StakeAssumption, ElementOfSeq DEF Buckets
<1>2. 0 \in T
  OBVIOUS
<1>3. ASSUME NEW n \in Nat, n \in T PROVE n + 1 \in T
  <2> SUFFICES ASSUME n + 1 <= Len(BucketMax)
               PROVE  \/ \A j \in 1..(n + 1) : period > BucketMax[j]
                      \/ \E k \in 1..(n + 1) : Fits(k)
    OBVIOUS
  <2>1. n + 1 \in Buckets
    BY <1>1 DEF Buckets
  <2>2. CASE \E k \in 1..n : Fits(k)
    BY <2>2
  <2>3. CASE \A j \in 1..n : period > BucketMax[j]
    <3>1. CASE period <= BucketMax[n + 1]
      <4>1. Fits(n + 1)
        BY <2>3, <3>1
      <4> QED
        BY <4>1
    <3>2. CASE period > BucketMax[n + 1]
      BY <2>3, <3>2
    <3> QED
      BY <1>1, <2>1, <3>1, <3>2
  <2> QED
    BY <1>1, <1>3, <2>2, <2>3
<1>4. Nat \subseteq T
  <2> HIDE DEF T
  <2> QED
    BY <1>2, <1>3, NatInduct
<1>5. \E k \in Buckets : Fits(k)
  <2>1. ~ \A j \in 1..Len(BucketMax) : period > BucketMax[j]
    BY <1>1 DEF Buckets
  <2> QED
    BY <1>1, <1>4, <2>1, SMTT(60) DEF Buckets
<1> QED
  BY <1>5

\* _findBucket finds the one bucket the lockup is in.
LEMMA BucketIsThe ==
    ASSUME NEW period \in 0..MaxLockup
    PROVE  /\ FindBucket(period) \in Buckets
           /\ \A k \in Buckets : InBucket(period, k) <=> k = FindBucket(period)
<1> DEFINE f == FindBucket(period)
<1>1. /\ f \in Buckets /\ period <= BucketMax[f]
      /\ \A j \in 1..(f - 1) : period > BucketMax[j]
  BY BucketFound DEF FindBucket
<1> HIDE DEF f
<1>2. /\ Len(BucketMax) \in Nat /\ \A k \in Buckets : BucketMax[k] \in Nat /\ k \in Nat
      /\ period \in Nat
  BY BucketAssumption, StakeAssumption, ElementOfSeq DEF Buckets
<1>3. ASSUME NEW k \in Buckets PROVE InBucket(period, k) <=> k = f
  <2>1. CASE k = f
    <3>1. k > 1 => period > BucketMax[k - 1]
      BY <1>1, <1>2, <2>1 DEF Buckets
    <3> QED
      BY <1>1, <2>1, <3>1 DEF InBucket
  <2>2. CASE k < f
    <3>1. k \in 1..(f - 1)
      BY <1>1, <1>2, <2>2 DEF Buckets
    <3>2. period > BucketMax[k]
      BY <1>1, <3>1
    <3> QED
      BY <1>2, <2>2, <3>2 DEF InBucket
  <2>3. CASE k > f
    <3>1. k - 1 \in Buckets /\ f <= k - 1 /\ k > 1
      BY <1>1, <1>2, <2>3 DEF Buckets
    <3>2. BucketMax[f] <= BucketMax[k - 1]
      BY <1>1, <3>1, BucketsGrow
    <3>3. ~(period > BucketMax[k - 1])
      BY <1>1, <1>2, <3>1, <3>2
    <3> QED
      BY <2>3, <3>1, <3>3, <1>1, <1>2 DEF InBucket
  <2> QED
    BY <1>1, <1>2, <2>1, <2>2, <2>3
<1> QED
  BY <1>1, <1>3 DEF f

---------------------------------------------------------------------------
(* Measures of a portfolio *)

\* The sum of a measure of stakes over a portfolio.
Measure(m, s) == SumOver([i \in DOMAIN s |-> m[s[i]]], DOMAIN s)

\* The three sums the ledgers are about are sums of measures.
Amount == [x \in Stake |-> x.amount]
Heaviness == [x \in Stake |-> x.weightedAmount]
AmountIn(k) == [x \in Stake |-> IF InBucket(x.lockupPeriod, k) THEN x.amount ELSE 0]

\* What the measures of a stake are.
LEMMA MeasureTypes ==
    ASSUME NEW k
    PROVE  /\ Amount \in [Stake -> Int] /\ Heaviness \in [Stake -> Int]
           /\ AmountIn(k) \in [Stake -> Int]
           /\ \A x \in Stake :
                 /\ Amount[x] = x.amount /\ Heaviness[x] = x.weightedAmount
                 /\ AmountIn(k)[x] = IF InBucket(x.lockupPeriod, k) THEN x.amount ELSE 0
<1>1. \A x \in Stake : x.amount \in Int /\ x.weightedAmount \in Int
  BY DEF Stake
<1>2. \A x \in Stake : InBucket(x.lockupPeriod, k) \in BOOLEAN
  BY DEF InBucket
<1> QED
  BY <1>1, <1>2 DEF Amount, Heaviness, AmountIn

\* A portfolio as a list.
LEMMA PortfolioDomain ==
    ASSUME NEW s \in Portfolio
    PROVE  /\ DOMAIN s = 1..Len(s) /\ IsFiniteSet(1..Len(s)) /\ Len(s) \in Nat
           /\ \A i \in 1..Len(s) : s[i] \in Stake
<1>1. s \in Seq(Stake) /\ Len(s) \in Nat /\ \A i \in 1..Len(s) : s[i] \in Stake
  BY PortfolioFacts
<1>2. DOMAIN s = 1..Len(s)
  BY <1>1, LenProperties
<1>3. IsFiniteSet(1..Len(s))
  BY <1>1, FS_Interval
<1> QED
  BY <1>1, <1>2, <1>3

\* The sums of the model are sums of measures.
LEMMA SumsAreMeasures ==
    ASSUME NEW s \in Portfolio
    PROVE  /\ Staked(s) = Measure(Amount, s) /\ Weight(s) = Measure(Heaviness, s)
           /\ \A k \in Buckets : StakedIn(s, k) = Measure(AmountIn(k), s)
<1>1. /\ DOMAIN s = 1..Len(s) /\ IsFiniteSet(1..Len(s))
      /\ \A i \in 1..Len(s) : s[i] \in Stake
  BY PortfolioDomain
<1>2. Staked(s) = Measure(Amount, s)
  <2> DEFINE f == [i \in DOMAIN s |-> s[i].amount]
             g == [i \in DOMAIN s |-> Amount[s[i]]]
  <2>1. \A i \in DOMAIN s : f[i] = g[i]
    BY <1>1, MeasureTypes
  <2> HIDE DEF f, g
  <2>2. SumOver(f, DOMAIN s) = SumOver(g, DOMAIN s)
    BY <1>1, <2>1, SumAgrees
  <2> QED
    BY <2>2 DEF Staked, Measure, f, g
<1>3. Weight(s) = Measure(Heaviness, s)
  <2> DEFINE f == [i \in DOMAIN s |-> s[i].weightedAmount]
             g == [i \in DOMAIN s |-> Heaviness[s[i]]]
  <2>1. \A i \in DOMAIN s : f[i] = g[i]
    BY <1>1, MeasureTypes
  <2> HIDE DEF f, g
  <2>2. SumOver(f, DOMAIN s) = SumOver(g, DOMAIN s)
    BY <1>1, <2>1, SumAgrees
  <2> QED
    BY <2>2 DEF Weight, Measure, f, g
<1>4. ASSUME NEW k \in Buckets PROVE StakedIn(s, k) = Measure(AmountIn(k), s)
  <2> DEFINE f == [i \in DOMAIN s |->
                      IF InBucket(s[i].lockupPeriod, k) THEN s[i].amount ELSE 0]
             g == [i \in DOMAIN s |-> AmountIn(k)[s[i]]]
  <2>1. \A i \in DOMAIN s : f[i] = g[i]
    BY <1>1, MeasureTypes
  <2> HIDE DEF f, g
  <2>2. SumOver(f, DOMAIN s) = SumOver(g, DOMAIN s)
    BY <1>1, <2>1, SumAgrees
  <2> QED
    BY <2>2 DEF StakedIn, Measure, f, g
<1> QED
  BY <1>2, <1>3, <1>4

\* The terms of a measure.
LEMMA MeasureTerms ==
    ASSUME NEW s \in Portfolio, NEW m \in [Stake -> Int]
    PROVE  LET f == [i \in DOMAIN s |-> m[s[i]]]
           IN  /\ Measure(m, s) = SumOver(f, 1..Len(s))
               /\ \A i \in 1..Len(s) : f[i] = m[s[i]] /\ f[i] \in Int
               /\ Measure(m, s) \in Int
<1> DEFINE f == [i \in DOMAIN s |-> m[s[i]]]
<1>1. /\ DOMAIN s = 1..Len(s) /\ IsFiniteSet(1..Len(s)) /\ Len(s) \in Nat
      /\ \A i \in 1..Len(s) : s[i] \in Stake
  BY PortfolioDomain
<1>2. \A i \in 1..Len(s) : f[i] = m[s[i]] /\ f[i] \in Int
  BY <1>1
<1>3. Measure(m, s) = SumOver(f, 1..Len(s))
  BY <1>1 DEF Measure
<1> HIDE DEF f
<1>4. SumOver(f, 1..Len(s)) \in Int
  BY <1>1, <1>2, SumInt
<1> QED
  BY <1>2, <1>3, <1>4 DEF f

\* An empty portfolio measures nothing, one stake what it does.
LEMMA MeasureSmall ==
    ASSUME NEW m \in [Stake -> Int]
    PROVE  /\ Measure(m, <<>>) = 0
           /\ \A s \in Portfolio : Len(s) = 1 => Measure(m, s) = m[s[1]]
<1>1. Measure(m, <<>>) = 0
  <2>1. DOMAIN <<>> = {}
    OBVIOUS
  <2> QED
    BY <2>1, SumEmpty DEF Measure
<1>2. ASSUME NEW s \in Portfolio, Len(s) = 1 PROVE Measure(m, s) = m[s[1]]
  <2> DEFINE f == [i \in DOMAIN s |-> m[s[i]]]
  <2>1. Measure(m, s) = SumOver(f, {1}) /\ f[1] = m[s[1]] /\ f[1] \in Int
    <3>1. 1..Len(s) = {1}
      BY <1>2
    <3> QED
      BY <3>1, MeasureTerms
  <2> HIDE DEF f
  <2>2. SumOver(f, {1}) = f[1] + SumOver(f, {})
    <3>1. IsFiniteSet({1}) /\ {1} \ {1} = {}
      BY FS_Singleton
    <3>2. SumOver(f, {1}) = f[1] + SumOver(f, {1} \ {1})
      BY <2>1, <3>1, SumSplit
    <3> QED
      BY <3>1, <3>2
  <2> QED
    BY <2>1, <2>2, SumEmpty
<1> QED
  BY <1>1, <1>2

\* r is s with another stake at j.
ChangedAt(s, j, r) == Len(r) = Len(s) /\ \A k \in 1..Len(s) : k # j => r[k] = s[k]

\* r is s with the last stake in the place of j.
PoppedAt(s, j, r) ==
    Len(r) = Len(s) - 1 /\ \A k \in 1..(Len(s) - 1) : r[k] = IF k = j THEN s[Len(s)] ELSE s[k]

\* A stake that is changed changes the measure as much.
LEMMA MeasureReplaced ==
    ASSUME NEW s \in Portfolio, NEW r \in Portfolio, NEW m \in [Stake -> Int],
           NEW j \in 1..Len(s), ChangedAt(s, j, r)
    PROVE  Measure(m, r) = Measure(m, s) + (m[r[j]] - m[s[j]])
<1> DEFINE f == [i \in DOMAIN s |-> m[s[i]]]
           g == [i \in DOMAIN r |-> m[r[i]]]
<1>1. /\ Measure(m, s) = SumOver(f, 1..Len(s))
      /\ \A i \in 1..Len(s) : f[i] = m[s[i]] /\ f[i] \in Int
  BY MeasureTerms
<1>2. /\ Measure(m, r) = SumOver(g, 1..Len(s))
      /\ \A i \in 1..Len(s) : g[i] = m[r[i]] /\ g[i] \in Int
  <2>1. /\ Measure(m, r) = SumOver(g, 1..Len(r))
        /\ \A i \in 1..Len(r) : g[i] = m[r[i]] /\ g[i] \in Int
    BY MeasureTerms
  <2>2. Len(r) = Len(s)
    BY DEF ChangedAt
  <2> QED
    BY <2>1, <2>2
<1>3. IsFiniteSet(1..Len(s))
  BY PortfolioDomain
<1> HIDE DEF f, g
<1>4. \A i \in 1..Len(s) : i # j => g[i] = f[i]
  BY <1>1, <1>2 DEF ChangedAt
<1>5. SumOver(g, 1..Len(s)) = SumOver(f, 1..Len(s)) + (g[j] - f[j])
  <2> DEFINE S == 1..Len(s)
             x == j
  <2>1. /\ IsFiniteSet(S) /\ x \in S /\ \A i \in S : f[i] \in Int
        /\ g[x] \in Int /\ \A i \in S : i # x => g[i] = f[i]
    BY <1>1, <1>2, <1>3, <1>4
  <2> HIDE DEF S, x
  <2>2. SumOver(g, S) = SumOver(f, S) + (g[x] - f[x])
    BY <2>1, SumChange
  <2> QED
    BY <2>2 DEF S, x
<1> QED
  BY <1>1, <1>2, <1>5

\* A stake that is appended adds what it measures.
LEMMA MeasureAppended ==
    ASSUME NEW s \in Portfolio, NEW r \in Portfolio, NEW m \in [Stake -> Int],
           Len(r) = Len(s) + 1, \A k \in 1..Len(s) : r[k] = s[k]
    PROVE  Measure(m, r) = Measure(m, s) + m[r[Len(r)]]
<1> DEFINE f == [i \in DOMAIN s |-> m[s[i]]]
           g == [i \in DOMAIN r |-> m[r[i]]]
           n == Len(s)
<1>0. n \in Nat /\ IsFiniteSet(1..n) /\ 1..Len(r) = 1..n \cup {n + 1} /\ n + 1 \notin 1..n
  <2>1. n \in Nat /\ IsFiniteSet(1..n)
    BY PortfolioDomain
  <2> QED
    BY <2>1
<1>1. /\ Measure(m, s) = SumOver(f, 1..n)
      /\ \A i \in 1..n : f[i] = m[s[i]] /\ f[i] \in Int
  BY MeasureTerms
<1>2. /\ Measure(m, r) = SumOver(g, 1..n \cup {n + 1})
      /\ \A i \in 1..n \cup {n + 1} : g[i] = m[r[i]] /\ g[i] \in Int
  <2>1. /\ Measure(m, r) = SumOver(g, 1..Len(r))
        /\ \A i \in 1..Len(r) : g[i] = m[r[i]] /\ g[i] \in Int
    BY MeasureTerms
  <2> QED
    BY <1>0, <2>1
<1> HIDE DEF f, g, n
<1>3. SumOver(g, 1..n \cup {n + 1}) = SumOver(g, 1..n) + g[n + 1]
  <2> DEFINE S == 1..n
             x == n + 1
  <2>1. IsFiniteSet(S) /\ x \notin S /\ \A i \in S \cup {x} : g[i] \in Int
    BY <1>0, <1>2
  <2> HIDE DEF S, x
  <2>2. SumOver(g, S \cup {x}) = SumOver(g, S) + g[x]
    BY <2>1, SumAdd
  <2> QED
    BY <2>2 DEF S, x
<1>4. SumOver(g, 1..n) = SumOver(f, 1..n)
  <2>1. \A i \in 1..n : g[i] = f[i]
    BY <1>1, <1>2 DEF n
  <2> QED
    BY <1>0, <2>1, SumAgrees
<1>5. g[n + 1] = m[r[Len(r)]]
  BY <1>2 DEF n
<1> QED
  BY <1>1, <1>2, <1>3, <1>4, <1>5

\* A stake the last one takes the place of is missing what it measured.
LEMMA MeasureRemoved ==
    ASSUME NEW s \in Portfolio, NEW r \in Portfolio, NEW m \in [Stake -> Int],
           NEW j \in 1..Len(s), PoppedAt(s, j, r)
    PROVE  Measure(m, r) = Measure(m, s) - m[s[j]]
<1> DEFINE f == [i \in DOMAIN s |-> m[s[i]]]
           g == [i \in DOMAIN r |-> m[r[i]]]
           n == Len(s)
<1>0. /\ n \in Nat \ {0} /\ IsFiniteSet(1..n) /\ IsFiniteSet(1..(n - 1)) /\ j \in 1..n
      /\ (1..n) \ {n} = 1..(n - 1) /\ n \in 1..n /\ 1..(n - 1) \subseteq 1..n
  <2>1. n \in Nat /\ IsFiniteSet(1..n) /\ j \in 1..n
    BY PortfolioDomain
  <2>2. IsFiniteSet(1..(n - 1))
    BY <2>1, FS_Interval
  <2> QED
    BY <2>1, <2>2
<1>1. /\ Measure(m, s) = SumOver(f, 1..n)
      /\ \A i \in 1..n : f[i] = m[s[i]] /\ f[i] \in Int
  BY MeasureTerms
<1>2. /\ Measure(m, r) = SumOver(g, 1..(n - 1))
      /\ \A i \in 1..(n - 1) : g[i] = m[r[i]] /\ g[i] \in Int
  <2>1. /\ Measure(m, r) = SumOver(g, 1..Len(r))
        /\ \A i \in 1..Len(r) : g[i] = m[r[i]] /\ g[i] \in Int
    BY MeasureTerms
  <2>2. Len(r) = n - 1
    BY DEF PoppedAt
  <2> QED
    BY <2>1, <2>2
<1>r. \A k \in 1..(n - 1) : r[k] = IF k = j THEN s[n] ELSE s[k]
  BY DEF PoppedAt
<1> HIDE DEF f, g, n
<1>3. SumOver(f, 1..n) = f[n] + SumOver(f, 1..(n - 1)) /\ SumOver(f, 1..(n - 1)) \in Int
  <2>1. SumOver(f, 1..n) = f[n] + SumOver(f, (1..n) \ {n})
    <3> DEFINE S == 1..n
    <3>1. IsFiniteSet(S) /\ n \in S /\ \A i \in S : f[i] \in Int
      BY <1>0, <1>1
    <3> HIDE DEF S
    <3>2. SumOver(f, S) = f[n] + SumOver(f, S \ {n})
      BY <3>1, SumSplit
    <3> QED
      BY <3>2 DEF S
  <2>2. SumOver(f, 1..(n - 1)) \in Int
    BY <1>0, <1>1, SumInt
  <2> QED
    BY <1>0, <2>1, <2>2
<1>4. SumOver(g, 1..(n - 1)) = SumOver(f, 1..n) - f[j]
  <2>1. CASE j = n
    <3>1. \A i \in 1..(n - 1) : g[i] = f[i]
      BY <1>0, <1>1, <1>2, <1>r, <2>1
    <3>2. SumOver(g, 1..(n - 1)) = SumOver(f, 1..(n - 1))
      BY <1>0, <3>1, SumAgrees
    <3> QED
      BY <1>0, <1>1, <1>3, <2>1, <3>2
  <2>2. CASE j # n
    <3>1. j \in 1..(n - 1)
      BY <1>0, <2>2
    <3>2. g[j] = f[n] /\ \A i \in 1..(n - 1) : i # j => g[i] = f[i]
      BY <1>0, <1>1, <1>2, <1>r, <3>1, SMTT(60)
    <3>3. \A i \in 1..(n - 1) : f[i] \in Int /\ g[i] \in Int
      BY <1>0, <1>1, <1>2
    <3>4. SumOver(g, 1..(n - 1)) = SumOver(f, 1..(n - 1)) + (g[j] - f[j])
      <4> DEFINE S == 1..(n - 1)
                 x == j
      <4>1. /\ IsFiniteSet(S) /\ x \in S /\ \A i \in S : f[i] \in Int /\ g[i] \in Int
            /\ \A i \in S : i # x => g[i] = f[i]
        BY <1>0, <3>1, <3>2, <3>3
      <4> HIDE DEF S, x
      <4>2. SumOver(g, S) = SumOver(f, S) + (g[x] - f[x])
        BY <4>1, SumChange
      <4> QED
        BY <4>2 DEF S, x
    <3>5. f[n] \in Int /\ f[j] \in Int
      BY <1>0, <1>1
    <3> QED
      BY <1>3, <3>2, <3>4, <3>5
  <2> QED
    BY <2>1, <2>2
<1>5. f[j] = m[s[j]]
  BY <1>0, <1>1
<1> QED
  BY <1>1, <1>2, <1>4, <1>5

---------------------------------------------------------------------------
(* What a stake and an exit do to a portfolio *)

\* Weights are natural, every lockup has its bucket, and no lockup is empty.
Sound(s) ==
    \A k \in 1..Len(s) : /\ s[k].weightedAmount \in Nat
                         /\ s[k].lockupPeriod \in 0..MaxLockup
                         /\ k >= 2 => s[k].amount > 0

\* The sums of r are those of s and what is given.
Moves(r, s, amount, weight, bucket) ==
    /\ Measure(Amount, r) = Measure(Amount, s) + amount
    /\ Measure(Heaviness, r) = Measure(Heaviness, s) + weight
    /\ \A k \in Buckets :
          Measure(AmountIn(k), r) = Measure(AmountIn(k), s) + (IF k = bucket THEN amount ELSE 0)

\* The weight of a stake is natural, that of none nothing.
LEMMA WeightOf ==
    ASSUME NEW amount \in Nat, NEW period \in Nat
    PROVE  /\ CalculateWeightedStake(amount, period) \in Nat
           /\ amount = 0 => CalculateWeightedStake(amount, period) = 0
<1> DEFINE factor == WeightBase + WeightCoefficient * period * period
<1>1. WeightBase \in Nat \ {0} /\ WeightCoefficient \in Nat
  BY StakeAssumption
<1>2. factor \in Nat
  <2>1. WeightCoefficient * period \in Nat
    BY <1>1
  <2>2. WeightCoefficient * period * period \in Nat
    BY <2>1
  <2> QED
    BY <1>1, <2>2
<1> HIDE DEF factor
<1>3. amount * factor \in Nat /\ (amount = 0 => amount * factor = 0)
  BY <1>2
<1> DEFINE x == amount * factor
<1> HIDE DEF x
<1>4. x \in Nat /\ (amount = 0 => x = 0)
  BY <1>3 DEF x
<1>5. x \div WeightBase \in Nat /\ (x = 0 => x \div WeightBase = 0)
  BY <1>1, <1>4
<1>6. CalculateWeightedStake(amount, period) = x \div WeightBase
  BY DEF CalculateWeightedStake, x, factor
<1> QED
  BY <1>4, <1>5, <1>6

\* What a new stake measures.
LEMMA NewStakeMeasures ==
    ASSUME NEW amount \in Nat, NEW period \in 0..MaxLockup, now \in Nat
    PROVE  LET x == NewStake(amount, period)
           IN  /\ x \in Stake /\ x.weightedAmount \in Nat /\ x.lockupPeriod = period
               /\ Amount[x] = amount
               /\ Heaviness[x] = CalculateWeightedStake(amount, period)
               /\ \A k \in Buckets :
                     AmountIn(k)[x] = IF k = FindBucket(period) THEN amount ELSE 0
<1>1. period \in Nat
  BY StakeAssumption
<1>2. /\ NewStake(amount, period) \in Stake /\ CalculateWeightedStake(amount, period) \in Nat
  BY <1>1, NewStakeType, WeightOf
<1>3. /\ NewStake(amount, period).amount = amount
      /\ NewStake(amount, period).weightedAmount = CalculateWeightedStake(amount, period)
      /\ NewStake(amount, period).lockupPeriod = period
  BY DEF NewStake
<1> DEFINE x == NewStake(amount, period)
<1>4. x \in Stake /\ x.amount = amount /\ x.lockupPeriod = period
      /\ x.weightedAmount = CalculateWeightedStake(amount, period) /\ x.weightedAmount \in Nat
  BY <1>2, <1>3
<1> HIDE DEF x
<1>5. Amount[x] = amount /\ Heaviness[x] = CalculateWeightedStake(amount, period)
  BY <1>4, MeasureTypes
<1>6. ASSUME NEW k \in Buckets
      PROVE  AmountIn(k)[x] = IF k = FindBucket(period) THEN amount ELSE 0
  <2>1. AmountIn(k)[x] = IF InBucket(x.lockupPeriod, k) THEN x.amount ELSE 0
    BY <1>4, MeasureTypes
  <2>2. InBucket(period, k) <=> k = FindBucket(period)
    BY BucketIsThe
  <2> QED
    BY <1>4, <2>1, <2>2
<1> QED
  BY <1>4, <1>5, <1>6 DEF x

\* Preparing a portfolio adds nothing.
LEMMA PreparedMeasures ==
    ASSUME NEW s \in Portfolio, Sound(s), now \in Nat
    PROVE  LET e == EnsurePortfolio(s)
           IN  /\ e \in Portfolio /\ Sound(e) /\ e # <<>> /\ Len(e) \in Nat \ {0}
               /\ Measure(Amount, e) = Measure(Amount, s)
               /\ Measure(Heaviness, e) = Measure(Heaviness, s)
               /\ \A k \in Buckets : Measure(AmountIn(k), e) = Measure(AmountIn(k), s)
<1> DEFINE e == EnsurePortfolio(s)
<1>1. /\ e \in Portfolio /\ e # <<>> /\ (s # <<>> => e = s)
      /\ s = <<>> => Len(e) = 1 /\ e[1] = NewStake(0, 0)
  BY Prepared
<1>2. Len(e) \in Nat \ {0}
  <2> HIDE DEF e
  <2> QED
    BY <1>1, PortfolioFacts
<1> HIDE DEF e
<1>3. CASE s # <<>>
  BY <1>1, <1>2, <1>3 DEF e
<1>4. CASE s = <<>>
  <2> DEFINE x == NewStake(0, 0)
  <2>1. 0 \in 0..MaxLockup
    BY StakeAssumption
  <2>2. CalculateWeightedStake(0, 0) = 0
    BY WeightOf
  <2>3. /\ x \in Stake /\ x.weightedAmount \in Nat /\ x.lockupPeriod = 0
        /\ Amount[x] = 0 /\ Heaviness[x] = 0
    BY <2>1, <2>2, NewStakeMeasures
  <2>4. \A k \in Buckets : AmountIn(k)[x] = 0
    BY <2>1, NewStakeMeasures
  <2> HIDE DEF x
  <2>5. Len(e) = 1 /\ e[1] = x
    BY <1>1, <1>4 DEF x
  <2>6. Sound(e)
    BY <2>1, <2>3, <2>5 DEF Sound
  <2>7. /\ Measure(Amount, e) = 0 /\ Measure(Amount, s) = 0
        /\ Measure(Heaviness, e) = 0 /\ Measure(Heaviness, s) = 0
    BY <1>1, <1>4, <2>3, <2>5, MeasureSmall, MeasureTypes
  <2>8. \A k \in Buckets : Measure(AmountIn(k), e) = 0 /\ Measure(AmountIn(k), s) = 0
    BY <1>1, <1>4, <2>4, <2>5, MeasureSmall, MeasureTypes
  <2> QED
    BY <1>1, <1>2, <2>6, <2>7, <2>8 DEF e
<1> QED
  BY <1>3, <1>4

\* What a stake measures, by the bucket it is in.
LEMMA StakeMeasures ==
    ASSUME NEW x \in Stake, x.lockupPeriod \in 0..MaxLockup
    PROVE  /\ Amount[x] = x.amount /\ Heaviness[x] = x.weightedAmount
           /\ FindBucket(x.lockupPeriod) \in Buckets
           /\ \A k \in Buckets :
                 AmountIn(k)[x] = IF k = FindBucket(x.lockupPeriod) THEN x.amount ELSE 0
<1>1. Amount[x] = x.amount /\ Heaviness[x] = x.weightedAmount
  BY MeasureTypes
<1>2. ASSUME NEW k \in Buckets
      PROVE  AmountIn(k)[x] = IF k = FindBucket(x.lockupPeriod) THEN x.amount ELSE 0
  <2>1. AmountIn(k)[x] = IF InBucket(x.lockupPeriod, k) THEN x.amount ELSE 0
    BY MeasureTypes
  <2>2. InBucket(x.lockupPeriod, k) <=> k = FindBucket(x.lockupPeriod)
    BY BucketIsThe
  <2> QED
    BY <2>1, <2>2
<1> QED
  BY <1>1, <1>2, BucketIsThe

\* Every stake of a sound portfolio is one with natural amounts.
LEMMA SoundStakes ==
    ASSUME NEW s \in Portfolio, Sound(s), NEW k \in 1..Len(s)
    PROVE  /\ s[k] \in Stake /\ s[k].amount \in Nat /\ s[k].weightedAmount \in Nat
           /\ s[k].lockupPeriod \in 0..MaxLockup /\ (k >= 2 => s[k].amount > 0)
  BY PortfolioFacts DEF Sound, Stake

\* A stake adds its amount, its weight, and its amount to its bucket.
LEMMA StakeAdds ==
    ASSUME NEW s \in Portfolio, Sound(s), now \in Nat, NEW amount \in Nat \ {0},
           NEW period \in 0..MaxLockup, period > 0 => Len(EnsurePortfolio(s)) < MaxStakes
    PROVE  LET r == WithStake(EnsurePortfolio(s), amount, period)
           IN  /\ r \in Portfolio /\ Sound(r)
               /\ Moves(r, s, amount, CalculateWeightedStake(amount, period),
                        FindBucket(period))
<1> DEFINE e == EnsurePortfolio(s)
           r == WithStake(e, amount, period)
           weight == CalculateWeightedStake(amount, period)
           bucket == FindBucket(period)
<1>1. /\ e \in Portfolio /\ Sound(e) /\ e # <<>> /\ Len(e) \in Nat \ {0}
      /\ Measure(Amount, e) = Measure(Amount, s)
      /\ Measure(Heaviness, e) = Measure(Heaviness, s)
      /\ \A k \in Buckets : Measure(AmountIn(k), e) = Measure(AmountIn(k), s)
  BY PreparedMeasures
<1>2. weight \in Nat /\ bucket \in Buckets /\ amount \in Nat /\ period \in Nat
  <2>1. amount \in Nat /\ period \in Nat
    BY StakeAssumption
  <2>2. weight \in Nat
    BY <2>1, WeightOf
  <2> QED
    BY <2>1, <2>2, BucketIsThe
<1>3. period > 0 => Len(e) < MaxStakes
  OBVIOUS
<1>4. \A k \in Buckets : /\ Amount \in [Stake -> Int] /\ Heaviness \in [Stake -> Int]
                         /\ AmountIn(k) \in [Stake -> Int]
  BY MeasureTypes
<1> HIDE DEF e
<1>5. CASE period = 0
  <2> DEFINE x == e[1]
             y == r[1]
  <2>1. /\ r \in Portfolio /\ Len(r) = Len(e)
        /\ r[1] = [amount |-> e[1].amount + amount, weightedAmount |-> e[1].weightedAmount + weight,
                   lockupEndTime |-> now, lockupPeriod |-> 0]
        /\ \A k \in 2..Len(e) : r[k] = e[k]
    BY <1>1, <1>2, <1>5, AddedToFirst
  <2>2. x \in Stake /\ x.amount \in Nat /\ x.weightedAmount \in Nat /\ x.lockupPeriod = 0
    BY <1>1, SoundStakes, PortfolioFacts
  <2> HIDE DEF r, weight
  <2>3. /\ y.amount = x.amount + amount /\ y.weightedAmount = x.weightedAmount + weight
        /\ y.lockupPeriod = 0
    BY <2>1
  <2>4. y \in Stake
    BY <1>1, <2>1, PortfolioFacts
  <2>5. ChangedAt(e, 1, r) /\ 1 \in 1..Len(e)
    BY <1>1, <2>1 DEF ChangedAt
  <2>6. Sound(r)
    <3> SUFFICES ASSUME NEW k \in 1..Len(r)
                 PROVE  /\ r[k].weightedAmount \in Nat /\ r[k].lockupPeriod \in 0..MaxLockup
                        /\ k >= 2 => r[k].amount > 0
      BY DEF Sound
    <3>1. CASE k = 1
      BY <1>2, <1>5, <2>2, <2>3, <3>1
    <3>2. CASE k # 1
      <4>1. k \in 2..Len(e) /\ k \in 1..Len(e)
        BY <2>1, <3>2
      <4> QED
        BY <1>1, <2>1, <4>1, SoundStakes
    <3> QED
      BY <3>1, <3>2
  <2> HIDE DEF x, y
  <2>7. /\ Amount[y] = Amount[x] + amount /\ Heaviness[y] = Heaviness[x] + weight
        /\ \A k \in Buckets : AmountIn(k)[y] = AmountIn(k)[x] + (IF k = bucket THEN amount ELSE 0)
    <3>1. x.lockupPeriod \in 0..MaxLockup /\ y.lockupPeriod \in 0..MaxLockup
      BY <1>5, <2>2, <2>3
    <3>2. /\ Amount[x] = x.amount /\ Heaviness[x] = x.weightedAmount
          /\ \A k \in Buckets : AmountIn(k)[x] = IF k = FindBucket(0) THEN x.amount ELSE 0
      BY <2>2, <3>1, StakeMeasures
    <3>3. /\ Amount[y] = y.amount /\ Heaviness[y] = y.weightedAmount
          /\ \A k \in Buckets : AmountIn(k)[y] = IF k = FindBucket(0) THEN y.amount ELSE 0
      BY <2>3, <2>4, <3>1, StakeMeasures
    <3>4. bucket = FindBucket(0)
      BY <1>5
    <3> QED
      BY <1>2, <2>2, <2>3, <3>2, <3>3, <3>4
  <2>8. \A m \in [Stake -> Int] : Measure(m, r) = Measure(m, e) + (m[y] - m[x])
    BY <1>1, <2>1, <2>5, MeasureReplaced DEF x, y
  <2>9. /\ Measure(Amount, e) \in Int /\ Measure(Heaviness, e) \in Int
        /\ Amount[x] \in Int /\ Heaviness[x] \in Int
    BY <1>1, <1>2, <1>4, <2>2, MeasureTerms
  <2>10. \A k \in Buckets : Measure(AmountIn(k), e) \in Int /\ AmountIn(k)[x] \in Int
    BY <1>1, <1>4, <2>2, MeasureTerms
  <2>11. /\ Measure(Amount, r) = Measure(Amount, s) + amount
         /\ Measure(Heaviness, r) = Measure(Heaviness, s) + weight
    <3>1. Amount \in [Stake -> Int] /\ Heaviness \in [Stake -> Int]
      BY MeasureTypes
    <3>2. /\ Measure(Amount, r) = Measure(Amount, e) + (Amount[y] - Amount[x])
          /\ Measure(Heaviness, r) = Measure(Heaviness, e) + (Heaviness[y] - Heaviness[x])
      BY <2>8, <3>1
    <3> QED
      BY <1>1, <1>2, <2>7, <2>9, <3>2
  <2>12. ASSUME NEW k \in Buckets
         PROVE  Measure(AmountIn(k), r)
                   = Measure(AmountIn(k), s) + (IF k = bucket THEN amount ELSE 0)
    <3> DEFINE m == AmountIn(k)
               more == IF k = bucket THEN amount ELSE 0
    <3>1. Measure(m, r) = Measure(m, e) + (m[y] - m[x]) /\ m[y] = m[x] + more
      BY <1>4, <2>7, <2>8
    <3>2. Measure(m, e) = Measure(m, s) /\ Measure(m, e) \in Int /\ m[x] \in Int /\ more \in Int
      BY <1>1, <1>2, <2>10
    <3> HIDE DEF m, more
    <3>3. Measure(m, r) = Measure(m, s) + more
      BY <3>1, <3>2
    <3> QED
      BY <3>3 DEF m, more
  <2> QED
    BY <2>1, <2>6, <2>11, <2>12 DEF Moves, r, weight, e
<1>6. CASE period > 0
  <2> DEFINE x == NewStake(amount, period)
  <2>1. /\ r \in Portfolio /\ Len(r) = Len(e) + 1
        /\ r[Len(e) + 1] = x /\ \A k \in 1..Len(e) : r[k] = e[k]
    BY <1>1, <1>2, <1>3, <1>6, Appended
  <2>2. /\ x \in Stake /\ x.weightedAmount \in Nat /\ x.lockupPeriod = period
        /\ Amount[x] = amount /\ Heaviness[x] = weight
        /\ \A k \in Buckets : AmountIn(k)[x] = IF k = bucket THEN amount ELSE 0
    BY <1>2, NewStakeMeasures
  <2>3. x.amount = amount
    BY DEF NewStake
  <2> HIDE DEF r, weight, x, bucket
  <2>4. Sound(r)
    <3> SUFFICES ASSUME NEW k \in 1..Len(r)
                 PROVE  /\ r[k].weightedAmount \in Nat /\ r[k].lockupPeriod \in 0..MaxLockup
                        /\ k >= 2 => r[k].amount > 0
      BY DEF Sound
    <3>1. CASE k = Len(e) + 1
      BY <1>2, <2>1, <2>2, <2>3, <3>1
    <3>2. CASE k # Len(e) + 1
      <4>1. k \in 1..Len(e)
        BY <1>1, <2>1, <3>2
      <4> QED
        BY <1>1, <2>1, <4>1, SoundStakes
    <3> QED
      BY <3>1, <3>2
  <2>5. \A m \in [Stake -> Int] : Measure(m, r) = Measure(m, e) + m[x]
    <3>1. r[Len(r)] = x
      BY <2>1
    <3>2. ASSUME NEW m \in [Stake -> Int] PROVE Measure(m, r) = Measure(m, e) + m[r[Len(r)]]
      BY <1>1, <2>1, MeasureAppended
    <3> QED
      BY <3>1, <3>2
  <2>6. /\ Measure(Amount, r) = Measure(Amount, s) + amount
        /\ Measure(Heaviness, r) = Measure(Heaviness, s) + weight
    BY <1>1, <1>2, <1>4, <2>2, <2>5
  <2>7. ASSUME NEW k \in Buckets
        PROVE  Measure(AmountIn(k), r)
                  = Measure(AmountIn(k), s) + (IF k = bucket THEN amount ELSE 0)
    BY <1>1, <1>4, <2>2, <2>5
  <2> QED
    BY <2>1, <2>4, <2>6, <2>7 DEF Moves, r, weight, e, bucket
<1> QED
  BY <1>2, <1>5, <1>6

\* What is left of a stake of which an amount is taken.
LeftOf(stake, amount) ==
    [stake EXCEPT !.amount = @ - amount, !.weightedAmount = @ - WeightToRemove(stake, amount)]

\* The portfolio an exit leaves behind.
PortfolioAfter(s, i, amount) ==
    LET left == LeftOf(s[i + 1], amount) IN
    IF left.amount = 0 /\ i # 0 THEN RemoveStake(s, i) ELSE [s EXCEPT ![i + 1] = left]

\* A part of a stake takes a part of its weight, all of it all.
LEMMA WeightTaken ==
    ASSUME NEW stake \in Stake, stake.weightedAmount \in Nat, NEW amount \in Nat \ {0},
           amount <= stake.amount
    PROVE  LET weight == WeightToRemove(stake, amount)
           IN  /\ weight \in Nat /\ weight <= stake.weightedAmount
               /\ amount = stake.amount => weight = stake.weightedAmount
<1> DEFINE a == stake.amount
           w == stake.weightedAmount
           q == (w * amount) \div a
<1>1. a \in Nat \ {0} /\ w \in Nat /\ amount <= a
  BY DEF Stake
<1>2. WeightToRemove(stake, amount) = q
  BY DEF WeightToRemove
<1> HIDE DEF a, w
<1>3. w * amount \in Nat
  BY <1>1, Product
<1>4. q \in Nat /\ a * q <= w * amount /\ w * amount < a * q + a
  BY <1>1, <1>3, Division
<1> HIDE DEF q
<1>5. w * amount <= a * w
  <2>1. PICK e \in Nat : a = amount + e
    <3>1. a - amount \in Nat /\ a = amount + (a - amount)
      BY <1>1
    <3> QED
      BY <3>1
  <2>2. a * w = w * amount + w * e /\ w * e \in Nat
    BY <1>1, <2>1
  <2> QED
    BY <1>3, <2>2
<1>6. q <= w
  <2>1. a * q \in Nat /\ a * w \in Nat
    BY <1>1, <1>4
  <2>2. a * q <= a * w
    BY <1>3, <1>4, <1>5, <2>1
  <2> QED
    BY <1>1, <1>4, <2>2, Cancel
<1>7. amount = a => q = w
  <2> SUFFICES ASSUME amount = a PROVE w <= q
    BY <1>1, <1>4, <1>6
  <2>1. w * amount = a * w /\ a * w \in Nat /\ a * q \in Nat /\ a * (q + 1) = a * q + a
        /\ a * (q + 1) \in Nat
    BY <1>1, <1>4
  <2>2. a * w < a * (q + 1)
    BY <1>4, <2>1
  <2>3. w < q + 1
    BY <1>1, <1>4, <2>2, Cancel
  <2> QED
    BY <1>1, <1>4, <2>3
<1> QED
  BY <1>2, <1>4, <1>6, <1>7 DEF a, w

\* An exit takes its amount, its share of the weight, and the amount out of the
\* bucket of the lockup.
LEMMA ExitTakes ==
    ASSUME NEW s \in Portfolio, Sound(s), NEW i \in Nat, i < Len(s),
           NEW amount \in Nat \ {0}, amount <= s[i + 1].amount
    PROVE  LET r == PortfolioAfter(s, i, amount)
           IN  /\ r \in Portfolio /\ Sound(r)
               /\ Moves(r, s, -amount, -WeightToRemove(s[i + 1], amount),
                        FindBucket(s[i + 1].lockupPeriod))
<1> DEFINE x == s[i + 1]
           j == i + 1
           y == LeftOf(x, amount)
           weight == WeightToRemove(x, amount)
           bucket == FindBucket(x.lockupPeriod)
           r == PortfolioAfter(s, i, amount)
<1>1. /\ j \in 1..Len(s) /\ x \in Stake /\ x.amount \in Nat /\ x.weightedAmount \in Nat
      /\ x.lockupPeriod \in 0..MaxLockup /\ (j >= 2 => x.amount > 0) /\ Len(s) \in Nat
  BY SoundStakes, PortfolioFacts
<1>2. /\ weight \in Nat /\ weight <= x.weightedAmount
      /\ amount = x.amount => weight = x.weightedAmount
  BY <1>1, WeightTaken
<1>3. amount \in Nat /\ amount > 0 /\ amount <= x.amount
  OBVIOUS
<1> HIDE DEF x, weight
<1>4. /\ y \in Stake /\ y.amount = x.amount - amount
      /\ y.weightedAmount = x.weightedAmount - weight /\ y.lockupPeriod = x.lockupPeriod
      /\ y.amount \in Nat /\ y.weightedAmount \in Nat
  <2> DEFINE a == x.amount - amount
             w == x.weightedAmount - weight
  <2>1. a \in Nat /\ w \in Nat
    BY <1>1, <1>2, <1>3
  <2>2. y = [x EXCEPT !.amount = a, !.weightedAmount = w]
    BY <1>1 DEF LeftOf, weight, Stake
  <2> HIDE DEF a, w, y
  <2>3. y \in Stake /\ y.amount = a /\ y.weightedAmount = w /\ y.lockupPeriod = x.lockupPeriod
    <3>1. y = [amount |-> a, weightedAmount |-> w, lockupEndTime |-> x.lockupEndTime,
               lockupPeriod |-> x.lockupPeriod]
      BY <1>1, <2>2 DEF Stake
    <3>2. x.lockupEndTime \in Int /\ x.lockupPeriod \in Int /\ a \in Nat /\ w \in Int
      BY <1>1, <2>1 DEF Stake
    <3> QED
      BY <3>1, <3>2 DEF Stake
  <2> QED
    BY <2>1, <2>3 DEF a, w
<1>5. r = IF y.amount = 0 /\ i # 0 THEN RemoveStake(s, i) ELSE [s EXCEPT ![j] = y]
  BY DEF PortfolioAfter, x
<1> HIDE DEF y, r
<1>6. bucket \in Buckets /\ Amount[x] = x.amount /\ Heaviness[x] = x.weightedAmount
  BY <1>1, StakeMeasures
<1>7. \A k \in Buckets : AmountIn(k)[x] = IF k = bucket THEN x.amount ELSE 0
  BY <1>1, StakeMeasures
<1>8. /\ Amount \in [Stake -> Int] /\ Heaviness \in [Stake -> Int]
      /\ \A k \in Buckets : AmountIn(k) \in [Stake -> Int]
  BY MeasureTypes
<1>9. /\ Measure(Amount, s) \in Int /\ Measure(Heaviness, s) \in Int
      /\ \A k \in Buckets : Measure(AmountIn(k), s) \in Int
  BY <1>8, MeasureTerms
<1>10. CASE y.amount = 0 /\ i # 0
  <2>1. /\ r \in Portfolio /\ Len(r) = Len(s) - 1
        /\ \A k \in 1..(Len(s) - 1) : r[k] = IF k = j THEN s[Len(s)] ELSE s[k]
    BY <1>1, <1>5, <1>10, Removed
  <2>2. PoppedAt(s, j, r)
    BY <2>1 DEF PoppedAt
  <2>3. x.amount = amount /\ x.weightedAmount = weight
    BY <1>1, <1>2, <1>3, <1>4, <1>10
  <2>4. Sound(r)
    <3> SUFFICES ASSUME NEW k \in 1..Len(r)
                 PROVE  /\ r[k].weightedAmount \in Nat /\ r[k].lockupPeriod \in 0..MaxLockup
                        /\ k >= 2 => r[k].amount > 0
      BY DEF Sound
    <3>1. k \in 1..Len(s) /\ Len(s) \in 1..Len(s) /\ Len(s) >= 2 /\ k \in 1..(Len(s) - 1)
      BY <1>1, <1>10, <2>1
    <3>2. r[k] = s[Len(s)] \/ r[k] = s[k]
      BY <2>1, <3>1
    <3>3. /\ s[k].weightedAmount \in Nat /\ s[k].lockupPeriod \in 0..MaxLockup
          /\ k >= 2 => s[k].amount > 0
      BY <3>1, SoundStakes
    <3>4. /\ s[Len(s)].weightedAmount \in Nat /\ s[Len(s)].lockupPeriod \in 0..MaxLockup
          /\ s[Len(s)].amount > 0
      BY <3>1, SoundStakes
    <3> QED
      BY <3>2, <3>3, <3>4
  <2>5. \A m \in [Stake -> Int] : Measure(m, r) = Measure(m, s) - m[x]
    BY <1>1, <2>1, <2>2, MeasureRemoved DEF x
  <2>6. /\ Measure(Amount, r) = Measure(Amount, s) - amount
        /\ Measure(Heaviness, r) = Measure(Heaviness, s) - weight
    <3>1. /\ Measure(Amount, r) = Measure(Amount, s) - Amount[x]
          /\ Measure(Heaviness, r) = Measure(Heaviness, s) - Heaviness[x]
      BY <1>8, <2>5
    <3> QED
      BY <1>6, <2>3, <3>1
  <2>7. ASSUME NEW k \in Buckets
        PROVE  Measure(AmountIn(k), r)
                  = Measure(AmountIn(k), s) + (IF k = bucket THEN -amount ELSE 0)
    <3>1. Measure(AmountIn(k), r) = Measure(AmountIn(k), s) - AmountIn(k)[x]
      BY <1>8, <2>5
    <3>2. AmountIn(k)[x] = (IF k = bucket THEN amount ELSE 0) /\ Measure(AmountIn(k), s) \in Int
      BY <1>7, <1>9, <2>3
    <3> DEFINE A == Measure(AmountIn(k), s)
               B == Measure(AmountIn(k), r)
               C == AmountIn(k)[x]
    <3>3. A \in Int /\ B = A - C /\ C = IF k = bucket THEN amount ELSE 0
      BY <3>1, <3>2
    <3> HIDE DEF A, B, C, bucket
    <3>4. B = A + (IF k = bucket THEN -amount ELSE 0)
      BY <1>3, <3>3
    <3> QED
      BY <3>4 DEF A, B
  <2>8. /\ Measure(Amount, s) - amount = Measure(Amount, s) + -amount
        /\ Measure(Heaviness, s) - weight = Measure(Heaviness, s) + -weight
    BY <1>2, <1>3, <1>9
  <2> QED
    BY <2>1, <2>4, <2>6, <2>7, <2>8 DEF Moves, r, weight, x
<1>11. CASE ~(y.amount = 0 /\ i # 0)
  <2>1. /\ r \in Portfolio /\ Len(r) = Len(s)
        /\ \A k \in 1..Len(s) : r[k] = IF k = j THEN y ELSE s[k]
    <3>1. r = [s EXCEPT ![j] = y] /\ y.lockupPeriod = s[j].lockupPeriod
      BY <1>4, <1>5, <1>11 DEF x
    <3>2. j \in 1..Len(s) /\ y \in Stake
      BY <1>1, <1>4
    <3>3. y.lockupPeriod = s[j].lockupPeriod
      BY <3>1
    <3> HIDE DEF j
    <3> DEFINE q == [s EXCEPT ![j] = y]
    <3>4. /\ q \in Portfolio /\ Len(q) = Len(s)
          /\ \A k \in 1..Len(s) : q[k] = IF k = j THEN y ELSE s[k]
      BY <3>2, <3>3, Replaced
    <3> HIDE DEF q
    <3> QED
      BY <3>1, <3>4 DEF q
  <2>2. ChangedAt(s, j, r) /\ r[j] = y
    BY <1>1, <2>1 DEF ChangedAt
  <2>4. Sound(r)
    <3> SUFFICES ASSUME NEW k \in 1..Len(r)
                 PROVE  /\ r[k].weightedAmount \in Nat /\ r[k].lockupPeriod \in 0..MaxLockup
                        /\ k >= 2 => r[k].amount > 0
      BY DEF Sound
    <3>1. CASE k = j
      <4>1. r[k] = y /\ (k >= 2 => i # 0)
        BY <1>1, <2>2, <3>1
      <4>2. k >= 2 => y.amount # 0
        BY <1>11, <4>1
      <4> QED
        BY <1>1, <1>4, <4>1, <4>2, SMTT(60)
    <3>2. CASE k # j
      <4>1. k \in 1..Len(s) /\ r[k] = s[k]
        BY <2>1, <3>2
      <4> QED
        BY <4>1, SoundStakes
    <3> QED
      BY <3>1, <3>2
  <2>5. \A m \in [Stake -> Int] : Measure(m, r) = Measure(m, s) + (m[y] - m[x])
    <3>1. \A m \in [Stake -> Int] : Measure(m, r) = Measure(m, s) + (m[r[j]] - m[s[j]])
      BY <1>1, <2>1, <2>2, MeasureReplaced
    <3> QED
      BY <2>2, <3>1 DEF x
  <2>6. Amount[y] = y.amount /\ Heaviness[y] = y.weightedAmount
    BY <1>1, <1>4, StakeMeasures
  <2>7. \A k \in Buckets : AmountIn(k)[y] = IF k = bucket THEN y.amount ELSE 0
    BY <1>1, <1>4, StakeMeasures
  <2>8. /\ Measure(Amount, r) = Measure(Amount, s) + -amount
        /\ Measure(Heaviness, r) = Measure(Heaviness, s) + -weight
    <3>1. /\ Measure(Amount, r) = Measure(Amount, s) + (Amount[y] - Amount[x])
          /\ Measure(Heaviness, r) = Measure(Heaviness, s) + (Heaviness[y] - Heaviness[x])
      BY <1>8, <2>5
    <3>2. Amount[y] - Amount[x] = -amount /\ Heaviness[y] - Heaviness[x] = -weight
      <4> DEFINE m1 == Amount[x]
                 m2 == Amount[y]
                 h1 == Heaviness[x]
                 h2 == Heaviness[y]
      <4>1. m1 \in Nat /\ m2 = m1 - amount
        BY <1>1, <1>4, <1>6, <2>6
      <4>2. h1 \in Nat /\ h2 = h1 - weight
        BY <1>1, <1>4, <1>6, <2>6
      <4> HIDE DEF m1, m2, h1, h2
      <4>3. m2 - m1 = -amount
        BY <1>3, <4>1
      <4>4. h2 - h1 = -weight
        BY <1>2, <4>2
      <4> QED
        BY <4>3, <4>4 DEF m1, m2, h1, h2
    <3> QED
      BY <3>1, <3>2
  <2>9. ASSUME NEW k \in Buckets
        PROVE  Measure(AmountIn(k), r)
                  = Measure(AmountIn(k), s) + (IF k = bucket THEN -amount ELSE 0)
    <3> DEFINE A == Measure(AmountIn(k), s)
               B == Measure(AmountIn(k), r)
               C == AmountIn(k)[x]
               D == AmountIn(k)[y]
    <3>1. A \in Int /\ B = A + (D - C)
      BY <1>8, <1>9, <2>5
    <3>2. /\ C = IF k = bucket THEN x.amount ELSE 0
          /\ D = IF k = bucket THEN y.amount ELSE 0
      BY <1>7, <2>7
    <3> HIDE DEF A, B, C, D, bucket
    <3>3. B = A + (IF k = bucket THEN -amount ELSE 0)
      BY <1>1, <1>3, <1>4, <3>1, <3>2
    <3> QED
      BY <3>3 DEF A, B
  <2> QED
    BY <2>1, <2>4, <2>8, <2>9 DEF Moves, r, weight, x
<1> QED
  BY <1>10, <1>11

---------------------------------------------------------------------------
(* The ledgers *)

StakeTypes ==
    /\ scope \in Scopes /\ now \in Nat
    /\ portfolio \in [Deployments -> [Users -> Portfolio]]
    /\ balances \in [Deployments -> [Users -> Int]]
    /\ weightedBalances \in [Deployments -> [Users -> Int]]
    /\ totalSupply \in [Deployments -> Int]
    /\ wrapped \in [Deployments -> Int]
    /\ bucketStaked \in [Deployments -> [Buckets -> Int]]
    /\ xSumr \in [Users -> Int]

AllSound == \A d \in Deployments, u \in Users : Sound(portfolio[d][u])

\* The inductive invariant of the ledgers: that weights are natural and that a
\* lockup is within the longest bucket make an exit take what the stake gave.
StakeInv == StakeTypes /\ AllSound /\ StakeLedgersAgree

\* The bounds of a behaviour.
LEMMA ScopeFacts ==
    ASSUME scope \in Scopes
    PROVE  /\ scope.amounts \subseteq Nat \ {0} /\ scope.periods \subseteq 0..MaxLockup
           /\ scope.periods \subseteq Nat /\ scope.time \in Nat
           /\ \A d \in Deployments : scope.stakers[d] \subseteq Users
           /\ scope.rewarded \subseteq Deployments /\ scope.governed \subseteq Deployments
           /\ scope.burners \subseteq Users
<1>1. scope \in [stakers : [Deployments -> SUBSET Users], wallets : [Users -> Nat],
                 amounts : SUBSET (Nat \ {0}), periods : SUBSET (0..MaxLockup),
                 delegations : SUBSET (Deployments \X Users \X Users),
                 burners : SUBSET Users, rewarded : SUBSET Deployments,
                 governed : SUBSET Deployments,
                 time : Nat, governance : Nat]
  BY ScopeAssumption
<1>2. 0..MaxLockup \subseteq Nat
  BY StakeAssumption
<1> QED
  BY <1>1, <1>2

\* One entry of a table of two arguments changes.
LEMMA EntryChanges ==
    ASSUME NEW X, NEW Y, NEW V, NEW f \in [X -> [Y -> V]], NEW x \in X, NEW y \in Y, NEW v \in V
    PROVE  LET g == [f EXCEPT ![x][y] = v]
           IN  /\ g \in [X -> [Y -> V]]
               /\ \A a \in X, b \in Y : g[a][b] = IF a = x /\ b = y THEN v ELSE f[a][b]
  OBVIOUS

\* A portfolio and the entries of all ledgers that go with it change together.
LEMMA LedgersMove ==
    ASSUME StakeInv, NEW d \in Deployments, NEW u \in Users, NEW a \in Int, NEW w \in Int,
           NEW k \in Buckets, NEW r \in Portfolio, Sound(r),
           Moves(r, portfolio[d][u], a, w, k), scope' = scope, now' = now,
           portfolio' = [portfolio EXCEPT ![d][u] = r],
           balances' = [balances EXCEPT ![d][u] = @ + a],
           weightedBalances' = [weightedBalances EXCEPT ![d][u] = @ + w],
           totalSupply' = [totalSupply EXCEPT ![d] = @ + w],
           bucketStaked' = [bucketStaked EXCEPT ![d][k] = @ + a],
           wrapped' = [wrapped EXCEPT ![d] = @ + a],
           xSumr' = [xSumr EXCEPT ![u] = @ + a]
    PROVE  StakeInv'
<1> DEFINE s == portfolio[d][u]
<1>1. StakeTypes /\ AllSound /\ StakeLedgersAgree /\ s \in Portfolio
  BY DEF StakeInv, StakeTypes
<1>f. IsFiniteSet(Users) /\ IsFiniteSet(Deployments)
  BY ScopeAssumption
<1>2. /\ portfolio' \in [Deployments -> [Users -> Portfolio]]
      /\ \A e \in Deployments, v \in Users :
            portfolio'[e][v] = IF e = d /\ v = u THEN r ELSE portfolio[e][v]
  <2>1. portfolio \in [Deployments -> [Users -> Portfolio]]
    BY <1>1 DEF StakeTypes
  <2> QED
    BY <2>1, EntryChanges
<1>3. /\ balances' \in [Deployments -> [Users -> Int]]
      /\ \A e \in Deployments, v \in Users :
            balances'[e][v] = IF e = d /\ v = u THEN balances[d][u] + a ELSE balances[e][v]
  <2>1. balances[d][u] + a \in Int /\ balances \in [Deployments -> [Users -> Int]]
    BY <1>1 DEF StakeTypes
  <2> QED
    BY <2>1, EntryChanges
<1>4. /\ weightedBalances' \in [Deployments -> [Users -> Int]]
      /\ \A e \in Deployments, v \in Users :
            weightedBalances'[e][v]
               = IF e = d /\ v = u THEN weightedBalances[d][u] + w ELSE weightedBalances[e][v]
  <2>1. /\ weightedBalances[d][u] + w \in Int
        /\ weightedBalances \in [Deployments -> [Users -> Int]]
    BY <1>1 DEF StakeTypes
  <2> QED
    BY <2>1, EntryChanges
<1>5. /\ bucketStaked' \in [Deployments -> [Buckets -> Int]]
      /\ \A e \in Deployments, j \in Buckets :
            bucketStaked'[e][j]
               = IF e = d /\ j = k THEN bucketStaked[d][k] + a ELSE bucketStaked[e][j]
  <2>1. /\ bucketStaked[d][k] + a \in Int
        /\ bucketStaked \in [Deployments -> [Buckets -> Int]]
    BY <1>1 DEF StakeTypes
  <2> QED
    BY <2>1, EntryChanges
<1>6. /\ totalSupply' \in [Deployments -> Int] /\ wrapped' \in [Deployments -> Int]
      /\ xSumr' \in [Users -> Int]
      /\ \A e \in Deployments :
            /\ totalSupply'[e] = IF e = d THEN totalSupply[d] + w ELSE totalSupply[e]
            /\ wrapped'[e] = IF e = d THEN wrapped[d] + a ELSE wrapped[e]
      /\ \A v \in Users : xSumr'[v] = IF v = u THEN xSumr[u] + a ELSE xSumr[v]
  BY <1>1 DEF StakeTypes
<1>7. StakeTypes'
  BY <1>1, <1>2, <1>3, <1>4, <1>5, <1>6 DEF StakeTypes
<1>8. AllSound'
  <2>1. \A e \in Deployments, v \in Users : Sound(portfolio'[e][v])
    BY <1>1, <1>2 DEF AllSound
  <2> QED
    BY <2>1 DEF AllSound
<1>9. /\ Staked(r) = Staked(s) + a /\ Weight(r) = Weight(s) + w
      /\ \A j \in Buckets : StakedIn(r, j) = StakedIn(s, j) + (IF j = k THEN a ELSE 0)
      /\ \A j \in Buckets : StakedIn(s, j) \in Int
  <2>1. /\ Measure(Amount, r) = Measure(Amount, s) + a
        /\ Measure(Heaviness, r) = Measure(Heaviness, s) + w
        /\ \A j \in Buckets : Measure(AmountIn(j), r)
                                 = Measure(AmountIn(j), s) + (IF j = k THEN a ELSE 0)
    BY DEF Moves
  <2>2. \A p \in Portfolio : /\ Staked(p) = Measure(Amount, p)
                             /\ Weight(p) = Measure(Heaviness, p)
                             /\ \A j \in Buckets : StakedIn(p, j) = Measure(AmountIn(j), p)
    BY SumsAreMeasures
  <2>3. \A j \in Buckets : Measure(AmountIn(j), s) \in Int
    BY <1>1, MeasureTypes, MeasureTerms
  <2> HIDE DEF s
  <2> QED
    BY <1>1, <2>1, <2>2, <2>3
<1>l. \A e \in Deployments :
         /\ \A v \in Users :
               /\ balances[e][v] = Staked(portfolio[e][v])
               /\ weightedBalances[e][v] = Weight(portfolio[e][v])
         /\ totalSupply[e] = SumOver(weightedBalances[e], Users)
         /\ wrapped[e] = SumOver(balances[e], Users)
         /\ \A j \in Buckets :
               bucketStaked[e][j] = SumOver([v \in Users |-> StakedIn(portfolio[e][v], j)], Users)
  BY <1>1 DEF StakeLedgersAgree
<1>10. ASSUME NEW e \in Deployments, NEW v \in Users
       PROVE  /\ balances'[e][v] = Staked(portfolio'[e][v])
              /\ weightedBalances'[e][v] = Weight(portfolio'[e][v])
              /\ \A i \in 2..Len(portfolio'[e][v]) : portfolio'[e][v][i].amount > 0
  <2>1. CASE e = d /\ v = u
    <3>1. portfolio'[e][v] = r
      BY <1>2, <2>1
    <3>2. \A i \in 2..Len(r) : i \in 1..Len(r) /\ i >= 2
      BY PortfolioFacts
    <3>3. \A i \in 2..Len(r) : r[i].amount > 0
      BY <3>2 DEF Sound
    <3>4. /\ balances'[e][v] = balances[d][u] + a
          /\ weightedBalances'[e][v] = weightedBalances[d][u] + w
      BY <1>3, <1>4, <2>1
    <3> QED
      BY <1>9, <1>l, <3>1, <3>3, <3>4
  <2>2. CASE ~(e = d /\ v = u)
    <3>1. /\ portfolio'[e][v] = portfolio[e][v] /\ balances'[e][v] = balances[e][v]
          /\ weightedBalances'[e][v] = weightedBalances[e][v]
      BY <1>2, <1>3, <1>4, <2>2
    <3>2. \A i \in 2..Len(portfolio[e][v]) : portfolio[e][v][i].amount > 0
      BY <1>1 DEF StakeLedgersAgree
    <3> QED
      BY <1>l, <3>1, <3>2
  <2> QED
    BY <2>1, <2>2
<1>11. ASSUME NEW e \in Deployments
       PROVE  /\ totalSupply'[e] = SumOver(weightedBalances'[e], Users)
              /\ wrapped'[e] = SumOver(balances'[e], Users)
  <2> DEFINE f == weightedBalances[e]
             g == weightedBalances'[e]
             h == balances[e]
             i == balances'[e]
  <2>1. /\ \A v \in Users : /\ f[v] \in Int /\ g[v] \in Int
                            /\ g[v] = IF e = d /\ v = u THEN f[v] + w ELSE f[v]
    BY <1>1, <1>4 DEF StakeTypes
  <2>2. /\ \A v \in Users : /\ h[v] \in Int /\ i[v] \in Int
                            /\ i[v] = IF e = d /\ v = u THEN h[v] + a ELSE h[v]
    BY <1>1, <1>3 DEF StakeTypes
  <2>3. totalSupply[e] = SumOver(f, Users) /\ wrapped[e] = SumOver(h, Users)
    BY <1>l
  <2>4. /\ totalSupply'[e] = IF e = d THEN totalSupply[e] + w ELSE totalSupply[e]
        /\ wrapped'[e] = IF e = d THEN wrapped[e] + a ELSE wrapped[e]
    BY <1>6
  <2> HIDE DEF f, g, h, i
  <2>5. CASE e = d
    <3>1. SumOver(g, Users) = SumOver(f, Users) + (g[u] - f[u])
      BY <1>f, <2>1, SumChange
    <3>2. SumOver(i, Users) = SumOver(h, Users) + (i[u] - h[u])
      BY <1>f, <2>2, SumChange
    <3>3. g[u] - f[u] = w /\ i[u] - h[u] = a
      BY <2>1, <2>2, <2>5
    <3> QED
      BY <2>3, <2>4, <2>5, <3>1, <3>2, <3>3 DEF g, i
  <2>6. CASE e # d
    <3>1. SumOver(g, Users) = SumOver(f, Users)
      BY <1>f, <2>1, <2>6, SumAgrees
    <3>2. SumOver(i, Users) = SumOver(h, Users)
      BY <1>f, <2>2, <2>6, SumAgrees
    <3> QED
      BY <2>3, <2>4, <2>6, <3>1, <3>2 DEF g, i
  <2> QED
    BY <2>5, <2>6
<1>12. ASSUME NEW e \in Deployments, NEW j \in Buckets
       PROVE  bucketStaked'[e][j]
                 = SumOver([v \in Users |-> StakedIn(portfolio'[e][v], j)], Users)
  <2> DEFINE f == [v \in Users |-> StakedIn(portfolio[e][v], j)]
             g == [v \in Users |-> StakedIn(portfolio'[e][v], j)]
             more == IF e = d /\ j = k THEN a ELSE 0
  <2>1. \A v \in Users : f[v] \in Int
    <3>1. \A v \in Users : portfolio[e][v] \in Portfolio
      BY <1>1 DEF StakeTypes
    <3>2. \A p \in Portfolio : StakedIn(p, j) \in Int
      BY SumsAreMeasures, MeasureTypes, MeasureTerms
    <3> QED
      BY <3>1, <3>2
  <2>2. \A v \in Users : g[v] = IF e = d /\ v = u THEN f[v] + more ELSE f[v]
    <3> TAKE v \in Users
    <3>1. CASE e = d /\ v = u
      <4>1. g[v] = StakedIn(r, j) /\ f[v] = StakedIn(s, j)
        BY <1>2, <3>1
      <4> QED
        BY <1>9, <3>1, <4>1
    <3>2. CASE ~(e = d /\ v = u)
      BY <1>2, <3>2
    <3> QED
      BY <3>1, <3>2
  <2>3. bucketStaked[e][j] = SumOver(f, Users)
    BY <1>l
  <2>4. bucketStaked'[e][j] = bucketStaked[e][j] + more
    <3>1. bucketStaked[e][j] \in Int
      BY <1>1 DEF StakeTypes
    <3> QED
      BY <1>5, <3>1
  <2>5. more \in Int
    OBVIOUS
  <2> HIDE DEF f, g, more
  <2>6. CASE e = d
    <3>1. /\ \A v \in Users : f[v] \in Int /\ (v # u => g[v] = f[v])
          /\ g[u] \in Int /\ g[u] - f[u] = more
      BY <2>1, <2>2, <2>5, <2>6
    <3>2. SumOver(g, Users) = SumOver(f, Users) + (g[u] - f[u])
      BY <1>f, <3>1, SumChange
    <3> QED
      BY <2>3, <2>4, <3>1, <3>2 DEF g
  <2>7. CASE e # d
    <3>1. more = 0
      BY <2>7 DEF more
    <3>2. SumOver(g, Users) = SumOver(f, Users)
      BY <1>f, <2>2, <2>7, SumAgrees
    <3>3. SumOver(f, Users) \in Int
      BY <1>f, <2>1, SumInt
    <3> QED
      BY <2>3, <2>4, <3>1, <3>2, <3>3 DEF g
  <2> QED
    BY <2>6, <2>7
<1>13. ASSUME NEW v \in Users
       PROVE  xSumr'[v] <= SumOver([e \in Deployments |-> balances'[e][v]], Deployments)
  <2> DEFINE f == [e \in Deployments |-> balances[e][v]]
             g == [e \in Deployments |-> balances'[e][v]]
  <2>1. \A e \in Deployments : f[e] \in Int /\ g[e] \in Int
                                  /\ g[e] = IF e = d /\ v = u THEN f[e] + a ELSE f[e]
    BY <1>1, <1>3 DEF StakeTypes
  <2>2. xSumr[v] <= SumOver(f, Deployments) /\ xSumr[v] \in Int
    BY <1>1 DEF StakeLedgersAgree, StakeTypes
  <2>3. xSumr'[v] = IF v = u THEN xSumr[v] + a ELSE xSumr[v]
    BY <1>6
  <2> HIDE DEF f, g
  <2>4. SumOver(f, Deployments) \in Int
    BY <1>f, <2>1, SumInt
  <2>5. CASE v = u
    <3>1. SumOver(g, Deployments) = SumOver(f, Deployments) + (g[d] - f[d])
      BY <1>f, <2>1, SumChange
    <3>2. g[d] - f[d] = a
      BY <2>1, <2>5
    <3> QED
      BY <2>2, <2>3, <2>4, <2>5, <3>1, <3>2 DEF g
  <2>6. CASE v # u
    <3>1. SumOver(g, Deployments) = SumOver(f, Deployments)
      BY <1>f, <2>1, <2>6, SumAgrees
    <3> QED
      BY <2>2, <2>3, <2>6, <3>1 DEF g
  <2> QED
    BY <2>5, <2>6
<1>14. StakeLedgersAgree'
  BY <1>10, <1>11, <1>12, <1>13 DEF StakeLedgersAgree
<1> QED
  BY <1>7, <1>8, <1>14 DEF StakeInv

\* At the start nobody has staked.
LEMMA InitStakeInv == StakingInit => StakeInv
<1> SUFFICES ASSUME StakingInit PROVE StakeInv
  OBVIOUS
<1>f. IsFiniteSet(Users) /\ IsFiniteSet(Deployments)
  BY ScopeAssumption
<1>1. /\ scope \in Scopes /\ now = 0 /\ xSumr = [u \in Users |-> 0]
      /\ wrapped = [d \in Deployments |-> 0]
      /\ portfolio = [d \in Deployments |-> [u \in Users |-> <<>>]]
      /\ balances = [d \in Deployments |-> [u \in Users |-> 0]]
      /\ weightedBalances = [d \in Deployments |-> [u \in Users |-> 0]]
      /\ totalSupply = [d \in Deployments |-> 0]
      /\ bucketStaked = [d \in Deployments |-> [k \in Buckets |-> 0]]
  BY DEF StakingInit
<1>2. <<>> \in Portfolio /\ Len(<<>>) = 0
  BY StakeAssumption, EmptySeq DEF Portfolio
<1>3. \A d \in Deployments, u \in Users :
         /\ portfolio[d][u] = <<>> /\ balances[d][u] = 0 /\ weightedBalances[d][u] = 0
  BY <1>1
<1>4. StakeTypes
  BY <1>1, <1>2 DEF StakeTypes
<1>5. AllSound
  BY <1>2, <1>3 DEF AllSound, Sound
<1>6. Staked(<<>>) = 0 /\ Weight(<<>>) = 0 /\ \A k \in Buckets : StakedIn(<<>>, k) = 0
  <2>1. /\ Measure(Amount, <<>>) = 0 /\ Measure(Heaviness, <<>>) = 0
        /\ \A k \in Buckets : Measure(AmountIn(k), <<>>) = 0
    BY MeasureSmall, MeasureTypes
  <2>2. /\ Staked(<<>>) = Measure(Amount, <<>>) /\ Weight(<<>>) = Measure(Heaviness, <<>>)
        /\ \A k \in Buckets : StakedIn(<<>>, k) = Measure(AmountIn(k), <<>>)
    BY <1>2, SumsAreMeasures
  <2> QED
    BY <2>1, <2>2
<1>7. \A S, f : IsFiniteSet(S) /\ (\A x \in S : f[x] = 0) => SumOver(f, S) = 0
  <2> SUFFICES ASSUME NEW S, NEW f, IsFiniteSet(S), \A x \in S : f[x] = 0
               PROVE  SumOver(f, S) = 0
    OBVIOUS
  <2>1. {} \in SUBSET S /\ S \ {} = S
    OBVIOUS
  <2>2. SumOver(f, S) = SumOver(f, {})
    BY <2>1, SumWithin
  <2> QED
    BY <2>2, SumEmpty
<1>8. ASSUME NEW d \in Deployments
      PROVE  /\ totalSupply[d] = SumOver(weightedBalances[d], Users)
             /\ wrapped[d] = SumOver(balances[d], Users)
             /\ \A k \in Buckets :
                   bucketStaked[d][k]
                      = SumOver([u \in Users |-> StakedIn(portfolio[d][u], k)], Users)
  <2>1. totalSupply[d] = 0 /\ wrapped[d] = 0 /\ \A k \in Buckets : bucketStaked[d][k] = 0
    BY <1>1
  <2>2. SumOver(weightedBalances[d], Users) = 0
    BY <1>3, <1>7, <1>f
  <2>3. SumOver(balances[d], Users) = 0
    BY <1>3, <1>7, <1>f
  <2>4. ASSUME NEW k \in Buckets
        PROVE  SumOver([u \in Users |-> StakedIn(portfolio[d][u], k)], Users) = 0
    <3> DEFINE f == [u \in Users |-> StakedIn(portfolio[d][u], k)]
    <3>1. \A u \in Users : f[u] = 0
      BY <1>3, <1>6
    <3> HIDE DEF f
    <3>2. SumOver(f, Users) = 0
      BY <1>7, <1>f, <3>1
    <3> QED
      BY <3>2 DEF f
  <2> QED
    BY <2>1, <2>2, <2>3, <2>4
<1>9. ASSUME NEW u \in Users
      PROVE  xSumr[u] <= SumOver([d \in Deployments |-> balances[d][u]], Deployments)
  <2> DEFINE f == [d \in Deployments |-> balances[d][u]]
  <2>1. \A d \in Deployments : f[d] = 0
    BY <1>3
  <2> HIDE DEF f
  <2>2. SumOver(f, Deployments) = 0
    BY <1>7, <1>f, <2>1
  <2>3. xSumr[u] = 0
    BY <1>1
  <2> QED
    BY <2>2, <2>3 DEF f
<1>10. \A d \in Deployments, u \in Users :
          /\ balances[d][u] = Staked(portfolio[d][u])
          /\ weightedBalances[d][u] = Weight(portfolio[d][u])
          /\ \A i \in 2..Len(portfolio[d][u]) : portfolio[d][u][i].amount > 0
  BY <1>2, <1>3, <1>6
<1>11. StakeLedgersAgree
  BY <1>8, <1>9, <1>10 DEF StakeLedgersAgree
<1> QED
  BY <1>4, <1>5, <1>11 DEF StakeInv

\* What a stake changes, seen from the ledgers.
LEMMA StakeMoves ==
    ASSUME StakeInv, NEW d \in Deployments, NEW from, NEW u \in Users,
           NEW amount \in Nat \ {0}, NEW period \in 0..MaxLockup,
           StakeLockup(d, from, u, amount, period)
    PROVE  StakeInv'
<1> DEFINE s == portfolio[d][u]
           r == WithStake(EnsurePortfolio(s), amount, period)
           w == CalculateWeightedStake(amount, period)
           k == FindBucket(period)
<1>1. s \in Portfolio /\ Sound(s) /\ now \in Nat
  BY DEF StakeInv, StakeTypes, AllSound
<1>2. /\ period > 0 => Len(EnsurePortfolio(s)) < MaxStakes
      /\ scope' = scope /\ now' = now
      /\ portfolio' = [portfolio EXCEPT ![d][u] = r]
      /\ balances' = [balances EXCEPT ![d][u] = @ + amount]
      /\ weightedBalances' = [weightedBalances EXCEPT ![d][u] = @ + w]
      /\ totalSupply' = [totalSupply EXCEPT ![d] = @ + w]
      /\ bucketStaked' = [bucketStaked EXCEPT ![d][k] = @ + amount]
      /\ wrapped' = [wrapped EXCEPT ![d] = @ + amount]
      /\ xSumr' = [xSumr EXCEPT ![u] = @ + amount]
  BY DEF StakeLockup
<1>3. r \in Portfolio /\ Sound(r) /\ Moves(r, s, amount, w, k)
  BY <1>1, <1>2, StakeAdds
<1>4. w \in Int /\ k \in Buckets /\ amount \in Int
  <2>1. period \in Nat /\ amount \in Nat
    BY StakeAssumption
  <2>2. w \in Nat
    BY <2>1, WeightOf
  <2> QED
    BY <2>1, <2>2, BucketIsThe
<1> HIDE DEF r, w, k
<1> QED
  BY <1>2, <1>3, <1>4, LedgersMove

\* What an exit changes.
LEMMA ExitMoves ==
    ASSUME StakeInv, NEW d \in Deployments, NEW u \in Users,
           NEW i \in Nat, NEW amount \in Nat \ {0}, UnstakeLockup(d, u, i, amount)
    PROVE  StakeInv'
<1> DEFINE s == portfolio[d][u]
           x == s[i + 1]
           r == PortfolioAfter(s, i, amount)
           w == WeightToRemove(x, amount)
           k == FindBucket(x.lockupPeriod)
           a == -amount
           b == -w
<1>1. s \in Portfolio /\ Sound(s)
  BY DEF StakeInv, StakeTypes, AllSound
<1>2. /\ i < Len(s) /\ x.amount >= amount /\ scope' = scope /\ now' = now
      /\ portfolio' = [portfolio EXCEPT ![d][u] = r]
      /\ balances' = [balances EXCEPT ![d][u] = @ - amount]
      /\ weightedBalances' = [weightedBalances EXCEPT ![d][u] = @ - w]
      /\ totalSupply' = [totalSupply EXCEPT ![d] = @ - w]
      /\ bucketStaked' = [bucketStaked EXCEPT ![d][k] = @ - amount]
      /\ wrapped' = [wrapped EXCEPT ![d] = @ - amount]
      /\ xSumr' = [xSumr EXCEPT ![u] = @ - amount]
  BY DEF UnstakeLockup, PortfolioAfter, LeftOf
<1>3. /\ i + 1 \in 1..Len(s) /\ x \in Stake /\ x.amount \in Nat /\ x.weightedAmount \in Nat
      /\ x.lockupPeriod \in 0..MaxLockup
  <2> HIDE DEF s
  <2>1. i + 1 \in 1..Len(s)
    BY <1>1, <1>2, PortfolioFacts
  <2> QED
    BY <1>1, <2>1, SoundStakes
<1>4. amount <= x.amount /\ amount \in Nat
  BY <1>2, <1>3
<1>5. r \in Portfolio /\ Sound(r) /\ Moves(r, s, a, b, k)
  <2> HIDE DEF s
  <2> QED
    BY <1>1, <1>2, <1>4, ExitTakes
<1>6. w \in Nat /\ k \in Buckets
  <2> HIDE DEF x
  <2> QED
    BY <1>3, <1>4, WeightTaken, BucketIsThe
<1> HIDE DEF r, x, s, w, k
<1>7. a \in Int /\ b \in Int
  BY <1>4, <1>6
<1>8. \A n \in Int : n - amount = n + a /\ n - w = n + b
  BY <1>4, <1>6
<1> HIDE DEF a, b
<1>9. /\ balances[d][u] \in Int /\ weightedBalances[d][u] \in Int /\ totalSupply[d] \in Int
      /\ bucketStaked[d][k] \in Int /\ wrapped[d] \in Int /\ xSumr[u] \in Int
  BY <1>6 DEF StakeInv, StakeTypes
<1>10. /\ balances' = [balances EXCEPT ![d][u] = @ + a]
       /\ weightedBalances' = [weightedBalances EXCEPT ![d][u] = @ + b]
       /\ totalSupply' = [totalSupply EXCEPT ![d] = @ + b]
       /\ bucketStaked' = [bucketStaked EXCEPT ![d][k] = @ + a]
       /\ wrapped' = [wrapped EXCEPT ![d] = @ + a]
       /\ xSumr' = [xSumr EXCEPT ![u] = @ + a]
  <2>1. balances' = [balances EXCEPT ![d][u] = @ + a]
    BY <1>2, <1>8, <1>9
  <2>2. weightedBalances' = [weightedBalances EXCEPT ![d][u] = @ + b]
    BY <1>2, <1>8, <1>9
  <2>3. totalSupply' = [totalSupply EXCEPT ![d] = @ + b]
    BY <1>2, <1>8, <1>9
  <2>4. bucketStaked' = [bucketStaked EXCEPT ![d][k] = @ + a]
    BY <1>2, <1>8, <1>9
  <2>5. wrapped' = [wrapped EXCEPT ![d] = @ + a]
    BY <1>2, <1>8, <1>9
  <2>6. xSumr' = [xSumr EXCEPT ![u] = @ + a]
    BY <1>2, <1>8, <1>9
  <2> QED
    BY <2>1, <2>2, <2>3, <2>4, <2>5, <2>6
<1>11. scope' = scope /\ now' = now /\ portfolio' = [portfolio EXCEPT ![d][u] = r]
  BY <1>2
<1>12. r \in Portfolio /\ Sound(r) /\ Moves(r, portfolio[d][u], a, b, k)
  BY <1>5 DEF s
<1> QED
  BY <1>6, <1>7, <1>10, <1>11, <1>12, LedgersMove

\* Votes that are burned were somebody's.
LEMMA BurnMoves ==
    ASSUME StakeInv, NEW u \in Users, NEW amount \in Nat, BurnOwn(u, amount)
    PROVE  StakeInv'
<1>1. /\ xSumr' = [xSumr EXCEPT ![u] = @ - amount] /\ scope' = scope /\ now' = now
      /\ portfolio' = portfolio /\ balances' = balances /\ wrapped' = wrapped
      /\ weightedBalances' = weightedBalances /\ totalSupply' = totalSupply
      /\ bucketStaked' = bucketStaked
  BY DEF BurnOwn, stakeVars
<1>2. xSumr' \in [Users -> Int] /\ \A v \in Users : xSumr'[v] <= xSumr[v] /\ xSumr[v] \in Int
  BY <1>1 DEF StakeInv, StakeTypes
<1>3. StakeTypes' /\ AllSound'
  BY <1>1, <1>2 DEF StakeInv, StakeTypes, AllSound
<1>4. ASSUME NEW v \in Users
      PROVE  xSumr'[v] <= SumOver([e \in Deployments |-> balances'[e][v]], Deployments)
  <2> DEFINE f == [e \in Deployments |-> balances[e][v]]
  <2>1. xSumr[v] <= SumOver(f, Deployments)
    BY DEF StakeInv, StakeLedgersAgree
  <2>2. \A e \in Deployments : f[e] \in Int
    BY DEF StakeInv, StakeTypes
  <2> HIDE DEF f
  <2>3. SumOver(f, Deployments) \in Int
    BY <2>2, ScopeAssumption, SumInt
  <2>4. xSumr'[v] <= SumOver(f, Deployments)
    <3>1. xSumr'[v] \in Int /\ xSumr'[v] <= xSumr[v] /\ xSumr[v] \in Int
      BY <1>2
    <3> QED
      BY <2>1, <2>3, <3>1
  <2> QED
    BY <1>1, <2>4 DEF f
<1>5. \A e \in Deployments :
         /\ \A v \in Users :
               /\ balances'[e][v] = Staked(portfolio'[e][v])
               /\ weightedBalances'[e][v] = Weight(portfolio'[e][v])
               /\ \A i \in 2..Len(portfolio'[e][v]) : portfolio'[e][v][i].amount > 0
         /\ totalSupply'[e] = SumOver(weightedBalances'[e], Users)
         /\ wrapped'[e] = SumOver(balances'[e], Users)
         /\ \A j \in Buckets :
               bucketStaked'[e][j]
                  = SumOver([v \in Users |-> StakedIn(portfolio'[e][v], j)], Users)
  BY <1>1 DEF StakeInv, StakeLedgersAgree
<1>6. StakeLedgersAgree'
  BY <1>4, <1>5 DEF StakeLedgersAgree
<1> QED
  BY <1>3, <1>6 DEF StakeInv

\* The steps that leave all ledgers alone.
LEMMA LedgersStay ==
    ASSUME StakeInv, UNCHANGED <<scope, stakeVars, wrapped, xSumr>>, now' \in Nat
    PROVE  StakeInv'
<1>1. /\ scope' = scope /\ portfolio' = portfolio /\ balances' = balances
      /\ weightedBalances' = weightedBalances /\ totalSupply' = totalSupply
      /\ bucketStaked' = bucketStaked /\ wrapped' = wrapped /\ xSumr' = xSumr
  BY DEF stakeVars
<1>2. StakeTypes' /\ AllSound'
  BY <1>1 DEF StakeInv, StakeTypes, AllSound
<1>3. StakeLedgersAgree'
  BY <1>1 DEF StakeInv, StakeLedgersAgree
<1> QED
  BY <1>2, <1>3 DEF StakeInv

\* Every transaction keeps the ledgers in agreement.
LEMMA StakeInvStep == StakeInv /\ [StakingNext]_stakingVars => StakeInv'
<1> SUFFICES ASSUME StakeInv, [StakingNext]_stakingVars PROVE StakeInv'
  OBVIOUS
<1>1. scope \in Scopes /\ now \in Nat
  BY DEF StakeInv, StakeTypes
<1>2. /\ scope.amounts \subseteq Nat \ {0} /\ scope.periods \subseteq 0..MaxLockup
      /\ \A d \in Deployments : scope.stakers[d] \subseteq Users
      /\ scope.burners \subseteq Users /\ \A i \in 0..(MaxStakes - 1) : i \in Nat
  BY <1>1, ScopeFacts
<1>3. ASSUME NEW d \in Deployments, NEW a \in scope.amounts, NEW p \in scope.periods,
             NEW u \in scope.stakers[d], NEW v \in scope.stakers[d], StakeLockup(d, u, v, a, p)
      PROVE  StakeInv'
  BY <1>2, <1>3, StakeMoves
<1>4. ASSUME NEW d \in Deployments, NEW a \in scope.amounts, NEW i \in 0..(MaxStakes - 1),
             NEW u \in scope.stakers[d], UnstakeLockup(d, u, i, a)
      PROVE  StakeInv'
  BY <1>2, <1>4, ExitMoves
<1>5. ASSUME NEW u \in scope.burners, NEW a \in scope.amounts, BurnOwn(u, a)
      PROVE  StakeInv'
  <2>1. u \in Users /\ a \in Nat
    BY <1>2
  <2> QED
    BY <1>5, <2>1, BurnMoves
<1>6. ASSUME \/ \E w \in scope.delegations, b \in BOOLEAN : SetAuthorization(w[1], w[2], w[3], b)
             \/ \E d \in Deployments : \E u \in scope.stakers[d] : GetReward(d, u)
             \/ GovernanceStep
             \/ Tick
             \/ UNCHANGED stakingVars
      PROVE  StakeInv'
  <2>1. UNCHANGED <<scope, stakeVars, tokenVars>> /\ (now' = now \/ now' = now + 1)
    <3>1. CASE \E w \in scope.delegations, b \in BOOLEAN :
                  SetAuthorization(w[1], w[2], w[3], b)
      BY <3>1 DEF SetAuthorization
    <3>2. CASE \E d \in Deployments : \E u \in scope.stakers[d] : GetReward(d, u)
      BY <3>2 DEF GetReward
    <3>3. CASE GovernanceStep
      BY <3>3 DEF GovernanceStep
    <3>4. CASE Tick
      BY <3>4 DEF Tick
    <3>5. CASE UNCHANGED stakingVars
      BY <3>5 DEF stakingVars
    <3> QED
      BY <1>6, <3>1, <3>2, <3>3, <3>4, <3>5
  <2>2. UNCHANGED <<scope, stakeVars, wrapped, xSumr>> /\ now' \in Nat
    BY <1>1, <2>1 DEF tokenVars
  <2> QED
    BY <2>2, LedgersStay
<1> QED
  BY <1>3, <1>4, <1>5, <1>6 DEF StakingNext, QuietStep

\* Balances and weights are the sums over the portfolios, the totals the sums
\* over the accounts, the buckets hold what is staked at their periods and no
\* account has more votes than stakes, for any numbers of accounts, deployments,
\* stakes and buckets and any lockups and amounts.
THEOREM StakesAddUp == StakingSpec => []StakeLedgersAgree
<1>1. StakeInv => StakeLedgersAgree
  BY DEF StakeInv
<1> QED
  BY <1>1, InitStakeInv, StakeInvStep, PTL DEF StakingSpec

---------------------------------------------------------------------------
(* What a deployment owes *)

RewardRecord == [listed : BOOLEAN, rate : Nat, rewardsDuration : Nat, periodFinish : Nat,
                 lastUpdateTime : Nat, stored : Nat]
Amounts == [Users -> Nat]

\* What the weights w have earned since the index of the record x was at p, the
\* rewards r they are owed, and what the running period still streams: times
\* Wad, and so without rounding.
Accruing(w, p, x) == SumOver([u \in Users |-> w[u] * (x.stored - p[u])], Users)
Owed(w, r, p, x) ==
    Wad * SumOver(r, Users) + Accruing(w, p, x) + x.rate * (x.periodFinish - x.lastUpdateTime)

\* The sum of what accrues is natural, and every term is within it.
LEMMA AccruingNatural ==
    ASSUME NEW w \in Amounts, NEW p \in Amounts, NEW x \in RewardRecord,
           \A u \in Users : p[u] <= x.stored
    PROVE  LET f == [u \in Users |-> w[u] * (x.stored - p[u])]
           IN  /\ \A u \in Users : f[u] \in Nat /\ f[u] = w[u] * (x.stored - p[u])
               /\ Accruing(w, p, x) \in Nat
<1> DEFINE f == [u \in Users |-> w[u] * (x.stored - p[u])]
<1>1. ASSUME NEW u \in Users PROVE f[u] \in Nat /\ f[u] = w[u] * (x.stored - p[u])
  <2>1. w[u] \in Nat /\ p[u] \in Nat /\ x.stored \in Nat /\ p[u] <= x.stored
    BY DEF Amounts, RewardRecord
  <2>2. x.stored - p[u] \in Nat
    BY <2>1
  <2> DEFINE a == w[u]
             b == x.stored - p[u]
  <2>3. a \in Nat /\ b \in Nat
    BY <2>1, <2>2
  <2> HIDE DEF a, b
  <2>4. a * b \in Nat
    BY <2>3
  <2> QED
    BY <2>4 DEF a, b
<1> HIDE DEF f
<1>2. SumOver(f, Users) \in Nat
  BY <1>1, ScopeAssumption, SumNat
<1> QED
  BY <1>1, <1>2 DEF f, Accruing

\* The record x of total weight `total` is accrued to y: the index grows by the
\* time's share of the rate at most, and the time only up to the period's end.
AccruesTo(x, y, total) ==
    /\ y \in RewardRecord
    /\ y.rate = x.rate /\ y.periodFinish = x.periodFinish /\ x.stored <= y.stored
    /\ x.lastUpdateTime <= y.lastUpdateTime /\ y.lastUpdateTime <= y.periodFinish
    /\ (y.stored - x.stored) * total <= (y.lastUpdateTime - x.lastUpdateTime) * x.rate

\* Accruing does not owe more: rounding down the index loses some of it.
LEMMA OwedAccrued ==
    ASSUME NEW w \in Amounts, NEW r \in Amounts, NEW p \in Amounts, NEW x \in RewardRecord,
           NEW y, AccruesTo(x, y, SumOver(w, Users)), \A u \in Users : p[u] <= x.stored
    PROVE  /\ Owed(w, r, p, y) <= Owed(w, r, p, x)
           /\ Owed(w, r, p, y) \in Nat /\ Owed(w, r, p, x) \in Nat
<1> DEFINE f == [u \in Users |-> w[u] * (x.stored - p[u])]
           g == [u \in Users |-> w[u] * (y.stored - p[u])]
           c == y.stored - x.stored
           h == [u \in Users |-> w[u] * c]
           W == SumOver(w, Users)
<1>f. IsFiniteSet(Users)
  BY ScopeAssumption
<1>1. /\ y \in RewardRecord /\ y.rate = x.rate /\ y.periodFinish = x.periodFinish
      /\ x.stored <= y.stored /\ x.lastUpdateTime <= y.lastUpdateTime
      /\ y.lastUpdateTime <= y.periodFinish
      /\ c * W <= (y.lastUpdateTime - x.lastUpdateTime) * x.rate
  BY DEF AccruesTo
<1>2. /\ x.stored \in Nat /\ y.stored \in Nat /\ x.rate \in Nat /\ x.periodFinish \in Nat
      /\ x.lastUpdateTime \in Nat /\ y.lastUpdateTime \in Nat
  BY <1>1 DEF RewardRecord
<1>3. c \in Nat
  BY <1>1, <1>2
<1>4. \A u \in Users : w[u] \in Nat /\ p[u] \in Nat /\ r[u] \in Nat /\ p[u] <= y.stored
  <2>1. \A u \in Users : w[u] \in Nat /\ p[u] \in Nat /\ r[u] \in Nat /\ p[u] <= x.stored
    BY DEF Amounts
  <2> QED
    BY <1>1, <1>2, <2>1
<1>5. Accruing(w, p, x) \in Nat /\ Accruing(w, p, y) \in Nat
  BY <1>1, <1>4, AccruingNatural
<1>6. Accruing(w, p, y) = Accruing(w, p, x) + W * c
  <2>1. \A u \in Users : f[u] \in Int /\ h[u] \in Int /\ g[u] = f[u] + h[u]
    <3> TAKE u \in Users
    <3> DEFINE a == w[u]
               b == x.stored - p[u]
    <3>1. a \in Nat /\ b \in Int /\ c \in Int /\ y.stored - p[u] = b + c
      BY <1>2, <1>3, <1>4
    <3>2. f[u] = a * b /\ h[u] = a * c /\ g[u] = a * (b + c)
      BY <3>1
    <3> HIDE DEF a, b, c, f, g, h
    <3>3. a * (b + c) = a * b + a * c /\ a * b \in Int /\ a * c \in Int
      BY <3>1
    <3> QED
      BY <3>2, <3>3
  <2>2. \A u \in Users : w[u] \in Int /\ h[u] = w[u] * c
    BY <1>4
  <2> HIDE DEF f, g, h, c
  <2>3. SumOver(g, Users) = SumOver(f, Users) + SumOver(h, Users)
    BY <1>f, <2>1, SumPlus
  <2>4. SumOver(h, Users) = SumOver(w, Users) * c
    <3>1. c \in Int
      BY <1>3
    <3> QED
      BY <1>f, <2>2, <3>1, SumTimes
  <2> QED
    BY <2>3, <2>4 DEF Accruing, f, g
<1>7. W \in Nat /\ SumOver(r, Users) \in Nat
  BY <1>f, <1>4, SumNat
<1>8. Wad * SumOver(r, Users) \in Nat
  BY <1>7, RewardAssumption
<1> DEFINE A == Wad * SumOver(r, Users)
           B == Accruing(w, p, x)
           D == W * c
           past == y.lastUpdateTime - x.lastUpdateTime
           rest == x.periodFinish - y.lastUpdateTime
           E == past * x.rate
           F == x.rate * rest
           G == x.rate * (x.periodFinish - x.lastUpdateTime)
<1>9. past \in Nat /\ rest \in Nat /\ x.periodFinish - x.lastUpdateTime = past + rest
  BY <1>1, <1>2
<1>10. E \in Nat /\ F \in Nat /\ G = E + F
  <2> DEFINE a == x.rate
  <2>1. a \in Nat
    BY <1>2
  <2> HIDE DEF past, rest, a
  <2>2. past * a \in Nat /\ a * rest \in Nat /\ a * (past + rest) = past * a + a * rest
    BY <1>9, <2>1
  <2> QED
    BY <1>9, <2>2 DEF a
<1>11. D <= E /\ D \in Nat
  <2> HIDE DEF c, W
  <2>1. W * c = c * W /\ W * c \in Nat
    BY <1>3, <1>7
  <2> QED
    BY <1>1, <2>1
<1>12. Owed(w, r, p, x) = A + B + G /\ Owed(w, r, p, y) = A + (B + D) + F
  BY <1>1, <1>6 DEF Owed
<1>13. A \in Nat /\ B \in Nat
  BY <1>5, <1>8
<1> HIDE DEF A, B, D, E, F, G
<1>14. A + (B + D) + F <= A + B + G /\ A + (B + D) + F \in Nat /\ A + B + G \in Nat
  BY <1>10, <1>11, <1>13
<1> QED
  BY <1>12, <1>14

\* Paying out to the rewards of an account what accrued to it, and giving it
\* any new weight, does not owe more.
LEMMA OwedSettled ==
    ASSUME NEW w \in Amounts, NEW r \in Amounts, NEW p \in Amounts, NEW x \in RewardRecord,
           \A v \in Users : p[v] <= x.stored, NEW u \in Users,
           NEW w2 \in Amounts, \A v \in Users : v # u => w2[v] = w[v],
           NEW paid \in Nat
    PROVE  LET earned == (w[u] * (x.stored - p[u])) \div Wad + r[u]
               r2 == [r EXCEPT ![u] = earned - paid]
               p2 == [p EXCEPT ![u] = x.stored]
           IN  paid <= earned =>
                  /\ r2 \in Amounts /\ p2 \in Amounts /\ earned \in Nat
                  /\ Owed(w2, r2, p2, x) + Wad * paid <= Owed(w, r, p, x)
<1> DEFINE accrued == w[u] * (x.stored - p[u])
           e == accrued \div Wad
           earned == e + r[u]
           r2 == [r EXCEPT ![u] = earned - paid]
           p2 == [p EXCEPT ![u] = x.stored]
           f == [v \in Users |-> w[v] * (x.stored - p[v])]
           g == [v \in Users |-> w2[v] * (x.stored - p2[v])]
<1>f. IsFiniteSet(Users) /\ Wad \in Nat \ {0}
  BY ScopeAssumption, RewardAssumption
<1> SUFFICES ASSUME paid <= earned
             PROVE  /\ r2 \in Amounts /\ p2 \in Amounts /\ earned \in Nat
                    /\ Owed(w2, r2, p2, x) + Wad * paid <= Owed(w, r, p, x)
  OBVIOUS
<1>1. x.stored \in Nat /\ x.rate * (x.periodFinish - x.lastUpdateTime) \in Int
  <2>1. /\ x.stored \in Nat /\ x.rate \in Nat /\ x.periodFinish \in Nat
        /\ x.lastUpdateTime \in Nat
    BY DEF RewardRecord
  <2> DEFINE a == x.rate
             b == x.periodFinish - x.lastUpdateTime
  <2>2. a \in Int /\ b \in Int
    BY <2>1
  <2> HIDE DEF a, b
  <2>3. a * b \in Int
    BY <2>2
  <2> QED
    BY <2>1, <2>3 DEF a, b
<1>2. \A v \in Users : /\ w[v] \in Nat /\ w2[v] \in Nat /\ p[v] \in Nat /\ r[v] \in Nat
                       /\ p[v] <= x.stored
  BY DEF Amounts
<1>3. \A v \in Users : f[v] \in Nat
  <2>1. LET h == [v \in Users |-> w[v] * (x.stored - p[v])] IN \A v \in Users : h[v] \in Nat
    BY AccruingNatural
  <2> QED
    BY <2>1
<1>4. accrued \in Nat /\ f[u] = accrued
  BY <1>3
<1>5. e \in Nat /\ Wad * e <= accrued
  <2> HIDE DEF accrued
  <2> QED
    BY <1>f, <1>4, Division
<1> HIDE DEF e, accrued
<1>6. earned \in Nat /\ earned - paid \in Nat
  BY <1>2, <1>5
<1>7. /\ r2 \in Amounts /\ p2 \in Amounts /\ r2[u] = earned - paid /\ p2[u] = x.stored
      /\ \A v \in Users : v # u => r2[v] = r[v] /\ p2[v] = p[v]
  BY <1>1, <1>6 DEF Amounts
<1> HIDE DEF r2, p2
<1>8. g[u] = 0 /\ \A v \in Users : v # u => g[v] = f[v]
  <2>1. g[u] = 0
    <3>1. g[u] = w2[u] * (x.stored - x.stored) /\ x.stored - x.stored = 0 /\ w2[u] \in Nat
      BY <1>1, <1>2, <1>7
    <3>2. w2[u] * 0 = 0
      BY <3>1
    <3> QED
      BY <3>1, <3>2
  <2> QED
    BY <1>7, <2>1
<1> HIDE DEF f, g
<1>9. SumOver(g, Users) = SumOver(f, Users) - accrued /\ SumOver(f, Users) \in Int
  <2>1. SumOver(g, Users) = SumOver(f, Users) + (g[u] - f[u])
    BY <1>f, <1>3, <1>8, SumChange
  <2>2. SumOver(f, Users) \in Int
    BY <1>f, <1>3, SumInt
  <2> QED
    BY <1>4, <1>8, <2>1, <2>2
<1>10. SumOver(r2, Users) = SumOver(r, Users) + e - paid /\ SumOver(r, Users) \in Int
  <2>1. SumOver(r2, Users) = SumOver(r, Users) + (r2[u] - r[u])
    BY <1>f, <1>2, <1>6, <1>7, SumChange
  <2>2. SumOver(r, Users) \in Int
    BY <1>f, <1>2, SumInt
  <2>3. r2[u] - r[u] = e - paid
    BY <1>2, <1>5, <1>6, <1>7
  <2> QED
    BY <1>5, <2>1, <2>2, <2>3
<1> DEFINE R == SumOver(r, Users)
           S == SumOver(f, Users)
           G == x.rate * (x.periodFinish - x.lastUpdateTime)
<1>11. /\ Owed(w, r, p, x) = Wad * R + S + G
       /\ Owed(w2, r2, p2, x) = Wad * (R + e - paid) + (S - accrued) + G
  BY <1>9, <1>10 DEF Owed, Accruing, f, g
<1>12. R \in Int /\ S \in Int /\ G \in Int /\ Wad * R \in Int /\ Wad * paid \in Int
       /\ Wad * (R + e - paid) = Wad * R + Wad * e - Wad * paid
  <2>1. R \in Int /\ S \in Int /\ G \in Int
    BY <1>1, <1>9, <1>10
  <2> HIDE DEF R, S, G
  <2> QED
    BY <1>5, <1>f, <2>1
<1>13. Wad * (R + e - paid) + (S - accrued) + G + Wad * paid <= Wad * R + S + G
  <2> DEFINE a == Wad * R
             b == Wad * e
             c == Wad * paid
  <2>1. a \in Int /\ b \in Int /\ c \in Int /\ b <= accrued /\ accrued \in Int
        /\ Wad * (R + e - paid) = a + b - c
    <3>1. b \in Int
      BY <1>5, <1>f
    <3> QED
      BY <1>4, <1>5, <1>12, <3>1
  <2> HIDE DEF R, S, G, a, b, c
  <2>2. (a + b - c) + (S - accrued) + G + c <= a + S + G
    BY <1>12, <2>1
  <2> QED
    BY <2>1, <2>2 DEF a, c
<1>14. Owed(w2, r2, p2, x) + Wad * paid <= Owed(w, r, p, x)
  BY <1>11, <1>13
<1> QED
  BY <1>6, <1>7, <1>14

---------------------------------------------------------------------------
(* The rewards held cover what is owed *)

\* The reward record x of a deployment, the indices p its accounts are paid up
\* to, and the rewards r they are owed, at time t.
Wellkept(x, p, r, t) ==
    /\ x \in RewardRecord /\ p \in Amounts /\ r \in Amounts
    /\ x.lastUpdateTime <= t /\ x.lastUpdateTime <= x.periodFinish
    /\ \A u \in Users : p[u] <= x.stored
    /\ x.rewardsDuration = 0 => ~x.listed /\ x.stored = 0 /\ \A u \in Users : r[u] = 0

\* What is held covers what is owed to the weights w, unless it was swept.
Solvent(x, p, r, w, held, suspect) ==
    /\ held \in Nat
    /\ x.listed /\ ~suspect => Owed(w, r, p, x) <= Wad * held

\* Weights are natural, and the total is their sum.
NaturalWeights ==
    \A d \in Deployments : /\ weightedBalances[d] \in Amounts /\ totalSupply[d] \in Nat
                           /\ totalSupply[d] = SumOver(weightedBalances[d], Users)

\* They follow from the ledgers.
LEMMA WeightsNatural == StakeInv => NaturalWeights
<1> SUFFICES ASSUME StakeInv, NEW d \in Deployments
             PROVE  /\ weightedBalances[d] \in Amounts /\ totalSupply[d] \in Nat
                    /\ totalSupply[d] = SumOver(weightedBalances[d], Users)
  BY DEF NaturalWeights
<1>1. ASSUME NEW u \in Users PROVE weightedBalances[d][u] \in Nat
  <2> DEFINE s == portfolio[d][u]
             f == [i \in DOMAIN s |-> Heaviness[s[i]]]
  <2>1. s \in Portfolio /\ Sound(s) /\ weightedBalances[d][u] = Weight(s)
    BY DEF StakeInv, StakeTypes, AllSound, StakeLedgersAgree
  <2> HIDE DEF s
  <2>2. Weight(s) = Measure(Heaviness, s)
    BY <2>1, SumsAreMeasures
  <2>3. IsFiniteSet(DOMAIN s) /\ DOMAIN s = 1..Len(s)
    BY <2>1, PortfolioDomain
  <2>4. \A i \in DOMAIN s : f[i] \in Nat
    <3> TAKE i \in DOMAIN s
    <3>1. s[i] \in Stake /\ s[i].weightedAmount \in Nat
      BY <2>1, <2>3, SoundStakes
    <3> QED
      BY <3>1, MeasureTypes
  <2>5. SumOver(f, DOMAIN s) \in Nat
    <3> HIDE DEF f
    <3> QED
      BY <2>3, <2>4, SumNat
  <2> QED
    BY <2>1, <2>2, <2>5 DEF Measure
<1>2. weightedBalances \in [Deployments -> [Users -> Int]]
  BY DEF StakeInv, StakeTypes
<1>3. weightedBalances[d] \in Amounts
  BY <1>1, <1>2 DEF Amounts
<1>4. totalSupply[d] = SumOver(weightedBalances[d], Users)
  BY DEF StakeInv, StakeLedgersAgree
<1>5. SumOver(weightedBalances[d], Users) \in Nat
  BY <1>1, ScopeAssumption, SumNat
<1> QED
  BY <1>3, <1>4, <1>5

\* They are so after a step.
LEMMA WeightsNaturalNext == StakeInv' => NaturalWeights'
  BY WeightsNatural, PTL

\* The index and the time of a listed token move on as AccruesTo says.
LEMMA IndexGrows ==
    ASSUME NEW d \in Deployments, reward[d] \in RewardRecord, now \in Nat,
           totalSupply[d] \in Nat, reward[d].lastUpdateTime <= now,
           reward[d].lastUpdateTime <= reward[d].periodFinish, reward[d].listed
    PROVE  /\ AccruesTo(reward[d], Accrued(d), totalSupply[d])
           /\ Accrued(d).listed /\ Accrued(d).rewardsDuration = reward[d].rewardsDuration
           /\ Accrued(d).lastUpdateTime <= now
           /\ Accrued(d).stored = RewardPerToken(d)
           /\ Accrued(d).lastUpdateTime = LastTimeRewardApplicable(d)
<1> DEFINE x == reward[d]
           t == LastTimeRewardApplicable(d)
           q == RewardPerToken(d)
           W == totalSupply[d]
           y == [x EXCEPT !.stored = q, !.lastUpdateTime = t]
<1>1. /\ x.rate \in Nat /\ x.rewardsDuration \in Nat /\ x.periodFinish \in Nat
      /\ x.lastUpdateTime \in Nat /\ x.stored \in Nat /\ x.listed
  BY DEF RewardRecord
<1>2. t \in Nat /\ t <= now /\ t <= x.periodFinish /\ x.lastUpdateTime <= t
  BY <1>1 DEF LastTimeRewardApplicable, Least
<1>3. q \in Nat /\ x.stored <= q /\ (q - x.stored) * W <= (t - x.lastUpdateTime) * x.rate
  <2> DEFINE past == t - x.lastUpdateTime
             e == past * x.rate
  <2>1. past \in Nat
    BY <1>1, <1>2
  <2>2. e \in Nat
    <3> DEFINE a == x.rate
    <3>1. a \in Nat
      BY <1>1
    <3> HIDE DEF a, past
    <3> QED
      BY <2>1, <3>1, Product DEF a
  <2>3. q = IF W = 0 THEN x.stored ELSE x.stored + e \div W
    BY DEF RewardPerToken
  <2>4. W \in Nat
    OBVIOUS
  <2> HIDE DEF e, q, t, W
  <2>5. CASE W = 0
    <3>1. q = x.stored /\ (q - x.stored) * W = 0
      BY <1>1, <2>3, <2>5
    <3> QED
      BY <1>1, <2>2, <3>1 DEF e
  <2>6. CASE W # 0
    <3> DEFINE c == e \div W
    <3>1. W \in Nat \ {0}
      BY <2>4, <2>6
    <3>2. c \in Nat /\ W * c <= e
      BY <2>2, <3>1, Division
    <3> HIDE DEF c
    <3>3. q = x.stored + c
      BY <2>3, <2>6 DEF c
    <3>4. q - x.stored = c /\ q \in Nat /\ x.stored <= q
      BY <1>1, <3>2, <3>3
    <3>5. c * W <= e
      BY <3>1, <3>2
    <3> QED
      BY <3>4, <3>5 DEF e
  <2> QED
    BY <2>5, <2>6
<1> HIDE DEF t, q
<1>4. /\ y.listed = x.listed /\ y.rate = x.rate /\ y.rewardsDuration = x.rewardsDuration
      /\ y.periodFinish = x.periodFinish /\ y.lastUpdateTime = t /\ y.stored = q
      /\ y \in RewardRecord
  BY <1>1, <1>2, <1>3 DEF RewardRecord
<1>5. Accrued(d) = y
  BY DEF Accrued, t, q
<1> HIDE DEF y, x
<1>6. AccruesTo(x, y, W)
  BY <1>1, <1>2, <1>3, <1>4 DEF AccruesTo
<1> QED
  BY <1>1, <1>2, <1>4, <1>5, <1>6 DEF x, t, q

\* The account u is settled at time t: what it earned is credited or paid to it,
\* whatever its weight is from then on.
Settles(x, p, r, w, held, y, p2, r2, w2, held2, u, earned, paid, t) ==
    /\ x.listed /\ y.listed /\ y.rewardsDuration = x.rewardsDuration
    /\ AccruesTo(x, y, SumOver(w, Users)) /\ y.lastUpdateTime <= t
    /\ w \in Amounts /\ w2 \in Amounts /\ \A v \in Users : v # u => w2[v] = w[v]
    /\ earned = (w[u] * (y.stored - p[u])) \div Wad + r[u]
    /\ paid \in Nat /\ paid <= earned /\ paid <= held
    /\ r2 = [r EXCEPT ![u] = earned - paid]
    /\ p2 = [p EXCEPT ![u] = y.stored]
    /\ held2 = held - paid

\* Settling keeps what is held above what is owed.
LEMMA Settled ==
    ASSUME NEW x, NEW p, NEW r, NEW w, NEW held, NEW y, NEW p2, NEW r2, NEW w2, NEW held2,
           NEW u \in Users, NEW earned, NEW paid, NEW t \in Nat, NEW suspect \in BOOLEAN,
           Wellkept(x, p, r, t), Solvent(x, p, r, w, held, suspect),
           Settles(x, p, r, w, held, y, p2, r2, w2, held2, u, earned, paid, t)
    PROVE  Wellkept(y, p2, r2, t) /\ Solvent(y, p2, r2, w2, held2, suspect)
<1>0. /\ x.listed /\ y.listed /\ y.rewardsDuration = x.rewardsDuration
      /\ AccruesTo(x, y, SumOver(w, Users)) /\ y.lastUpdateTime <= t
      /\ w \in Amounts /\ w2 \in Amounts /\ \A v \in Users : v # u => w2[v] = w[v]
      /\ earned = (w[u] * (y.stored - p[u])) \div Wad + r[u]
      /\ paid \in Nat /\ paid <= earned /\ paid <= held
      /\ r2 = [r EXCEPT ![u] = earned - paid]
      /\ p2 = [p EXCEPT ![u] = y.stored]
      /\ held2 = held - paid
  BY DEF Settles
<1>1. /\ x \in RewardRecord /\ p \in Amounts /\ r \in Amounts
      /\ \A v \in Users : p[v] <= x.stored
      /\ x.rewardsDuration # 0 /\ held \in Nat
      /\ x.listed /\ ~suspect => Owed(w, r, p, x) <= Wad * held
  BY <1>0 DEF Wellkept, Solvent
<1>2. /\ y \in RewardRecord /\ x.stored <= y.stored /\ y.lastUpdateTime <= y.periodFinish
      /\ y.stored \in Nat /\ x.stored \in Nat
  BY <1>0, <1>1 DEF AccruesTo, RewardRecord
<1>3. \A v \in Users : p[v] <= y.stored
  BY <1>1, <1>2 DEF Amounts
<1>4. /\ Owed(w, r, p, y) <= Owed(w, r, p, x)
      /\ Owed(w, r, p, y) \in Nat /\ Owed(w, r, p, x) \in Nat
  BY <1>0, <1>1, OwedAccrued
<1>5. /\ r2 \in Amounts /\ p2 \in Amounts
      /\ Owed(w2, r2, p2, y) + Wad * paid <= Owed(w, r, p, y)
  BY <1>0, <1>1, <1>2, <1>3, OwedSettled
<1>6. \A v \in Users : p2[v] <= y.stored
  BY <1>0, <1>1, <1>2, <1>3 DEF Amounts
<1>7. Wellkept(y, p2, r2, t)
  BY <1>0, <1>1, <1>2, <1>5, <1>6 DEF Wellkept
<1>8. held - paid \in Nat
  BY <1>0, <1>1
<1>9. ASSUME ~suspect PROVE Owed(w2, r2, p2, y) <= Wad * (held - paid)
  <2>1. Owed(w, r, p, x) <= Wad * held
    BY <1>0, <1>1, <1>9
  <2>2. Owed(w2, r2, p2, y) \in Nat
    <3>1. AccruesTo(y, y, SumOver(w2, Users))
      <4>1. SumOver(w2, Users) \in Nat
        BY <1>0, ScopeAssumption, SumNat DEF Amounts
      <4>2. y.rate \in Nat /\ y.lastUpdateTime \in Nat
        BY <1>2 DEF RewardRecord
      <4> DEFINE W == SumOver(w2, Users)
                 a == y.stored
                 b == y.lastUpdateTime
                 c == y.rate
      <4>3. W \in Nat /\ a \in Nat /\ b \in Nat /\ c \in Nat
        BY <1>2, <4>1, <4>2
      <4> HIDE DEF W, a, b, c
      <4>4. (a - a) * W <= (b - b) * c
        <5>1. a - a = 0 /\ b - b = 0
          BY <4>3
        <5>2. 0 * W = 0 /\ 0 * c = 0
          BY <4>3
        <5> QED
          BY <5>1, <5>2
      <4>5. (y.stored - y.stored) * SumOver(w2, Users)
               <= (y.lastUpdateTime - y.lastUpdateTime) * y.rate
        BY <4>4 DEF W, a, b, c
      <4>6. y.stored <= y.stored /\ y.lastUpdateTime <= y.lastUpdateTime
        BY <1>2, <4>2
      <4> QED
        BY <1>2, <4>5, <4>6 DEF AccruesTo
    <3> QED
      BY <1>0, <1>2, <1>5, <1>6, <3>1, OwedAccrued
  <2> DEFINE o == Owed(w2, r2, p2, y)
             o1 == Owed(w, r, p, y)
             o2 == Owed(w, r, p, x)
             a == Wad * paid
             b == Wad * held
  <2>3. o \in Nat /\ o1 \in Nat /\ o2 \in Nat /\ o1 <= o2 /\ o2 <= b /\ o + a <= o1
    BY <1>4, <1>5, <2>1, <2>2
  <2> HIDE DEF o, o1, o2
  <2>4. a \in Int /\ b \in Int /\ Wad * (held - paid) = b - a
    BY <1>0, <1>1, RewardAssumption
  <2> HIDE DEF a, b
  <2>5. o <= b - a
    BY <2>3, <2>4
  <2> QED
    BY <2>4, <2>5 DEF o
<1>10. Solvent(y, p2, r2, w2, held2, suspect)
  BY <1>0, <1>8, <1>9 DEF Solvent
<1> QED
  BY <1>7, <1>10

\* The record of an announced reward, field by field.
Renewed(y, rate, duration, t) ==
    [y EXCEPT !.listed = TRUE, !.rewardsDuration = duration, !.rate = rate,
              !.lastUpdateTime = t, !.periodFinish = t + duration]

\* It is a record of its type, and its fields are those written.
LEMMA RenewedRecord ==
    ASSUME NEW y \in RewardRecord, NEW rate \in Nat, NEW duration \in Nat, NEW t \in Nat
    PROVE  LET z == Renewed(y, rate, duration, t)
           IN  /\ z \in RewardRecord
               /\ z.listed /\ z.rate = rate /\ z.rewardsDuration = duration
               /\ z.periodFinish = t + duration /\ z.lastUpdateTime = t /\ z.stored = y.stored
<1>1. t + duration \in Nat
  OBVIOUS
<1> DEFINE finish == t + duration
           z == [y EXCEPT !.listed = TRUE, !.rewardsDuration = duration, !.rate = rate,
                          !.lastUpdateTime = t, !.periodFinish = finish]
<1> HIDE DEF finish
<1>2. z \in RewardRecord
  BY <1>1 DEF RewardRecord, finish
<1>3. /\ z.listed /\ z.rate = rate /\ z.rewardsDuration = duration
      /\ z.periodFinish = finish /\ z.lastUpdateTime = t /\ z.stored = y.stored
  BY DEF RewardRecord
<1>4. z = Renewed(y, rate, duration, t)
  BY DEF Renewed, finish
<1> HIDE DEF z
<1> QED
  BY <1>2, <1>3, <1>4 DEF finish

\* A reward is announced, for a token that is listed and accrued or for a new
\* one: the running period is given up, and the rate of the new one is rounded
\* down.
LEMMA Announced ==
    ASSUME NEW x, NEW p, NEW r, NEW t \in Nat, Wellkept(x, p, r, t),
           NEW w \in Amounts, NEW held, NEW suspect \in BOOLEAN,
           Solvent(x, p, r, w, held, suspect),
           NEW y, x.listed => AccruesTo(x, y, SumOver(w, Users)), ~x.listed => y = x,
           NEW amount \in Nat, NEW duration \in Nat \ {0}
    PROVE  LET z == Renewed(y, (amount * Wad) \div duration, duration, t)
               suspect2 == suspect \/ (~x.listed /\ x.rewardsDuration > 0)
           IN  Wellkept(z, p, r, t) /\ Solvent(z, p, r, w, held + amount, suspect2)
<1> DEFINE rate == (amount * Wad) \div duration
           z == Renewed(y, rate, duration, t)
           suspect2 == suspect \/ (~x.listed /\ x.rewardsDuration > 0)
           R == SumOver(r, Users)
           S == Accruing(w, p, y)
<1>f. IsFiniteSet(Users) /\ Wad \in Nat \ {0}
  BY ScopeAssumption, RewardAssumption
<1>1. /\ x \in RewardRecord /\ p \in Amounts /\ r \in Amounts
      /\ x.lastUpdateTime <= x.periodFinish /\ \A v \in Users : p[v] <= x.stored
      /\ x.rewardsDuration = 0 => ~x.listed /\ x.stored = 0 /\ \A u \in Users : r[u] = 0
      /\ held \in Nat /\ (x.listed /\ ~suspect => Owed(w, r, p, x) <= Wad * held)
      /\ x.rewardsDuration \in Nat
  BY DEF Wellkept, Solvent, RewardRecord
<1>2. /\ y \in RewardRecord /\ x.stored <= y.stored /\ y.lastUpdateTime <= y.periodFinish
      /\ x.stored \in Nat
  <2>1. x.stored \in Nat /\ x.stored <= x.stored
    BY <1>1 DEF RewardRecord
  <2>2. CASE x.listed
    BY <1>1, <2>1, <2>2 DEF AccruesTo
  <2>3. CASE ~x.listed
    BY <1>1, <2>1, <2>3
  <2> QED
    BY <2>2, <2>3
<1>3. /\ y.rate \in Nat /\ y.periodFinish \in Nat /\ y.lastUpdateTime \in Nat /\ y.stored \in Nat
  BY <1>2 DEF RewardRecord
<1>4. rate \in Nat /\ duration * rate <= amount * Wad /\ amount * Wad \in Nat
  <2> DEFINE a == amount * Wad
  <2>1. a \in Nat
    BY <1>f
  <2> HIDE DEF a
  <2> QED
    BY <2>1, Division DEF a
<1>5. t + duration \in Nat /\ t + duration >= t /\ t + duration - t = duration
  OBVIOUS
<1> HIDE DEF rate
<1>6. /\ z \in RewardRecord
      /\ z.listed /\ z.rate = rate /\ z.rewardsDuration = duration
      /\ z.periodFinish = t + duration /\ z.lastUpdateTime = t /\ z.stored = y.stored
  <2>1. y \in RewardRecord /\ duration \in Nat /\ rate \in Nat /\ t \in Nat
    BY <1>2, <1>4
  <2> DEFINE q == Renewed(y, rate, duration, t)
  <2>2. q \in RewardRecord
    BY <2>1, RenewedRecord
  <2>3. q.listed
    BY <2>1, RenewedRecord
  <2>4. q.rate = rate
    BY <2>1, RenewedRecord
  <2>8. q.rewardsDuration = duration
    BY <2>1, RenewedRecord
  <2>5. q.periodFinish = t + duration
    BY <2>1, RenewedRecord
  <2>6. q.lastUpdateTime = t
    BY <2>1, RenewedRecord
  <2>7. q.stored = y.stored
    BY <2>1, RenewedRecord
  <2> QED
    BY <2>2, <2>3, <2>4, <2>5, <2>6, <2>7, <2>8
<1>7. z.listed
  BY <1>6
<1> HIDE DEF z
<1>8. \A v \in Users : p[v] <= y.stored /\ p[v] \in Nat /\ r[v] \in Nat
  <2>1. \A v \in Users : p[v] \in Nat /\ r[v] \in Nat /\ p[v] <= x.stored
    BY <1>1 DEF Amounts
  <2> QED
    BY <1>2, <1>3, <2>1
<1>9. Wellkept(z, p, r, t)
  BY <1>1, <1>5, <1>6, <1>7, <1>8 DEF Wellkept
<1>10. R \in Nat /\ S \in Nat
  <2>1. R \in Nat
    BY <1>f, <1>8, SumNat
  <2> QED
    BY <1>1, <1>2, <1>8, <2>1, AccruingNatural
<1>11. Wad * R \in Nat /\ Wad * held \in Nat /\ Wad * (held + amount) = Wad * held + amount * Wad
  BY <1>f, <1>1, <1>10
<1>12. Owed(w, r, p, z) = Wad * R + S + rate * duration
  <2>1. Accruing(w, p, z) = S
    BY <1>6 DEF Accruing
  <2> QED
    BY <1>5, <1>6, <2>1 DEF Owed
<1>13. rate * duration \in Nat /\ rate * duration <= amount * Wad
  BY <1>4
<1>14. ASSUME ~suspect2 PROVE Wad * R + S <= Wad * held
  <2>1. CASE x.listed
    <3>1. Owed(w, r, p, y) <= Owed(w, r, p, x) /\ Owed(w, r, p, x) <= Wad * held
          /\ Owed(w, r, p, y) \in Nat /\ Owed(w, r, p, x) \in Nat
      BY <1>1, <1>14, <2>1, OwedAccrued
    <3> DEFINE g == y.rate * (y.periodFinish - y.lastUpdateTime)
    <3>2. g \in Nat
      <4> DEFINE a == y.rate
                 b == y.periodFinish - y.lastUpdateTime
      <4>1. a \in Nat /\ b \in Nat
        BY <1>2, <1>3
      <4> HIDE DEF a, b
      <4>2. a * b \in Nat
        BY <4>1
      <4> QED
        BY <4>2 DEF a, b
    <3>3. Owed(w, r, p, y) = Wad * R + S + g
      BY DEF Owed
    <3> DEFINE o == Owed(w, r, p, y)
               o2 == Owed(w, r, p, x)
               b == Wad * R
               c == Wad * held
    <3>4. o \in Nat /\ o2 \in Nat /\ o <= o2 /\ o2 <= c /\ o = b + S + g /\ b \in Nat /\ c \in Nat
      BY <1>11, <3>1, <3>3
    <3> HIDE DEF R, S, g, o, o2, b, c
    <3>5. b + S <= c
      BY <1>10, <3>2, <3>4
    <3> QED
      BY <3>5 DEF b, c
  <2>2. CASE ~x.listed
    <3>1. x.rewardsDuration = 0 /\ y = x
      BY <1>1, <1>14, <2>2
    <3>2. y.stored = 0 /\ \A v \in Users : r[v] = 0
      BY <1>1, <3>1
    <3>3. R = 0
      <4>1. \A v \in {} : r[v] \in Int
        OBVIOUS
      <4>2. SumOver(r, Users) = SumOver(r, {})
        BY <1>f, <3>2, <4>1, SumWithin
      <4> QED
        BY <4>2, SumEmpty
    <3>4. S = 0
      <4> DEFINE f == [v \in Users |-> w[v] * (y.stored - p[v])]
      <4>1. \A v \in Users : f[v] = 0
        <5> TAKE v \in Users
        <5>1. y.stored - p[v] = 0 /\ w[v] \in Nat
          BY <1>8, <3>2 DEF Amounts
        <5>2. w[v] * 0 = 0
          BY <5>1
        <5> QED
          BY <5>1, <5>2
      <4>2. \A v \in {} : f[v] \in Int
        OBVIOUS
      <4> HIDE DEF f
      <4>3. SumOver(f, Users) = SumOver(f, {})
        BY <1>f, <4>1, <4>2, SumWithin
      <4>4. SumOver(f, Users) = 0
        BY <4>3, SumEmpty
      <4> QED
        BY <4>4 DEF Accruing, f
    <3>5. Wad * R = 0
      BY <1>f, <3>3
    <3> QED
      BY <1>11, <3>4, <3>5
  <2> QED
    BY <2>1, <2>2
<1>15. ASSUME ~suspect2 PROVE Owed(w, r, p, z) <= Wad * (held + amount)
  <2> DEFINE a == rate * duration
             b == Wad * R
             c == Wad * held
             e == amount * Wad
  <2>1. b + S <= c /\ b \in Nat /\ c \in Nat /\ a \in Nat /\ e \in Nat /\ a <= e
        /\ Owed(w, r, p, z) = b + S + a /\ Wad * (held + amount) = c + e
    BY <1>4, <1>11, <1>12, <1>13, <1>14, <1>15
  <2> HIDE DEF a, b, c, e, R, S
  <2> QED
    BY <1>10, <2>1
<1>16. Solvent(z, p, r, w, held + amount, suspect2)
  <2>1. held + amount \in Nat
    BY <1>1
  <2> QED
    BY <1>15, <2>1 DEF Solvent
<1> QED
  BY <1>9, <1>16 DEF z, rate

RewardTypes ==
    /\ reward \in [Deployments -> RewardRecord]
    /\ rewardPaid \in [Deployments -> Amounts]
    /\ rewards \in [Deployments -> Amounts]
    /\ rewardHeld \in [Deployments -> Nat]
    /\ rewardSuspect \in [Deployments -> BOOLEAN]

\* The inductive invariant of the rewards: what is owed, with what the running
\* period still streams, is covered before any rounding.
RewardInv ==
    /\ RewardTypes
    /\ \A d \in Deployments :
          /\ Wellkept(reward[d], rewardPaid[d], rewards[d], now)
          /\ Solvent(reward[d], rewardPaid[d], rewards[d], weightedBalances[d],
                     rewardHeld[d], rewardSuspect[d])

\* The rewards of one deployment change.
LEMMA OneDeployment ==
    ASSUME RewardInv, NEW d \in Deployments, NEW x, NEW p, NEW r, NEW held,
           NEW suspect \in BOOLEAN, now' = now,
           reward' = [reward EXCEPT ![d] = x], rewardPaid' = [rewardPaid EXCEPT ![d] = p],
           rewards' = [rewards EXCEPT ![d] = r], rewardHeld' = [rewardHeld EXCEPT ![d] = held],
           rewardSuspect' = [rewardSuspect EXCEPT ![d] = suspect],
           \A e \in Deployments \ {d} : weightedBalances'[e] = weightedBalances[e],
           Wellkept(x, p, r, now), Solvent(x, p, r, weightedBalances'[d], held, suspect)
    PROVE  RewardInv'
<1>1. RewardTypes
  BY DEF RewardInv
<1>2. x \in RewardRecord /\ p \in Amounts /\ r \in Amounts /\ held \in Nat
  BY DEF Wellkept, Solvent
<1>3. RewardTypes'
  BY <1>1, <1>2 DEF RewardTypes
<1>4. ASSUME NEW e \in Deployments
      PROVE  /\ Wellkept(reward'[e], rewardPaid'[e], rewards'[e], now')
             /\ Solvent(reward'[e], rewardPaid'[e], rewards'[e], weightedBalances'[e],
                        rewardHeld'[e], rewardSuspect'[e])
  <2>1. CASE e = d
    <3>1. /\ reward'[e] = x /\ rewardPaid'[e] = p /\ rewards'[e] = r /\ rewardHeld'[e] = held
          /\ rewardSuspect'[e] = suspect
      BY <1>1, <2>1 DEF RewardTypes
    <3> QED
      BY <2>1, <3>1
  <2>2. CASE e # d
    <3>1. /\ reward'[e] = reward[e] /\ rewardPaid'[e] = rewardPaid[e]
          /\ rewards'[e] = rewards[e] /\ rewardHeld'[e] = rewardHeld[e]
          /\ rewardSuspect'[e] = rewardSuspect[e]
          /\ weightedBalances'[e] = weightedBalances[e]
      BY <1>1, <2>2 DEF RewardTypes
    <3>2. /\ Wellkept(reward[e], rewardPaid[e], rewards[e], now)
          /\ Solvent(reward[e], rewardPaid[e], rewards[e], weightedBalances[e],
                     rewardHeld[e], rewardSuspect[e])
      BY DEF RewardInv
    <3> QED
      BY <3>1, <3>2
  <2> QED
    BY <2>1, <2>2
<1> QED
  BY <1>3, <1>4 DEF RewardInv

\* At the start nothing is held and nothing owed.
LEMMA InitRewardInv == StakingInit => RewardInv
<1> SUFFICES ASSUME StakingInit PROVE RewardInv
  OBVIOUS
<1>1. /\ now = 0 /\ reward = [d \in Deployments |-> NoReward]
      /\ rewardPaid = [d \in Deployments |-> [u \in Users |-> 0]]
      /\ rewards = [d \in Deployments |-> [u \in Users |-> 0]]
      /\ rewardHeld = [d \in Deployments |-> 0]
      /\ rewardSuspect = [d \in Deployments |-> FALSE]
  BY DEF StakingInit
<1>2. NoReward \in RewardRecord /\ [u \in Users |-> 0] \in Amounts /\ 0 \in Nat
  BY DEF NoReward, RewardRecord, Amounts
<1>3. RewardTypes
  BY <1>1, <1>2 DEF RewardTypes
<1>4. Wellkept(NoReward, [u \in Users |-> 0], [u \in Users |-> 0], 0)
  <2>1. /\ NoReward.lastUpdateTime = 0 /\ NoReward.periodFinish = 0 /\ NoReward.stored = 0
        /\ NoReward.listed = FALSE
    BY DEF NoReward
  <2> QED
    BY <1>2, <2>1 DEF Wellkept
<1>5. \A w : Solvent(NoReward, [u \in Users |-> 0], [u \in Users |-> 0], w, 0, FALSE)
  BY DEF Solvent, NoReward
<1>6. ASSUME NEW d \in Deployments
      PROVE  /\ Wellkept(reward[d], rewardPaid[d], rewards[d], now)
             /\ Solvent(reward[d], rewardPaid[d], rewards[d], weightedBalances[d],
                        rewardHeld[d], rewardSuspect[d])
  <2>1. /\ reward[d] = NoReward /\ rewardPaid[d] = [u \in Users |-> 0]
        /\ rewards[d] = [u \in Users |-> 0] /\ rewardHeld[d] = 0 /\ rewardSuspect[d] = FALSE
    BY <1>1
  <2> QED
    BY <1>1, <1>4, <1>5, <2>1
<1> QED
  BY <1>3, <1>6 DEF RewardInv

\* What the invariants say of one deployment.
LEMMA RewardFacts ==
    ASSUME StakeInv, RewardInv, NEW d \in Deployments
    PROVE  /\ reward[d] \in RewardRecord /\ rewardPaid[d] \in Amounts /\ rewards[d] \in Amounts
           /\ rewardHeld[d] \in Nat /\ rewardSuspect[d] \in BOOLEAN /\ now \in Nat
           /\ Wellkept(reward[d], rewardPaid[d], rewards[d], now)
           /\ Solvent(reward[d], rewardPaid[d], rewards[d], weightedBalances[d], rewardHeld[d],
                      rewardSuspect[d])
           /\ weightedBalances[d] \in Amounts
           /\ totalSupply[d] = SumOver(weightedBalances[d], Users)
           /\ reward[d].listed =>
                 /\ AccruesTo(reward[d], Accrued(d), totalSupply[d])
                 /\ Accrued(d).listed /\ Accrued(d).rewardsDuration = reward[d].rewardsDuration
                 /\ Accrued(d).lastUpdateTime <= now
                 /\ Accrued(d).stored = RewardPerToken(d)
                 /\ Accrued(d).lastUpdateTime = LastTimeRewardApplicable(d)
<1>1. /\ reward[d] \in RewardRecord /\ rewardPaid[d] \in Amounts /\ rewards[d] \in Amounts
      /\ rewardHeld[d] \in Nat
  BY DEF RewardInv, RewardTypes
<1>2. rewardSuspect[d] \in BOOLEAN
  BY DEF RewardInv, RewardTypes
<1>3. /\ Wellkept(reward[d], rewardPaid[d], rewards[d], now)
      /\ Solvent(reward[d], rewardPaid[d], rewards[d], weightedBalances[d], rewardHeld[d],
                 rewardSuspect[d])
  BY DEF RewardInv
<1>4. /\ weightedBalances[d] \in Amounts /\ totalSupply[d] \in Nat
      /\ totalSupply[d] = SumOver(weightedBalances[d], Users)
  BY WeightsNatural DEF NaturalWeights
<1>5. now \in Nat
  BY DEF StakeInv, StakeTypes
<1>6. /\ reward[d].lastUpdateTime <= now /\ reward[d].lastUpdateTime <= reward[d].periodFinish
  BY <1>3 DEF Wellkept
<1>7. ASSUME reward[d].listed
      PROVE  /\ AccruesTo(reward[d], Accrued(d), totalSupply[d])
             /\ Accrued(d).listed /\ Accrued(d).rewardsDuration = reward[d].rewardsDuration
             /\ Accrued(d).lastUpdateTime <= now
             /\ Accrued(d).stored = RewardPerToken(d)
             /\ Accrued(d).lastUpdateTime = LastTimeRewardApplicable(d)
  BY <1>1, <1>4, <1>5, <1>6, <1>7, IndexGrows
<1> QED
  BY <1>1, <1>2, <1>3, <1>4, <1>5, <1>7

\* What an account has earned is natural.
LEMMA EarnedNatural ==
    ASSUME StakeInv, RewardInv, NEW d \in Deployments, NEW u \in Users, reward[d].listed
    PROVE  /\ Earned(d, u) \in Nat
           /\ Earned(d, u) = (weightedBalances[d][u] * (Accrued(d).stored - rewardPaid[d][u]))
                                \div Wad + rewards[d][u]
           /\ Wad * ((weightedBalances[d][u] * (Accrued(d).stored - rewardPaid[d][u])) \div Wad)
                 <= weightedBalances[d][u] * (Accrued(d).stored - rewardPaid[d][u])
           /\ rewardPaid[d][u] <= Accrued(d).stored
           /\ RewardPerToken(d) \in Nat
<1> DEFINE y == Accrued(d)
           w == weightedBalances[d]
           p == rewardPaid[d]
           r == rewards[d]
           a == w[u] * (y.stored - p[u])
<1>1. /\ w \in Amounts /\ p \in Amounts /\ r \in Amounts /\ y.stored = RewardPerToken(d)
      /\ AccruesTo(reward[d], y, totalSupply[d])
      /\ Wellkept(reward[d], p, r, now)
  BY RewardFacts
<1>2. y.stored \in Nat /\ reward[d].stored <= y.stored /\ reward[d].stored \in Nat
  BY <1>1 DEF AccruesTo, RewardRecord, Wellkept
<1> HIDE DEF y
<1>3. w[u] \in Nat /\ p[u] \in Nat /\ r[u] \in Nat /\ p[u] <= y.stored
  <2>1. w[u] \in Nat /\ p[u] \in Nat /\ r[u] \in Nat /\ p[u] <= reward[d].stored
    BY <1>1 DEF Amounts, Wellkept
  <2> QED
    BY <1>2, <2>1
<1>4. a \in Nat
  <2> DEFINE m == w[u]
             n == y.stored - p[u]
  <2>1. m \in Nat /\ n \in Nat
    BY <1>2, <1>3
  <2> HIDE DEF m, n
  <2>2. m * n \in Nat
    BY <2>1, Product
  <2> QED
    BY <2>2 DEF m, n
<1>5. Earned(d, u) = a \div Wad + r[u]
  BY <1>1 DEF Earned
<1> HIDE DEF a, r
<1>6. a \div Wad \in Nat /\ Wad * (a \div Wad) <= a
  BY <1>4, RewardAssumption, Division
<1>7. Earned(d, u) \in Nat
  <2>1. r[u] \in Nat
    BY <1>3
  <2> QED
    BY <1>5, <1>6, <2>1
<1>8. RewardPerToken(d) \in Nat
  BY <1>1, <1>2
<1> QED
  BY <1>3, <1>5, <1>6, <1>7, <1>8 DEF a, r, y

\* An account's rewards are updated, and its weight may change.
LEMMA UpdateKeepsRewards ==
    ASSUME StakeInv, StakeInv', RewardInv, NEW d \in Deployments, NEW u \in Users, NEW z,
           weightedBalances' = [weightedBalances EXCEPT ![d][u] = z],
           UpdateReward(d, u), UNCHANGED <<now, rewardHeld, rewardSuspect>>
    PROVE  RewardInv'
<1> DEFINE x == reward[d]
           y == Accrued(d)
           p == rewardPaid[d]
           r == rewards[d]
           w == weightedBalances[d]
           w2 == weightedBalances'[d]
           held == rewardHeld[d]
           suspect == rewardSuspect[d]
<1>1. RewardTypes
  BY DEF RewardInv
<1>2. w2 \in Amounts
  BY WeightsNaturalNext DEF NaturalWeights
<1>3. /\ \A v \in Users : v # u => w2[v] = w[v]
      /\ \A e \in Deployments \ {d} : weightedBalances'[e] = weightedBalances[e]
  <2>1. weightedBalances \in [Deployments -> [Users -> Int]]
    BY DEF StakeInv, StakeTypes
  <2> QED
    BY <2>1
<1>4. /\ p \in Amounts /\ r \in Amounts /\ held \in Nat /\ now \in Nat /\ w \in Amounts
      /\ Wellkept(x, p, r, now) /\ Solvent(x, p, r, w, held, suspect)
      /\ totalSupply[d] = SumOver(w, Users)
  BY RewardFacts
<1>5. suspect \in BOOLEAN
  BY RewardFacts
<1>6. /\ reward' = [reward EXCEPT ![d] = y] /\ now' = now
      /\ rewardHeld' = [rewardHeld EXCEPT ![d] = held]
      /\ rewardSuspect' = [rewardSuspect EXCEPT ![d] = suspect]
  BY <1>1 DEF UpdateReward, RewardTypes
<1>7. CASE x.listed
  <2> DEFINE earned == Earned(d, u)
             r2 == [r EXCEPT ![u] = earned - 0]
             p2 == [p EXCEPT ![u] = y.stored]
  <2>1. /\ AccruesTo(x, y, SumOver(w, Users)) /\ y.listed
        /\ y.rewardsDuration = x.rewardsDuration /\ y.lastUpdateTime <= now
        /\ y.stored = RewardPerToken(d)
    BY <1>7, RewardFacts
  <2>2. earned \in Nat /\ earned = (w[u] * (y.stored - p[u])) \div Wad + r[u]
    BY <1>7, EarnedNatural
  <2>3. rewards' = [rewards EXCEPT ![d] = r2] /\ rewardPaid' = [rewardPaid EXCEPT ![d] = p2]
    <3>1. earned - 0 = earned
      BY <2>2
    <3>2. rewards' = [rewards EXCEPT ![d][u] = earned]
      BY <1>7 DEF UpdateReward
    <3>3. rewardPaid' = [rewardPaid EXCEPT ![d][u] = y.stored]
      BY <1>7, <2>1 DEF UpdateReward
    <3> HIDE DEF earned, y
    <3> QED
      BY <1>1, <3>1, <3>2, <3>3 DEF RewardTypes
  <2>4. Wellkept(y, p2, r2, now) /\ Solvent(y, p2, r2, w2, held - 0, suspect)
    <3> DEFINE held2 == held - 0
    <3>1. Settles(x, p, r, w, held, y, p2, r2, w2, held2, u, earned, 0, now)
      <4>1. 0 \in Nat /\ 0 <= earned /\ 0 <= held
        BY <1>4, <2>2
      <4> HIDE DEF earned, x, y, p, r, w, w2, held
      <4> QED
        BY <1>2, <1>3, <1>4, <1>7, <2>1, <2>2, <4>1 DEF Settles
    <3> HIDE DEF earned, x, y, p, r, w, w2, held, suspect, r2, p2, held2
    <3>2. Wellkept(y, p2, r2, now) /\ Solvent(y, p2, r2, w2, held2, suspect)
      BY <1>4, <1>5, <3>1, Settled
    <3> QED
      BY <3>2 DEF held2
  <2>5. held - 0 = held
    BY <1>4
  <2>6. Wellkept(y, p2, r2, now) /\ Solvent(y, p2, r2, w2, held, suspect)
    BY <2>4, <2>5
  <2> HIDE DEF earned, x, p, r, r2, p2, y, held, suspect
  <2> QED
    BY <1>3, <1>5, <1>6, <2>3, <2>6, OneDeployment
<1>8. CASE ~x.listed
  <2>1. /\ y = x /\ rewards' = [rewards EXCEPT ![d] = r]
        /\ rewardPaid' = [rewardPaid EXCEPT ![d] = p]
    BY <1>1, <1>8 DEF UpdateReward, Accrued, RewardTypes
  <2>2. Solvent(x, p, r, w2, held, suspect)
    BY <1>4, <1>8 DEF Solvent
  <2> HIDE DEF x, y, p, r, held, suspect
  <2> QED
    BY <1>3, <1>4, <1>5, <1>6, <2>1, <2>2, OneDeployment
<1> QED
  BY <1>7, <1>8

\* An account is paid what it earned.
LEMMA ClaimKeepsRewards ==
    ASSUME StakeInv, RewardInv, NEW d \in Deployments, NEW u \in Users, GetReward(d, u)
    PROVE  RewardInv'
<1> DEFINE x == reward[d]
           y == Accrued(d)
           p == rewardPaid[d]
           r == rewards[d]
           w == weightedBalances[d]
           held == rewardHeld[d]
           suspect == rewardSuspect[d]
           earned == Earned(d, u)
           r2 == [r EXCEPT ![u] = earned - earned]
           p2 == [p EXCEPT ![u] = y.stored]
<1>1. RewardTypes
  BY DEF RewardInv
<1>2. x.listed /\ held >= earned /\ weightedBalances' = weightedBalances /\ now' = now
  BY DEF GetReward, stakeVars
<1>3. /\ p \in Amounts /\ r \in Amounts /\ held \in Nat /\ now \in Nat /\ w \in Amounts
      /\ Wellkept(x, p, r, now) /\ Solvent(x, p, r, w, held, suspect)
  BY RewardFacts
<1>4. suspect \in BOOLEAN
  BY RewardFacts
<1>5. /\ AccruesTo(x, y, SumOver(w, Users)) /\ y.listed
      /\ y.rewardsDuration = x.rewardsDuration /\ y.lastUpdateTime <= now
      /\ y.stored = RewardPerToken(d)
  BY <1>2, RewardFacts
<1>6. earned \in Nat /\ earned = (w[u] * (y.stored - p[u])) \div Wad + r[u]
  BY <1>2, EarnedNatural
<1>7. /\ reward' = [reward EXCEPT ![d] = y]
      /\ rewardHeld' = [rewardHeld EXCEPT ![d] = held - earned]
      /\ rewardSuspect' = [rewardSuspect EXCEPT ![d] = suspect]
  BY <1>1 DEF GetReward, RewardTypes
<1>8. rewards' = [rewards EXCEPT ![d] = r2] /\ rewardPaid' = [rewardPaid EXCEPT ![d] = p2]
  <2>1. earned - earned = 0
    BY <1>6
  <2>2. rewards' = [rewards EXCEPT ![d][u] = 0]
    BY DEF GetReward
  <2>3. rewardPaid' = [rewardPaid EXCEPT ![d][u] = y.stored]
    BY <1>5 DEF GetReward
  <2> HIDE DEF earned, y
  <2> QED
    BY <1>1, <2>1, <2>2, <2>3 DEF RewardTypes
<1>9. Wellkept(y, p2, r2, now) /\ Solvent(y, p2, r2, w, held - earned, suspect)
  <2> DEFINE held2 == held - earned
  <2>1. Settles(x, p, r, w, held, y, p2, r2, w, held2, u, earned, earned, now)
    <3>1. earned <= earned /\ earned <= held
      BY <1>2, <1>3, <1>6
    <3> HIDE DEF earned, x, y, p, r, w, held
    <3> QED
      BY <1>2, <1>3, <1>5, <1>6, <3>1 DEF Settles
  <2> HIDE DEF earned, x, y, p, r, w, held, suspect, r2, p2, held2
  <2>2. Wellkept(y, p2, r2, now) /\ Solvent(y, p2, r2, w, held2, suspect)
    BY <1>3, <1>4, <2>1, Settled
  <2> QED
    BY <2>2 DEF held2
<1> HIDE DEF r2, p2, y, held, suspect, earned
<1> QED
  BY <1>2, <1>4, <1>7, <1>8, <1>9, OneDeployment

\* A reward is announced.
LEMMA AnnouncementKeepsRewards ==
    ASSUME StakeInv, RewardInv, NEW d \in Deployments, NEW amount \in Nat,
           NEW duration \in Nat \ {0}, NotifyRewardAmount(d, amount, duration),
           UNCHANGED <<now, weightedBalances>>
    PROVE  RewardInv'
<1> DEFINE x == reward[d]
           y == Accrued(d)
           p == rewardPaid[d]
           r == rewards[d]
           w == weightedBalances[d]
           held == rewardHeld[d]
           suspect == rewardSuspect[d]
           z == Renewed(y, (amount * Wad) \div duration, duration, now)
           suspect2 == suspect \/ (~x.listed /\ x.rewardsDuration > 0)
           held2 == held + amount
<1>1. RewardTypes
  BY DEF RewardInv
<1>2. /\ reward' = [reward EXCEPT ![d] = z]
      /\ rewardHeld' = [rewardHeld EXCEPT ![d] = held2]
      /\ rewardSuspect' = [rewardSuspect EXCEPT ![d] = suspect2]
  BY DEF NotifyRewardAmount, AccruedByNotify, Renewed
<1>3. rewards' = [rewards EXCEPT ![d] = r] /\ rewardPaid' = [rewardPaid EXCEPT ![d] = p]
  BY <1>1 DEF NotifyRewardAmount, RewardTypes
<1>4. /\ w \in Amounts /\ now \in Nat /\ Wellkept(x, p, r, now)
      /\ Solvent(x, p, r, w, held, suspect)
  BY RewardFacts
<1>5. suspect \in BOOLEAN
  BY RewardFacts
<1>6. x.listed => AccruesTo(x, y, SumOver(w, Users))
  BY RewardFacts
<1>7. ~x.listed => y = x
  BY DEF Accrued
<1>8. Wellkept(z, p, r, now) /\ Solvent(z, p, r, w, held2, suspect2)
  <2> HIDE DEF x, y, p, r, w, held, suspect
  <2> QED
    BY <1>4, <1>5, <1>6, <1>7, Announced
<1>9. suspect2 \in BOOLEAN
  OBVIOUS
<1>10. weightedBalances' = weightedBalances /\ now' = now
  OBVIOUS
<1> HIDE DEF z, p, r, held2, suspect2
<1> QED
  BY <1>2, <1>3, <1>8, <1>9, <1>10, OneDeployment

\* The duration of a reward is set, its token removed, or what is held swept.
LEMMA SettingKeepsRewards ==
    ASSUME StakeInv, RewardInv, NEW d \in Deployments, UNCHANGED <<now, weightedBalances>>,
           \/ \E t \in RewardDurations : SetRewardsDuration(d, t)
           \/ RemoveRewardToken(d)
           \/ RescueReward(d)
    PROVE  RewardInv'
<1> DEFINE x == reward[d]
           p == rewardPaid[d]
           r == rewards[d]
           w == weightedBalances[d]
           held == rewardHeld[d]
           suspect == rewardSuspect[d]
<1>1. RewardTypes
  BY DEF RewardInv
<1>2. weightedBalances' = weightedBalances /\ now' = now
  OBVIOUS
<1>3. x \in RewardRecord /\ Wellkept(x, p, r, now) /\ Solvent(x, p, r, w, held, suspect)
  BY RewardFacts
<1>4. suspect \in BOOLEAN
  BY RewardFacts
<1>5. ASSUME NEW t \in RewardDurations, SetRewardsDuration(d, t) PROVE RewardInv'
  <2> DEFINE y == [x EXCEPT !.rewardsDuration = t]
  <2>1. /\ reward' = [reward EXCEPT ![d] = y] /\ x.listed
        /\ rewardPaid' = [rewardPaid EXCEPT ![d] = p]
        /\ rewards' = [rewards EXCEPT ![d] = r]
        /\ rewardHeld' = [rewardHeld EXCEPT ![d] = held]
        /\ rewardSuspect' = [rewardSuspect EXCEPT ![d] = suspect]
    BY <1>1, <1>5 DEF SetRewardsDuration, RewardTypes
  <2>2. t \in Nat \ {0}
    BY RewardAssumption
  <2>3. y \in RewardRecord
    BY <1>3, <2>2 DEF RewardRecord
  <2>4. y.listed = x.listed /\ y.rewardsDuration = t
    BY <1>3 DEF RewardRecord
  <2>5. /\ y.rate = x.rate /\ y.periodFinish = x.periodFinish
        /\ y.lastUpdateTime = x.lastUpdateTime /\ y.stored = x.stored
    BY <1>3 DEF RewardRecord
  <2> HIDE DEF x, y, p, r, w, held, suspect
  <2>6. Wellkept(y, p, r, now)
    BY <1>3, <2>2, <2>3, <2>4, <2>5 DEF Wellkept
  <2>7. Owed(w, r, p, y) = Owed(w, r, p, x)
    BY <2>5 DEF Owed, Accruing
  <2>8. Solvent(y, p, r, w, held, suspect)
    BY <1>3, <2>4, <2>7 DEF Solvent
  <2>9. weightedBalances'[d] = w
    BY <1>2 DEF w
  <2> QED
    BY <1>2, <1>4, <2>1, <2>6, <2>8, <2>9, OneDeployment
<1>6. ASSUME RemoveRewardToken(d) PROVE RewardInv'
  <2> DEFINE y == [x EXCEPT !.listed = FALSE]
  <2>1. /\ reward' = [reward EXCEPT ![d] = y] /\ x.listed
        /\ rewardPaid' = [rewardPaid EXCEPT ![d] = p]
        /\ rewards' = [rewards EXCEPT ![d] = r]
        /\ rewardHeld' = [rewardHeld EXCEPT ![d] = held]
        /\ rewardSuspect' = [rewardSuspect EXCEPT ![d] = suspect]
    BY <1>1, <1>6 DEF RemoveRewardToken, RewardTypes
  <2>2. y \in RewardRecord
    BY <1>3 DEF RewardRecord
  <2>3. ~y.listed
    BY <1>3 DEF RewardRecord
  <2>4. /\ y.rewardsDuration = x.rewardsDuration /\ y.periodFinish = x.periodFinish
        /\ y.lastUpdateTime = x.lastUpdateTime /\ y.stored = x.stored
    BY <1>3 DEF RewardRecord
  <2> HIDE DEF x, y, p, r, w, held, suspect
  <2>5. Wellkept(y, p, r, now)
    BY <1>3, <2>2, <2>3, <2>4 DEF Wellkept
  <2>6. Solvent(y, p, r, w, held, suspect)
    BY <1>3, <2>3 DEF Solvent
  <2>7. weightedBalances'[d] = w
    BY <1>2 DEF w
  <2> QED
    BY <1>2, <1>4, <2>1, <2>5, <2>6, <2>7, OneDeployment
<1>7. ASSUME RescueReward(d) PROVE RewardInv'
  <2>1. /\ reward' = [reward EXCEPT ![d] = x]
        /\ rewardPaid' = [rewardPaid EXCEPT ![d] = p]
        /\ rewards' = [rewards EXCEPT ![d] = r]
        /\ rewardHeld' = [rewardHeld EXCEPT ![d] = 0]
        /\ rewardSuspect' = [rewardSuspect EXCEPT ![d] = TRUE]
    BY <1>1, <1>7 DEF RescueReward, RewardTypes
  <2> HIDE DEF x, p, r, w, held, suspect
  <2>2. Solvent(x, p, r, w, 0, TRUE)
    BY DEF Solvent
  <2>3. weightedBalances'[d] = w /\ TRUE \in BOOLEAN
    BY <1>2 DEF w
  <2> QED
    BY <1>2, <1>3, <2>1, <2>2, <2>3, OneDeployment
<1> QED
  BY <1>5, <1>6, <1>7

\* The steps that touch no reward.
LEMMA RewardsStay ==
    ASSUME RewardInv, UNCHANGED <<weightedBalances, rewardVars>>, now \in Nat,
           now' \in Nat, now <= now'
    PROVE  RewardInv'
<1>1. /\ weightedBalances' = weightedBalances /\ reward' = reward /\ rewardPaid' = rewardPaid
      /\ rewards' = rewards /\ rewardHeld' = rewardHeld /\ rewardSuspect' = rewardSuspect
  BY DEF rewardVars
<1>2. RewardTypes'
  BY <1>1 DEF RewardInv, RewardTypes
<1>3. ASSUME NEW d \in Deployments
      PROVE  /\ Wellkept(reward[d], rewardPaid[d], rewards[d], now')
             /\ Solvent(reward[d], rewardPaid[d], rewards[d], weightedBalances[d],
                        rewardHeld[d], rewardSuspect[d])
  <2>1. /\ Wellkept(reward[d], rewardPaid[d], rewards[d], now)
        /\ Solvent(reward[d], rewardPaid[d], rewards[d], weightedBalances[d],
                   rewardHeld[d], rewardSuspect[d])
    BY DEF RewardInv
  <2>2. reward[d].lastUpdateTime \in Nat /\ reward[d].lastUpdateTime <= now
    BY <2>1 DEF Wellkept, RewardRecord
  <2>3. reward[d].lastUpdateTime <= now'
    BY <2>2
  <2> QED
    BY <2>1, <2>3 DEF Wellkept
<1> QED
  BY <1>1, <1>2, <1>3 DEF RewardInv

\* Every transaction keeps what is held above what is owed.
LEMMA RewardInvStep ==
    ASSUME StakeInv, StakeInv', RewardInv, [StakingNext]_stakingVars
    PROVE  RewardInv'
<1>1. scope \in Scopes /\ now \in Nat
  BY DEF StakeInv, StakeTypes
<1>2. /\ \A d \in Deployments : scope.stakers[d] \subseteq Users
      /\ scope.rewarded \subseteq Deployments /\ RewardAmounts \subseteq Nat
      /\ RewardDurations \subseteq Nat \ {0}
  BY <1>1, ScopeFacts, RewardAssumption
<1>3. ASSUME NEW d \in Deployments, NEW a \in scope.amounts, NEW q \in scope.periods,
             NEW u \in scope.stakers[d], NEW v \in scope.stakers[d], StakeLockup(d, u, v, a, q)
      PROVE  RewardInv'
  <2> DEFINE z == weightedBalances[d][v] + CalculateWeightedStake(a, q)
  <2>1. /\ UpdateReward(d, v) /\ UNCHANGED <<now, rewardHeld, rewardSuspect>>
        /\ weightedBalances' = [weightedBalances EXCEPT ![d][v] = z]
    BY <1>3 DEF StakeLockup
  <2> HIDE DEF z
  <2>2. v \in Users
    BY <1>2
  <2> QED
    BY <2>1, <2>2, UpdateKeepsRewards
<1>4. ASSUME NEW d \in Deployments, NEW a \in scope.amounts, NEW i \in 0..(MaxStakes - 1),
             NEW u \in scope.stakers[d], UnstakeLockup(d, u, i, a)
      PROVE  RewardInv'
  <2> DEFINE z == weightedBalances[d][u] - WeightToRemove(portfolio[d][u][i + 1], a)
  <2>1. /\ UpdateReward(d, u) /\ UNCHANGED <<now, rewardHeld, rewardSuspect>>
        /\ weightedBalances' = [weightedBalances EXCEPT ![d][u] = z]
    BY <1>4 DEF UnstakeLockup
  <2> HIDE DEF z
  <2>2. u \in Users
    BY <1>2
  <2> QED
    BY <2>1, <2>2, UpdateKeepsRewards
<1>5. ASSUME NEW d \in Deployments, NEW u \in scope.stakers[d], GetReward(d, u)
      PROVE  RewardInv'
  BY <1>2, <1>5, ClaimKeepsRewards
<1>6. ASSUME GovernanceStep PROVE RewardInv'
  <2>1. UNCHANGED <<now, weightedBalances>>
    BY <1>6 DEF GovernanceStep, stakeVars
  <2>2. ASSUME NEW d \in scope.rewarded, NEW a \in RewardAmounts, NEW t \in RewardDurations,
               NotifyRewardAmount(d, a, t)
        PROVE  RewardInv'
    <3>1. d \in Deployments /\ a \in Nat /\ t \in Nat \ {0}
      BY <1>2
    <3> QED
      BY <2>1, <2>2, <3>1, AnnouncementKeepsRewards
  <2>3. ASSUME NEW d \in scope.rewarded,
               \/ \E t \in RewardDurations : SetRewardsDuration(d, t)
               \/ RemoveRewardToken(d)
               \/ RescueReward(d)
        PROVE  RewardInv'
    <3>1. d \in Deployments
      BY <1>2
    <3> QED
      BY <2>1, <2>3, <3>1, SettingKeepsRewards
  <2>4. ASSUME NEW d \in scope.governed,
               \/ \E k \in Buckets, cap \in Caps : UpdateLockupBucketCap(d, k, cap)
               \/ \E b \in BOOLEAN : UpdatePenaltyEnabled(d, b)
               \/ \E b \in BOOLEAN : SetPaused(b)
        PROVE  RewardInv'
    <3>1. UNCHANGED rewardVars
      <4>1. CASE \E k \in Buckets, cap \in Caps : UpdateLockupBucketCap(d, k, cap)
        BY <4>1 DEF UpdateLockupBucketCap
      <4>2. CASE \E b \in BOOLEAN : UpdatePenaltyEnabled(d, b)
        BY <4>2 DEF UpdatePenaltyEnabled
      <4>3. CASE \E b \in BOOLEAN : SetPaused(b)
        BY <4>3 DEF SetPaused
      <4> QED
        BY <2>4, <4>1, <4>2, <4>3
    <3>2. now' = now /\ now <= now
      BY <1>1, <2>1
    <3> QED
      BY <1>1, <2>1, <3>1, <3>2, RewardsStay
  <2> QED
    BY <1>6, <2>2, <2>3, <2>4 DEF GovernanceStep
<1>7. ASSUME \/ \E m \in scope.delegations, b \in BOOLEAN : SetAuthorization(m[1], m[2], m[3], b)
             \/ \E u \in scope.burners, a \in scope.amounts : BurnOwn(u, a)
             \/ Tick
             \/ UNCHANGED stakingVars
      PROVE  RewardInv'
  <2>1. UNCHANGED <<weightedBalances, rewardVars>> /\ (now' = now \/ now' = now + 1)
    <3>1. CASE \E m \in scope.delegations, b \in BOOLEAN :
                  SetAuthorization(m[1], m[2], m[3], b)
      BY <3>1 DEF SetAuthorization, stakeVars
    <3>2. CASE \E u \in scope.burners, a \in scope.amounts : BurnOwn(u, a)
      BY <3>2 DEF BurnOwn, stakeVars
    <3>3. CASE Tick
      BY <3>3 DEF Tick, stakeVars
    <3>4. CASE UNCHANGED stakingVars
      BY <3>4 DEF stakingVars, stakeVars
    <3> QED
      BY <1>7, <3>1, <3>2, <3>3, <3>4
  <2>2. now' \in Nat /\ now <= now'
    BY <1>1, <2>1
  <2> QED
    BY <1>1, <2>1, <2>2, RewardsStay
<1> QED
  BY <1>3, <1>4, <1>5, <1>6, <1>7 DEF StakingNext, QuietStep

\* What accounts earned is, rounded, no more than what is owed.
LEMMA EarnedIsOwed ==
    ASSUME StakeInv, RewardInv, NEW d \in Deployments, reward[d].listed, ~rewardSuspect[d]
    PROVE  rewardHeld[d] >= SumOver([u \in Users |-> Earned(d, u)], Users)
<1> DEFINE x == reward[d]
           y == Accrued(d)
           w == weightedBalances[d]
           p == rewardPaid[d]
           r == rewards[d]
           held == rewardHeld[d]
           e == [u \in Users |-> Earned(d, u)]
           f == [u \in Users |-> w[u] * (y.stored - p[u])]
           g == [u \in Users |-> r[u] * Wad]
           h == [u \in Users |-> f[u] + g[u]]
           ew == [u \in Users |-> e[u] * Wad]
           late == y.rate * (y.periodFinish - y.lastUpdateTime)
<1>f. IsFiniteSet(Users) /\ Wad \in Nat \ {0}
  BY ScopeAssumption, RewardAssumption
<1>1. /\ w \in Amounts /\ p \in Amounts /\ r \in Amounts /\ held \in Nat
      /\ AccruesTo(x, y, SumOver(w, Users)) /\ Wellkept(x, p, r, now)
      /\ Solvent(x, p, r, w, held, rewardSuspect[d])
  BY RewardFacts
<1>2. Owed(w, r, p, x) <= Wad * held /\ x \in RewardRecord /\ \A u \in Users : p[u] <= x.stored
  BY <1>1 DEF Solvent, Wellkept
<1>3. /\ y \in RewardRecord /\ y.lastUpdateTime <= y.periodFinish
  BY <1>1 DEF AccruesTo
<1>4. ASSUME NEW u \in Users
      PROVE  /\ Earned(d, u) \in Nat
             /\ Earned(d, u) = (w[u] * (y.stored - p[u])) \div Wad + r[u]
             /\ Wad * ((w[u] * (y.stored - p[u])) \div Wad) <= w[u] * (y.stored - p[u])
             /\ p[u] <= y.stored
  BY EarnedNatural
<1>5. /\ Owed(w, r, p, y) <= Owed(w, r, p, x)
      /\ Owed(w, r, p, y) \in Nat /\ Owed(w, r, p, x) \in Nat
  <2> HIDE DEF x, y, w, p, r
  <2> QED
    BY <1>1, <1>2, OwedAccrued
<1>6. Accruing(w, p, y) \in Nat /\ \A u \in Users : f[u] \in Nat
  <2>1. \A u \in Users : p[u] <= y.stored
    BY <1>4
  <2> HIDE DEF x, y, w, p, r
  <2> QED
    BY <1>1, <1>3, <2>1, AccruingNatural
<1>7. late \in Nat
  <2>1. y.rate \in Nat /\ y.periodFinish \in Nat /\ y.lastUpdateTime \in Nat
    BY <1>3 DEF RewardRecord
  <2> DEFINE a == y.rate
             b == y.periodFinish - y.lastUpdateTime
  <2>2. a \in Nat /\ b \in Nat
    BY <1>3, <2>1
  <2> HIDE DEF a, b
  <2>3. a * b \in Nat
    BY <2>2, Product
  <2> QED
    BY <2>3 DEF a, b
<1>8. ASSUME NEW u \in Users
      PROVE  e[u] \in Nat /\ r[u] \in Nat /\ ew[u] \in Nat /\ ew[u] <= h[u] /\ h[u] \in Nat
             /\ f[u] \in Int /\ g[u] \in Int
  <2> DEFINE a == f[u]
             q == a \div Wad
             n == r[u]
             m == e[u]
  <2>1. a \in Nat /\ n \in Nat /\ m \in Nat
    BY <1>1, <1>4, <1>6 DEF Amounts
  <2>2. m = q + n /\ Wad * q <= a
    BY <1>4
  <2>3. q \in Nat
    <3> HIDE DEF a
    <3> QED
      BY <1>f, <2>1, Division
  <2>4. ew[u] = m * Wad /\ g[u] = n * Wad /\ h[u] = a + n * Wad /\ f[u] = a
    OBVIOUS
  <2> HIDE DEF a, q, n, m, e, f, g, h, ew
  <2>5. m * Wad = Wad * q + n * Wad /\ m * Wad \in Nat /\ n * Wad \in Nat
    <3>1. m * Wad \in Nat /\ n * Wad \in Nat
      BY <1>f, <2>1, Product
    <3>2. (q + n) * Wad = Wad * q + n * Wad
      BY <1>f, <2>1, <2>3
    <3> QED
      BY <2>2, <3>1, <3>2
  <2>6. Wad * q \in Nat
    BY <1>f, <2>3, Product
  <2> DEFINE b == m * Wad
             c == n * Wad
             k == Wad * q
  <2>7. b = k + c /\ b \in Nat /\ c \in Nat /\ k \in Nat /\ k <= a
    BY <2>2, <2>5, <2>6
  <2> HIDE DEF b, c, k
  <2>8. b <= a + c /\ a + c \in Nat
    BY <2>1, <2>7
  <2> QED
    BY <2>1, <2>4, <2>7, <2>8 DEF b, c, m, n
<1> HIDE DEF e, f, g, h, ew
<1>9. SumOver(ew, Users) <= SumOver(h, Users)
  <2>1. Users \in SUBSET Users /\ \A u \in Users : ew[u] \in Int
    BY <1>8
  <2> QED
    BY <1>f, <1>8, <2>1, SumLess
<1>10. SumOver(h, Users) = SumOver(f, Users) + SumOver(g, Users)
  <2>1. \A u \in Users : h[u] = f[u] + g[u]
    BY DEF h
  <2> QED
    BY <1>f, <1>8, <2>1, SumPlus
<1>11. SumOver(g, Users) = SumOver(r, Users) * Wad
  <2>1. \A u \in Users : r[u] \in Int /\ g[u] = r[u] * Wad
    BY <1>8 DEF g
  <2> HIDE DEF r
  <2> QED
    BY <1>f, <2>1, SumTimes
<1>12. SumOver(ew, Users) = SumOver(e, Users) * Wad
  <2>1. \A u \in Users : e[u] \in Int /\ ew[u] = e[u] * Wad
    BY <1>8 DEF ew
  <2> QED
    BY <1>f, <2>1, SumTimes
<1>13. SumOver(f, Users) = Accruing(w, p, y)
  BY DEF Accruing, f
<1>14. SumOver(e, Users) \in Nat /\ SumOver(r, Users) \in Nat
  <2>1. SumOver(e, Users) \in Nat
    BY <1>f, <1>8, SumNat
  <2>2. \A u \in Users : r[u] \in Nat
    BY <1>8
  <2> HIDE DEF r
  <2>3. SumOver(r, Users) \in Nat
    BY <1>f, <2>2, SumNat
  <2> QED
    BY <2>1, <2>3
<1>15. Owed(w, r, p, y) = Wad * SumOver(r, Users) + Accruing(w, p, y) + late
  BY DEF Owed
<1> DEFINE E == SumOver(e, Users)
           R == SumOver(r, Users)
           A == Accruing(w, p, y)
           o == Owed(w, r, p, y)
           o2 == Owed(w, r, p, x)
<1>16. /\ E \in Nat /\ R \in Nat /\ A \in Nat /\ late \in Nat /\ o \in Nat /\ o2 \in Nat
       /\ o <= o2 /\ o2 <= Wad * held /\ o = Wad * R + A + late
       /\ E * Wad <= A + R * Wad
  BY <1>2, <1>5, <1>6, <1>7, <1>9, <1>10, <1>11, <1>12, <1>13, <1>14, <1>15
<1>17. held \in Nat
  BY <1>1
<1> HIDE DEF E, R, A, o, o2, late, held
<1>18. /\ E * Wad = Wad * E /\ R * Wad = Wad * R
       /\ Wad * E \in Nat /\ Wad * R \in Nat /\ Wad * held \in Nat
  <2>1. E * Wad = Wad * E /\ R * Wad = Wad * R
    BY <1>f, <1>16
  <2>2. Wad * E \in Nat /\ Wad * R \in Nat /\ Wad * held \in Nat
    BY <1>f, <1>16, <1>17, Product
  <2> QED
    BY <2>1, <2>2
<1>19. Wad * E <= Wad * held
  <2> DEFINE a == Wad * E
             b == Wad * R
             c == Wad * held
  <2>1. a \in Nat /\ b \in Nat /\ c \in Nat /\ o <= o2 /\ o2 <= c /\ o = b + A + late
        /\ a <= A + b
    BY <1>16, <1>18
  <2> HIDE DEF a, b, c
  <2>2. a <= c
    BY <1>16, <2>1
  <2> QED
    BY <2>2 DEF a, c
<1>20. E <= held
  BY <1>f, <1>16, <1>17, <1>19, Cancel
<1>21. held >= E
  BY <1>16, <1>17, <1>20
<1> QED
  BY <1>21 DEF E, e, held

\* Every state staking can reach satisfies both inductive invariants, that of the
\* portfolios and that of the rewards.
THEOREM StakingHolds == StakingSpec => [](StakeInv /\ RewardInv)
<1>1. StakeInv /\ RewardInv /\ [StakingNext]_stakingVars => (StakeInv /\ RewardInv)'
  BY StakeInvStep, RewardInvStep
<1> QED
  BY <1>1, InitStakeInv, InitRewardInv, PTL DEF StakingSpec

\* The reward tokens a deployment holds cover what all accounts have earned, for
\* any number of accounts, any weights, rates and periods, through any sequence
\* of stakes, exits, claims and announcements, whatever rounding loses: unless
\* the governor swept them or listed a removed token again.
THEOREM RewardsAreCovered == StakingSpec => []RewardsCovered
<1>1. StakeInv /\ RewardInv => RewardsCovered
  BY EarnedIsOwed DEF RewardsCovered
<1> QED
  BY <1>1, StakingHolds, PTL

\* The state after an account has been paid what it has earned.
EarningsPaid(d, u) ==
    /\ reward' = [reward EXCEPT ![d] = Accrued(d)]
    /\ rewardPaid' = [rewardPaid EXCEPT ![d][u] = RewardPerToken(d)]
    /\ rewards' = [rewards EXCEPT ![d][u] = 0]
    /\ rewardHeld' = [rewardHeld EXCEPT ![d] = @ - Earned(d, u)]
    /\ UNCHANGED <<scope, now, stakeVars, tokenVars, configVars, isAuthorized, rewardSuspect>>

\* An account can always be paid what it has earned, whoever was paid before it
\* and whatever was announced since: getReward does not fail for want of tokens,
\* unless the governor swept them or listed a removed token again.
THEOREM EarningsArePaid ==
    ASSUME StakeInv, RewardInv, NEW d \in Deployments, NEW u \in Users,
           reward[d].listed, ~rewardSuspect[d], EarningsPaid(d, u)
    PROVE  GetReward(d, u)
<1> DEFINE e == [v \in Users |-> Earned(d, v)]
<1>1. \A v \in Users : e[v] \in Nat
  BY EarnedNatural
<1>2. e[u] = Earned(d, u) /\ rewardHeld[d] >= SumOver(e, Users) /\ rewardHeld[d] \in Nat
  BY EarnedIsOwed, RewardFacts
<1>3. IsFiniteSet(Users)
  BY ScopeAssumption
<1> HIDE DEF e
<1>4. SumOver(e, Users) \in Nat /\ e[u] <= SumOver(e, Users) /\ e[u] \in Nat
  BY <1>1, <1>3, SumNat
<1>5. rewardHeld[d] >= Earned(d, u)
  BY <1>2, <1>4
<1> QED
  BY <1>5 DEF EarningsPaid, GetReward

---------------------------------------------------------------------------
(* Only time changes earnings *)

\* What EarningsUndisturbed says of one deployment.
Undisturbed(d) ==
    (reward[d].listed /\ reward'[d].listed /\ ~rewardSuspect'[d]) =>
        \A u \in Users : \/ Earned(d, u)' = Earned(d, u)
                         \/ Earned(d, u)' = 0 /\ rewardHeld'[d] = rewardHeld[d] - Earned(d, u)

\* Earnings are the same at the same index.
LEMMA SameEarnings ==
    ASSUME NEW d \in Deployments, NEW u \in Users,
           weightedBalances'[d][u] = weightedBalances[d][u],
           rewardPaid'[d][u] = rewardPaid[d][u], rewards'[d][u] = rewards[d][u],
           RewardPerToken(d)' = RewardPerToken(d)
    PROVE  Earned(d, u)' = Earned(d, u)
  BY DEF Earned

\* The index stays when rate and times do.
LEMMA IndexStays ==
    ASSUME NEW d \in Deployments, now' = now, totalSupply'[d] = totalSupply[d],
           reward'[d].stored = reward[d].stored, reward'[d].rate = reward[d].rate,
           reward'[d].lastUpdateTime = reward[d].lastUpdateTime,
           reward'[d].periodFinish = reward[d].periodFinish
    PROVE  RewardPerToken(d)' = RewardPerToken(d)
<1>1. LastTimeRewardApplicable(d)' = LastTimeRewardApplicable(d)
  BY DEF LastTimeRewardApplicable
<1> QED
  BY <1>1 DEF RewardPerToken

\* The index stays when it is stored, at this time.
LEMMA IndexStored ==
    ASSUME NEW d \in Deployments, RewardPerToken(d) \in Nat, totalSupply'[d] \in Nat,
           reward'[d].stored = RewardPerToken(d), reward'[d].rate \in Nat,
           reward'[d].lastUpdateTime \in Nat, reward'[d].periodFinish \in Nat,
           Least(now', reward'[d].periodFinish) = reward'[d].lastUpdateTime
    PROVE  RewardPerToken(d)' = RewardPerToken(d)
<1> DEFINE q == RewardPerToken(d)
           c == reward'[d].rate
           t == reward'[d].lastUpdateTime
           W == totalSupply'[d]
<1>1. LastTimeRewardApplicable(d)' = t
  BY DEF LastTimeRewardApplicable
<1>2. RewardPerToken(d)' = IF W = 0 THEN q ELSE q + ((t - t) * c) \div W
  BY <1>1 DEF RewardPerToken
<1>3. q \in Nat /\ c \in Nat /\ t \in Nat /\ W \in Nat
  OBVIOUS
<1>4. RewardPerToken(d)' = q
  <2> HIDE DEF q, c, t, W
  <2>1. t - t = 0
    BY <1>3
  <2>2. 0 * c = 0
    BY <1>3
  <2>3. CASE W = 0
    BY <1>2, <2>3
  <2>4. CASE W # 0
    <3>1. 0 \div W = 0
      BY <1>3, <2>4
    <3>2. q + 0 = q
      BY <1>3
    <3> QED
      BY <1>2, <2>1, <2>2, <2>4, <3>1, <3>2
  <2> QED
    BY <2>3, <2>4
<1> QED
  BY <1>4

\* A deployment none of whose rewards and weights change.
LEMMA UndisturbedStays ==
    ASSUME NEW d \in Deployments, now' = now, totalSupply'[d] = totalSupply[d],
           weightedBalances'[d] = weightedBalances[d], reward'[d] = reward[d],
           rewardPaid'[d] = rewardPaid[d], rewards'[d] = rewards[d]
    PROVE  Undisturbed(d)
<1>1. RewardPerToken(d)' = RewardPerToken(d)
  BY IndexStays
<1> QED
  BY <1>1, SameEarnings DEF Undisturbed

\* A listed record that is accrued at this time keeps the index.
LEMMA IndexAccrued ==
    ASSUME StakeInv, StakeInv', RewardInv, NEW d \in Deployments, reward[d].listed,
           reward'[d] = Accrued(d), now' = now
    PROVE  RewardPerToken(d)' = RewardPerToken(d)
<1> DEFINE y == Accrued(d)
<1>1. /\ AccruesTo(reward[d], y, totalSupply[d]) /\ y.stored = RewardPerToken(d)
      /\ y.lastUpdateTime = LastTimeRewardApplicable(d) /\ now \in Nat
  BY RewardFacts
<1>2. totalSupply'[d] \in Nat
  BY WeightsNaturalNext DEF NaturalWeights
<1>3. /\ y.rate \in Nat /\ y.lastUpdateTime \in Nat /\ y.periodFinish \in Nat
      /\ y.periodFinish = reward[d].periodFinish /\ y.stored \in Nat
  BY <1>1 DEF AccruesTo, RewardRecord
<1> HIDE DEF y
<1>4. reward'[d] = y
  BY DEF y
<1>5. Least(now', y.periodFinish) = y.lastUpdateTime
  BY <1>1, <1>3 DEF LastTimeRewardApplicable
<1> QED
  BY <1>1, <1>2, <1>3, <1>4, <1>5, IndexStored

\* Updating the rewards of an account disturbs nobody's.
LEMMA UpdateUndisturbed ==
    ASSUME StakeInv, StakeInv', RewardInv, NEW d \in Deployments, NEW u \in Users, NEW z,
           NEW s, weightedBalances' = [weightedBalances EXCEPT ![d][u] = z],
           totalSupply' = [totalSupply EXCEPT ![d] = s],
           UpdateReward(d, u), now' = now, NEW e \in Deployments
    PROVE  Undisturbed(e)
<1>1. RewardTypes /\ weightedBalances \in [Deployments -> [Users -> Int]]
      /\ totalSupply \in [Deployments -> Int]
  BY DEF RewardInv, StakeInv, StakeTypes
<1>2. CASE e # d
  <2>1. reward'[e] = reward[e] /\ totalSupply'[e] = totalSupply[e]
        /\ weightedBalances'[e] = weightedBalances[e]
    BY <1>1, <1>2 DEF UpdateReward, RewardTypes
  <2>2. rewards'[e] = rewards[e] /\ rewardPaid'[e] = rewardPaid[e]
    BY <1>1, <1>2 DEF UpdateReward, RewardTypes
  <2> QED
    BY <2>1, <2>2, UndisturbedStays
<1>3. CASE e = d
  <2> SUFFICES ASSUME reward[d].listed, NEW v \in Users PROVE Earned(d, v)' = Earned(d, v)
    BY <1>3 DEF Undisturbed
  <2>1. /\ reward'[d] = Accrued(d)
        /\ rewards' = [rewards EXCEPT ![d][u] = Earned(d, u)]
        /\ rewardPaid' = [rewardPaid EXCEPT ![d][u] = RewardPerToken(d)]
    BY <1>1 DEF UpdateReward, RewardTypes
  <2>2. RewardPerToken(d)' = RewardPerToken(d) /\ RewardPerToken(d) \in Nat
    BY <2>1, IndexAccrued, EarnedNatural
  <2>3. CASE v # u
    <3>1. /\ weightedBalances'[d][v] = weightedBalances[d][v]
          /\ rewards'[d][v] = rewards[d][v] /\ rewardPaid'[d][v] = rewardPaid[d][v]
      BY <1>1, <2>1, <2>3 DEF RewardTypes, Amounts
    <3> QED
      BY <2>2, <3>1, SameEarnings
  <2>4. CASE v = u
    <3> DEFINE q == RewardPerToken(d)
               n == Earned(d, u)
               m == weightedBalances'[d][u]
    <3>1. rewards'[d][u] = n /\ rewardPaid'[d][u] = q
      BY <1>1, <2>1 DEF RewardTypes, Amounts
    <3>2. q \in Nat /\ n \in Nat
      BY <2>2, EarnedNatural
    <3>3. m \in Nat
      BY WeightsNaturalNext DEF NaturalWeights, Amounts
    <3>4. Earned(d, u)' = (m * (q - q)) \div Wad + n
      BY <2>2, <3>1 DEF Earned
    <3> HIDE DEF q, n, m
    <3>5. q - q = 0 /\ m * 0 = 0
      BY <3>2, <3>3
    <3>6. 0 \div Wad = 0
      BY RewardAssumption
    <3>7. 0 + n = n
      BY <3>2
    <3> QED
      BY <2>4, <3>4, <3>5, <3>6, <3>7 DEF n
  <2> QED
    BY <2>3, <2>4
<1> QED
  BY <1>2, <1>3

\* A claim takes from the account that is paid, and from nobody else.
LEMMA ClaimUndisturbed ==
    ASSUME StakeInv, StakeInv', RewardInv, NEW d \in Deployments, NEW u \in Users,
           GetReward(d, u), NEW e \in Deployments
    PROVE  Undisturbed(e)
<1>1. RewardTypes
  BY DEF RewardInv
<1>2. /\ weightedBalances' = weightedBalances /\ totalSupply' = totalSupply /\ now' = now
  BY DEF GetReward, stakeVars
<1>3. CASE e # d
  <2>1. reward'[e] = reward[e]
    BY <1>1, <1>3 DEF GetReward, RewardTypes
  <2>2. rewards'[e] = rewards[e] /\ rewardPaid'[e] = rewardPaid[e]
    BY <1>1, <1>3 DEF GetReward, RewardTypes
  <2> QED
    BY <1>2, <2>1, <2>2, UndisturbedStays
<1>4. CASE e = d
  <2> SUFFICES ASSUME NEW v \in Users
               PROVE  \/ Earned(d, v)' = Earned(d, v)
                      \/ Earned(d, v)' = 0 /\ rewardHeld'[d] = rewardHeld[d] - Earned(d, v)
    BY <1>4 DEF Undisturbed
  <2>1. /\ reward'[d] = Accrued(d) /\ reward[d].listed
        /\ rewards' = [rewards EXCEPT ![d][u] = 0]
        /\ rewardPaid' = [rewardPaid EXCEPT ![d][u] = RewardPerToken(d)]
        /\ rewardHeld'[d] = rewardHeld[d] - Earned(d, u)
    BY <1>1 DEF GetReward, RewardTypes
  <2>2. RewardPerToken(d)' = RewardPerToken(d) /\ RewardPerToken(d) \in Nat
    BY <1>2, <2>1, IndexAccrued, EarnedNatural
  <2>3. CASE v # u
    <3>1. rewards'[d][v] = rewards[d][v] /\ rewardPaid'[d][v] = rewardPaid[d][v]
      BY <1>1, <2>1, <2>3 DEF RewardTypes, Amounts
    <3> QED
      BY <1>2, <2>2, <3>1, SameEarnings
  <2>4. CASE v = u
    <3> DEFINE q == RewardPerToken(d)
               m == weightedBalances[d][u]
    <3>1. rewards'[d][u] = 0 /\ rewardPaid'[d][u] = q
      BY <1>1, <2>1 DEF RewardTypes, Amounts
    <3>2. q \in Nat /\ m \in Nat
      BY <2>2, RewardFacts DEF Amounts
    <3>3. Earned(d, u)' = (m * (q - q)) \div Wad + 0
      BY <1>2, <2>2, <3>1 DEF Earned
    <3> HIDE DEF q, m
    <3>4. q - q = 0 /\ m * 0 = 0
      BY <3>2
    <3>5. 0 \div Wad = 0
      BY RewardAssumption
    <3> QED
      BY <2>1, <2>4, <3>3, <3>4, <3>5
  <2> QED
    BY <2>3, <2>4
<1> QED
  BY <1>3, <1>4

\* An announcement starts the new period at the index the running one reached.
LEMMA AnnouncementUndisturbed ==
    ASSUME StakeInv, StakeInv', RewardInv, NEW d \in Deployments, NEW amount \in Nat,
           NEW duration \in Nat \ {0}, NotifyRewardAmount(d, amount, duration),
           UNCHANGED <<now, weightedBalances, totalSupply>>, NEW e \in Deployments
    PROVE  Undisturbed(e)
<1>1. RewardTypes
  BY DEF RewardInv
<1>2. rewards' = rewards /\ rewardPaid' = rewardPaid
  BY DEF NotifyRewardAmount
<1> DEFINE y == Accrued(d)
           rate == (amount * Wad) \div duration
           z == Renewed(y, rate, duration, now)
<1>3. reward' = [reward EXCEPT ![d] = z]
  BY DEF NotifyRewardAmount, AccruedByNotify, Renewed
<1>4. CASE e # d
  <2>1. reward'[e] = reward[e]
    BY <1>1, <1>3, <1>4 DEF RewardTypes
  <2> QED
    BY <1>2, <2>1, UndisturbedStays
<1>5. CASE e = d
  <2> SUFFICES ASSUME reward[d].listed, NEW v \in Users PROVE Earned(d, v)' = Earned(d, v)
    BY <1>5 DEF Undisturbed
  <2>1. /\ AccruesTo(reward[d], y, totalSupply[d]) /\ y.stored = RewardPerToken(d)
        /\ now \in Nat
    BY RewardFacts
  <2>2. y \in RewardRecord
    BY <2>1 DEF AccruesTo
  <2>3. rate \in Nat
    <3> DEFINE a == amount * Wad
    <3>1. a \in Nat
      BY RewardAssumption
    <3> HIDE DEF a
    <3>2. a \div duration \in Nat
      BY <3>1, Division
    <3> QED
      BY <3>2 DEF a
  <2> HIDE DEF y, rate
  <2>4. duration \in Nat
    OBVIOUS
  <2>5. z.rate = rate
    BY <2>1, <2>2, <2>3, <2>4, RenewedRecord
  <2>6. z.periodFinish = now + duration
    BY <2>1, <2>2, <2>3, <2>4, RenewedRecord
  <2>7. z.lastUpdateTime = now
    BY <2>1, <2>2, <2>3, <2>4, RenewedRecord
  <2>8. z.stored = y.stored
    <3>1. now \in Nat
      BY <2>1
    <3> QED
      BY <2>2, <2>3, <2>4, <3>1, RenewedRecord
  <2> HIDE DEF z
  <2>9. reward'[d] = z
    BY <1>1, <1>3 DEF RewardTypes
  <2>10. now + duration \in Nat /\ Least(now, now + duration) = now
    BY <2>1 DEF Least
  <2>11. RewardPerToken(d) \in Nat
    BY EarnedNatural
  <2>12. totalSupply'[d] \in Nat
    BY WeightsNaturalNext DEF NaturalWeights
  <2>13. now' = now
    OBVIOUS
  <2>14. RewardPerToken(d)' = RewardPerToken(d)
    BY <2>1, <2>3, <2>5, <2>6, <2>7, <2>8, <2>9, <2>10, <2>11, <2>12, <2>13, IndexStored
  <2>15. weightedBalances'[d][v] = weightedBalances[d][v]
    OBVIOUS
  <2> QED
    BY <1>2, <2>14, <2>15, SameEarnings
<1> QED
  BY <1>4, <1>5

\* The settings of a reward leave its index alone, or end its being listed or
\* trusted.
LEMMA SettingUndisturbed ==
    ASSUME StakeInv, RewardInv, NEW d \in Deployments, NEW e \in Deployments,
           UNCHANGED <<now, weightedBalances, totalSupply>>,
           \/ \E t \in RewardDurations : SetRewardsDuration(d, t)
           \/ RemoveRewardToken(d)
           \/ RescueReward(d)
    PROVE  Undisturbed(e)
<1>1. RewardTypes
  BY DEF RewardInv
<1>2. ASSUME NEW t \in RewardDurations, SetRewardsDuration(d, t) PROVE Undisturbed(e)
  <2>1. rewards' = rewards /\ rewardPaid' = rewardPaid
    BY <1>2 DEF SetRewardsDuration
  <2>2. /\ reward'[e].stored = reward[e].stored /\ reward'[e].rate = reward[e].rate
        /\ reward'[e].lastUpdateTime = reward[e].lastUpdateTime
        /\ reward'[e].periodFinish = reward[e].periodFinish
    <3> DEFINE x == reward[d]
               y == [x EXCEPT !.rewardsDuration = t]
    <3>1. reward' = [reward EXCEPT ![d] = y]
      BY <1>2 DEF SetRewardsDuration
    <3>2. x \in RewardRecord
      BY <1>1 DEF RewardTypes
    <3> HIDE DEF x
    <3>3. /\ y.stored = x.stored /\ y.rate = x.rate
          /\ y.lastUpdateTime = x.lastUpdateTime /\ y.periodFinish = x.periodFinish
      BY <3>2 DEF RewardRecord
    <3> HIDE DEF y
    <3> QED
      BY <1>1, <3>1, <3>3 DEF x, RewardTypes
  <2>3. RewardPerToken(e)' = RewardPerToken(e)
    BY <2>2, IndexStays
  <2>4. weightedBalances' = weightedBalances
    OBVIOUS
  <2> QED
    BY <2>1, <2>3, <2>4, SameEarnings DEF Undisturbed
<1>3. ASSUME RemoveRewardToken(d) PROVE Undisturbed(e)
  <2>1. rewards' = rewards /\ rewardPaid' = rewardPaid
        /\ reward' = [reward EXCEPT ![d].listed = FALSE]
    BY <1>3 DEF RemoveRewardToken
  <2>2. CASE e = d
    <3>1. ~reward'[d].listed
      BY <1>1, <2>1 DEF RewardTypes, RewardRecord
    <3> QED
      BY <2>2, <3>1 DEF Undisturbed
  <2>3. CASE e # d
    <3>1. reward'[e] = reward[e]
      BY <1>1, <2>1, <2>3 DEF RewardTypes
    <3> QED
      BY <2>1, <3>1, UndisturbedStays
  <2> QED
    BY <2>2, <2>3
<1>4. ASSUME RescueReward(d) PROVE Undisturbed(e)
  <2>1. /\ rewards' = rewards /\ rewardPaid' = rewardPaid /\ reward' = reward
        /\ rewardSuspect' = [rewardSuspect EXCEPT ![d] = TRUE]
    BY <1>4 DEF RescueReward
  <2> QED
    BY <2>1, UndisturbedStays
<1> QED
  BY <1>2, <1>3, <1>4

\* A transaction that takes no time disturbs no earnings.
LEMMA UndisturbedStep ==
    ASSUME StakeInv, StakeInv', RewardInv, [StakingNext]_stakingVars, now' = now,
           NEW e \in Deployments
    PROVE  Undisturbed(e)
<1>1. scope \in Scopes /\ now \in Nat
  BY DEF StakeInv, StakeTypes
<1>2. /\ \A d \in Deployments : scope.stakers[d] \subseteq Users
      /\ scope.rewarded \subseteq Deployments /\ RewardAmounts \subseteq Nat
      /\ RewardDurations \subseteq Nat \ {0}
  BY <1>1, ScopeFacts, RewardAssumption
<1>3. ASSUME NEW d \in Deployments, NEW a \in scope.amounts, NEW q \in scope.periods,
             NEW u \in scope.stakers[d], NEW v \in scope.stakers[d], StakeLockup(d, u, v, a, q)
      PROVE  Undisturbed(e)
  <2> DEFINE w == CalculateWeightedStake(a, q)
             z == weightedBalances[d][v] + w
             s == totalSupply[d] + w
  <2>1. /\ UpdateReward(d, v)
        /\ weightedBalances' = [weightedBalances EXCEPT ![d][v] = z]
        /\ totalSupply' = [totalSupply EXCEPT ![d] = s]
    BY <1>3 DEF StakeLockup
  <2> HIDE DEF z, s
  <2>2. v \in Users
    BY <1>2
  <2> QED
    BY <2>1, <2>2, UpdateUndisturbed
<1>4. ASSUME NEW d \in Deployments, NEW a \in scope.amounts, NEW i \in 0..(MaxStakes - 1),
             NEW u \in scope.stakers[d], UnstakeLockup(d, u, i, a)
      PROVE  Undisturbed(e)
  <2> DEFINE w == WeightToRemove(portfolio[d][u][i + 1], a)
             z == weightedBalances[d][u] - w
             s == totalSupply[d] - w
  <2>1. /\ UpdateReward(d, u)
        /\ weightedBalances' = [weightedBalances EXCEPT ![d][u] = z]
        /\ totalSupply' = [totalSupply EXCEPT ![d] = s]
    BY <1>4 DEF UnstakeLockup
  <2> HIDE DEF z, s
  <2>2. u \in Users
    BY <1>2
  <2> QED
    BY <2>1, <2>2, UpdateUndisturbed
<1>5. ASSUME NEW d \in Deployments, NEW u \in scope.stakers[d], GetReward(d, u)
      PROVE  Undisturbed(e)
  BY <1>2, <1>5, ClaimUndisturbed
<1>6. ASSUME UNCHANGED <<weightedBalances, totalSupply, reward, rewardPaid, rewards>>
      PROVE  Undisturbed(e)
  <2>1. /\ weightedBalances' = weightedBalances /\ totalSupply' = totalSupply
        /\ reward' = reward /\ rewardPaid' = rewardPaid /\ rewards' = rewards
    BY <1>6
  <2> QED
    BY <2>1, UndisturbedStays
<1>7. ASSUME GovernanceStep PROVE Undisturbed(e)
  <2>1. UNCHANGED <<now, weightedBalances, totalSupply>>
    BY <1>7 DEF GovernanceStep, stakeVars
  <2>2. ASSUME NEW d \in scope.rewarded, NEW a \in RewardAmounts, NEW t \in RewardDurations,
               NotifyRewardAmount(d, a, t)
        PROVE  Undisturbed(e)
    <3>1. d \in Deployments /\ a \in Nat /\ t \in Nat \ {0}
      BY <1>2
    <3> QED
      BY <2>1, <2>2, <3>1, AnnouncementUndisturbed
  <2>3. ASSUME NEW d \in scope.rewarded,
               \/ \E t \in RewardDurations : SetRewardsDuration(d, t)
               \/ RemoveRewardToken(d)
               \/ RescueReward(d)
        PROVE  Undisturbed(e)
    <3>1. d \in Deployments
      BY <1>2
    <3> QED
      BY <2>1, <2>3, <3>1, SettingUndisturbed
  <2>4. ASSUME NEW d \in scope.governed,
               \/ \E k \in Buckets, cap \in Caps : UpdateLockupBucketCap(d, k, cap)
               \/ \E b \in BOOLEAN : UpdatePenaltyEnabled(d, b)
               \/ \E b \in BOOLEAN : SetPaused(b)
        PROVE  Undisturbed(e)
    <3>1. UNCHANGED rewardVars
      <4>1. CASE \E k \in Buckets, cap \in Caps : UpdateLockupBucketCap(d, k, cap)
        BY <4>1 DEF UpdateLockupBucketCap
      <4>2. CASE \E b \in BOOLEAN : UpdatePenaltyEnabled(d, b)
        BY <4>2 DEF UpdatePenaltyEnabled
      <4>3. CASE \E b \in BOOLEAN : SetPaused(b)
        BY <4>3 DEF SetPaused
      <4> QED
        BY <2>4, <4>1, <4>2, <4>3
    <3> QED
      BY <1>6, <2>1, <3>1 DEF rewardVars
  <2> QED
    BY <1>7, <2>2, <2>3, <2>4 DEF GovernanceStep
<1>8. ASSUME \/ \E m \in scope.delegations, b \in BOOLEAN : SetAuthorization(m[1], m[2], m[3], b)
             \/ \E u \in scope.burners, a \in scope.amounts : BurnOwn(u, a)
             \/ Tick
             \/ UNCHANGED stakingVars
      PROVE  Undisturbed(e)
  <2>1. UNCHANGED <<stakeVars, rewardVars>>
    <3>1. CASE \E m \in scope.delegations, b \in BOOLEAN :
                  SetAuthorization(m[1], m[2], m[3], b)
      BY <3>1 DEF SetAuthorization
    <3>2. CASE \E u \in scope.burners, a \in scope.amounts : BurnOwn(u, a)
      BY <3>2 DEF BurnOwn
    <3>3. CASE Tick
      BY <3>3 DEF Tick
    <3>4. CASE UNCHANGED stakingVars
      BY <3>4 DEF stakingVars
    <3> QED
      BY <1>8, <3>1, <3>2, <3>3, <3>4
  <2> QED
    BY <1>6, <2>1 DEF stakeVars, rewardVars
<1> QED
  BY <1>3, <1>4, <1>5, <1>7, <1>8 DEF StakingNext, QuietStep

\* Only time changes what an account has earned: no stake, exit, claim or
\* announcement of any amount changes the earnings of any account, except that
\* what is paid out is taken from the account that is paid.
THEOREM OnlyTimeEarns == StakingSpec => EarningsUndisturbed
<1> DEFINE Still ==
        now' = now =>
            \A d \in Deployments :
                (reward[d].listed /\ reward'[d].listed /\ ~rewardSuspect'[d]) =>
                    \A u \in Users :
                        \/ Earned(d, u)' = Earned(d, u)
                        \/ Earned(d, u)' = 0
                              /\ rewardHeld'[d] = rewardHeld[d] - Earned(d, u)
<1>1. StakeInv /\ StakeInv' /\ RewardInv /\ [StakingNext]_stakingVars => Still
  <2> SUFFICES ASSUME StakeInv, StakeInv', RewardInv, [StakingNext]_stakingVars, now' = now,
                      NEW d \in Deployments
               PROVE  Undisturbed(d)
    BY DEF Undisturbed
  <2> QED
    BY UndisturbedStep
<1>2. StakeInv /\ RewardInv /\ [StakingNext]_stakingVars => (StakeInv /\ RewardInv)'
  BY StakeInvStep, RewardInvStep
<1> HIDE DEF Still
<1>3. StakingSpec => [][Still]_stakingVars
  BY <1>1, <1>2, InitStakeInv, InitRewardInv, PTL DEF StakingSpec
<1> QED
  BY <1>3 DEF Still, EarningsUndisturbed

=============================================================================
