---------------------------- MODULE FleetProofs ----------------------------
(***************************************************************************)
(* Proofs about FleetCommander for all users, arks, limits, rates and      *)
(* arguments of the calls.                                                 *)
(***************************************************************************)
EXTENDS FleetCommander, LedgerLemmas

---------------------------------------------------------------------------
(* Rounding *)

\* Rounding up gives enough.
LEMMA Ceiling ==
    ASSUME NEW a \in Nat, NEW b \in Nat \ {0}
    PROVE  /\ CeilDiv(a, b) \in Nat
           /\ a <= b * CeilDiv(a, b) /\ b * CeilDiv(a, b) < a + b
<1>1. a + b - 1 \in Nat /\ CeilDiv(a, b) = (a + b - 1) \div b
  BY DEF CeilDiv
<1>2. /\ (a + b - 1) \div b \in Nat
      /\ b * ((a + b - 1) \div b) <= a + b - 1 /\ a + b - 1 < b * ((a + b - 1) \div b) + b
  BY <1>1, Division
<1> DEFINE q == (a + b - 1) \div b
           p == b * q
<1>3. p \in Nat /\ p <= a + b - 1 /\ a + b - 1 < p + b
  BY <1>2
<1> HIDE DEF q, p
<1>4. a <= p /\ p < a + b
  BY <1>3
<1> QED
  BY <1>1, <1>2, <1>4 DEF q, p

\* An amount x against y + 1 units is worth no more, rounded down, than it is,
\* and no less, rounded up.
LEMMA Conversion ==
    ASSUME NEW amount \in Nat, NEW assets \in Nat, NEW supply \in Nat
    PROVE  LET down == SharesDown(amount, assets, supply)
               up   == SharesUp(amount, assets, supply)
               dn   == AssetsDown(amount, assets, supply)
               ups  == AssetsUp(amount, assets, supply)
           IN  /\ down \in Nat /\ (assets + 1) * down <= amount * (supply + 1)
               /\ up \in Nat   /\ amount * (supply + 1) <= (assets + 1) * up
               /\ dn \in Nat   /\ (supply + 1) * dn <= amount * (assets + 1)
               /\ ups \in Nat  /\ amount * (assets + 1) <= (supply + 1) * ups
<1>1. /\ assets + 1 \in Nat \ {0} /\ supply + 1 \in Nat \ {0}
      /\ amount * (supply + 1) \in Nat /\ amount * (assets + 1) \in Nat
  <2>1. assets + 1 \in Nat \ {0} /\ supply + 1 \in Nat \ {0}
    OBVIOUS
  <2> QED
    BY <2>1, Product
<1> DEFINE a1 == assets + 1
           s1 == supply + 1
           as == amount * s1
           aa == amount * a1
<1>2. a1 \in Nat \ {0} /\ s1 \in Nat \ {0} /\ as \in Nat /\ aa \in Nat
  BY <1>1
<1>3. /\ SharesDown(amount, assets, supply) = as \div a1
      /\ SharesUp(amount, assets, supply) = CeilDiv(as, a1)
      /\ AssetsDown(amount, assets, supply) = aa \div s1
      /\ AssetsUp(amount, assets, supply) = CeilDiv(aa, s1)
  BY DEF SharesDown, SharesUp, AssetsDown, AssetsUp
<1>4. as = amount * (supply + 1) /\ aa = amount * (assets + 1) /\ a1 = assets + 1
      /\ s1 = supply + 1
  OBVIOUS
<1> HIDE DEF a1, s1, as, aa
<1>5. as \div a1 \in Nat /\ a1 * (as \div a1) <= as
  BY <1>2, Division
<1>6. CeilDiv(as, a1) \in Nat /\ as <= a1 * CeilDiv(as, a1)
  BY <1>2, Ceiling
<1>7. aa \div s1 \in Nat /\ s1 * (aa \div s1) <= aa
  BY <1>2, Division
<1>8. CeilDiv(aa, s1) \in Nat /\ aa <= s1 * CeilDiv(aa, s1)
  BY <1>2, Ceiling
<1> QED
  BY <1>3, <1>4, <1>5, <1>6, <1>7, <1>8

\* What was rounded down to shares is not more than it was when it is rounded up
\* to assets again.
LEMMA RoundTripUp ==
    ASSUME NEW limit \in Nat, NEW assets \in Nat, NEW supply \in Nat, NEW n \in Nat,
           n <= SharesDown(limit, assets, supply)
    PROVE  AssetsUp(n, assets, supply) <= limit
<1> DEFINE a1 == assets + 1
           s1 == supply + 1
           down == SharesDown(limit, assets, supply)
           up == CeilDiv(n * a1, s1)
<1>0. a1 \in Nat \ {0} /\ s1 \in Nat \ {0}
  OBVIOUS
<1>1. down \in Nat /\ a1 * down <= limit * s1
  BY Conversion
<1>2. n <= down /\ up = AssetsUp(n, assets, supply)
  BY DEF AssetsUp
<1> HIDE DEF a1, s1, down
<1>3. n * a1 \in Nat /\ limit * s1 \in Nat
  BY <1>0, <1>1
<1>4. n * a1 <= limit * s1
  <2>1. PICK d \in Nat : down = n + d
    <3>1. down - n \in Nat /\ down = n + (down - n)
      BY <1>0, <1>1, <1>2
    <3> QED
      BY <3>1
  <2>2. a1 * down = n * a1 + a1 * d /\ a1 * d \in Nat
    BY <1>0, <1>1, <2>1
  <2> QED
    BY <1>0, <1>1, <1>3, <2>2
<1>5. up \in Nat /\ s1 * up < n * a1 + s1
  BY <1>0, <1>1, <1>3, Ceiling
<1> HIDE DEF up
<1>6. s1 * (limit + 1) = limit * s1 + s1 /\ s1 * up \in Nat
  BY <1>0, <1>1, <1>5
<1>7. s1 * up < s1 * (limit + 1)
  BY <1>0, <1>1, <1>3, <1>4, <1>5, <1>6
<1>8. up < limit + 1
  BY <1>0, <1>1, <1>5, <1>7, Cancel
<1> QED
  BY <1>2, <1>5, <1>8

\* The same, rounded down again.
LEMMA RoundTripDown ==
    ASSUME NEW limit \in Nat, NEW assets \in Nat, NEW supply \in Nat, NEW n \in Nat,
           n <= SharesDown(limit, assets, supply)
    PROVE  AssetsDown(n, assets, supply) <= limit
<1> DEFINE down == AssetsDown(n, assets, supply)
           up == AssetsUp(n, assets, supply)
           s1 == supply + 1
<1>1. up <= limit
  BY RoundTripUp
<1>2. /\ down \in Nat /\ s1 * down <= n * (assets + 1)
      /\ up \in Nat /\ n * (assets + 1) <= s1 * up
  BY Conversion
<1>3. n * (assets + 1) \in Nat /\ s1 \in Nat \ {0}
  OBVIOUS
<1> HIDE DEF down, up, s1
<1>4. s1 * down \in Nat /\ s1 * up \in Nat
  BY <1>2, <1>3
<1>5. s1 * down <= s1 * up
  BY <1>2, <1>3, <1>4
<1>6. down <= up
  BY <1>2, <1>3, <1>5, Cancel
<1> QED
  BY <1>1, <1>2, <1>6 DEF down

---------------------------------------------------------------------------
(* The ledgers *)

\* What every reachable state satisfies.
FInv == TypeOK /\ BalancesMatchSupply /\ NoAssetsOutsideFleet

\* There are finitely many accounts and arks.
LEMMA Finite ==
    ASSUME activeArks \subseteq Arks
    PROVE  /\ IsFiniteSet(Accounts) /\ TipJar \in Accounts
           /\ IsFiniteSet(AllArks) /\ Buffer \in AllArks
           /\ FleetArks \subseteq AllArks /\ IsFiniteSet(FleetArks) /\ Buffer \in FleetArks
<1>1. IsFiniteSet({TipJar, RewardsManager}) /\ IsFiniteSet({Buffer})
  <2>1. IsFiniteSet({TipJar}) /\ IsFiniteSet({RewardsManager}) /\ IsFiniteSet({Buffer})
    BY FS_Singleton
  <2>2. {TipJar, RewardsManager} = {TipJar} \cup {RewardsManager}
    OBVIOUS
  <2>3. IsFiniteSet({TipJar} \cup {RewardsManager})
    BY <2>1, FS_Union
  <2> QED
    BY <2>1, <2>2, <2>3
<1>2. IsFiniteSet(Users) /\ IsFiniteSet(Arks)
  BY AccountAssumption
<1>3. IsFiniteSet(Accounts)
  BY <1>1, <1>2, FS_Union DEF Accounts
<1>4. IsFiniteSet(AllArks)
  BY <1>1, <1>2, FS_Union DEF AllArks
<1>5. FleetArks \subseteq AllArks /\ Buffer \in FleetArks /\ Buffer \in AllArks
  BY DEF FleetArks, AllArks
<1>6. IsFiniteSet(FleetArks)
  BY <1>4, <1>5, FS_Subset
<1> QED
  BY <1>3, <1>4, <1>5, <1>6 DEF Accounts

\* The sums of the state are natural, and no part exceeds its sum.
LEMMA Totals ==
    ASSUME TypeOK, BalancesMatchSupply
    PROVE  /\ TotalAssets \in Nat /\ arkAssets[Buffer] <= TotalAssets
           /\ \A a \in Accounts : shares[a] <= totalShares
           /\ \A a \in FleetArks : arkAssets[a] <= TotalAssets
<1>1. activeArks \subseteq Arks
  BY DEF TypeOK
<1>2. IsFiniteSet(Accounts) /\ IsFiniteSet(FleetArks) /\ Buffer \in FleetArks
  BY <1>1, Finite
<1>3. (\A a \in FleetArks : arkAssets[a] \in Nat) /\ (\A a \in Accounts : shares[a] \in Nat)
  BY <1>1, Finite DEF TypeOK
<1>4. SumOver(arkAssets, FleetArks) \in Nat
      /\ \A a \in FleetArks : arkAssets[a] <= SumOver(arkAssets, FleetArks)
  BY <1>2, <1>3, SumNat
<1>5. \A a \in Accounts : shares[a] <= SumOver(shares, Accounts)
  BY <1>2, <1>3, SumNat
<1> QED
  BY <1>2, <1>4, <1>5 DEF TotalAssets, BalancesMatchSupply

\* A tip on a supply that includes the tip jar's shares is natural.
LEMMA TipNatural ==
    ASSUME TypeOK, NEW supply \in Nat, shares[TipJar] <= supply
    PROVE  PreviewTip(supply) \in Nat
<1> DEFINE elapsed == now - lastTipTimestamp
           base == supply - shares[TipJar]
           part == (elapsed * tipRate) \div Year
<1>1. elapsed \in Nat /\ tipRate \in Nat /\ base \in Nat
  BY Finite, NumberAssumption DEF TypeOK, Accounts
<1>2. PreviewTip(supply) = 0 \/ PreviewTip(supply) = (base * part) \div Hundred
  BY DEF PreviewTip, CalculateTip, ApplyPercentage
<1> HIDE DEF elapsed, base
<1>3. elapsed * tipRate \in Nat
  BY <1>1, Product
<1>4. part \in Nat
  BY <1>3, Division, NumberAssumption
<1> HIDE DEF part
<1>5. base * part \in Nat
  BY <1>1, <1>4, Product
<1>6. (base * part) \div Hundred \in Nat
  BY <1>5, Division, NumberAssumption
<1> QED
  BY <1>2, <1>6

\* A tip that is minted keeps the ledgers together.
LEMMA Minted ==
    ASSUME TypeOK, BalancesMatchSupply, NEW n \in Nat, NEW a \in Accounts
    PROVE  LET after == [shares EXCEPT ![a] = @ + n]
           IN  /\ after \in [Accounts -> Nat] /\ totalShares + n \in Nat
               /\ SumOver(after, Accounts) = totalShares + n
<1> DEFINE after == [shares EXCEPT ![a] = @ + n]
<1>1. IsFiniteSet(Accounts)
  BY Finite DEF TypeOK
<1>2. /\ \A x \in Accounts : shares[x] \in Int
      /\ after[a] = shares[a] + n /\ shares[a] \in Nat
      /\ \A x \in Accounts : x # a => after[x] = shares[x]
      /\ after \in [Accounts -> Nat] /\ totalShares \in Nat
  BY DEF TypeOK
<1> HIDE DEF after
<1>3. SumOver(after, Accounts) = SumOver(shares, Accounts) + (after[a] - shares[a])
  BY <1>1, <1>2, SumChange
<1>4. SumOver(after, Accounts) = totalShares + n
  BY <1>2, <1>3 DEF BalancesMatchSupply
<1> QED
  BY <1>2, <1>4 DEF after

\* The shares and the supply with the tip a call collects.
LEMMA Tipped ==
    ASSUME TypeOK, BalancesMatchSupply
    PROVE  /\ Tip \in Nat /\ TippedSupply \in Nat /\ TippedSupply = totalShares + Tip
           /\ TippedShares \in [Accounts -> Nat]
           /\ SumOver(TippedShares, Accounts) = TippedSupply
<1>1. TipJar \in Accounts /\ totalShares \in Nat
  BY DEF Accounts, TypeOK
<1>2. shares[TipJar] <= totalShares
  BY <1>1, Totals
<1>3. Tip \in Nat
  BY <1>1, <1>2, TipNatural DEF Tip
<1> QED
  BY <1>1, <1>3, Minted DEF TippedSupply, TippedShares

\* The clock of the tips never runs ahead.
LEMMA TipClock ==
    ASSUME TypeOK, NEW supply, AccrueClock(supply)
    PROVE  lastTipTimestamp' \in StartTime..now
  BY NumberAssumption DEF TypeOK, AccrueClock

---------------------------------------------------------------------------
(* Deposits *)

\* A deposit within maxDeposit is paid for and stays below the cap.
LEMMA Limited ==
    ASSUME TypeOK, BalancesMatchSupply, NEW u \in Accounts
    PROVE  /\ MaxDeposit(u) \in Nat
           /\ MaxDeposit(u) # 0 =>
                 MaxDeposit(u) <= wallet[u] /\ TotalAssets + MaxDeposit(u) <= config.depositCap
<1>1. TotalAssets \in Nat /\ wallet[u] \in Nat /\ config.depositCap \in Nat
  BY Totals DEF TypeOK, FleetConfigs
<1> QED
  BY <1>1 DEF MaxDeposit, Smaller

\* What deposit and mint have in common: the assets stay within the limits and
\* are worth the new shares at least.
LEMMA DepositTerms ==
    ASSUME TypeOK, BalancesMatchSupply, NEW u \in Users, NEW r \in Receivers,
           \/ \E x \in Amounts : Deposit(u, r, x)
           \/ \E s \in ShareAmounts : Mint(u, r, s)
    PROVE  \E assets, n \in Nat :
              /\ TakeIn(u, r, assets, n) /\ ~paused
              /\ assets <= wallet[u] /\ TotalAssets + assets <= config.depositCap
              /\ (TotalAssets + 1) * n <= assets * (TippedSupply + 1)
<1>1. /\ TotalAssets \in Nat /\ TippedSupply \in Nat /\ u \in Accounts
      /\ wallet[u] \in Nat /\ config.depositCap \in Nat
  BY Totals, Tipped DEF Accounts, TypeOK, FleetConfigs
<1>2. /\ MaxDeposit(u) \in Nat
      /\ MaxDeposit(u) # 0 =>
            MaxDeposit(u) <= wallet[u] /\ TotalAssets + MaxDeposit(u) <= config.depositCap
  BY <1>1, Limited
<1>3. ASSUME NEW x \in Amounts, Deposit(u, r, x)
      PROVE  \E assets, n \in Nat :
              /\ TakeIn(u, r, assets, n) /\ ~paused
              /\ assets <= wallet[u] /\ TotalAssets + assets <= config.depositCap
              /\ (TotalAssets + 1) * n <= assets * (TippedSupply + 1)
  <2> DEFINE n == SharesDown(x, TotalAssets, TippedSupply)
  <2>1. /\ x \in Nat /\ ~paused /\ x # 0 /\ x <= MaxDeposit(u) /\ TakeIn(u, r, x, n)
    BY <1>3, ArgumentAssumption DEF Deposit
  <2>2. n \in Nat /\ (TotalAssets + 1) * n <= x * (TippedSupply + 1)
    BY <1>1, <2>1, Conversion
  <2> HIDE DEF n
  <2>3. x <= wallet[u] /\ TotalAssets + x <= config.depositCap
    BY <1>1, <1>2, <2>1
  <2> QED
    BY <2>1, <2>2, <2>3
<1>4. ASSUME NEW s \in ShareAmounts, Mint(u, r, s)
      PROVE  \E assets, n \in Nat :
              /\ TakeIn(u, r, assets, n) /\ ~paused
              /\ assets <= wallet[u] /\ TotalAssets + assets <= config.depositCap
              /\ (TotalAssets + 1) * n <= assets * (TippedSupply + 1)
  <2> DEFINE assets == AssetsUp(s, TotalAssets, TippedSupply)
             most == MaxDeposit(u)
             down == SharesDown(most, TotalAssets, TippedSupply)
  <2>1. /\ s \in Nat /\ ~paused /\ s # 0 /\ s <= down /\ assets <= wallet[u]
        /\ TakeIn(u, r, assets, s)
    BY <1>4, ArgumentAssumption DEF Mint, MaxMint
  <2>2. assets \in Nat /\ s * (TotalAssets + 1) <= (TippedSupply + 1) * assets
    BY <1>1, <2>1, Conversion
  <2>3. assets <= most
    BY <1>1, <1>2, <2>1, RoundTripUp
  <2>4. most # 0
    <3>1. down \in Nat /\ (TotalAssets + 1) * down <= most * (TippedSupply + 1)
      BY <1>1, <1>2, Conversion
    <3> HIDE DEF down, most
    <3> SUFFICES ASSUME most = 0 PROVE FALSE
      OBVIOUS
    <3>2. most * (TippedSupply + 1) = 0
      BY <1>1
    <3>3. (TotalAssets + 1) * down = TotalAssets * down + down /\ TotalAssets * down \in Nat
      BY <1>1, <3>1
    <3> QED
      BY <2>1, <3>1, <3>2, <3>3
  <2>5. most <= wallet[u] /\ TotalAssets + most <= config.depositCap /\ most \in Nat
    BY <1>2, <2>4
  <2> HIDE DEF assets, most, down
  <2>6. TotalAssets + assets <= config.depositCap
    BY <1>1, <2>2, <2>3, <2>5
  <2>7. (TotalAssets + 1) * s <= assets * (TippedSupply + 1)
    BY <1>1, <2>1, <2>2
  <2> QED
    BY <2>1, <2>2, <2>6, <2>7
<1> QED
  BY <1>3, <1>4

\* What a deposit does to the ledgers.
LEMMA Taken ==
    ASSUME FInv, NEW u \in Users, NEW r \in Receivers, NEW assets \in Nat, NEW n \in Nat,
           TakeIn(u, r, assets, n), assets <= wallet[u]
    PROVE  /\ FInv'
           /\ TotalAssets' = TotalAssets + assets /\ totalShares' = TippedSupply + n
           /\ SumOver(wallet', Accounts) = SumOver(wallet, Accounts) - assets
<1>0. /\ TypeOK /\ BalancesMatchSupply /\ NoAssetsOutsideFleet
      /\ u \in Accounts /\ r \in Accounts
      /\ activeArks' = activeArks /\ FleetArks' = FleetArks
      /\ wallet' = [wallet EXCEPT ![u] = @ - assets]
      /\ arkAssets' = [arkAssets EXCEPT ![Buffer] = @ + assets]
      /\ totalShares' = TippedSupply + n
      /\ shares' = [TippedShares EXCEPT ![r] = @ + n]
  BY AccountAssumption DEF FInv, TakeIn, Accounts, setupVars, FleetArks
<1>1. /\ IsFiniteSet(Accounts) /\ IsFiniteSet(AllArks) /\ Buffer \in AllArks
      /\ FleetArks \subseteq AllArks /\ IsFiniteSet(FleetArks) /\ Buffer \in FleetArks
  BY <1>0, Finite DEF TypeOK
<1>2. TypeOK'
  <2>1. /\ TippedSupply \in Nat /\ TippedShares \in [Accounts -> Nat]
        /\ wallet \in [Accounts -> Nat] /\ arkAssets \in [AllArks -> Nat]
    BY <1>0, Tipped DEF TypeOK
  <2>2. shares' \in [Accounts -> Nat] /\ totalShares' \in Nat
    BY <1>0, <2>1
  <2>3. wallet' \in [Accounts -> Nat] /\ arkAssets' \in [AllArks -> Nat]
    BY <1>0, <1>1, <2>1
  <2>4. lastTipTimestamp' \in StartTime..now
    BY <1>0, TipClock DEF TakeIn, CollectTip
  <2>5. UNCHANGED <<illiquid, setupVars, tipRate, pauseVars, cooldown,
                   lastActionTimestamp, transfersEnabled, clockVars>>
    BY DEF TakeIn
  <2> QED
    BY <1>0, <2>2, <2>3, <2>4, <2>5 DEF TypeOK, setupVars, pauseVars, clockVars
<1>3. BalancesMatchSupply'
  <2>1. /\ TippedSupply \in Nat /\ TippedShares \in [Accounts -> Nat]
        /\ SumOver(TippedShares, Accounts) = TippedSupply
    BY <1>0, Tipped
  <2>2. /\ shares'[r] = TippedShares[r] + n /\ \A a \in Accounts : TippedShares[a] \in Int
        /\ \A a \in Accounts : a # r => shares'[a] = TippedShares[a]
        /\ shares'[r] \in Int
    BY <1>0, <2>1
  <2>3. r \in Accounts
    BY <1>0
  <2>4. SumOver(shares', Accounts)
            = SumOver(TippedShares, Accounts) + (shares'[r] - TippedShares[r])
    BY <1>1, <2>2, <2>3, SumChange
  <2> QED
    BY <1>0, <2>1, <2>2, <2>4 DEF BalancesMatchSupply
<1>4. NoAssetsOutsideFleet'
  BY <1>0, <1>1 DEF NoAssetsOutsideFleet, TypeOK
<1>5. TotalAssets' = TotalAssets + assets
  <2>1. /\ \A a \in FleetArks : arkAssets[a] \in Int
        /\ arkAssets'[Buffer] = arkAssets[Buffer] + assets /\ arkAssets'[Buffer] \in Int
        /\ \A a \in FleetArks : a # Buffer => arkAssets'[a] = arkAssets[a]
    BY <1>0, <1>1 DEF TypeOK
  <2>2. SumOver(arkAssets', FleetArks)
          = SumOver(arkAssets, FleetArks) + (arkAssets'[Buffer] - arkAssets[Buffer])
    BY <1>1, <2>1, SumChange
  <2>3. SumOver(arkAssets, FleetArks) \in Nat /\ arkAssets[Buffer] \in Nat
    BY <1>0, <1>1, Totals DEF TotalAssets, TypeOK
  <2> QED
    BY <1>0, <2>1, <2>2, <2>3 DEF TotalAssets
<1>6. SumOver(wallet', Accounts) = SumOver(wallet, Accounts) - assets
  <2>1. /\ \A a \in Accounts : wallet[a] \in Int
        /\ wallet'[u] = wallet[u] - assets /\ wallet'[u] \in Int
        /\ \A a \in Accounts : a # u => wallet'[a] = wallet[a]
        /\ u \in Accounts
    BY <1>0 DEF TypeOK
  <2>2. SumOver(wallet', Accounts) = SumOver(wallet, Accounts) + (wallet'[u] - wallet[u])
    BY <1>1, <2>1, SumChange
  <2>3. SumOver(wallet, Accounts) \in Int
    BY <1>1, <2>1, SumInt
  <2> QED
    BY <1>0, <2>1, <2>2, <2>3
<1> QED
  BY <1>0, <1>2, <1>3, <1>4, <1>5, <1>6 DEF FInv

---------------------------------------------------------------------------
(* Arks emptied one after the other *)

\* B[x] is what comes before x: an order of S in which each element has its place.
Ordered(S, B) ==
    /\ \A x \in S : B[x] \subseteq S /\ x \notin B[x]
    /\ \A x, y \in S : x # y => x \in B[y] \/ y \in B[x]
    /\ \A x, y \in S : y \in B[x] => B[y] \subseteq B[x]

\* A finite set that is not empty has a last element.
LEMMA LastOne ==
    ASSUME NEW S, IsFiniteSet(S), NEW B, Ordered(S, B)
    PROVE  \A s \in SUBSET S : s # {} => \E m \in s : \A x \in s \ {m} : x \in B[m]
<1> DEFINE T == {s \in SUBSET S : s # {} => \E m \in s : \A x \in s \ {m} : x \in B[m]}
<1>1. {} \in T
  OBVIOUS
<1>2. ASSUME NEW s \in SUBSET S, s # {}, \A x \in s : s \ {x} \in T
      PROVE  s \in T
  <2>1. PICK x \in s : TRUE
    BY <1>2
  <2>2. CASE s \ {x} = {}
    BY <2>1, <2>2
  <2>3. CASE s \ {x} # {}
    <3>1. PICK m \in s \ {x} : \A y \in (s \ {x}) \ {m} : y \in B[m]
      BY <1>2, <2>1, <2>3
    <3>2. CASE m \in B[x]
      <4>1. B[m] \subseteq B[x]
        BY <3>1, <3>2 DEF Ordered
      <4>2. \A y \in s \ {x} : y \in B[x]
        BY <3>1, <3>2, <4>1
      <4> QED
        BY <2>1, <4>2
    <3>3. CASE x \in B[m]
      <4>1. \A y \in s \ {m} : y \in B[m]
        BY <3>1, <3>3
      <4> QED
        BY <3>1, <4>1
    <3> QED
      BY <2>1, <3>1, <3>2, <3>3 DEF Ordered
  <2> QED
    BY <2>2, <2>3
<1>3. SUBSET S \subseteq T
  <2> HIDE DEF T
  <2> QED
    BY <1>1, <1>2, SetInduct
<1> QED
  BY <1>3

\* What is taken from x, when those before it have given what they can.
TakenFrom(w, B, total, x) ==
    IF SumOver(w, B[x]) >= total THEN 0 ELSE Smaller(w[x], total - SumOver(w, B[x]))

\* Emptying one after the other takes the whole amount, from what there is.
LEMMA Emptied ==
    ASSUME NEW S, IsFiniteSet(S), NEW B, Ordered(S, B), NEW w, \A x \in S : w[x] \in Nat,
           NEW total \in Nat, total <= SumOver(w, S),
           NEW d, \A x \in S : d[x] = TakenFrom(w, B, total, x)
    PROVE  SumOver(d, S) = total /\ \A x \in S : d[x] \in Nat /\ d[x] <= w[x]
<1>1. ASSUME NEW x \in S PROVE d[x] \in Nat /\ d[x] <= w[x] /\ SumOver(w, B[x]) \in Nat
  <2>1. B[x] \subseteq S /\ IsFiniteSet(B[x])
    BY FS_Subset DEF Ordered
  <2>2. SumOver(w, B[x]) \in Nat
    BY <2>1, SumNat
  <2> QED
    BY <2>2 DEF TakenFrom, Smaller
<1> DEFINE T == {s \in SUBSET S : (\A x \in s : B[x] \subseteq s) =>
                                     SumOver(d, s) = Smaller(SumOver(w, s), total)}
<1>2. {} \in T
  BY SumEmpty DEF Smaller
<1>3. ASSUME NEW s \in SUBSET S, s # {}, \A x \in s : s \ {x} \in T
      PROVE  s \in T
  <2> SUFFICES ASSUME \A x \in s : B[x] \subseteq s
               PROVE  SumOver(d, s) = Smaller(SumOver(w, s), total)
    OBVIOUS
  <2>1. PICK m \in s : \A x \in s \ {m} : x \in B[m]
    BY <1>3, LastOne
  <2>2. B[m] = s \ {m}
    BY <2>1 DEF Ordered
  <2>3. ASSUME NEW x \in s \ {m} PROVE B[x] \subseteq s \ {m}
    <3>1. m \in B[x] => B[m] \subseteq B[x]
      BY DEF Ordered
    <3> QED
      BY <2>1, <3>1 DEF Ordered
  <2>4. SumOver(d, s \ {m}) = Smaller(SumOver(w, s \ {m}), total)
    BY <1>3, <2>3
  <2>5. IsFiniteSet(s) /\ m \in s /\ m \in S /\ \A x \in s : d[x] \in Int /\ w[x] \in Int
    BY <1>1, FS_Subset
  <2>6. SumOver(d, s) = d[m] + SumOver(d, s \ {m})
    BY <2>5, SumSplit
  <2>7. SumOver(w, s) = w[m] + SumOver(w, s \ {m})
    BY <2>5, SumSplit
  <2>8. SumOver(w, s \ {m}) \in Nat /\ w[m] \in Nat
    BY <1>1, <2>2, <2>5
  <2>9. d[m] = IF SumOver(w, s \ {m}) >= total THEN 0
               ELSE Smaller(w[m], total - SumOver(w, s \ {m}))
    BY <2>2, <2>5 DEF TakenFrom
  <2> HIDE DEF T
  <2> QED
    BY <2>4, <2>6, <2>7, <2>8, <2>9 DEF Smaller
<1>4. SUBSET S \subseteq T
  <2> HIDE DEF T
  <2> QED
    BY <1>2, <1>3, SetInduct
<1>5. SumOver(d, S) = Smaller(SumOver(w, S), total)
  BY <1>4 DEF Ordered
<1>6. SumOver(w, S) \in Nat
  BY SumNat
<1> QED
  BY <1>1, <1>5, <1>6 DEF Smaller

\* The arks by what they can pay and, where they can pay the same, by rank.
PayOrder(rank) ==
    [ark \in FleetArks |->
        {a \in FleetArks : \/ WithdrawableAssets(a) < WithdrawableAssets(ark)
                           \/ /\ WithdrawableAssets(a) = WithdrawableAssets(ark)
                              /\ rank[a] < rank[ark]}]

\* Whatever the arks hold and whichever comes first of two that hold the same,
\* together they pay the whole amount, and none more than it can.
LEMMA Drained ==
    ASSUME TypeOK, NEW rank \in Rankings, NEW assets \in Nat,
           assets <= WithdrawableTotalAssets
    PROVE  LET d == [a \in FleetArks |-> DrainedFrom(a, assets, rank)]
           IN  /\ SumOver(d, FleetArks) = assets
               /\ \A a \in FleetArks : d[a] \in Nat /\ d[a] <= arkAssets[a]
<1> DEFINE w == [a \in AllArks |-> WithdrawableAssets(a)]
           B == PayOrder(rank)
           d == [a \in FleetArks |-> DrainedFrom(a, assets, rank)]
<1>1. IsFiniteSet(AllArks) /\ FleetArks \subseteq AllArks /\ IsFiniteSet(FleetArks)
  BY Finite DEF TypeOK
<1>2. \A a \in FleetArks : w[a] \in Nat /\ w[a] <= arkAssets[a] /\ w[a] = WithdrawableAssets(a)
  BY <1>1 DEF WithdrawableAssets, TypeOK
<1>3. \A a, b \in FleetArks : rank[a] \in Int /\ (rank[a] = rank[b] => a = b)
  <2>1. IsFiniteSet(AllArks) /\ Cardinality(AllArks) \in Nat
    BY <1>1, FS_CardinalityType
  <2> QED
    BY <1>1, <2>1 DEF Rankings
<1>4. Ordered(FleetArks, B)
  <2>1. /\ \A x \in FleetArks : B[x] \subseteq FleetArks
        /\ \A x, y \in FleetArks :
              y \in B[x] <=> w[y] < w[x] \/ (w[y] = w[x] /\ rank[y] < rank[x])
    BY <1>2 DEF PayOrder
  <2> HIDE DEF w, B
  <2>2. \A x \in FleetArks : x \notin B[x]
    BY <1>2, <1>3, <2>1
  <2>3. \A x, y \in FleetArks : x # y => x \in B[y] \/ y \in B[x]
    BY <1>2, <1>3, <2>1
  <2>4. \A x, y, z \in FleetArks : y \in B[x] /\ z \in B[y] => z \in B[x]
    BY <1>2, <1>3, <2>1
  <2> QED
    BY <2>1, <2>2, <2>3, <2>4 DEF Ordered
<1>5. ASSUME NEW a \in FleetArks PROVE d[a] = TakenFrom(w, B, assets, a)
  BY <1>2 DEF DrainedFrom, TakenFrom, PayOrder
<1>6. assets <= SumOver(w, FleetArks)
  BY DEF WithdrawableTotalAssets
<1> HIDE DEF w, B, d
<1>7. SumOver(d, FleetArks) = assets /\ \A a \in FleetArks : d[a] \in Nat /\ d[a] <= w[a]
  BY <1>1, <1>2, <1>4, <1>5, <1>6, Emptied
<1>8. \A a \in FleetArks : arkAssets[a] \in Nat
  BY <1>1 DEF TypeOK
<1> QED
  BY <1>2, <1>7, <1>8 DEF d

---------------------------------------------------------------------------
(* Withdrawals *)

\* All that can be withdrawn is part of all there is.
LEMMA WithdrawableNatural ==
    ASSUME TypeOK
    PROVE  WithdrawableTotalAssets \in Nat
<1> DEFINE w == [a \in AllArks |-> WithdrawableAssets(a)]
<1>1. FleetArks \subseteq AllArks /\ IsFiniteSet(FleetArks)
  BY Finite DEF TypeOK
<1>2. \A a \in FleetArks : w[a] \in Nat
  BY <1>1 DEF WithdrawableAssets, TypeOK
<1>3. WithdrawableTotalAssets = SumOver(w, FleetArks)
  BY DEF WithdrawableTotalAssets
<1> HIDE DEF w
<1> QED
  BY <1>1, <1>2, <1>3, SumNat

\* The terms of a payment: what is burnt is worth the assets at least.
Payment(o, r, assets, burnt) ==
    /\ ~paused
    /\ assets * (TippedSupply + 1) <= (TotalAssets + 1) * burnt
    /\ \/ PayFromBuffer(o, r, assets, burnt)
       \/ PayFromArks(o, r, assets, burnt) /\ assets <= WithdrawableTotalAssets

\* What is below the smaller one is below both.
LEMMA BelowSmaller ==
    ASSUME NEW a \in Int, NEW b \in Int, NEW x \in Int, x <= Smaller(a, b)
    PROVE  x <= a /\ x <= b
  BY DEF Smaller

\* A withdrawal burns the shares the assets are worth, rounded up.
LEMMA WithdrawPays ==
    ASSUME TypeOK, BalancesMatchSupply, NEW o \in Accounts, NEW r, NEW assets \in Nat,
           WithdrawFromBuffer(o, r, assets) \/ WithdrawFromArks(o, r, assets)
    PROVE  \E burnt \in Nat : Payment(o, r, assets, burnt)
<1> DEFINE burnt == SharesUp(assets, TotalAssets, TippedSupply)
<1>1. TotalAssets \in Nat /\ TippedSupply \in Nat /\ TippedShares[o] \in Nat
  BY Totals, Tipped
<1>2. burnt \in Nat /\ assets * (TippedSupply + 1) <= (TotalAssets + 1) * burnt
  BY <1>1, Conversion
<1>3. /\ ~paused
      /\ \/ PayFromBuffer(o, r, assets, burnt)
         \/ PayFromArks(o, r, assets, burnt) /\ assets <= MaxWithdraw(o)
  BY DEF WithdrawFromBuffer, WithdrawFromArks
<1>4. RedeemValue(o) \in Nat
  BY <1>1, Conversion DEF RedeemValue
<1>5. assets <= MaxWithdraw(o) => assets <= WithdrawableTotalAssets
  BY <1>4, WithdrawableNatural, BelowSmaller DEF MaxWithdraw
<1> HIDE DEF burnt
<1> QED
  BY <1>2, <1>3, <1>5 DEF Payment

\* A redemption pays what the shares are worth, rounded down.
LEMMA RedeemPays ==
    ASSUME TypeOK, BalancesMatchSupply, NEW o \in Accounts, NEW r, NEW burnt \in Nat,
           RedeemFromBuffer(o, r, burnt) \/ RedeemFromArks(o, r, burnt)
    PROVE  \E assets \in Nat : Payment(o, r, assets, burnt)
<1> DEFINE assets == AssetsDown(burnt, TotalAssets, TippedSupply)
<1>1. TotalAssets \in Nat /\ TippedSupply \in Nat /\ TippedShares[o] \in Nat
  BY Totals, Tipped
<1>2. /\ assets \in Nat /\ (TippedSupply + 1) * assets <= burnt * (TotalAssets + 1)
      /\ (TippedSupply + 1) * assets = assets * (TippedSupply + 1)
      /\ burnt * (TotalAssets + 1) = (TotalAssets + 1) * burnt
  <2>1. assets \in Nat /\ (TippedSupply + 1) * assets <= burnt * (TotalAssets + 1)
    BY <1>1, Conversion
  <2> HIDE DEF assets
  <2> QED
    BY <1>1, <2>1
<1>3. /\ ~paused
      /\ \/ PayFromBuffer(o, r, assets, burnt)
         \/ PayFromArks(o, r, assets, burnt) /\ burnt <= MaxRedeem(o)
  BY DEF RedeemFromBuffer, RedeemFromArks
<1>4. burnt <= MaxRedeem(o) => assets <= WithdrawableTotalAssets
  <2> DEFINE all == SharesDown(WithdrawableTotalAssets, TotalAssets, TippedSupply)
  <2>1. WithdrawableTotalAssets \in Nat
    BY WithdrawableNatural
  <2>2. all \in Nat
    BY <1>1, <2>1, Conversion
  <2>3. burnt <= MaxRedeem(o) => burnt <= all
    BY <1>1, <2>2, BelowSmaller DEF MaxRedeem
  <2>4. burnt <= all => assets <= WithdrawableTotalAssets
    BY <1>1, <2>1, RoundTripDown
  <2> QED
    BY <2>3, <2>4
<1> HIDE DEF assets
<1>5. assets * (TippedSupply + 1) <= (TotalAssets + 1) * burnt
  BY <1>2
<1> QED
  BY <1>2, <1>3, <1>4, <1>5 DEF Payment

\* Every way out is a payment.
LEMMA WithdrawTerms ==
    ASSUME TypeOK, BalancesMatchSupply, NEW o \in Accounts, NEW r \in Receivers,
           \/ \E x \in Amounts \cup {MaxUint} : Withdraw(o, r, x)
           \/ \E s \in ShareAmounts \cup {MaxUint} : Redeem(o, r, s)
           \/ \E x \in Amounts : WithdrawFromBuffer(o, r, x) \/ WithdrawFromArks(o, r, x)
           \/ \E s \in ShareAmounts : RedeemFromBuffer(o, r, s) \/ RedeemFromArks(o, r, s)
    PROVE  \E assets, burnt \in Nat : Payment(o, r, assets, burnt)
<1>1. /\ TotalAssets \in Nat /\ TippedSupply \in Nat /\ TippedShares[o] \in Nat
      /\ Amounts \subseteq Nat /\ ShareAmounts \subseteq Nat
  BY Totals, Tipped, ArgumentAssumption
<1>2. RedeemValue(o) \in Nat
  BY <1>1, Conversion DEF RedeemValue
<1>3. ASSUME NEW assets \in Nat,
             WithdrawFromBuffer(o, r, assets) \/ WithdrawFromArks(o, r, assets)
      PROVE  \E a, b \in Nat : Payment(o, r, a, b)
  BY <1>3, WithdrawPays
<1>4. ASSUME NEW burnt \in Nat, RedeemFromBuffer(o, r, burnt) \/ RedeemFromArks(o, r, burnt)
      PROVE  \E a, b \in Nat : Payment(o, r, a, b)
  BY <1>4, RedeemPays
<1>5. ASSUME NEW x \in Amounts \cup {MaxUint}, Withdraw(o, r, x)
      PROVE  \E assets \in Nat : WithdrawFromBuffer(o, r, assets) \/ WithdrawFromArks(o, r, assets)
  <2> DEFINE assets == IF x = MaxUint THEN RedeemValue(o) ELSE x
  <2>1. assets \in Nat
    BY <1>1, <1>2
  <2>2. WithdrawFromBuffer(o, r, assets) \/ WithdrawFromArks(o, r, assets)
    BY <1>5 DEF Withdraw
  <2> HIDE DEF assets
  <2> QED
    BY <2>1, <2>2
<1>6. ASSUME NEW s \in ShareAmounts \cup {MaxUint}, Redeem(o, r, s)
      PROVE  \E burnt \in Nat : RedeemFromBuffer(o, r, burnt) \/ RedeemFromArks(o, r, burnt)
  <2> DEFINE burnt == IF s = MaxUint THEN TippedShares[o] ELSE s
  <2>1. burnt \in Nat
    BY <1>1
  <2>2. RedeemFromBuffer(o, r, burnt) \/ RedeemFromArks(o, r, burnt)
    BY <1>6 DEF Redeem
  <2> HIDE DEF burnt
  <2> QED
    BY <2>1, <2>2
<1> QED
  BY <1>1, <1>3, <1>4, <1>5, <1>6

\* The arks give up the assets of a payment, from what they have.
LEMMA ArksPay ==
    ASSUME TypeOK, NEW o, NEW r, NEW assets \in Nat, NEW burnt, Payment(o, r, assets, burnt)
    PROVE  /\ arkAssets' \in [AllArks -> Nat]
           /\ \A a \in AllArks : arkAssets'[a] <= arkAssets[a]
           /\ SumOver(arkAssets', FleetArks) = SumOver(arkAssets, FleetArks) - assets
           /\ lastActionTimestamp' \in {0, lastActionTimestamp}
           /\ PayOut(o, r, assets, burnt)
<1>1. /\ IsFiniteSet(AllArks) /\ Buffer \in AllArks
      /\ FleetArks \subseteq AllArks /\ IsFiniteSet(FleetArks) /\ Buffer \in FleetArks
  BY Finite DEF TypeOK
<1>2. arkAssets \in [AllArks -> Nat]
  BY DEF TypeOK
<1>3. CASE PayFromBuffer(o, r, assets, burnt)
  <2>1. /\ arkAssets' = [arkAssets EXCEPT ![Buffer] = @ - assets] /\ arkAssets[Buffer] >= assets
        /\ PayOut(o, r, assets, burnt) /\ lastActionTimestamp' = lastActionTimestamp
    BY <1>3 DEF PayFromBuffer
  <2>2. arkAssets' \in [AllArks -> Nat] /\ \A a \in AllArks : arkAssets'[a] <= arkAssets[a]
    BY <1>1, <1>2, <2>1
  <2>3. /\ \A a \in FleetArks : arkAssets[a] \in Int
        /\ arkAssets'[Buffer] = arkAssets[Buffer] - assets /\ arkAssets'[Buffer] \in Int
        /\ \A a \in FleetArks : a # Buffer => arkAssets'[a] = arkAssets[a]
        /\ arkAssets[Buffer] \in Int
    BY <1>1, <1>2, <2>1
  <2>4. SumOver(arkAssets', FleetArks)
          = SumOver(arkAssets, FleetArks) + (arkAssets'[Buffer] - arkAssets[Buffer])
    BY <1>1, <2>3, SumChange
  <2>5. SumOver(arkAssets, FleetArks) \in Int
    BY <1>1, <2>3, SumInt
  <2>6. SumOver(arkAssets', FleetArks) = SumOver(arkAssets, FleetArks) - assets
    BY <2>3, <2>4, <2>5
  <2> QED
    BY <2>1, <2>2, <2>6
<1>4. CASE PayFromArks(o, r, assets, burnt) /\ assets <= WithdrawableTotalAssets
  <2>1. PICK rank \in Rankings :
          arkAssets' = [a \in AllArks |->
              IF a \in FleetArks THEN arkAssets[a] - DrainedFrom(a, assets, rank)
              ELSE arkAssets[a]]
    BY <1>4 DEF PayFromArks
  <2> DEFINE d == [a \in FleetArks |-> DrainedFrom(a, assets, rank)]
  <2>2. SumOver(d, FleetArks) = assets /\ \A a \in FleetArks : d[a] \in Nat /\ d[a] <= arkAssets[a]
    BY <1>4, Drained
  <2>3. arkAssets' = [a \in AllArks |-> IF a \in FleetArks THEN arkAssets[a] - d[a]
                                        ELSE arkAssets[a]]
    BY <2>1
  <2> HIDE DEF d
  <2>4. arkAssets' \in [AllArks -> Nat] /\ \A a \in AllArks : arkAssets'[a] <= arkAssets[a]
    BY <1>1, <1>2, <2>2, <2>3
  <2>5. \A a \in FleetArks : /\ arkAssets'[a] \in Int /\ d[a] \in Int
                             /\ arkAssets[a] = arkAssets'[a] + d[a]
    BY <1>1, <1>2, <2>2, <2>3
  <2>6. SumOver(arkAssets, FleetArks) = SumOver(arkAssets', FleetArks) + SumOver(d, FleetArks)
    BY <1>1, <2>5, SumPlus
  <2>7. SumOver(arkAssets', FleetArks) \in Int
    BY <1>1, <2>5, SumInt
  <2>8. SumOver(arkAssets', FleetArks) = SumOver(arkAssets, FleetArks) - assets
    BY <2>2, <2>6, <2>7
  <2>9. PayOut(o, r, assets, burnt) /\ lastActionTimestamp' = 0
    BY <1>4 DEF PayFromArks
  <2> QED
    BY <2>4, <2>8, <2>9
<1> QED
  BY <1>3, <1>4 DEF Payment

\* What a withdrawal does to the ledgers.
LEMMA Paid ==
    ASSUME FInv, NEW o \in Accounts, NEW r \in Receivers, NEW assets \in Nat,
           NEW burnt \in Nat, Payment(o, r, assets, burnt)
    PROVE  /\ FInv'
           /\ TotalAssets' = TotalAssets - assets /\ totalShares' = TippedSupply - burnt
           /\ SumOver(wallet', Accounts) = SumOver(wallet, Accounts) + assets
<1>0. TypeOK /\ BalancesMatchSupply /\ NoAssetsOutsideFleet
  BY DEF FInv
<1>1. /\ IsFiniteSet(Accounts) /\ IsFiniteSet(AllArks) /\ Buffer \in AllArks
      /\ FleetArks \subseteq AllArks /\ IsFiniteSet(FleetArks) /\ Buffer \in FleetArks
      /\ r \in Accounts
  BY <1>0, Finite, AccountAssumption DEF TypeOK
<1>2. /\ arkAssets' \in [AllArks -> Nat]
      /\ \A a \in AllArks : arkAssets'[a] <= arkAssets[a]
      /\ SumOver(arkAssets', FleetArks) = SumOver(arkAssets, FleetArks) - assets
      /\ lastActionTimestamp' \in {0, lastActionTimestamp}
      /\ PayOut(o, r, assets, burnt)
  BY <1>0, ArksPay
<1>3. /\ CollectTip /\ TippedShares[o] >= burnt
      /\ activeArks' = activeArks /\ FleetArks' = FleetArks
      /\ wallet' = [wallet EXCEPT ![r] = @ + assets]
      /\ shares' = [TippedShares EXCEPT ![o] = @ - burnt]
      /\ totalShares' = TippedSupply - burnt
      /\ UNCHANGED <<illiquid, setupVars, tipRate, pauseVars, cooldown,
                     transfersEnabled, clockVars>>
  BY <1>2 DEF PayOut, setupVars, FleetArks
<1>4. /\ TippedSupply \in Nat /\ TippedShares \in [Accounts -> Nat]
      /\ SumOver(TippedShares, Accounts) = TippedSupply
  BY <1>0, Tipped
<1>5. /\ shares'[o] = TippedShares[o] - burnt /\ \A a \in Accounts : TippedShares[a] \in Int
      /\ \A a \in Accounts : a # o => shares'[a] = TippedShares[a]
      /\ shares'[o] \in Int /\ shares' \in [Accounts -> Nat]
  BY <1>3, <1>4
<1>6. SumOver(shares', Accounts) = TippedSupply - burnt
  <2>1. SumOver(shares', Accounts)
            = SumOver(TippedShares, Accounts) + (shares'[o] - TippedShares[o])
    BY <1>1, <1>5, SumChange
  <2> QED
    BY <1>4, <1>5, <2>1
<1>7. TypeOK'
  <2>1. totalShares' \in Nat
    <3>1. \A a \in Accounts : shares'[a] \in Nat
      BY <1>5
    <3>2. SumOver(shares', Accounts) \in Nat
      BY <1>1, <3>1, SumNat
    <3> QED
      BY <1>3, <1>6, <3>2
  <2>2. wallet' \in [Accounts -> Nat]
    BY <1>0, <1>1, <1>3 DEF TypeOK
  <2>3. lastTipTimestamp' \in StartTime..now
    BY <1>0, <1>3, TipClock DEF CollectTip
  <2>4. lastActionTimestamp' \in 0..now
    BY <1>0, <1>2, NumberAssumption DEF TypeOK
  <2> QED
    BY <1>0, <1>2, <1>3, <1>5, <2>1, <2>2, <2>3, <2>4 DEF TypeOK, setupVars, pauseVars, clockVars
<1>8. BalancesMatchSupply'
  BY <1>3, <1>6 DEF BalancesMatchSupply
<1>9. NoAssetsOutsideFleet'
  BY <1>0, <1>2, <1>3 DEF NoAssetsOutsideFleet, TypeOK
<1>10. TotalAssets' = TotalAssets - assets
  BY <1>2, <1>3 DEF TotalAssets
<1>11. SumOver(wallet', Accounts) = SumOver(wallet, Accounts) + assets
  <2>1. /\ \A a \in Accounts : wallet[a] \in Int
        /\ wallet'[r] = wallet[r] + assets /\ wallet'[r] \in Int
        /\ \A a \in Accounts : a # r => wallet'[a] = wallet[a]
    BY <1>0, <1>1, <1>3 DEF TypeOK
  <2>2. SumOver(wallet', Accounts) = SumOver(wallet, Accounts) + (wallet'[r] - wallet[r])
    BY <1>1, <2>1, SumChange
  <2>3. SumOver(wallet, Accounts) \in Int
    BY <1>1, <2>1, SumInt
  <2> QED
    BY <1>1, <2>1, <2>2, <2>3
<1> QED
  BY <1>3, <1>7, <1>8, <1>9, <1>10, <1>11 DEF FInv

---------------------------------------------------------------------------
(* The legs of a rebalance, one after the other *)

NoFlows == [a \in AllArks |-> 0]
BeforeLegs == [ok |-> TRUE, assets |-> arkAssets, inflow |-> NoFlows, outflow |-> NoFlows]

\* One step of the fold over the places of the legs, the last place last.
LegStep(legs, g, s) ==
    IF s = {} THEN BeforeLegs ELSE ReallocateAssets(g[s \ {Max(s)}], legs[Max(s)])

LegFcn(legs) ==
    CHOOSE g : g = [s \in SUBSET DOMAIN legs |->
                      IF s = {} THEN BeforeLegs
                      ELSE ReallocateAssets(g[s \ {Max(s)}], legs[Max(s)])]

LegsFolded(legs, g, D) == g = [s \in D |-> LegStep(legs, g, s)]

\* The fold is the value of its recursive function.
LEMMA FoldedLegs ==
    ASSUME NEW legs
    PROVE  ReallocateAllAssets(legs) = LegFcn(legs)[DOMAIN legs]
  BY DEF ReallocateAllAssets, FoldLeft, MapThenFoldSet, LegFcn, BeforeLegs, NoFlows

\* The largest of finitely many places is one of them.
LEMMA LastPlace ==
    ASSUME NEW n \in Nat, NEW s \in SUBSET (1..n), s # {}
    PROVE  Max(s) \in s
<1> DEFINE T == {k \in Nat : \A t \in SUBSET (1..k) :
                                t # {} => \E x \in t : \A y \in t : x >= y}
<1>1. 0 \in T
  <2>1. \A t \in SUBSET (1..0) : t = {}
    OBVIOUS
  <2> QED
    BY <2>1
<1>2. ASSUME NEW k \in Nat, k \in T PROVE k + 1 \in T
  <2> SUFFICES ASSUME NEW t \in SUBSET (1..(k + 1)), t # {}
               PROVE  \E x \in t : \A y \in t : x >= y
    OBVIOUS
  <2>1. CASE k + 1 \in t
    <3>1. \A y \in t : k + 1 >= y
      OBVIOUS
    <3> QED
      BY <2>1, <3>1
  <2>2. CASE k + 1 \notin t
    <3>1. t \in SUBSET (1..k)
      BY <2>2
    <3> QED
      BY <1>2, <3>1
  <2> QED
    BY <2>1, <2>2
<1>3. Nat \subseteq T
  <2> HIDE DEF T
  <2> QED
    BY <1>1, <1>2, NatInduct
<1>4. \E x \in s : \A y \in s : x >= y
  BY <1>3
<1> QED
  BY <1>4 DEF Max

\* The recursion has a solution.
LEMMA LegsSolvable ==
    ASSUME NEW n \in Nat, NEW legs, DOMAIN legs = 1..n
    PROVE  \E g : LegsFolded(legs, g, SUBSET (1..n))
<1> DEFINE Upto(k) == {s \in SUBSET (1..n) : Cardinality(s) <= k}
           N == {k \in Nat : \E g : LegsFolded(legs, g, Upto(k))}
<1>a. IsFiniteSet(1..n)
  BY FS_Interval
<1>0. \A s \in SUBSET (1..n) : IsFiniteSet(s) /\ Cardinality(s) \in Nat
  BY <1>a, FS_Subset, FS_CardinalityType
<1>1. 0 \in N
  <2>1. \A s \in Upto(0) : s = {}
    BY <1>0, FS_EmptySet
  <2> DEFINE g == [s \in Upto(0) |-> BeforeLegs]
  <2>2. g = [s \in Upto(0) |-> LegStep(legs, g, s)]
    BY <2>1 DEF LegStep
  <2>3. LegsFolded(legs, g, Upto(0))
    BY <2>2 DEF LegsFolded
  <2> QED
    BY <2>3
<1>2. ASSUME NEW k \in Nat, k \in N PROVE k + 1 \in N
  <2>1. PICK g : LegsFolded(legs, g, Upto(k))
    BY <1>2
  <2> DEFINE h == [s \in Upto(k + 1) |-> LegStep(legs, g, s)]
  <2>2. ASSUME NEW s \in Upto(k) PROVE h[s] = g[s]
    <3>1. s \in Upto(k + 1)
      BY <1>0
    <3>2. h[s] = LegStep(legs, g, s)
      BY <3>1
    <3>3. g[s] = LegStep(legs, g, s)
      <4> HIDE DEF h, Upto
      <4> QED
        BY <2>1, <2>2 DEF LegsFolded
    <3> QED
      BY <3>2, <3>3
  <2>3. ASSUME NEW s \in Upto(k + 1) PROVE LegStep(legs, g, s) = LegStep(legs, h, s)
    <3>1. CASE s = {}
      BY <3>1 DEF LegStep
    <3>2. CASE s # {}
      <4>1. Max(s) \in s
        BY <3>2, LastPlace
      <4>2. Cardinality(s \ {Max(s)}) = Cardinality(s) - 1
        BY <1>0, <4>1, FS_RemoveElement
      <4>3. Cardinality(s) <= k + 1 /\ Cardinality(s) \in Nat
        BY <1>0
      <4>4. Cardinality(s \ {Max(s)}) <= k
        <5> HIDE DEF h, Upto
        <5> QED
          BY <4>2, <4>3
      <4>5. s \ {Max(s)} \in Upto(k)
        <5>1. s \ {Max(s)} \in SUBSET (1..n)
          OBVIOUS
        <5> QED
          BY <4>4, <5>1
      <4> HIDE DEF h, Upto
      <4> QED
        BY <2>2, <4>5 DEF LegStep
    <3> QED
      BY <3>1, <3>2
  <2>4. h = [s \in Upto(k + 1) |-> LegStep(legs, h, s)]
    BY <2>3
  <2>5. LegsFolded(legs, h, Upto(k + 1))
    <3> HIDE DEF h, Upto
    <3> QED
      BY <2>4 DEF LegsFolded
  <2> HIDE DEF h
  <2>6. k + 1 \in Nat
    OBVIOUS
  <2> QED
    BY <2>5, <2>6
<1>3. Nat \subseteq N
  <2> HIDE DEF N
  <2> QED
    BY <1>1, <1>2, NatInduct
<1>4. Upto(Cardinality(1..n)) = SUBSET (1..n)
  BY <1>a, <1>0, FS_Subset
<1>5. Cardinality(1..n) \in N
  BY <1>a, <1>0, <1>3
<1> QED
  BY <1>4, <1>5

\* The state after the first k legs.
After(legs, k) == LegFcn(legs)[1..k]

\* The legs are executed one after the other.
LEMMA LegAfterLeg ==
    ASSUME NEW n \in Nat, NEW legs, DOMAIN legs = 1..n
    PROVE  /\ After(legs, 0) = BeforeLegs
           /\ \A k \in 1..n : After(legs, k) = ReallocateAssets(After(legs, k - 1), legs[k])
           /\ ReallocateAllAssets(legs) = After(legs, n)
<1> DEFINE P(g) == g = [s \in SUBSET DOMAIN legs |->
                          IF s = {} THEN BeforeLegs
                          ELSE ReallocateAssets(g[s \ {Max(s)}], legs[Max(s)])]
           f == LegFcn(legs)
<1>1. \E g : P(g)
  <2>1. PICK g : LegsFolded(legs, g, SUBSET (1..n))
    BY LegsSolvable
  <2>2. P(g)
    BY <2>1 DEF LegsFolded, LegStep
  <2> QED
    BY <2>2
<1>2. P(CHOOSE g : P(g))
  <2> HIDE DEF P
  <2> QED
    BY <1>1, Zenon
<1>3. LegsFolded(legs, f, SUBSET (1..n))
  BY <1>2 DEF LegFcn, LegsFolded, LegStep
<1> HIDE DEF f
<1>4. ASSUME NEW s \in SUBSET (1..n) PROVE f[s] = LegStep(legs, f, s)
  BY <1>3 DEF LegsFolded
<1>5. f[{}] = BeforeLegs
  BY <1>4 DEF LegStep
<1>6. ASSUME NEW k \in 1..n PROVE f[1..k] = ReallocateAssets(f[1..(k - 1)], legs[k])
  <2>0. k \in Nat /\ k <= n /\ 1 <= k
    OBVIOUS
  <2>1. 1..k \in SUBSET (1..n) /\ 1..k # {} /\ k \in 1..k
    BY <2>0
  <2>2. Max(1..k) \in 1..k
    BY <2>1, LastPlace
  <2>3. Max(1..k) >= k
    <3>1. \A y \in 1..k : k >= y
      OBVIOUS
    <3>2. \E x \in 1..k : \A y \in 1..k : x >= y
      BY <2>1, <3>1
    <3> QED
      BY <2>1, <3>2 DEF Max
  <2>4. Max(1..k) = k /\ (1..k) \ {k} = 1..(k - 1)
    BY <2>2, <2>3
  <2> QED
    BY <1>4, <2>1, <2>4 DEF LegStep
<1>7. 1..0 = {} /\ 1..n = DOMAIN legs
  OBVIOUS
<1> QED
  BY <1>5, <1>6, <1>7, FoldedLegs DEF After, f

---------------------------------------------------------------------------
(* What the legs do together *)

Progress == [ok : BOOLEAN, assets : [AllArks -> Nat], inflow : [AllArks -> Nat],
             outflow : [AllArks -> Nat]]

\* The assets between the legs of a rebalance: moved within the fleet, and
\* within the limits of every ark.
LegsHold(st) ==
    /\ st \in Progress
    /\ SumOver(st.assets, FleetArks) = TotalAssets
    /\ \A a \in AllArks :
          /\ st.assets[a] = arkAssets[a] + st.inflow[a] - st.outflow[a]
          /\ st.inflow[a] > 0 =>
                /\ a \in FleetArks /\ ArkConfigOf(a).depositCap # 0
                /\ st.inflow[a] <= ArkConfigOf(a).maxInflow
                /\ st.assets[a] <= EffectiveArkDepositCap(a, TotalAssets)
          /\ st.outflow[a] > 0 =>
                /\ a \in FleetArks /\ st.outflow[a] <= ArkConfigOf(a).maxOutflow

\* What lets the leg pass, when it moves `amount`.
LegPasses(st, leg, amount) ==
    /\ st.ok
    /\ amount # 0
    /\ leg.to \in FleetArks /\ leg.from \in FleetArks
    /\ ArkConfigOf(leg.to).depositCap # 0
    /\ st.outflow[leg.from] + amount <= ArkConfigOf(leg.from).maxOutflow
    /\ st.inflow[leg.to] + amount <= ArkConfigOf(leg.to).maxInflow
    /\ st.assets[leg.to] + amount
          <= EffectiveArkDepositCap(leg.to, SumOver(st.assets, FleetArks))
    /\ leg.from \notin illiquid
    /\ st.assets[leg.from] >= amount

\* The state after it.
LegPassed(st, leg, amount) ==
    [ok |-> TRUE,
     assets |-> [[st.assets EXCEPT ![leg.from] = @ - amount] EXCEPT ![leg.to] = @ + amount],
     inflow |-> [st.inflow EXCEPT ![leg.to] = st.inflow[leg.to] + amount],
     outflow |-> [st.outflow EXCEPT ![leg.from] = st.outflow[leg.from] + amount]]

\* A leg either passes with its amount or leaves the assets and flows alone.
LEMMA LegOutcome ==
    ASSUME NEW st, LegsHold(st), NEW leg \in [from : AllArks, to : AllArks,
                                              amount : Nat \cup {MaxUint}]
    PROVE  \E amount \in Nat :
              \/ LegPasses(st, leg, amount)
                    /\ ReallocateAssets(st, leg) = LegPassed(st, leg, amount)
              \/ ReallocateAssets(st, leg) = [st EXCEPT !.ok = FALSE]
<1> DEFINE amount == IF leg.amount = MaxUint THEN st.assets[leg.from] ELSE leg.amount
<1>1. amount \in Nat
  <2>1. st.assets \in [AllArks -> Nat] /\ leg.from \in AllArks
        /\ leg.amount \in Nat \cup {MaxUint}
    BY DEF LegsHold, Progress
  <2> QED
    BY <2>1
<1>2. ReallocateAssets(st, leg) = IF ~LegPasses(st, leg, amount) THEN [st EXCEPT !.ok = FALSE]
                                  ELSE LegPassed(st, leg, amount)
  BY DEF ReallocateAssets, LegPasses, LegPassed, FlowSoFar
<1> HIDE DEF amount
<1> QED
  BY <1>1, <1>2

\* The cap of an ark is natural.
LEMMA CapNatural ==
    ASSUME TypeOK, BalancesMatchSupply, NEW a \in AllArks
    PROVE  EffectiveArkDepositCap(a, TotalAssets) \in Nat
<1>1. TotalAssets \in Nat /\ Hundred \in Nat \ {0} /\ Unlimited \in Nat
  BY Totals, NumberAssumption
<1>2. ArkConfigOf(a) \in ArkConfigs
  <2>1. Hundred \in 0..Hundred
    BY <1>1
  <2>2. CASE a = Buffer
    BY <1>1, <2>1, <2>2 DEF ArkConfigOf, ArkConfigs
  <2>3. CASE a # Buffer
    BY <2>3 DEF ArkConfigOf, AllArks, TypeOK
  <2> QED
    BY <2>2, <2>3
<1>3. ArkConfigOf(a).maxPercentage \in Nat /\ ArkConfigOf(a).depositCap \in Nat
  BY <1>1, <1>2 DEF ArkConfigs
<1>4. TotalAssets * ArkConfigOf(a).maxPercentage \in Nat
  BY <1>1, <1>3, Product
<1> DEFINE x == TotalAssets * ArkConfigOf(a).maxPercentage
<1>5. x \div Hundred \in Nat
  <2> HIDE DEF x
  <2> QED
    BY <1>1, <1>4, Division DEF x
<1> QED
  BY <1>3, <1>5 DEF EffectiveArkDepositCap, ApplyPercentage, Smaller

\* A leg that passes keeps the assets together and every ark within its limits.
LEMMA LegKeeps ==
    ASSUME TypeOK, BalancesMatchSupply, NEW st, LegsHold(st),
           NEW from \in FleetArks, NEW to \in FleetArks, NEW leg, leg.from = from, leg.to = to,
           NEW amount \in Nat, LegPasses(st, leg, amount)
    PROVE  LegsHold(LegPassed(st, leg, amount))
<1> DEFINE old == st.assets
           mid == [old EXCEPT ![from] = @ - amount]
           new == [mid EXCEPT ![to] = @ + amount]
           inf == [st.inflow EXCEPT ![to] = st.inflow[to] + amount]
           out == [st.outflow EXCEPT ![from] = st.outflow[from] + amount]
           after == LegPassed(st, leg, amount)
<1>1. /\ old \in [AllArks -> Nat] /\ st.inflow \in [AllArks -> Nat]
      /\ st.outflow \in [AllArks -> Nat] /\ SumOver(old, FleetArks) = TotalAssets
  BY DEF LegsHold, Progress
<1>2. /\ FleetArks \subseteq AllArks /\ IsFiniteSet(FleetArks) /\ from \in AllArks /\ to \in AllArks
  BY Finite DEF TypeOK
<1>3. /\ amount # 0 /\ ArkConfigOf(to).depositCap # 0
      /\ st.outflow[from] + amount <= ArkConfigOf(from).maxOutflow
      /\ st.inflow[to] + amount <= ArkConfigOf(to).maxInflow
      /\ old[to] + amount <= EffectiveArkDepositCap(to, TotalAssets)
      /\ old[from] >= amount
  BY <1>1 DEF LegPasses
<1>4. /\ after.ok = TRUE /\ after.assets = new /\ after.inflow = inf /\ after.outflow = out
      /\ after = [ok |-> TRUE, assets |-> new, inflow |-> inf, outflow |-> out]
  BY DEF LegPassed
<1>5. /\ mid \in [AllArks -> Nat] /\ mid[from] = old[from] - amount
      /\ \A a \in AllArks : a # from => mid[a] = old[a]
  BY <1>1, <1>2, <1>3
<1>6. /\ new \in [AllArks -> Nat] /\ new[to] = mid[to] + amount
      /\ \A a \in AllArks : a # to => new[a] = mid[a]
  <2> HIDE DEF mid
  <2> QED
    BY <1>2, <1>5
<1>7. /\ inf \in [AllArks -> Nat] /\ inf[to] = st.inflow[to] + amount
      /\ \A a \in AllArks : a # to => inf[a] = st.inflow[a]
  BY <1>1, <1>2
<1>8. /\ out \in [AllArks -> Nat] /\ out[from] = st.outflow[from] + amount
      /\ \A a \in AllArks : a # from => out[a] = st.outflow[a]
  BY <1>1, <1>2
<1> HIDE DEF old, mid, new, inf, out, after
<1>9. /\ \A a \in FleetArks : old[a] \in Int /\ mid[a] \in Int /\ new[a] \in Int
      /\ \A a \in FleetArks : a # from => mid[a] = old[a]
      /\ \A a \in FleetArks : a # to => new[a] = mid[a]
  BY <1>1, <1>2, <1>5, <1>6
<1>10. SumOver(mid, FleetArks) = SumOver(old, FleetArks) + (mid[from] - old[from])
  BY <1>2, <1>9, SumChange
<1>11. SumOver(new, FleetArks) = SumOver(mid, FleetArks) + (new[to] - mid[to])
  BY <1>2, <1>9, SumChange
<1>12. SumOver(new, FleetArks) = TotalAssets
  <2>1. SumOver(old, FleetArks) \in Int /\ old[from] \in Int /\ mid[to] \in Int
    BY <1>2, <1>9, SumInt
  <2> QED
    BY <1>1, <1>5, <1>6, <1>10, <1>11, <2>1
<1>13. ASSUME NEW a \in AllArks
       PROVE  /\ new[a] = arkAssets[a] + inf[a] - out[a]
              /\ inf[a] > 0 => /\ a \in FleetArks /\ ArkConfigOf(a).depositCap # 0
                               /\ inf[a] <= ArkConfigOf(a).maxInflow
                               /\ new[a] <= EffectiveArkDepositCap(a, TotalAssets)
              /\ out[a] > 0 => a \in FleetArks /\ out[a] <= ArkConfigOf(a).maxOutflow
  <2>1. /\ old[a] = arkAssets[a] + st.inflow[a] - st.outflow[a]
        /\ st.inflow[a] > 0 =>
                /\ a \in FleetArks /\ ArkConfigOf(a).depositCap # 0
                /\ st.inflow[a] <= ArkConfigOf(a).maxInflow
                /\ old[a] <= EffectiveArkDepositCap(a, TotalAssets)
        /\ st.outflow[a] > 0 =>
                /\ a \in FleetArks /\ st.outflow[a] <= ArkConfigOf(a).maxOutflow
    BY DEF LegsHold, old
  <2>2. /\ arkAssets[a] \in Nat /\ st.inflow[a] \in Nat /\ st.outflow[a] \in Nat
        /\ old[a] \in Nat /\ mid[a] \in Nat /\ new[a] \in Nat
    BY <1>1, <1>5, <1>6 DEF TypeOK
  <2>3. new[a] = arkAssets[a] + inf[a] - out[a]
    BY <1>5, <1>6, <1>7, <1>8, <2>1, <2>2
  <2>4. out[a] > 0 => a \in FleetArks /\ out[a] <= ArkConfigOf(a).maxOutflow
    BY <1>3, <1>8, <2>1
  <2>5. inf[a] > 0 => /\ a \in FleetArks /\ ArkConfigOf(a).depositCap # 0
                      /\ inf[a] <= ArkConfigOf(a).maxInflow
    BY <1>3, <1>7, <2>1
  <2>6. EffectiveArkDepositCap(a, TotalAssets) \in Int
        /\ EffectiveArkDepositCap(to, TotalAssets) \in Int
    BY <1>2, CapNatural
  <2>7. CASE a = to
    <3>1. mid[to] <= old[to] /\ old[to] \in Nat /\ mid[to] \in Nat
      BY <1>2, <1>5, <2>2, <2>7
    <3>2. new[a] <= old[to] + amount
      BY <1>6, <2>7, <3>1
    <3>3. new[a] <= EffectiveArkDepositCap(a, TotalAssets)
      BY <1>3, <2>2, <2>6, <2>7, <3>1, <3>2
    <3> QED
      BY <2>3, <2>4, <2>5, <3>3
  <2>8. CASE a # to
    <3>1. inf[a] = st.inflow[a] /\ new[a] = mid[a] /\ mid[a] <= old[a]
      BY <1>5, <1>6, <1>7, <2>2, <2>8
    <3>2. inf[a] > 0 => new[a] <= EffectiveArkDepositCap(a, TotalAssets)
      BY <2>1, <2>2, <2>6, <3>1
    <3> QED
      BY <2>3, <2>4, <2>5, <3>2
  <2> QED
    BY <2>7, <2>8
<1>14. after \in Progress
  BY <1>4, <1>6, <1>7, <1>8 DEF Progress
<1>15. LegsHold(after)
  BY <1>4, <1>12, <1>13, <1>14 DEF LegsHold
<1> QED
  BY <1>15 DEF after

\* All legs of a rebalance that goes through keep them.
LEMMA AllLegsHold ==
    ASSUME TypeOK, BalancesMatchSupply, NEW legs \in LegSequences
    PROVE  LegsHold(ReallocateAllAssets(legs))
<1>1. PICK n \in 1..MaxLegs : legs \in [1..n -> Legs]
  BY DEF LegSequences
<1>2. n \in Nat /\ DOMAIN legs = 1..n
  BY <1>1
<1> DEFINE N == {k \in Nat : k <= n => LegsHold(After(legs, k))}
<1>3. 0 \in N
  <2>1. arkAssets \in [AllArks -> Nat] /\ NoFlows \in [AllArks -> Nat]
        /\ \A a \in AllArks : NoFlows[a] = 0
    BY DEF TypeOK, NoFlows
  <2>2. BeforeLegs \in Progress
    BY <2>1 DEF BeforeLegs, Progress
  <2>3. BeforeLegs.assets = arkAssets /\ BeforeLegs.inflow = NoFlows
        /\ BeforeLegs.outflow = NoFlows
    BY DEF BeforeLegs
  <2>4. SumOver(BeforeLegs.assets, FleetArks) = TotalAssets
    BY <2>3 DEF TotalAssets
  <2>5. ASSUME NEW a \in AllArks
        PROVE  /\ BeforeLegs.assets[a]
                     = arkAssets[a] + BeforeLegs.inflow[a] - BeforeLegs.outflow[a]
               /\ BeforeLegs.inflow[a] = 0 /\ BeforeLegs.outflow[a] = 0
    BY <2>1, <2>3
  <2>6. LegsHold(BeforeLegs)
    BY <2>2, <2>4, <2>5 DEF LegsHold
  <2> QED
    BY <1>2, <2>6, LegAfterLeg
<1>4. ASSUME NEW k \in Nat, k \in N PROVE k + 1 \in N
  <2> SUFFICES ASSUME k + 1 <= n PROVE LegsHold(After(legs, k + 1))
    OBVIOUS
  <2>1. k + 1 \in 1..n /\ (k + 1) - 1 = k /\ LegsHold(After(legs, k))
    BY <1>2, <1>4
  <2>2. After(legs, k + 1) = ReallocateAssets(After(legs, k), legs[k + 1])
    <3>1. After(legs, k + 1) = ReallocateAssets(After(legs, (k + 1) - 1), legs[k + 1])
      BY <1>2, <2>1, LegAfterLeg
    <3> QED
      BY <2>1, <3>1
  <2>3. legs[k + 1] \in [from : AllArks, to : AllArks, amount : Nat \cup {MaxUint}]
    BY <1>1, <2>1, LegAssumption
  <2> DEFINE st == After(legs, k)
             leg == legs[k + 1]
  <2> HIDE DEF st, leg
  <2>4. PICK amount \in Nat :
              \/ LegPasses(st, leg, amount)
                    /\ ReallocateAssets(st, leg) = LegPassed(st, leg, amount)
              \/ ReallocateAssets(st, leg) = [st EXCEPT !.ok = FALSE]
    BY <2>1, <2>3, LegOutcome DEF st, leg
  <2>5. CASE LegPasses(st, leg, amount)
                 /\ ReallocateAssets(st, leg) = LegPassed(st, leg, amount)
    <3>1. leg.from \in FleetArks /\ leg.to \in FleetArks
      BY <2>5 DEF LegPasses
    <3>2. LegsHold(LegPassed(st, leg, amount))
      BY <2>1, <2>5, <3>1, LegKeeps DEF st
    <3> QED
      BY <2>2, <2>5, <3>2 DEF st, leg
  <2>6. CASE ReallocateAssets(st, leg) = [st EXCEPT !.ok = FALSE]
    <3> DEFINE same == [st EXCEPT !.ok = FALSE]
    <3>1. st \in Progress
      BY <2>1 DEF LegsHold, st
    <3>2. same \in Progress /\ same.assets = st.assets /\ same.inflow = st.inflow
          /\ same.outflow = st.outflow
      BY <3>1 DEF Progress
    <3> HIDE DEF same
    <3>3. LegsHold(st)
      BY <2>1 DEF st
    <3>4. LegsHold(same)
      BY <3>2, <3>3 DEF LegsHold
    <3> QED
      BY <2>2, <2>6, <3>4 DEF st, leg, same
  <2> QED
    BY <2>4, <2>5, <2>6
<1>5. Nat \subseteq N
  <2> HIDE DEF N
  <2> QED
    BY <1>3, <1>4, NatInduct
<1>6. LegsHold(After(legs, n))
  BY <1>2, <1>5
<1> QED
  BY <1>2, <1>6, LegAfterLeg

---------------------------------------------------------------------------
(* What each kind of step does *)

\* A deposit step: the new shares are paid for, within the cap.
LEMMA DepositMoves ==
    ASSUME FInv, DepositStep
    PROVE  /\ FInv' /\ ~paused
           /\ \E assets, n \in Nat :
                 /\ TotalAssets' = TotalAssets + assets /\ totalShares' = TippedSupply + n
                 /\ (TotalAssets + 1) * n <= assets * (TippedSupply + 1)
                 /\ SumOver(wallet', Accounts) = SumOver(wallet, Accounts) - assets
                 /\ TotalAssets' <= config.depositCap
                 /\ assets = 0 => arkAssets' = arkAssets
<1>1. PICK u \in Users, r \in Receivers : \/ \E x \in Amounts : Deposit(u, r, x)
                                          \/ \E s \in ShareAmounts : Mint(u, r, s)
  BY DEF DepositStep
<1>2. TypeOK /\ BalancesMatchSupply
  BY DEF FInv
<1>3. PICK assets \in Nat, n \in Nat :
               /\ TakeIn(u, r, assets, n) /\ ~paused
               /\ assets <= wallet[u] /\ TotalAssets + assets <= config.depositCap
               /\ (TotalAssets + 1) * n <= assets * (TippedSupply + 1)
  BY <1>1, <1>2, DepositTerms
<1>4. /\ FInv'
      /\ TotalAssets' = TotalAssets + assets /\ totalShares' = TippedSupply + n
      /\ SumOver(wallet', Accounts) = SumOver(wallet, Accounts) - assets
  BY <1>3, Taken
<1>5. assets = 0 => arkAssets' = arkAssets
  <2>1. arkAssets' = [arkAssets EXCEPT ![Buffer] = @ + assets]
        /\ arkAssets \in [AllArks -> Nat] /\ Buffer \in AllArks
    BY <1>2, <1>3, Finite DEF TakeIn, TypeOK
  <2> QED
    BY <2>1
<1> QED
  BY <1>3, <1>4, <1>5

\* A withdrawal step: what is paid is worth no more than the shares burnt.
LEMMA WithdrawMoves ==
    ASSUME FInv, WithdrawStep
    PROVE  /\ FInv' /\ ~paused
           /\ \E assets, burnt \in Nat :
                 /\ TotalAssets' = TotalAssets - assets /\ totalShares' = TippedSupply - burnt
                 /\ assets * (TippedSupply + 1) <= (TotalAssets + 1) * burnt
                 /\ SumOver(wallet', Accounts) = SumOver(wallet, Accounts) + assets
                 /\ assets = 0 => arkAssets' = arkAssets
<1>1. PICK o \in Accounts, r \in Receivers :
           \/ \E x \in Amounts \cup {MaxUint} : Withdraw(o, r, x)
           \/ \E s \in ShareAmounts \cup {MaxUint} : Redeem(o, r, s)
           \/ \E x \in Amounts : WithdrawFromBuffer(o, r, x) \/ WithdrawFromArks(o, r, x)
           \/ \E s \in ShareAmounts : RedeemFromBuffer(o, r, s) \/ RedeemFromArks(o, r, s)
  BY DEF WithdrawStep
<1>2. TypeOK /\ BalancesMatchSupply
  BY DEF FInv
<1>3. PICK assets \in Nat, burnt \in Nat : Payment(o, r, assets, burnt)
  BY <1>1, <1>2, WithdrawTerms
<1>4. /\ FInv'
      /\ TotalAssets' = TotalAssets - assets /\ totalShares' = TippedSupply - burnt
      /\ SumOver(wallet', Accounts) = SumOver(wallet, Accounts) + assets
  BY <1>3, Paid
<1>5. ~paused /\ assets * (TippedSupply + 1) <= (TotalAssets + 1) * burnt
  BY <1>3 DEF Payment
<1>6. ASSUME assets = 0 PROVE arkAssets' = arkAssets
  <2>1. /\ arkAssets' \in [AllArks -> Nat] /\ arkAssets \in [AllArks -> Nat]
        /\ \A a \in AllArks : arkAssets'[a] <= arkAssets[a]
        /\ SumOver(arkAssets', FleetArks) = SumOver(arkAssets, FleetArks) - assets
    BY <1>2, <1>3, ArksPay DEF TypeOK
  <2>2. CASE PayFromBuffer(o, r, assets, burnt)
    <3>1. arkAssets' = [arkAssets EXCEPT ![Buffer] = @ - assets] /\ Buffer \in AllArks
      BY <1>2, <2>2, Finite DEF PayFromBuffer, TypeOK
    <3> QED
      BY <1>6, <2>1, <3>1
  <2>3. CASE PayFromArks(o, r, assets, burnt) /\ assets <= WithdrawableTotalAssets
    <3>1. PICK rank \in Rankings :
              arkAssets' = [a \in AllArks |->
                  IF a \in FleetArks THEN arkAssets[a] - DrainedFrom(a, assets, rank)
                  ELSE arkAssets[a]]
      BY <2>3 DEF PayFromArks
    <3> DEFINE d == [a \in FleetArks |-> DrainedFrom(a, assets, rank)]
    <3>2. SumOver(d, FleetArks) = 0 /\ \A a \in FleetArks : d[a] \in Nat
      BY <1>2, <1>6, <2>3, Drained
    <3>3. IsFiniteSet(FleetArks)
      BY <1>2, Finite DEF TypeOK
    <3>4. \A a \in FleetArks : DrainedFrom(a, assets, rank) = d[a]
      OBVIOUS
    <3> HIDE DEF d
    <3>5. \A a \in FleetArks : d[a] <= SumOver(d, FleetArks)
      BY <3>2, <3>3, SumNat
    <3>6. \A a \in FleetArks : d[a] = 0
      BY <3>2, <3>5
    <3>7. \A a \in AllArks : arkAssets'[a] = arkAssets[a]
      BY <2>1, <3>1, <3>4, <3>6
    <3> QED
      BY <2>1, <3>7
  <2> QED
    BY <1>3, <2>2, <2>3 DEF Payment
<1> QED
  BY <1>4, <1>5, <1>6

\* The limits of the arks over a whole rebalance.
ArkLimits ==
    \A a \in Arks :
        /\ arkAssets'[a] > arkAssets[a] =>
              /\ arkConfig[a].depositCap > 0
              /\ arkAssets'[a] - arkAssets[a] <= arkConfig[a].maxInflow
              /\ arkAssets'[a] <= EffectiveArkDepositCap(a, TotalAssets)
        /\ arkAssets[a] - arkAssets'[a] <= arkConfig[a].maxOutflow

\* A rebalance keeps the invariant and every limit.
LEMMA RebalanceMovesWithin ==
    ASSUME FInv, RebalanceStep
    PROVE  FInv' /\ ~paused /\ wallet' = wallet /\ ArkLimits
<1>0. TypeOK /\ BalancesMatchSupply /\ NoAssetsOutsideFleet
  BY DEF FInv
<1>1. PICK legs \in LegSequences : Rebalance(legs) \/ ForceRebalance(legs)
  BY DEF RebalanceStep
<1>2. RebalanceBody(legs) /\ lastActionTimestamp' \in {now, lastActionTimestamp}
  BY <1>1 DEF Rebalance, ForceRebalance
<1> DEFINE st == ReallocateAllAssets(legs)
<1>3. LegsHold(st)
  BY <1>0, AllLegsHold
<1>4. /\ ~paused /\ arkAssets' = st.assets /\ CollectTip /\ shares' = TippedShares
      /\ totalShares' = TippedSupply
      /\ wallet' = wallet /\ illiquid' = illiquid /\ activeArks' = activeArks
      /\ UNCHANGED <<setupVars, tipRate, pauseVars, cooldown, transfersEnabled, clockVars>>
  BY <1>2 DEF RebalanceBody, setupVars
<1> HIDE DEF st
<1>5. /\ arkAssets' \in [AllArks -> Nat] /\ st.inflow \in [AllArks -> Nat]
      /\ st.outflow \in [AllArks -> Nat]
  BY <1>3, <1>4 DEF LegsHold, Progress
<1>6. \A a \in AllArks :
          /\ arkAssets'[a] = arkAssets[a] + st.inflow[a] - st.outflow[a]
          /\ st.inflow[a] > 0 =>
                /\ a \in FleetArks /\ ArkConfigOf(a).depositCap # 0
                /\ st.inflow[a] <= ArkConfigOf(a).maxInflow
                /\ arkAssets'[a] <= EffectiveArkDepositCap(a, TotalAssets)
          /\ st.outflow[a] > 0 =>
                /\ a \in FleetArks /\ st.outflow[a] <= ArkConfigOf(a).maxOutflow
  BY <1>3, <1>4 DEF LegsHold
<1>7. /\ TippedSupply \in Nat /\ TippedShares \in [Accounts -> Nat]
      /\ SumOver(TippedShares, Accounts) = TippedSupply
  BY <1>0, Tipped
<1>8. TypeOK'
  <2>1. lastTipTimestamp' \in StartTime..now
    BY <1>0, <1>4, TipClock DEF CollectTip
  <2>2. lastActionTimestamp' \in 0..now
    BY <1>0, <1>2, NumberAssumption DEF TypeOK
  <2> QED
    BY <1>0, <1>4, <1>5, <1>7, <2>1, <2>2 DEF TypeOK, setupVars, pauseVars, clockVars
<1>9. BalancesMatchSupply'
  BY <1>4, <1>7 DEF BalancesMatchSupply
<1>10. NoAssetsOutsideFleet'
  <2>1. FleetArks' = FleetArks
    BY <1>4 DEF FleetArks
  <2> SUFFICES ASSUME NEW a \in AllArks \ FleetArks PROVE arkAssets'[a] = 0
    BY <2>1 DEF NoAssetsOutsideFleet
  <2>2. arkAssets[a] = 0
    BY <1>0 DEF NoAssetsOutsideFleet
  <2>3. st.inflow[a] = 0 /\ st.outflow[a] = 0
    BY <1>5, <1>6
  <2> QED
    BY <1>6, <2>2, <2>3
<1>11. ArkLimits
  <2> SUFFICES ASSUME NEW a \in Arks
               PROVE  /\ arkAssets'[a] > arkAssets[a] =>
                            /\ arkConfig[a].depositCap > 0
                            /\ arkAssets'[a] - arkAssets[a] <= arkConfig[a].maxInflow
                            /\ arkAssets'[a] <= EffectiveArkDepositCap(a, TotalAssets)
                      /\ arkAssets[a] - arkAssets'[a] <= arkConfig[a].maxOutflow
    BY DEF ArkLimits
  <2>1. a \in AllArks /\ ArkConfigOf(a) = arkConfig[a]
    BY AccountAssumption DEF AllArks, ArkConfigOf
  <2>2. arkConfig[a].depositCap \in Nat /\ arkConfig[a].maxInflow \in Nat
        /\ arkConfig[a].maxOutflow \in Nat
    BY <1>0 DEF TypeOK, ArkConfigs
  <2>3. /\ arkAssets[a] \in Nat /\ arkAssets'[a] \in Nat /\ st.inflow[a] \in Nat
        /\ st.outflow[a] \in Nat
    BY <1>0, <1>5, <2>1 DEF TypeOK
  <2>4. /\ arkAssets'[a] = arkAssets[a] + st.inflow[a] - st.outflow[a]
        /\ st.inflow[a] > 0 =>
              /\ arkConfig[a].depositCap # 0 /\ st.inflow[a] <= arkConfig[a].maxInflow
              /\ arkAssets'[a] <= EffectiveArkDepositCap(a, TotalAssets)
        /\ st.outflow[a] > 0 => st.outflow[a] <= arkConfig[a].maxOutflow
    BY <1>6, <2>1
  <2> QED
    BY <2>2, <2>3, <2>4
<1> QED
  BY <1>4, <1>8, <1>9, <1>10, <1>11 DEF FInv

\* What a step that moves no assets leaves alone while the fleet is paused.
PauseKept ==
    paused => /\ UNCHANGED <<wallet, totalShares, activeArks, arkConfig, config,
                             tipRate, cooldown, minimumPauseTime>>
              /\ ~paused' => now - pauseStartTime >= minimumPauseTime

\* Tips keep the invariant.
LEMMA TipMoves ==
    ASSUME FInv, TipStep
    PROVE  FInv' /\ wallet' = wallet /\ arkAssets' = arkAssets /\ PauseKept
<1>0. TypeOK /\ BalancesMatchSupply /\ NoAssetsOutsideFleet
  BY DEF FInv
<1>1. /\ ~paused /\ AccrueOnView /\ tipRate' \in 0..MaxTipRate
      /\ UNCHANGED <<wallet, arkVars, setupVars, pauseVars, cooldown,
                     lastActionTimestamp, transfersEnabled, clockVars>>
  <2>1. CASE TipCall
    BY <1>0, <2>1 DEF TipCall, TypeOK
  <2>2. CASE \E r \in TipRates : SetTipRate(r)
    <3>1. PICK r \in TipRates : SetTipRate(r)
      BY <2>2
    <3>2. r \in 0..MaxTipRate
      BY <3>1, NumberAssumption, ArgumentAssumption DEF SetTipRate, ValidTipRate
    <3> QED
      BY <3>1, <3>2 DEF SetTipRate
  <2> QED
    BY <2>1, <2>2 DEF TipStep
<1> DEFINE minted == PreviewTip(TotalSupplyView)
<1>2. /\ AccrueClock(TotalSupplyView)
      /\ shares' = [shares EXCEPT ![TipJar] = @ + minted]
      /\ totalShares' = totalShares + minted
  BY <1>1 DEF AccrueOnView
<1>3. TipJar \in Accounts /\ shares[TipJar] <= totalShares /\ totalShares \in Nat
      /\ shares[TipJar] \in Nat
  BY <1>0, Totals DEF Accounts, TypeOK
<1>4. TotalSupplyView \in Nat /\ shares[TipJar] <= TotalSupplyView
  <2>1. PreviewTip(totalShares) \in Nat
    BY <1>0, <1>3, TipNatural
  <2> QED
    BY <1>3, <2>1 DEF TotalSupplyView
<1>5. minted \in Nat
  BY <1>0, <1>4, TipNatural
<1> HIDE DEF minted
<1>6. /\ shares' \in [Accounts -> Nat] /\ totalShares' \in Nat
      /\ SumOver(shares', Accounts) = totalShares'
  BY <1>0, <1>2, <1>3, <1>5, Minted
<1>7. lastTipTimestamp' \in StartTime..now
  BY <1>0, <1>2, TipClock
<1>8. TypeOK'
  BY <1>0, <1>1, <1>6, <1>7 DEF TypeOK, arkVars, setupVars, pauseVars, clockVars
<1>9. NoAssetsOutsideFleet'
  BY <1>0, <1>1 DEF NoAssetsOutsideFleet, FleetArks, arkVars, setupVars
<1> QED
  BY <1>1, <1>6, <1>8, <1>9 DEF FInv, BalancesMatchSupply, PauseKept, arkVars

\* Transfers keep the invariant.
LEMMA TransferMoves ==
    ASSUME FInv, TransferStep
    PROVE  FInv' /\ wallet' = wallet /\ arkAssets' = arkAssets /\ PauseKept
<1>0. TypeOK /\ BalancesMatchSupply /\ NoAssetsOutsideFleet
  BY DEF FInv
<1>1. CASE SetFleetTokenTransferability
  <2>1. /\ ~paused /\ transfersEnabled' = TRUE
        /\ UNCHANGED <<setupVars, pauseVars, cooldown, lastActionTimestamp>>
        /\ UNCHANGED <<shares, totalShares, wallet, arkVars, tipRate,
                       lastTipTimestamp, clockVars>>
    BY <1>1 DEF SetFleetTokenTransferability, FundsUnchanged
  <2>2. TypeOK'
    BY <1>0, <2>1 DEF TypeOK, arkVars, setupVars, pauseVars, clockVars
  <2>3. NoAssetsOutsideFleet' /\ BalancesMatchSupply'
    BY <1>0, <2>1 DEF NoAssetsOutsideFleet, BalancesMatchSupply, FleetArks, arkVars, setupVars
  <2> QED
    BY <2>1, <2>2, <2>3 DEF FInv, PauseKept, arkVars
<1>2. CASE \E spender, from, to \in Accounts, s \in ShareAmounts : Transfer(spender, from, to, s)
  <2>1. PICK spender \in Accounts, from \in Accounts, to \in Accounts, s \in ShareAmounts :
            Transfer(spender, from, to, s)
    BY <1>2
  <2> DEFINE mid == [shares EXCEPT ![from] = @ - s]
  <2>2. /\ shares[from] >= s /\ shares' = [mid EXCEPT ![to] = @ + s]
        /\ UNCHANGED <<totalShares, wallet, arkVars, setupVars, tipRate,
                       lastTipTimestamp, pauseVars, cooldown, lastActionTimestamp,
                       transfersEnabled, clockVars>>
    BY <2>1 DEF Transfer
  <2>3. s \in Nat /\ shares \in [Accounts -> Nat] /\ totalShares \in Nat
    BY <1>0, ArgumentAssumption DEF TypeOK
  <2>4. /\ mid \in [Accounts -> Nat] /\ mid[from] = shares[from] - s
        /\ \A a \in Accounts : a # from => mid[a] = shares[a]
    BY <2>2, <2>3
  <2> HIDE DEF mid
  <2>5. /\ shares' \in [Accounts -> Nat] /\ shares'[to] = mid[to] + s
        /\ \A a \in Accounts : a # to => shares'[a] = mid[a]
    BY <2>2, <2>3, <2>4
  <2>6. /\ IsFiniteSet(Accounts)
        /\ \A a \in Accounts : shares[a] \in Int /\ mid[a] \in Int /\ shares'[a] \in Int
    BY <1>0, <2>3, <2>4, <2>5, Finite DEF TypeOK
  <2>7. SumOver(mid, Accounts) = SumOver(shares, Accounts) + (mid[from] - shares[from])
    BY <2>4, <2>6, SumChange
  <2>8. SumOver(shares', Accounts) = SumOver(mid, Accounts) + (shares'[to] - mid[to])
    BY <2>5, <2>6, SumChange
  <2>9. SumOver(shares', Accounts) = totalShares
    BY <1>0, <2>3, <2>4, <2>5, <2>6, <2>7, <2>8 DEF BalancesMatchSupply
  <2>10. TypeOK'
    BY <1>0, <2>2, <2>5 DEF TypeOK, arkVars, setupVars, pauseVars, clockVars
  <2>11. NoAssetsOutsideFleet' /\ BalancesMatchSupply'
    BY <1>0, <2>2, <2>9 DEF NoAssetsOutsideFleet, BalancesMatchSupply, FleetArks, arkVars, setupVars
  <2> QED
    BY <2>2, <2>10, <2>11 DEF FInv, PauseKept, arkVars, setupVars, pauseVars
<1> QED
  BY <1>1, <1>2 DEF TransferStep

\* A setting of one ark that leaves its other parameters alone is typed.
LEMMA ArkSetting ==
    ASSUME FInv, NEW a \in Arks, NEW newConfig \in ArkConfigs, SetArkConfig(a, newConfig)
    PROVE  FInv' /\ wallet' = wallet /\ arkAssets' = arkAssets /\ PauseKept
<1>0. TypeOK /\ BalancesMatchSupply /\ NoAssetsOutsideFleet
  BY DEF FInv
<1>1. /\ ~paused /\ arkConfig' = [arkConfig EXCEPT ![a] = newConfig]
      /\ UNCHANGED <<activeArks, commanderRole, config>>
      /\ UNCHANGED <<shares, totalShares, wallet, arkVars, tipRate,
                     lastTipTimestamp, clockVars>>
      /\ UNCHANGED <<pauseVars, cooldown, lastActionTimestamp, transfersEnabled>>
  BY DEF SetArkConfig, FundsUnchanged, RestUnchanged
<1>2. arkConfig' \in [Arks -> ArkConfigs]
  BY <1>0, <1>1 DEF TypeOK
<1>3. TypeOK'
  BY <1>0, <1>1, <1>2 DEF TypeOK, arkVars, pauseVars, clockVars
<1>4. NoAssetsOutsideFleet' /\ BalancesMatchSupply'
  BY <1>0, <1>1 DEF NoAssetsOutsideFleet, BalancesMatchSupply, FleetArks, arkVars
<1> QED
  BY <1>1, <1>3, <1>4 DEF FInv, PauseKept, arkVars

\* A setting of the fleet.
LEMMA FleetSetting ==
    ASSUME FInv, NEW newConfig \in FleetConfigs, SetConfig(newConfig)
    PROVE  FInv' /\ wallet' = wallet /\ arkAssets' = arkAssets /\ PauseKept
<1>0. TypeOK /\ BalancesMatchSupply /\ NoAssetsOutsideFleet
  BY DEF FInv
<1>1. /\ ~paused /\ config' = newConfig
      /\ UNCHANGED <<activeArks, commanderRole, arkConfig>>
      /\ UNCHANGED <<shares, totalShares, wallet, arkVars, tipRate,
                     lastTipTimestamp, clockVars>>
      /\ UNCHANGED <<pauseVars, cooldown, lastActionTimestamp, transfersEnabled>>
  BY DEF SetConfig, FundsUnchanged, RestUnchanged
<1>2. TypeOK'
  BY <1>0, <1>1 DEF TypeOK, arkVars, pauseVars, clockVars
<1>3. NoAssetsOutsideFleet' /\ BalancesMatchSupply'
  BY <1>0, <1>1 DEF NoAssetsOutsideFleet, BalancesMatchSupply, FleetArks, arkVars
<1> QED
  BY <1>1, <1>2, <1>3 DEF FInv, PauseKept, arkVars

\* An ark that joins or leaves the fleet takes no assets with it.
LEMMA ArkSetMoves ==
    ASSUME FInv, NEW a \in Arks, GrantCommanderRole(a) \/ AddArk(a) \/ RemoveArk(a)
    PROVE  FInv' /\ wallet' = wallet /\ arkAssets' = arkAssets /\ PauseKept
<1>0. TypeOK /\ BalancesMatchSupply /\ NoAssetsOutsideFleet
  BY DEF FInv
<1>1. /\ UNCHANGED <<arkConfig, config>>
      /\ UNCHANGED <<shares, totalShares, wallet, arkVars, tipRate,
                     lastTipTimestamp, clockVars>>
      /\ UNCHANGED <<pauseVars, cooldown, lastActionTimestamp, transfersEnabled>>
  BY DEF GrantCommanderRole, AddArk, RemoveArk, FundsUnchanged, RestUnchanged
<1>2. activeArks \subseteq commanderRole /\ commanderRole \subseteq Arks
  BY <1>0 DEF TypeOK
<1>3. /\ activeArks' \subseteq commanderRole' /\ commanderRole' \subseteq Arks
      /\ paused => activeArks' = activeArks
      /\ \A b \in AllArks \ (activeArks' \cup {Buffer}) :
             b \notin FleetArks \/ arkAssets[b] = 0
  <2>1. CASE GrantCommanderRole(a)
    BY <1>2, <2>1 DEF GrantCommanderRole, FleetArks
  <2>2. CASE AddArk(a)
    BY <1>2, <2>2 DEF AddArk, FleetArks
  <2>3. CASE RemoveArk(a)
    <3>1. /\ ~paused /\ arkAssets[a] = 0 /\ activeArks' = activeArks \ {a}
          /\ commanderRole' = commanderRole \ {a}
      BY <2>3 DEF RemoveArk, ArkRemovable
    <3> QED
      BY <1>2, <3>1 DEF FleetArks
  <2> QED
    BY <2>1, <2>2, <2>3
<1>4. TypeOK'
  BY <1>0, <1>1, <1>3 DEF TypeOK, arkVars, pauseVars, clockVars
<1>5. NoAssetsOutsideFleet'
  BY <1>0, <1>1, <1>3 DEF NoAssetsOutsideFleet, FleetArks, arkVars
<1>6. BalancesMatchSupply'
  BY <1>0, <1>1 DEF BalancesMatchSupply
<1> QED
  BY <1>1, <1>3, <1>4, <1>5, <1>6 DEF FInv, PauseKept, arkVars, pauseVars

\* The configuration keeps the invariant.
LEMMA ConfigMoves ==
    ASSUME FInv, ConfigStep
    PROVE  FInv' /\ wallet' = wallet /\ arkAssets' = arkAssets /\ PauseKept
<1>0. TypeOK /\ BalancesMatchSupply /\ NoAssetsOutsideFleet
  BY DEF FInv
<1>1. CASE \E a \in Arks : GrantCommanderRole(a) \/ AddArk(a) \/ RemoveArk(a)
  BY <1>1, ArkSetMoves
<1>2. CASE \E a \in Arks : \E x \in ArkCaps : SetArkDepositCap(a, x)
  <2>1. PICK a \in Arks, x \in ArkCaps : SetArkDepositCap(a, x)
    BY <1>2
  <2>2. [arkConfig[a] EXCEPT !.depositCap = x] \in ArkConfigs
    BY <1>0, ArgumentAssumption DEF TypeOK, ArkConfigs
  <2> QED
    BY <2>1, <2>2, ArkSetting DEF SetArkDepositCap
<1>3. CASE \E a \in Arks : \E p \in Percentages : SetArkMaxDepositPercentageOfTVL(a, p)
  <2>1. PICK a \in Arks, p \in Percentages : SetArkMaxDepositPercentageOfTVL(a, p)
    BY <1>3
  <2>2. p \in 0..Hundred
    BY <2>1, ArgumentAssumption, NumberAssumption DEF SetArkMaxDepositPercentageOfTVL
  <2>3. [arkConfig[a] EXCEPT !.maxPercentage = p] \in ArkConfigs
    BY <1>0, <2>2 DEF TypeOK, ArkConfigs
  <2> QED
    BY <2>1, <2>3, ArkSetting DEF SetArkMaxDepositPercentageOfTVL
<1>4. CASE \E a \in Arks : \E x \in FlowLimits : SetArkMaxRebalanceInflow(a, x)
  <2>1. PICK a \in Arks, x \in FlowLimits : SetArkMaxRebalanceInflow(a, x)
    BY <1>4
  <2>2. [arkConfig[a] EXCEPT !.maxInflow = x] \in ArkConfigs
    BY <1>0, ArgumentAssumption DEF TypeOK, ArkConfigs
  <2> QED
    BY <2>1, <2>2, ArkSetting DEF SetArkMaxRebalanceInflow
<1>5. CASE \E a \in Arks : \E x \in FlowLimits : SetArkMaxRebalanceOutflow(a, x)
  <2>1. PICK a \in Arks, x \in FlowLimits : SetArkMaxRebalanceOutflow(a, x)
    BY <1>5
  <2>2. [arkConfig[a] EXCEPT !.maxOutflow = x] \in ArkConfigs
    BY <1>0, ArgumentAssumption DEF TypeOK, ArkConfigs
  <2> QED
    BY <2>1, <2>2, ArkSetting DEF SetArkMaxRebalanceOutflow
<1>6. CASE \E x \in DepositCaps : SetFleetDepositCap(x)
  <2>1. PICK x \in DepositCaps : SetFleetDepositCap(x)
    BY <1>6
  <2>2. [config EXCEPT !.depositCap = x] \in FleetConfigs
    BY <1>0, ArgumentAssumption DEF TypeOK, FleetConfigs
  <2> QED
    BY <2>1, <2>2, FleetSetting DEF SetFleetDepositCap
<1>7. CASE \E x \in BufferMinimums : SetMinimumBufferBalance(x)
  <2>1. PICK x \in BufferMinimums : SetMinimumBufferBalance(x)
    BY <1>7
  <2>2. [config EXCEPT !.minimumBufferBalance = x] \in FleetConfigs
    BY <1>0, ArgumentAssumption DEF TypeOK, FleetConfigs
  <2> QED
    BY <2>1, <2>2, FleetSetting DEF SetMinimumBufferBalance
<1>8. CASE \E n \in OperationLimits : SetMaxRebalanceOperations(n)
  <2>1. PICK n \in OperationLimits : SetMaxRebalanceOperations(n)
    BY <1>8
  <2>2. [config EXCEPT !.maxRebalanceOperations = n] \in FleetConfigs
    BY <1>0, ArgumentAssumption DEF TypeOK, FleetConfigs
  <2> QED
    BY <2>1, <2>2, FleetSetting DEF SetMaxRebalanceOperations
<1>9. CASE \E c \in Cooldowns : UpdateRebalanceCooldown(c)
  <2>1. PICK c \in Cooldowns : UpdateRebalanceCooldown(c)
    BY <1>9
  <2>2. /\ ~paused /\ cooldown' \in MinCooldown..MaxCooldown
        /\ UNCHANGED <<setupVars, pauseVars, lastActionTimestamp, transfersEnabled>>
        /\ UNCHANGED <<shares, totalShares, wallet, arkVars, tipRate,
                       lastTipTimestamp, clockVars>>
    BY <2>1 DEF UpdateRebalanceCooldown, FundsUnchanged
  <2>3. TypeOK'
    BY <1>0, <2>2 DEF TypeOK, arkVars, setupVars, pauseVars, clockVars
  <2>4. NoAssetsOutsideFleet' /\ BalancesMatchSupply'
    BY <1>0, <2>2 DEF NoAssetsOutsideFleet, BalancesMatchSupply, FleetArks, arkVars, setupVars
  <2> QED
    BY <2>2, <2>3, <2>4 DEF FInv, PauseKept, arkVars
<1> QED
  BY <1>1, <1>2, <1>3, <1>4, <1>5, <1>6, <1>7, <1>8, <1>9 DEF ConfigStep

\* Pausing and unpausing keep the invariant, and the minimum time of a pause.
LEMMA PauseMoves ==
    ASSUME FInv, PauseStep
    PROVE  FInv' /\ wallet' = wallet /\ arkAssets' = arkAssets /\ PauseKept
<1>0. TypeOK /\ BalancesMatchSupply /\ NoAssetsOutsideFleet
  BY DEF FInv
<1>1. /\ UNCHANGED <<setupVars, cooldown, lastActionTimestamp, transfersEnabled>>
      /\ UNCHANGED <<shares, totalShares, wallet, arkVars, tipRate,
                     lastTipTimestamp, clockVars>>
  BY DEF PauseStep, SetMinimumPauseTime, Pause, Unpause, FundsUnchanged
<1>2. /\ paused' \in BOOLEAN /\ pauseStartTime' \in {now, pauseStartTime}
      /\ minimumPauseTime' \in Nat
      /\ paused => /\ minimumPauseTime' = minimumPauseTime
                   /\ now >= pauseStartTime + minimumPauseTime
  <2>1. CASE \E t \in PauseTimes : SetMinimumPauseTime(t)
    BY <1>0, <2>1, ArgumentAssumption DEF SetMinimumPauseTime, TypeOK
  <2>2. CASE Pause
    BY <1>0, <2>2 DEF Pause, TypeOK
  <2>3. CASE Unpause
    BY <1>0, <2>3 DEF Unpause, PauseElapsed, TypeOK
  <2> QED
    BY <2>1, <2>2, <2>3 DEF PauseStep
<1>3. now \in Nat /\ pauseStartTime \in 0..now /\ minimumPauseTime \in Nat
  BY <1>0, NumberAssumption DEF TypeOK
<1>4. TypeOK'
  BY <1>0, <1>1, <1>2, <1>3 DEF TypeOK, arkVars, setupVars, clockVars
<1>5. NoAssetsOutsideFleet' /\ BalancesMatchSupply'
  BY <1>0, <1>1 DEF NoAssetsOutsideFleet, BalancesMatchSupply, FleetArks, arkVars, setupVars
<1>6. PauseKept
  <2>1. paused => now - pauseStartTime >= minimumPauseTime
    BY <1>2, <1>3
  <2> QED
    BY <1>1, <1>2, <2>1 DEF PauseKept, setupVars
<1> QED
  BY <1>1, <1>4, <1>5, <1>6 DEF FInv, arkVars

\* Time and the markets keep the invariant; an ark that earns or loses is one
\* of the fleet's, so the total moves with it.
LEMMA EnvironmentMoves ==
    ASSUME FInv, EnvironmentStep
    PROVE  /\ FInv' /\ wallet' = wallet /\ PauseKept
           /\ arkAssets' # arkAssets => TotalAssets' # TotalAssets
<1>0. TypeOK /\ BalancesMatchSupply /\ NoAssetsOutsideFleet
  BY DEF FInv
<1>1. ASSUME Tick \/ \E a \in Arks : ArkLiquidityMoves(a)
      PROVE  FInv' /\ wallet' = wallet /\ PauseKept /\ arkAssets' = arkAssets
  <2>1. /\ UNCHANGED <<shares, totalShares, wallet, arkAssets, setupVars, tipRate,
                       lastTipTimestamp, pauseVars, cooldown, lastActionTimestamp,
                       transfersEnabled, valueMoves>>
        /\ illiquid' \subseteq Arks /\ now' \in now..MaxTime
    <3>1. CASE Tick
      BY <1>0, <3>1, NumberAssumption DEF Tick, TypeOK, arkVars
    <3>2. CASE \E a \in Arks : ArkLiquidityMoves(a)
      BY <1>0, <3>2, NumberAssumption DEF ArkLiquidityMoves, TypeOK, clockVars
    <3> QED
      BY <1>1, <3>1, <3>2
  <2>2. TypeOK'
    <3>1. /\ lastTipTimestamp' \in StartTime..now' /\ now' \in StartTime..MaxTime
          /\ pauseStartTime' \in 0..now' /\ lastActionTimestamp' \in 0..now'
      BY <1>0, <2>1, NumberAssumption DEF TypeOK, pauseVars
    <3> QED
      BY <1>0, <2>1, <3>1 DEF TypeOK, setupVars, pauseVars
  <2>3. NoAssetsOutsideFleet' /\ BalancesMatchSupply'
    BY <1>0, <2>1 DEF NoAssetsOutsideFleet, BalancesMatchSupply, FleetArks, setupVars
  <2> QED
    BY <2>1, <2>2, <2>3 DEF FInv, PauseKept, setupVars, pauseVars
<1>2. ASSUME NEW a \in Arks, NEW new \in Nat, ArkValueMoves(a, new)
      PROVE  /\ FInv' /\ wallet' = wallet /\ PauseKept
             /\ arkAssets' # arkAssets => TotalAssets' # TotalAssets
  <2>1. /\ arkAssets[a] > 0 /\ arkAssets' = [arkAssets EXCEPT ![a] = new]
        /\ valueMoves < MaxValueMoves /\ valueMoves' = valueMoves + 1
        /\ UNCHANGED <<shares, totalShares, wallet, illiquid, setupVars, tipRate,
                       lastTipTimestamp, pauseVars, cooldown, lastActionTimestamp,
                       transfersEnabled, now>>
    BY <1>2 DEF ArkValueMoves
  <2>2. /\ a \in AllArks /\ arkAssets \in [AllArks -> Nat] /\ valueMoves \in 0..MaxValueMoves
        /\ IsFiniteSet(FleetArks) /\ FleetArks \subseteq AllArks
    BY <1>0, Finite DEF TypeOK, AllArks
  <2>3. a \in FleetArks
    BY <1>0, <2>1, <2>2 DEF NoAssetsOutsideFleet
  <2>4. /\ arkAssets' \in [AllArks -> Nat] /\ arkAssets'[a] = new
        /\ \A b \in AllArks : b # a => arkAssets'[b] = arkAssets[b]
    BY <2>1, <2>2
  <2>5. valueMoves' \in 0..MaxValueMoves
    BY <2>1, <2>2, NumberAssumption
  <2>6. TypeOK'
    BY <1>0, <2>1, <2>4, <2>5 DEF TypeOK, setupVars, pauseVars
  <2>7. NoAssetsOutsideFleet'
    <3>1. FleetArks' = FleetArks
      BY <2>1 DEF FleetArks, setupVars
    <3> QED
      BY <1>0, <2>3, <2>4, <3>1 DEF NoAssetsOutsideFleet
  <2>8. BalancesMatchSupply'
    BY <1>0, <2>1 DEF BalancesMatchSupply
  <2>9. ASSUME TotalAssets' = TotalAssets PROVE arkAssets' = arkAssets
    <3>1. /\ TotalAssets = SumOver(arkAssets, FleetArks)
          /\ TotalAssets' = SumOver(arkAssets', FleetArks)
      BY <2>1 DEF TotalAssets, FleetArks, setupVars
    <3>2. /\ \A b \in FleetArks : arkAssets[b] \in Int
          /\ arkAssets'[a] \in Int /\ arkAssets[a] \in Nat
          /\ \A b \in FleetArks : b # a => arkAssets'[b] = arkAssets[b]
      BY <2>2, <2>4
    <3>3. /\ SumOver(arkAssets', FleetArks)
                 = SumOver(arkAssets, FleetArks) + (arkAssets'[a] - arkAssets[a])
          /\ SumOver(arkAssets, FleetArks) \in Int
      <4>1. SumOver(arkAssets, FleetArks) \in Int
        BY <2>2, <3>2, SumInt
      <4>2. SumOver(arkAssets', FleetArks)
                 = SumOver(arkAssets, FleetArks) + (arkAssets'[a] - arkAssets[a])
        BY <2>2, <2>3, <3>2, SumChange
      <4> QED
        BY <4>1, <4>2
    <3>4. arkAssets'[a] = arkAssets[a]
      BY <2>9, <3>1, <3>2, <3>3
    <3> QED
      BY <2>2, <2>4, <3>4
  <2> QED
    BY <2>1, <2>6, <2>7, <2>8, <2>9 DEF FInv, PauseKept, setupVars, pauseVars
<1>3. CASE \E a \in Arks : \E g \in Gains : ArkGains(a, g)
  <2>1. PICK a \in Arks, g \in Gains : ArkGains(a, g)
    BY <1>3
  <2>2. arkAssets[a] + g \in Nat
    BY <1>0, ArgumentAssumption DEF TypeOK, AllArks
  <2> QED
    BY <1>2, <2>1, <2>2 DEF ArkGains
<1>4. CASE \E a \in Arks : \E l \in Losses : ArkLoses(a, l)
  <2>1. PICK a \in Arks, l \in Losses : ArkLoses(a, l)
    BY <1>4
  <2>2. arkAssets[a] - l \in Nat
    BY <1>0, <2>1, ArgumentAssumption DEF TypeOK, AllArks, ArkLoses
  <2> QED
    BY <1>2, <2>1, <2>2 DEF ArkLoses
<1> QED
  BY <1>1, <1>3, <1>4 DEF EnvironmentStep

---------------------------------------------------------------------------
(* The theorems *)

\* Shares that are paid for at the price, and assets paid at it, leave it.
LEMMA Price ==
    ASSUME NEW a \in Nat, NEW s \in Nat, NEW x \in Nat, NEW y \in Nat
    PROVE  /\ a * y <= x * s => (a + x) * s >= a * (s + y)
           /\ x * s <= a * y => (a - x) * s >= a * (s - y)
<1>1. /\ a * s \in Int /\ x * s \in Int /\ a * y \in Int
      /\ (a + x) * s = a * s + x * s /\ a * (s + y) = a * s + a * y
      /\ (a - x) * s = a * s - x * s /\ a * (s - y) = a * s - a * y
  OBVIOUS
<1> QED
  BY <1>1

\* What any step does: the invariant is kept, funds move only by deposits and
\* withdrawals, at the price of the shares, and only rebalances move assets
\* between the arks, within their limits.
StepHolds ==
    /\ FInv'
    /\ wallet' # wallet =>
          /\ (TotalAssets' + 1) * (TippedSupply + 1) >= (TotalAssets + 1) * (totalShares' + 1)
          /\ SumOver(wallet', Accounts) + TotalAssets' = SumOver(wallet, Accounts) + TotalAssets
          /\ TotalAssets' > TotalAssets => TotalAssets' <= config.depositCap
    /\ RebalanceMoves => ~paused /\ ArkLimits
    /\ PauseKept

\* Every step of the fleet does.
LEMMA EveryStep ==
    ASSUME FInv, [Next]_vars
    PROVE  StepHolds
<1>0. TypeOK /\ BalancesMatchSupply
  BY DEF FInv
<1>1. TotalAssets \in Nat /\ TippedSupply \in Nat /\ SumOver(wallet, Accounts) \in Int
  <2>1. IsFiniteSet(Accounts) /\ \A a \in Accounts : wallet[a] \in Int
    BY <1>0, Finite DEF TypeOK
  <2>2. SumOver(wallet, Accounts) \in Int
    BY <2>1, SumInt
  <2> QED
    BY <1>0, <2>2, Totals, Tipped
<1> DEFINE quiet == FInv' /\ wallet' = wallet /\ arkAssets' = arkAssets /\ PauseKept
<1>2. ASSUME quiet PROVE StepHolds
  BY <1>2 DEF StepHolds, RebalanceMoves
<1>3. CASE DepositStep
  <2>1. FInv' /\ ~paused
    BY <1>3, DepositMoves
  <2>2. PICK assets \in Nat, n \in Nat :
                 /\ TotalAssets' = TotalAssets + assets /\ totalShares' = TippedSupply + n
                 /\ (TotalAssets + 1) * n <= assets * (TippedSupply + 1)
                 /\ SumOver(wallet', Accounts) = SumOver(wallet, Accounts) - assets
                 /\ TotalAssets' <= config.depositCap
                 /\ assets = 0 => arkAssets' = arkAssets
    BY <1>3, DepositMoves
  <2>3. ~RebalanceMoves
    BY <1>1, <2>2 DEF RebalanceMoves
  <2>4. SumOver(wallet', Accounts) + TotalAssets' = SumOver(wallet, Accounts) + TotalAssets
    BY <1>1, <2>2
  <2> DEFINE a == TotalAssets + 1
             s == TippedSupply + 1
  <2>5. /\ a \in Nat /\ s \in Nat /\ TotalAssets' + 1 = a + assets /\ totalShares' + 1 = s + n
        /\ a * n <= assets * s
    BY <1>1, <2>2
  <2> HIDE DEF a, s
  <2>6. (TotalAssets' + 1) * s >= a * (totalShares' + 1)
    BY <2>5, Price
  <2> QED
    BY <2>1, <2>2, <2>3, <2>4, <2>6 DEF StepHolds, PauseKept, a, s
<1>4. CASE WithdrawStep
  <2>1. FInv' /\ ~paused
    BY <1>4, WithdrawMoves
  <2>2. PICK assets \in Nat, burnt \in Nat :
                 /\ TotalAssets' = TotalAssets - assets /\ totalShares' = TippedSupply - burnt
                 /\ assets * (TippedSupply + 1) <= (TotalAssets + 1) * burnt
                 /\ SumOver(wallet', Accounts) = SumOver(wallet, Accounts) + assets
                 /\ assets = 0 => arkAssets' = arkAssets
    BY <1>4, WithdrawMoves
  <2>3. ~RebalanceMoves
    BY <1>1, <2>2 DEF RebalanceMoves
  <2>4. SumOver(wallet', Accounts) + TotalAssets' = SumOver(wallet, Accounts) + TotalAssets
        /\ ~(TotalAssets' > TotalAssets)
    BY <1>1, <2>2
  <2> DEFINE a == TotalAssets + 1
             s == TippedSupply + 1
  <2>5. /\ a \in Nat /\ s \in Nat
        /\ TotalAssets' + 1 = a - assets /\ totalShares' + 1 = s - burnt
        /\ assets * s <= a * burnt
    BY <1>1, <2>2
  <2> HIDE DEF a, s
  <2>6. (TotalAssets' + 1) * s >= a * (totalShares' + 1)
    BY <2>5, Price
  <2> QED
    BY <2>1, <2>3, <2>4, <2>6 DEF StepHolds, PauseKept, a, s
<1>5. CASE RebalanceStep
  BY <1>5, RebalanceMovesWithin DEF StepHolds, PauseKept
<1>6. CASE TransferStep
  BY <1>2, <1>6, TransferMoves
<1>7. CASE ConfigStep
  BY <1>2, <1>7, ConfigMoves
<1>8. CASE PauseStep
  BY <1>2, <1>8, PauseMoves
<1>9. CASE TipStep
  BY <1>2, <1>9, TipMoves
<1>10. CASE EnvironmentStep
  BY <1>10, EnvironmentMoves DEF StepHolds, RebalanceMoves
<1>11. CASE UNCHANGED vars
  <2>1. FInv'
    BY <1>11 DEF FInv, TypeOK, BalancesMatchSupply, NoAssetsOutsideFleet, FleetArks, vars
  <2> QED
    BY <1>2, <1>11, <2>1 DEF PauseKept, vars
<1> QED
  BY <1>3, <1>4, <1>5, <1>6, <1>7, <1>8, <1>9, <1>10, <1>11 DEF Next

\* The invariant holds at the start: nothing is issued and the arks are empty.
LEMMA FInvInit ==
    ASSUME Init
    PROVE  FInv
<1>1. IsFiniteSet(Accounts)
  BY AccountAssumption, Finite DEF Init
<1>2. TypeOK
  <2>1. /\ shares \in [Accounts -> Nat] /\ totalShares \in Nat /\ wallet \in [Accounts -> Nat]
        /\ arkAssets \in [AllArks -> Nat]
    BY NumberAssumption DEF Init
  <2>2. /\ illiquid \subseteq Arks /\ activeArks \subseteq commanderRole
        /\ commanderRole \subseteq Arks
        /\ arkConfig \in [Arks -> ArkConfigs] /\ config \in FleetConfigs
    BY AccountAssumption, ConfigAssumption DEF Init
  <2>3. /\ tipRate \in 0..MaxTipRate /\ now \in StartTime..MaxTime
        /\ lastTipTimestamp \in StartTime..now
        /\ pauseStartTime \in 0..now /\ minimumPauseTime \in Nat
        /\ cooldown \in MinCooldown..MaxCooldown /\ lastActionTimestamp \in 0..now
        /\ valueMoves \in 0..MaxValueMoves
    BY NumberAssumption DEF Init
  <2>4. paused \in BOOLEAN /\ transfersEnabled \in BOOLEAN
    BY DEF Init
  <2> QED
    BY <2>1, <2>2, <2>3, <2>4 DEF TypeOK
<1>3. BalancesMatchSupply
  <2> DEFINE none == [a \in Accounts |-> 0]
  <2>1. \A a \in Accounts : none[a] = 0
    OBVIOUS
  <2>2. shares = none /\ totalShares = 0
    BY DEF Init
  <2> HIDE DEF none
  <2>3. SumOver(none, Accounts) = SumOver(none, {})
    BY <1>1, <2>1, SumWithin
  <2> QED
    BY <2>2, <2>3, SumEmpty DEF BalancesMatchSupply
<1>4. NoAssetsOutsideFleet
  BY DEF Init, NoAssetsOutsideFleet
<1> QED
  BY <1>2, <1>3, <1>4 DEF FInv

\* The inductive invariant: the types, the two ledgers together, and nothing
\* outside the fleet.
THEOREM FleetHolds == Spec => []FInv
<1>1. FInv /\ [Next]_vars => FInv'
  BY EveryStep DEF StepHolds
<1> QED
  BY <1>1, FInvInit, PTL DEF Spec

\* Every balance, supply, cap and clock of the fleet stays in its range: no
\* withdrawal, rebalance, loss or tip overdraws an ark, an account or the supply.
THEOREM FleetTyped == Spec => []TypeOK
<1>1. FInv => TypeOK
  BY DEF FInv
<1> QED
  BY <1>1, FleetHolds, PTL

\* The shares of all accounts add up to the supply, whatever is minted, burnt,
\* tipped and transferred.
THEOREM SharesAddUp == Spec => []BalancesMatchSupply
<1>1. FInv => BalancesMatchSupply
  BY DEF FInv
<1> QED
  BY <1>1, FleetHolds, PTL

\* An ark that is not part of the fleet holds nothing of it.
THEOREM FleetHoldsAll == Spec => []NoAssetsOutsideFleet
<1>1. FInv => NoAssetsOutsideFleet
  BY DEF FInv
<1> QED
  BY <1>1, FleetHolds, PTL

\* What every step of every behaviour does.
LEMMA StepsHold == Spec => [][StepHolds]_vars
<1>1. FInv /\ [Next]_vars => [StepHolds]_vars
  BY EveryStep
<1> QED
  BY <1>1, FleetHolds, PTL DEF Spec

\* No deposit, mint, withdrawal or redemption, by any path and with any
\* rounding and tip, lowers the assets behind a share.
THEOREM PriceProtected == Spec => SharePriceProtected
<1>1. StepHolds => (wallet' # wallet =>
          (TotalAssets' + 1) * (TippedSupply + 1) >= (TotalAssets + 1) * (totalShares' + 1))
  BY DEF StepHolds
<1> QED
  BY <1>1, StepsHold, PTL DEF SharePriceProtected

\* What the accounts pay arrives in the fleet, and what they are paid has left
\* it, to the unit, in whatever order the arks are emptied.
THEOREM AssetsAreConserved == Spec => AssetsConserved
<1>1. StepHolds => (wallet' # wallet =>
          SumOver(wallet', Accounts) + TotalAssets' = SumOver(wallet, Accounts) + TotalAssets)
  BY DEF StepHolds
<1> QED
  BY <1>1, StepsHold, PTL DEF AssetsConserved

\* No deposit or mint takes the fleet above its cap.
THEOREM CapHolds == Spec => DepositCapRespected
<1>1. StepHolds => ((wallet' # wallet /\ TotalAssets' > TotalAssets) =>
          TotalAssets' <= config.depositCap)
  BY DEF StepHolds
<1> QED
  BY <1>1, StepsHold, PTL DEF DepositCapRespected

\* A rebalance of any number of legs, chained or repeated in any order, takes no
\* ark over its inflow or outflow limit or above its effective cap.
THEOREM ArkLimitsHold == Spec => RebalanceRespectsArkLimits
<1>1. StepHolds => (RebalanceMoves => \A a \in Arks :
          /\ arkAssets'[a] > arkAssets[a] =>
                /\ arkConfig[a].depositCap > 0
                /\ arkAssets'[a] - arkAssets[a] <= arkConfig[a].maxInflow
                /\ arkAssets'[a] <= EffectiveArkDepositCap(a, TotalAssets)
          /\ arkAssets[a] - arkAssets'[a] <= arkConfig[a].maxOutflow)
  BY DEF StepHolds, ArkLimits
<1> QED
  BY <1>1, StepsHold, PTL DEF RebalanceRespectsArkLimits

\* A paused fleet moves no funds, mints no shares and keeps its setup, and is
\* not unpaused before its minimum time.
THEOREM PauseIsKept == Spec => PauseHolds
<1>1. StepHolds =>
         (paused => /\ UNCHANGED <<wallet, totalShares, activeArks, arkConfig, config,
                                tipRate, cooldown, minimumPauseTime>>
                    /\ ~RebalanceMoves
                    /\ ~paused' => now - pauseStartTime >= minimumPauseTime)
  BY DEF StepHolds, PauseKept
<1> QED
  BY <1>1, StepsHold, PTL DEF PauseHolds

---------------------------------------------------------------------------
(* Leaving *)

\* Arks that can pay the same may be ordered in some way.
LEMMA SomeRanking ==
    ASSUME TypeOK
    PROVE  Rankings # {}
<1> DEFINE n == Cardinality(AllArks)
<1>1. IsFiniteSet(AllArks)
  BY Finite DEF TypeOK
<1>2. n \in Nat /\ ExistsBijection(1..n, AllArks)
  BY <1>1, FS_CardinalityType
<1>3. PICK f : f \in Bijection(1..n, AllArks)
  BY <1>2 DEF ExistsBijection
<1>4. f \in [1..n -> AllArks] /\ \A a \in AllArks : \E i \in 1..n : f[i] = a
  BY <1>3 DEF Bijection, Injection, Surjection
<1> DEFINE place(a) == CHOOSE i \in 1..n : f[i] = a
           r == [a \in AllArks |-> place(a)]
<1>5. ASSUME NEW a \in AllArks PROVE place(a) \in 1..n /\ f[place(a)] = a
  BY <1>4
<1> HIDE DEF place
<1>6. r \in [AllArks -> 1..n]
  BY <1>5
<1>7. \A a, b \in AllArks : r[a] = r[b] => a = b
  BY <1>5
<1> QED
  BY <1>6, <1>7 DEF Rankings

\* A part of what some shares are worth costs no more than those shares.
LEMMA NoShortfall ==
    ASSUME NEW part \in Nat, NEW assets \in Nat, NEW supply \in Nat, NEW n \in Nat,
           part <= AssetsDown(n, assets, supply)
    PROVE  SharesUp(part, assets, supply) <= n
<1> DEFINE a1 == assets + 1
           s1 == supply + 1
           worth == AssetsDown(n, assets, supply)
           up == CeilDiv(part * s1, a1)
<1>1. a1 \in Nat \ {0} /\ s1 \in Nat \ {0}
  OBVIOUS
<1>2. worth \in Nat /\ s1 * worth <= n * a1 /\ part <= worth
  BY Conversion
<1>3. SharesUp(part, assets, supply) = up
  BY DEF SharesUp
<1> HIDE DEF a1, s1, worth
<1>4. part * s1 \in Nat /\ n * a1 \in Nat
  BY <1>1
<1>5. part * s1 <= n * a1
  <2>1. PICK d \in Nat : worth = part + d
    <3>1. worth - part \in Nat /\ worth = part + (worth - part)
      BY <1>2
    <3> QED
      BY <3>1
  <2>2. s1 * worth = part * s1 + s1 * d /\ s1 * d \in Nat
    BY <1>1, <2>1
  <2> QED
    BY <1>2, <1>4, <2>2
<1>6. up \in Nat /\ a1 * up < part * s1 + a1
  BY <1>1, <1>4, Ceiling
<1> HIDE DEF up
<1>7. a1 * (n + 1) = n * a1 + a1 /\ a1 * up \in Nat
  BY <1>1, <1>6
<1>8. a1 * up < a1 * (n + 1)
  BY <1>1, <1>4, <1>5, <1>6, <1>7
<1>9. up < n + 1
  BY <1>1, <1>6, <1>8, Cancel
<1> QED
  BY <1>3, <1>6, <1>9

\* Assets cost shares.
LEMMA NothingIsFree ==
    ASSUME NEW part \in Nat \ {0}, NEW assets \in Nat, NEW supply \in Nat
    PROVE  SharesUp(part, assets, supply) \in Nat \ {0}
<1> DEFINE up == SharesUp(part, assets, supply)
           cost == part * (supply + 1)
<1>1. up \in Nat /\ cost <= (assets + 1) * up
  BY Conversion
<1>2. cost \in Nat /\ cost > 0
  OBVIOUS
<1> HIDE DEF up, cost
<1>3. up = 0 => (assets + 1) * up = 0
  OBVIOUS
<1> QED
  BY <1>1, <1>2, <1>3 DEF up

\* No position is worth more than the fleet holds.
LEMMA WorthWithinFleet ==
    ASSUME TypeOK, BalancesMatchSupply, NEW u \in Accounts
    PROVE  RedeemValue(u) \in Nat /\ RedeemValue(u) <= TotalAssets
<1> DEFINE a1 == TotalAssets + 1
           s1 == TippedSupply + 1
           n == TippedShares[u]
           worth == RedeemValue(u)
<1>1. TotalAssets \in Nat /\ TippedSupply \in Nat /\ IsFiniteSet(Accounts)
      /\ (\A x \in Accounts : TippedShares[x] \in Nat)
      /\ SumOver(TippedShares, Accounts) = TippedSupply
  BY Totals, Tipped, Finite DEF TypeOK
<1>2. n \in Nat /\ n <= TippedSupply
  BY <1>1, SumNat
<1>3. worth \in Nat /\ s1 * worth <= n * a1
  BY <1>1, <1>2, Conversion DEF RedeemValue
<1>4. a1 \in Nat \ {0} /\ s1 \in Nat \ {0} /\ n + 1 <= s1 /\ a1 = TotalAssets + 1
  BY <1>1, <1>2
<1> HIDE DEF a1, s1, n, worth
<1>5. PICK d \in Nat : s1 = n + 1 + d
  <2>1. s1 - (n + 1) \in Nat /\ s1 = n + 1 + (s1 - (n + 1))
    BY <1>2, <1>4
  <2> QED
    BY <2>1
<1>6. s1 * a1 = n * a1 + a1 + d * a1 /\ d * a1 \in Nat /\ n * a1 \in Nat
  BY <1>2, <1>4, <1>5
<1>7. s1 * worth \in Nat /\ s1 * a1 \in Nat /\ s1 * worth < s1 * a1
  BY <1>2, <1>3, <1>4, <1>6
<1>8. worth < a1
  BY <1>3, <1>4, <1>7, Cancel
<1> QED
  BY <1>1, <1>3, <1>4, <1>8 DEF worth

\* The state after the owner has taken the assets: every variable has its value.
Exits(owner, receiver, assets, rank) ==
    LET burnt == SharesUp(assets, TotalAssets, TippedSupply) IN
    /\ shares' = [TippedShares EXCEPT ![owner] = @ - burnt]
    /\ totalShares' = TippedSupply - burnt
    /\ wallet' = [wallet EXCEPT ![receiver] = @ + assets]
    /\ lastTipTimestamp' = IF tipRate = 0 \/ Tip > 0 THEN now ELSE lastTipTimestamp
    /\ arkAssets' = IF assets <= arkAssets[Buffer]
                    THEN [arkAssets EXCEPT ![Buffer] = @ - assets]
                    ELSE [a \in AllArks |->
                             IF a \in FleetArks
                             THEN arkAssets[a] - DrainedFrom(a, assets, rank)
                             ELSE arkAssets[a]]
    /\ lastActionTimestamp' = IF assets <= arkAssets[Buffer] THEN lastActionTimestamp ELSE 0
    /\ UNCHANGED <<illiquid, setupVars, tipRate, pauseVars, cooldown,
                   transfersEnabled, clockVars>>

\* maxWithdraw is a promise: in every reachable state of an unpaused fleet a
\* withdrawal of any amount up to it succeeds, for whoever owns the shares and
\* whatever the roundings, and Exits is the state it leads to.
THEOREM MaxWithdrawIsHonoured ==
    ASSUME FInv, ~paused, NEW owner \in Accounts, NEW receiver \in Accounts,
           NEW amount \in Nat \cup {MaxUint}, NEW assets \in Nat \ {0},
           assets = IF amount = MaxUint THEN RedeemValue(owner) ELSE amount,
           assets <= MaxWithdraw(owner)
    PROVE  /\ Rankings # {}
           /\ \A rank \in Rankings :
                 Exits(owner, receiver, assets, rank) => Withdraw(owner, receiver, amount)
<1> DEFINE burnt == SharesUp(assets, TotalAssets, TippedSupply)
<1>1. TypeOK /\ BalancesMatchSupply
  BY DEF FInv
<1>2. Rankings # {}
  BY <1>1, SomeRanking
<1> SUFFICES ASSUME NEW rank \in Rankings, Exits(owner, receiver, assets, rank)
             PROVE  Withdraw(owner, receiver, amount)
  BY <1>2
<1>3. /\ TotalAssets \in Nat /\ TippedSupply \in Nat /\ TippedShares[owner] \in Nat
      /\ Buffer \in AllArks /\ arkAssets[Buffer] \in Nat
  BY <1>1, Totals, Tipped, Finite DEF TypeOK
<1>4. RedeemValue(owner) \in Nat /\ WithdrawableTotalAssets \in Nat
  BY <1>1, WorthWithinFleet, WithdrawableNatural
<1>5. assets <= RedeemValue(owner)
  BY <1>4, BelowSmaller DEF MaxWithdraw
<1>6. burnt \in Nat \ {0} /\ burnt <= TippedShares[owner]
  BY <1>3, <1>5, NothingIsFree, NoShortfall DEF RedeemValue
<1>7. PayOut(owner, receiver, assets, burnt)
  BY <1>3, <1>6 DEF Exits, PayOut, CollectTip, AccrueClock, Tip
<1>8. CASE assets <= arkAssets[Buffer]
  <2>1. assets <= MaxBufferWithdraw(owner)
    BY <1>5, <1>8 DEF MaxBufferWithdraw, Smaller
  <2>2. PayFromBuffer(owner, receiver, assets, burnt)
    BY <1>3, <1>7, <1>8 DEF Exits, PayFromBuffer
  <2>3. WithdrawFromBuffer(owner, receiver, assets)
    BY <1>6, <2>1, <2>2 DEF WithdrawFromBuffer
  <2> QED
    BY <1>8, <2>3 DEF Withdraw
<1>9. CASE assets > arkAssets[Buffer]
  <2>1. /\ lastActionTimestamp' = 0
        /\ arkAssets' = [a \in AllArks |->
                            IF a \in FleetArks THEN arkAssets[a] - DrainedFrom(a, assets, rank)
                            ELSE arkAssets[a]]
    BY <1>3, <1>9 DEF Exits
  <2>2. PayFromArks(owner, receiver, assets, burnt)
    BY <1>7, <2>1 DEF PayFromArks
  <2>3. WithdrawFromArks(owner, receiver, assets)
    BY <1>6, <2>2 DEF WithdrawFromArks
  <2> QED
    BY <1>9, <2>3 DEF Withdraw
<1> QED
  BY <1>3, <1>8, <1>9

\* The step CanExit asks for exists: when the fleet is not paused and its arks
\* can pay, withdraw(MAX) pays an owner all the shares are worth.
THEOREM WholePositionExits ==
    ASSUME FInv, ~paused, WithdrawableTotalAssets = TotalAssets,
           NEW owner \in Accounts, RedeemValue(owner) > 0
    PROVE  /\ Rankings # {}
           /\ \A rank \in Rankings :
                 Exits(owner, owner, RedeemValue(owner), rank)
                    => Withdraw(owner, owner, MaxUint)
<1>1. TypeOK /\ BalancesMatchSupply
  BY DEF FInv
<1>2. RedeemValue(owner) \in Nat \ {0} /\ RedeemValue(owner) <= TotalAssets
  BY <1>1, WorthWithinFleet
<1>3. RedeemValue(owner) <= MaxWithdraw(owner)
  BY <1>2, Totals, <1>1 DEF MaxWithdraw, Smaller
<1> QED
  BY <1>2, <1>3, MaxWithdrawIsHonoured

=============================================================================
