----------------------------- MODULE RaftProofs -----------------------------
(***************************************************************************)
(* The theorems of Raft.                                                   *)
(*                                                                         *)
(* Whatever a call does, it changes the books of the lots of one ark only, *)
(* and for each token the claim of a single lot.  So a change of the       *)
(* balance is compared with the change of one term of a sum.               *)
(***************************************************************************)
EXTENDS Raft, LedgerLemmas

---------------------------------------------------------------------------
(* Lots *)

\* There are finitely many lots.
LEMMA LotsFinite == IsFiniteSet(Lots)
  BY FiniteAssumption, FS_Product DEF Lots

\* A lot is a pair of an ark and a token, and its ark has an asset.
LEMMA LotIs ==
    ASSUME NEW l \in Lots
    PROVE  /\ l[1] \in Arks /\ l[2] \in Tokens /\ l = <<l[1], l[2]>>
           /\ AssetOf[l[1]] \in Tokens /\ BufferOf[l[1]] \in Arks
  BY ArkAssumption DEF Lots

\* Every pair is a lot.
LEMMA PairIs ==
    ASSUME NEW ark \in Arks, NEW t \in Tokens
    PROVE  /\ <<ark, t>> \in Lots /\ <<ark, t>>[1] = ark /\ <<ark, t>>[2] = t
           /\ AssetOf[ark] \in Tokens /\ BufferOf[ark] \in Arks
  BY ArkAssumption DEF Lots

\* The lots of an ark with some of its tokens.
LEMMA AmongLots ==
    ASSUME NEW ark \in Arks, NEW S \in SUBSET Tokens, NEW l \in Lots
    PROVE  l \in {ark} \X S <=> l[1] = ark /\ l[2] \in S
  BY DEF Lots

---------------------------------------------------------------------------
(* The invariant *)

\* An auction that runs has a price that falls over some time; one that does not
\* has nothing to sell.
Sound(auction, time) ==
    /\ auction.running => /\ auction.startPrice > auction.endPrice
                          /\ auction.startTime <= time /\ auction.startTime < auction.endTime
    /\ ~auction.running => auction.remaining = 0

RaftInv ==
    /\ TypeOK /\ TokensAccountedFor /\ ProceedsReachArk /\ NoPaymentLeftBehind
    /\ \A l \in Lots : Sound(auctions[l], now)

\* The terms of an auction, which no call changes while it runs.
SameTerms(auction, other) ==
    /\ auction.startTime = other.startTime /\ auction.endTime = other.endTime
    /\ auction.startPrice = other.startPrice /\ auction.endPrice = other.endPrice
    /\ auction.decayType = other.decayType

\* What a step does to the auction of a lot.
AuctionMoves(l) ==
    /\ auctions[l].running /\ auctions'[l].running => SameTerms(auctions'[l], auctions[l])
    /\ Sound(auctions'[l], now')
    /\ l[1] \notin KeeperDataArks /\ ~auctions'[l].running => paymentTokensToBoard'[l] = 0

\* What every step does.
Kept ==
    /\ TypeOK' /\ TokensAccountedFor' /\ ProceedsReachArk'
    /\ now \in Nat /\ now' \in Nat /\ now <= now'
    /\ \A l \in Lots : AuctionMoves(l)

\* The types of the entries.
LEMMA Types ==
    ASSUME TypeOK
    PROVE  /\ \A l \in Lots : /\ obtainedTokens[l] \in Nat /\ unsoldTokens[l] \in Nat
                              /\ paymentTokensToBoard[l] \in Nat /\ arkBalance[l] \in Nat
                              /\ auctions[l] \in Auctions /\ auctions[l].running \in BOOLEAN
                              /\ auctions[l].remaining \in Nat
                              /\ arkAuctionParameters[l] \in Params
           /\ \A t \in Tokens : raftBalance[t] \in Nat /\ socialized[t] \in Nat
           /\ \A a \in Arks : boarded[a] \in Nat /\ paidFor[a] \in Nat
           /\ now \in Nat /\ incomes \in Nat
<1>1. \A l \in Lots : /\ obtainedTokens[l] \in Nat /\ unsoldTokens[l] \in Nat
                      /\ paymentTokensToBoard[l] \in Nat /\ arkBalance[l] \in Nat
                      /\ auctions[l] \in Auctions /\ arkAuctionParameters[l] \in Params
  BY DEF TypeOK
<1>2. \A l \in Lots : auctions[l].running \in BOOLEAN /\ auctions[l].remaining \in Nat
  BY <1>1 DEF Auctions
<1>3. \A t \in Tokens : raftBalance[t] \in Nat /\ socialized[t] \in Nat
  BY DEF TypeOK
<1>4. \A a \in Arks : boarded[a] \in Nat /\ paidFor[a] \in Nat
  BY DEF TypeOK
<1> QED
  BY <1>1, <1>2, <1>3, <1>4 DEF TypeOK

\* A claim is a natural number.
LEMMA ClaimNat ==
    ASSUME TypeOK, NEW l \in Lots, NEW t
    PROVE  Claim(l, t) \in Nat
  BY Types DEF Claim

---------------------------------------------------------------------------
(* Prices *)

\* A product grows with a factor.
LEMMA TimesMonotone ==
    ASSUME NEW a \in Nat, NEW b \in Nat, NEW c \in Nat, a <= b
    PROVE  c * a \in Nat /\ c * a <= c * b
<1>1. PICK d \in Nat : b = a + d
  <2>1. b - a \in Nat /\ b = a + (b - a)
    OBVIOUS
  <2> QED
    BY <2>1
<1>2. c * b = c * a + c * d /\ c * a \in Nat /\ c * d \in Nat
  BY <1>1
<1> QED
  BY <1>2

\* A quotient grows with what is divided.
LEMMA DivMonotone ==
    ASSUME NEW a \in Nat, NEW b \in Nat, NEW c \in Nat \ {0}, a <= b
    PROVE  a \div c <= b \div c
<1> DEFINE p == a \div c
           q == b \div c
<1>1. /\ p \in Nat /\ c * p <= a
      /\ q \in Nat /\ b < c * q + c
  BY Division
<1> HIDE DEF p, q
<1>2. c * (q + 1) = c * q + c /\ c * q \in Nat /\ c * p \in Nat
  BY <1>1
<1>3. c * p < c * (q + 1)
  BY <1>1, <1>2
<1>4. q + 1 \in Nat
  BY <1>1
<1>5. p < q + 1
  BY <1>1, <1>3, <1>4, Cancel
<1>6. p <= q
  BY <1>1, <1>5
<1> QED
  BY <1>6 DEF p, q

\* A multiple is divided exactly.
LEMMA DivExact ==
    ASSUME NEW a \in Nat, NEW c \in Nat \ {0}
    PROVE  (a * c) \div c = a
<1> DEFINE p == (a * c) \div c
<1>1. a * c \in Nat /\ a * c = c * a
  BY Product
<1>2. p \in Nat /\ c * p <= a * c /\ a * c < c * p + c
  BY <1>1, Division
<1> HIDE DEF p
<1>3. c * p <= c * a
  BY <1>1, <1>2
<1>4. p <= a
  BY <1>2, <1>3, Cancel
<1>5. c * (p + 1) = c * p + c
  BY <1>2
<1>6. c * a < c * (p + 1) /\ p + 1 \in Nat
  BY <1>1, <1>2, <1>5
<1>7. a < p + 1
  BY <1>2, <1>6, Cancel
<1>8. p = a
  BY <1>2, <1>4, <1>7
<1> QED
  BY <1>8 DEF p

\* A part of an amount, rounded down, is not more than the amount.
LEMMA PartWithin ==
    ASSUME NEW k \in Nat, NEW x \in Nat, NEW d \in Nat \ {0}, x <= d
    PROVE  (k * x) \div d \in Nat /\ (k * x) \div d <= k
<1> DEFINE q == (k * x) \div d
<1>1. k * x \in Nat /\ k * x <= k * d /\ k * d = d * k
  BY TimesMonotone, Product
<1>2. q \in Nat /\ d * q <= k * x
  BY <1>1, Division
<1> HIDE DEF q
<1>3. d * q <= d * k
  <2>1. d * q \in Nat /\ d * k \in Nat
    BY <1>2, Product
  <2> QED
    BY <1>1, <1>2, <2>1
<1>4. q <= k
  BY <1>2, <1>3, Cancel
<1> QED
  BY <1>2, <1>4 DEF q

\* A price that falls in a straight line stays within its bounds and does not rise.
LEMMA LinearFalls ==
    ASSUME NEW s \in Nat, NEW e \in Nat, e <= s, NEW d \in Nat \ {0},
           NEW x \in Nat, NEW y \in Nat, x <= y, y <= d
    PROVE  /\ LinearDecay(s, e, x, d) \in Nat /\ LinearDecay(s, e, y, d) \in Nat
           /\ e <= LinearDecay(s, e, y, d)
           /\ LinearDecay(s, e, y, d) <= LinearDecay(s, e, x, d)
<1> DEFINE k == (s - e) * Wei
           p == (k * x) \div d
           q == (k * y) \div d
<1>1. Wei \in Nat \ {0} /\ s - e \in Nat
  BY UnitAssumption
<1>2. k \in Nat /\ s * Wei \in Nat /\ e * Wei \in Nat /\ s * Wei = e * Wei + k
  <2>1. s * Wei \in Nat /\ e * Wei \in Nat /\ k \in Nat
    BY <1>1, Product
  <2>2. (s - e) * Wei = s * Wei - e * Wei
    BY <1>1
  <2> QED
    BY <2>1, <2>2
<1> HIDE DEF k
<1>3. p \in Nat /\ p <= k /\ q \in Nat /\ q <= k
  BY <1>2, PartWithin
<1>4. p <= q
  <2>1. k * x \in Nat /\ k * y \in Nat /\ k * x <= k * y
    BY <1>2, TimesMonotone
  <2> QED
    BY <2>1, DivMonotone
<1>5. /\ LinearDecay(s, e, x, d) = (s * Wei - p) \div Wei
      /\ LinearDecay(s, e, y, d) = (s * Wei - q) \div Wei
  BY DEF LinearDecay, k
<1> HIDE DEF p, q
<1>6. /\ s * Wei - p \in Nat /\ s * Wei - q \in Nat
      /\ s * Wei - q <= s * Wei - p /\ e * Wei <= s * Wei - q
  BY <1>2, <1>3, <1>4
<1>7. /\ (s * Wei - q) \div Wei <= (s * Wei - p) \div Wei
      /\ (e * Wei) \div Wei <= (s * Wei - q) \div Wei
  BY <1>1, <1>2, <1>6, DivMonotone
<1>8. (s * Wei - q) \div Wei \in Nat /\ (s * Wei - p) \div Wei \in Nat
  BY <1>1, <1>6, Division
<1>9. (e * Wei) \div Wei = e
  BY <1>1, DivExact
<1> QED
  BY <1>5, <1>7, <1>8, <1>9

\* So does one that falls with the square of the time that is left.
LEMMA QuadraticFalls ==
    ASSUME NEW s \in Nat, NEW e \in Nat, e <= s, NEW d \in Nat \ {0},
           NEW x \in Nat, NEW y \in Nat, x <= y, y <= d
    PROVE  /\ QuadraticDecay(s, e, x, d) \in Nat /\ QuadraticDecay(s, e, y, d) \in Nat
           /\ e <= QuadraticDecay(s, e, y, d)
           /\ QuadraticDecay(s, e, y, d) <= QuadraticDecay(s, e, x, d)
<1> DEFINE k == (s - e) * Wei
           u == d - x
           v == d - y
           p == (k * (u * u)) \div (d * d)
           q == (k * (v * v)) \div (d * d)
<1>1. Wei \in Nat \ {0} /\ s - e \in Nat /\ u \in Nat /\ v \in Nat /\ v <= u
  BY UnitAssumption
<1>2. k \in Nat /\ e * Wei \in Nat
  BY <1>1, Product
<1>3. /\ QuadraticDecay(s, e, x, d) = (e * Wei + p) \div Wei
      /\ QuadraticDecay(s, e, y, d) = (e * Wei + q) \div Wei
  BY DEF QuadraticDecay
<1> HIDE DEF k, u, v
<1>4. d * d \in Nat \ {0} /\ u * u \in Nat /\ v * v \in Nat /\ v * v <= u * u
  <2>1. v * v \in Nat /\ v * v <= v * u /\ u * v <= u * u /\ u * v = v * u /\ u * u \in Nat
    BY <1>1, TimesMonotone, Product
  <2>2. u * v \in Nat
    BY <1>1, Product
  <2>3. d * d \in Nat /\ d * 1 <= d * d /\ d * 1 = d
    <3>1. 1 <= d /\ d \in Nat
      OBVIOUS
    <3> QED
      BY <3>1, TimesMonotone, Product
  <2> QED
    BY <2>1, <2>2, <2>3
<1>5. p \in Nat /\ q \in Nat /\ q <= p
  <2>1. k * (v * v) \in Nat /\ k * (u * u) \in Nat /\ k * (v * v) <= k * (u * u)
    BY <1>2, <1>4, TimesMonotone, Product
  <2> QED
    BY <1>4, <2>1, DivMonotone, Division
<1> HIDE DEF p, q
<1>6. /\ e * Wei + p \in Nat /\ e * Wei + q \in Nat
      /\ e * Wei + q <= e * Wei + p /\ e * Wei <= e * Wei + q
  BY <1>2, <1>5
<1>7. /\ (e * Wei + q) \div Wei <= (e * Wei + p) \div Wei
      /\ (e * Wei) \div Wei <= (e * Wei + q) \div Wei
  BY <1>1, <1>2, <1>6, DivMonotone
<1>8. (e * Wei + q) \div Wei \in Nat /\ (e * Wei + p) \div Wei \in Nat
  BY <1>1, <1>6, Division
<1>9. (e * Wei) \div Wei = e
  BY <1>1, DivExact
<1> QED
  BY <1>3, <1>7, <1>8, <1>9

\* The price of an auction at a time.
PriceAt(auction, time) ==
    LET elapsed  == time - auction.startTime
        duration == auction.endTime - auction.startTime
    IN  IF elapsed >= duration THEN auction.endPrice
        ELSE IF auction.decayType = "Linear"
        THEN LinearDecay(auction.startPrice, auction.endPrice, elapsed, duration)
        ELSE QuadraticDecay(auction.startPrice, auction.endPrice, elapsed, duration)

\* The price of a running auction is not below its end price, and not higher later.
LEMMA PriceFalls ==
    ASSUME NEW auction \in Auctions, NEW time \in Nat, NEW later \in Nat, time <= later,
           auction.running, Sound(auction, time)
    PROVE  /\ PriceAt(auction, time) \in Nat /\ PriceAt(auction, later) \in Nat
           /\ auction.endPrice <= PriceAt(auction, later)
           /\ PriceAt(auction, later) <= PriceAt(auction, time)
<1> DEFINE s == auction.startPrice
           e == auction.endPrice
           d == auction.endTime - auction.startTime
           x == time - auction.startTime
           y == later - auction.startTime
<1>1. /\ s \in Nat /\ e \in Nat /\ auction.startTime \in Nat /\ auction.endTime \in Nat
  BY DEF Auctions
<1>2. s > e /\ auction.startTime <= time /\ auction.startTime < auction.endTime
  BY DEF Sound
<1>3. e <= s /\ d \in Nat \ {0} /\ x \in Nat /\ y \in Nat /\ x <= y
  BY <1>1, <1>2
<1>4. /\ PriceAt(auction, time) = IF x >= d THEN e
             ELSE IF auction.decayType = "Linear" THEN LinearDecay(s, e, x, d)
             ELSE QuadraticDecay(s, e, x, d)
      /\ PriceAt(auction, later) = IF y >= d THEN e
             ELSE IF auction.decayType = "Linear" THEN LinearDecay(s, e, y, d)
             ELSE QuadraticDecay(s, e, y, d)
  BY DEF PriceAt
<1> HIDE DEF s, e, d, x, y
<1>5. CASE x >= d
  <2>1. y >= d
    BY <1>3, <1>5
  <2> QED
    BY <1>1, <1>4, <1>5, <2>1 DEF e
<1>6. CASE x < d /\ y >= d
  <2>1. ~(x >= d) /\ x <= d
    BY <1>3, <1>6
  <2>2. /\ LinearDecay(s, e, x, d) \in Nat /\ e <= LinearDecay(s, e, x, d)
        /\ QuadraticDecay(s, e, x, d) \in Nat /\ e <= QuadraticDecay(s, e, x, d)
    BY <1>1, <1>3, <2>1, LinearFalls, QuadraticFalls
  <2> QED
    BY <1>1, <1>4, <1>6, <2>1, <2>2 DEF e
<1>7. CASE x < d /\ y < d
  <2>1. ~(x >= d) /\ ~(y >= d) /\ y <= d
    BY <1>3, <1>7
  <2>2. /\ LinearDecay(s, e, x, d) \in Nat /\ LinearDecay(s, e, y, d) \in Nat
        /\ e <= LinearDecay(s, e, y, d) /\ LinearDecay(s, e, y, d) <= LinearDecay(s, e, x, d)
    BY <1>1, <1>3, <2>1, LinearFalls
  <2>3. /\ QuadraticDecay(s, e, x, d) \in Nat /\ QuadraticDecay(s, e, y, d) \in Nat
        /\ e <= QuadraticDecay(s, e, y, d)
        /\ QuadraticDecay(s, e, y, d) <= QuadraticDecay(s, e, x, d)
    BY <1>1, <1>3, <2>1, QuadraticFalls
  <2> QED
    BY <1>1, <1>4, <2>1, <2>2, <2>3 DEF e
<1> QED
  BY <1>3, <1>5, <1>6, <1>7

\* What a buyer pays is a natural number.
LEMMA CostNat ==
    ASSUME NEW price \in Nat, NEW amount \in Nat
    PROVE  TotalCost(price, amount) \in Nat
<1>1. price * amount \in Nat
  BY Product
<1> QED
  BY <1>1, UnitAssumption, Division DEF TotalCost

---------------------------------------------------------------------------
(* Books and balances *)

\* For token t only the claim of lot m changes, and the balance changes as much.
Accounted(m, t) ==
    /\ \A l \in Lots : l # m => Claim(l, t)' = Claim(l, t)
    /\ raftBalance'[t] + socialized'[t] + Claim(m, t)
          = raftBalance[t] + socialized[t] + Claim(m, t)'

\* For the ark only the payments in token x change, by what was paid less what
\* was boarded.
PaidOn(ark, x) ==
    /\ \A y \in Tokens : y # x =>
          paymentTokensToBoard'[<<ark, y>>] = paymentTokensToBoard[<<ark, y>>]
    /\ paidFor'[ark] + boarded[ark] + paymentTokensToBoard[<<ark, x>>]
          = paidFor[ark] + boarded'[ark] + paymentTokensToBoard'[<<ark, x>>]

\* If one claim of each token changes with its balance, the books still agree.
LEMMA AccountKept ==
    ASSUME TypeOK, TypeOK', TokensAccountedFor,
           \A t \in Tokens : \E m \in Lots : Accounted(m, t)
    PROVE  TokensAccountedFor'
<1> SUFFICES ASSUME NEW t \in Tokens
             PROVE  raftBalance'[t] + socialized'[t]
                       = SumOver([l \in Lots |-> Claim(l, t)'], Lots)
  BY DEF TokensAccountedFor
<1>1. PICK m \in Lots : Accounted(m, t)
  OBVIOUS
<1> DEFINE f == [l \in Lots |-> Claim(l, t)]
           g == [l \in Lots |-> Claim(l, t)']
<1>2. \A l \in Lots : Claim(l, t) \in Nat
  BY ClaimNat
<1>3. \A l \in Lots : Claim(l, t)' \in Nat
  <2>1. \A l \in Lots : /\ obtainedTokens'[l] \in Nat /\ unsoldTokens'[l] \in Nat
                        /\ paymentTokensToBoard'[l] \in Nat /\ auctions'[l] \in Auctions
    BY DEF TypeOK
  <2>2. \A l \in Lots : auctions'[l].remaining \in Nat
    BY <2>1 DEF Auctions
  <2> QED
    BY <2>1, <2>2 DEF Claim
<1>4. /\ \A l \in Lots : f[l] \in Int /\ (l # m => g[l] = f[l])
      /\ g[m] \in Int
      /\ f[m] = Claim(m, t) /\ g[m] = Claim(m, t)' /\ f[m] \in Nat /\ g[m] \in Nat
  BY <1>1, <1>2, <1>3 DEF Accounted
<1>5. raftBalance'[t] + socialized'[t] + f[m] = raftBalance[t] + socialized[t] + g[m]
  BY <1>1, <1>4 DEF Accounted
<1>6. raftBalance[t] + socialized[t] = SumOver(f, Lots)
  BY DEF TokensAccountedFor
<1>7. /\ raftBalance[t] \in Nat /\ socialized[t] \in Nat
      /\ raftBalance'[t] \in Nat /\ socialized'[t] \in Nat
  BY DEF TypeOK
<1> HIDE DEF f, g
<1>8. SumOver(g, Lots) = SumOver(f, Lots) + (g[m] - f[m])
  BY <1>4, LotsFinite, SumChange
<1>9. raftBalance'[t] + socialized'[t] = SumOver(g, Lots)
  BY <1>4, <1>5, <1>6, <1>7, <1>8
<1> QED
  BY <1>9 DEF g

\* If the payments for one lot of each ark change by what is paid and boarded,
\* the payments still add up.
LEMMA ProceedsKept ==
    ASSUME TypeOK, TypeOK', ProceedsReachArk,
           \A ark \in Arks : \E x \in Tokens : PaidOn(ark, x)
    PROVE  ProceedsReachArk'
<1> SUFFICES ASSUME NEW a \in Arks
             PROVE  paidFor'[a] = boarded'[a]
                       + SumOver([t \in Tokens |-> paymentTokensToBoard'[<<a, t>>]], Tokens)
  BY DEF ProceedsReachArk
<1>1. PICK x \in Tokens : PaidOn(a, x)
  OBVIOUS
<1> DEFINE f == [t \in Tokens |-> paymentTokensToBoard[<<a, t>>]]
           g == [t \in Tokens |-> paymentTokensToBoard'[<<a, t>>]]
<1>2. \A t \in Tokens : <<a, t>> \in Lots
  BY PairIs
<1>3. /\ \A l \in Lots : paymentTokensToBoard[l] \in Nat /\ paymentTokensToBoard'[l] \in Nat
      /\ paidFor[a] \in Nat /\ paidFor'[a] \in Nat /\ boarded[a] \in Nat /\ boarded'[a] \in Nat
  BY DEF TypeOK
<1>4. /\ \A t \in Tokens : f[t] \in Int /\ (t # x => g[t] = f[t])
      /\ f[x] \in Nat /\ g[x] \in Nat
      /\ f[x] = paymentTokensToBoard[<<a, x>>] /\ g[x] = paymentTokensToBoard'[<<a, x>>]
  BY <1>1, <1>2, <1>3 DEF PaidOn
<1>5. paidFor'[a] + boarded[a] + f[x] = paidFor[a] + boarded'[a] + g[x]
  BY <1>1, <1>4 DEF PaidOn
<1>6. paidFor[a] = boarded[a] + SumOver(f, Tokens)
  BY DEF ProceedsReachArk
<1> HIDE DEF f, g
<1>7. SumOver(g, Tokens) = SumOver(f, Tokens) + (g[x] - f[x])
  BY <1>4, FiniteAssumption, SumChange
<1>8. SumOver(f, Tokens) \in Int
  BY <1>4, FiniteAssumption, SumInt
<1>9. paidFor'[a] = boarded'[a] + SumOver(g, Tokens)
  BY <1>3, <1>4, <1>5, <1>6, <1>7, <1>8
<1> QED
  BY <1>9 DEF g

---------------------------------------------------------------------------
(* Boarding and settling *)

\* Of `waiting` tokens that wait for the lot `sent` reach its ark; `balance` is
\* what the Raft held before.
Outcome(l, waiting, sent, balance) ==
    /\ sent \in Nat /\ sent <= waiting
    /\ raftBalance' \in [Tokens -> Nat] /\ paymentTokensToBoard' \in [Lots -> Nat]
    /\ boarded' \in [Arks -> Nat] /\ arkBalance' \in [Lots -> Nat]
    /\ \A t \in Tokens : raftBalance'[t] = balance[t] - (IF t = AssetOf[l[1]] THEN sent ELSE 0)
    /\ \A m \in Lots : m # l => paymentTokensToBoard'[m] = paymentTokensToBoard[m]
    /\ paymentTokensToBoard'[l] = waiting - sent
    /\ \A a \in Arks : a # l[1] => boarded'[a] = boarded[a]
    /\ boarded'[l[1]] = boarded[l[1]] + sent

\* Boarding sends all that waits.
LEMMA BoardFacts ==
    ASSUME TypeOK, NEW l \in Lots, NEW waiting \in Nat, NEW balance \in [Tokens -> Nat],
           BoardProceeds(l, waiting, balance)
    PROVE  Outcome(l, waiting, waiting, balance)
<1> DEFINE ark == l[1]
           asset == AssetOf[ark]
           lot == <<ark, asset>>
<1>1. ark \in Arks /\ asset \in Tokens /\ lot \in Lots
  BY LotIs, PairIs
<1> HIDE DEF ark, asset, lot
<1>2. /\ balance[asset] >= waiting
      /\ raftBalance' = [balance EXCEPT ![asset] = @ - waiting]
      /\ paymentTokensToBoard' = [paymentTokensToBoard EXCEPT ![l] = 0]
      /\ boarded' = [boarded EXCEPT ![ark] = @ + waiting]
      /\ \/ arkBalance' = [arkBalance EXCEPT ![lot] = @ + waiting]
         \/ arkBalance' = arkBalance
  BY DEF BoardProceeds, ToBoardAfter, ark, asset, lot
<1>3. raftBalance' \in [Tokens -> Nat]
      /\ \A t \in Tokens : raftBalance'[t] = balance[t] - (IF t = asset THEN waiting ELSE 0)
  <2>1. \A t \in Tokens : balance[t] \in Nat
    OBVIOUS
  <2> QED
    BY <1>1, <1>2, <2>1
<1>4. paymentTokensToBoard \in [Lots -> Nat] /\ boarded \in [Arks -> Nat]
      /\ arkBalance \in [Lots -> Nat]
  BY DEF TypeOK
<1>5. /\ paymentTokensToBoard' \in [Lots -> Nat] /\ paymentTokensToBoard'[l] = 0
      /\ \A m \in Lots : m # l => paymentTokensToBoard'[m] = paymentTokensToBoard[m]
  BY <1>2, <1>4
<1>6. /\ boarded' \in [Arks -> Nat] /\ boarded'[ark] = boarded[ark] + waiting
      /\ \A a \in Arks : a # ark => boarded'[a] = boarded[a]
  BY <1>1, <1>2, <1>4
<1>7. arkBalance' \in [Lots -> Nat]
  BY <1>1, <1>2, <1>4
<1> QED
  BY <1>3, <1>5, <1>6, <1>7 DEF Outcome, ark, asset

\* What is sent at once of `waiting` tokens.
SentAtOnce(ark, waiting) == IF ark \in KeeperDataArks THEN 0 ELSE waiting

\* Settling ends the auction, notes what is left as unsold, and sends all that
\* waits unless the ark requires keeper data.
LEMMA SettleFacts ==
    ASSUME TypeOK, NEW l \in Lots, NEW left \in Nat, NEW waiting \in Nat,
           NEW balance \in [Tokens -> Nat], SettleAuction(l, left, waiting, balance)
    PROVE  /\ auctions' = [auctions EXCEPT ![l] = NoAuction]
           /\ unsoldTokens' = [unsoldTokens EXCEPT ![l] = @ + left]
           /\ Outcome(l, waiting, SentAtOnce(l[1], waiting), balance)
<1>1. /\ auctions' = [auctions EXCEPT ![l] = NoAuction]
      /\ unsoldTokens' = [unsoldTokens EXCEPT ![l] = @ + left]
  BY DEF SettleAuction
<1>2. CASE BoardsAtOnce(l[1]) /\ BoardProceeds(l, waiting, balance)
  <2>1. SentAtOnce(l[1], waiting) = waiting
    BY <1>2 DEF BoardsAtOnce, SentAtOnce
  <2>2. Outcome(l, waiting, waiting, balance)
    BY <1>2, BoardFacts
  <2> QED
    BY <1>1, <2>1, <2>2
<1>3. CASE /\ ~BoardsAtOnce(l[1])
           /\ paymentTokensToBoard' = [paymentTokensToBoard EXCEPT ![l] = waiting]
           /\ raftBalance' = balance /\ UNCHANGED <<arkBalance, boarded>>
  <2>1. l[1] \in KeeperDataArks /\ l[1] \in Arks
    BY <1>3, LotIs DEF BoardsAtOnce
  <2>2. paymentTokensToBoard \in [Lots -> Nat] /\ boarded \in [Arks -> Nat]
        /\ arkBalance \in [Lots -> Nat]
    BY DEF TypeOK
  <2>3. /\ paymentTokensToBoard' \in [Lots -> Nat] /\ paymentTokensToBoard'[l] = waiting
        /\ \A m \in Lots : m # l => paymentTokensToBoard'[m] = paymentTokensToBoard[m]
    BY <1>3, <2>2
  <2>4. \A t \in Tokens : raftBalance'[t] = balance[t] - (IF t = AssetOf[l[1]] THEN 0 ELSE 0)
    <3>1. \A t \in Tokens : balance[t] \in Nat /\ raftBalance'[t] = balance[t]
      BY <1>3
    <3> QED
      BY <3>1
  <2>5. boarded' \in [Arks -> Nat] /\ boarded'[l[1]] = boarded[l[1]] + 0
        /\ \A a \in Arks : a # l[1] => boarded'[a] = boarded[a]
    <3>1. boarded[l[1]] \in Nat /\ boarded' = boarded
      BY <1>3, <2>1, <2>2
    <3> QED
      BY <3>1, <2>2
  <2>6. raftBalance' \in [Tokens -> Nat] /\ arkBalance' \in [Lots -> Nat] /\ waiting - 0 = waiting
    BY <1>3, <2>2
  <2>7. Outcome(l, waiting, 0, balance)
    BY <2>3, <2>4, <2>5, <2>6 DEF Outcome
  <2>8. SentAtOnce(l[1], waiting) = 0
    BY <2>1 DEF SentAtOnce
  <2> QED
    BY <1>1, <2>7, <2>8
<1> QED
  BY <1>2, <1>3 DEF SettleAuction

---------------------------------------------------------------------------
(* Selling *)

\* What a purchase, the end of an auction and a board call have in common:
\* `cost` is paid for `amount` tokens of the lot and `sent` reach its ark.
Trade(l, amount, cost, sent) ==
    /\ Outcome(l, paymentTokensToBoard[l] + cost, sent,
               [t \in Tokens |-> raftBalance[t] + (IF t = AssetOf[l[1]] THEN cost ELSE 0)
                                                - (IF t = l[2] THEN amount ELSE 0)])
    /\ \A m \in Lots : /\ obtainedTokens'[m] = obtainedTokens[m]
                       /\ m # l => /\ unsoldTokens'[m] = unsoldTokens[m]
                                   /\ auctions'[m] = auctions[m]
    /\ unsoldTokens'[l] + auctions'[l].remaining + amount
          = unsoldTokens[l] + auctions[l].remaining
    /\ socialized' = socialized
    /\ \A a \in Arks : a # l[1] => paidFor'[a] = paidFor[a]
    /\ paidFor'[l[1]] = paidFor[l[1]] + cost

\* A trade keeps the books.
LEMMA TradeKeeps ==
    ASSUME RaftInv, TypeOK', NEW l \in Lots, NEW amount \in Nat, NEW cost \in Nat, NEW sent \in Nat,
           Trade(l, amount, cost, sent)
    PROVE  TokensAccountedFor' /\ ProceedsReachArk'
<1> DEFINE ark == l[1]
           token == l[2]
           asset == AssetOf[ark]
<1>1. /\ ark \in Arks /\ token \in Tokens /\ asset \in Tokens /\ l = <<ark, token>>
  BY LotIs
<1>2. /\ TypeOK
      /\ \A m \in Lots : /\ obtainedTokens[m] \in Nat /\ unsoldTokens[m] \in Nat
                         /\ paymentTokensToBoard[m] \in Nat /\ auctions[m].remaining \in Nat
      /\ \A t \in Tokens : raftBalance[t] \in Nat /\ socialized[t] \in Nat
      /\ \A a \in Arks : boarded[a] \in Nat /\ paidFor[a] \in Nat
  BY Types DEF RaftInv
<1>3. /\ \A m \in Lots : /\ obtainedTokens'[m] \in Nat /\ unsoldTokens'[m] \in Nat
                         /\ paymentTokensToBoard'[m] \in Nat /\ auctions'[m] \in Auctions
      /\ \A t \in Tokens : raftBalance'[t] \in Nat /\ socialized'[t] \in Nat
      /\ \A a \in Arks : boarded'[a] \in Nat /\ paidFor'[a] \in Nat
  BY DEF TypeOK
<1>4. \A m \in Lots : auctions'[m].remaining \in Nat
  BY <1>3 DEF Auctions
<1> HIDE DEF ark, token, asset
<1>5. /\ \A m \in Lots : obtainedTokens'[m] = obtainedTokens[m]
      /\ \A m \in Lots : m # l => unsoldTokens'[m] = unsoldTokens[m] /\ auctions'[m] = auctions[m]
      /\ unsoldTokens'[l] + auctions'[l].remaining + amount
            = unsoldTokens[l] + auctions[l].remaining
      /\ socialized' = socialized
      /\ \A a \in Arks : a # ark => paidFor'[a] = paidFor[a]
      /\ paidFor'[ark] = paidFor[ark] + cost
  BY DEF Trade, ark
<1>6. /\ \A t \in Tokens : raftBalance'[t] = raftBalance[t] + (IF t = asset THEN cost ELSE 0)
                              - (IF t = token THEN amount ELSE 0) - (IF t = asset THEN sent ELSE 0)
      /\ \A m \in Lots : m # l => paymentTokensToBoard'[m] = paymentTokensToBoard[m]
      /\ paymentTokensToBoard'[l] = paymentTokensToBoard[l] + cost - sent
      /\ \A a \in Arks : a # ark => boarded'[a] = boarded[a]
      /\ boarded'[ark] = boarded[ark] + sent
  <2> DEFINE balance == [t \in Tokens |-> raftBalance[t] + (IF t = AssetOf[l[1]] THEN cost ELSE 0)
                                                - (IF t = l[2] THEN amount ELSE 0)]
  <2>1. Outcome(l, paymentTokensToBoard[l] + cost, sent, balance)
    BY DEF Trade
  <2>2. \A t \in Tokens : balance[t] = raftBalance[t] + (IF t = asset THEN cost ELSE 0)
                                           - (IF t = token THEN amount ELSE 0)
    BY DEF ark, token, asset
  <2> HIDE DEF balance
  <2>3. \A t \in Tokens : raftBalance'[t] = balance[t] - (IF t = asset THEN sent ELSE 0)
    BY <2>1 DEF Outcome, ark, asset
  <2>4. /\ \A m \in Lots : m # l => paymentTokensToBoard'[m] = paymentTokensToBoard[m]
        /\ paymentTokensToBoard'[l] = paymentTokensToBoard[l] + cost - sent
        /\ \A a \in Arks : a # ark => boarded'[a] = boarded[a]
        /\ boarded'[ark] = boarded[ark] + sent
    <3>1. paymentTokensToBoard[l] \in Nat /\ paymentTokensToBoard'[l] \in Nat
      BY <1>2, <1>3
    <3>2. /\ \A m \in Lots : m # l => paymentTokensToBoard'[m] = paymentTokensToBoard[m]
          /\ paymentTokensToBoard'[l] = (paymentTokensToBoard[l] + cost) - sent
          /\ \A a \in Arks : a # ark => boarded'[a] = boarded[a]
          /\ boarded'[ark] = boarded[ark] + sent
      BY <2>1 DEF Outcome, ark
    <3> QED
      BY <3>1, <3>2
  <2>5. ASSUME NEW t \in Tokens
        PROVE  raftBalance'[t] = raftBalance[t] + (IF t = asset THEN cost ELSE 0)
                              - (IF t = token THEN amount ELSE 0) - (IF t = asset THEN sent ELSE 0)
    <3>1. raftBalance[t] \in Nat
      BY <1>2
    <3> QED
      BY <2>2, <2>3, <3>1
  <2> QED
    BY <2>4, <2>5
<1>7. ASSUME NEW t \in Tokens PROVE Accounted(l, t)
  <2>1. \A m \in Lots : m # l => Claim(m, t)' = Claim(m, t)
    BY <1>5, <1>6 DEF Claim
  <2>2. /\ Claim(l, t) = (IF token = t THEN obtainedTokens[l] + unsoldTokens[l]
                                              + auctions[l].remaining ELSE 0)
                       + (IF asset = t THEN paymentTokensToBoard[l] ELSE 0)
        /\ Claim(l, t)' = (IF token = t THEN obtainedTokens'[l] + unsoldTokens'[l]
                                              + auctions'[l].remaining ELSE 0)
                        + (IF asset = t THEN paymentTokensToBoard'[l] ELSE 0)
    BY DEF Claim, ark, token, asset
  <2>3. socialized'[t] = socialized[t]
    BY <1>5
  <2>4. raftBalance'[t] = raftBalance[t] + (IF t = asset THEN cost ELSE 0)
                              - (IF t = token THEN amount ELSE 0) - (IF t = asset THEN sent ELSE 0)
    BY <1>6
  <2>5. /\ obtainedTokens[l] \in Nat /\ unsoldTokens[l] \in Nat
        /\ paymentTokensToBoard[l] \in Nat /\ auctions[l].remaining \in Nat
        /\ unsoldTokens'[l] \in Nat /\ auctions'[l].remaining \in Nat
        /\ obtainedTokens'[l] = obtainedTokens[l]
        /\ raftBalance[t] \in Nat /\ socialized[t] \in Nat
        /\ unsoldTokens'[l] + auctions'[l].remaining + amount
              = unsoldTokens[l] + auctions[l].remaining
        /\ paymentTokensToBoard'[l] = paymentTokensToBoard[l] + cost - sent
    BY <1>2, <1>3, <1>4, <1>5, <1>6
  <2>6. raftBalance'[t] + socialized'[t] + Claim(l, t)
           = raftBalance[t] + socialized[t] + Claim(l, t)'
    <3>1. CASE t = token /\ t = asset
      <4>1. raftBalance'[t] = raftBalance[t] + cost - amount - sent
        BY <2>4, <3>1
      <4>2. /\ Claim(l, t) = obtainedTokens[l] + unsoldTokens[l] + auctions[l].remaining
                                 + paymentTokensToBoard[l]
            /\ Claim(l, t)' = obtainedTokens'[l] + unsoldTokens'[l] + auctions'[l].remaining
                                 + paymentTokensToBoard'[l]
        BY <2>2, <3>1
      <4> QED
        BY <4>1, <4>2, <2>3, <2>5
    <3>2. CASE t = token /\ t # asset
      BY <3>2, <2>2, <2>3, <2>4, <2>5
    <3>3. CASE t # token /\ t = asset
      BY <3>3, <2>2, <2>3, <2>4, <2>5
    <3>4. CASE t # token /\ t # asset
      BY <3>4, <2>2, <2>3, <2>4, <2>5
    <3> QED
      BY <3>1, <3>2, <3>3, <3>4
  <2> QED
    BY <2>1, <2>6 DEF Accounted
<1>8. TokensAccountedFor'
  <2>1. \A t \in Tokens : \E m \in Lots : Accounted(m, t)
    BY <1>7
  <2> QED
    BY <1>2, <2>1, AccountKept DEF RaftInv
<1>9. ASSUME NEW a \in Arks PROVE PaidOn(a, token)
  <2>1. <<a, token>> \in Lots
    BY <1>1, PairIs
  <2>2. ASSUME NEW y \in Tokens, y # token PROVE <<a, y>> \in Lots /\ <<a, y>> # l
    BY <2>2, <1>1, PairIs
  <2>3. \A y \in Tokens : y # token =>
           paymentTokensToBoard'[<<a, y>>] = paymentTokensToBoard[<<a, y>>]
    BY <2>2, <1>6
  <2>4. paidFor'[a] + boarded[a] + paymentTokensToBoard[<<a, token>>]
          = paidFor[a] + boarded'[a] + paymentTokensToBoard'[<<a, token>>]
    <3>1. CASE a = ark
      <4>1. <<a, token>> = l
        BY <3>1, <1>1
      <4> QED
        BY <4>1, <3>1, <1>1, <1>2, <1>5, <1>6
    <3>2. CASE a # ark
      <4>1. <<a, token>> # l
        BY <3>2, <1>1
      <4>2. /\ paidFor'[a] = paidFor[a] /\ boarded'[a] = boarded[a]
            /\ paymentTokensToBoard'[<<a, token>>] = paymentTokensToBoard[<<a, token>>]
        BY <4>1, <3>2, <2>1, <1>5, <1>6
      <4> QED
        BY <4>2
    <3> QED
      BY <3>1, <3>2
  <2> QED
    BY <2>3, <2>4 DEF PaidOn
<1>10. ProceedsReachArk'
  <2>1. \A a \in Arks : \E x \in Tokens : PaidOn(a, x)
    BY <1>1, <1>9
  <2> QED
    BY <1>2, <2>1, ProceedsKept DEF RaftInv
<1> QED
  BY <1>8, <1>10

\* A trade keeps the whole invariant if the auction of its lot moves as it may.
LEMMA SellKeeps ==
    ASSUME RaftInv, NEW l \in Lots, NEW amount \in Nat, NEW cost \in Nat, NEW sent \in Nat,
           Trade(l, amount, cost, sent),
           auctions' \in [Lots -> Auctions], unsoldTokens' \in [Lots -> Nat],
           paidFor' \in [Arks -> Nat],
           UNCHANGED <<obtainedTokens, configVars, socialized, now, incomes>>,
           AuctionMoves(l)
    PROVE  Kept
<1>1. TypeOK /\ NoPaymentLeftBehind /\ \A m \in Lots : Sound(auctions[m], now)
  BY DEF RaftInv
<1>2. /\ raftBalance' \in [Tokens -> Nat] /\ paymentTokensToBoard' \in [Lots -> Nat]
      /\ boarded' \in [Arks -> Nat] /\ arkBalance' \in [Lots -> Nat]
      /\ \A m \in Lots : m # l => paymentTokensToBoard'[m] = paymentTokensToBoard[m]
  BY DEF Trade, Outcome
<1>3. /\ obtainedTokens' = obtainedTokens /\ arkAuctionParameters' = arkAuctionParameters
      /\ sweepableTokens' = sweepableTokens /\ nonSweepableTokens' = nonSweepableTokens
      /\ socialized' = socialized /\ now' = now /\ incomes' = incomes
  BY DEF configVars
<1>4. TypeOK'
  BY <1>1, <1>2, <1>3 DEF TypeOK
<1>5. TokensAccountedFor' /\ ProceedsReachArk'
  BY <1>4, TradeKeeps
<1>6. ASSUME NEW m \in Lots PROVE AuctionMoves(m)
  <2>1. CASE m = l
    BY <2>1
  <2>2. CASE m # l
    <3>1. auctions'[m] = auctions[m] /\ paymentTokensToBoard'[m] = paymentTokensToBoard[m]
      BY <1>2, <2>2 DEF Trade
    <3>2. Sound(auctions'[m], now')
      BY <1>1, <1>3, <3>1
    <3>3. m[1] \notin KeeperDataArks /\ ~auctions'[m].running => paymentTokensToBoard'[m] = 0
      BY <1>1, <3>1 DEF NoPaymentLeftBehind
    <3>4. SameTerms(auctions'[m], auctions[m])
      BY <3>1 DEF SameTerms
    <3> QED
      BY <3>2, <3>3, <3>4 DEF AuctionMoves
  <2> QED
    BY <2>1, <2>2
<1>7. now \in Nat /\ now' \in Nat /\ now <= now'
  BY <1>1, <1>3 DEF TypeOK
<1> QED
  BY <1>4, <1>5, <1>6, <1>7 DEF Kept

\* An auction that is over and a lot whose payments were sent are as they may be.
LEMMA EndedMoves ==
    ASSUME NEW l \in Lots, auctions'[l] = NoAuction,
           l[1] \notin KeeperDataArks => paymentTokensToBoard'[l] = 0
    PROVE  AuctionMoves(l)
<1>1. ~auctions'[l].running /\ auctions'[l].remaining = 0
  BY DEF NoAuction
<1> QED
  BY <1>1 DEF AuctionMoves, Sound

\* The price of a running auction is a natural number.
LEMMA CurrentPriceNat ==
    ASSUME RaftInv, NEW l \in Lots, auctions[l].running
    PROVE  GetCurrentPrice(auctions[l]) \in Nat
<1>1. auctions[l] \in Auctions /\ now \in Nat /\ Sound(auctions[l], now)
  BY Types DEF RaftInv
<1>2. PriceAt(auctions[l], now) \in Nat
  BY <1>1, PriceFalls
<1> QED
  BY <1>2 DEF GetCurrentPrice, PriceAt

\* A purchase, partial or of all that is left.
LEMMA BuyKeeps ==
    ASSUME RaftInv, NEW ark \in Arks, NEW token \in Tokens, NEW amount \in Nat,
           BuyTokens(ark, token, amount)
    PROVE  Kept
<1> DEFINE l == <<ark, token>>
           asset == AssetOf[ark]
           cost == TotalCost(GetCurrentPrice(auctions[l]), amount)
           paid == [raftBalance EXCEPT ![asset] = @ + cost]
           balance == [paid EXCEPT ![token] = @ - amount]
           waiting == paymentTokensToBoard[l] + cost
           net == [t \in Tokens |-> raftBalance[t] + (IF t = AssetOf[l[1]] THEN cost ELSE 0)
                                                - (IF t = l[2] THEN amount ELSE 0)]
<1>1. l \in Lots /\ l[1] = ark /\ l[2] = token /\ asset \in Tokens
  BY PairIs
<1>2. /\ auctions[l].running /\ amount <= auctions[l].remaining
      /\ paid[token] >= amount
      /\ paidFor' = [paidFor EXCEPT ![ark] = @ + cost]
      /\ \/ /\ amount = auctions[l].remaining
            /\ SettleAuction(l, 0, waiting, balance)
         \/ /\ amount # auctions[l].remaining
            /\ auctions' = [auctions EXCEPT ![l].remaining = @ - amount]
            /\ paymentTokensToBoard' = [paymentTokensToBoard EXCEPT ![l] = waiting]
            /\ raftBalance' = balance
            /\ UNCHANGED <<unsoldTokens, arkBalance, boarded>>
      /\ UNCHANGED <<obtainedTokens, configVars, socialized, now, incomes>>
  BY DEF BuyTokens, Available
<1> HIDE DEF l
<1>3. cost \in Nat
  BY <1>1, <1>2, CurrentPriceNat, CostNat
<1> HIDE DEF cost, asset
<1>4. /\ TypeOK /\ paymentTokensToBoard[l] \in Nat /\ auctions[l] \in Auctions
      /\ auctions[l].remaining \in Nat /\ unsoldTokens[l] \in Nat
      /\ raftBalance \in [Tokens -> Nat] /\ auctions \in [Lots -> Auctions]
      /\ unsoldTokens \in [Lots -> Nat] /\ paidFor \in [Arks -> Nat]
      /\ paymentTokensToBoard \in [Lots -> Nat] /\ boarded \in [Arks -> Nat]
      /\ arkBalance \in [Lots -> Nat]
  BY <1>1, Types DEF RaftInv, TypeOK
<1>5. paid \in [Tokens -> Nat]
  BY <1>1, <1>3, <1>4
<1>6. balance \in [Tokens -> Nat]
  BY <1>2, <1>5
<1>7. waiting \in Nat
  BY <1>3, <1>4
<1>8. balance = net
  <2>1. ASSUME NEW t \in Tokens PROVE balance[t] = net[t]
    <3>1. raftBalance[t] \in Nat /\ paid[t] = raftBalance[t] + (IF t = asset THEN cost ELSE 0)
      BY <1>1, <1>3, <1>4
    <3>2. balance[t] = paid[t] - (IF t = token THEN amount ELSE 0)
      BY <1>5
    <3>3. net[t] = raftBalance[t] + (IF t = asset THEN cost ELSE 0)
                      - (IF t = token THEN amount ELSE 0)
      BY <1>1 DEF asset
    <3> HIDE DEF paid, balance, net
    <3> QED
      BY <1>3, <3>1, <3>2, <3>3
  <2>2. net = [t \in Tokens |-> net[t]] /\ balance = [t \in Tokens |-> balance[t]]
    BY <1>6
  <2> HIDE DEF net, balance
  <2> QED
    BY <2>1, <2>2
<1> HIDE DEF paid, balance, net, waiting
<1>9. /\ paidFor' \in [Arks -> Nat] /\ paidFor'[l[1]] = paidFor[l[1]] + cost
      /\ \A a \in Arks : a # l[1] => paidFor'[a] = paidFor[a]
  BY <1>1, <1>2, <1>3, <1>4
<1>10. obtainedTokens' = obtainedTokens /\ socialized' = socialized
  BY <1>2
<1>11. CASE amount = auctions[l].remaining /\ SettleAuction(l, 0, waiting, balance)
  <2> DEFINE sent == SentAtOnce(l[1], waiting)
  <2>1. /\ sent \in Nat
        /\ l[1] \notin KeeperDataArks => sent = waiting
        /\ Outcome(l, waiting, sent, balance)
    <3>1. sent \in Nat /\ (l[1] \notin KeeperDataArks => sent = waiting)
      BY <1>7 DEF SentAtOnce
    <3>2. Outcome(l, waiting, sent, balance)
      BY <1>1, <1>4, <1>6, <1>7, <1>11, SettleFacts
    <3> QED
      BY <3>1, <3>2
  <2> HIDE DEF sent
  <2>2. /\ auctions' = [auctions EXCEPT ![l] = NoAuction]
        /\ unsoldTokens' = [unsoldTokens EXCEPT ![l] = @ + 0]
    BY <1>1, <1>4, <1>6, <1>7, <1>11, SettleFacts
  <2>3. NoAuction \in Auctions /\ NoAuction.remaining = 0
    BY DEF NoAuction, Auctions
  <2>4. /\ auctions' \in [Lots -> Auctions] /\ auctions'[l] = NoAuction
        /\ \A m \in Lots : m # l => auctions'[m] = auctions[m]
    BY <1>1, <1>4, <2>2, <2>3
  <2>5. /\ unsoldTokens' \in [Lots -> Nat] /\ unsoldTokens'[l] = unsoldTokens[l]
        /\ \A m \in Lots : m # l => unsoldTokens'[m] = unsoldTokens[m]
    BY <1>1, <1>4, <2>2
  <2>6. auctions'[l].remaining = 0
    BY <2>3, <2>4
  <2>7. unsoldTokens'[l] + auctions'[l].remaining + amount = unsoldTokens[l] + auctions[l].remaining
    BY <1>4, <1>11, <2>5, <2>6
  <2>8. Trade(l, amount, cost, sent)
    BY <1>8, <1>9, <1>10, <2>1, <2>4, <2>5, <2>7 DEF Trade, net, waiting
  <2>9. l[1] \notin KeeperDataArks => paymentTokensToBoard'[l] = 0
    BY <1>7, <2>1 DEF Outcome
  <2>10. AuctionMoves(l)
    BY <1>1, <2>4, <2>9, EndedMoves
  <2> QED
    BY <1>1, <1>2, <1>3, <1>9, <2>1, <2>4, <2>5, <2>8, <2>10, SellKeeps
<1>12. CASE /\ amount # auctions[l].remaining
            /\ auctions' = [auctions EXCEPT ![l].remaining = @ - amount]
            /\ paymentTokensToBoard' = [paymentTokensToBoard EXCEPT ![l] = waiting]
            /\ raftBalance' = balance
            /\ UNCHANGED <<unsoldTokens, arkBalance, boarded>>
  <2> DEFINE auction == [auctions[l] EXCEPT !.remaining = @ - amount]
  <2>1. auctions[l].remaining - amount \in Nat
    BY <1>2, <1>4
  <2>2. /\ auction \in Auctions /\ auction.remaining = auctions[l].remaining - amount
        /\ auction.running = auctions[l].running /\ SameTerms(auction, auctions[l])
    BY <1>4, <2>1 DEF Auctions, SameTerms
  <2>3. auctions' = [auctions EXCEPT ![l] = auction]
    BY <1>12
  <2> HIDE DEF auction
  <2>4. /\ auctions' \in [Lots -> Auctions] /\ auctions'[l] = auction
        /\ \A m \in Lots : m # l => auctions'[m] = auctions[m]
    BY <1>1, <1>4, <2>2, <2>3
  <2>5. /\ unsoldTokens' = unsoldTokens /\ arkBalance' = arkBalance /\ boarded' = boarded
        /\ now' = now
    BY <1>2, <1>12
  <2>6. unsoldTokens'[l] + auctions'[l].remaining + amount = unsoldTokens[l] + auctions[l].remaining
    BY <1>4, <2>1, <2>2, <2>4, <2>5
  <2>7. /\ paymentTokensToBoard' \in [Lots -> Nat] /\ paymentTokensToBoard'[l] = waiting - 0
        /\ \A m \in Lots : m # l => paymentTokensToBoard'[m] = paymentTokensToBoard[m]
    BY <1>1, <1>4, <1>7, <1>12
  <2>8. /\ raftBalance' \in [Tokens -> Nat]
        /\ \A t \in Tokens : raftBalance'[t] = balance[t] - (IF t = AssetOf[l[1]] THEN 0 ELSE 0)
    <3>1. \A t \in Tokens : balance[t] \in Nat /\ raftBalance'[t] = balance[t]
      BY <1>6, <1>12
    <3> QED
      BY <1>6, <1>12, <3>1
  <2>9. boarded'[l[1]] = boarded[l[1]] + 0
    <3>1. boarded[l[1]] \in Nat
      BY <1>1, <1>4
    <3> QED
      BY <2>5, <3>1
  <2>10. Outcome(l, waiting, 0, balance)
    BY <1>4, <1>7, <2>5, <2>7, <2>8, <2>9 DEF Outcome
  <2>11. Trade(l, amount, cost, 0)
    BY <1>8, <1>9, <1>10, <2>4, <2>5, <2>6, <2>10 DEF Trade, net, waiting
  <2>12. AuctionMoves(l)
    <3>1. Sound(auctions[l], now)
      BY <1>1 DEF RaftInv
    <3>2. Sound(auction, now)
      BY <1>2, <2>2, <3>1 DEF Sound, SameTerms
    <3> QED
      BY <1>2, <2>2, <2>4, <2>5, <3>2 DEF AuctionMoves
  <2> QED
    BY <1>1, <1>2, <1>3, <1>4, <1>9, <2>4, <2>5, <2>11, <2>12, SellKeeps
<1> QED
  BY <1>2, <1>11, <1>12

\* The end of an auction by its time.
LEMMA FinalizeKeeps ==
    ASSUME RaftInv, NEW ark \in Arks, NEW token \in Tokens, FinalizeAuction(ark, token)
    PROVE  Kept
<1> DEFINE l == <<ark, token>>
           left == auctions[l].remaining
           waiting == paymentTokensToBoard[l]
           sent == SentAtOnce(l[1], waiting)
           net == [t \in Tokens |-> raftBalance[t] + (IF t = AssetOf[l[1]] THEN 0 ELSE 0)
                                                - (IF t = l[2] THEN 0 ELSE 0)]
<1>1. l \in Lots /\ l[1] = ark /\ l[2] = token
  BY PairIs
<1>2. /\ auctions[l].running /\ SettleAuction(l, left, waiting, raftBalance)
      /\ UNCHANGED <<obtainedTokens, configVars, paidFor, socialized, now, incomes>>
  BY DEF FinalizeAuction
<1> HIDE DEF l
<1>3. /\ TypeOK /\ waiting \in Nat /\ left \in Nat /\ unsoldTokens[l] \in Nat
      /\ raftBalance \in [Tokens -> Nat] /\ auctions \in [Lots -> Auctions]
      /\ unsoldTokens \in [Lots -> Nat] /\ paidFor \in [Arks -> Nat]
  BY <1>1, Types DEF RaftInv, TypeOK
<1>4. sent \in Nat /\ (l[1] \notin KeeperDataArks => sent = waiting)
  BY <1>3 DEF SentAtOnce
<1>5. raftBalance = net
  <2>1. \A t \in Tokens : raftBalance[t] \in Nat
    BY <1>3
  <2>2. net = [t \in Tokens |-> raftBalance[t]]
    BY <2>1
  <2> HIDE DEF net
  <2> QED
    BY <1>3, <2>2
<1>6. waiting = waiting + 0
  BY <1>3
<1> HIDE DEF net, sent
<1>7. /\ Outcome(l, waiting, sent, raftBalance)
      /\ auctions' = [auctions EXCEPT ![l] = NoAuction]
      /\ unsoldTokens' = [unsoldTokens EXCEPT ![l] = @ + left]
  BY <1>1, <1>2, <1>3, SettleFacts DEF sent
<1>8. Outcome(l, waiting + 0, sent, net)
  BY <1>5, <1>6, <1>7 DEF Outcome
<1>9. NoAuction \in Auctions /\ NoAuction.remaining = 0
  BY DEF NoAuction, Auctions
<1>10. /\ auctions' \in [Lots -> Auctions] /\ auctions'[l] = NoAuction
       /\ \A m \in Lots : m # l => auctions'[m] = auctions[m]
  BY <1>1, <1>3, <1>7, <1>9
<1>11. /\ unsoldTokens' \in [Lots -> Nat] /\ unsoldTokens'[l] = unsoldTokens[l] + left
       /\ \A m \in Lots : m # l => unsoldTokens'[m] = unsoldTokens[m]
  BY <1>1, <1>3, <1>7
<1>12. auctions'[l].remaining = 0
  BY <1>9, <1>10
<1>13. unsoldTokens'[l] + auctions'[l].remaining + 0 = unsoldTokens[l] + auctions[l].remaining
  BY <1>3, <1>11, <1>12
<1>14. /\ obtainedTokens' = obtainedTokens /\ socialized' = socialized /\ paidFor' = paidFor
       /\ paidFor'[l[1]] = paidFor[l[1]] + 0
  <2>1. paidFor[l[1]] \in Nat /\ paidFor' = paidFor
    BY <1>1, <1>2, <1>3
  <2> QED
    BY <1>2, <2>1
<1>15. Trade(l, 0, 0, sent)
  BY <1>8, <1>10, <1>11, <1>13, <1>14 DEF Trade, net
<1>16. l[1] \notin KeeperDataArks => paymentTokensToBoard'[l] = 0
  BY <1>3, <1>4, <1>7 DEF Outcome
<1>17. AuctionMoves(l)
  BY <1>1, <1>10, <1>16, EndedMoves
<1>18. 0 \in Nat /\ paidFor' \in [Arks -> Nat]
  BY <1>3, <1>14
<1> QED
  BY <1>1, <1>2, <1>4, <1>10, <1>11, <1>15, <1>17, <1>18, SellKeeps

\* A board call, in the middle of an auction or after it.
LEMMA BoardKeeps ==
    ASSUME RaftInv, NEW ark \in Arks, NEW token \in Tokens, Board(ark, token)
    PROVE  Kept
<1> DEFINE l == <<ark, token>>
           waiting == paymentTokensToBoard[l]
           net == [t \in Tokens |-> raftBalance[t] + (IF t = AssetOf[l[1]] THEN 0 ELSE 0)
                                                - (IF t = l[2] THEN 0 ELSE 0)]
<1>1. l \in Lots /\ l[1] = ark /\ l[2] = token
  BY PairIs
<1>2. /\ ark \in KeeperDataArks /\ BoardProceeds(l, waiting, raftBalance)
      /\ UNCHANGED <<obtainedTokens, unsoldTokens, auctions, configVars, paidFor, socialized,
                     now, incomes>>
  BY DEF Board
<1> HIDE DEF l
<1>3. /\ TypeOK /\ waiting \in Nat /\ auctions[l].remaining \in Nat /\ unsoldTokens[l] \in Nat
      /\ raftBalance \in [Tokens -> Nat] /\ auctions \in [Lots -> Auctions]
      /\ unsoldTokens \in [Lots -> Nat] /\ paidFor \in [Arks -> Nat]
  BY <1>1, Types DEF RaftInv, TypeOK
<1>4. raftBalance = net
  <2>1. \A t \in Tokens : raftBalance[t] \in Nat
    BY <1>3
  <2>2. net = [t \in Tokens |-> raftBalance[t]]
    BY <2>1
  <2> HIDE DEF net
  <2> QED
    BY <1>3, <2>2
<1>5. waiting = waiting + 0
  BY <1>3
<1> HIDE DEF net
<1>6. Outcome(l, waiting, waiting, raftBalance)
  BY <1>1, <1>2, <1>3, BoardFacts
<1>7. Outcome(l, waiting + 0, waiting, net)
  BY <1>4, <1>5, <1>6 DEF Outcome
<1>8. unsoldTokens'[l] + auctions'[l].remaining + 0 = unsoldTokens[l] + auctions[l].remaining
  BY <1>2, <1>3
<1>9. paidFor' = paidFor /\ paidFor'[l[1]] = paidFor[l[1]] + 0
  <2>1. paidFor[l[1]] \in Nat /\ paidFor' = paidFor
    BY <1>1, <1>2, <1>3
  <2> QED
    BY <2>1
<1>10. Trade(l, 0, 0, waiting)
  BY <1>2, <1>7, <1>8, <1>9 DEF Trade, net
<1>11. AuctionMoves(l)
  <2>1. auctions' = auctions /\ now' = now
    BY <1>2
  <2>2. Sound(auctions'[l], now')
    BY <1>1, <2>1 DEF RaftInv
  <2>3. SameTerms(auctions'[l], auctions[l])
    BY <2>1 DEF SameTerms
  <2> QED
    BY <1>1, <1>2, <2>2, <2>3 DEF AuctionMoves
<1>12. 0 \in Nat /\ /\ auctions' \in [Lots -> Auctions] /\ unsoldTokens' \in [Lots -> Nat]
                    /\ paidFor' \in [Arks -> Nat]
  BY <1>2, <1>3
<1> QED
  BY <1>1, <1>2, <1>3, <1>10, <1>11, <1>12, SellKeeps

---------------------------------------------------------------------------
(* Collecting rewards and starting auctions *)

\* The tokens of a lot that are to be auctioned, on auction or unsold.
Books(l) == obtainedTokens[l] + unsoldTokens[l] + auctions[l].remaining

\* Only the books of one ark change, for each token as much as what the Raft
\* holds, or as what it has sent away.
Collected(ark) ==
    /\ paymentTokensToBoard' = paymentTokensToBoard /\ boarded' = boarded /\ paidFor' = paidFor
    /\ \A l \in Lots : l[1] # ark => Books(l)' = Books(l)
    /\ \A t \in Tokens : raftBalance'[t] + socialized'[t] + Books(<<ark, t>>)
                            = raftBalance[t] + socialized[t] + Books(<<ark, t>>)'

\* Collecting keeps the books.
LEMMA CollectKeeps ==
    ASSUME RaftInv, TypeOK', NEW ark \in Arks, Collected(ark)
    PROVE  TokensAccountedFor' /\ ProceedsReachArk'
<1>1. /\ TypeOK
      /\ \A m \in Lots : /\ obtainedTokens[m] \in Nat /\ unsoldTokens[m] \in Nat
                         /\ paymentTokensToBoard[m] \in Nat /\ auctions[m].remaining \in Nat
      /\ \A t \in Tokens : raftBalance[t] \in Nat /\ socialized[t] \in Nat
      /\ \A a \in Arks : boarded[a] \in Nat /\ paidFor[a] \in Nat
  BY Types DEF RaftInv
<1>2. /\ \A m \in Lots : /\ obtainedTokens'[m] \in Nat /\ unsoldTokens'[m] \in Nat
                         /\ auctions'[m] \in Auctions
      /\ \A t \in Tokens : raftBalance'[t] \in Nat /\ socialized'[t] \in Nat
  BY DEF TypeOK
<1>3. \A m \in Lots : auctions'[m].remaining \in Nat
  BY <1>2 DEF Auctions
<1>4. ASSUME NEW t \in Tokens PROVE Accounted(<<ark, t>>, t)
  <2> DEFINE l == <<ark, t>>
  <2>1. l \in Lots /\ l[1] = ark /\ l[2] = t
    BY PairIs
  <2>2. ASSUME NEW m \in Lots, m # l PROVE Claim(m, t)' = Claim(m, t)
    <3>1. m[1] # ark \/ m[2] # t
      BY <2>2, LotIs
    <3>2. Claim(m, t) = (IF m[2] = t THEN Books(m) ELSE 0)
                        + (IF AssetOf[m[1]] = t THEN paymentTokensToBoard[m] ELSE 0)
      BY DEF Claim, Books
    <3>3. Claim(m, t)' = (IF m[2] = t THEN Books(m)' ELSE 0)
                         + (IF AssetOf[m[1]] = t THEN paymentTokensToBoard'[m] ELSE 0)
      BY DEF Claim, Books
    <3> QED
      BY <3>1, <3>2, <3>3 DEF Collected
  <2>3. raftBalance'[t] + socialized'[t] + Claim(l, t)
          = raftBalance[t] + socialized[t] + Claim(l, t)'
    <3> DEFINE rest == IF AssetOf[ark] = t THEN paymentTokensToBoard[l] ELSE 0
    <3>1. rest \in Nat
      BY <1>1, <2>1
    <3>2. Books(l) \in Nat /\ Books(l)' \in Nat
      BY <1>1, <1>2, <1>3, <2>1 DEF Books
    <3>3. Claim(l, t) = Books(l) + rest /\ Claim(l, t)' = Books(l)' + rest
      BY <2>1 DEF Claim, Books, Collected
    <3>4. raftBalance'[t] + socialized'[t] + Books(l) = raftBalance[t] + socialized[t] + Books(l)'
      BY DEF Collected
    <3> HIDE DEF rest
    <3> QED
      BY <1>1, <1>2, <3>1, <3>2, <3>3, <3>4
  <2> QED
    BY <2>2, <2>3 DEF Accounted
<1>5. TokensAccountedFor'
  <2>1. \A t \in Tokens : \E m \in Lots : Accounted(m, t)
    BY <1>4, PairIs
  <2> QED
    BY <1>1, <2>1, AccountKept DEF RaftInv
<1>6. ProceedsReachArk'
  <2>1. /\ paidFor' = paidFor /\ boarded' = boarded
        /\ paymentTokensToBoard' = paymentTokensToBoard
    BY DEF Collected
  <2>2. ASSUME NEW a \in Arks PROVE \E x \in Tokens : PaidOn(a, x)
    <3>1. AssetOf[a] \in Tokens
      BY ArkAssumption
    <3>2. PaidOn(a, AssetOf[a])
      BY <2>1 DEF PaidOn
    <3> QED
      BY <3>1, <3>2
  <2> QED
    BY <1>1, <2>2, ProceedsKept DEF RaftInv
<1> QED
  BY <1>5, <1>6

\* The kicker is not paid more than what is put on auction.
LEMMA RewardWithin ==
    ASSUME NEW total \in Nat, NEW percentage \in Nat, percentage <= Hundred
    PROVE  /\ ApplyPercentage(total, percentage, Hundred) \in Nat
           /\ ApplyPercentage(total, percentage, Hundred) <= total
  BY UnitAssumption, PartWithin DEF ApplyPercentage

\* What is put on auction and what the kicker gets of it.
Total(ark, t, obtained) == obtained[<<ark, t>>] + unsoldTokens[<<ark, t>>]
Reward(ark, t, obtained) ==
    ApplyPercentage(Total(ark, t, obtained),
                    arkAuctionParameters[<<ark, t>>].kickerRewardPercentage, Hundred)

\* What the start of an auction does to a lot of the ark.
Started(ark, t, obtained, balance) ==
    /\ ~auctions[<<ark, t>>].running /\ auctions'[<<ark, t>>].running
    /\ Sound(auctions'[<<ark, t>>], now)
    /\ auctions'[<<ark, t>>].remaining \in Nat
    /\ obtainedTokens'[<<ark, t>>] = 0 /\ unsoldTokens'[<<ark, t>>] = 0
    /\ raftBalance'[t] + obtained[<<ark, t>>] + unsoldTokens[<<ark, t>>]
          = balance[t] + auctions'[<<ark, t>>].remaining

\* Each of the auctions gets what was obtained and unsold but for the reward, and
\* no other lot changes.
LEMMA StartFacts ==
    ASSUME TypeOK, NEW ark \in Arks, NEW tokens \in SUBSET Tokens,
           NEW obtained \in [Lots -> Nat], NEW balance \in [Tokens -> Nat],
           StartAuctions(ark, tokens, obtained, balance)
    PROVE  /\ auctions' \in [Lots -> Auctions] /\ obtainedTokens' \in [Lots -> Nat]
           /\ unsoldTokens' \in [Lots -> Nat] /\ raftBalance' \in [Tokens -> Nat]
           /\ \A t \in tokens : Started(ark, t, obtained, balance)
           /\ \A t \in Tokens \ tokens : raftBalance'[t] = balance[t]
           /\ \A l \in Lots : ~(l[1] = ark /\ l[2] \in tokens) =>
                 /\ auctions'[l] = auctions[l] /\ obtainedTokens'[l] = obtained[l]
                 /\ unsoldTokens'[l] = unsoldTokens[l]
<1> DEFINE params(t) == arkAuctionParameters[<<ark, t>>]
           total(t) == Total(ark, t, obtained)
           reward(t) == Reward(ark, t, obtained)
           auction(t) == [running |-> TRUE, remaining |-> total(t) - reward(t), startTime |-> now,
                          endTime |-> now + params(t).duration,
                          startPrice |-> params(t).startPrice, endPrice |-> params(t).endPrice,
                          decayType |-> params(t).decayType]
<1>1. /\ \A t \in tokens : /\ params(t).duration # 0 /\ ~auctions[<<ark, t>>].running
                           /\ params(t).startPrice > params(t).endPrice
                           /\ params(t).kickerRewardPercentage <= Hundred
                           /\ balance[t] >= reward(t)
      /\ auctions' = [l \in Lots |-> IF l \in {ark} \X tokens THEN auction(l[2]) ELSE auctions[l]]
      /\ obtainedTokens' = [l \in Lots |-> IF l \in {ark} \X tokens THEN 0 ELSE obtained[l]]
      /\ unsoldTokens' = [l \in Lots |-> IF l \in {ark} \X tokens THEN 0 ELSE unsoldTokens[l]]
      /\ raftBalance' = [t \in Tokens |-> IF t \in tokens THEN balance[t] - reward(t)
                                                          ELSE balance[t]]
  BY DEF StartAuctions, Total, Reward, UnsoldAfter
<1>2. \A t \in Tokens : /\ <<ark, t>> \in Lots /\ <<ark, t>>[1] = ark /\ <<ark, t>>[2] = t
  BY PairIs
<1>3. /\ now \in Nat
      /\ \A t \in Tokens : /\ unsoldTokens[<<ark, t>>] \in Nat /\ obtained[<<ark, t>>] \in Nat
                           /\ params(t) \in Params
  BY <1>2, Types
<1>4. \A t \in Tokens : /\ params(t).duration \in Nat /\ params(t).startPrice \in Nat
                        /\ params(t).endPrice \in Nat /\ params(t).kickerRewardPercentage \in Nat
                        /\ params(t).decayType \in {"Linear", "Quadratic"}
  BY <1>3 DEF Params
<1>5. \A t \in Tokens : total(t) \in Nat
  BY <1>3 DEF Total
<1>6. ASSUME NEW t \in tokens PROVE reward(t) \in Nat /\ reward(t) <= total(t)
  BY <1>1, <1>4, <1>5, RewardWithin DEF Reward
<1>7. ASSUME NEW t \in tokens
      PROVE  /\ auction(t) \in Auctions /\ auction(t).running /\ Sound(auction(t), now)
             /\ auction(t).remaining \in Nat /\ auction(t).remaining = total(t) - reward(t)
  <2>1. total(t) - reward(t) \in Nat
    BY <1>5, <1>6
  <2>2. now + params(t).duration \in Nat /\ now < now + params(t).duration
    BY <1>1, <1>3, <1>4
  <2> HIDE DEF total, reward
  <2>3. auction(t) \in Auctions
    BY <1>3, <1>4, <2>1, <2>2 DEF Auctions
  <2>4. Sound(auction(t), now)
    BY <1>1, <1>3, <2>2 DEF Sound
  <2> QED
    BY <2>1, <2>3, <2>4
<1>8. \A l \in Lots : l \in {ark} \X tokens <=> l[1] = ark /\ l[2] \in tokens
  BY AmongLots
<1> HIDE DEF auction, params, total, reward
<1>9. \A l \in Lots : /\ l[1] = ark /\ l[2] \in tokens => /\ auctions'[l] = auction(l[2])
                                                          /\ obtainedTokens'[l] = 0
                                                          /\ unsoldTokens'[l] = 0
                      /\ ~(l[1] = ark /\ l[2] \in tokens) =>
                            /\ auctions'[l] = auctions[l] /\ obtainedTokens'[l] = obtained[l]
                            /\ unsoldTokens'[l] = unsoldTokens[l]
  BY <1>1, <1>8
<1>10. /\ auctions \in [Lots -> Auctions] /\ unsoldTokens \in [Lots -> Nat]
  BY DEF TypeOK
<1>11. auctions' \in [Lots -> Auctions]
  <2>1. \A l \in Lots : auctions'[l] \in Auctions
    BY <1>7, <1>9, <1>10
  <2>2. auctions' = [l \in Lots |-> auctions'[l]]
    BY <1>1
  <2> QED
    BY <2>1, <2>2
<1>12. obtainedTokens' \in [Lots -> Nat] /\ unsoldTokens' \in [Lots -> Nat]
  BY <1>1, <1>10
<1>13. /\ \A t \in tokens : raftBalance'[t] = balance[t] - reward(t) /\ balance[t] \in Nat
                            /\ raftBalance'[t] \in Nat
       /\ \A t \in Tokens \ tokens : raftBalance'[t] = balance[t]
       /\ raftBalance' \in [Tokens -> Nat]
  <2>1. \A t \in Tokens : balance[t] \in Nat
    OBVIOUS
  <2>2. ASSUME NEW t \in tokens PROVE balance[t] - reward(t) \in Nat
    <3>1. balance[t] >= reward(t)
      BY <1>1
    <3>2. balance[t] \in Nat /\ reward(t) \in Nat
      BY <1>6, <2>1
    <3> QED
      BY <3>1, <3>2
  <2>3. raftBalance' = [t \in Tokens |-> IF t \in tokens THEN balance[t] - reward(t)
                                                         ELSE balance[t]]
    BY <1>1
  <2> QED
    BY <2>1, <2>2, <2>3
<1>14. ASSUME NEW t \in tokens PROVE Started(ark, t, obtained, balance)
  <2> DEFINE l == <<ark, t>>
  <2>1. l \in Lots /\ l[1] = ark /\ l[2] = t
    BY <1>2
  <2>2. /\ auctions'[l] = auction(t) /\ obtainedTokens'[l] = 0 /\ unsoldTokens'[l] = 0
    BY <1>9, <2>1
  <2>3. /\ ~auctions[l].running /\ auctions'[l].running /\ Sound(auctions'[l], now)
        /\ auctions'[l].remaining \in Nat /\ auctions'[l].remaining = total(t) - reward(t)
    BY <1>1, <1>7, <2>2
  <2>4. raftBalance'[t] + obtained[l] + unsoldTokens[l] = balance[t] + auctions'[l].remaining
    <3>1. total(t) = obtained[l] + unsoldTokens[l]
      BY DEF total, Total
    <3>2. reward(t) \in Nat /\ obtained[l] \in Nat /\ unsoldTokens[l] \in Nat
      BY <1>3, <1>6
    <3> QED
      BY <1>13, <2>3, <3>1, <3>2
  <2> QED
    BY <2>2, <2>3, <2>4 DEF Started
<1> QED
  BY <1>9, <1>11, <1>12, <1>13, <1>14

\* Starting auctions of some tokens of an ark, after what was noted and received of
\* them, keeps the whole invariant: `gain` is what came of each token.
LEMMA StartKeeps ==
    ASSUME RaftInv, NEW ark \in Arks, NEW tokens \in SUBSET Tokens,
           NEW obtained \in [Lots -> Nat], NEW balance \in [Tokens -> Nat],
           NEW gain \in [Tokens -> Nat],
           StartAuctions(ark, tokens, obtained, balance),
           \A t \in Tokens : balance[t] = raftBalance[t] + gain[t],
           \A l \in Lots : obtained[l] = obtainedTokens[l]
                                            + (IF l[1] = ark THEN gain[l[2]] ELSE 0),
           arkBalance' \in [Lots -> Nat], incomes' \in Nat,
           UNCHANGED <<paymentTokensToBoard, configVars, boarded, paidFor, socialized, now>>
    PROVE  Kept
<1>1. /\ TypeOK /\ NoPaymentLeftBehind /\ \A m \in Lots : Sound(auctions[m], now)
  BY DEF RaftInv
<1>2. /\ auctions' \in [Lots -> Auctions] /\ obtainedTokens' \in [Lots -> Nat]
      /\ unsoldTokens' \in [Lots -> Nat] /\ raftBalance' \in [Tokens -> Nat]
      /\ \A t \in tokens : Started(ark, t, obtained, balance)
      /\ \A t \in Tokens \ tokens : raftBalance'[t] = balance[t]
      /\ \A l \in Lots : ~(l[1] = ark /\ l[2] \in tokens) =>
            /\ auctions'[l] = auctions[l] /\ obtainedTokens'[l] = obtained[l]
            /\ unsoldTokens'[l] = unsoldTokens[l]
  BY <1>1, StartFacts
<1>3. /\ paymentTokensToBoard' = paymentTokensToBoard
      /\ arkAuctionParameters' = arkAuctionParameters
      /\ sweepableTokens' = sweepableTokens /\ nonSweepableTokens' = nonSweepableTokens
      /\ boarded' = boarded /\ paidFor' = paidFor /\ socialized' = socialized /\ now' = now
  BY DEF configVars
<1>4. TypeOK'
  BY <1>1, <1>2, <1>3 DEF TypeOK
<1>5. /\ \A m \in Lots : /\ obtainedTokens[m] \in Nat /\ unsoldTokens[m] \in Nat
                         /\ auctions[m].remaining \in Nat
      /\ \A t \in Tokens : raftBalance[t] \in Nat /\ socialized[t] \in Nat
  BY <1>1, Types
<1>6. Collected(ark)
  <2>1. ASSUME NEW m \in Lots, m[1] # ark PROVE Books(m)' = Books(m)
    <3>1. /\ auctions'[m] = auctions[m] /\ obtainedTokens'[m] = obtained[m]
          /\ unsoldTokens'[m] = unsoldTokens[m] /\ obtained[m] = obtainedTokens[m] + 0
      BY <1>2, <2>1
    <3>2. obtained[m] = obtainedTokens[m]
      BY <1>5, <3>1
    <3> QED
      BY <3>1, <3>2 DEF Books
  <2>2. ASSUME NEW t \in Tokens
        PROVE  raftBalance'[t] + socialized'[t] + Books(<<ark, t>>)
                  = raftBalance[t] + socialized[t] + Books(<<ark, t>>)'
    <3> DEFINE l == <<ark, t>>
    <3>1. l \in Lots /\ l[1] = ark /\ l[2] = t
      BY PairIs
    <3> HIDE DEF l
    <3>2. balance[t] = raftBalance[t] + gain[t] /\ obtained[l] = obtainedTokens[l] + gain[t]
          /\ gain[t] \in Nat /\ raftBalance[t] \in Nat /\ socialized[t] \in Nat
          /\ socialized'[t] = socialized[t]
          /\ obtainedTokens[l] \in Nat /\ unsoldTokens[l] \in Nat /\ auctions[l].remaining \in Nat
      BY <1>3, <1>5, <3>1
    <3>3. CASE t \in tokens
      <4>1. Started(ark, t, obtained, balance)
        BY <1>2, <3>3
      <4>2. auctions[l].remaining = 0
        BY <1>1, <3>1, <4>1 DEF Started, Sound, l
      <4>3. /\ auctions'[l].remaining \in Nat /\ obtainedTokens'[l] = 0 /\ unsoldTokens'[l] = 0
            /\ raftBalance'[t] + obtained[l] + unsoldTokens[l] = balance[t] + auctions'[l].remaining
        BY <4>1 DEF Started, l
      <4>4. raftBalance'[t] \in Nat
        BY <1>2
      <4>5. raftBalance'[t] + socialized'[t] + Books(l) = raftBalance[t] + socialized[t] + Books(l)'
        BY <3>2, <4>2, <4>3, <4>4 DEF Books
      <4> QED
        BY <4>5 DEF l
    <3>4. CASE t \notin tokens
      <4>1. /\ raftBalance'[t] = balance[t] /\ auctions'[l] = auctions[l]
            /\ obtainedTokens'[l] = obtained[l] /\ unsoldTokens'[l] = unsoldTokens[l]
        BY <1>2, <3>1, <3>4
      <4>2. raftBalance'[t] + socialized'[t] + Books(l) = raftBalance[t] + socialized[t] + Books(l)'
        BY <3>2, <4>1 DEF Books
      <4> QED
        BY <4>2 DEF l
    <3> QED
      BY <3>3, <3>4
  <2> QED
    BY <1>3, <2>1, <2>2 DEF Collected
<1>7. TokensAccountedFor' /\ ProceedsReachArk'
  BY <1>4, <1>6, CollectKeeps
<1>8. ASSUME NEW l \in Lots PROVE AuctionMoves(l)
  <2>1. CASE l[1] = ark /\ l[2] \in tokens
    <3>1. l = <<ark, l[2]>>
      BY <2>1, LotIs
    <3>2. /\ ~auctions[l].running /\ auctions'[l].running /\ Sound(auctions'[l], now)
      BY <1>2, <2>1, <3>1 DEF Started
    <3> QED
      BY <1>3, <3>2 DEF AuctionMoves
  <2>2. CASE ~(l[1] = ark /\ l[2] \in tokens)
    <3>1. auctions'[l] = auctions[l]
      BY <1>2, <2>2
    <3>2. Sound(auctions'[l], now') /\ SameTerms(auctions'[l], auctions[l])
      BY <1>1, <1>3, <3>1 DEF SameTerms
    <3> QED
      BY <1>1, <1>3, <3>1, <3>2 DEF AuctionMoves, NoPaymentLeftBehind
  <2> QED
    BY <2>1, <2>2
<1>9. now \in Nat /\ now' \in Nat /\ now <= now'
  BY <1>1, <1>3 DEF TypeOK
<1> QED
  BY <1>4, <1>7, <1>8, <1>9 DEF Kept

\* A step that leaves auctions and payments alone moves no auction.
LEMMA StillMoves ==
    ASSUME RaftInv, UNCHANGED <<auctions, paymentTokensToBoard>>,
           now' \in Nat, now <= now', NEW l \in Lots
    PROVE  AuctionMoves(l)
<1>1. /\ Sound(auctions[l], now) /\ auctions' = auctions /\ now \in Nat
      /\ paymentTokensToBoard' = paymentTokensToBoard
      /\ NoPaymentLeftBehind /\ auctions[l] \in Auctions
  BY Types DEF RaftInv
<1>2. auctions[l].startTime \in Nat
  BY <1>1 DEF Auctions
<1>3. Sound(auctions[l], now')
  BY <1>1, <1>2 DEF Sound
<1>4. SameTerms(auctions'[l], auctions[l])
  BY <1>1 DEF SameTerms
<1>5. l[1] \notin KeeperDataArks /\ ~auctions'[l].running => paymentTokensToBoard'[l] = 0
  BY <1>1 DEF NoPaymentLeftBehind
<1> QED
  BY <1>1, <1>3, <1>4, <1>5 DEF AuctionMoves

\* Noting what was brought, and either holding it or sending it away, keeps the
\* whole invariant: `gain` is what came of each token.
LEMMA GatherKeeps ==
    ASSUME RaftInv, NEW ark \in Arks, NEW gain \in [Tokens -> Nat],
           obtainedTokens' \in [Lots -> Nat],
           \A l \in Lots : obtainedTokens'[l] = obtainedTokens[l]
                                                   + (IF l[1] = ark THEN gain[l[2]] ELSE 0),
           raftBalance' \in [Tokens -> Nat], socialized' \in [Tokens -> Nat],
           \A t \in Tokens : raftBalance'[t] + socialized'[t]
                                = raftBalance[t] + socialized[t] + gain[t],
           arkBalance' \in [Lots -> Nat], incomes' \in Nat,
           UNCHANGED <<unsoldTokens, paymentTokensToBoard, auctions, configVars, boarded, paidFor,
                       now>>
    PROVE  Kept
<1>1. TypeOK
  BY DEF RaftInv
<1>2. /\ unsoldTokens' = unsoldTokens /\ paymentTokensToBoard' = paymentTokensToBoard
      /\ auctions' = auctions /\ arkAuctionParameters' = arkAuctionParameters
      /\ sweepableTokens' = sweepableTokens /\ nonSweepableTokens' = nonSweepableTokens
      /\ boarded' = boarded /\ paidFor' = paidFor /\ now' = now
  BY DEF configVars
<1>3. TypeOK'
  BY <1>1, <1>2 DEF TypeOK
<1>4. /\ \A m \in Lots : /\ obtainedTokens[m] \in Nat /\ unsoldTokens[m] \in Nat
                         /\ auctions[m].remaining \in Nat
      /\ \A t \in Tokens : raftBalance[t] \in Nat /\ socialized[t] \in Nat
      /\ now \in Nat
  BY <1>1, Types
<1>5. Collected(ark)
  <2>1. ASSUME NEW m \in Lots, m[1] # ark PROVE Books(m)' = Books(m)
    <3>1. obtainedTokens'[m] = obtainedTokens[m] + 0
      BY <2>1
    <3>2. obtainedTokens'[m] = obtainedTokens[m]
      BY <1>4, <3>1
    <3> QED
      BY <1>2, <3>2 DEF Books
  <2>2. ASSUME NEW t \in Tokens
        PROVE  raftBalance'[t] + socialized'[t] + Books(<<ark, t>>)
                  = raftBalance[t] + socialized[t] + Books(<<ark, t>>)'
    <3> DEFINE l == <<ark, t>>
    <3>1. l \in Lots /\ l[1] = ark /\ l[2] = t
      BY PairIs
    <3> HIDE DEF l
    <3>2. /\ obtainedTokens'[l] = obtainedTokens[l] + gain[t]
          /\ raftBalance'[t] + socialized'[t] = raftBalance[t] + socialized[t] + gain[t]
          /\ gain[t] \in Nat /\ obtainedTokens[l] \in Nat /\ unsoldTokens[l] \in Nat
          /\ auctions[l].remaining \in Nat /\ raftBalance[t] \in Nat /\ socialized[t] \in Nat
          /\ raftBalance'[t] \in Nat /\ socialized'[t] \in Nat
      BY <1>4, <3>1
    <3>3. raftBalance'[t] + socialized'[t] + Books(l) = raftBalance[t] + socialized[t] + Books(l)'
      BY <1>2, <3>2 DEF Books
    <3> QED
      BY <3>3 DEF l
  <2> QED
    BY <1>2, <2>1, <2>2 DEF Collected
<1>6. TokensAccountedFor' /\ ProceedsReachArk'
  BY <1>3, <1>5, CollectKeeps
<1>7. now' \in Nat /\ now <= now'
  BY <1>2, <1>4
<1>8. \A l \in Lots : AuctionMoves(l)
  BY <1>2, <1>7, StillMoves
<1> QED
  BY <1>3, <1>4, <1>6, <1>7, <1>8 DEF Kept

\* What was brought of every token.
Gain(amounts) == [t \in Tokens |-> IF t \in DOMAIN amounts THEN amounts[t] ELSE 0]

\* Noting adds what was brought to the books.
LEMMA NotedFacts ==
    ASSUME TypeOK, NEW ark \in Arks, NEW tokens \in SUBSET Tokens, NEW amounts \in [tokens -> Nat]
    PROVE  /\ Gain(amounts) \in [Tokens -> Nat]
           /\ Noted(ark, amounts) \in [Lots -> Nat]
           /\ \A l \in Lots : Noted(ark, amounts)[l]
                               = obtainedTokens[l] + (IF l[1] = ark THEN Gain(amounts)[l[2]] ELSE 0)
<1>1. DOMAIN amounts = tokens /\ \A t \in tokens : amounts[t] \in Nat
  OBVIOUS
<1>2. \A l \in Lots : obtainedTokens[l] \in Nat /\ l[2] \in Tokens
  BY Types, LotIs
<1>3. /\ Gain(amounts) \in [Tokens -> Nat]
      /\ \A t \in Tokens : Gain(amounts)[t] = IF t \in tokens THEN amounts[t] ELSE 0
  BY <1>1 DEF Gain
<1>4. \A l \in Lots : Noted(ark, amounts)[l]
                         = obtainedTokens[l] + (IF l[1] = ark THEN Gain(amounts)[l[2]] ELSE 0)
  BY <1>1, <1>2, <1>3 DEF Noted
<1>5. Noted(ark, amounts) \in [Lots -> Nat]
  BY <1>1, <1>2 DEF Noted
<1> QED
  BY <1>3, <1>4, <1>5

\* Receiving adds it to the holdings.
LEMMA ReceivedFacts ==
    ASSUME NEW tokens \in SUBSET Tokens, NEW amounts \in [tokens -> Nat],
           NEW balance \in [Tokens -> Nat]
    PROVE  /\ Received(balance, amounts) \in [Tokens -> Nat]
           /\ \A t \in Tokens : Received(balance, amounts)[t] = balance[t] + Gain(amounts)[t]
<1>1. /\ DOMAIN amounts = tokens /\ \A t \in tokens : amounts[t] \in Nat
      /\ \A t \in Tokens : balance[t] \in Nat
  OBVIOUS
<1>2. \A t \in Tokens : Gain(amounts)[t] = IF t \in tokens THEN amounts[t] ELSE 0
  BY <1>1 DEF Gain
<1> QED
  BY <1>1, <1>2 DEF Received

\* What an ark has been swept of, and what it and its buffer are left with.
LEMMA SweptFacts ==
    ASSUME TypeOK, NEW ark \in Arks, NEW tokens \in SUBSET Tokens
    PROVE  /\ IdleBoarded(ark) \in [Lots -> Nat]
           /\ Swept(ark, tokens) \in [tokens -> Nat]
           /\ SweepArk(ark, tokens) => arkBalance' \in [Lots -> Nat]
<1> DEFINE mine == <<ark, AssetOf[ark]>>
           other == <<BufferOf[ark], AssetOf[ark]>>
<1>1. mine \in Lots /\ other \in Lots /\ arkBalance \in [Lots -> Nat]
  <2>1. AssetOf[ark] \in Tokens /\ BufferOf[ark] \in Arks
    BY ArkAssumption
  <2> QED
    BY <2>1, PairIs DEF TypeOK
<1>2. IdleBoarded(ark) = IF BufferOf[ark] = ark THEN arkBalance
         ELSE [arkBalance EXCEPT ![mine] = 0, ![other] = @ + arkBalance[mine]]
  BY DEF IdleBoarded
<1> HIDE DEF mine, other
<1>3. IdleBoarded(ark) \in [Lots -> Nat]
  <2>1. CASE BufferOf[ark] = ark
    BY <1>1, <1>2, <2>1
  <2>2. CASE BufferOf[ark] # ark
    <3>1. IdleBoarded(ark) = [arkBalance EXCEPT ![mine] = 0, ![other] = @ + arkBalance[mine]]
      BY <1>2, <2>2
    <3> QED
      BY <1>1, <3>1
  <2> QED
    BY <2>1, <2>2
<1>4. \A t \in tokens : <<ark, t>> \in Lots
  BY PairIs
<1>5. Swept(ark, tokens) \in [tokens -> Nat]
  BY <1>3, <1>4 DEF Swept
<1>6. ASSUME SweepArk(ark, tokens) PROVE arkBalance' \in [Lots -> Nat]
  BY <1>3, <1>6 DEF SweepArk
<1> QED
  BY <1>3, <1>5, <1>6

\* A harvest.
LEMMA HarvestKeeps ==
    ASSUME RaftInv, NEW ark \in Arks, NEW tokens \in SUBSET Tokens, NEW amounts \in [tokens -> Nat],
           Harvest(ark, amounts)
    PROVE  Kept
<1> DEFINE gain == Gain(amounts)
<1>1. /\ TypeOK /\ raftBalance \in [Tokens -> Nat] /\ socialized \in [Tokens -> Nat]
      /\ arkBalance \in [Lots -> Nat] /\ incomes \in Nat
  BY DEF RaftInv, TypeOK
<1>2. /\ obtainedTokens' = Noted(ark, amounts) /\ raftBalance' = Received(raftBalance, amounts)
      /\ incomes' = incomes + 1 /\ arkBalance' = arkBalance /\ socialized' = socialized
      /\ UNCHANGED <<unsoldTokens, paymentTokensToBoard, auctions, configVars, boarded, paidFor,
                     now>>
  BY DEF Harvest
<1>3. /\ gain \in [Tokens -> Nat]
      /\ obtainedTokens' \in [Lots -> Nat] /\ raftBalance' \in [Tokens -> Nat]
      /\ \A t \in Tokens : raftBalance'[t] = raftBalance[t] + gain[t]
      /\ \A l \in Lots : obtainedTokens'[l] = obtainedTokens[l]
                                                 + (IF l[1] = ark THEN gain[l[2]] ELSE 0)
  <2>1. /\ gain \in [Tokens -> Nat] /\ Noted(ark, amounts) \in [Lots -> Nat]
        /\ Received(raftBalance, amounts) \in [Tokens -> Nat]
    BY <1>1, NotedFacts, ReceivedFacts
  <2>2. \A t \in Tokens : Received(raftBalance, amounts)[t] = raftBalance[t] + gain[t]
    BY <1>1, ReceivedFacts
  <2>3. \A l \in Lots : Noted(ark, amounts)[l] = obtainedTokens[l]
                                                   + (IF l[1] = ark THEN gain[l[2]] ELSE 0)
    BY <1>1, NotedFacts
  <2> HIDE DEF gain
  <2> QED
    BY <1>2, <2>1, <2>2, <2>3
<1> HIDE DEF gain
<1>4. ASSUME NEW t \in Tokens
      PROVE  raftBalance'[t] + socialized'[t] = raftBalance[t] + socialized[t] + gain[t]
  <2>1. raftBalance[t] \in Nat /\ socialized[t] \in Nat /\ gain[t] \in Nat
    BY <1>1, <1>3
  <2> QED
    BY <1>2, <1>3, <2>1
<1>5. socialized' \in [Tokens -> Nat] /\ arkBalance' \in [Lots -> Nat] /\ incomes' \in Nat
  BY <1>1, <1>2
<1> QED
  BY <1>2, <1>3, <1>4, <1>5, GatherKeeps

\* A sweep.
LEMMA SweepKeeps ==
    ASSUME RaftInv, NEW ark \in Arks, NEW tokens \in SUBSET Tokens, Sweep(ark, tokens)
    PROVE  Kept
<1> DEFINE amounts == Swept(ark, tokens)
           gain == Gain(amounts)
<1>1. /\ TypeOK /\ raftBalance \in [Tokens -> Nat] /\ socialized \in [Tokens -> Nat]
      /\ incomes \in Nat
  BY DEF RaftInv, TypeOK
<1>2. /\ SweepArk(ark, tokens)
      /\ obtainedTokens' = Noted(ark, amounts) /\ raftBalance' = Received(raftBalance, amounts)
      /\ incomes' = incomes /\ socialized' = socialized
      /\ UNCHANGED <<unsoldTokens, paymentTokensToBoard, auctions, configVars, boarded, paidFor,
                     now>>
  BY DEF Sweep
<1>3. amounts \in [tokens -> Nat] /\ arkBalance' \in [Lots -> Nat]
  BY <1>1, <1>2, SweptFacts
<1> HIDE DEF amounts
<1>4. /\ gain \in [Tokens -> Nat]
      /\ obtainedTokens' \in [Lots -> Nat] /\ raftBalance' \in [Tokens -> Nat]
      /\ \A t \in Tokens : raftBalance'[t] = raftBalance[t] + gain[t]
      /\ \A l \in Lots : obtainedTokens'[l] = obtainedTokens[l]
                                                 + (IF l[1] = ark THEN gain[l[2]] ELSE 0)
  <2>1. /\ gain \in [Tokens -> Nat] /\ Noted(ark, amounts) \in [Lots -> Nat]
        /\ Received(raftBalance, amounts) \in [Tokens -> Nat]
    BY <1>1, <1>3, NotedFacts, ReceivedFacts
  <2>2. \A t \in Tokens : Received(raftBalance, amounts)[t] = raftBalance[t] + gain[t]
    BY <1>1, <1>3, NotedFacts, ReceivedFacts
  <2>3. \A l \in Lots : Noted(ark, amounts)[l] = obtainedTokens[l]
                                                   + (IF l[1] = ark THEN gain[l[2]] ELSE 0)
    BY <1>1, <1>3, NotedFacts
  <2> HIDE DEF gain
  <2> QED
    BY <1>2, <2>1, <2>2, <2>3
<1> HIDE DEF gain
<1>5. ASSUME NEW t \in Tokens
      PROVE  raftBalance'[t] + socialized'[t] = raftBalance[t] + socialized[t] + gain[t]
  <2>1. raftBalance[t] \in Nat /\ socialized[t] \in Nat /\ gain[t] \in Nat
    BY <1>1, <1>4
  <2> QED
    BY <1>2, <1>4, <2>1
<1>6. socialized' \in [Tokens -> Nat] /\ incomes' \in Nat
  BY <1>1, <1>2
<1> QED
  BY <1>2, <1>3, <1>4, <1>5, <1>6, GatherKeeps

\* A loss that is socialized: the tokens are noted as obtained and sent away.
LEMMA SocializeKeeps ==
    ASSUME RaftInv, NEW ark \in Arks, NEW tokens \in SUBSET Tokens, SocializeLosses(ark, tokens)
    PROVE  Kept
<1> DEFINE amounts == Swept(ark, tokens)
           gain == Gain(amounts)
<1>1. /\ TypeOK /\ raftBalance \in [Tokens -> Nat] /\ socialized \in [Tokens -> Nat]
      /\ incomes \in Nat
  BY DEF RaftInv, TypeOK
<1>2. /\ SweepArk(ark, tokens)
      /\ obtainedTokens' = Noted(ark, amounts) /\ socialized' = Received(socialized, amounts)
      /\ incomes' = incomes /\ raftBalance' = raftBalance
      /\ UNCHANGED <<unsoldTokens, paymentTokensToBoard, auctions, configVars, boarded, paidFor,
                     now>>
  BY DEF SocializeLosses
<1>3. amounts \in [tokens -> Nat] /\ arkBalance' \in [Lots -> Nat]
  BY <1>1, <1>2, SweptFacts
<1> HIDE DEF amounts
<1>4. /\ gain \in [Tokens -> Nat]
      /\ obtainedTokens' \in [Lots -> Nat] /\ socialized' \in [Tokens -> Nat]
      /\ \A t \in Tokens : socialized'[t] = socialized[t] + gain[t]
      /\ \A l \in Lots : obtainedTokens'[l] = obtainedTokens[l]
                                                 + (IF l[1] = ark THEN gain[l[2]] ELSE 0)
  <2>1. /\ gain \in [Tokens -> Nat] /\ Noted(ark, amounts) \in [Lots -> Nat]
        /\ Received(socialized, amounts) \in [Tokens -> Nat]
    BY <1>1, <1>3, NotedFacts, ReceivedFacts
  <2>2. \A t \in Tokens : Received(socialized, amounts)[t] = socialized[t] + gain[t]
    BY <1>1, <1>3, ReceivedFacts
  <2>3. \A l \in Lots : Noted(ark, amounts)[l] = obtainedTokens[l]
                                                   + (IF l[1] = ark THEN gain[l[2]] ELSE 0)
    BY <1>1, <1>3, NotedFacts
  <2> HIDE DEF gain
  <2> QED
    BY <1>2, <2>1, <2>2, <2>3
<1> HIDE DEF gain
<1>5. ASSUME NEW t \in Tokens
      PROVE  raftBalance'[t] + socialized'[t] = raftBalance[t] + socialized[t] + gain[t]
  <2>1. raftBalance[t] \in Nat /\ socialized[t] \in Nat /\ gain[t] \in Nat
    BY <1>1, <1>4
  <2> QED
    BY <1>2, <1>4, <2>1
<1>6. raftBalance' \in [Tokens -> Nat] /\ incomes' \in Nat
  BY <1>1, <1>2
<1> QED
  BY <1>2, <1>3, <1>4, <1>5, <1>6, GatherKeeps

\* The start of an auction of what is on the books.
LEMMA StartAuctionKeeps ==
    ASSUME RaftInv, NEW ark \in Arks, NEW token \in Tokens, StartAuction(ark, token)
    PROVE  Kept
<1> DEFINE gain == [t \in Tokens |-> 0]
<1>1. /\ raftBalance \in [Tokens -> Nat] /\ obtainedTokens \in [Lots -> Nat]
      /\ arkBalance \in [Lots -> Nat] /\ incomes \in Nat
  BY DEF RaftInv, TypeOK
<1>2. /\ StartAuctions(ark, {token}, obtainedTokens, raftBalance)
      /\ arkBalance' = arkBalance /\ incomes' = incomes
      /\ UNCHANGED <<paymentTokensToBoard, configVars, boarded, paidFor, socialized, now>>
  BY DEF StartAuction
<1>3. gain \in [Tokens -> Nat] /\ \A t \in Tokens : gain[t] = 0
  OBVIOUS
<1> HIDE DEF gain
<1>4. ASSUME NEW t \in Tokens PROVE raftBalance[t] = raftBalance[t] + gain[t]
  <2>1. raftBalance[t] \in Nat
    BY <1>1
  <2> QED
    BY <1>3, <2>1
<1>5. ASSUME NEW l \in Lots
      PROVE  obtainedTokens[l] = obtainedTokens[l] + (IF l[1] = ark THEN gain[l[2]] ELSE 0)
  <2>1. obtainedTokens[l] \in Nat /\ l[2] \in Tokens
    BY <1>1, LotIs
  <2> QED
    BY <1>3, <2>1
<1>6. {token} \in SUBSET Tokens /\ arkBalance' \in [Lots -> Nat] /\ incomes' \in Nat
  BY <1>1, <1>2
<1> QED
  BY <1>1, <1>2, <1>3, <1>4, <1>5, <1>6, StartKeeps

\* A harvest whose tokens are put on auction.
LEMMA HarvestStartKeeps ==
    ASSUME RaftInv, NEW ark \in Arks, NEW tokens \in SUBSET Tokens, NEW amounts \in [tokens -> Nat],
           HarvestAndStartAuction(ark, amounts)
    PROVE  Kept
<1> DEFINE gain == Gain(amounts)
           obtained == Noted(ark, amounts)
           balance == Received(raftBalance, amounts)
<1>1. /\ TypeOK /\ raftBalance \in [Tokens -> Nat]
      /\ arkBalance \in [Lots -> Nat] /\ incomes \in Nat
  BY DEF RaftInv, TypeOK
<1>2. DOMAIN amounts = tokens
  OBVIOUS
<1>3. /\ StartAuctions(ark, DOMAIN amounts, obtained, balance)
      /\ arkBalance' = arkBalance /\ incomes' = incomes + 1
      /\ UNCHANGED <<paymentTokensToBoard, configVars, boarded, paidFor, socialized, now>>
  BY DEF HarvestAndStartAuction
<1>4. /\ gain \in [Tokens -> Nat] /\ obtained \in [Lots -> Nat] /\ balance \in [Tokens -> Nat]
      /\ \A t \in Tokens : balance[t] = raftBalance[t] + gain[t]
      /\ \A l \in Lots : obtained[l] = obtainedTokens[l] + (IF l[1] = ark THEN gain[l[2]] ELSE 0)
  BY <1>1, NotedFacts, ReceivedFacts
<1> HIDE DEF gain, obtained, balance
<1>5. DOMAIN amounts \in SUBSET Tokens /\ arkBalance' \in [Lots -> Nat] /\ incomes' \in Nat
  BY <1>1, <1>2, <1>3
<1> QED
  BY <1>3, <1>4, <1>5, StartKeeps

\* A sweep whose tokens are put on auction.
LEMMA SweepStartKeeps ==
    ASSUME RaftInv, NEW ark \in Arks, NEW tokens \in SUBSET Tokens,
           SweepAndStartAuction(ark, tokens)
    PROVE  Kept
<1> DEFINE amounts == Swept(ark, tokens)
           gain == Gain(amounts)
           obtained == Noted(ark, amounts)
           balance == Received(raftBalance, amounts)
<1>1. /\ TypeOK /\ raftBalance \in [Tokens -> Nat] /\ incomes \in Nat
  BY DEF RaftInv, TypeOK
<1>2. /\ SweepArk(ark, tokens) /\ StartAuctions(ark, tokens, obtained, balance)
      /\ incomes' = incomes
      /\ UNCHANGED <<paymentTokensToBoard, configVars, boarded, paidFor, socialized, now>>
  BY DEF SweepAndStartAuction
<1>3. amounts \in [tokens -> Nat] /\ arkBalance' \in [Lots -> Nat]
  BY <1>1, <1>2, SweptFacts
<1> HIDE DEF amounts
<1>4. /\ gain \in [Tokens -> Nat] /\ obtained \in [Lots -> Nat] /\ balance \in [Tokens -> Nat]
      /\ \A t \in Tokens : balance[t] = raftBalance[t] + gain[t]
      /\ \A l \in Lots : obtained[l] = obtainedTokens[l] + (IF l[1] = ark THEN gain[l[2]] ELSE 0)
  <2>1. /\ gain \in [Tokens -> Nat] /\ Noted(ark, amounts) \in [Lots -> Nat]
        /\ Received(raftBalance, amounts) \in [Tokens -> Nat]
    BY <1>1, <1>3, NotedFacts, ReceivedFacts
  <2>2. \A t \in Tokens : Received(raftBalance, amounts)[t] = raftBalance[t] + gain[t]
    BY <1>1, <1>3, NotedFacts, ReceivedFacts
  <2>3. \A l \in Lots : Noted(ark, amounts)[l] = obtainedTokens[l]
                                                   + (IF l[1] = ark THEN gain[l[2]] ELSE 0)
    BY <1>1, <1>3, NotedFacts
  <2> HIDE DEF gain
  <2> QED
    BY <2>1, <2>2, <2>3
<1> HIDE DEF gain, obtained, balance
<1>5. incomes' \in Nat
  BY <1>1, <1>2
<1> QED
  BY <1>2, <1>3, <1>4, <1>5, StartKeeps

\* Configuration, what reaches an ark by itself, and time.
LEMMA OtherKeeps ==
    ASSUME RaftInv, UNCHANGED <<bookVars, raftBalance, boarded, paidFor, socialized>>,
           arkAuctionParameters' \in [Lots -> Params], sweepableTokens' \subseteq Lots,
           nonSweepableTokens' \subseteq Lots, arkBalance' \in [Lots -> Nat], incomes' \in Nat,
           now' \in Nat, now <= now'
    PROVE  Kept
<1>1. TypeOK /\ TokensAccountedFor /\ ProceedsReachArk /\ now \in Nat
  BY DEF RaftInv, TypeOK
<1>2. /\ obtainedTokens' = obtainedTokens /\ unsoldTokens' = unsoldTokens
      /\ paymentTokensToBoard' = paymentTokensToBoard /\ auctions' = auctions
      /\ raftBalance' = raftBalance /\ boarded' = boarded /\ paidFor' = paidFor
      /\ socialized' = socialized
  BY DEF bookVars
<1>3. TypeOK'
  BY <1>1, <1>2 DEF TypeOK
<1>4. TokensAccountedFor'
  BY <1>1, <1>2 DEF TokensAccountedFor, Claim
<1>5. ProceedsReachArk'
  BY <1>1, <1>2 DEF ProceedsReachArk
<1>6. \A l \in Lots : AuctionMoves(l)
  BY <1>2, StillMoves
<1> QED
  BY <1>1, <1>3, <1>4, <1>5, <1>6 DEF Kept

\* Every step keeps the invariant and moves each auction as it may.
LEMMA StepKeeps ==
    ASSUME RaftInv, RaftNext
    PROVE  Kept
<1> USE InputAssumption
<1>1. ASSUME NEW lots \in {Yielding, Configurable, Listable}, NEW ark
      PROVE  lots \subseteq Lots /\ TokensOf(ark, lots) \in SUBSET Tokens
  BY DEF TokensOf
<1>2. /\ arkAuctionParameters \in [Lots -> Params] /\ sweepableTokens \subseteq Lots
      /\ nonSweepableTokens \subseteq Lots /\ arkBalance \in [Lots -> Nat] /\ incomes \in Nat
      /\ now \in Nat
  BY DEF RaftInv, TypeOK
<1>3. CASE IncomeStep
  <2>1. ASSUME NEW ark \in Arks, NEW tokens \in SUBSET TokensOf(ark, Yielding) \ {{}},
               NEW amounts \in [tokens -> RewardAmounts],
               Harvest(ark, amounts) \/ HarvestAndStartAuction(ark, amounts)
        PROVE  Kept
    <3>1. tokens \in SUBSET Tokens /\ amounts \in [tokens -> Nat]
      BY <1>1
    <3> QED
      BY <2>1, <3>1, HarvestKeeps, HarvestStartKeeps
  <2>2. ASSUME NEW l \in Yielding, NEW amount \in RewardAmounts, TokensReachArk(l, amount)
        PROVE  Kept
    <3>1. l \in Lots /\ amount \in Nat
      BY <1>1
    <3>2. /\ arkBalance' = [arkBalance EXCEPT ![l] = @ + amount] /\ incomes' = incomes + 1
          /\ UNCHANGED <<bookVars, raftBalance, boarded, paidFor, socialized>>
          /\ UNCHANGED <<arkAuctionParameters, sweepableTokens, nonSweepableTokens, now>>
      BY <2>2 DEF TokensReachArk, configVars
    <3>3. arkBalance' \in [Lots -> Nat] /\ incomes' \in Nat
      BY <1>2, <3>1, <3>2
    <3>4. now' \in Nat /\ now <= now'
      BY <1>2, <3>2
    <3> QED
      BY <1>2, <3>2, <3>3, <3>4, OtherKeeps
  <2> QED
    BY <1>3, <2>1, <2>2 DEF IncomeStep
<1>4. CASE SweepStep
  <2>1. PICK ark \in Arks : \E tokens \in SUBSET TokensOf(ark, Listable) :
           Sweep(ark, tokens) \/ SweepAndStartAuction(ark, tokens) \/ SocializeLosses(ark, tokens)
    BY <1>4 DEF SweepStep
  <2>2. PICK tokens \in SUBSET TokensOf(ark, Listable) :
           Sweep(ark, tokens) \/ SweepAndStartAuction(ark, tokens) \/ SocializeLosses(ark, tokens)
    BY <2>1
  <2>3. tokens \in SUBSET Tokens
    BY <1>1
  <2> QED
    BY <2>2, <2>3, SweepKeeps, SweepStartKeeps, SocializeKeeps
<1>5. CASE AuctionStep
  <2>1. PICK ark \in Arks, token \in Tokens :
           \/ StartAuction(ark, token)
           \/ \E amount \in BuyAmounts : BuyTokens(ark, token, amount)
           \/ FinalizeAuction(ark, token)
           \/ Board(ark, token)
    BY <1>5 DEF AuctionStep
  <2>2. ASSUME NEW amount \in BuyAmounts, BuyTokens(ark, token, amount) PROVE Kept
    <3>1. amount \in Nat
      OBVIOUS
    <3> QED
      BY <2>2, <3>1, BuyKeeps
  <2> QED
    BY <2>1, <2>2, StartAuctionKeeps, FinalizeKeeps, BoardKeeps
<1>6. CASE SetupStep
  <2>1. ASSUME NEW l \in Listable, NEW b \in BOOLEAN,
               SetSweepableToken(l, b) \/ SetNonSweepableToken(l, b)
        PROVE  Kept
    <3>1. l \in Lots
      BY <1>1
    <3>2. /\ UNCHANGED <<bookVars, raftBalance, boarded, paidFor, socialized>>
          /\ UNCHANGED <<arkBalance, arkAuctionParameters, incomes, now>>
      BY <2>1 DEF SetSweepableToken, SetNonSweepableToken, moneyVars
    <3>3. sweepableTokens' \subseteq Lots /\ nonSweepableTokens' \subseteq Lots
      BY <1>2, <2>1, <3>1 DEF SetSweepableToken, SetNonSweepableToken
    <3>4. now' \in Nat /\ now <= now'
      BY <1>2, <3>2
    <3> QED
      BY <1>2, <3>2, <3>3, <3>4, OtherKeeps
  <2>2. ASSUME NEW l \in Configurable, NEW parameters \in AuctionParams,
               SetArkAuctionParameters(l, parameters)
        PROVE  Kept
    <3>1. l \in Lots /\ parameters \in Params
      BY <1>1
    <3>2. /\ UNCHANGED <<bookVars, raftBalance, boarded, paidFor, socialized>>
          /\ UNCHANGED <<arkBalance, sweepableTokens, nonSweepableTokens, incomes, now>>
          /\ arkAuctionParameters' = [arkAuctionParameters EXCEPT ![l] = parameters]
      BY <2>2 DEF SetArkAuctionParameters, moneyVars
    <3>3. arkAuctionParameters' \in [Lots -> Params]
      BY <1>2, <3>1, <3>2
    <3>4. now' \in Nat /\ now <= now'
      BY <1>2, <3>2
    <3> QED
      BY <1>2, <3>2, <3>3, <3>4, OtherKeeps
  <2> QED
    BY <1>6, <2>1, <2>2 DEF SetupStep
<1>7. CASE Tick
  <2>1. /\ UNCHANGED <<bookVars, raftBalance, boarded, paidFor, socialized>>
        /\ UNCHANGED <<arkBalance, arkAuctionParameters, sweepableTokens, nonSweepableTokens,
                       incomes>>
        /\ now' = now + 1
    BY <1>7 DEF Tick, moneyVars, configVars
  <2>2. now' \in Nat /\ now <= now'
    BY <1>2, <2>1
  <2> QED
    BY <1>2, <2>1, <2>2, OtherKeeps
<1> QED
  BY <1>3, <1>4, <1>5, <1>6, <1>7 DEF RaftNext

---------------------------------------------------------------------------
(* The theorems *)

\* At the start all books are empty.
LEMMA StartHolds ==
    ASSUME RaftInit
    PROVE  RaftInv
<1> DEFINE nothing == [duration |-> 0, startPrice |-> 0, endPrice |-> 0,
                       kickerRewardPercentage |-> 0, decayType |-> "Linear"]
<1>1. nothing \in Params
  BY DEF Params
<1>2. NoAuction \in Auctions /\ ~NoAuction.running /\ NoAuction.remaining = 0
  BY DEF NoAuction, Auctions
<1>3. /\ obtainedTokens = [l \in Lots |-> 0] /\ unsoldTokens = [l \in Lots |-> 0]
      /\ paymentTokensToBoard = [l \in Lots |-> 0] /\ auctions = [l \in Lots |-> NoAuction]
      /\ arkAuctionParameters = [l \in Lots |-> nothing]
      /\ sweepableTokens = {} /\ nonSweepableTokens = {}
      /\ raftBalance = [t \in Tokens |-> 0] /\ arkBalance = [l \in Lots |-> 0]
      /\ boarded = [a \in Arks |-> 0] /\ paidFor = [a \in Arks |-> 0]
      /\ socialized = [t \in Tokens |-> 0] /\ now = 0 /\ incomes = 0
  BY DEF RaftInit
<1> HIDE DEF nothing
<1>4. TypeOK
  BY <1>1, <1>2, <1>3 DEF TypeOK
<1>5. TokensAccountedFor
  <2> SUFFICES ASSUME NEW t \in Tokens
               PROVE  raftBalance[t] + socialized[t] = SumOver([l \in Lots |-> Claim(l, t)], Lots)
    BY DEF TokensAccountedFor
  <2> DEFINE f == [l \in Lots |-> Claim(l, t)]
  <2>1. \A l \in Lots : f[l] = 0
    BY <1>2, <1>3 DEF Claim
  <2> HIDE DEF f
  <2>2. SumOver(f, Lots) = 0
    BY <2>1, LotsFinite, SumZero
  <2>3. raftBalance[t] + socialized[t] = 0
    BY <1>3
  <2> QED
    BY <2>2, <2>3 DEF f
<1>6. ProceedsReachArk
  <2> SUFFICES ASSUME NEW a \in Arks
               PROVE  paidFor[a] = boarded[a]
                         + SumOver([t \in Tokens |-> paymentTokensToBoard[<<a, t>>]], Tokens)
    BY DEF ProceedsReachArk
  <2> DEFINE f == [t \in Tokens |-> paymentTokensToBoard[<<a, t>>]]
  <2>1. \A t \in Tokens : f[t] = 0
    BY <1>3, PairIs
  <2> HIDE DEF f
  <2>2. SumOver(f, Tokens) = 0
    BY <2>1, FiniteAssumption, SumZero
  <2>3. paidFor[a] = boarded[a] + 0
    BY <1>3
  <2> QED
    BY <2>2, <2>3 DEF f
<1>7. NoPaymentLeftBehind /\ \A l \in Lots : Sound(auctions[l], now)
  BY <1>2, <1>3 DEF NoPaymentLeftBehind, Sound
<1> QED
  BY <1>4, <1>5, <1>6, <1>7 DEF RaftInv

\* What every step does keeps the invariant.
LEMMA KeptHolds ==
    ASSUME Kept
    PROVE  RaftInv'
<1>1. TypeOK' /\ TokensAccountedFor' /\ ProceedsReachArk'
  BY DEF Kept
<1>2. NoPaymentLeftBehind'
  BY DEF Kept, AuctionMoves, NoPaymentLeftBehind
<1>3. \A l \in Lots : Sound(auctions'[l], now')
  BY DEF Kept, AuctionMoves
<1> QED
  BY <1>1, <1>2, <1>3 DEF RaftInv

\* Nor does a step that changes nothing disturb it.
LEMMA StutterHolds ==
    ASSUME RaftInv, UNCHANGED raftVars
    PROVE  RaftInv'
<1>1. /\ obtainedTokens' = obtainedTokens /\ unsoldTokens' = unsoldTokens
      /\ paymentTokensToBoard' = paymentTokensToBoard /\ auctions' = auctions
      /\ arkAuctionParameters' = arkAuctionParameters /\ sweepableTokens' = sweepableTokens
      /\ nonSweepableTokens' = nonSweepableTokens /\ raftBalance' = raftBalance
      /\ arkBalance' = arkBalance /\ boarded' = boarded /\ paidFor' = paidFor
      /\ socialized' = socialized /\ now' = now /\ incomes' = incomes
  BY DEF raftVars, bookVars, configVars, moneyVars
<1>2. TypeOK'
  BY <1>1 DEF RaftInv, TypeOK
<1>3. TokensAccountedFor'
  BY <1>1 DEF RaftInv, TokensAccountedFor, Claim
<1>4. ProceedsReachArk' /\ NoPaymentLeftBehind'
  BY <1>1 DEF RaftInv, ProceedsReachArk, NoPaymentLeftBehind
<1>5. \A l \in Lots : Sound(auctions'[l], now')
  BY <1>1 DEF RaftInv
<1> QED
  BY <1>2, <1>3, <1>4, <1>5 DEF RaftInv

\* The inductive invariant of the Raft: types, the balance of each token as the
\* sum of the books, the payments as what was boarded and what waits, no payment
\* left without a call that boards it, and auctions whose price falls.
THEOREM RaftHolds == RaftSpec => []RaftInv
<1>1. RaftInit => RaftInv
  BY StartHolds
<1>2. RaftInv /\ [RaftNext]_raftVars => RaftInv'
  BY StepKeeps, KeptHolds, StutterHolds
<1> QED
  BY <1>1, <1>2, PTL DEF RaftSpec

\* No book, balance or auction of the Raft is ever overdrawn: a purchase takes
\* what is left at most and a reward is a part of what is auctioned.
THEOREM RaftTyped == RaftSpec => []TypeOK
<1>1. RaftInv => TypeOK
  BY DEF RaftInv
<1> QED
  BY <1>1, RaftHolds, PTL

\* The one balance of each token is the sum of what the books of all lots say, less
\* what socializeLosses sent away.
THEOREM RaftAccountsForTokens == RaftSpec => []TokensAccountedFor
<1>1. RaftInv => TokensAccountedFor
  BY DEF RaftInv
<1> QED
  BY <1>1, RaftHolds, PTL

\* What buyers paid for the tokens of an ark was boarded into it or waits for it.
THEOREM RaftBoardsProceeds == RaftSpec => []ProceedsReachArk
<1>1. RaftInv => ProceedsReachArk
  BY DEF RaftInv
<1> QED
  BY <1>1, RaftHolds, PTL

\* No payment waits for an ark for which nobody can call board.
THEOREM RaftLeavesNoPayment == RaftSpec => []NoPaymentLeftBehind
<1>1. RaftInv => NoPaymentLeftBehind
  BY DEF RaftInv
<1> QED
  BY <1>1, RaftHolds, PTL

\* The price of a running auction does not rise from step to step, nor does it
\* fall below its end price.
THEOREM PricesFall == RaftSpec => PriceOnlyFalls
<1>1. ASSUME RaftInv, [RaftNext]_raftVars
      PROVE  [\A l \in Lots : auctions[l].running /\ auctions'[l].running =>
                 /\ GetCurrentPrice(auctions[l])' <= GetCurrentPrice(auctions[l])
                 /\ GetCurrentPrice(auctions[l])' >= auctions[l].endPrice]_raftVars
  <2> SUFFICES ASSUME RaftNext, NEW l \in Lots, auctions[l].running, auctions'[l].running
               PROVE  /\ GetCurrentPrice(auctions[l])' <= GetCurrentPrice(auctions[l])
                      /\ GetCurrentPrice(auctions[l])' >= auctions[l].endPrice
    BY <1>1
  <2>1. Kept
    BY <1>1, StepKeeps
  <2>2. /\ now \in Nat /\ now' \in Nat /\ now <= now'
        /\ SameTerms(auctions'[l], auctions[l])
    BY <2>1 DEF Kept, AuctionMoves
  <2>3. auctions[l] \in Auctions /\ Sound(auctions[l], now)
    BY <1>1, Types DEF RaftInv
  <2>4. /\ PriceAt(auctions[l], now) \in Nat /\ PriceAt(auctions[l], now') \in Nat
        /\ auctions[l].endPrice <= PriceAt(auctions[l], now')
        /\ PriceAt(auctions[l], now') <= PriceAt(auctions[l], now)
    BY <2>2, <2>3, PriceFalls
  <2>5. GetCurrentPrice(auctions[l]) = PriceAt(auctions[l], now)
    BY DEF GetCurrentPrice, PriceAt
  <2>6. GetCurrentPrice(auctions[l])' = PriceAt(auctions'[l], now')
    BY DEF GetCurrentPrice, PriceAt
  <2>7. PriceAt(auctions'[l], now') = PriceAt(auctions[l], now')
    BY <2>2 DEF PriceAt, SameTerms
  <2>8. auctions[l].endPrice \in Nat
    BY <2>3 DEF Auctions
  <2> QED
    BY <2>4, <2>5, <2>6, <2>7, <2>8
<1>2. RaftInv /\ [RaftNext]_raftVars =>
         [\A l \in Lots : auctions[l].running /\ auctions'[l].running =>
             /\ GetCurrentPrice(auctions[l])' <= GetCurrentPrice(auctions[l])
             /\ GetCurrentPrice(auctions[l])' >= auctions[l].endPrice]_raftVars
  BY <1>1
<1> QED
  BY <1>2, RaftHolds, PTL DEF RaftSpec, PriceOnlyFalls

---------------------------------------------------------------------------
(* Nothing lacks tokens *)

\* A lot's claim on a token is held, but for what socializeLosses sent away of it.
LEMMA ClaimIsHeld ==
    ASSUME RaftInv, NEW l \in Lots, NEW t \in Tokens
    PROVE  Claim(l, t) \in Nat /\ Claim(l, t) <= raftBalance[t] + socialized[t]
<1> DEFINE f == [m \in Lots |-> Claim(m, t)]
<1>1. \A m \in Lots : Claim(m, t) \in Nat
  BY ClaimNat DEF RaftInv
<1>2. raftBalance[t] + socialized[t] = SumOver(f, Lots)
  BY DEF RaftInv, TokensAccountedFor
<1>3. \A m \in Lots : f[m] \in Nat /\ f[m] = Claim(m, t)
  BY <1>1
<1> HIDE DEF f
<1>4. f[l] <= SumOver(f, Lots)
  BY <1>3, LotsFinite, SumNat
<1> QED
  BY <1>1, <1>2, <1>3, <1>4

\* The outcome of settling, without asking whether the tokens are there.
SettledAs(l, left, waiting, balance) ==
    LET asset == AssetOf[l[1]] IN
    /\ auctions' = [auctions EXCEPT ![l] = NoAuction]
    /\ unsoldTokens' = [unsoldTokens EXCEPT ![l] = @ + left]
    /\ l[1] \in KeeperDataArks =>
          /\ paymentTokensToBoard' = [paymentTokensToBoard EXCEPT ![l] = waiting]
          /\ raftBalance' = balance
          /\ UNCHANGED <<arkBalance, boarded>>
    /\ l[1] \notin KeeperDataArks =>
          /\ paymentTokensToBoard' = [paymentTokensToBoard EXCEPT ![l] = 0]
          /\ raftBalance' = [balance EXCEPT ![asset] = @ - waiting]
          /\ boarded' = [boarded EXCEPT ![l[1]] = @ + waiting]
          /\ arkBalance' = IF BufferOf[l[1]] = l[1]
                           THEN [arkBalance EXCEPT ![<<l[1], asset>>] = @ + waiting] ELSE arkBalance

\* With the tokens there, settling has this outcome.
LEMMA SettledIs ==
    ASSUME NEW l, NEW left, NEW waiting, NEW balance, SettledAs(l, left, waiting, balance),
           balance[AssetOf[l[1]]] >= waiting
    PROVE  SettleAuction(l, left, waiting, balance)
<1>1. CASE l[1] \in KeeperDataArks
  BY <1>1 DEF SettledAs, SettleAuction, BoardsAtOnce
<1>2. CASE l[1] \notin KeeperDataArks
  <2>1. BoardProceeds(l, waiting, balance)
    BY <1>2 DEF SettledAs, BoardProceeds, ToBoardAfter
  <2> QED
    BY <1>2, <2>1 DEF SettledAs, SettleAuction, BoardsAtOnce
<1> QED
  BY <1>1, <1>2

\* The outcome of finalizing.
FinalizedAs(ark, token) ==
    LET l == <<ark, token>> IN
    /\ SettledAs(l, auctions[l].remaining, paymentTokensToBoard[l], raftBalance)
    /\ UNCHANGED <<obtainedTokens, configVars, paidFor, socialized, now, incomes>>

\* Each auction that has run out of time can be finalized in any state that satisfies
\* the invariant: while none of the asset was socialized, all payments that wait for
\* the ark are there to be boarded, whatever other lots lie in the same balance.
THEOREM AuctionsCanEnd ==
    ASSUME RaftInv, NEW ark \in Arks, NEW token \in Tokens,
           auctions[<<ark, token>>].running, now >= auctions[<<ark, token>>].endTime,
           socialized[AssetOf[ark]] = 0, FinalizedAs(ark, token)
    PROVE  FinalizeAuction(ark, token)
<1> DEFINE l == <<ark, token>>
           asset == AssetOf[ark]
           left == auctions[l].remaining
           waiting == paymentTokensToBoard[l]
<1>1. l \in Lots /\ l[1] = ark /\ l[2] = token /\ asset \in Tokens
  BY PairIs
<1>2. /\ obtainedTokens[l] \in Nat /\ unsoldTokens[l] \in Nat /\ waiting \in Nat
      /\ auctions[l].remaining \in Nat /\ raftBalance[asset] \in Nat
  BY <1>1, Types DEF RaftInv
<1>3. Claim(l, asset) <= raftBalance[asset] + 0
  BY <1>1, ClaimIsHeld
<1>4. waiting <= Claim(l, asset) /\ Claim(l, asset) \in Nat
  BY <1>1, <1>2 DEF Claim
<1>5. raftBalance[asset] >= waiting
  BY <1>2, <1>3, <1>4
<1>6. SettledAs(l, left, waiting, raftBalance)
  BY DEF FinalizedAs
<1>7. SettleAuction(l, left, waiting, raftBalance)
  BY <1>1, <1>5, <1>6, SettledIs
<1> QED
  BY <1>7 DEF FinalizeAuction, FinalizedAs

\* The outcome of a purchase.
BoughtAs(ark, token, amount) ==
    LET l       == <<ark, token>>
        auction == auctions[l]
        cost    == TotalCost(GetCurrentPrice(auction), amount)
        balance == [[raftBalance EXCEPT ![AssetOf[ark]] = @ + cost] EXCEPT ![token] = @ - amount]
        waiting == paymentTokensToBoard[l] + cost
    IN
    /\ paidFor' = [paidFor EXCEPT ![ark] = @ + cost]
    /\ amount = auction.remaining => SettledAs(l, 0, waiting, balance)
    /\ amount # auction.remaining =>
          /\ auctions' = [auctions EXCEPT ![l].remaining = @ - amount]
          /\ paymentTokensToBoard' = [paymentTokensToBoard EXCEPT ![l] = waiting]
          /\ raftBalance' = balance
          /\ UNCHANGED <<unsoldTokens, arkBalance, boarded>>
    /\ UNCHANGED <<obtainedTokens, configVars, socialized, now, incomes>>

\* In such a state each buyer is served until the end of the auction: while nothing was
\* socialized of what is sold and of the asset, no amount up to what remains makes
\* the call fail for lack of tokens, also if one token is both.
THEOREM BuyersAreServed ==
    ASSUME RaftInv, NEW ark \in Arks, NEW token \in Tokens, NEW amount \in Nat,
           auctions[<<ark, token>>].running, now < auctions[<<ark, token>>].endTime,
           amount <= auctions[<<ark, token>>].remaining,
           socialized[token] = 0, socialized[AssetOf[ark]] = 0, BoughtAs(ark, token, amount)
    PROVE  BuyTokens(ark, token, amount)
<1> DEFINE l == <<ark, token>>
           asset == AssetOf[ark]
           cost == TotalCost(GetCurrentPrice(auctions[l]), amount)
           paid == [raftBalance EXCEPT ![asset] = @ + cost]
           balance == [paid EXCEPT ![token] = @ - amount]
           waiting == paymentTokensToBoard[l] + cost
<1>1. l \in Lots /\ l[1] = ark /\ l[2] = token /\ asset \in Tokens
  BY PairIs
<1>2. /\ obtainedTokens[l] \in Nat /\ unsoldTokens[l] \in Nat /\ paymentTokensToBoard[l] \in Nat
      /\ auctions[l].remaining \in Nat /\ raftBalance[asset] \in Nat /\ raftBalance[token] \in Nat
      /\ raftBalance \in [Tokens -> Nat]
  BY <1>1, Types DEF RaftInv, TypeOK
<1>3. cost \in Nat
  BY <1>1, CurrentPriceNat, CostNat
<1>4. /\ paidFor' = [paidFor EXCEPT ![ark] = @ + cost]
      /\ amount = auctions[l].remaining => SettledAs(l, 0, waiting, balance)
      /\ amount # auctions[l].remaining =>
            /\ auctions' = [auctions EXCEPT ![l].remaining = @ - amount]
            /\ paymentTokensToBoard' = [paymentTokensToBoard EXCEPT ![l] = waiting]
            /\ raftBalance' = balance
            /\ UNCHANGED <<unsoldTokens, arkBalance, boarded>>
      /\ UNCHANGED <<obtainedTokens, configVars, socialized, now, incomes>>
  BY DEF BoughtAs
<1>5. /\ Claim(l, token) <= raftBalance[token] + 0
      /\ Claim(l, asset) <= raftBalance[asset] + 0
  BY <1>1, ClaimIsHeld
<1>6. /\ Claim(l, token) = obtainedTokens[l] + unsoldTokens[l] + auctions[l].remaining
                              + (IF asset = token THEN paymentTokensToBoard[l] ELSE 0)
      /\ Claim(l, asset) = (IF token = asset THEN obtainedTokens[l] + unsoldTokens[l]
                                                    + auctions[l].remaining ELSE 0)
                              + paymentTokensToBoard[l]
  BY <1>1 DEF Claim
<1> HIDE DEF l, asset, cost
<1>7. /\ \A t \in Tokens : paid[t] = raftBalance[t] + (IF t = asset THEN cost ELSE 0)
      /\ paid \in [Tokens -> Nat]
  <2>1. \A t \in Tokens : raftBalance[t] \in Nat
    BY <1>2
  <2> QED
    BY <1>1, <1>2, <1>3, <2>1
<1> HIDE DEF paid
<1>8. \A t \in Tokens : balance[t] = paid[t] - (IF t = token THEN amount ELSE 0)
  <2>1. \A t \in Tokens : paid[t] \in Nat
    BY <1>7
  <2> QED
    BY <1>7, <2>1
<1> HIDE DEF balance
<1>9. amount <= auctions[l].remaining
  BY DEF l
<1>10. paid[token] >= amount /\ balance[asset] >= waiting
  <2>1. CASE token = asset
    <3>1. /\ paid[token] = raftBalance[token] + cost
          /\ balance[asset] = (raftBalance[token] + cost) - amount
      BY <1>1, <1>7, <1>8, <2>1
    <3>2. obtainedTokens[l] + unsoldTokens[l] + auctions[l].remaining + paymentTokensToBoard[l]
             <= raftBalance[token]
      BY <1>2, <1>5, <1>6, <2>1
    <3>3. paymentTokensToBoard[l] + amount <= raftBalance[token]
      BY <1>2, <1>9, <3>2
    <3> QED
      BY <1>2, <1>3, <3>1, <3>3
  <2>2. CASE token # asset
    <3>1. /\ paid[token] = raftBalance[token] /\ balance[asset] = raftBalance[asset] + cost
      <4>1. /\ paid[token] = raftBalance[token] + 0 /\ balance[asset] = paid[asset] - 0
            /\ paid[asset] = raftBalance[asset] + cost /\ paid[asset] \in Nat
        BY <1>1, <1>7, <1>8, <2>2
      <4> QED
        BY <1>2, <4>1
    <3>2. /\ obtainedTokens[l] + unsoldTokens[l] + auctions[l].remaining <= raftBalance[token]
          /\ paymentTokensToBoard[l] <= raftBalance[asset]
      BY <1>2, <1>5, <1>6, <2>2
    <3> QED
      BY <1>2, <1>3, <1>9, <3>1, <3>2
  <2> QED
    BY <2>1, <2>2
<1>11. Available(auctions[l], amount) /\ now < auctions[l].endTime
  BY <1>9 DEF Available, l
<1>12. \/ /\ amount = auctions[l].remaining
          /\ SettleAuction(l, 0, waiting, balance)
       \/ /\ amount # auctions[l].remaining
          /\ auctions' = [auctions EXCEPT ![l].remaining = @ - amount]
          /\ paymentTokensToBoard' = [paymentTokensToBoard EXCEPT ![l] = waiting]
          /\ raftBalance' = balance
          /\ UNCHANGED <<unsoldTokens, arkBalance, boarded>>
  <2>1. CASE amount = auctions[l].remaining
    <3>1. SettledAs(l, 0, waiting, balance)
      BY <1>4, <2>1
    <3>2. balance[AssetOf[l[1]]] >= waiting
      BY <1>1, <1>10 DEF asset
    <3>3. SettleAuction(l, 0, waiting, balance)
      BY <3>1, <3>2, SettledIs
    <3> QED
      BY <2>1, <3>3
  <2>2. CASE amount # auctions[l].remaining
    BY <1>4, <2>2
  <2> QED
    BY <2>1, <2>2
<1> QED
  BY <1>4, <1>10, <1>11, <1>12 DEF BuyTokens, l, asset, cost, paid, balance

=============================================================================
