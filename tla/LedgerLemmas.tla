---------------------------- MODULE LedgerLemmas ----------------------------
(***************************************************************************)
(* Sums over finite sets for the proofs.                                   *)
(*                                                                         *)
(* The induction theorems of the library take a predicate, which the       *)
(* provers cannot instantiate.  Here the predicate is a set, so induction  *)
(* is a fact about sets that follows from the naturals being well founded; *)
(* with it SumOver, a fold over a set in an order nobody knows, is shown   *)
(* to be the sum it is meant to be.                                        *)
(*                                                                         *)
(* A ledger may also be said to add up to a total by its running sums      *)
(* along an enumeration of the accounts: one entry is then bounded and     *)
(* changed by shifting the running sums from that entry on.  The two ways  *)
(* agree (AddsUpSum).                                                      *)
(***************************************************************************)
EXTENDS Sums, FiniteSetTheorems, WellFoundedInduction, TLAPS

---------------------------------------------------------------------------
(* Arithmetic *)

\* What rounding down leaves over.
LEMMA Division ==
    ASSUME NEW a \in Nat, NEW b \in Nat \ {0}
    PROVE  /\ a \div b \in Nat
           /\ b * (a \div b) <= a /\ a < b * (a \div b) + b
  OBVIOUS

\* A product is natural.
LEMMA Product ==
    ASSUME NEW a \in Nat, NEW b \in Nat
    PROVE  a * b \in Nat
  OBVIOUS

\* A factor may be cancelled.
LEMMA Cancel ==
    ASSUME NEW a \in Nat, NEW b \in Nat, NEW c \in Nat \ {0}
    PROVE  /\ c * a < c * b => a < b
           /\ c * a <= c * b => a <= b
<1>1. ASSUME b <= a PROVE c * b <= c * a
  <2>1. PICK d \in Nat : a = b + d
    <3>1. a - b \in Nat /\ a = b + (a - b)
      BY <1>1
    <3> QED
      BY <3>1
  <2>2. c * a = c * b + c * d /\ c * d \in Nat /\ c * b \in Nat
    BY <2>1
  <2> QED
    BY <2>2
<1>2. ASSUME b < a PROVE c * b < c * a
  <2>1. PICK d \in Nat : a = b + 1 + d
    <3>1. a - b - 1 \in Nat /\ a = b + 1 + (a - b - 1)
      BY <1>2
    <3> QED
      BY <3>1
  <2>2. c * a = c * b + c + c * d /\ c * d \in Nat /\ c * b \in Nat
    BY <2>1
  <2> QED
    BY <2>2
<1>3. c * a \in Nat /\ c * b \in Nat
  OBVIOUS
<1> QED
  BY <1>1, <1>2, <1>3

---------------------------------------------------------------------------
(* Induction, over sets in the place of predicates *)

\* Induction over the naturals.
LEMMA NatInduct ==
    ASSUME NEW T, 0 \in T, \A n \in Nat : n \in T => n + 1 \in T
    PROVE  Nat \subseteq T
<1> DEFINE R == OpToRel(<, Nat)
           U == Nat \ T
<1>1. IsWellFoundedOn(R, Nat)
  BY NatLessThanWellFounded, Zenon
<1> SUFFICES ASSUME U # {} PROVE FALSE
  OBVIOUS
<1>2. PICK n \in U : \A m \in U : ~ (<<m, n>> \in R)
  <2> HIDE DEF R
  <2> QED
    BY <1>1, WFMin
<1>3. n \in Nat /\ n # 0 /\ n - 1 \in Nat
  OBVIOUS
<1>4. n - 1 \in U
  BY <1>3
<1>5. ~ (n - 1 < n)
  BY <1>2, <1>3, <1>4 DEF OpToRel
<1> QED
  BY <1>3, <1>5

\* Induction over the subsets of a finite set, from those with an element less.
LEMMA SetInduct ==
    ASSUME NEW S, IsFiniteSet(S), NEW T, {} \in T,
           \A s \in SUBSET S : s # {} /\ (\A x \in s : s \ {x} \in T) => s \in T
    PROVE  SUBSET S \subseteq T
<1> DEFINE N == {n \in Nat : \A s \in SUBSET S : Cardinality(s) = n => s \in T}
<1>0. \A s \in SUBSET S : IsFiniteSet(s) /\ Cardinality(s) \in Nat
  BY FS_Subset, FS_CardinalityType
<1>1. 0 \in N
  BY <1>0, FS_EmptySet
<1>2. ASSUME NEW n \in Nat, n \in N PROVE n + 1 \in N
  <2> SUFFICES ASSUME NEW s \in SUBSET S, Cardinality(s) = n + 1
               PROVE  s \in T
    OBVIOUS
  <2>1. s # {}
    <3>1. Cardinality({}) = 0
      BY FS_EmptySet
    <3> QED
      BY <3>1
  <2>2. ASSUME NEW x \in s PROVE s \ {x} \in T
    <3>1. IsFiniteSet(s) /\ Cardinality(s \ {x}) = Cardinality(s) - 1
      BY <1>0, FS_RemoveElement
    <3> QED
      BY <1>2, <3>1
  <2> QED
    BY <2>1, <2>2
<1>3. Nat \subseteq N
  <2> HIDE DEF N
  <2> QED
    BY <1>1, <1>2, NatInduct
<1> QED
  BY <1>0, <1>3

---------------------------------------------------------------------------
(* The recursion behind SumOver *)

Pick(s) == CHOOSE x \in s : TRUE

\* One step of the recursion.
SumStep(f, g, s) == IF s = {} THEN 0 ELSE f[Pick(s)] + g[s \ {Pick(s)}]

SumFcn(f, S) ==
    CHOOSE g : g = [s \in SUBSET S |-> IF s = {} THEN 0 ELSE f[Pick(s)] + g[s \ {Pick(s)}]]

\* g solves the recursion on D.
Solves(f, g, D) == g = [s \in D |-> SumStep(f, g, s)]

\* SumOver is the value of its recursive function.
LEMMA SumOverFcn ==
    ASSUME NEW f, NEW S
    PROVE  SumOver(f, S) = SumFcn(f, S)[S]
  BY DEF SumOver, MapThenSumSet, MapThenFoldSet, SumFcn, Pick

\* The recursion has a solution.
LEMMA SumSolvable ==
    ASSUME NEW f, NEW S, IsFiniteSet(S)
    PROVE  \E g : Solves(f, g, SUBSET S)
<1> DEFINE Upto(n) == {s \in SUBSET S : Cardinality(s) <= n}
           N == {n \in Nat : \E g : Solves(f, g, Upto(n))}
<1>0. \A s \in SUBSET S : IsFiniteSet(s) /\ Cardinality(s) \in Nat
  BY FS_Subset, FS_CardinalityType
<1>1. 0 \in N
  <2>1. \A s \in Upto(0) : s = {}
    BY <1>0, FS_EmptySet
  <2> DEFINE g == [s \in Upto(0) |-> 0]
  <2>2. g = [s \in Upto(0) |-> SumStep(f, g, s)]
    BY <2>1 DEF SumStep
  <2>3. Solves(f, g, Upto(0))
    BY <2>2 DEF Solves
  <2> QED
    BY <2>3
<1>2. ASSUME NEW n \in Nat, n \in N PROVE n + 1 \in N
  <2>1. PICK g : Solves(f, g, Upto(n))
    BY <1>2
  <2> DEFINE h == [s \in Upto(n + 1) |-> SumStep(f, g, s)]
  <2>2. ASSUME NEW s \in Upto(n) PROVE h[s] = g[s]
    <3>1. s \in Upto(n + 1)
      BY <1>0
    <3>2. h[s] = SumStep(f, g, s)
      BY <3>1
    <3>3. g[s] = SumStep(f, g, s)
      <4> HIDE DEF h, Upto
      <4> QED
        BY <2>1, <2>2 DEF Solves
    <3> QED
      BY <3>2, <3>3
  <2>3. ASSUME NEW s \in Upto(n + 1) PROVE SumStep(f, g, s) = SumStep(f, h, s)
    <3>1. CASE s = {}
      BY <3>1 DEF SumStep
    <3>2. CASE s # {}
      <4>1. Pick(s) \in s
        BY <3>2 DEF Pick
      <4>2. Cardinality(s \ {Pick(s)}) = Cardinality(s) - 1
        BY <1>0, <4>1, FS_RemoveElement
      <4>3. s \ {Pick(s)} \in Upto(n)
        BY <1>0, <4>2
      <4> HIDE DEF h, Upto
      <4> QED
        BY <2>2, <4>3 DEF SumStep
    <3> QED
      BY <3>1, <3>2
  <2>4. h = [s \in Upto(n + 1) |-> SumStep(f, h, s)]
    BY <2>3
  <2>5. Solves(f, h, Upto(n + 1))
    <3> HIDE DEF h, Upto
    <3> QED
      BY <2>4 DEF Solves
  <2>6. \E k : Solves(f, k, Upto(n + 1))
    <3> HIDE DEF h, Upto
    <3> QED
      BY <2>5
  <2> QED
    BY <2>6
<1>3. Nat \subseteq N
  <2> HIDE DEF N
  <2> QED
    BY <1>1, <1>2, NatInduct
<1>4. Upto(Cardinality(S)) = SUBSET S
  BY <1>0, FS_Subset
<1>5. Cardinality(S) \in N
  BY <1>0, <1>3
<1> QED
  BY <1>4, <1>5

\* The function is one.
LEMMA SumFcnSolves ==
    ASSUME NEW f, NEW S, IsFiniteSet(S)
    PROVE  Solves(f, SumFcn(f, S), SUBSET S)
<1> DEFINE P(g) == g = [s \in SUBSET S |-> IF s = {} THEN 0 ELSE f[Pick(s)] + g[s \ {Pick(s)}]]
<1>1. \E g : P(g)
  <2>1. PICK g : Solves(f, g, SUBSET S)
    BY SumSolvable
  <2>2. P(g)
    BY <2>1 DEF Solves, SumStep
  <2> QED
    BY <2>2
<1>2. P(CHOOSE g : P(g))
  <2> HIDE DEF P
  <2> QED
    BY <1>1, Zenon
<1> QED
  BY <1>2 DEF SumFcn, Solves, SumStep

\* The value on any subset, in terms of the smaller ones.
LEMMA SumFcnValue ==
    ASSUME NEW f, NEW S, IsFiniteSet(S), NEW s \in SUBSET S
    PROVE  SumFcn(f, S)[s] =
             IF s = {} THEN 0 ELSE f[Pick(s)] + SumFcn(f, S)[s \ {Pick(s)}]
<1>1. Solves(f, SumFcn(f, S), SUBSET S)
  BY SumFcnSolves
<1> DEFINE g == SumFcn(f, S)
<1> HIDE DEF g
<1>2. g = [t \in SUBSET S |-> SumStep(f, g, t)]
  BY <1>1 DEF Solves, g
<1>3. g[s] = SumStep(f, g, s)
  BY <1>2
<1> QED
  BY <1>3 DEF g, SumStep

\* Functions that agree on s, within any two sets, have the same value there.
LEMMA SumFcnAgrees ==
    ASSUME NEW f, NEW g, NEW S, NEW U, IsFiniteSet(S), IsFiniteSet(U), NEW s,
           s \subseteq S, s \subseteq U, \A x \in s : f[x] = g[x]
    PROVE  SumFcn(f, S)[s] = SumFcn(g, U)[s]
<1> DEFINE T == {t \in SUBSET s : SumFcn(f, S)[t] = SumFcn(g, U)[t]}
<1>1. {} \in T
  BY SumFcnValue
<1>2. ASSUME NEW t \in SUBSET s, t # {}, \A x \in t : t \ {x} \in T
      PROVE  t \in T
  <2>1. Pick(t) \in t
    BY <1>2 DEF Pick
  <2>2. SumFcn(f, S)[t \ {Pick(t)}] = SumFcn(g, U)[t \ {Pick(t)}]
    BY <1>2, <2>1
  <2>3. t \in SUBSET S /\ t \in SUBSET U /\ f[Pick(t)] = g[Pick(t)]
    BY <2>1
  <2>4. SumFcn(f, S)[t] = f[Pick(t)] + SumFcn(f, S)[t \ {Pick(t)}]
    BY <1>2, <2>3, SumFcnValue
  <2>5. SumFcn(g, U)[t] = g[Pick(t)] + SumFcn(g, U)[t \ {Pick(t)}]
    <3>1. SumFcn(g, U)[t] = IF t = {} THEN 0 ELSE g[Pick(t)] + SumFcn(g, U)[t \ {Pick(t)}]
      <4> HIDE DEF T
      <4> QED
        BY <2>3, SumFcnValue
    <3> QED
      BY <1>2, <3>1
  <2> QED
    BY <2>2, <2>3, <2>4, <2>5
<1>3. IsFiniteSet(s)
  BY FS_Subset
<1>4. SUBSET s \subseteq T
  <2> HIDE DEF T
  <2> QED
    BY <1>1, <1>2, <1>3, SetInduct
<1> QED
  BY <1>4

---------------------------------------------------------------------------
(* Sums *)

\* The sum over nothing.
LEMMA SumEmpty == ASSUME NEW f PROVE SumOver(f, {}) = 0
  BY SumOverFcn, SumFcnValue, FS_EmptySet

\* Sums of functions that agree.
LEMMA SumAgrees ==
    ASSUME NEW f, NEW g, NEW S, IsFiniteSet(S), \A x \in S : f[x] = g[x]
    PROVE  SumOver(f, S) = SumOver(g, S)
  BY SumOverFcn, SumFcnAgrees

\* The sum in terms of the one without the element it picks.
LEMMA SumPick ==
    ASSUME NEW f, NEW S, IsFiniteSet(S), S # {}
    PROVE  /\ Pick(S) \in S
           /\ SumOver(f, S) = f[Pick(S)] + SumOver(f, S \ {Pick(S)})
<1>1. Pick(S) \in S /\ IsFiniteSet(S \ {Pick(S)})
  BY FS_Subset DEF Pick
<1>2. SumFcn(f, S)[S] = f[Pick(S)] + SumFcn(f, S)[S \ {Pick(S)}]
  BY SumFcnValue
<1>3. SumFcn(f, S)[S \ {Pick(S)}] = SumFcn(f, S \ {Pick(S)})[S \ {Pick(S)}]
  BY <1>1, SumFcnAgrees
<1> QED
  BY <1>1, <1>2, <1>3, SumOverFcn

\* A sum of integers is one.
LEMMA SumInt ==
    ASSUME NEW f, NEW S, IsFiniteSet(S), \A x \in S : f[x] \in Int
    PROVE  SumOver(f, S) \in Int
<1> DEFINE T == {s \in SUBSET S : SumOver(f, s) \in Int}
<1>1. {} \in T
  BY SumEmpty
<1>2. ASSUME NEW s \in SUBSET S, s # {}, \A x \in s : s \ {x} \in T
      PROVE  s \in T
  <2>1. IsFiniteSet(s)
    BY FS_Subset
  <2>2. Pick(s) \in s /\ SumOver(f, s) = f[Pick(s)] + SumOver(f, s \ {Pick(s)})
    BY <1>2, <2>1, SumPick
  <2>3. SumOver(f, s \ {Pick(s)}) \in Int /\ f[Pick(s)] \in Int
    BY <1>2, <2>2
  <2> QED
    BY <2>2, <2>3
<1>3. SUBSET S \subseteq T
  <2> HIDE DEF T
  <2> QED
    BY <1>1, <1>2, SetInduct
<1> QED
  BY <1>3

\* Any element may be taken first.
LEMMA SumSplit ==
    ASSUME NEW f, NEW S, IsFiniteSet(S), \A y \in S : f[y] \in Int, NEW x \in S
    PROVE  SumOver(f, S) = f[x] + SumOver(f, S \ {x})
<1> DEFINE T == {s \in SUBSET S : \A y \in s : SumOver(f, s) = f[y] + SumOver(f, s \ {y})}
<1>1. {} \in T
  OBVIOUS
<1>2. ASSUME NEW s \in SUBSET S, s # {}, \A y \in s : s \ {y} \in T
      PROVE  s \in T
  <2> SUFFICES ASSUME NEW y \in s
               PROVE  SumOver(f, s) = f[y] + SumOver(f, s \ {y})
    OBVIOUS
  <2> DEFINE p == Pick(s)
  <2>1. IsFiniteSet(s) /\ IsFiniteSet(s \ {y}) /\ IsFiniteSet((s \ {y}) \ {p})
    BY FS_Subset
  <2>2. p \in s /\ SumOver(f, s) = f[p] + SumOver(f, s \ {p})
    BY <1>2, <2>1, SumPick
  <2> HIDE DEF p
  <2>3. CASE y = p
    BY <2>2, <2>3
  <2>4. CASE y # p
    <3> DEFINE r == (s \ {y}) \ {p}
    <3>3. (s \ {p}) \ {y} = r
      OBVIOUS
    <3>1. SumOver(f, s \ {p}) = f[y] + SumOver(f, r)
      BY <1>2, <2>2, <2>4, <3>3
    <3>2. SumOver(f, s \ {y}) = f[p] + SumOver(f, r)
      BY <1>2, <2>2, <2>4
    <3>4. SumOver(f, r) \in Int /\ f[p] \in Int /\ f[y] \in Int
      BY <2>1, <2>2, SumInt
    <3> HIDE DEF r
    <3> QED
      BY <2>2, <3>1, <3>2, <3>3, <3>4
  <2> QED
    BY <2>3, <2>4
<1>3. SUBSET S \subseteq T
  <2> HIDE DEF T
  <2> QED
    BY <1>1, <1>2, SetInduct
<1> QED
  BY <1>3

\* A sum of naturals is one, and no term exceeds it.
LEMMA SumNat ==
    ASSUME NEW f, NEW S, IsFiniteSet(S), \A x \in S : f[x] \in Nat
    PROVE  SumOver(f, S) \in Nat /\ \A x \in S : f[x] <= SumOver(f, S)
<1> DEFINE T == {s \in SUBSET S : SumOver(f, s) \in Nat}
<1>1. {} \in T
  BY SumEmpty
<1>2. ASSUME NEW s \in SUBSET S, s # {}, \A x \in s : s \ {x} \in T
      PROVE  s \in T
  <2>1. PICK x \in s : TRUE
    BY <1>2
  <2>2. SumOver(f, s) = f[x] + SumOver(f, s \ {x})
    BY FS_Subset, SumSplit
  <2>3. SumOver(f, s \ {x}) \in Nat /\ f[x] \in Nat
    BY <1>2
  <2> QED
    BY <2>2, <2>3
<1>3. SUBSET S \subseteq T
  <2> HIDE DEF T
  <2> QED
    BY <1>1, <1>2, SetInduct
<1>4. ASSUME NEW x \in S PROVE f[x] <= SumOver(f, S)
  <2>1. SumOver(f, S) = f[x] + SumOver(f, S \ {x})
    BY SumSplit
  <2>2. SumOver(f, S \ {x}) \in Nat /\ f[x] \in Nat
    BY <1>3
  <2> QED
    BY <2>1, <2>2
<1> QED
  BY <1>3, <1>4

\* Nor do two terms together.
LEMMA SumPair ==
    ASSUME NEW f, NEW S, IsFiniteSet(S), \A x \in S : f[x] \in Nat,
           NEW x \in S, NEW y \in S, x # y
    PROVE  f[x] + f[y] <= SumOver(f, S)
<1>1. SumOver(f, S) = f[x] + SumOver(f, S \ {x})
  BY SumSplit
<1>2. IsFiniteSet(S \ {x}) /\ y \in S \ {x}
  BY FS_Subset
<1>3. SumOver(f, S \ {x}) \in Nat /\ f[y] <= SumOver(f, S \ {x})
  BY <1>2, SumNat
<1> QED
  BY <1>1, <1>3

\* A change of one term changes the sum as much.
LEMMA SumChange ==
    ASSUME NEW S, IsFiniteSet(S), NEW f, \A y \in S : f[y] \in Int,
           NEW g, NEW x \in S, g[x] \in Int, \A y \in S : y # x => g[y] = f[y]
    PROVE  SumOver(g, S) = SumOver(f, S) + (g[x] - f[x])
<1>1. IsFiniteSet(S \ {x}) /\ \A y \in S : g[y] \in Int
  BY FS_Subset
<1>2. SumOver(f, S) = f[x] + SumOver(f, S \ {x}) /\ SumOver(g, S) = g[x] + SumOver(g, S \ {x})
  BY <1>1, SumSplit
<1>3. SumOver(g, S \ {x}) = SumOver(f, S \ {x})
  BY <1>1, SumAgrees
<1>4. SumOver(f, S \ {x}) \in Int
  BY <1>1, SumInt
<1> QED
  BY <1>2, <1>3, <1>4

\* A change of two terms.
LEMMA SumChangeTwo ==
    ASSUME NEW S, IsFiniteSet(S), NEW f, \A z \in S : f[z] \in Int,
           NEW g, NEW x \in S, NEW y \in S, x # y, g[x] \in Int, g[y] \in Int,
           \A z \in S : z # x /\ z # y => g[z] = f[z]
    PROVE  SumOver(g, S) = SumOver(f, S) + (g[x] - f[x]) + (g[y] - f[y])
<1> DEFINE h == [z \in S |-> IF z = x THEN g[x] ELSE f[z]]
<1>1. /\ \A z \in S : h[z] \in Int /\ (z # x => h[z] = f[z]) /\ (z # y => g[z] = h[z])
      /\ h[x] = g[x] /\ h[y] = f[y]
  OBVIOUS
<1> HIDE DEF h
<1>2. SumOver(h, S) = SumOver(f, S) + (h[x] - f[x])
  BY <1>1, SumChange
<1>3. SumOver(g, S) = SumOver(h, S) + (g[y] - h[y])
  BY <1>1, SumChange
<1>4. SumOver(f, S) \in Int
  BY SumInt
<1> QED
  BY <1>1, <1>2, <1>3, <1>4

\* One element more.
LEMMA SumAdd ==
    ASSUME NEW f, NEW S, IsFiniteSet(S), NEW x, x \notin S,
           \A y \in S \cup {x} : f[y] \in Int
    PROVE  SumOver(f, S \cup {x}) = SumOver(f, S) + f[x]
<1>1. IsFiniteSet(S \cup {x}) /\ (S \cup {x}) \ {x} = S
  BY FS_AddElement
<1>2. SumOver(f, S \cup {x}) = f[x] + SumOver(f, S)
  BY <1>1, SumSplit
<1>3. SumOver(f, S) \in Int
  BY SumInt
<1> QED
  BY <1>2, <1>3

\* Sums that are added term by term.
LEMMA SumPlus ==
    ASSUME NEW S, IsFiniteSet(S), NEW f, NEW g, NEW h,
           \A x \in S : f[x] \in Int /\ g[x] \in Int /\ h[x] = f[x] + g[x]
    PROVE  SumOver(h, S) = SumOver(f, S) + SumOver(g, S)
<1> DEFINE T == {s \in SUBSET S : SumOver(h, s) = SumOver(f, s) + SumOver(g, s)}
<1>1. {} \in T
  BY SumEmpty
<1>2. ASSUME NEW s \in SUBSET S, s # {}, \A x \in s : s \ {x} \in T
      PROVE  s \in T
  <2>1. PICK x \in s : TRUE
    BY <1>2
  <2>2. IsFiniteSet(s) /\ IsFiniteSet(s \ {x}) /\ \A y \in S : h[y] \in Int
    BY FS_Subset
  <2>3. /\ SumOver(f, s) = f[x] + SumOver(f, s \ {x})
        /\ SumOver(g, s) = g[x] + SumOver(g, s \ {x})
        /\ SumOver(h, s) = h[x] + SumOver(h, s \ {x})
    BY <2>2, SumSplit
  <2>4. SumOver(h, s \ {x}) = SumOver(f, s \ {x}) + SumOver(g, s \ {x})
    BY <1>2
  <2>5. SumOver(f, s \ {x}) \in Int /\ SumOver(g, s \ {x}) \in Int
    BY <2>2, SumInt
  <2> QED
    BY <2>3, <2>4, <2>5
<1>3. SUBSET S \subseteq T
  <2> HIDE DEF T
  <2> QED
    BY <1>1, <1>2, SetInduct
<1> QED
  BY <1>3

\* A factor of all terms is one of the sum.
LEMMA SumTimes ==
    ASSUME NEW S, IsFiniteSet(S), NEW f, NEW g, NEW c \in Int,
           \A x \in S : f[x] \in Int /\ g[x] = f[x] * c
    PROVE  SumOver(g, S) = SumOver(f, S) * c
<1> DEFINE T == {s \in SUBSET S : SumOver(g, s) = SumOver(f, s) * c}
<1>1. {} \in T
  <2>1. SumOver(g, {}) = 0 /\ SumOver(f, {}) = 0 /\ 0 * c = 0
    BY SumEmpty
  <2> QED
    BY <2>1
<1>2. ASSUME NEW s \in SUBSET S, s # {}, \A x \in s : s \ {x} \in T
      PROVE  s \in T
  <2>1. PICK x \in s : TRUE
    BY <1>2
  <2> DEFINE r == s \ {x}
  <2>2. IsFiniteSet(s) /\ IsFiniteSet(r) /\ \A y \in S : g[y] \in Int /\ f[y] \in Int
    <3>1. IsFiniteSet(s) /\ IsFiniteSet(r)
      BY FS_Subset
    <3>2. ASSUME NEW y \in S PROVE g[y] \in Int /\ f[y] \in Int
      <4> DEFINE a == f[y]
      <4>1. a \in Int /\ g[y] = a * c
        OBVIOUS
      <4> HIDE DEF a
      <4>2. a * c \in Int
        BY <4>1
      <4> QED
        BY <4>1, <4>2 DEF a
    <3> QED
      BY <3>1, <3>2
  <2>3. SumOver(f, s) = f[x] + SumOver(f, r) /\ SumOver(f, r) \in Int
    BY <2>2, SumSplit, SumInt
  <2>4. SumOver(g, s) = g[x] + SumOver(g, r)
    BY <2>2, SumSplit
  <2>5. SumOver(g, r) = SumOver(f, r) * c
    BY <1>2
  <2> DEFINE a == f[x]
             b == SumOver(f, r)
  <2>6. a \in Int /\ b \in Int /\ SumOver(f, s) = a + b /\ SumOver(g, s) = a * c + b * c
    BY <2>2, <2>3, <2>4, <2>5
  <2> HIDE DEF a, b
  <2>7. a * c + b * c = (a + b) * c
    BY <2>6
  <2> QED
    BY <2>6, <2>7
<1>3. SUBSET S \subseteq T
  <2> HIDE DEF T
  <2> QED
    BY <1>1, <1>2, SetInduct
<1> QED
  BY <1>3

\* Terms that are not greater, over a part of the set, have no greater sum.
LEMMA SumLess ==
    ASSUME NEW S, IsFiniteSet(S), NEW R \in SUBSET S, NEW f, NEW g,
           \A x \in S : f[x] \in Nat, \A x \in R : g[x] \in Int /\ g[x] <= f[x]
    PROVE  SumOver(g, R) <= SumOver(f, S)
<1> DEFINE T == {s \in SUBSET S : SumOver(g, s \cap R) <= SumOver(f, s)}
<1>1. {} \in T
  <2>1. {} \cap R = {}
    OBVIOUS
  <2> QED
    BY <2>1, SumEmpty
<1>2. ASSUME NEW s \in SUBSET S, s # {}, \A x \in s : s \ {x} \in T
      PROVE  s \in T
  <2>1. PICK x \in s : TRUE
    BY <1>2
  <2> DEFINE r == s \cap R
             q == (s \ {x}) \cap R
  <2>2. IsFiniteSet(s) /\ IsFiniteSet(s \ {x}) /\ IsFiniteSet(r) /\ IsFiniteSet(q)
    BY FS_Subset
  <2>3. SumOver(f, s) = f[x] + SumOver(f, s \ {x}) /\ SumOver(f, s \ {x}) \in Int
    BY <2>2, SumSplit, SumInt
  <2>4. SumOver(g, q) <= SumOver(f, s \ {x}) /\ SumOver(g, q) \in Int
    BY <1>2, <2>2, SumInt
  <2>5. CASE x \in R
    <3>1. x \in r /\ r \ {x} = q /\ \A y \in r : g[y] \in Int
      BY <2>5
    <3> HIDE DEF r, q
    <3>2. SumOver(g, r) = g[x] + SumOver(g, q)
      BY <2>2, <3>1, SumSplit
    <3>3. SumOver(g, r) <= SumOver(f, s)
      BY <2>3, <2>4, <2>5, <3>2
    <3> QED
      BY <3>3 DEF r
  <2>6. CASE x \notin R
    <3>1. r = q
      BY <2>6
    <3>2. f[x] \in Nat
      OBVIOUS
    <3> HIDE DEF r, q
    <3>3. SumOver(g, r) <= SumOver(f, s)
      BY <2>3, <2>4, <3>1, <3>2
    <3> QED
      BY <3>3 DEF r
  <2> QED
    BY <2>5, <2>6
<1>3. SUBSET S \subseteq T
  <2> HIDE DEF T
  <2> QED
    BY <1>1, <1>2, SetInduct
<1>4. S \cap R = R
  OBVIOUS
<1> QED
  BY <1>3, <1>4

\* Terms that are nothing may be left out.
LEMMA SumWithin ==
    ASSUME NEW S, IsFiniteSet(S), NEW R \in SUBSET S, NEW f,
           \A x \in R : f[x] \in Int, \A x \in S \ R : f[x] = 0
    PROVE  SumOver(f, S) = SumOver(f, R)
<1> DEFINE T == {s \in SUBSET S : SumOver(f, s) = SumOver(f, s \cap R)}
<1>1. {} \in T
  <2>1. {} \cap R = {}
    OBVIOUS
  <2> QED
    BY <2>1
<1>2. ASSUME NEW s \in SUBSET S, s # {}, \A x \in s : s \ {x} \in T
      PROVE  s \in T
  <2>1. PICK x \in s : TRUE
    BY <1>2
  <2> DEFINE r == s \cap R
             q == (s \ {x}) \cap R
  <2>2. /\ IsFiniteSet(s) /\ IsFiniteSet(s \ {x}) /\ IsFiniteSet(r) /\ IsFiniteSet(q)
        /\ \A y \in S : f[y] \in Int
    BY FS_Subset
  <2>3. SumOver(f, s) = f[x] + SumOver(f, s \ {x}) /\ SumOver(f, q) \in Int
    BY <2>2, SumSplit, SumInt
  <2>4. SumOver(f, s \ {x}) = SumOver(f, q)
    BY <1>2
  <2>5. CASE x \in R
    <3>1. x \in r /\ r \ {x} = q
      BY <2>5
    <3> HIDE DEF q
    <3>2. SumOver(f, r) = f[x] + SumOver(f, q)
      BY <2>2, <3>1, SumSplit
    <3> QED
      BY <2>3, <2>4, <3>2
  <2>6. CASE x \notin R
    <3>1. r = q /\ f[x] = 0
      BY <2>6
    <3> HIDE DEF r, q
    <3>2. SumOver(f, s) = SumOver(f, r)
      BY <2>3, <2>4, <3>1
    <3> QED
      BY <3>2 DEF r
  <2> QED
    BY <2>5, <2>6
<1>3. SUBSET S \subseteq T
  <2> HIDE DEF T
  <2> QED
    BY <1>1, <1>2, SetInduct
<1>4. S \cap R = R
  OBVIOUS
<1> QED
  BY <1>3, <1>4

---------------------------------------------------------------------------
(* Running sums *)

\* Nothing, any number of times.
LEMMA SumZero ==
    ASSUME NEW f, NEW S, IsFiniteSet(S), \A x \in S : f[x] = 0
    PROVE  SumOver(f, S) = 0
<1>1. SumOver(f, S) = SumOver(f, {})
  BY SumWithin
<1> QED
  BY <1>1, SumEmpty

\* P is the running sum of f along the enumeration e of S by 1..n.
RunningSum(f, S, n, e, P) ==
    /\ e \in Bijection(1..n, S)
    /\ P \in [0..n -> Nat]
    /\ P[0] = 0
    /\ \A i \in 1..n : P[i] = P[i - 1] + f[e[i]]
    /\ \A i, j \in 0..n : i <= j => P[i] <= P[j]

\* The entries of f, a function on the finite set S, add up to `total`.
AddsUpTo(f, S, total) ==
    \E n \in Nat : \E e, P : RunningSum(f, S, n, e, P) /\ P[n] = total

\* An empty ledger adds up to zero.
LEMMA AddsUpEmpty ==
    ASSUME NEW S, IsFiniteSet(S)
    PROVE  AddsUpTo([x \in S |-> 0], S, 0)
<1> DEFINE f == [x \in S |-> 0]
<1>1. PICK n \in Nat : ExistsBijection(1..n, S)
  BY FS_NatBijection
<1>2. PICK e : e \in Bijection(1..n, S)
  BY <1>1 DEF ExistsBijection
<1> DEFINE P == [i \in 0..n |-> 0]
<1>3. e \in [1..n -> S]
  BY <1>2 DEF Bijection, Injection
<1>4. \A i \in 1..n : f[e[i]] = 0
  BY <1>3
<1>5. \A i \in 1..n : i \in 0..n /\ i - 1 \in 0..n
  OBVIOUS
<1>6. P \in [0..n -> Nat] /\ P[0] = 0 /\ P[n] = 0
  OBVIOUS
<1>7. \A i \in 1..n : P[i] = P[i - 1] + f[e[i]]
  BY <1>4, <1>5
<1>8. RunningSum(f, S, n, e, P)
  BY <1>2, <1>6, <1>7 DEF RunningSum
<1> QED
  BY <1>6, <1>8 DEF AddsUpTo

\* No entry exceeds the total.
LEMMA AddsUpBound ==
    ASSUME NEW S, NEW f \in [S -> Nat], NEW total, AddsUpTo(f, S, total),
           NEW x \in S
    PROVE  total \in Nat /\ f[x] <= total
<1>0. PICK n \in Nat : \E e, P : RunningSum(f, S, n, e, P) /\ P[n] = total
  BY DEF AddsUpTo
<1>1. PICK e, P : RunningSum(f, S, n, e, P) /\ P[n] = total
  BY <1>0
<1>2. PICK i \in 1..n : e[i] = x
  BY <1>1 DEF RunningSum, Bijection, Surjection
<1>3. P[i] = P[i - 1] + f[x]
  BY <1>1, <1>2 DEF RunningSum
<1>4. P[i] <= P[n] /\ P[n] \in Nat /\ P[i - 1] \in Nat /\ P[i] \in Nat
  BY <1>1, <1>2 DEF RunningSum
<1> QED
  BY <1>1, <1>3, <1>4

\* A change of one entry that leaves it natural changes the total as much.
LEMMA AddsUpChange ==
    ASSUME NEW S, NEW f \in [S -> Nat], NEW total, AddsUpTo(f, S, total),
           NEW x \in S, NEW d \in Int, f[x] + d >= 0
    PROVE  AddsUpTo([f EXCEPT ![x] = @ + d], S, total + d)
<1> DEFINE g == [f EXCEPT ![x] = @ + d]
<1>0. PICK n \in Nat : \E e, P : RunningSum(f, S, n, e, P) /\ P[n] = total
  BY DEF AddsUpTo
<1>1. PICK e, P : RunningSum(f, S, n, e, P) /\ P[n] = total
  BY <1>0
<1>2. PICK k \in 1..n : e[k] = x
  BY <1>1 DEF RunningSum, Bijection, Surjection
<1>e. e \in [1..n -> S] /\ \A i, j \in 1..n : e[i] = e[j] => i = j
  BY <1>1 DEF RunningSum, Bijection, Injection, IsInjective
<1>P. P \in [0..n -> Nat] /\ P[0] = 0
  BY <1>1 DEF RunningSum
<1>s. \A i \in 1..n : P[i] = P[i - 1] + f[e[i]]
  BY <1>1 DEF RunningSum
<1>m. \A i, j \in 0..n : i <= j => P[i] <= P[j]
  BY <1>1 DEF RunningSum
<1> DEFINE Q == [i \in 0..n |-> IF i < k THEN P[i] ELSE P[i] + d]
<1>3. \A i \in 0..n : i >= k => P[i] + d \in Nat /\ P[k - 1] <= P[i] + d
  <2> TAKE i \in 0..n
  <2> HAVE i >= k
  <2>1. P[k] = P[k - 1] + f[x] /\ P[k - 1] \in Nat /\ P[k] \in Nat /\ f[x] \in Nat
    BY <1>2, <1>s, <1>P
  <2>2. P[i] >= P[k] /\ P[i] \in Nat
    BY <1>m, <1>P
  <2> QED
    BY <2>1, <2>2
<1>4. Q \in [0..n -> Nat]
  BY <1>3, <1>P
<1>5. Q[0] = 0 /\ Q[n] = total + d
  BY <1>1, <1>P
<1>6. \A i \in 1..n : Q[i] = Q[i - 1] + g[e[i]]
  <2> TAKE i \in 1..n
  <2>1. i \in 0..n /\ i - 1 \in 0..n /\ P[i] \in Nat /\ P[i - 1] \in Nat
    BY <1>P
  <2>2. e[i] \in S /\ f[e[i]] \in Nat /\ P[i] = P[i - 1] + f[e[i]]
    BY <1>e, <1>s
  <2>3. CASE i = k
    <3>1. g[e[i]] = f[e[i]] + d
      BY <1>2, <2>3
    <3>2. Q[i] = P[i] + d /\ Q[i - 1] = P[i - 1]
      BY <2>1, <2>3
    <3> QED
      BY <2>1, <2>2, <3>1, <3>2
  <2>4. CASE i # k
    <3>1. g[e[i]] = f[e[i]]
      BY <1>2, <1>e, <2>2, <2>4
    <3>2. CASE i < k
      BY <2>1, <2>2, <3>1, <3>2
    <3>3. CASE i > k
      BY <2>1, <2>2, <3>1, <3>3
    <3> QED
      BY <2>4, <3>2, <3>3
  <2> QED
    BY <2>3, <2>4
<1>7. \A i, j \in 0..n : i <= j => Q[i] <= Q[j]
  <2> TAKE i, j \in 0..n
  <2> HAVE i <= j
  <2>1. P[i] <= P[j] /\ P[i] \in Nat /\ P[j] \in Nat
    BY <1>m, <1>P
  <2>2. CASE j < k
    BY <2>1, <2>2
  <2>3. CASE i < k /\ j >= k
    <3>1. P[i] <= P[k - 1] /\ P[k - 1] \in Nat
      BY <1>m, <1>P, <2>3
    <3> QED
      BY <1>3, <2>1, <2>3, <3>1
  <2>4. CASE i >= k
    BY <2>1, <2>4
  <2> QED
    BY <2>2, <2>3, <2>4
<1>8. RunningSum(g, S, n, e, Q)
  BY <1>1, <1>4, <1>5, <1>6, <1>7 DEF RunningSum
<1> QED
  BY <1>5, <1>8 DEF AddsUpTo

\* A ledger adds up to its sum.
LEMMA AddsUpSum ==
    ASSUME NEW S, IsFiniteSet(S), NEW f \in [S -> Nat], NEW total, AddsUpTo(f, S, total)
    PROVE  total = SumOver(f, S)
<1>0. PICK n \in Nat : \E e, P : RunningSum(f, S, n, e, P) /\ P[n] = total
  BY DEF AddsUpTo
<1>1. PICK e, P : RunningSum(f, S, n, e, P) /\ P[n] = total
  BY <1>0
<1>2. /\ e \in [1..n -> S] /\ \A i, j \in 1..n : e[i] = e[j] => i = j
      /\ \A x \in S : \E i \in 1..n : e[i] = x
  BY <1>1 DEF RunningSum, Bijection, Injection, Surjection, IsInjective
<1>3. P[0] = 0 /\ \A i \in 1..n : P[i] = P[i - 1] + f[e[i]]
  BY <1>1 DEF RunningSum
<1> DEFINE First(i) == {e[j] : j \in 1..i}
           T == {i \in Nat : i <= n => P[i] = SumOver(f, First(i))}
<1>4. 0 \in T
  <2>1. First(0) = {}
    OBVIOUS
  <2> HIDE DEF First
  <2> QED
    BY <1>3, <2>1, SumEmpty
<1>5. ASSUME NEW i \in Nat, i \in T PROVE i + 1 \in T
  <2> SUFFICES ASSUME i + 1 <= n PROVE P[i + 1] = SumOver(f, First(i + 1))
    OBVIOUS
  <2>1. i + 1 \in 1..n /\ P[i + 1] = P[i] + f[e[i + 1]]
    BY <1>3
  <2>2. e[i + 1] \notin First(i) /\ First(i) \subseteq S /\ e[i + 1] \in S
    BY <1>2, <2>1
  <2>3. First(i + 1) = First(i) \cup {e[i + 1]}
    OBVIOUS
  <2>4. P[i] = SumOver(f, First(i))
    BY <1>5
  <2>5. IsFiniteSet(First(i)) /\ \A y \in First(i) \cup {e[i + 1]} : f[y] \in Int
    BY <2>2, FS_Subset
  <2> HIDE DEF First
  <2>6. SumOver(f, First(i) \cup {e[i + 1]}) = SumOver(f, First(i)) + f[e[i + 1]]
    BY <2>2, <2>5, SumAdd
  <2> QED
    BY <2>1, <2>3, <2>4, <2>6
<1>6. Nat \subseteq T
  <2> HIDE DEF T
  <2> QED
    BY <1>4, <1>5, NatInduct
<1>7. First(n) = S
  BY <1>2
<1> HIDE DEF First
<1> QED
  BY <1>1, <1>6, <1>7
=============================================================================
