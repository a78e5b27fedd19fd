----------------------------- MODULE Analysis_proofs -----------------------------
(***************************************************************************)
(* Proofs about the two parts that compute with accident cases: the        *)
(* attribution (Attribution), whose answers are shares of sums over types  *)
(* and factors, and the backtest (CaseBacktest), which rests on the        *)
(* calculators of RiskScores being monotone.                               *)
(***************************************************************************)
EXTENDS Attribution, CaseBacktest, FiniteSetTheorems, WellFoundedInduction, TLAPS

LEMMA SmallestOf ==
    ASSUME NEW T \in SUBSET Nat, T # {}
    PROVE  \E x \in T : \A y \in T : x <= y
<1> DEFINE R == {ss \in Nat \X Nat : ss[1] < ss[2]}
<1>1. IsWellFoundedOn(R, Nat)
  BY NatLessThanWellFounded DEF OpToRel
<1>2. \E x \in T : \A y \in T : ~ (<<y, x>> \in R)
  <2> HIDE DEF R
  <2> QED BY <1>1, WFMin, Zenon
<1>3. PICK x \in T : \A y \in T : ~ (<<y, x>> \in R)
  BY <1>2
<1>4. \A y \in T : x <= y
  <2> TAKE y \in T
  <2>1. x \in Nat /\ y \in Nat
    OBVIOUS
  <2>2. <<y, x>> \notin R
    BY <1>3
  <2>3. ~ (y < x)
    BY <2>1, <2>2
  <2> QED BY <2>1, <2>3
<1> QED BY <1>4

LEMMA LargestOf ==
    ASSUME NEW T \in SUBSET Nat, T # {}, NEW n \in Nat, \A t \in T : t <= n
    PROVE  \E x \in T : \A y \in T : x >= y
<1> DEFINE D == {n - t : t \in T}
<1>1. D \in SUBSET Nat /\ D # {}
  <2>1. \A t \in T : n - t \in Nat
    OBVIOUS
  <2>2. D \subseteq Nat
    BY <2>1
  <2>3. D # {}
    OBVIOUS
  <2> QED BY <2>2, <2>3
<1>2. PICK d \in D : \A e \in D : d <= e
  BY <1>1, SmallestOf
<1>3. PICK x \in T : d = n - x
  BY <1>2
<1>4. \A y \in T : x >= y
  <2> TAKE y \in T
  <2>1. n - y \in D
    OBVIOUS
  <2>2. d <= n - y
    BY <1>2, <2>1
  <2> HIDE DEF D
  <2> QED BY <1>3, <2>2
<1> QED BY <1>4
-----------------------------------------------------------------------------
(* Sums.  SumFunctionOnSet is a recursion over the subsets of a finite set. *)
(* That it has a solution, and one of natural numbers if what is summed up  *)
(* are natural numbers, follows from a smallest counterexample.             *)

\* One step of the sum of fun over s, when g has the sums of the smaller sets.
Step(fun, g, s) == IF s = {} THEN 0 ELSE fun[CHOOSE x \in s : TRUE] + g[s \ {CHOOSE x \in s : TRUE}]

LEMMA SumIsStep ==
    ASSUME NEW fun, NEW S
    PROVE  SumFunctionOnSet(fun, S) = (CHOOSE g : g = [s \in SUBSET S |-> Step(fun, g, s)])[S]
BY DEF SumFunctionOnSet, FoldFunctionOnSet, MapThenFoldSet, Step
\* g has the sums of the subsets with at most n members.
Sums(fun, S, g, n) ==
    \A s \in SUBSET S : Cardinality(s) <= n => g[s] = Step(fun, g, s)

LEMMA SumsExist ==
    ASSUME NEW fun, NEW S, IsFiniteSet(S)
    PROVE  \E g : g = [s \in SUBSET S |-> Step(fun, g, s)]
<1> DEFINE Good(n) == \E g : DOMAIN g = SUBSET S /\ g = [s \in SUBSET S |-> g[s]] /\ Sums(fun, S, g, n)
           Bad == {n \in Nat : ~ Good(n)}
<1>1. \A s \in SUBSET S : IsFiniteSet(s) /\ Cardinality(s) \in Nat /\ Cardinality(s) <= Cardinality(S)
  BY FS_Subset, FS_CardinalityType
<1>2. Good(0)
  <2> DEFINE g == [s \in SUBSET S |-> 0]
  <2>1. \A s \in SUBSET S : Cardinality(s) <= 0 => s = {}
    BY <1>1, FS_EmptySet
  <2>2. Sums(fun, S, g, 0)
    BY <2>1 DEF Sums, Step
  <2>3. DOMAIN g = SUBSET S /\ g = [s \in SUBSET S |-> g[s]]
    OBVIOUS
  <2> HIDE DEF g
  <2> QED BY <2>2, <2>3
<1>3. ASSUME NEW n \in Nat, Good(n) PROVE Good(n + 1)
  <2>1. PICK g : DOMAIN g = SUBSET S /\ g = [s \in SUBSET S |-> g[s]] /\ Sums(fun, S, g, n)
    BY <1>3
  <2> DEFINE h == [s \in SUBSET S |-> IF Cardinality(s) <= n THEN g[s] ELSE Step(fun, g, s)]
  <2>2. ASSUME NEW s \in SUBSET S, Cardinality(s) <= n + 1 PROVE h[s] = Step(fun, h, s)
    <3>1. h[s] = Step(fun, g, s)
      BY <2>1 DEF Sums
    <3>2. CASE s = {}
      BY <3>1, <3>2 DEF Step
    <3>3. CASE s # {}
      <4> DEFINE x == CHOOSE y \in s : TRUE
      <4>1. x \in s
        BY <3>3
      <4>2. Step(fun, g, s) = fun[x] + g[s \ {x}] /\ Step(fun, h, s) = fun[x] + h[s \ {x}]
        BY <3>3 DEF Step
      <4> HIDE DEF x
      <4>3. Cardinality(s \ {x}) = Cardinality(s) - 1 /\ Cardinality(s) \in Nat
        BY <1>1, <4>1, FS_RemoveElement
      <4>4. Cardinality(s \ {x}) <= n
        BY <2>2, <4>3
      <4>5. s \ {x} \in SUBSET S
        OBVIOUS
      <4>6. h[s \ {x}] = g[s \ {x}]
        BY <4>4, <4>5
      <4> HIDE DEF h
      <4> QED BY <3>1, <4>2, <4>6
    <3> QED BY <3>2, <3>3
  <2>3. Sums(fun, S, h, n + 1)
    <3> HIDE DEF h
    <3> QED BY <2>2 DEF Sums
  <2>4. DOMAIN h = SUBSET S /\ h = [s \in SUBSET S |-> h[s]]
    OBVIOUS
  <2> HIDE DEF h
  <2> QED BY <2>3, <2>4
<1>4. Bad = {}
  <2> SUFFICES ASSUME Bad # {} PROVE FALSE
    OBVIOUS
  <2>1. PICK n \in Bad : \A m \in Bad : n <= m
    <3>1. Bad \in SUBSET Nat
      OBVIOUS
    <3> HIDE DEF Bad
    <3> QED BY <3>1, SmallestOf
  <2> HIDE DEF Good
  <2>2. n \in Nat /\ ~ Good(n)
    OBVIOUS
  <2>3. n # 0
    BY <1>2, <2>2
  <2>4. n - 1 \in Nat /\ (n - 1) + 1 = n /\ ~ (n <= n - 1)
    BY <2>2, <2>3
  <2>5. Good(n - 1)
    BY <2>1, <2>4
  <2>6. Good((n - 1) + 1)
    BY <1>3, <2>4, <2>5
  <2> QED BY <2>2, <2>4, <2>6
<1>5. Good(Cardinality(S))
  <2> HIDE DEF Good
  <2> QED BY <1>4, FS_CardinalityType
<1>6. PICK g : DOMAIN g = SUBSET S /\ g = [s \in SUBSET S |-> g[s]] /\ Sums(fun, S, g, Cardinality(S))
  BY <1>5
<1>7. \A s \in SUBSET S : g[s] = Step(fun, g, s)
  BY <1>1, <1>6 DEF Sums
<1>8. g = [s \in SUBSET S |-> Step(fun, g, s)]
  <2> HIDE DEF Step
  <2> QED BY <1>6, <1>7
<1> QED BY <1>8

\* g has all the sums, the one over S among them.
HasSums(fun, S, g) ==
    g = [s \in SUBSET S |-> Step(fun, g, s)] /\ SumFunctionOnSet(fun, S) = g[S]

LEMMA FixedSum ==
    ASSUME NEW fun, NEW S, IsFiniteSet(S)
    PROVE  \E g : HasSums(fun, S, g)
<1> DEFINE h == CHOOSE g : g = [s \in SUBSET S |-> Step(fun, g, s)]
<1>1. h = [s \in SUBSET S |-> Step(fun, h, s)]
  <2>1. \E g : g = [s \in SUBSET S |-> Step(fun, g, s)]
    BY SumsExist
  <2> HIDE DEF Step
  <2> QED BY <2>1, Zenon
<1>2. SumFunctionOnSet(fun, S) = h[S]
  BY SumIsStep, Zenon
<1> HIDE DEF h
<1> QED BY <1>1, <1>2 DEF HasSums

LEMMA NaturalSum ==
    ASSUME NEW fun, NEW S, IsFiniteSet(S), \A x \in S : fun[x] \in Nat
    PROVE  SumFunctionOnSet(fun, S) \in Nat
<1>1. PICK g : HasSums(fun, S, g)
  BY FixedSum
<1>2. \A s \in SUBSET S : g[s] = Step(fun, g, s)
  BY <1>1 DEF HasSums
<1> DEFINE Bad == {Cardinality(s) : s \in {t \in SUBSET S : g[t] \notin Nat}}
<1>3. Bad = {}
  <2> SUFFICES ASSUME Bad # {} PROVE FALSE
    OBVIOUS
  <2>1. Bad \in SUBSET Nat
    BY FS_Subset, FS_CardinalityType
  <2>2. PICK n \in Bad : \A m \in Bad : n <= m
    <3> HIDE DEF Bad
    <3> QED BY <2>1, SmallestOf
  <2>3. PICK s \in SUBSET S : n = Cardinality(s) /\ g[s] \notin Nat
    BY <2>2
  <2> DEFINE x == CHOOSE y \in s : TRUE
  <2>4. s # {}
    <3>1. s = {} => Step(fun, g, s) = 0
      BY DEF Step
    <3>2. g[s] = Step(fun, g, s)
      BY <1>2, <2>3
    <3> QED BY <2>3, <3>1, <3>2
  <2>5. x \in s
    BY <2>4
  <2>6. g[s] = fun[x] + g[s \ {x}]
    BY <1>2, <2>3, <2>4 DEF Step
  <2> HIDE DEF x
  <2>7. IsFiniteSet(s) /\ Cardinality(s \ {x}) = n - 1 /\ n \in Nat
    BY <2>1, <2>3, <2>5, FS_Subset, FS_RemoveElement
  <2>8. s \ {x} \in SUBSET S
    BY <2>3
  <2>9. g[s \ {x}] \in Nat
    <3> SUFFICES ASSUME g[s \ {x}] \notin Nat PROVE FALSE
      OBVIOUS
    <3>1. n - 1 \in Bad
      BY <2>7, <2>8
    <3> QED BY <2>2, <2>7, <3>1
  <2>10. fun[x] \in Nat
    BY <2>3, <2>5
  <2> QED BY <2>3, <2>6, <2>9, <2>10
<1>4. S \in SUBSET S
  OBVIOUS
<1>5. g[S] \in Nat
  <2> SUFFICES ASSUME g[S] \notin Nat PROVE FALSE
    OBVIOUS
  <2>1. Cardinality(S) \in Bad
    BY <1>4
  <2> QED BY <1>3, <2>1
<1> QED BY <1>1, <1>5 DEF HasSums

\* A function that is k times another but for one member has k times its sum but for that.
LEMMA ShiftedSum ==
    ASSUME NEW fun, NEW gun, NEW S, IsFiniteSet(S), NEW o, NEW k \in {1, 20}, NEW more \in Int,
           \A x \in S : fun[x] \in Nat /\ gun[x] = k * fun[x] + (IF x = o THEN more ELSE 0)
    PROVE  SumFunctionOnSet(gun, S) = k * SumFunctionOnSet(fun, S) + (IF o \in S THEN more ELSE 0)
<1>1. PICK f : HasSums(fun, S, f)
  BY FixedSum
<1>2. PICK g : HasSums(gun, S, g)
  BY FixedSum
<1>3. \A s \in SUBSET S : f[s] = Step(fun, f, s) /\ g[s] = Step(gun, g, s)
  BY <1>1, <1>2 DEF HasSums
<1> DEFINE Fits(s) == f[s] \in Int /\ g[s] = k * f[s] + (IF o \in s THEN more ELSE 0)
           Bad == {Cardinality(s) : s \in {t \in SUBSET S : ~ Fits(t)}}
<1>4. Bad = {}
  <2> SUFFICES ASSUME Bad # {} PROVE FALSE
    OBVIOUS
  <2>1. Bad \in SUBSET Nat
    BY FS_Subset, FS_CardinalityType
  <2>2. PICK n \in Bad : \A m \in Bad : n <= m
    <3> HIDE DEF Bad
    <3> QED BY <2>1, SmallestOf
  <2>3. PICK s \in SUBSET S : n = Cardinality(s) /\ ~ Fits(s)
    BY <2>2
  <2> DEFINE x == CHOOSE y \in s : TRUE
  <2>4. s # {}
    <3> SUFFICES ASSUME s = {} PROVE Fits(s)
      BY <2>3
    <3>1. f[s] = 0 /\ g[s] = 0 /\ o \notin s
      BY <1>3 DEF Step
    <3> QED BY <3>1
  <2>5. x \in s
    BY <2>4
  <2>6. f[s] = fun[x] + f[s \ {x}] /\ g[s] = gun[x] + g[s \ {x}]
    BY <1>3, <2>3, <2>4 DEF Step
  <2> HIDE DEF x
  <2>7. Cardinality(s \ {x}) = n - 1 /\ n \in Nat
    BY <2>1, <2>3, <2>5, FS_Subset, FS_RemoveElement
  <2>8. s \ {x} \in SUBSET S
    BY <2>3
  <2>9. Fits(s \ {x})
    <3> SUFFICES ASSUME ~ Fits(s \ {x}) PROVE FALSE
      OBVIOUS
    <3> HIDE DEF Fits
    <3>1. n - 1 \in Bad
      BY <2>7, <2>8
    <3> HIDE DEF Bad
    <3> QED BY <2>2, <2>7, <3>1
  <2>10. fun[x] \in Nat /\ gun[x] = k * fun[x] + (IF x = o THEN more ELSE 0)
    BY <2>3, <2>5
  <2>11. (o \in s) <=> (o = x \/ o \in s \ {x})
    BY <2>5
  <2>12. PICK a, b, c, d : a = fun[x] /\ b = f[s \ {x}] /\ c = gun[x] /\ d = g[s \ {x}]
    OBVIOUS
  <2>13. a \in Int /\ b \in Int /\ f[s] = a + b /\ g[s] = c + d
    BY <2>6, <2>9, <2>10, <2>12
  <2>14. c + d = k * (a + b) + (IF o \in s THEN more ELSE 0)
    <3>1. CASE o = x
      <4>1. c = k * a + more /\ d = k * b /\ o \in s
        BY <2>5, <2>9, <2>10, <2>12, <3>1
      <4> QED BY <2>13, <4>1
    <3>2. CASE o # x
      <4>1. c = k * a /\ d = k * b + (IF o \in s THEN more ELSE 0)
        BY <2>9, <2>10, <2>11, <2>12, <3>2
      <4> QED BY <2>13, <4>1
    <3> QED BY <3>1, <3>2
  <2>15. Fits(s)
    BY <2>13, <2>14
  <2> QED BY <2>3, <2>15
<1>5. Fits(S)
  <2> SUFFICES ASSUME ~ Fits(S) PROVE FALSE
    OBVIOUS
  <2> HIDE DEF Fits
  <2>1. Cardinality(S) \in Bad
    OBVIOUS
  <2> HIDE DEF Bad
  <2> QED BY <1>4, <2>1
<1> QED BY <1>1, <1>2, <1>5 DEF HasSums

\* No part is larger than the sum.
LEMMA PartOfSum ==
    ASSUME NEW fun, NEW S, IsFiniteSet(S), \A x \in S : fun[x] \in Nat, NEW o \in S
    PROVE  fun[o] <= SumFunctionOnSet(fun, S)
<1> DEFINE rest == [x \in S |-> IF x = o THEN 0 ELSE fun[x]]
<1>1. PICK m \in Int : m = - fun[o]
  OBVIOUS
<1>2. \A x \in S : rest[x] \in Nat /\ rest[x] = 1 * fun[x] + (IF x = o THEN m ELSE 0)
  BY <1>1
<1> HIDE DEF rest
<1>3. SumFunctionOnSet(rest, S) \in Nat /\ SumFunctionOnSet(fun, S) \in Nat
  BY <1>2, NaturalSum
<1>4. 1 \in {1, 20}
  OBVIOUS
<1>5. SumFunctionOnSet(rest, S) = 1 * SumFunctionOnSet(fun, S) + (IF o \in S THEN m ELSE 0)
  BY <1>2, <1>4, ShiftedSum
<1> QED BY <1>1, <1>3, <1>5

LEMMA NaturalQuotient ==
    ASSUME NEW a \in Nat, NEW b \in Nat, b > 0
    PROVE  a \div b \in Nat
OBVIOUS
-----------------------------------------------------------------------------
(* The attribution                                                         *)

LEMMA LaplaceNatural ==
    ASSUME NEW count \in Nat, NEW of \in Nat
    PROVE  Laplace(count, of) \in Nat
<1> DEFINE a == 200 * (count + 1) + of + 2
           b == 2 * (of + 2)
<1>1. a \in Nat /\ b \in Nat /\ b > 0
  OBVIOUS
<1>2. Laplace(count, of) = a \div b
  BY DEF Laplace
<1> HIDE DEF a, b
<1> QED BY <1>1, <1>2, NaturalQuotient

Libraries == [CaseKinds -> Nat]

LEMMA NumberNatural ==
    ASSUME NEW lib \in Libraries, NEW kinds \in SUBSET CaseKinds
    PROVE  Number(lib, kinds) \in Nat
<1>1. IsFiniteSet(kinds)
  BY AttributionAssumption, FS_Subset
<1>2. \A x \in kinds : lib[x] \in Nat
  BY DEF Libraries
<1> QED BY <1>1, <1>2, NaturalSum DEF Number

\* Learned tables: natural percentages for every outcome.
GoodTables(tables) ==
    \A o \in Outcomes :
        /\ tables.outcomes[o].marginal \in Nat
        /\ \A n \in DOMAIN tables.outcomes[o].bucket : tables.outcomes[o].bucket[n] \in Nat

LEMMA LearnedGood ==
    ASSUME NEW lib \in Libraries
    PROVE  GoodTables(Learned(lib))
<1> SUFFICES ASSUME NEW o \in Outcomes
             PROVE  /\ Learned(lib).outcomes[o].marginal \in Nat
                    /\ \A n \in DOMAIN Learned(lib).outcomes[o].bucket : Learned(lib).outcomes[o].bucket[n] \in Nat
  BY DEF GoodTables
<1> DEFINE all(n) == {k \in CaseKinds : ActiveParents(Labels(k), o) = n}
           some(n) == {k \in all(n) : OutcomeOf(k) = o}
           named == {k \in CaseKinds : OutcomeOf(k) = o}
<1>1. /\ Number(lib, CaseKinds) \in Nat /\ Number(lib, named) \in Nat
      /\ \A n : Number(lib, all(n)) \in Nat /\ Number(lib, some(n)) \in Nat
  <2>1. CaseKinds \in SUBSET CaseKinds /\ named \in SUBSET CaseKinds
    OBVIOUS
  <2>2. \A n : all(n) \in SUBSET CaseKinds /\ some(n) \in SUBSET CaseKinds
    OBVIOUS
  <2> HIDE DEF all, some, named
  <2> QED BY <2>1, <2>2, NumberNatural
<1>2. Learned(lib).outcomes[o].marginal = Laplace(Number(lib, named), Number(lib, CaseKinds))
  BY DEF Learned
<1>3. \A n \in DOMAIN Learned(lib).outcomes[o].bucket :
         Learned(lib).outcomes[o].bucket[n] = Laplace(Number(lib, some(n)), Number(lib, all(n)))
  BY DEF Learned
<1> HIDE DEF all, some, named
<1>4. Learned(lib).outcomes[o].marginal \in Nat
  BY <1>1, <1>2, LaplaceNatural
<1>5. ASSUME NEW n \in DOMAIN Learned(lib).outcomes[o].bucket
      PROVE  Learned(lib).outcomes[o].bucket[n] \in Nat
  <2>1. Laplace(Number(lib, some(n)), Number(lib, all(n))) \in Nat
    BY <1>1, LaplaceNatural
  <2> QED BY <1>3, <2>1
<1> QED BY <1>4, <1>5

LEMMA DistributionNatural ==
    ASSUME NEW tables, GoodTables(tables), NEW e, NEW o \in Outcomes
    PROVE  Distribution(tables, e)[o] \in Nat
<1>1. Likely(tables, e, o) \in Nat
  BY DEF Likely, GoodTables
<1> QED BY <1>1 DEF Distribution

\* The strongest of a bounded set of signals.
LEMMA StrongestSignal ==
    ASSUME NEW T \in SUBSET Nat, T # {}, NEW n \in Nat, \A t \in T : t <= n
    PROVE  Max(T) \in Nat
<1>1. \E x \in T : \A y \in T : x >= y
  BY LargestOf
<1> DEFINE m == CHOOSE x \in T : \A y \in T : x >= y
<1>2. m \in T
  BY <1>1
<1> QED BY <1>2 DEF Max

LEMMA EvidenceNatural ==
    ASSUME NEW a \in Analyses, NEW f \in Factors
    PROVE  Evidence(a.profiles)[f] \in Nat
<1> DEFINE S(x) == Signal(a.profiles[x.of], x)
           T == {0} \cup {S(field) : field \in {x \in Fields : x.factor = f}}
<1>1. ASSUME NEW x \in Fields PROVE S(x) \in Nat /\ S(x) <= 100
  <2> DEFINE p == a.profiles[x.of]
             v == IF p.score[x] = None THEN 0 ELSE p.score[x]
  <2>1. CASE S(x) = 0
    BY <2>1
  <2>2. CASE p # None /\ S(x) = AtMost(100, (AtMost(100, v) * x.share) \div 100 + Boost(p.level))
    <3>1. v \in Nat /\ x.share \in Nat
      BY <2>2, AttributionAssumption
    <3>2. Boost(p.level) \in Nat
      BY DEF Boost
    <3> HIDE DEF v, p, S
    <3>3. AtMost(100, v) \in Nat
      BY <3>1 DEF AtMost
    <3>4. AtMost(100, v) * x.share \in Nat
      BY <3>1, <3>3
    <3>5. (AtMost(100, v) * x.share) \div 100 \in Nat
      BY <3>4, NaturalQuotient
    <3>6. (AtMost(100, v) * x.share) \div 100 + Boost(p.level) \in Nat
      BY <3>2, <3>5
    <3> QED BY <2>2, <3>6 DEF AtMost
  <2> QED BY <2>1, <2>2 DEF Signal
<1>2. Evidence(a.profiles)[f] = Max(T)
  BY DEF Evidence
<1> HIDE DEF S
<1>3. T \in SUBSET Nat /\ T # {} /\ \A t \in T : t <= 100
  BY <1>1
<1> HIDE DEF T
<1>4. 100 \in Nat
  OBVIOUS
<1> QED BY <1>2, <1>3, <1>4, StrongestSignal

\* What is served, as AutoServed has it.
NamingRaises(answer) ==
    ~ CutDown(answer) =>
        \A o \in DOMAIN answer.scores.parts :
           IF o = answer.named THEN AtLeast(answer.scores, answer.plain, o)
           ELSE AtLeast(answer.plain, answer.scores, o)

\* The parts of all are twenty times fun; then one of them is set to part, which is not less,
\* and the sum grows by what it grew.
LEMMA RaisedShares ==
    ASSUME NEW fun, NEW S, IsFiniteSet(S), \A x \in S : fun[x] \in Nat, NEW o \in S, NEW part \in Nat,
           part >= 20 * fun[o], NEW x \in S
    PROVE  LET plain == Shares([y \in S |-> 20 * fun[y]])
               raised == Shares([y \in S |-> IF y = o THEN part ELSE 20 * fun[y]])
           IN  IF x = o THEN AtLeast(raised, plain, x) ELSE AtLeast(plain, raised, x)
<1> DEFINE before == [y \in S |-> 20 * fun[y]]
           after == [y \in S |-> IF y = o THEN part ELSE 20 * fun[y]]
           sum == SumFunctionOnSet(fun, S)
<1>1. PICK a, b \in Nat : a = fun[o] /\ b = fun[x]
  OBVIOUS
<1>2. sum \in Nat /\ a <= sum /\ b <= sum
  BY <1>1, NaturalSum, PartOfSum
<1>3. /\ DOMAIN before = S /\ DOMAIN after = S
      /\ before[x] = 20 * b /\ after[x] = IF x = o THEN part ELSE 20 * b
  BY <1>1
<1>4. 20 \in {1, 20} /\ 0 \in Int /\ part - 20 * a \in Int
  BY <1>1
<1>5. /\ \A y \in S : before[y] = 20 * fun[y] + (IF y = o THEN 0 ELSE 0)
      /\ \A y \in S : after[y] = 20 * fun[y] + (IF y = o THEN part - 20 * a ELSE 0)
  BY <1>1
<1> HIDE DEF before, after
<1>6. SumFunctionOnSet(before, S) = 20 * sum
  <2>1. SumFunctionOnSet(before, S) = 20 * sum + (IF o \in S THEN 0 ELSE 0)
    BY <1>4, <1>5, ShiftedSum
  <2> QED BY <1>2, <2>1
<1>7. SumFunctionOnSet(after, S) = 20 * sum + (part - 20 * a)
  <2> PICK more \in Int : more = part - 20 * a
    BY <1>4
  <2>1. SumFunctionOnSet(after, S) = 20 * sum + (IF o \in S THEN more ELSE 0)
    BY <1>4, <1>5, ShiftedSum
  <2> QED BY <2>1
<1> HIDE DEF sum
<1>8. /\ Shares(before).of = OrOne(20 * sum) /\ Shares(before).parts = before
      /\ Shares(after).of = OrOne(20 * sum + (part - 20 * a)) /\ Shares(after).parts = after
  BY <1>3, <1>6, <1>7 DEF Shares, SumFunction
<1>9. part >= 20 * a
  BY <1>1
<1>10. CASE x = o
  <2>1. a = b
    BY <1>1, <1>10
  <2>2. part * OrOne(20 * sum) >= (20 * a) * OrOne(20 * sum + (part - 20 * a))
    <3>1. CASE sum = 0
      <4>1. a = 0
        BY <1>1, <1>2, <3>1
      <4> QED BY <1>9, <3>1, <4>1 DEF OrOne
    <3>2. CASE sum # 0
      <4>1. 20 * sum # 0 /\ 20 * sum + (part - 20 * a) # 0
        BY <1>1, <1>2, <1>9, <3>2
      <4>2. part * (20 * sum) - (20 * a) * (20 * sum + (part - 20 * a))
              = (20 * sum - 20 * a) * (part - 20 * a)
        BY <1>1, <1>2
      <4>3. (20 * sum - 20 * a) * (part - 20 * a) >= 0
        <5>1. 20 * sum - 20 * a \in Nat /\ part - 20 * a \in Nat
          BY <1>1, <1>2, <1>9
        <5>2. \A u, v \in Nat : u * v >= 0
          OBVIOUS
        <5> QED BY <5>1, <5>2
      <4> QED BY <1>1, <1>2, <4>1, <4>2, <4>3 DEF OrOne
    <3> QED BY <3>1, <3>2
  <2> QED BY <1>3, <1>8, <1>10, <2>1, <2>2 DEF AtLeast, before, after
<1>11. CASE x # o
  <2>1. (20 * b) * OrOne(20 * sum + (part - 20 * a)) >= (20 * b) * OrOne(20 * sum)
    <3>1. PICK u, v \in Nat : u = OrOne(20 * sum + (part - 20 * a)) /\ v = OrOne(20 * sum)
      <4>1. 20 * sum \in Nat /\ 20 * sum + (part - 20 * a) \in Nat
        BY <1>1, <1>2, <1>9
      <4> QED BY <4>1 DEF OrOne
    <3>2. CASE sum = 0
      <4>1. b = 0
        BY <1>1, <1>2, <3>2
      <4> QED BY <3>1, <4>1
    <3>3. CASE sum # 0
      <4>1. u >= v
        BY <1>1, <1>2, <1>9, <3>1, <3>3 DEF OrOne
      <4>2. u - v \in Nat /\ 20 * b \in Nat
        BY <1>1, <4>1
      <4>3. (20 * b) * u - (20 * b) * v = (20 * b) * (u - v)
        BY <1>1
      <4>4. \A m, n \in Nat : m * n >= 0
        OBVIOUS
      <4>5. (20 * b) * (u - v) >= 0
        BY <4>2, <4>4
      <4> QED BY <1>1, <3>1, <4>3, <4>5
    <3> QED BY <3>2, <3>3
  <2>2. AtLeast(Shares(before), Shares(after), x)
    BY <1>3, <1>8, <1>11, <2>1 DEF AtLeast
  <2> QED BY <1>11, <2>2 DEF before, after
<1> QED BY <1>10, <1>11 DEF before, after

\* An answer that was served without a raise is the plain one.
LEMMA UnnamedShares ==
    ASSUME NEW answer, NEW parts, answer.scores = Shares(parts), answer.plain = Shares(parts),
           \A o \in DOMAIN parts : parts[o] \in Nat, SumFunction(parts) \in Nat
    PROVE  NamingRaises(answer)
<1> SUFFICES ASSUME NEW o \in DOMAIN parts
             PROVE  AtLeast(answer.scores, answer.plain, o) /\ AtLeast(answer.plain, answer.scores, o)
  BY DEF NamingRaises, Shares
<1>1. PICK p, t \in Nat : p = parts[o] /\ t = OrOne(SumFunction(parts))
  BY DEF OrOne
<1>2. Shares(parts).parts[o] = p /\ Shares(parts).of = t
  BY <1>1 DEF Shares
<1>3. p * t >= p * t
  BY <1>1
<1> QED BY <1>2, <1>3 DEF AtLeast

LEMMA ScoreNatural ==
    ASSUME NEW a \in Analyses, NEW o \in Outcomes
    PROVE  Score(Weights(Evidence(a.profiles)), o) \in Nat
<1> DEFINE e == Evidence(a.profiles)
           v == [f \in Factors |-> FactorPrior[f] * (3500 + 65 * e[f])]
           w == Weights(e)
           product == [f \in Factors |-> w[f] * Likelihood[f][o]]
<1>1. \A f \in Factors : v[f] \in Nat
  <2> TAKE f \in Factors
  <2>1. e[f] \in Nat /\ FactorPrior[f] \in Nat
    BY EvidenceNatural, AttributionAssumption
  <2>2. v[f] = FactorPrior[f] * (3500 + 65 * e[f])
    OBVIOUS
  <2> HIDE DEF e, v
  <2>3. 3500 + 65 * e[f] \in Nat
    BY <2>1
  <2> QED BY <2>1, <2>2, <2>3
<1>2. DOMAIN v = Factors /\ DOMAIN product = Factors /\ IsFiniteSet(Factors)
  BY AttributionAssumption
<1>3. \A f \in Factors : w[f] = (100 * v[f]) \div OrOne(SumFunction(v))
  BY DEF Weights
<1>4. SumFunctionOnSet(v, Factors) \in Nat
  <2> HIDE DEF v
  <2> QED BY <1>1, <1>2, NaturalSum
<1>5. OrOne(SumFunction(v)) \in Nat /\ OrOne(SumFunction(v)) > 0
  <2> HIDE DEF v
  <2> QED BY <1>2, <1>4 DEF SumFunction, OrOne
<1> HIDE DEF v, w
<1>6. \A f \in Factors : w[f] \in Nat
  <2> TAKE f \in Factors
  <2>1. 100 * v[f] \in Nat
    BY <1>1
  <2> QED BY <1>3, <1>5, <2>1, NaturalQuotient
<1>7. \A f \in Factors : product[f] \in Nat
  <2> TAKE f \in Factors
  <2>1. Likelihood[f][o] \in Nat /\ w[f] \in Nat
    BY <1>6, AttributionAssumption
  <2> QED BY <2>1
<1>8. Score(w, o) = 100 * OutcomePrior[o] + SumFunctionOnSet(product, Factors)
  BY <1>2 DEF Score, SumFunction
<1> HIDE DEF product
<1>9. SumFunctionOnSet(product, Factors) \in Nat
  BY <1>2, <1>7, NaturalSum
<1>10. OutcomePrior[o] \in Nat
  BY AttributionAssumption
<1> QED BY <1>8, <1>9, <1>10 DEF w

LEMMA ExpertScoresRaised ==
    ASSUME NEW a \in Analyses, NEW answer, answer.named = a.named,
           answer.scores = L2Scores(Evidence(a.profiles), a.named),
           answer.plain = L2Scores(Evidence(a.profiles), None)
    PROVE  NamingRaises(answer)
<1> DEFINE S == Outcomes \ {"other"}
           w == Weights(Evidence(a.profiles))
           score == [o \in S |-> Score(w, o)]
           plain == [o \in S |-> 20 * score[o]]
<1>1. IsFiniteSet(S) /\ \A o \in S : score[o] \in Nat
  BY AttributionAssumption, ScoreNatural, FS_Subset
<1>2. /\ answer.scores = Shares([o \in S |-> score[o] * (IF o = a.named THEN 27 ELSE 20)])
      /\ answer.plain = Shares([o \in S |-> score[o] * (IF o = None THEN 27 ELSE 20)])
  BY DEF L2Scores
<1>3. None \notin S
  BY AttributionAssumption
<1> HIDE DEF w, score, S
<1>4. answer.plain = Shares(plain)
  <2>1. [o \in S |-> score[o] * (IF o = None THEN 27 ELSE 20)] = plain
    BY <1>1, <1>3
  <2> QED BY <1>2, <2>1
<1>5. CASE a.named \in S
  <2>1. PICK n \in S, part \in Nat : n = a.named /\ part = 27 * score[n]
    BY <1>1, <1>5
  <2> DEFINE raised == [o \in S |-> IF o = n THEN part ELSE 20 * score[o]]
  <2>2. answer.scores = Shares(raised)
    <3>1. [o \in S |-> score[o] * (IF o = a.named THEN 27 ELSE 20)] = raised
      BY <1>1, <2>1
    <3> QED BY <1>2, <3>1
  <2>3. part >= 20 * score[n]
    BY <1>1, <2>1
  <2>4. ASSUME NEW x \in S
        PROVE  IF x = n THEN AtLeast(Shares(raised), Shares(plain), x)
               ELSE AtLeast(Shares(plain), Shares(raised), x)
    BY <1>1, <2>3, RaisedShares
  <2>5. DOMAIN Shares(raised).parts = S
    BY DEF Shares
  <2> HIDE DEF raised, plain
  <2> QED BY <1>4, <2>1, <2>2, <2>4, <2>5 DEF NamingRaises
<1>6. CASE a.named \notin S
  <2>1. answer.scores = Shares(plain)
    <3>1. [o \in S |-> score[o] * (IF o = a.named THEN 27 ELSE 20)] = plain
      BY <1>1, <1>6
    <3> QED BY <1>2, <3>1
  <2>2. DOMAIN plain = S /\ \A o \in S : plain[o] \in Nat
    BY <1>1
  <2> HIDE DEF plain
  <2>3. SumFunction(plain) \in Nat
    BY <1>1, <2>2, NaturalSum DEF SumFunction
  <2> QED BY <1>4, <2>1, <2>2, <2>3, UnnamedShares
<1> QED BY <1>5, <1>6

LEMMA LearnedScoresRaised ==
    ASSUME NEW tables, GoodTables(tables), NEW e, NEW answer, answer.level = "L3",
           answer.scores = L3Scores(tables, e, answer.named), answer.plain = L3Scores(tables, e, None)
    PROVE  NamingRaises(answer)
<1> DEFINE d == Distribution(tables, e)
           sum == SumFunction(d)
           plain == [o \in Outcomes |-> 20 * d[o]]
           named == answer.named
<1>1. IsFiniteSet(Outcomes) /\ None \notin Outcomes /\ DOMAIN d = Outcomes
  BY AttributionAssumption DEF Distribution
<1>2. \A o \in Outcomes : d[o] \in Nat
  BY DistributionNatural
<1>3. /\ answer.scores = Shares([o \in Outcomes |->
            IF o = named THEN AtMost(19 * sum, 27 * d[o]) ELSE 20 * d[o]])
      /\ answer.plain = Shares([o \in Outcomes |->
            IF o = None THEN AtMost(19 * sum, 27 * d[o]) ELSE 20 * d[o]])
  BY DEF L3Scores
<1> HIDE DEF d
<1>4. sum = SumFunctionOnSet(d, Outcomes) /\ sum \in Nat
  BY <1>1, <1>2, NaturalSum DEF SumFunction
<1> HIDE DEF sum, named
<1>5. answer.plain = Shares(plain)
  <2>1. [o \in Outcomes |-> IF o = None THEN AtMost(19 * sum, 27 * d[o]) ELSE 20 * d[o]] = plain
    BY <1>1
  <2> QED BY <1>3, <2>1
<1>6. DOMAIN plain = Outcomes /\ \A o \in Outcomes : plain[o] = 20 * d[o] /\ plain[o] \in Nat
  BY <1>2
<1>7. CASE named \in Outcomes
  <2>1. PICK n \in Outcomes, part \in Nat : n = named /\ part = AtMost(19 * sum, 27 * d[n])
    BY <1>2, <1>4, <1>7 DEF AtMost
  <2> DEFINE raised == [o \in Outcomes |-> IF o = n THEN part ELSE 20 * d[o]]
  <2>2. answer.scores = Shares(raised)
    <3>1. [o \in Outcomes |-> IF o = named THEN AtMost(19 * sum, 27 * d[o]) ELSE 20 * d[o]] = raised
      BY <2>1
    <3> QED BY <1>3, <3>1
  <2>3. SUFFICES ASSUME ~ CutDown(answer) PROVE NamingRaises(answer)
    BY DEF NamingRaises
  <2>4. part >= 20 * d[n]
    <3>1. plain[n] = 20 * d[n] /\ d[n] \in Nat
      BY <1>2, <1>6
    <3>2. Shares(plain).of = OrOne(20 * sum) /\ Shares(plain).parts[n] = 20 * d[n]
      <4>1. SumFunction(plain) = 20 * sum
        <5> HIDE DEF plain
        <5>1. \A x \in Outcomes : d[x] \in Nat /\ plain[x] = 20 * d[x] + (IF x = n THEN 0 ELSE 0)
          BY <1>2, <1>6
        <5>2. 20 \in {1, 20} /\ 0 \in Int
          OBVIOUS
        <5>3. SumFunctionOnSet(plain, Outcomes) = 20 * sum + (IF n \in Outcomes THEN 0 ELSE 0)
          BY <1>1, <1>4, <5>1, <5>2, ShiftedSum
        <5> QED BY <1>4, <1>6, <5>3 DEF SumFunction
      <4> HIDE DEF plain
      <4> QED BY <3>1, <4>1 DEF Shares
    <3> HIDE DEF plain
    <3>3. ~ (20 * (20 * d[n]) > 19 * OrOne(20 * sum))
      BY <1>5, <2>1, <2>3, <3>2 DEF CutDown, named
    <3>4. CASE sum = 0
      <4>1. d[n] <= 0
        BY <1>1, <1>2, <1>4, <3>4, PartOfSum
      <4> QED BY <2>1, <3>1, <4>1
    <3>5. CASE sum # 0
      <4>1. OrOne(20 * sum) = 20 * sum
        BY <1>4, <3>5 DEF OrOne
      <4>2. 19 * sum >= 20 * d[n]
        BY <1>4, <3>1, <3>3, <4>1
      <4> QED BY <1>4, <2>1, <3>1, <4>2 DEF AtMost
    <3> QED BY <3>4, <3>5
  <2>5. ASSUME NEW x \in Outcomes
        PROVE  IF x = n THEN AtLeast(Shares(raised), Shares(plain), x)
               ELSE AtLeast(Shares(plain), Shares(raised), x)
    BY <1>1, <1>2, <2>4, RaisedShares
  <2>6. DOMAIN Shares(raised).parts = Outcomes
    BY DEF Shares
  <2> HIDE DEF raised, plain
  <2> QED BY <1>5, <2>1, <2>2, <2>5, <2>6 DEF NamingRaises, named
<1>8. CASE named \notin Outcomes
  <2>1. answer.scores = Shares(plain)
    <3>1. [o \in Outcomes |-> IF o = named THEN AtMost(19 * sum, 27 * d[o]) ELSE 20 * d[o]] = plain
      BY <1>8
    <3> QED BY <1>3, <3>1
  <2> HIDE DEF plain
  <2>2. SumFunction(plain) \in Nat
    BY <1>1, <1>6, NaturalSum DEF SumFunction
  <2> QED BY <1>5, <1>6, <2>1, <2>2, UnnamedShares
<1> QED BY <1>7, <1>8

\* The learned file is missing, emptied by a training run, or whole.
FileFits(file) == file = [whole |-> FALSE] \/ (file.whole = TRUE /\ GoodTables(file.tables))

AnswerFields == {"at", "requested", "count", "level", "evidence", "named", "scores", "plain"}

JobFits(job) ==
    /\ job.at \in {"open", "write"} => GoodTables(job.tables) /\ {"at", "tables"} \subseteq DOMAIN job
    /\ job.at = "read" => DOMAIN job = AnswerFields /\ job.level = "L3" /\ FileFits(cptFile)
    /\ job.at = "refused" => job.requested # "auto" \/ job.count < L2Min
    /\ job.at = "served" => NamingRaises(job)

\* A stored file, the tables of a training run and what it writes are learned from natural
\* counts; whoever waits to read the file found one, and a file does not disappear.
AttributionInv ==
    /\ library \in [Clients -> Libraries]
    /\ cptFile = None \/ FileFits(cptFile)
    /\ DOMAIN job3 = Requests
    /\ \A r \in Requests : JobFits(job3[r])

LEMMA AutoServedFollows == AttributionInv => AutoServed
BY DEF AttributionInv, AutoServed, JobFits, NamingRaises

\* A step that changes one job, and no file, to one that fits.
LEMMA OneJobFits ==
    ASSUME AttributionInv, cptFile' = cptFile, NEW r \in Requests, NEW job,
           job3' = [job3 EXCEPT ![r] = job], library' \in [Clients -> Libraries], JobFits(job)
    PROVE  AttributionInv'
<1>1. \A q \in Requests : job3'[q] = IF q = r THEN job ELSE job3[q]
  BY DEF AttributionInv
<1>2. \A q \in Requests : JobFits(job3[q])
  BY DEF AttributionInv
<1>3. \A q \in Requests : JobFits(job3'[q])
  BY <1>1, <1>2
<1>4. \A q \in Requests : JobFits(job3[q])'
  BY <1>3 DEF JobFits
<1> QED BY <1>4 DEF AttributionInv

LEMMA IdleFits == JobFits(Idle3)
BY DEF JobFits, Idle3

LEMMA FittingFile ==
    ASSUME NEW file, FileFits(file)
    PROVE  file.whole => GoodTables(file.tables)
BY DEF FileFits

LEMMA ChangeLibraryFits ==
    ASSUME AttributionInv, ChangeLibrary
    PROVE  AttributionInv'
<1>1. library' \in [Clients -> Libraries]
  <2>1. PICK t \in Clients, k \in CaseKinds, n \in {1, -1} :
           library[t][k] + n >= 0 /\ library' = [library EXCEPT ![t][k] = @ + n]
    BY DEF ChangeLibrary
  <2>2. library \in [Clients -> [CaseKinds -> Nat]]
    BY DEF AttributionInv, Libraries
  <2>3. library[t][k] + n \in Nat
    BY <2>1, <2>2
  <2>4. [library[t] EXCEPT ![k] = library[t][k] + n] \in [CaseKinds -> Nat]
    BY <2>2, <2>3
  <2>5. library' = [library EXCEPT ![t] = [library[t] EXCEPT ![k] = library[t][k] + n]]
    BY <2>1
  <2> QED BY <2>2, <2>4, <2>5 DEF Libraries
<1>2. job3' = job3 /\ cptFile' = cptFile
  BY DEF ChangeLibrary
<1> QED BY <1>1, <1>2 DEF AttributionInv, JobFits

LEMMA SeededFits ==
    ASSUME AttributionInv
    PROVE  SeedRows \in Libraries /\ Reseeded \in [Clients -> Libraries]
<1>1. SeedRows \in Libraries
  BY DEF SeedRows, Libraries
<1>2. library \in [Clients -> [CaseKinds -> Nat]] /\ SeedClient \in Clients
  BY AttributionAssumption DEF AttributionInv, Libraries
<1>3. [k \in CaseKinds |-> IF k.seed THEN 1 ELSE library[SeedClient][k]] \in [CaseKinds -> Nat]
  BY <1>2
<1>4. Reseeded \in [Clients -> Libraries]
  BY <1>2, <1>3 DEF Reseeded, Libraries
<1> QED BY <1>1, <1>4

LEMMA BeginTrainFits ==
    ASSUME AttributionInv, NEW r \in Requests, NEW t \in Clients, NEW source, BeginTrain(r, t, source)
    PROVE  AttributionInv'
<1> DEFINE rows == IF source = "seeds" THEN SeedRows ELSE Reseeded[t]
           job == [at |-> "open", tables |-> Learned(rows)]
<1>1. rows \in Libraries
  BY SeededFits
<1>2. library' \in [Clients -> Libraries] /\ cptFile' = cptFile
  BY SeededFits DEF BeginTrain, AttributionInv
<1>3. job3' = job3 \/ job3' = [job3 EXCEPT ![r] = job]
  BY DEF BeginTrain
<1>4. GoodTables(Learned(rows))
  <2> HIDE DEF rows
  <2> QED BY <1>1, LearnedGood
<1>5. JobFits(job)
  <2> HIDE DEF rows
  <2> QED BY <1>4 DEF JobFits
<1> HIDE DEF job
<1>6. CASE job3' = job3
  BY <1>2, <1>6 DEF AttributionInv, JobFits
<1>7. CASE job3' = [job3 EXCEPT ![r] = job]
  BY <1>2, <1>5, <1>7, OneJobFits
<1> QED BY <1>3, <1>6, <1>7

LEMMA OpenFileFits ==
    ASSUME AttributionInv, NEW r \in Requests, OpenFile(r)
    PROVE  AttributionInv'
<1>1. /\ job3[r].at = "open" /\ cptFile' = [whole |-> FALSE] /\ library' = library
      /\ job3' = [job3 EXCEPT ![r].at = "write"]
  BY DEF OpenFile
<1>2. FileFits(cptFile)'
  BY <1>1 DEF FileFits
<1>3. JobFits(job3[r]) /\ DOMAIN job3 = Requests
  BY DEF AttributionInv
<1>4. GoodTables(job3[r].tables) /\ {"at", "tables"} \subseteq DOMAIN job3[r]
  BY <1>1, <1>3 DEF JobFits
<1>5. /\ DOMAIN job3' = Requests /\ job3'[r] = [job3[r] EXCEPT !.at = "write"]
      /\ \A q \in Requests \ {r} : job3'[q] = job3[q]
  BY <1>1, <1>3
<1>6. JobFits(job3[r])'
  <2>1. job3'[r].at = "write" /\ job3'[r].tables = job3[r].tables /\ DOMAIN job3'[r] = DOMAIN job3[r]
    BY <1>4, <1>5
  <2> QED BY <1>4, <2>1 DEF JobFits
<1>7. ASSUME NEW q \in Requests \ {r} PROVE JobFits(job3[q])'
  <2>1. JobFits(job3[q])
    BY DEF AttributionInv
  <2>2. job3'[q] = job3[q]
    BY <1>5
  <2> QED BY <1>2, <2>1, <2>2 DEF JobFits
<1> QED BY <1>1, <1>2, <1>5, <1>6, <1>7 DEF AttributionInv

LEMMA WriteFileFits ==
    ASSUME AttributionInv, NEW r \in Requests, WriteFile(r)
    PROVE  AttributionInv'
<1>1. /\ job3[r].at = "write" /\ cptFile' = [whole |-> TRUE, tables |-> job3[r].tables] /\ library' = library
      /\ job3' = [job3 EXCEPT ![r] = Idle3]
  BY DEF WriteFile
<1>2. JobFits(job3[r]) /\ DOMAIN job3 = Requests
  BY DEF AttributionInv
<1>3. FileFits(cptFile)'
  <2>1. GoodTables(job3[r].tables)
    BY <1>1, <1>2 DEF JobFits
  <2> QED BY <1>1, <2>1 DEF FileFits
<1>4. DOMAIN job3' = Requests /\ job3'[r] = Idle3 /\ \A q \in Requests \ {r} : job3'[q] = job3[q]
  BY <1>1, <1>2
<1>5. JobFits(job3[r])'
  BY <1>4 DEF JobFits, Idle3
<1>6. ASSUME NEW q \in Requests \ {r} PROVE JobFits(job3[q])'
  <2>1. JobFits(job3[q])
    BY DEF AttributionInv
  <2>2. job3'[q] = job3[q]
    BY <1>4
  <2> QED BY <1>3, <2>1, <2>2 DEF JobFits
<1> QED BY <1>1, <1>3, <1>4, <1>5, <1>6 DEF AttributionInv

LEMMA LoseJobFits ==
    ASSUME AttributionInv, NEW r \in Requests, LoseJob3(r)
    PROVE  AttributionInv'
BY IdleFits, OneJobFits DEF LoseJob3, AttributionInv

LEMMA BeginAnalyzeFits ==
    ASSUME AttributionInv, NEW r \in Requests, NEW t \in Clients, NEW a \in Analyses, BeginAnalyze(r, t, a)
    PROVE  AttributionInv'
<1> DEFINE count == CaseCount(t)
           level == ModelLevel(a.requested, count, cptFile # None)
           ask == [at |-> "read", requested |-> a.requested, count |-> count, level |-> level,
                   evidence |-> Evidence(a.profiles), named |-> a.named, scores |-> None, plain |-> None]
           refused == [ask EXCEPT !.at = "refused"]
           read == [ask EXCEPT !.at = "read"]
           served == [Answer2(ask) EXCEPT !.at = "served"]
<1>1. library' \in [Clients -> Libraries] /\ cptFile' = cptFile
  BY DEF BeginAnalyze, AttributionInv
<1>2. CASE job3' = [job3 EXCEPT ![r] = refused] /\ (IF level = "L3" THEN count < L3Min \/ cptFile = None ELSE count < L2Min)
  <2>1. a.requested # "auto" \/ count < L2Min
    <3>1. count \in Nat /\ L3Min \in Nat
      <4>1. library[t] \in Libraries
        BY DEF AttributionInv
      <4> QED BY <4>1, NumberNatural, AttributionAssumption DEF CaseCount
    <3>2. SUFFICES ASSUME a.requested = "auto" PROVE count < L2Min
      OBVIOUS
    <3>3. level = IF count >= L3Min /\ cptFile # None THEN "L3" ELSE "L2"
      BY <3>2 DEF ModelLevel
    <3> HIDE DEF count, level
    <3>4. CASE count >= L3Min /\ cptFile # None
      BY <1>2, <3>1, <3>3, <3>4
    <3>5. CASE ~ (count >= L3Min /\ cptFile # None)
      BY <1>2, <3>3, <3>5
    <3> QED BY <3>4, <3>5
  <2>2. refused.at = "refused" /\ refused.requested = a.requested /\ refused.count = count
    OBVIOUS
  <2> HIDE DEF refused
  <2>3. JobFits(refused)
    BY <2>1, <2>2 DEF JobFits
  <2> QED BY <1>1, <1>2, <2>3, OneJobFits
<1>3. CASE job3' = [job3 EXCEPT ![r] = read] /\ level = "L3" /\ cptFile # None
  <2>1. read.at = "read" /\ DOMAIN read = AnswerFields /\ read.level = "L3"
    BY <1>3 DEF AnswerFields
  <2>2. FileFits(cptFile)
    BY <1>3 DEF AttributionInv
  <2> HIDE DEF read
  <2>3. JobFits(read)
    BY <2>1, <2>2 DEF JobFits
  <2> QED BY <1>1, <1>3, <2>3, OneJobFits
<1>4. CASE job3' = [job3 EXCEPT ![r] = served]
  <2>1. /\ served.at = "served" /\ served.named = a.named
        /\ served.scores = L2Scores(Evidence(a.profiles), a.named)
        /\ served.plain = L2Scores(Evidence(a.profiles), None)
    BY DEF Answer2
  <2> HIDE DEF served
  <2>2. NamingRaises(served)
    BY <2>1, ExpertScoresRaised
  <2>3. JobFits(served)
    BY <2>1, <2>2 DEF JobFits
  <2> QED BY <1>1, <1>4, <2>3, OneJobFits
<1>5. ASSUME NEW at \in {"forbidden", "missing"}, job3' = [job3 EXCEPT ![r] = [ask EXCEPT !.at = at]]
      PROVE  AttributionInv'
  <2>1. PICK other : other = [ask EXCEPT !.at = at]
    OBVIOUS
  <2>2. other.at = at
    BY <2>1
  <2>3. JobFits(other)
    BY <2>2 DEF JobFits
  <2> HIDE DEF ask
  <2> QED BY <1>1, <1>5, <2>1, <2>3, OneJobFits
<1> HIDE DEF refused, read, served
<1>6. \/ job3' = [job3 EXCEPT ![r] = refused] /\ (IF level = "L3" THEN count < L3Min \/ cptFile = None ELSE count < L2Min)
      \/ job3' = [job3 EXCEPT ![r] = read] /\ level = "L3" /\ cptFile # None
      \/ job3' = [job3 EXCEPT ![r] = served]
      \/ \E at \in {"forbidden", "missing"} : job3' = [job3 EXCEPT ![r] = [ask EXCEPT !.at = at]]
  BY DEF BeginAnalyze, Settled, refused, read, served
<1> QED BY <1>2, <1>3, <1>4, <1>5, <1>6

LEMMA ReadTablesFits ==
    ASSUME AttributionInv, NEW r \in Requests, NEW edgeTypes, ReadTables(r, edgeTypes)
    PROVE  AttributionInv'
<1> DEFINE ask == job3[r]
           e == WithGraph(ask.evidence, GraphBoosts(edgeTypes))
           failed == [ask EXCEPT !.at = "failed"]
           served == [Answer3(ask, cptFile.tables, e) EXCEPT !.at = "served"]
<1>1. library' \in [Clients -> Libraries] /\ cptFile' = cptFile
  BY DEF ReadTables, AttributionInv
<1>2. DOMAIN ask = AnswerFields /\ ask.level = "L3" /\ FileFits(cptFile)
  BY DEF ReadTables, AttributionInv, JobFits
<1>3. CASE job3' = [job3 EXCEPT ![r] = failed]
  <2>1. failed.at = "failed"
    BY <1>2 DEF AnswerFields
  <2> HIDE DEF failed
  <2>2. JobFits(failed)
    BY <2>1 DEF JobFits
  <2> QED BY <1>1, <1>3, <2>2, OneJobFits
<1>4. CASE job3' = [job3 EXCEPT ![r] = served] /\ cptFile.whole
  <2>1. /\ served.at = "served" /\ served.named = ask.named /\ served.level = "L3"
        /\ served.scores = L3Scores(cptFile.tables, e, ask.named)
        /\ served.plain = L3Scores(cptFile.tables, e, None)
    BY <1>2 DEF Answer3, AnswerFields
  <2>2. GoodTables(cptFile.tables)
    BY <1>2, <1>4, FittingFile
  <2> HIDE DEF served, e
  <2>3. NamingRaises(served)
    BY <2>1, <2>2, LearnedScoresRaised
  <2>4. JobFits(served)
    BY <2>1, <2>3 DEF JobFits
  <2> QED BY <1>1, <1>4, <2>4, OneJobFits
<1>5. \/ job3' = [job3 EXCEPT ![r] = failed]
      \/ job3' = [job3 EXCEPT ![r] = served] /\ cptFile.whole
  BY DEF ReadTables, Settled
<1> QED BY <1>3, <1>4, <1>5

\* For any tenants, factors, priors, cases and requests: who leaves the choice of the level
\* open is not refused for want of cases once the expert level has its own, and naming an
\* accident type never lowers its probability nor raises another's, unless it stood above
\* 95 percent already.
THEOREM AutoAlwaysServed == AttributionSpec => []AutoServed
<1>1. AttributionInit => AttributionInv
  <2> SUFFICES ASSUME AttributionInit PROVE AttributionInv
    OBVIOUS
  <2>1. library \in [Clients -> Libraries]
    BY DEF AttributionInit, Libraries
  <2>2. DOMAIN job3 = Requests /\ \A r \in Requests : job3[r] = Idle3
    BY DEF AttributionInit
  <2> QED BY <2>1, <2>2, IdleFits DEF AttributionInit, AttributionInv
<1>2. AttributionInv /\ [AttributionNext]_attributionVars => AttributionInv'
  <2> SUFFICES ASSUME AttributionInv, [AttributionNext]_attributionVars PROVE AttributionInv'
    OBVIOUS
  <2>1. CASE ChangeLibrary
    BY <2>1, ChangeLibraryFits
  <2>2. ASSUME NEW r \in Requests, NEW t \in Clients, NEW source \in {"gated", "ungated", "seeds"},
               BeginTrain(r, t, source)
        PROVE  AttributionInv'
    BY <2>2, BeginTrainFits
  <2>3. ASSUME NEW r \in Requests, OpenFile(r) PROVE AttributionInv'
    BY <2>3, OpenFileFits
  <2>4. ASSUME NEW r \in Requests, WriteFile(r) PROVE AttributionInv'
    BY <2>4, WriteFileFits
  <2>5. ASSUME NEW r \in Requests, LoseJob3(r) PROVE AttributionInv'
    BY <2>5, LoseJobFits
  <2>6. ASSUME NEW r \in Requests, NEW t \in Clients, NEW a \in Analyses, BeginAnalyze(r, t, a)
        PROVE  AttributionInv'
    BY <2>6, BeginAnalyzeFits
  <2>7. ASSUME NEW r \in Requests, NEW edgeTypes \in SUBSET DOMAIN RelationshipBoost, ReadTables(r, edgeTypes)
        PROVE  AttributionInv'
    BY <2>7, ReadTablesFits
  <2>8. CASE UNCHANGED attributionVars
    BY <2>8 DEF AttributionInv, JobFits, attributionVars
  <2> QED BY <2>1, <2>2, <2>3, <2>4, <2>5, <2>6, <2>7, <2>8 DEF AttributionNext
<1>3. AttributionInv => AutoServed
  BY AutoServedFollows
<1> QED BY <1>1, <1>2, <1>3, PTL DEF AttributionSpec
-----------------------------------------------------------------------------
(* The calculators: graver facts give no lower level.  The score itself may *)
(* drop: a finding that demands the level high lifts 60 points to 61, while *)
(* 60.5 points are high already and stay.                                   *)

LEMMA ProductGrows ==
    ASSUME NEW a \in Nat, NEW b \in Nat, NEW c \in Nat, NEW d \in Nat, a <= b, c <= d
    PROVE  a * c <= b * d /\ a * c \in Nat /\ b * d \in Nat
<1>1. a * c <= b * c
  OBVIOUS
<1>2. b * c <= b * d
  OBVIOUS
<1>3. a * c \in Nat /\ b * c \in Nat /\ b * d \in Nat
  OBVIOUS
<1> QED BY <1>1, <1>2, <1>3

\* A higher base, factor or bonus gives no lower score.
LEMMA ScoreGrows ==
    ASSUME NEW base \in Nat, NEW factor \in Nat, NEW bonus \in Nat,
           NEW base2 \in Nat, NEW factor2 \in Nat, NEW bonus2 \in Nat,
           base <= base2, factor <= factor2, bonus <= bonus2
    PROVE  /\ FinalScore(base, factor, bonus) \in Nat /\ FinalScore(base2, factor2, bonus2) \in Nat
           /\ FinalScore(base, factor, bonus) <= FinalScore(base2, factor2, bonus2)
<1> DEFINE x == base * factor
           y == base2 * factor2
<1>1. x <= y /\ x \in Nat /\ y \in Nat
  BY ProductGrows
<1>2. /\ FinalScore(base, factor, bonus) = Least(10000, Most(0, (x + 50) \div 100 + 100 * bonus))
      /\ FinalScore(base2, factor2, bonus2) = Least(10000, Most(0, (y + 50) \div 100 + 100 * bonus2))
  BY DEF FinalScore
<1> HIDE DEF x, y
<1>3. (x + 50) \div 100 <= (y + 50) \div 100 /\ (x + 50) \div 100 \in Nat /\ (y + 50) \div 100 \in Nat
  BY <1>1
<1> QED BY <1>2, <1>3 DEF Least, Most

\* A higher score, or a grave finding, gives no lower level.
LEMMA LevelGrows ==
    ASSUME NEW s \in Nat, NEW t \in Nat, s <= t, NEW must \in BOOLEAN, NEW must2 \in BOOLEAN, must => must2
    PROVE  Rank(Raised(s, must).level) <= Rank(Raised(t, must2).level)
<1> DEFINE N(x) == IF x <= 3000 THEN 1 ELSE IF x <= 6000 THEN 2 ELSE IF x <= 8000 THEN 3 ELSE 4
<1>1. ASSUME NEW x \in Nat, NEW m \in BOOLEAN
      PROVE  Rank(Raised(x, m).level) = IF m /\ N(x) < 3 THEN 3 ELSE N(x)
  <2>1. CASE x <= 3000
    BY <2>1 DEF Raised, LevelFor, Rank
  <2>2. CASE x > 3000 /\ x <= 6000
    BY <2>2 DEF Raised, LevelFor, Rank
  <2>3. CASE x > 6000 /\ x <= 8000
    BY <2>3 DEF Raised, LevelFor, Rank
  <2>4. CASE x > 8000
    BY <2>4 DEF Raised, LevelFor, Rank
  <2> QED BY <2>1, <2>2, <2>3, <2>4
<1>2. N(s) <= N(t) /\ N(s) \in Nat /\ N(t) \in Nat
  OBVIOUS
<1> HIDE DEF N
<1> QED BY <1>1, <1>2

LEMMA RatingGrows ==
    ASSUME NEW base \in Nat, NEW factor \in Nat, NEW bonus \in Nat, NEW must \in BOOLEAN,
           NEW base2 \in Nat, NEW factor2 \in Nat, NEW bonus2 \in Nat, NEW must2 \in BOOLEAN,
           base <= base2, factor <= factor2, bonus <= bonus2, must => must2
    PROVE  Rank(Raised(FinalScore(base, factor, bonus), must).level)
             <= Rank(Raised(FinalScore(base2, factor2, bonus2), must2).level)
BY ScoreGrows, LevelGrows

\* The same without dynamic factors.
LEMMA PlainRatingGrows ==
    ASSUME NEW base \in Nat, NEW bonus \in Nat, NEW must \in BOOLEAN,
           NEW base2 \in Nat, NEW bonus2 \in Nat, NEW must2 \in BOOLEAN,
           base <= base2, bonus <= bonus2, must => must2
    PROVE  Rank(Raised(FinalScore(base, 100, bonus), must).level)
             <= Rank(Raised(FinalScore(base2, 100, bonus2), must2).level)
<1> DEFINE one == 100
<1>1. one \in Nat /\ one <= one
  OBVIOUS
<1>2. Rank(Raised(FinalScore(base, one, bonus), must).level)
        <= Rank(Raised(FinalScore(base2, one, bonus2), must2).level)
  <2> HIDE DEF one
  <2> QED BY <1>1, RatingGrows
<1> QED BY <1>2

\* What the calculator of projects counts.
ProjectCounts(f) == {f.overdue, f.major, f.equipment, f.schedule, f.night, f.cross} \subseteq Nat

\* The facts g of a project are at least as grave as f.
GraverProject(f, g) ==
    /\ g.type = f.type
    /\ f.overdue <= g.overdue /\ f.major <= g.major /\ f.equipment <= g.equipment
    /\ f.schedule <= g.schedule /\ f.night <= g.night /\ f.cross <= g.cross

LEMMA ProjectParts ==
    ASSUME NEW f, NEW g, ProjectCounts(f), ProjectCounts(g), GraverProject(f, g)
    PROVE  /\ ProjectBase(f) \in Nat /\ ProjectBase(g) \in Nat /\ ProjectBase(f) <= ProjectBase(g)
           /\ DynamicFactor(f) \in Nat /\ DynamicFactor(g) \in Nat /\ DynamicFactor(f) <= DynamicFactor(g)
           /\ ProjectBonus(f) \in Nat /\ ProjectBonus(g) \in Nat /\ ProjectBonus(f) <= ProjectBonus(g)
<1>1. ProjectBase(f) \in Nat /\ ProjectBase(g) \in Nat /\ ProjectBase(f) <= ProjectBase(g)
  <2> DEFINE c == Coefficients(f.type)
  <2>1. c[1] \in Nat /\ c[2] \in Nat /\ c[3] \in Nat
    BY DEF Coefficients
  <2>2. /\ ProjectBase(f) = Least(6000, f.overdue * 8 * c[1] + f.equipment * 10 * c[2] + f.schedule * c[3])
        /\ ProjectBase(g) = Least(6000, g.overdue * 8 * c[1] + g.equipment * 10 * c[2] + g.schedule * c[3])
    BY DEF ProjectBase, GraverProject
  <2> HIDE DEF c
  <2>3. /\ f.overdue * 8 * c[1] <= g.overdue * 8 * c[1]
        /\ f.overdue * 8 * c[1] \in Nat /\ g.overdue * 8 * c[1] \in Nat
    BY <2>1, ProductGrows DEF ProjectCounts, GraverProject
  <2>4. /\ f.equipment * 10 * c[2] <= g.equipment * 10 * c[2]
        /\ f.equipment * 10 * c[2] \in Nat /\ g.equipment * 10 * c[2] \in Nat
    BY <2>1, ProductGrows DEF ProjectCounts, GraverProject
  <2>5. f.schedule * c[3] <= g.schedule * c[3] /\ f.schedule * c[3] \in Nat /\ g.schedule * c[3] \in Nat
    BY <2>1, ProductGrows DEF ProjectCounts, GraverProject
  <2> QED BY <2>2, <2>3, <2>4, <2>5 DEF Least
<1>2. DynamicFactor(f) \in Nat /\ DynamicFactor(g) \in Nat /\ DynamicFactor(f) <= DynamicFactor(g)
  BY DEF DynamicFactor, When, Least, ProjectCounts, GraverProject
<1>3. ProjectBonus(f) \in Nat /\ ProjectBonus(g) \in Nat /\ ProjectBonus(f) <= ProjectBonus(g)
  BY DEF ProjectBonus, When, ProjectCounts, GraverProject
<1> QED BY <1>1, <1>2, <1>3

\* Whatever grows among the facts the project calculator counts, the level does not fall.
THEOREM GraverProjectNoLowerLevel ==
    ASSUME NEW f, NEW g, ProjectCounts(f), ProjectCounts(g), GraverProject(f, g)
    PROVE  Rank(ProjectProfile(f).level) <= Rank(ProjectProfile(g).level)
<1>1. (ProjectBonus(f) >= 20) \in BOOLEAN /\ (ProjectBonus(g) >= 20) \in BOOLEAN
  OBVIOUS
<1>2. (ProjectBonus(f) >= 20) => (ProjectBonus(g) >= 20)
  BY ProjectParts
<1>3. Rank(Raised(FinalScore(ProjectBase(f), DynamicFactor(f), ProjectBonus(f)), ProjectBonus(f) >= 20).level)
        <= Rank(Raised(FinalScore(ProjectBase(g), DynamicFactor(g), ProjectBonus(g)), ProjectBonus(g) >= 20).level)
  BY <1>1, <1>2, ProjectParts, RatingGrows
<1> QED BY <1>3 DEF ProjectProfile

WorkerCounts(f) == f.days \in Nat /\ f.violations \in Nat /\ f.failed \in BOOLEAN

\* The facts g of a worker are at least as grave as f; an expired certificate is graver than
\* a missing one.
GraverWorker(f, g) ==
    /\ g.days = f.days /\ f.violations <= g.violations /\ (f.failed => g.failed)
    /\ f.cert = "expired" => g.cert = "expired"
    /\ f.cert = "missing" => g.cert \in {"missing", "expired"}
    /\ f.health = "expired" => g.health = "expired"

LEMMA WorkerParts ==
    ASSUME NEW f, NEW g, WorkerCounts(f), WorkerCounts(g), GraverWorker(f, g)
    PROVE  /\ WorkerBase(f) \in Nat /\ WorkerBase(g) \in Nat /\ WorkerBase(f) <= WorkerBase(g)
           /\ WorkerBonus(f) \in Nat /\ WorkerBonus(g) \in Nat /\ WorkerBonus(f) <= WorkerBonus(g)
<1>1. WorkerBase(f) \in Nat /\ WorkerBase(g) \in Nat /\ WorkerBase(f) <= WorkerBase(g)
  BY DEF WorkerBase, When, WorkerCounts, GraverWorker
<1>2. WorkerBonus(f) \in Nat /\ WorkerBonus(g) \in Nat /\ WorkerBonus(f) <= WorkerBonus(g)
  BY DEF WorkerBonus, When, WorkerCounts, GraverWorker
<1> QED BY <1>1, <1>2

\* The same of a worker: a failed examination, more violations, a worse certificate or an
\* expired health check never lower the level.
THEOREM GraverWorkerNoLowerLevel ==
    ASSUME NEW f, NEW g, WorkerCounts(f), WorkerCounts(g), GraverWorker(f, g)
    PROVE  Rank(WorkerProfile(f).level) <= Rank(WorkerProfile(g).level)
<1> DEFINE must(x) == x.cert = "expired" \/ x.violations >= 3
<1>1. must(f) \in BOOLEAN /\ must(g) \in BOOLEAN
  OBVIOUS
<1>2. must(f) => must(g)
  BY DEF GraverWorker, WorkerCounts
<1>3. Rank(Raised(FinalScore(WorkerBase(f), 100, WorkerBonus(f)), must(f)).level)
        <= Rank(Raised(FinalScore(WorkerBase(g), 100, WorkerBonus(g)), must(g)).level)
  <2> HIDE DEF must
  <2> QED BY <1>1, <1>2, WorkerParts, PlainRatingGrows
<1>4. CASE f.days < 7
  <2>1. WorkerProfile(f).level = "low" /\ WorkerProfile(g).level = "low"
    BY <1>4 DEF WorkerProfile, GraverWorker
  <2> QED BY <2>1 DEF Rank
<1>5. CASE ~ (f.days < 7)
  BY <1>3, <1>5 DEF WorkerProfile, GraverWorker
<1> QED BY <1>4, <1>5

GraverSub(f, g) ==
    /\ f.accidents <= g.accidents
    /\ f.license \in {"expired", "suspended", "missing"} => g.license \in {"expired", "suspended", "missing"}

\* The same of a subcontractor, whose score counts the hazards of a project and the share of
\* high-risk workers besides its own licence and accidents.
THEOREM GraverSubNoLowerLevel ==
    ASSUME NEW f, NEW g, f.accidents \in Nat, g.accidents \in Nat, GraverSub(f, g),
           NEW overdue \in Nat, NEW overdue2 \in Nat, overdue <= overdue2,
           NEW major \in Nat, NEW major2 \in Nat, major <= major2,
           NEW ratio \in Nat, NEW ratio2 \in Nat, ratio <= ratio2
    PROVE  Rank(SubProfile(f, overdue, major, ratio).level)
             <= Rank(SubProfile(g, overdue2, major2, ratio2).level)
<1>1. /\ SubBase(overdue, ratio) \in Nat /\ SubBase(overdue2, ratio2) \in Nat
      /\ SubBase(overdue, ratio) <= SubBase(overdue2, ratio2)
  BY DEF SubBase, Least
<1>2. /\ SubBonus(f, major) \in Nat /\ SubBonus(g, major2) \in Nat
      /\ SubBonus(f, major) <= SubBonus(g, major2)
  BY DEF SubBonus, When, GraverSub
<1>3. (SubBonus(f, major) >= 20) \in BOOLEAN /\ (SubBonus(g, major2) >= 20) \in BOOLEAN
  OBVIOUS
<1>4. (SubBonus(f, major) >= 20) => (SubBonus(g, major2) >= 20)
  BY <1>2
<1>5. Rank(Raised(FinalScore(SubBase(overdue, ratio), 100, SubBonus(f, major)), SubBonus(f, major) >= 20).level)
        <= Rank(Raised(FinalScore(SubBase(overdue2, ratio2), 100, SubBonus(g, major2)),
                       SubBonus(g, major2) >= 20).level)
  <2> DEFINE x == SubBase(overdue, ratio)
             y == SubBase(overdue2, ratio2)
             b == SubBonus(f, major)
             c == SubBonus(g, major2)
             must == b >= 20
             must2 == c >= 20
  <2>1. x \in Nat /\ y \in Nat /\ x <= y /\ b \in Nat /\ c \in Nat /\ b <= c
    BY <1>1, <1>2
  <2>2. must \in BOOLEAN /\ must2 \in BOOLEAN /\ (must => must2)
    BY <1>3, <1>4
  <2> HIDE DEF x, y, b, c, must, must2
  <2>3. Rank(Raised(FinalScore(x, 100, b), must).level) <= Rank(Raised(FinalScore(y, 100, c), must2).level)
    BY <2>1, <2>2, PlainRatingGrows
  <2> QED BY <2>3 DEF x, y, b, c, must, must2
<1> QED BY <1>5 DEF SubProfile
-----------------------------------------------------------------------------
(* The backtest                                                            *)

ProjectReadings == [type : {"default"}, overdue : Nat, major : Nat, equipment : Nat, schedule : Nat,
                    night : Nat, cross : Nat, weather : Nat]
WorkerReadings == [days : Nat, exam : Nat, violations : Nat, cert : {"valid", "expired"}, health : {"valid"}]
SubReadings == {s \in [license : {"valid"}, accidents : Nat, ratio : Nat] : s.ratio <= 10000}

LEMMA ProjectWithGraver ==
    ASSUME NEW p \in ProjectReadings, NEW ind \in Indicators
    PROVE  /\ ProjectWith(p, ind) \in ProjectReadings
           /\ GraverProject(p, ProjectWith(p, ind)) /\ p.weather <= ProjectWith(p, ind).weather
<1> DEFINE v == ind.value
           Better(q) == q \in ProjectReadings /\ GraverProject(p, q) /\ p.weather <= q.weather
<1>1. v \in Nat
  BY BacktestAssumption
<1> HIDE DEF v
<1>2. \A x \in Nat, y \in Nat : Most(x, y) \in Nat /\ x <= Most(x, y)
  BY DEF Most
<1>3. When(v > 0, 1) \in Nat /\ When(v < 85, 1) \in Nat /\ Most(v, 1) \in Nat
  BY <1>1 DEF When, Most
<1>4. ASSUME NEW y \in Nat
      PROVE  /\ Better([p EXCEPT !.overdue = Most(@, y)]) /\ Better([p EXCEPT !.major = Most(@, y)])
             /\ Better([p EXCEPT !.equipment = Most(@, y)]) /\ Better([p EXCEPT !.cross = Most(@, y)])
             /\ Better([p EXCEPT !.weather = Most(@, y)]) /\ Better([p EXCEPT !.night = Most(@, y)])
  <2>1. Better([p EXCEPT !.overdue = Most(@, y)])
    BY <1>2 DEF GraverProject, ProjectReadings
  <2>2. Better([p EXCEPT !.major = Most(@, y)])
    BY <1>2 DEF GraverProject, ProjectReadings
  <2>3. Better([p EXCEPT !.equipment = Most(@, y)])
    BY <1>2 DEF GraverProject, ProjectReadings
  <2>4. Better([p EXCEPT !.cross = Most(@, y)])
    BY <1>2 DEF GraverProject, ProjectReadings
  <2>5. Better([p EXCEPT !.weather = Most(@, y)])
    BY <1>2 DEF GraverProject, ProjectReadings
  <2>6. Better([p EXCEPT !.night = Most(@, y)])
    BY <1>2 DEF GraverProject, ProjectReadings
  <2> QED BY <2>1, <2>2, <2>3, <2>4, <2>5, <2>6
<1>5. Better(p)
  BY DEF GraverProject, ProjectReadings
<1>6. Better(ProjectWith(p, ind))
  <2> HIDE DEF Better
  <2>1. CASE ind.code = "overdue"
    BY <2>1, <1>1, <1>4 DEF ProjectWith, v
  <2>2. CASE ind.code = "major"
    BY <2>2, <1>3, <1>4 DEF ProjectWith, v
  <2>3. CASE ind.code = "equipment"
    BY <2>3, <1>3, <1>4 DEF ProjectWith, v
  <2>4. CASE ind.code = "cross"
    BY <2>4, <1>1, <1>4 DEF ProjectWith, v
  <2>5. CASE ind.code = "weather"
    BY <2>5, <1>1, <1>4 DEF ProjectWith, v
  <2>6. CASE ind.code = "night"
    BY <2>6, <1>1, <1>4 DEF ProjectWith, v
  <2>7. CASE ind.code = "ppe"
    BY <2>7, <1>3, <1>4 DEF ProjectWith, v
  <2>8. CASE ind.code \notin ProjectCodes
    BY <2>8, <1>5 DEF ProjectCodes, ProjectWith
  <2> QED BY <2>1, <2>2, <2>3, <2>4, <2>5, <2>6, <2>7, <2>8 DEF ProjectCodes
<1> QED BY <1>6

\* Unless the examination score is 0, which counts as none.
GraverWorkerReading(w, x) ==
    /\ w.days = x.days /\ w.health = x.health /\ w.violations <= x.violations
    /\ w.cert = "expired" => x.cert = "expired"
    /\ w.exam # 0 => x.exam <= w.exam

LEMMA WorkerWithGraver ==
    ASSUME NEW w \in WorkerReadings, NEW ind \in Indicators
    PROVE  WorkerWith(w, ind) \in WorkerReadings /\ GraverWorkerReading(w, WorkerWith(w, ind))
<1> DEFINE v == ind.value
<1>1. v \in Nat
  BY BacktestAssumption
<1> HIDE DEF v
<1>2. CASE ind.code = "violation"
  <2>1. WorkerWith(w, ind) = [w EXCEPT !.violations = Most(@, v)]
    BY <1>2 DEF WorkerWith, v
  <2>2. Most(w.violations, v) \in Nat /\ w.violations <= Most(w.violations, v)
    BY <1>1 DEF Most, WorkerReadings
  <2> QED BY <2>1, <2>2 DEF WorkerReadings, GraverWorkerReading
<1>3. CASE ind.code = "cert"
  <2>1. WorkerWith(w, ind) = [w EXCEPT !.cert = IF v > 0 THEN "expired" ELSE @]
    BY <1>3 DEF WorkerWith, v
  <2> QED BY <2>1 DEF WorkerReadings, GraverWorkerReading
<1>4. CASE ind.code = "training"
  <2>1. WorkerWith(w, ind) = [w EXCEPT !.exam = Least(IF @ = 0 THEN 100 ELSE @, v)]
    BY <1>4 DEF WorkerWith, v
  <2>2. /\ Least(IF w.exam = 0 THEN 100 ELSE w.exam, v) \in Nat
        /\ w.exam # 0 => Least(IF w.exam = 0 THEN 100 ELSE w.exam, v) <= w.exam
    BY <1>1 DEF Least, WorkerReadings
  <2> QED BY <2>1, <2>2 DEF WorkerReadings, GraverWorkerReading
<1>5. CASE ind.code \notin WorkerCodes
  <2>1. WorkerWith(w, ind) = w
    BY <1>5 DEF WorkerCodes, WorkerWith
  <2> QED BY <2>1 DEF WorkerReadings, GraverWorkerReading
<1> QED BY <1>2, <1>3, <1>4, <1>5 DEF WorkerCodes

GraverSubReading(s, x) == s.license = x.license /\ s.accidents <= x.accidents /\ s.ratio <= x.ratio

LEMMA SubUpdated ==
    ASSUME NEW s \in [license : {"valid"}, accidents : Nat, ratio : Nat], NEW a \in Nat, NEW q \in Nat
    PROVE  /\ [s EXCEPT !.ratio = q, !.accidents = a] \in [license : {"valid"}, accidents : Nat, ratio : Nat]
           /\ [s EXCEPT !.ratio = q, !.accidents = a].ratio = q
OBVIOUS

LEMMA SubWithGraver ==
    ASSUME NEW s \in SubReadings, NEW ind \in Indicators
    PROVE  SubWith(s, ind) \in SubReadings /\ GraverSubReading(s, SubWith(s, ind))
<1> DEFINE v == ind.value
           ratio == Least(10000, s.ratio + 500 * v)
           accidents == Most(s.accidents, When(v >= 3, 1))
<1>1. v \in Nat
  BY BacktestAssumption
<1>2. /\ s \in [license : {"valid"}, accidents : Nat, ratio : Nat]
      /\ s.accidents \in Nat /\ s.ratio \in Nat /\ s.ratio <= 10000
  BY DEF SubReadings
<1>3. CASE ind.code = "sub_violation"
  <2>1. SubWith(s, ind) = [s EXCEPT !.ratio = ratio, !.accidents = accidents]
    BY <1>3 DEF SubWith
  <2>2. ratio \in Nat /\ ratio <= 10000 /\ s.ratio <= ratio
    <3> HIDE DEF v
    <3> QED BY <1>1, <1>2 DEF Least
  <2>3. accidents \in Nat /\ s.accidents <= accidents
    <3> HIDE DEF v
    <3> QED BY <1>1, <1>2 DEF Most, When
  <2> HIDE DEF ratio, accidents
  <2>4. SubWith(s, ind) \in SubReadings
    <3> DEFINE x == SubWith(s, ind)
    <3>1. x \in [license : {"valid"}, accidents : Nat, ratio : Nat] /\ x.ratio = ratio
      <4> DEFINE z == [s EXCEPT !.ratio = ratio, !.accidents = accidents]
      <4>1. s \in [license : {"valid"}, accidents : Nat, ratio : Nat] /\ accidents \in Nat /\ ratio \in Nat
        BY <1>2, <2>2, <2>3
      <4>2. z \in [license : {"valid"}, accidents : Nat, ratio : Nat] /\ z.ratio = ratio
        BY <4>1, SubUpdated
      <4>3. x = z
        BY <2>1
      <4> HIDE DEF z, x
      <4> QED BY <4>2, <4>3
    <3> HIDE DEF x
    <3>2. x \in SubReadings
      BY <2>2, <3>1 DEF SubReadings
    <3> QED BY <3>2 DEF x
  <2>5. GraverSubReading(s, SubWith(s, ind))
    BY <1>2, <2>1, <2>2, <2>3 DEF GraverSubReading
  <2> QED BY <2>4, <2>5
<1>4. CASE ind.code # "sub_violation"
  <2>1. SubWith(s, ind) = s
    BY <1>4 DEF SubWith
  <2>2. GraverSubReading(s, s)
    BY <1>2 DEF GraverSubReading
  <2> QED BY <2>1, <2>2
<1> QED BY <1>3, <1>4

Readings == [seen : SUBSET {ind.code : ind \in Indicators}, count : Int,
             project : ProjectReadings, worker : WorkerReadings, sub : SubReadings]

BacktestInv == tally.cases \in Nat /\ reading \in Readings

\* What was read into d after c is at least as grave, for each of the three types.
GraverReading(c, d) ==
    /\ GraverProject(c.project, d.project) /\ c.project.weather <= d.project.weather
    /\ GraverWorkerReading(c.worker, d.worker)
    /\ GraverSubReading(c.sub, d.sub)

LEMMA ReadIndicatorGraver ==
    ASSUME BacktestInv, NEW ind \in Indicators, ReadIndicator(ind)
    PROVE  BacktestInv' /\ GraverReading(reading, reading')
<1> DEFINE p == ProjectWith(reading.project, ind)
           w == WorkerWith(reading.worker, ind)
           s == SubWith(reading.sub, ind)
<1>1. reading \in Readings /\ tally' = tally
  BY DEF BacktestInv, ReadIndicator
<1>2. /\ p \in ProjectReadings /\ GraverProject(reading.project, p) /\ reading.project.weather <= p.weather
      /\ w \in WorkerReadings /\ GraverWorkerReading(reading.worker, w)
      /\ s \in SubReadings /\ GraverSubReading(reading.sub, s)
  BY <1>1, ProjectWithGraver, WorkerWithGraver, SubWithGraver DEF Readings
<1>3. reading' = [seen |-> reading.seen \cup {ind.code}, count |-> reading.count + 1,
                  project |-> p, worker |-> w, sub |-> s]
  BY <1>1 DEF ReadIndicator, Applied, Readings
<1> HIDE DEF p, w, s
<1>4. reading' \in Readings
  BY <1>1, <1>2, <1>3 DEF Readings
<1>5. GraverReading(reading, reading')
  BY <1>2, <1>3 DEF GraverReading
<1> QED BY <1>1, <1>4, <1>5 DEF BacktestInv

LEMMA RatedGrows ==
    ASSUME NEW c \in Readings, NEW d \in Readings, GraverReading(c, d),
           ProfileType(d.seen) = ProfileType(c.seen), c.worker.exam # 0
    PROVE  Rank(Rated(c).level) <= Rank(Rated(d).level)
<1>1. c.project \in ProjectReadings /\ d.project \in ProjectReadings /\ c.worker \in WorkerReadings
      /\ d.worker \in WorkerReadings /\ c.sub \in SubReadings /\ d.sub \in SubReadings
  BY DEF Readings
<1>2. ProjectCounts(c.project) /\ ProjectCounts(d.project) /\ c.project.weather \in Nat /\ d.project.weather \in Nat
  BY <1>1 DEF ProjectCounts, ProjectReadings
<1>3. CASE ProfileType(c.seen) = "worker"
  <2> DEFINE W(x) == [days |-> x.worker.days, failed |-> x.worker.exam < 60, violations |-> x.worker.violations,
                      cert |-> x.worker.cert, health |-> x.worker.health]
  <2>1. Rated(c) = WorkerProfile(W(c)) /\ Rated(d) = WorkerProfile(W(d))
    BY <1>3 DEF Rated
  <2>2. WorkerCounts(W(c)) /\ WorkerCounts(W(d)) /\ GraverWorker(W(c), W(d))
    <3>1. ASSUME NEW x \in WorkerReadings
          PROVE  x.days \in Nat /\ x.violations \in Nat /\ x.exam \in Nat /\ (x.exam < 60) \in BOOLEAN
      BY DEF WorkerReadings
    <3>2. WorkerCounts(W(c)) /\ WorkerCounts(W(d))
      BY <1>1, <3>1 DEF WorkerCounts
    <3>3. GraverWorkerReading(c.worker, d.worker)
      BY DEF GraverReading
    <3>4. W(c).failed => W(d).failed
      <4>1. c.worker.exam < 60 => d.worker.exam < 60
        BY <1>1, <3>1, <3>3 DEF GraverWorkerReading
      <4> QED BY <4>1
    <3>5. W(c).cert \in {"valid", "expired"} /\ W(c).health = "valid"
      BY <1>1 DEF WorkerReadings
    <3>6. /\ W(d).days = W(c).days /\ W(c).violations <= W(d).violations
          /\ W(c).cert = "expired" => W(d).cert = "expired"
      BY <3>3 DEF GraverWorkerReading
    <3> HIDE DEF W
    <3> QED BY <3>2, <3>4, <3>5, <3>6 DEF GraverWorker
  <2> HIDE DEF W
  <2>3. Rank(WorkerProfile(W(c)).level) <= Rank(WorkerProfile(W(d)).level)
    BY <2>2, GraverWorkerNoLowerLevel
  <2> QED BY <2>1, <2>3
<1>4. CASE ProfileType(c.seen) = "subcontractor"
  <2>1. /\ Rated(c) = SubProfile(c.sub, c.project.overdue, c.project.major, c.sub.ratio)
        /\ Rated(d) = SubProfile(d.sub, d.project.overdue, d.project.major, d.sub.ratio)
    BY <1>4 DEF Rated
  <2>2. /\ c.sub.accidents \in Nat /\ d.sub.accidents \in Nat /\ GraverSub(c.sub, d.sub)
        /\ c.sub.ratio \in Nat /\ d.sub.ratio \in Nat /\ c.sub.ratio <= d.sub.ratio
    BY <1>1 DEF SubReadings, GraverSub, GraverReading, GraverSubReading
  <2>3. /\ c.project.overdue \in Nat /\ d.project.overdue \in Nat /\ c.project.overdue <= d.project.overdue
        /\ c.project.major \in Nat /\ d.project.major \in Nat /\ c.project.major <= d.project.major
    BY <1>2 DEF ProjectCounts, GraverReading, GraverProject
  <2>4. Rank(SubProfile(c.sub, c.project.overdue, c.project.major, c.sub.ratio).level)
          <= Rank(SubProfile(d.sub, d.project.overdue, d.project.major, d.sub.ratio).level)
    BY <2>2, <2>3, GraverSubNoLowerLevel
  <2> QED BY <2>1, <2>4
<1>5. CASE ProfileType(c.seen) \notin {"worker", "subcontractor"}
  <2> DEFINE factor(x) == Least(150, DynamicFactor(x.project) + When(x.project.weather >= 2, 20))
             must(x) == ProjectBonus(x.project) >= 20
  <2>1. /\ Rated(c) = Raised(FinalScore(ProjectBase(c.project), factor(c), ProjectBonus(c.project)), must(c))
        /\ Rated(d) = Raised(FinalScore(ProjectBase(d.project), factor(d), ProjectBonus(d.project)), must(d))
    BY <1>5 DEF Rated
  <2>2. GraverProject(c.project, d.project) /\ c.project.weather <= d.project.weather
    BY DEF GraverReading
  <2>3. factor(c) \in Nat /\ factor(d) \in Nat /\ factor(c) <= factor(d)
    <3>1. /\ When(c.project.weather >= 2, 20) \in Nat /\ When(d.project.weather >= 2, 20) \in Nat
          /\ When(c.project.weather >= 2, 20) <= When(d.project.weather >= 2, 20)
      BY <1>2, <2>2 DEF When
    <3>2. /\ DynamicFactor(c.project) \in Nat /\ DynamicFactor(d.project) \in Nat
          /\ DynamicFactor(c.project) <= DynamicFactor(d.project)
      BY <1>2, <2>2, ProjectParts
    <3> QED BY <3>1, <3>2 DEF Least
  <2>4. must(c) \in BOOLEAN /\ must(d) \in BOOLEAN /\ (must(c) => must(d))
    BY <1>2, <2>2, ProjectParts
  <2> HIDE DEF factor, must
  <2>5. /\ ProjectBase(c.project) \in Nat /\ ProjectBase(d.project) \in Nat
        /\ ProjectBase(c.project) <= ProjectBase(d.project)
        /\ ProjectBonus(c.project) \in Nat /\ ProjectBonus(d.project) \in Nat
        /\ ProjectBonus(c.project) <= ProjectBonus(d.project)
    BY <1>2, <2>2, ProjectParts
  <2>6. Rank(Raised(FinalScore(ProjectBase(c.project), factor(c), ProjectBonus(c.project)), must(c)).level)
          <= Rank(Raised(FinalScore(ProjectBase(d.project), factor(d), ProjectBonus(d.project)), must(d)).level)
    BY <2>3, <2>4, <2>5, RatingGrows
  <2> QED BY <2>1, <2>6
<1> QED BY <1>3, <1>4, <1>5

LEMMA CountMatches ==
    ASSUME NEW x \in Nat, NEW n \in Nat
    PROVE  /\ x > n => Matches(x, ">", n)
           /\ x >= n => Matches(x, ">=", n)
           /\ x < n => Matches(x, "<", n)
<1>1. x # None
  BY BacktestAssumption
<1> QED BY <1>1 DEF Matches

LEMMA RuleFires ==
    ASSUME NEW type, NEW facts, NEW id, NEW conditions,
           [id |-> id, all |-> conditions] \in Rules[type],
           \A cond \in conditions : Matches(facts[cond[1]], cond[2], cond[3])
    PROVE  id \in Triggered(type, facts)
BY DEF Triggered

LEMMA OneConditionFires ==
    ASSUME NEW type, NEW facts, NEW id, NEW field, NEW op, NEW value,
           [id |-> id, all |-> {<<field, op, value>>}] \in Rules[type],
           Matches(facts[field], op, value)
    PROVE  id \in Triggered(type, facts)
<1>1. \A cond \in {<<field, op, value>>} : Matches(facts[cond[1]], cond[2], cond[3])
  <2> TAKE cond \in {<<field, op, value>>}
  <2>1. cond[1] = field /\ cond[2] = op /\ cond[3] = value
    OBVIOUS
  <2> QED BY <2>1
<1> QED BY <1>1, RuleFires

\* The thresholds of the backtest are those of the rule files: a rule that is expected fires.
LEMMA ExpectedFires ==
    ASSUME NEW c \in Readings, Expected(c) # {}
    PROVE  RuleHit(c)
<1>1. c.project \in ProjectReadings /\ c.worker \in WorkerReadings /\ c.sub \in SubReadings
  BY DEF Readings
<1>3. CASE ProfileType(c.seen) = "worker"
  <2> DEFINE w == c.worker
  <2>1. Facts(c) = w /\ ProfileType(c.seen) = "worker"
    BY <1>3 DEF Facts
  <2>2. w.violations \in Nat /\ w.health = "valid"
    BY <1>1 DEF WorkerReadings
  <2>3. PICK x : x \in Expected(c)
    OBVIOUS
  <2>4. \/ x = "SR-WORKER-001" /\ w.cert \in {"expired", "missing"}
        \/ x = "SR-WORKER-005" /\ w.violations >= 3
        \/ x = "SR-WORKER-004" /\ w.violations \in 1..2
    BY <1>3, <2>2, <2>3 DEF Expected
  <2>5. CASE x = "SR-WORKER-001" /\ w.cert \in {"expired", "missing"}
    <3>1. [id |-> "SR-WORKER-001", all |-> {<<"cert", "in", {"expired", "missing"}>>}] \in Rules["worker"]
      BY DEF Rules
    <3>2. Matches(w["cert"], "in", {"expired", "missing"})
      BY <2>5 DEF Matches
    <3>3. "SR-WORKER-001" \in Triggered("worker", w)
      BY <3>1, <3>2, OneConditionFires
    <3> QED BY <2>1, <2>3, <2>5, <3>3 DEF RuleHit
  <2>6. CASE x = "SR-WORKER-005" /\ w.violations >= 3
    <3>1. [id |-> "SR-WORKER-005", all |-> {<<"violations", ">=", 3>>}] \in Rules["worker"]
      BY DEF Rules
    <3>2. Matches(w["violations"], ">=", 3)
      BY <2>2, <2>6, CountMatches
    <3>3. "SR-WORKER-005" \in Triggered("worker", w)
      BY <3>1, <3>2, OneConditionFires
    <3> QED BY <2>1, <2>3, <2>6, <3>3 DEF RuleHit
  <2>7. CASE x = "SR-WORKER-004" /\ w.violations \in 1..2
    <3> DEFINE conditions == {<<"violations", ">=", 1>>, <<"violations", "<", 3>>}
    <3>1. [id |-> "SR-WORKER-004", all |-> conditions] \in Rules["worker"]
      BY DEF Rules
    <3>2. Matches(w["violations"], ">=", 1) /\ Matches(w["violations"], "<", 3)
      BY <2>2, <2>7, CountMatches
    <3>3. \A cond \in conditions : Matches(w[cond[1]], cond[2], cond[3])
      <4> TAKE cond \in conditions
      <4>1. \/ cond[1] = "violations" /\ cond[2] = ">=" /\ cond[3] = 1
            \/ cond[1] = "violations" /\ cond[2] = "<" /\ cond[3] = 3
        OBVIOUS
      <4> QED BY <3>2, <4>1
    <3> HIDE DEF conditions
    <3>4. "SR-WORKER-004" \in Triggered("worker", w)
      BY <3>1, <3>3, RuleFires
    <3> QED BY <2>1, <2>3, <2>7, <3>4 DEF RuleHit
  <2> QED BY <2>4, <2>5, <2>6, <2>7
<1>4. CASE ProfileType(c.seen) = "subcontractor"
  <2> DEFINE s == [license |-> c.sub.license, accidents |-> c.sub.accidents, major |-> c.project.major]
  <2>1. Facts(c) = s /\ ProfileType(c.seen) = "subcontractor"
    BY <1>4 DEF Facts
  <2>2. s.license = "valid" /\ s.accidents \in Nat /\ s.major \in Nat
    BY <1>1 DEF SubReadings, ProjectReadings
  <2>3. PICK x : x \in Expected(c)
    OBVIOUS
  <2>4. \/ x = "SR-SUB-004" /\ s.major > 0
        \/ x = "SR-SUB-002" /\ s.accidents > 0
    BY <1>4, <2>2, <2>3 DEF Expected
  <2> HIDE DEF s
  <2>5. CASE x = "SR-SUB-004" /\ s.major > 0
    <3>1. [id |-> "SR-SUB-004", all |-> {<<"major", ">", 0>>}] \in Rules["subcontractor"]
      BY DEF Rules
    <3>2. Matches(s["major"], ">", 0)
      BY <2>2, <2>5, CountMatches
    <3>3. "SR-SUB-004" \in Triggered("subcontractor", s)
      BY <3>1, <3>2, OneConditionFires
    <3> QED BY <2>1, <2>3, <2>5, <3>3 DEF RuleHit
  <2>6. CASE x = "SR-SUB-002" /\ s.accidents > 0
    <3>1. [id |-> "SR-SUB-002", all |-> {<<"accidents", ">", 0>>}] \in Rules["subcontractor"]
      BY DEF Rules
    <3>2. Matches(s["accidents"], ">", 0)
      BY <2>2, <2>6, CountMatches
    <3>3. "SR-SUB-002" \in Triggered("subcontractor", s)
      BY <3>1, <3>2, OneConditionFires
    <3> QED BY <2>1, <2>3, <2>6, <3>3 DEF RuleHit
  <2> QED BY <2>4, <2>5, <2>6
<1>5. CASE ProfileType(c.seen) \notin {"worker", "subcontractor"}
  <2> DEFINE p == c.project
  <2>1. Facts(c) = p /\ ProfileType(c.seen) = "project"
    BY <1>5 DEF Facts, ProfileType
  <2>2. p.major \in Nat /\ p.equipment \in Nat /\ p.schedule \in Nat
    BY <1>1 DEF ProjectReadings
  <2>3. PICK x : x \in Expected(c)
    OBVIOUS
  <2>4. \/ x = "SR-PROJ-001" /\ p.major > 0
        \/ x = "SR-PROJ-004" /\ p.equipment > 0
        \/ x = "SR-PROJ-003" /\ p.schedule >= 30
    BY <1>5, <2>3 DEF Expected
  <2> HIDE DEF p
  <2>5. CASE x = "SR-PROJ-001" /\ p.major > 0
    <3>1. [id |-> "SR-PROJ-001", all |-> {<<"major", ">", 0>>}] \in Rules["project"]
      BY DEF Rules
    <3>2. Matches(p["major"], ">", 0)
      BY <2>2, <2>5, CountMatches
    <3>3. "SR-PROJ-001" \in Triggered("project", p)
      BY <3>1, <3>2, OneConditionFires
    <3> QED BY <2>1, <2>3, <2>5, <3>3 DEF RuleHit
  <2>6. CASE x = "SR-PROJ-004" /\ p.equipment > 0
    <3>1. [id |-> "SR-PROJ-004", all |-> {<<"equipment", ">", 0>>}] \in Rules["project"]
      BY DEF Rules
    <3>2. Matches(p["equipment"], ">", 0)
      BY <2>2, <2>6, CountMatches
    <3>3. "SR-PROJ-004" \in Triggered("project", p)
      BY <3>1, <3>2, OneConditionFires
    <3> QED BY <2>1, <2>3, <2>6, <3>3 DEF RuleHit
  <2>7. CASE x = "SR-PROJ-003" /\ p.schedule >= 30
    <3>1. [id |-> "SR-PROJ-003", all |-> {<<"schedule", ">=", 30>>}] \in Rules["project"]
      BY DEF Rules
    <3>2. Matches(p["schedule"], ">=", 30)
      BY <2>2, <2>7, CountMatches
    <3>3. "SR-PROJ-003" \in Triggered("project", p)
      BY <3>1, <3>2, OneConditionFires
    <3> QED BY <2>1, <2>3, <2>7, <3>3 DEF RuleHit
  <2> QED BY <2>4, <2>5, <2>6, <2>7
<1> QED BY <1>3, <1>4, <1>5

LEMMA ExpectedGrows ==
    ASSUME NEW c \in Readings, NEW d \in Readings, GraverReading(c, d),
           ProfileType(d.seen) = ProfileType(c.seen), Expected(c) # {}
    PROVE  Expected(d) # {}
<1>1. c.project \in ProjectReadings /\ d.project \in ProjectReadings /\ c.worker \in WorkerReadings
      /\ d.worker \in WorkerReadings /\ c.sub \in SubReadings /\ d.sub \in SubReadings
  BY DEF Readings
<1>2. PICK x : x \in Expected(c)
  OBVIOUS
<1>3. CASE ProfileType(c.seen) = "worker"
  <2>1. /\ c.worker.violations \in Nat /\ d.worker.violations \in Nat
        /\ c.worker.violations <= d.worker.violations
        /\ c.worker.cert = "expired" => d.worker.cert = "expired"
        /\ c.worker.health = "valid" /\ c.worker.cert \in {"valid", "expired"}
    BY <1>1 DEF WorkerReadings, GraverReading, GraverWorkerReading
  <2>2. c.worker.cert = "expired" \/ c.worker.violations >= 1
    BY <1>2, <1>3, <2>1 DEF Expected
  <2>3. d.worker.cert = "expired" \/ d.worker.violations >= 3 \/ d.worker.violations \in 1..2
    BY <2>1, <2>2
  <2>4. \/ "SR-WORKER-001" \in Expected(d) \/ "SR-WORKER-005" \in Expected(d) \/ "SR-WORKER-004" \in Expected(d)
    BY <1>3, <2>3 DEF Expected
  <2> QED BY <2>4
<1>4. CASE ProfileType(c.seen) = "subcontractor"
  <2>1. /\ c.project.major \in Nat /\ d.project.major \in Nat /\ c.project.major <= d.project.major
        /\ c.sub.accidents \in Nat /\ d.sub.accidents \in Nat /\ c.sub.accidents <= d.sub.accidents
        /\ c.sub.license = "valid"
    BY <1>1 DEF SubReadings, ProjectReadings, GraverReading, GraverSubReading, GraverProject
  <2>2. c.project.major > 0 \/ c.sub.accidents > 0
    BY <1>2, <1>4, <2>1 DEF Expected
  <2>3. d.project.major > 0 \/ d.sub.accidents > 0
    BY <2>1, <2>2
  <2>4. "SR-SUB-004" \in Expected(d) \/ "SR-SUB-002" \in Expected(d)
    BY <1>4, <2>3 DEF Expected
  <2> QED BY <2>4
<1>5. CASE ProfileType(c.seen) \notin {"worker", "subcontractor"}
  <2>1. /\ c.project.major \in Nat /\ d.project.major \in Nat /\ c.project.major <= d.project.major
        /\ c.project.equipment \in Nat /\ d.project.equipment \in Nat /\ c.project.equipment <= d.project.equipment
        /\ c.project.schedule \in Nat /\ d.project.schedule \in Nat /\ c.project.schedule <= d.project.schedule
    BY <1>1 DEF ProjectReadings, GraverReading, GraverProject
  <2>2. c.project.major > 0 \/ c.project.equipment > 0 \/ c.project.schedule >= 30
    BY <1>2, <1>5 DEF Expected
  <2>3. d.project.major > 0 \/ d.project.equipment > 0 \/ d.project.schedule >= 30
    BY <2>1, <2>2
  <2>4. "SR-PROJ-001" \in Expected(d) \/ "SR-PROJ-004" \in Expected(d) \/ "SR-PROJ-003" \in Expected(d)
    BY <1>5, <2>3 DEF Expected
  <2> QED BY <2>4
<1> QED BY <1>3, <1>4, <1>5

LEMMA GraverStillPasses ==
    ASSUME NEW c \in Readings, NEW d \in Readings, GraverReading(c, d),
           ProfileType(d.seen) = ProfileType(c.seen), c.worker.exam # 0,
           NEW demanded, NEW tagHit \in BOOLEAN, Passes(c, demanded, tagHit)
    PROVE  Passes(d, demanded, tagHit)
<1>1. Expected(d) # {} => RuleHit(d)
  BY ExpectedFires
<1>2. demanded # None => Rank(Rated(d).level) >= Rank(demanded)
  <2>1. Rank(Rated(c).level) <= Rank(Rated(d).level)
    BY RatedGrows
  <2>2. \A level : Rank(level) \in Nat
    BY DEF Rank
  <2>3. demanded # None => Rank(Rated(c).level) >= Rank(demanded)
    BY DEF Passes
  <2> QED BY <2>1, <2>2, <2>3
<1>3. Expected(d) = {} /\ demanded = None => tagHit
  BY ExpectedGrows DEF Passes
<1> QED BY <1>1, <1>2, <1>3 DEF Passes

\* Whatever indicators a case has and in whatever order they are read, one more of them
\* makes no passing case fail: the thresholds the backtest repeats, the rule files and the
\* calculators move together.
THEOREM PassingStaysPassing == BacktestSpec => PassingCaseKeepsPassing
<1>1. BacktestInit => BacktestInv
  BY DEF BacktestInit, BacktestInv, NoIndicators, Readings, ProjectReadings, WorkerReadings, SubReadings
<1>2. BacktestInv /\ [BacktestNext]_backtestVars => BacktestInv'
  <2> SUFFICES ASSUME BacktestInv, [BacktestNext]_backtestVars PROVE BacktestInv'
    OBVIOUS
  <2>1. ASSUME NEW ind \in Indicators, ReadIndicator(ind) PROVE BacktestInv'
    BY <2>1, ReadIndicatorGraver
  <2>2. ASSUME NEW demanded \in Severities, NEW tagHit \in BOOLEAN, EvaluateCase(demanded, tagHit)
        PROVE  BacktestInv'
    <3>1. NoIndicators \in Readings
      BY DEF NoIndicators, Readings, ProjectReadings, WorkerReadings, SubReadings
    <3>2. tally'.cases = tally.cases + 1 /\ reading' = NoIndicators
      BY <2>2 DEF EvaluateCase
    <3> QED BY <3>1, <3>2 DEF BacktestInv
  <2>3. CASE UNCHANGED backtestVars
    BY <2>3 DEF BacktestInv, backtestVars
  <2> QED BY <2>1, <2>2, <2>3 DEF BacktestNext
<1>3. BacktestInv /\ [BacktestNext]_backtestVars =>
        [tally' = tally /\ ProfileType(reading'.seen) = ProfileType(reading.seen) /\ reading.worker.exam # 0 =>
           \A demanded \in Severities, tagHit \in BOOLEAN :
              Passes(reading, demanded, tagHit) => Passes(reading', demanded, tagHit)]_backtestVars
  <2> SUFFICES ASSUME BacktestInv, BacktestNext, tally' = tally,
                      ProfileType(reading'.seen) = ProfileType(reading.seen), reading.worker.exam # 0,
                      NEW demanded \in Severities, NEW tagHit \in BOOLEAN,
                      Passes(reading, demanded, tagHit)
               PROVE  Passes(reading', demanded, tagHit)
    BY DEF backtestVars
  <2>1. ASSUME NEW ind \in Indicators, ReadIndicator(ind) PROVE Passes(reading', demanded, tagHit)
    <3>1. BacktestInv' /\ GraverReading(reading, reading')
      BY <2>1, ReadIndicatorGraver
    <3>2. reading \in Readings /\ reading' \in Readings
      BY <3>1 DEF BacktestInv
    <3> QED BY <3>1, <3>2, GraverStillPasses
  <2>2. ASSUME NEW level \in Severities, NEW tag \in BOOLEAN, EvaluateCase(level, tag) PROVE FALSE
    <3>1. tally'.cases = tally.cases + 1 /\ tally.cases \in Nat
      BY <2>2 DEF EvaluateCase, BacktestInv
    <3> QED BY <3>1
  <2> QED BY <2>1, <2>2 DEF BacktestNext
<1> QED BY <1>1, <1>2, <1>3, PTL DEF BacktestSpec, PassingCaseKeepsPassing
=============================================================================
