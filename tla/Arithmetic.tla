----------------------------- MODULE Arithmetic -----------------------------
(***************************************************************************)
(* What the proofs need of numbers.  Division as Solidity divides uint256. *)
(* And what SumFunction of the community modules does, proved: it adds up, *)
(* one by one and in whatever order, the values of a function on a finite  *)
(* set.  The sums of the models (what was paid to all, what all can        *)
(* collect) are reasoned about with these facts.                           *)
(***************************************************************************)
EXTENDS Naturals, Functions, FiniteSetTheorems, WellFoundedInduction, TLAPS

\* Division of natural numbers, as Solidity divides uint256.
LEMMA DivType == ASSUME NEW a \in Nat, NEW d \in Nat \ {0} PROVE a \div d \in Nat
  OBVIOUS

\* It rounds down, by less than the divisor.
LEMMA DivBounds ==
  ASSUME NEW a \in Nat, NEW d \in Nat \ {0}
  PROVE  d * (a \div d) <= a /\ a < d * (a \div d) + d
  OBVIOUS

\* It keeps the order.
LEMMA DivMono == ASSUME NEW a \in Nat, NEW b \in Nat, NEW d \in Nat \ {0}, a <= b PROVE a \div d <= b \div d
  OBVIOUS

\* So does multiplication.
LEMMA TimesMono ==
  ASSUME NEW a \in Nat, NEW b \in Nat, NEW s \in Nat, a <= b
  PROVE  a * s <= b * s
  OBVIOUS

\* Products of counters are counters.
LEMMA TimesNat == ASSUME NEW a \in Nat, NEW b \in Nat PROVE a * b \in Nat
  OBVIOUS

\* A factor can be cancelled.
LEMMA TimesCancel ==
  ASSUME NEW k \in Nat \ {0}, NEW a \in Nat, NEW b \in Nat, k * a <= k * b
  PROVE  a <= b
<1>1. SUFFICES ASSUME b + 1 <= a PROVE FALSE
  OBVIOUS
<1>2. (b + 1) * k <= a * k  BY <1>1, TimesMono
<1>3. (b + 1) * k = k * b + k /\ a * k = k * a /\ k * a \in Nat /\ k * b \in Nat  OBVIOUS
<1> QED BY <1>2, <1>3

----------------------------------------------------------------------------
\* A set that contains a number whenever it contains all that are smaller
\* contains every number.
LEMMA NaturalInduction ==
  ASSUME NEW B,
         \A n \in Nat : (\A k \in Nat : k < n => k \in B) => n \in B
  PROVE  Nat \subseteq B
<1>1. SUFFICES ASSUME Nat \ B # {} PROVE FALSE
  OBVIOUS
<1>2. PICK x \in Nat \ B : \A y \in Nat \ B : ~(<<y, x>> \in OpToRel(<, Nat))
  BY <1>1, NatLessThanWellFounded, WFMin, Zenon
<1>3. \A y \in Nat \ B : ~(y < x)
  BY <1>2 DEF OpToRel
<1> QED BY <1>3

\* The order in which the fold visits a set.
Pick(s) == CHOOSE x \in s : TRUE

\* iter is the fold of f on the sets in D.
Adds(iter, f, D) ==
  iter = [s \in D |-> IF s = {} THEN 0 ELSE f[Pick(s)] + iter[s \ {Pick(s)}]]

LEMMA SumIsFold ==
  ASSUME NEW f, NEW S
  PROVE  SumFunctionOnSet(f, S) = (CHOOSE iter : Adds(iter, f, SUBSET S))[S]
BY DEF SumFunctionOnSet, FoldFunctionOnSet, MapThenFoldSet, Adds, Pick

\* The sets that are visited become smaller.
LEMMA PickShrinks ==
  ASSUME NEW s, IsFiniteSet(s), s # {}
  PROVE  /\ Pick(s) \in s /\ IsFiniteSet(s \ {Pick(s)})
         /\ Cardinality(s) \in Nat /\ Cardinality(s \ {Pick(s)}) \in Nat
         /\ Cardinality(s \ {Pick(s)}) < Cardinality(s)
<1>1. Pick(s) \in s  BY DEF Pick
<1>2. IsFiniteSet(s \ {Pick(s)}) /\ Cardinality(s \ {Pick(s)}) = Cardinality(s) - 1
  BY <1>1, FS_RemoveElement
<1>3. Cardinality(s) \in Nat /\ Cardinality(s \ {Pick(s)}) \in Nat  BY <1>2, FS_CardinalityType
<1> QED BY <1>1, <1>2, <1>3

\* Two folds agree where both are defined.
LEMMA AddsUnique ==
  ASSUME NEW f, NEW S, NEW T, NEW g, NEW h, Adds(g, f, SUBSET S), Adds(h, f, SUBSET T),
         NEW s \in SUBSET S, s \in SUBSET T, IsFiniteSet(s)
  PROVE  g[s] = h[s]
<1> DEFINE Agree(u) == u \in SUBSET S /\ u \in SUBSET T /\ IsFiniteSet(u) => g[u] = h[u]
           B == {n \in Nat : \A u \in SUBSET S : IsFiniteSet(u) /\ Cardinality(u) = n => Agree(u)}
<1>1. ASSUME NEW n \in Nat, \A k \in Nat : k < n => k \in B PROVE n \in B
  <2> SUFFICES ASSUME NEW u \in SUBSET S, u \in SUBSET T, IsFiniteSet(u), Cardinality(u) = n
               PROVE  g[u] = h[u]
    OBVIOUS
  <2>1. CASE u = {}  BY <2>1 DEF Adds
  <2>2. CASE u # {}
    <3> DEFINE v == u \ {Pick(u)}
    <3>1. v \in SUBSET S /\ v \in SUBSET T /\ IsFiniteSet(v) /\ Cardinality(v) \in Nat
          /\ Cardinality(v) < n
      BY <2>2, PickShrinks
    <3>2. g[v] = h[v]  BY <1>1, <3>1
    <3>3. g[u] = f[Pick(u)] + g[v] /\ h[u] = f[Pick(u)] + h[v]  BY <2>2 DEF Adds
    <3> QED BY <3>2, <3>3
  <2> QED BY <2>1, <2>2
<1>2. Nat \subseteq B
  <2> HIDE DEF B
  <2> QED BY <1>1, NaturalInduction
<1>3. Cardinality(s) \in Nat  BY FS_CardinalityType
<1> QED BY <1>2, <1>3

\* The fold over the sets of at most n elements exists.
LEMMA AddsExists ==
  ASSUME NEW f, NEW S, IsFiniteSet(S)
  PROVE  \E iter : Adds(iter, f, SUBSET S)
<1> DEFINE D(n) == {s \in SUBSET S : Cardinality(s) <= n}
           B == {n \in Nat : \E iter : Adds(iter, f, D(n))}
<1>1. \A s \in SUBSET S : IsFiniteSet(s) /\ Cardinality(s) \in Nat /\ Cardinality(s) <= Cardinality(S)
  BY FS_Subset, FS_CardinalityType
<1>2. \A s \in SUBSET S : Cardinality(s) = 0 <=> s = {}
  BY <1>1, FS_EmptySet
<1>3. ASSUME NEW n \in Nat, \A k \in Nat : k < n => k \in B PROVE n \in B
  <2>1. CASE n = 0
    <3> DEFINE iter == [s \in D(0) |-> 0]
    <3>1. \A s \in D(0) : s = {}  BY <1>1, <1>2
    <3>2. Adds(iter, f, D(0))  BY <3>1 DEF Adds
    <3> QED BY <2>1, <3>2
  <2>2. CASE n # 0
    <3>1. n - 1 \in Nat /\ n - 1 < n  BY <2>2
    <3>2. PICK g : Adds(g, f, D(n - 1))  BY <1>3, <3>1
    <3> DEFINE iter == [s \in D(n) |-> IF s = {} THEN 0 ELSE f[Pick(s)] + g[s \ {Pick(s)}]]
    <3>3. ASSUME NEW s \in D(n - 1) PROVE s \in D(n) /\ iter[s] = g[s]
      <4>1. s \in D(n)  BY <1>1, <3>1
      <4> QED BY <3>2, <4>1 DEF Adds
    <3>4. ASSUME NEW s \in D(n), s # {} PROVE s \ {Pick(s)} \in D(n - 1)
      BY <1>1, <3>1, <3>4, PickShrinks
    <3>5. iter = [s \in D(n) |-> IF s = {} THEN 0 ELSE f[Pick(s)] + iter[s \ {Pick(s)}]]
      <4> HIDE DEF D
      <4>1. ASSUME NEW s \in D(n)
            PROVE  iter[s] = IF s = {} THEN 0 ELSE f[Pick(s)] + iter[s \ {Pick(s)}]
        <5>1. CASE s = {}  BY <5>1
        <5>2. CASE s # {}
          <6>1. iter[s] = f[Pick(s)] + g[s \ {Pick(s)}]  BY <5>2
          <6>2. iter[s \ {Pick(s)}] = g[s \ {Pick(s)}]  BY <3>3, <3>4, <5>2
          <6> QED BY <5>2, <6>1, <6>2
        <5> QED BY <5>1, <5>2
      <4>2. iter = [s \in D(n) |-> iter[s]]  OBVIOUS
      <4> HIDE DEF iter
      <4> QED BY <4>1, <4>2
    <3>6. Adds(iter, f, D(n))  BY <3>5 DEF Adds
    <3> QED BY <3>6
  <2> QED BY <2>1, <2>2
<1>4. Nat \subseteq B
  <2> HIDE DEF B
  <2> QED BY <1>3, NaturalInduction
<1>5. Cardinality(S) \in B  BY <1>1, <1>4
<1>6. D(Cardinality(S)) = SUBSET S  BY <1>1
<1> QED BY <1>5, <1>6

\* Nothing adds up to zero.
LEMMA SumOfNone == ASSUME NEW f PROVE SumFunctionOnSet(f, {}) = 0
<1>1. PICK iter : Adds(iter, f, SUBSET {})  BY AddsExists, FS_EmptySet
<1> DEFINE c == CHOOSE g : Adds(g, f, SUBSET {})
<1>2. Adds(c, f, SUBSET {})  BY <1>1
<1> HIDE DEF c
<1>3. c[{}] = 0  BY <1>2 DEF Adds
<1> QED BY <1>3, SumIsFold DEF c

\* The fold adds one value to the sum of the others.
LEMMA SumOfPick ==
  ASSUME NEW f, NEW S, IsFiniteSet(S), S # {}
  PROVE  SumFunctionOnSet(f, S) = f[Pick(S)] + SumFunctionOnSet(f, S \ {Pick(S)})
<1> DEFINE v == S \ {Pick(S)}
           g == CHOOSE iter : Adds(iter, f, SUBSET S)
           h == CHOOSE iter : Adds(iter, f, SUBSET v)
<1>1. IsFiniteSet(v)  BY PickShrinks
<1>2. \E iter : Adds(iter, f, SUBSET S)  BY AddsExists
<1>3. \E iter : Adds(iter, f, SUBSET v)  BY <1>1, AddsExists
<1>4. Adds(g, f, SUBSET S) /\ Adds(h, f, SUBSET v)  BY <1>2, <1>3
<1>5. SumFunctionOnSet(f, S) = g[S] /\ SumFunctionOnSet(f, v) = h[v]  BY SumIsFold
<1> HIDE DEF g, h
<1>6. v \in SUBSET S /\ v \in SUBSET v  OBVIOUS
<1>7. g[v] = h[v]
  <2> HIDE DEF v
  <2> QED BY <1>1, <1>4, <1>6, AddsUnique
<1>8. g[S] = f[Pick(S)] + g[v]  BY <1>4 DEF Adds
<1> QED BY <1>5, <1>7, <1>8

\* Sums of numbers are numbers.
LEMMA SumType ==
  ASSUME NEW S, IsFiniteSet(S), NEW N, N = Nat \/ N = Int, NEW f, \A x \in S : f[x] \in N
  PROVE  SumFunctionOnSet(f, S) \in N
<1> DEFINE B == {n \in Nat : \A u \in SUBSET S :
                    Cardinality(u) = n => SumFunctionOnSet(f, u) \in N}
<1>1. ASSUME NEW n \in Nat, \A k \in Nat : k < n => k \in B PROVE n \in B
  <2> SUFFICES ASSUME NEW u \in SUBSET S, Cardinality(u) = n
               PROVE  SumFunctionOnSet(f, u) \in N
    OBVIOUS
  <2>1. IsFiniteSet(u)  BY FS_Subset
  <2>2. CASE u = {}
    <3>1. 0 \in N  OBVIOUS
    <3> QED BY <2>2, <3>1, SumOfNone
  <2>3. CASE u # {}
    <3> DEFINE v == u \ {Pick(u)}
    <3>1. v \in SUBSET S /\ Cardinality(v) \in Nat /\ Cardinality(v) < n /\ Pick(u) \in S
      BY <2>1, <2>3, PickShrinks
    <3>2. SumFunctionOnSet(f, v) \in N  BY <1>1, <3>1
    <3>3. SumFunctionOnSet(f, u) = f[Pick(u)] + SumFunctionOnSet(f, v)
      BY <2>1, <2>3, SumOfPick
    <3>4. f[Pick(u)] \in N  BY <3>1
    <3> HIDE DEF v
    <3> QED BY <3>2, <3>3, <3>4
  <2> QED BY <2>2, <2>3
<1>2. Nat \subseteq B
  <2> HIDE DEF B
  <2> QED BY <1>1, NaturalInduction
<1>3. Cardinality(S) \in Nat /\ S \in SUBSET S  BY FS_CardinalityType
<1> QED BY <1>2, <1>3

\* Any one of the values can be taken out of the sum, whatever the order.
LEMMA SumWithout ==
  ASSUME NEW S, IsFiniteSet(S), NEW f, \A x \in S : f[x] \in Int, NEW a \in S
  PROVE  SumFunctionOnSet(f, S) = f[a] + SumFunctionOnSet(f, S \ {a})
<1> DEFINE Sum(u) == SumFunctionOnSet(f, u)
           B == {n \in Nat : \A u \in SUBSET S : \A x \in u :
                    Cardinality(u) = n => Sum(u) = f[x] + Sum(u \ {x})}
<1>1. \A u \in SUBSET S : IsFiniteSet(u) /\ Sum(u) \in Int
  <2> SUFFICES ASSUME NEW u \in SUBSET S PROVE IsFiniteSet(u) /\ Sum(u) \in Int
    OBVIOUS
  <2>1. IsFiniteSet(u)  BY FS_Subset
  <2> QED BY <2>1, SumType
<1>2. ASSUME NEW n \in Nat, \A k \in Nat : k < n => k \in B PROVE n \in B
  <2> SUFFICES ASSUME NEW u \in SUBSET S, NEW x \in u, Cardinality(u) = n
               PROVE  Sum(u) = f[x] + Sum(u \ {x})
    OBVIOUS
  <2> DEFINE p == Pick(u)
  <2>1. /\ IsFiniteSet(u) /\ p \in u /\ Cardinality(u \ {p}) \in Nat
        /\ Cardinality(u \ {p}) < n /\ u \ {p} \in SUBSET S
    BY <1>1, PickShrinks
  <2>2. Sum(u) = f[p] + Sum(u \ {p})  BY <2>1, SumOfPick
  <2> HIDE DEF p
  <2>3. CASE x = p  BY <2>2, <2>3
  <2>4. CASE x # p
    <3> DEFINE w == u \ {x}
               v == (u \ {p}) \ {x}
    <3>1. x \in u \ {p} /\ p \in w /\ w \in SUBSET S /\ v \in SUBSET S  BY <2>1, <2>4
    <3>2. Sum(u \ {p}) = f[x] + Sum(v)  BY <1>2, <2>1, <3>1
    <3>3. Cardinality(w) \in Nat /\ Cardinality(w) < n
      <4>1. Cardinality(u \ {x}) = Cardinality(u) - 1  BY <2>1, FS_RemoveElement
      <4>2. Cardinality(u \ {x}) \in Nat  BY <1>1, <3>1, FS_CardinalityType
      <4> QED BY <4>1, <4>2
    <3>4. w \ {p} = v  OBVIOUS
    <3>5. Sum(w) = f[p] + Sum(v)
      <4>1. Sum(w) = f[p] + Sum(w \ {p})  BY <1>2, <3>1, <3>3
      <4> QED BY <3>4, <4>1
    <3>6. f[p] \in Int /\ f[x] \in Int /\ Sum(v) \in Int  BY <1>1, <2>1, <3>1
    <3> HIDE DEF Sum, v, w
    <3>7. Sum(u) = f[x] + Sum(w)  BY <2>2, <3>2, <3>5, <3>6
    <3> QED BY <3>7 DEF w
  <2> QED BY <2>3, <2>4
<1>3. Nat \subseteq B
  <2> HIDE DEF B
  <2> QED BY <1>2, NaturalInduction
<1>4. Cardinality(S) \in Nat /\ S \in SUBSET S  BY FS_CardinalityType
<1> QED BY <1>3, <1>4

\* Values that are no more make a sum that is no more, and a value added to
\* one of two sums is added to it: linear facts, one after the other.
LEMMA SumOrder ==
  ASSUME NEW S, IsFiniteSet(S), NEW f, NEW g,
         \A x \in S : f[x] \in Int /\ g[x] \in Int /\ f[x] <= g[x]
  PROVE  SumFunctionOnSet(f, S) <= SumFunctionOnSet(g, S)
<1> DEFINE B == {n \in Nat : \A u \in SUBSET S : Cardinality(u) = n =>
                    SumFunctionOnSet(f, u) <= SumFunctionOnSet(g, u)}
<1>1. \A u \in SUBSET S : /\ IsFiniteSet(u) /\ SumFunctionOnSet(f, u) \in Int
                          /\ SumFunctionOnSet(g, u) \in Int
  <2> SUFFICES ASSUME NEW u \in SUBSET S
               PROVE  /\ IsFiniteSet(u) /\ SumFunctionOnSet(f, u) \in Int
                      /\ SumFunctionOnSet(g, u) \in Int
    OBVIOUS
  <2>1. IsFiniteSet(u)  BY FS_Subset
  <2>2. \A x \in u : f[x] \in Int /\ g[x] \in Int  OBVIOUS
  <2> QED BY <2>1, <2>2, SumType
<1>2. ASSUME NEW n \in Nat, \A k \in Nat : k < n => k \in B PROVE n \in B
  <2> SUFFICES ASSUME NEW u \in SUBSET S, Cardinality(u) = n
               PROVE  SumFunctionOnSet(f, u) <= SumFunctionOnSet(g, u)
    OBVIOUS
  <2>1. CASE u = {}  BY <2>1, SumOfNone
  <2>2. CASE u # {}
    <3> DEFINE p == Pick(u)
               v == u \ {p}
    <3>1. /\ p \in u /\ v \in SUBSET S /\ Cardinality(v) \in Nat /\ Cardinality(v) < n
      BY <1>1, <2>2, PickShrinks
    <3>2. SumFunctionOnSet(f, v) <= SumFunctionOnSet(g, v)  BY <1>2, <3>1
    <3>3. /\ SumFunctionOnSet(f, u) = f[p] + SumFunctionOnSet(f, v)
          /\ SumFunctionOnSet(g, u) = g[p] + SumFunctionOnSet(g, v)
      BY <1>1, <2>2, SumOfPick
    <3>4. /\ SumFunctionOnSet(f, v) \in Int /\ SumFunctionOnSet(g, v) \in Int
          /\ f[p] \in Int /\ g[p] \in Int /\ f[p] <= g[p]
      BY <1>1, <3>1
    <3> HIDE DEF p, v
    <3> QED BY <3>2, <3>3, <3>4
  <2> QED BY <2>1, <2>2
<1>3. Nat \subseteq B
  <2> HIDE DEF B
  <2> QED BY <1>2, NaturalInduction
<1>4. Cardinality(S) \in Nat /\ S \in SUBSET S  BY FS_CardinalityType
<1> QED BY <1>3, <1>4

\* Linear combinations can be summed term by term.
LEMMA SumLinear ==
  ASSUME NEW S, IsFiniteSet(S), NEW f, NEW g, NEW h, NEW k \in Int,
         \A x \in S : f[x] \in Int /\ g[x] \in Int /\ h[x] = f[x] + k * g[x]
  PROVE  SumFunctionOnSet(h, S) = SumFunctionOnSet(f, S) + k * SumFunctionOnSet(g, S)
<1> DEFINE Linear(u) == SumFunctionOnSet(h, u) = SumFunctionOnSet(f, u) + k * SumFunctionOnSet(g, u)
           B == {n \in Nat : \A u \in SUBSET S : Cardinality(u) = n => Linear(u)}
<1>1. \A u \in SUBSET S : /\ IsFiniteSet(u) /\ SumFunctionOnSet(f, u) \in Int
                          /\ SumFunctionOnSet(g, u) \in Int
  <2> SUFFICES ASSUME NEW u \in SUBSET S
               PROVE  /\ IsFiniteSet(u) /\ SumFunctionOnSet(f, u) \in Int
                      /\ SumFunctionOnSet(g, u) \in Int
    OBVIOUS
  <2>1. IsFiniteSet(u)  BY FS_Subset
  <2>2. \A x \in u : f[x] \in Int /\ g[x] \in Int  OBVIOUS
  <2> QED BY <2>1, <2>2, SumType
<1>2. ASSUME NEW n \in Nat, \A m \in Nat : m < n => m \in B PROVE n \in B
  <2> SUFFICES ASSUME NEW u \in SUBSET S, Cardinality(u) = n PROVE Linear(u)
    OBVIOUS
  <2>1. CASE u = {}
    <3>1. 0 = 0 + k * 0  OBVIOUS
    <3> QED BY <2>1, <3>1, SumOfNone
  <2>2. CASE u # {}
    <3> DEFINE p == Pick(u)
               v == u \ {p}
               F == SumFunctionOnSet(f, v)
               G == SumFunctionOnSet(g, v)
    <3>1. p \in u /\ v \in SUBSET S /\ Cardinality(v) \in Nat /\ Cardinality(v) < n
      BY <1>1, <2>2, PickShrinks
    <3>2. SumFunctionOnSet(h, v) = F + k * G  BY <1>2, <3>1
    <3>3. /\ SumFunctionOnSet(f, u) = f[p] + F
          /\ SumFunctionOnSet(g, u) = g[p] + G
          /\ SumFunctionOnSet(h, u) = h[p] + SumFunctionOnSet(h, v)
      BY <1>1, <2>2, SumOfPick
    <3>4. F \in Int /\ G \in Int /\ f[p] \in Int /\ g[p] \in Int /\ h[p] = f[p] + k * g[p]
      BY <1>1, <3>1
    <3> HIDE DEF p, v, F, G
    <3>5. k * (g[p] + G) = k * g[p] + k * G  BY <3>4
    <3>6. k * g[p] \in Int /\ k * G \in Int  BY <3>4
    <3> QED BY <3>2, <3>3, <3>4, <3>5, <3>6
  <2> QED BY <2>1, <2>2
<1>3. Nat \subseteq B
  <2> HIDE DEF B
  <2> QED BY <1>2, NaturalInduction
<1>4. Cardinality(S) \in Nat /\ S \in SUBSET S  BY FS_CardinalityType
<1> QED BY <1>3, <1>4

\* Zeros add up to zero.
LEMMA SumOfZeros ==
  ASSUME NEW S, IsFiniteSet(S), NEW f, \A x \in S : f[x] = 0
  PROVE  SumFunctionOnSet(f, S) = 0
<1>1. \A x \in S : f[x] \in Int /\ f[x] = f[x] + 1 * f[x]  OBVIOUS
<1>2. SumFunctionOnSet(f, S) \in Int  BY <1>1, SumType
<1>3. SumFunctionOnSet(f, S) = SumFunctionOnSet(f, S) + 1 * SumFunctionOnSet(f, S)
  BY <1>1, SumLinear
<1>4. \A n \in Int : n = n + 1 * n => n = 0  OBVIOUS
<1> QED BY <1>2, <1>3, <1>4, Zenon

\* A common factor of the values is a factor of the sum.
LEMMA SumScaled ==
  ASSUME NEW S, IsFiniteSet(S), NEW g, NEW k \in Int, NEW h,
         \A x \in S : g[x] \in Int /\ h[x] = k * g[x]
  PROVE  SumFunctionOnSet(h, S) = k * SumFunctionOnSet(g, S)
<1> DEFINE zero == [x \in S |-> 0]
<1>1. \A x \in S : zero[x] \in Int /\ g[x] \in Int /\ h[x] = zero[x] + k * g[x]  OBVIOUS
<1>2. SumFunctionOnSet(zero, S) = 0  BY SumOfZeros
<1> HIDE DEF zero
<1>3. SumFunctionOnSet(h, S) = SumFunctionOnSet(zero, S) + k * SumFunctionOnSet(g, S)
  BY <1>1, SumLinear
<1>4. SumFunctionOnSet(g, S) \in Int  BY <1>1, SumType
<1>5. k * SumFunctionOnSet(g, S) \in Int  BY <1>4
<1> QED BY <1>2, <1>3, <1>5

\* Equal values have equal sums.
LEMMA SumSame ==
  ASSUME NEW S, IsFiniteSet(S), NEW f, NEW g, \A x \in S : f[x] \in Int /\ g[x] = f[x]
  PROVE  SumFunctionOnSet(g, S) = SumFunctionOnSet(f, S)
<1>1. SumFunctionOnSet(f, S) \in Int /\ SumFunctionOnSet(g, S) \in Int  BY SumType
<1>2. \A x \in S : f[x] \in Int /\ g[x] \in Int /\ f[x] <= g[x] /\ g[x] <= f[x]  OBVIOUS
<1>3. SumFunctionOnSet(f, S) <= SumFunctionOnSet(g, S)  BY <1>2, SumOrder
<1>4. SumFunctionOnSet(g, S) <= SumFunctionOnSet(f, S)  BY <1>2, SumOrder
<1> QED BY <1>1, <1>3, <1>4

\* When one value changes, the sum changes by as much.
LEMMA SumChange ==
  ASSUME NEW S, IsFiniteSet(S), NEW f, NEW g, NEW a \in S,
         \A x \in S : f[x] \in Int /\ g[x] \in Int /\ (x # a => g[x] = f[x])
  PROVE  SumFunctionOnSet(g, S) + f[a] = SumFunctionOnSet(f, S) + g[a]
<1> DEFINE T == S \ {a}
<1>1. IsFiniteSet(T) /\ \A x \in T : f[x] \in Int /\ g[x] = f[x]  BY FS_Subset
<1>2. SumFunctionOnSet(f, T) \in Int /\ SumFunctionOnSet(g, T) = SumFunctionOnSet(f, T)
  BY <1>1, SumType, SumSame
<1>3. /\ SumFunctionOnSet(f, S) = f[a] + SumFunctionOnSet(f, T)
      /\ SumFunctionOnSet(g, S) = g[a] + SumFunctionOnSet(g, T)
  BY SumWithout
<1>4. f[a] \in Int /\ g[a] \in Int  OBVIOUS
<1> HIDE DEF T
<1> QED BY <1>2, <1>3, <1>4

\* A sum of counters is a counter, and as large as each of them.
LEMMA SumCovers ==
  ASSUME NEW S, IsFiniteSet(S), NEW f, \A x \in S : f[x] \in Nat, NEW a \in S
  PROVE  SumFunctionOnSet(f, S) \in Nat /\ f[a] <= SumFunctionOnSet(f, S)
<1> DEFINE T == S \ {a}
<1>1. IsFiniteSet(T) /\ \A x \in T : f[x] \in Nat  BY FS_Subset
<1>2. SumFunctionOnSet(f, T) \in Nat  BY <1>1, SumType
<1>3. \A x \in S : f[x] \in Int  OBVIOUS
<1>4. SumFunctionOnSet(f, S) = f[a] + SumFunctionOnSet(f, T)  BY <1>3, SumWithout
<1>5. f[a] \in Nat  OBVIOUS
<1> HIDE DEF T
<1> QED BY <1>2, <1>4, <1>5

\* The sum of two values.
LEMMA SumOfTwo ==
  ASSUME NEW a, NEW b, a # b, NEW f, f[a] \in Int, f[b] \in Int
  PROVE  SumFunctionOnSet(f, {a, b}) = f[a] + f[b]
<1>1. IsFiniteSet({a, b}) /\ IsFiniteSet({b})
  <2>1. IsFiniteSet({b})  BY FS_Singleton
  <2>2. {b} \cup {a} = {a, b}  OBVIOUS
  <2>3. IsFiniteSet({b} \cup {a})  BY <2>1, FS_AddElement
  <2> QED BY <2>1, <2>2, <2>3
<1>2. {a, b} \ {a} = {b} /\ {b} \ {b} = {}  OBVIOUS
<1>3. SumFunctionOnSet(f, {a, b}) = f[a] + SumFunctionOnSet(f, {b})
  BY <1>1, <1>2, SumWithout
<1>4. SumFunctionOnSet(f, {b}) = f[b] + SumFunctionOnSet(f, {})
  BY <1>1, <1>2, SumWithout
<1> QED BY <1>3, <1>4, SumOfNone

\* Zeros can be left out of a sum.
LEMMA SumWithZeros ==
  ASSUME NEW S, IsFiniteSet(S), NEW T \in SUBSET S, NEW f, NEW g,
         \A x \in S : f[x] \in Int /\ (x \notin T => f[x] = 0),
         \A x \in T : g[x] = f[x]
  PROVE  SumFunctionOnSet(g, T) = SumFunctionOnSet(f, S)
<1> DEFINE B == {n \in Nat : \A u \in SUBSET S : Cardinality(u) = n =>
                    SumFunctionOnSet(f, u \cap T) = SumFunctionOnSet(f, u)}
<1>1. \A u \in SUBSET S : /\ IsFiniteSet(u) /\ SumFunctionOnSet(f, u) \in Int
                          /\ IsFiniteSet(u \cap T) /\ SumFunctionOnSet(f, u \cap T) \in Int
  <2> SUFFICES ASSUME NEW u \in SUBSET S
               PROVE  IsFiniteSet(u) /\ SumFunctionOnSet(f, u) \in Int
    OBVIOUS
  <2>1. IsFiniteSet(u)  BY FS_Subset
  <2>2. \A x \in u : f[x] \in Int  OBVIOUS
  <2> QED BY <2>1, <2>2, SumType
<1>2. ASSUME NEW n \in Nat, \A m \in Nat : m < n => m \in B PROVE n \in B
  <2> SUFFICES ASSUME NEW u \in SUBSET S, Cardinality(u) = n
               PROVE  SumFunctionOnSet(f, u \cap T) = SumFunctionOnSet(f, u)
    OBVIOUS
  <2>1. CASE u = {}
    <3>1. u \cap T = u  BY <2>1
    <3> QED BY <3>1
  <2>2. CASE u # {}
    <3> DEFINE p == Pick(u)
               v == u \ {p}
    <3>1. p \in u /\ v \in SUBSET S /\ Cardinality(v) \in Nat /\ Cardinality(v) < n
      BY <1>1, <2>2, PickShrinks
    <3>2. SumFunctionOnSet(f, v \cap T) = SumFunctionOnSet(f, v)  BY <1>2, <3>1
    <3>3. SumFunctionOnSet(f, u) = f[p] + SumFunctionOnSet(f, v)
      BY <1>1, <2>2, SumOfPick
    <3> HIDE DEF p
    <3>4. CASE p \in T
      <4>1. (u \cap T) \ {p} = v \cap T /\ p \in u \cap T  BY <3>1, <3>4
      <4>2. \A x \in u \cap T : f[x] \in Int  OBVIOUS
      <4>3. SumFunctionOnSet(f, u \cap T) = f[p] + SumFunctionOnSet(f, v \cap T)
        BY <1>1, <4>1, <4>2, SumWithout
      <4> QED BY <3>2, <3>3, <4>3
    <3>5. CASE p \notin T
      <4>1. u \cap T = v \cap T /\ f[p] = 0  BY <3>1, <3>5
      <4>2. SumFunctionOnSet(f, v) \in Int  BY <1>1, <3>1
      <4> HIDE DEF v
      <4> QED BY <3>2, <3>3, <4>1, <4>2
    <3> QED BY <3>4, <3>5
  <2> QED BY <2>1, <2>2
<1>3. Nat \subseteq B
  <2> HIDE DEF B
  <2> QED BY <1>2, NaturalInduction
<1>4. Cardinality(S) \in Nat /\ S \in SUBSET S /\ S \cap T = T  BY FS_CardinalityType
<1>5. SumFunctionOnSet(f, T) = SumFunctionOnSet(f, S)  BY <1>3, <1>4
<1>6. IsFiniteSet(T) /\ \A x \in T : f[x] \in Int /\ g[x] = f[x]  BY FS_Subset
<1>7. SumFunctionOnSet(g, T) = SumFunctionOnSet(f, T)  BY <1>6, SumSame
<1> QED BY <1>5, <1>7

\* Dividing each value rounds the sum down.
LEMMA SumOfParts ==
  ASSUME NEW S, IsFiniteSet(S), NEW x, NEW k \in Nat, NEW d \in Nat \ {0}, NEW h,
         \A c \in S : x[c] \in Nat /\ h[c] = (x[c] * k) \div d
  PROVE  /\ SumFunctionOnSet(h, S) \in Nat /\ SumFunctionOnSet(x, S) \in Nat
         /\ d * SumFunctionOnSet(h, S) <= k * SumFunctionOnSet(x, S)
<1> DEFINE scaled == [c \in S |-> d * h[c]]
           whole == [c \in S |-> k * x[c]]
<1>1. \A c \in S : h[c] \in Nat /\ x[c] \in Nat /\ d * h[c] \in Nat /\ k * x[c] \in Nat
                    /\ d * h[c] <= k * x[c]
  <2> SUFFICES ASSUME NEW c \in S
               PROVE  h[c] \in Nat /\ d * h[c] \in Nat /\ k * x[c] \in Nat /\ d * h[c] <= k * x[c]
    OBVIOUS
  <2>1. x[c] \in Nat /\ h[c] = (x[c] * k) \div d  OBVIOUS
  <2>2. x[c] * k \in Nat /\ x[c] * k = k * x[c]  BY <2>1, TimesNat
  <2>3. h[c] \in Nat /\ d * h[c] <= x[c] * k  BY <2>1, <2>2, DivType, DivBounds
  <2> QED BY <2>1, <2>2, <2>3, TimesNat
<1>2. SumFunctionOnSet(h, S) \in Nat /\ SumFunctionOnSet(x, S) \in Nat  BY <1>1, SumType
<1>3. \A c \in S : h[c] \in Int /\ x[c] \in Int  BY <1>1
<1>4. \A c \in S : scaled[c] = d * h[c] /\ whole[c] = k * x[c]  OBVIOUS
<1> HIDE DEF scaled, whole
<1>5. SumFunctionOnSet(scaled, S) = d * SumFunctionOnSet(h, S)  BY <1>3, <1>4, SumScaled
<1>6. SumFunctionOnSet(whole, S) = k * SumFunctionOnSet(x, S)  BY <1>3, <1>4, SumScaled
<1>7. \A c \in S : scaled[c] \in Int /\ whole[c] \in Int /\ scaled[c] <= whole[c]  BY <1>1, <1>4
<1>8. SumFunctionOnSet(scaled, S) <= SumFunctionOnSet(whole, S)  BY <1>7, SumOrder
<1> QED BY <1>2, <1>5, <1>6, <1>8

\* Sums add up.
LEMMA SumAdds ==
  ASSUME NEW S, IsFiniteSet(S), NEW f, NEW g, NEW h,
         \A x \in S : f[x] \in Int /\ g[x] \in Int /\ h[x] = f[x] + g[x]
  PROVE  SumFunctionOnSet(h, S) = SumFunctionOnSet(f, S) + SumFunctionOnSet(g, S)
<1>1. \A x \in S : f[x] \in Int /\ g[x] \in Int /\ h[x] = f[x] + 1 * g[x]  OBVIOUS
<1>2. 1 \in Int  OBVIOUS
<1>3. SumFunctionOnSet(h, S) = SumFunctionOnSet(f, S) + 1 * SumFunctionOnSet(g, S)
  BY <1>1, <1>2, SumLinear
<1>4. SumFunctionOnSet(g, S) \in Int  BY SumType
<1> QED BY <1>3, <1>4
=============================================================================
