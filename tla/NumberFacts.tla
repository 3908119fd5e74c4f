----------------------------- MODULE NumberFacts -----------------------------
(***************************************************************************)
(* Induction over the naturals and definition by recursion, in a form that *)
(* first-order provers can use: the predicate and the step are a set and a *)
(* function, not operators.  The loops of the code are modelled as         *)
(* recursive functions of the number of turns; LoopExists is what lets a   *)
(* proof unfold one.  Then what follows by such induction of least and     *)
(* greatest elements, ranks and sums.                                      *)
(***************************************************************************)
EXTENDS Integers, Sequences, Sums, FiniteSetTheorems, SequenceTheorems, WellFoundedInduction, TLAPS

(* A set of naturals that has 0 and every successor has them all.          *)
LEMMA SetInduction ==
  ASSUME NEW S \in SUBSET Nat, 0 \in S, \A n \in S : n + 1 \in S
  PROVE  S = Nat
<1> DEFINE T == Nat \ S
<1>1. ASSUME T # {} PROVE FALSE
  <2>1. PICK x \in T : \A y \in T : ~ (<<y, x>> \in OpToRel(<, Nat))
    <3>1. T \subseteq Nat
      OBVIOUS
    <3> HIDE DEF T
    <3>2. QED BY <1>1, <3>1, NatLessThanWellFounded, WFMin
  <2>2. x \in Nat /\ x # 0
    OBVIOUS
  <2>3. x - 1 \in Nat /\ x - 1 < x
    BY <2>2
  <2>4. x - 1 \in S
    <3>1. SUFFICES ASSUME x - 1 \in T PROVE FALSE
      BY <2>3
    <3>2. <<x - 1, x>> \in OpToRel(<, Nat)
      BY <2>2, <2>3 DEF OpToRel
    <3>3. QED BY <2>1, <3>1, <3>2
  <2>5. (x - 1) + 1 = x
    BY <2>2
  <2>6. QED BY <2>4, <2>5, <2>2
<1>2. QED BY <1>1

\* g starts at x and takes the step once more at every natural.
IsLoop(g, T, x, step) == /\ g \in [Nat -> T]
                         /\ g[0] = x
                         /\ \A n \in Nat : g[n + 1] = step[<<g[n], n + 1>>]

(* For a start in T and a step function on T there is such a function.     *)
LEMMA LoopExists ==
  ASSUME NEW T, NEW x \in T, NEW step \in [T \X Nat -> T]
  PROVE  \E g : IsLoop(g, T, x, step)
<1> DEFINE Good(n) == {g \in [0..n -> T] :
               g[0] = x /\ \A i \in 0..(n-1) : g[i+1] = step[<<g[i], i+1>>]}
           S == {n \in Nat : \E g \in Good(n) : \A h \in Good(n) : h = g}
<1>1. 0 \in S
  <2>1. [i \in 0..0 |-> x] \in Good(0)
    OBVIOUS
  <2>2. \A g, h \in Good(0) : g = h
    <3>1. SUFFICES ASSUME NEW g \in Good(0), NEW h \in Good(0) PROVE g = h
      OBVIOUS
    <3>2. \A i \in 0..0 : g[i] = h[i]
      OBVIOUS
    <3>3. QED BY <3>2
  <2> QED BY <2>1, <2>2
<1>2. ASSUME NEW n \in S PROVE n + 1 \in S
  <2>0. n \in Nat OBVIOUS
  <2>1. PICK g \in Good(n) : \A h \in Good(n) : h = g
    OBVIOUS
  <2> DEFINE next == [i \in 0..(n+1) |-> IF i = n+1 THEN step[<<g[n], n+1>>] ELSE g[i]]
  <2>2. next \in Good(n+1)
    <3>1. g[n] \in T /\ step[<<g[n], n+1>>] \in T
      BY <2>0
    <3>2. next \in [0..(n+1) -> T]
      BY <3>1, <2>0
    <3>3. next[0] = x
      BY <2>0
    <3>4. ASSUME NEW i \in 0..((n+1) - 1)
          PROVE  next[i+1] = step[<<next[i], i+1>>]
      <4>1. i \in 0..n /\ i + 1 \in 0..(n+1) /\ i \in 0..(n+1) /\ i # n + 1
        BY <2>0
      <4>2. next[i] = g[i]
        BY <4>1
      <4>3. CASE i = n
        BY <4>1, <4>2, <4>3
      <4>4. CASE i # n
        <5>1. i \in 0..(n-1) /\ i + 1 # n + 1
          BY <4>1, <4>4, <2>0
        <5>2. next[i+1] = g[i+1]
          BY <4>1, <5>1
        <5> QED BY <4>2, <5>1, <5>2
      <4> QED BY <4>3, <4>4
    <3> HIDE DEF next
    <3> QED BY <3>2, <3>3, <3>4
  <2>3. ASSUME NEW h \in Good(n+1) PROVE h = next
    <3> DEFINE k == [i \in 0..n |-> h[i]]
    <3>1. k \in Good(n)
      <4>1. k \in [0..n -> T]
        BY <2>0
      <4>2. k[0] = x
        BY <2>0
      <4>3. \A i \in 0..(n-1) : k[i+1] = step[<<k[i], i+1>>]
        BY <2>0
      <4> QED BY <4>1, <4>2, <4>3
    <3>2. k = g BY <3>1, <2>1
    <3>3. \A i \in 0..n : h[i] = g[i]
      BY <3>2
    <3>4. h[n+1] = step[<<g[n], n+1>>]
      BY <3>3, <2>0
    <3>5. \A i \in 0..(n+1) : h[i] = next[i]
      BY <3>3, <3>4, <2>0
    <3> QED BY <3>5, <2>0
  <2>4. n + 1 \in Nat
    BY <2>0
  <2> HIDE DEF Good, next
  <2> QED BY <2>2, <2>3, <2>4
<1> HIDE DEF Good
<1>3. S = Nat BY <1>1, <1>2, SetInduction
<1> DEFINE G == [n \in Nat |-> CHOOSE g \in Good(n) : TRUE]
           f == [n \in Nat |-> G[n][n]]
<1>4. \A n \in Nat : G[n] \in Good(n) /\ \A h \in Good(n) : h = G[n]
  BY <1>3
<1>5. \A n \in Nat : /\ G[n] \in [0..n -> T] /\ G[n][0] = x
                     /\ \A i \in 0..(n-1) : G[n][i+1] = step[<<G[n][i], i+1>>]
  BY <1>4 DEF Good
<1> HIDE DEF G
<1>6. ASSUME NEW n \in Nat PROVE G[n+1][n] = G[n][n]
  <2> DEFINE k == [i \in 0..n |-> G[n+1][i]]
  <2>1. n + 1 \in Nat OBVIOUS
  <2>2. k \in Good(n)
    <3>1. k \in [0..n -> T] BY <1>5, <2>1
    <3>2. k[0] = x BY <1>5, <2>1
    <3>3. \A i \in 0..(n-1) : k[i+1] = step[<<k[i], i+1>>] BY <1>5, <2>1
    <3> QED BY <3>1, <3>2, <3>3 DEF Good
  <2>3. k = G[n] BY <2>2, <1>4
  <2>4. k[n] = G[n+1][n] OBVIOUS
  <2> QED BY <2>3, <2>4
<1>7. f \in [Nat -> T]
  <2>1. \A n \in Nat : G[n][n] \in T BY <1>5
  <2> QED BY <2>1
<1>8. f[0] = x
  BY <1>5
<1>9. \A n \in Nat : f[n+1] = step[<<f[n], n+1>>]
  <2>1. SUFFICES ASSUME NEW n \in Nat PROVE f[n+1] = step[<<f[n], n+1>>] OBVIOUS
  <2>2. G[n+1][n+1] = step[<<G[n+1][n], n+1>>] BY <1>5
  <2> QED BY <2>2, <1>6
<1> HIDE DEF f
<1> QED BY <1>7, <1>8, <1>9 DEF IsLoop

(***************************************************************************)
(* Least and greatest elements, and ranks.                                 *)
(***************************************************************************)

(* A set of naturals with an element has a least one.                      *)
LEMMA MinFacts ==
  ASSUME NEW S \in SUBSET Nat, S # {}
  PROVE  Min(S) \in S /\ \A y \in S : Min(S) <= y
<1>1. PICK x \in S : \A y \in S : ~ (<<y, x>> \in OpToRel(<, Nat))
  BY NatLessThanWellFounded, WFMin
<1>2. \A y \in S : x <= y
  <2>1. SUFFICES ASSUME NEW y \in S PROVE x <= y
    OBVIOUS
  <2>2. x \in Nat /\ y \in Nat
    OBVIOUS
  <2>3. ~ (<<y, x>> \in OpToRel(<, Nat))
    BY <1>1
  <2>4. ~ (y < x)
    BY <2>2, <2>3 DEF OpToRel
  <2> QED BY <2>2, <2>4
<1> DEFINE P(z) == z \in S /\ \A y \in S : z =< y
<1>3. \E z : P(z)
  BY <1>2
<1>4. P(CHOOSE z : P(z))
  <2> HIDE DEF P
  <2> QED BY <1>3
<1>5. Min(S) = CHOOSE z : P(z)
  BY Zenon DEF Min
<1> QED BY <1>4, <1>5

(* A bounded one has a greatest.                                           *)
LEMMA MaxFacts ==
  ASSUME NEW n \in Nat, NEW S \in SUBSET (0..n), S # {}
  PROVE  Max(S) \in S /\ \A y \in S : y <= Max(S)
<1> DEFINE T == {n - x : x \in S}
<1>1. T \in SUBSET Nat /\ T # {}
  <2>1. \A x \in S : n - x \in Nat
    OBVIOUS
  <2> QED BY <2>1
<1>2. PICK m \in T : \A y \in T : m <= y
  <2> HIDE DEF T
  <2> QED BY <1>1, MinFacts
<1>3. PICK x \in S : m = n - x
  BY <1>2
<1>4. \A y \in S : x >= y
  <2>1. SUFFICES ASSUME NEW y \in S PROVE x >= y
    OBVIOUS
  <2>2. n - y \in T
    OBVIOUS
  <2>3. n - x <= n - y /\ x \in Nat /\ y \in Nat
    BY <1>2, <1>3, <2>2, SMTT(30)
  <2> QED BY <2>3
<1> DEFINE P(z) == z \in S /\ \A y \in S : z >= y
<1>5. P(CHOOSE z : P(z))
  <2>1. \E z : P(z)
    BY <1>4
  <2> HIDE DEF P
  <2> QED BY <2>1
<1>6. Max(S) = CHOOSE z : P(z)
  BY Zenon DEF Max
<1>7. P(Max(S))
  <2> HIDE DEF P
  <2> QED BY <1>5, <1>6
<1> QED BY <1>7

(* Counting the elements up to each one numbers a finite set of naturals.  *)
LEMMA RankFacts ==
  ASSUME NEW n \in Nat, NEW S \in SUBSET (1..n)
  PROVE  /\ IsFiniteSet(S) /\ Cardinality(S) \in 0..n
         /\ \A i \in 1..Cardinality(S) : \E x \in S : Cardinality({y \in S : y <= x}) = i
         /\ \A x \in S : Cardinality({y \in S : y <= x}) \in 1..Cardinality(S)
         /\ \A x, z \in S : Cardinality({y \in S : y <= x}) = Cardinality({y \in S : y <= z}) => x = z
<1> DEFINE upto(x) == {y \in S : y <= x}
           D == 1..Cardinality(S)
           rank == [x \in S |-> Cardinality(upto(x))]
<1>1. IsFiniteSet(1..n) /\ Cardinality(1..n) = n
  BY FS_Interval
<1>2. IsFiniteSet(S) /\ Cardinality(S) <= n
  BY <1>1, FS_Subset
<1>3. Cardinality(S) \in Nat
  BY <1>2, FS_CardinalityType
<1>4. Cardinality(S) \in 0..n
  BY <1>2, <1>3
<1>5. IsFiniteSet(D) /\ Cardinality(D) = Cardinality(S)
  <2>1. Cardinality(1..Cardinality(S)) =
          IF 1 > Cardinality(S) THEN 0 ELSE Cardinality(S) - 1 + 1
    BY <1>3, FS_Interval
  <2>2. IsFiniteSet(1..Cardinality(S))
    BY <1>3, FS_Interval
  <2> QED BY <1>3, <2>1, <2>2
<1>6. \A x \in S : rank[x] = Cardinality(upto(x)) /\ upto(x) \in SUBSET S /\ x \in upto(x)
  OBVIOUS
<1> HIDE DEF rank
<1>7. ASSUME NEW x \in S PROVE IsFiniteSet(upto(x)) /\ Cardinality(upto(x)) \in D
  <2> HIDE DEF upto, rank
  <2>1. IsFiniteSet(upto(x)) /\ Cardinality(upto(x)) <= Cardinality(S)
    BY <1>2, <1>6, FS_Subset
  <2>2. Cardinality(upto(x)) \in Nat /\ Cardinality(upto(x)) # 0
    BY <1>6, <2>1, FS_CardinalityType, FS_EmptySet
  <2> QED BY <1>3, <2>1, <2>2
<1>8. ASSUME NEW x \in S, NEW z \in S, x < z PROVE Cardinality(upto(x)) # Cardinality(upto(z))
  <2>1. x \in Nat /\ z \in Nat /\ \A y \in S : y \in Nat
    OBVIOUS
  <2>2. \A y \in S : y <= x => y <= z
    BY <1>8, <2>1
  <2>3. upto(x) \in SUBSET upto(z) /\ z \in upto(z) /\ z \notin upto(x)
    <3>1. upto(x) \in SUBSET upto(z)
      BY <2>2
    <3>2. ~ (z <= x)
      BY <1>8, <2>1
    <3>3. z \notin upto(x)
      BY <3>2
    <3> QED BY <1>6, <3>1, <3>3
  <2>4. IsFiniteSet(upto(z))
    BY <1>7
  <2> HIDE DEF upto
  <2> QED BY <2>3, <2>4, FS_Subset
<1>9. \A x, z \in S : Cardinality(upto(x)) = Cardinality(upto(z)) => x = z
  <2>1. \A x, z \in S : x # z => x < z \/ z < x
    OBVIOUS
  <2> HIDE DEF upto
  <2> QED BY <1>8, <2>1
<1>10. rank \in Surjection(S, D)
  <2>1. rank \in Injection(S, D)
    <3>1. rank \in [S -> D]
      <4> HIDE DEF upto, D
      <4> QED BY <1>7 DEF rank
    <3>2. \A x, z \in S : rank[x] = rank[z] => x = z
      <4> HIDE DEF upto, D
      <4> QED BY <1>6, <1>9
    <3> QED BY <3>1, <3>2 DEF Injection, IsInjective
  <2> HIDE DEF upto, D
  <2> QED BY <1>2, <1>5, <2>1, FS_Injection
<1>11. \A i \in D : \E x \in S : Cardinality(upto(x)) = i
  <2> HIDE DEF upto, D
  <2> QED BY <1>6, <1>10 DEF Surjection
<1> QED BY <1>2, <1>4, <1>7, <1>9, <1>11

(***************************************************************************)
(* Sums.                                                                   *)
(***************************************************************************)

\* f takes integers on a finite domain.
Summable(f) == IsFiniteSet(DOMAIN f) /\ \A i \in DOMAIN f : f[i] \in Int

(* All finite sets of at most n elements are in a set that has the empty    *)
(* one and, with every set, those that have one element more.               *)
LEMMA CardinalityInduction ==
  ASSUME NEW S, IsFiniteSet(S), NEW G \in SUBSET (SUBSET S), {} \in G,
         \A s \in SUBSET S : (\A x \in s : s \ {x} \in G) => s \in G
  PROVE  G = SUBSET S
<1> DEFINE N == {n \in Nat : \A s \in SUBSET S : Cardinality(s) = n => s \in G}
<1>1. \A s \in SUBSET S : IsFiniteSet(s) /\ Cardinality(s) \in Nat
  BY FS_Subset, FS_CardinalityType
<1>2. 0 \in N
  BY <1>1, FS_EmptySet
<1>3. ASSUME NEW n \in N PROVE n + 1 \in N
  <2>1. SUFFICES ASSUME NEW s \in SUBSET S, Cardinality(s) = n + 1 PROVE s \in G
    OBVIOUS
  <2>2. ASSUME NEW x \in s PROVE s \ {x} \in G
    <3>1. Cardinality(s \ {x}) = Cardinality(s) - 1
      BY <1>1, FS_RemoveElement
    <3>2. Cardinality(s \ {x}) = n /\ s \ {x} \in SUBSET S
      BY <2>1, <3>1
    <3> QED BY <3>2
  <2> QED BY <2>2
<1>4. N = Nat
  <2> HIDE DEF N
  <2>1. N \in SUBSET Nat
    BY DEF N
  <2> QED BY <1>2, <1>3, <2>1, SetInduction
<1> QED BY <1>1, <1>4

\* h sums f over the subsets of S.
IsSum(h, f, S) ==
  /\ h \in [SUBSET S -> Int] /\ h[{}] = 0
  /\ \A s \in SUBSET S : \A x \in s : h[s] = f[x] + h[s \ {x}]

(* A recursion that picks any element of a set sums over the set.          *)
LEMMA AnyOrderSums ==
  ASSUME NEW f, NEW S, IsFiniteSet(S), \A i \in S : f[i] \in Int,
         NEW h, h \in [SUBSET S -> Int], h[{}] = 0,
         \A s \in SUBSET S : s # {} => \E x \in s : h[s] = f[x] + h[s \ {x}]
  PROVE  IsSum(h, f, S)
<1> DEFINE G == {s \in SUBSET S : \A x \in s : h[s] = f[x] + h[s \ {x}]}
<1>1. {} \in G
  OBVIOUS
<1>2. ASSUME NEW s \in SUBSET S, \A x \in s : s \ {x} \in G PROVE s \in G
  <2>1. SUFFICES ASSUME NEW x \in s PROVE h[s] = f[x] + h[s \ {x}]
    OBVIOUS
  <2>2. PICK c \in s : h[s] = f[c] + h[s \ {c}]
    OBVIOUS
  <2>3. CASE c = x
    BY <2>2, <2>3
  <2>4. CASE c # x
    <3> DEFINE both == (s \ {c}) \ {x}
    <3>1. x \in s \ {c} /\ c \in s \ {x} /\ (s \ {x}) \ {c} = both
      BY <2>4
    <3>2. h[s \ {c}] = f[x] + h[both]
      BY <1>2, <3>1
    <3>3. h[s \ {x}] = f[c] + h[both]
      BY <1>2, <3>1
    <3>4. f[x] \in Int /\ f[c] \in Int /\ h[both] \in Int
      BY <3>1
    <3> HIDE DEF both
    <3> QED BY <2>2, <3>2, <3>3, <3>4
  <2> QED BY <2>3, <2>4
<1>3. G = SUBSET S
  <2>1. G \in SUBSET (SUBSET S)
    OBVIOUS
  <2> HIDE DEF G
  <2> QED BY <1>1, <1>2, <2>1, CardinalityInduction
<1> QED BY <1>3 DEF IsSum

(* Total is such a recursion.                                              *)
LEMMA TotalSums ==
  ASSUME NEW f, Summable(f)
  PROVE  \E h : IsSum(h, f, DOMAIN f) /\ Total(f) = h[DOMAIN f]
<1> DEFINE S == DOMAIN f
           c == [s \in SUBSET S |-> CHOOSE x \in s : TRUE]
           T == [SUBSET S -> Int]
           zero == [s \in SUBSET S |-> 0]
           step == [p \in T \X Nat |->
                      [s \in SUBSET S |-> IF s = {} THEN 0 ELSE f[c[s]] + p[1][s \ {c[s]}]]]
<1>0. IsFiniteSet(S) /\ \A i \in S : f[i] \in Int
  BY DEF Summable
<1>1. \A s \in SUBSET S : s # {} => c[s] \in s /\ f[c[s]] \in Int /\ s \ {c[s]} \in SUBSET S
  <2>1. \A s \in SUBSET S : s # {} => c[s] \in s
    OBVIOUS
  <2> HIDE DEF c
  <2> QED BY <1>0, <2>1
<1> HIDE DEF c
<1>2. step \in [T \X Nat -> T]
  <2>1. ASSUME NEW g \in T, NEW n \in Nat, NEW s \in SUBSET S
        PROVE  (IF s = {} THEN 0 ELSE f[c[s]] + g[s \ {c[s]}]) \in Int
    BY <1>1
  <2>2. ASSUME NEW p \in T \X Nat
        PROVE  [s \in SUBSET S |-> IF s = {} THEN 0 ELSE f[c[s]] + p[1][s \ {c[s]}]] \in T
    <3>1. p[1] \in T
      OBVIOUS
    <3> QED BY <2>1, <3>1
  <2> HIDE DEF T
  <2> QED BY <2>2
<1>3. zero \in T
  OBVIOUS
<1>4. PICK g : IsLoop(g, T, zero, step)
  <2> HIDE DEF T, zero, step
  <2> QED BY <1>2, <1>3, LoopExists
<1>5. /\ g \in [Nat -> T] /\ g[0] = zero
      /\ \A n \in Nat : g[n + 1] = step[<<g[n], n + 1>>]
  BY <1>4 DEF IsLoop
<1>6. ASSUME NEW n \in Nat, NEW s \in SUBSET S, s # {}
      PROVE  g[n + 1][s] = f[c[s]] + g[n][s \ {c[s]}]
  <2>1. g[n] \in T /\ n + 1 \in Nat
    BY <1>5
  <2>2. step[<<g[n], n + 1>>] = [t \in SUBSET S |-> IF t = {} THEN 0 ELSE f[c[t]] + g[n][t \ {c[t]}]]
    <3> HIDE DEF T
    <3> QED BY <2>1
  <2> HIDE DEF step
  <2> QED BY <1>5, <1>6, <2>2
<1> DEFINE h == [s \in SUBSET S |-> g[Cardinality(s)][s]]
<1>7. \A s \in SUBSET S : IsFiniteSet(s) /\ Cardinality(s) \in Nat
  BY <1>0, FS_Subset, FS_CardinalityType
<1>8. h \in [SUBSET S -> Int]
  <2>1. ASSUME NEW s \in SUBSET S PROVE g[Cardinality(s)][s] \in Int
    <3>1. g[Cardinality(s)] \in T
      BY <1>5, <1>7
    <3> QED BY <3>1
  <2> QED BY <2>1
<1>9. h[{}] = 0
  <2>1. Cardinality({}) = 0
    BY FS_EmptySet
  <2> QED BY <1>5, <2>1
<1>10. ASSUME NEW s \in SUBSET S, s # {}
       PROVE  h[s] = f[c[s]] + h[s \ {c[s]}]
  <2> DEFINE r == s \ {c[s]}
  <2>1. c[s] \in s /\ r \in SUBSET S
    BY <1>1, <1>10
  <2>2. Cardinality(r) = Cardinality(s) - 1 /\ Cardinality(r) \in Nat /\ Cardinality(s) \in Nat
    BY <1>7, <2>1, FS_RemoveElement
  <2>3. Cardinality(s) = Cardinality(r) + 1
    BY <2>2
  <2>4. h[s] = g[Cardinality(r) + 1][s] /\ h[r] = g[Cardinality(r)][r]
    BY <2>1, <2>3
  <2> QED BY <1>6, <1>10, <2>2, <2>4
<1>11. h = [s \in SUBSET S |-> IF s = {} THEN 0 ELSE f[c[s]] + h[s \ {c[s]}]]
  <2> DEFINE k == [s \in SUBSET S |-> IF s = {} THEN 0 ELSE f[c[s]] + h[s \ {c[s]}]]
  <2> HIDE DEF h
  <2>1. \A s \in SUBSET S : h[s] = k[s]
    BY <1>9, <1>10
  <2>2. DOMAIN h = SUBSET S /\ h = [s \in DOMAIN h |-> h[s]]
    BY <1>8
  <2>3. DOMAIN k = SUBSET S /\ k = [s \in DOMAIN k |-> k[s]]
    OBVIOUS
  <2> HIDE DEF k
  <2>4. h = k
    BY <2>1, <2>2, <2>3
  <2> QED BY <2>4 DEF k
<1> DEFINE P(k) == k = [s \in SUBSET S |-> IF s = {} THEN 0
                                           ELSE f[CHOOSE x \in s : TRUE] + k[s \ {CHOOSE x \in s : TRUE}]]
           iter == CHOOSE k : P(k)
<1>12. P(h)
  <2>1. \A s \in SUBSET S : c[s] = CHOOSE x \in s : TRUE
    BY DEF c
  <2> HIDE DEF h, c
  <2> QED BY <1>11, <2>1
<1> HIDE DEF h
<1>13. P(iter)
  <2> HIDE DEF P
  <2> QED BY <1>12
<1>14. Total(f) = iter[S]
  BY Zenon DEF Total, MapThenSumSet, MapThenFoldSet
<1> HIDE DEF iter
<1>15. iter = h
  <2> DEFINE G == {s \in SUBSET S : iter[s] = h[s]}
             pick == [s \in SUBSET S |-> CHOOSE x \in s : TRUE]
  <2>1. \A s \in SUBSET S : s # {} => pick[s] \in s
    OBVIOUS
  <2>2. \A k : P(k) =>
           /\ DOMAIN k = SUBSET S /\ k = [s \in DOMAIN k |-> k[s]]
           /\ \A s \in SUBSET S : k[s] = IF s = {} THEN 0 ELSE f[pick[s]] + k[s \ {pick[s]}]
    OBVIOUS
  <2> HIDE DEF P, pick
  <2>3. {} \in G
    BY <1>12, <1>13, <2>2
  <2>4. ASSUME NEW s \in SUBSET S, \A x \in s : s \ {x} \in G PROVE s \in G
    <3>1. CASE s = {}
      BY <2>3, <3>1
    <3>2. CASE s # {}
      <4>1. pick[s] \in s
        BY <2>1, <3>2
      <4>2. iter[s \ {pick[s]}] = h[s \ {pick[s]}]
        BY <2>4, <4>1
      <4>3. iter[s] = f[pick[s]] + iter[s \ {pick[s]}]
        BY <1>13, <2>2, <3>2
      <4>4. h[s] = f[pick[s]] + h[s \ {pick[s]}]
        BY <1>12, <2>2, <3>2
      <4> QED BY <4>2, <4>3, <4>4
    <3> QED BY <3>1, <3>2
  <2>5. G = SUBSET S
    <3>1. G \in SUBSET (SUBSET S)
      OBVIOUS
    <3> HIDE DEF G
    <3> QED BY <1>0, <2>3, <2>4, <3>1, CardinalityInduction
  <2>6. \A s \in SUBSET S : iter[s] = h[s]
    BY <2>5
  <2> QED BY <1>12, <1>13, <2>2, <2>6
<1>16. IsSum(h, f, S)
  <2>1. \A s \in SUBSET S : s # {} => \E x \in s : h[s] = f[x] + h[s \ {x}]
    BY <1>1, <1>10
  <2> HIDE DEF S
  <2> QED BY <1>0, <1>8, <1>9, <2>1, AnyOrderSums
<1> QED BY <1>14, <1>15, <1>16

(* Two functions that agree on a set have the same sum over it.            *)
LEMMA SumsAgree ==
  ASSUME NEW f, NEW S, NEW h, IsSum(h, f, S), NEW g, NEW T, NEW k, IsSum(k, g, T),
         NEW U \in SUBSET S, U \in SUBSET T, IsFiniteSet(U), \A x \in U : f[x] = g[x]
  PROVE  h[U] = k[U]
<1> DEFINE G == {s \in SUBSET U : h[s] = k[s]}
<1>1. {} \in G
  BY DEF IsSum
<1>2. ASSUME NEW s \in SUBSET U, \A x \in s : s \ {x} \in G PROVE s \in G
  <2>1. CASE s = {}
    BY <1>1, <2>1
  <2>2. CASE s # {}
    <3>1. PICK x \in s : TRUE
      BY <2>2
    <3>2. h[s \ {x}] = k[s \ {x}] /\ f[x] = g[x] /\ s \in SUBSET S /\ s \in SUBSET T
      BY <1>2, <3>1
    <3>3. h[s] = f[x] + h[s \ {x}]
      BY <3>1, <3>2 DEF IsSum
    <3>4. k[s] = g[x] + k[s \ {x}]
      BY <3>1, <3>2 DEF IsSum
    <3> QED BY <3>2, <3>3, <3>4
  <2> QED BY <2>1, <2>2
<1>3. G = SUBSET U
  <2>1. G \in SUBSET (SUBSET U)
    OBVIOUS
  <2> HIDE DEF G
  <2> QED BY <1>1, <1>2, <2>1, CardinalityInduction
<1> QED BY <1>3

(* Only the domain and the values count.                                   *)
LEMMA TotalAgree ==
  ASSUME NEW f, Summable(f), NEW g, DOMAIN g = DOMAIN f, \A i \in DOMAIN f : g[i] = f[i]
  PROVE  Summable(g) /\ Total(g) = Total(f)
<1>1. Summable(g)
  BY DEF Summable
<1>2. PICK h : IsSum(h, f, DOMAIN f) /\ Total(f) = h[DOMAIN f]
  BY TotalSums
<1>3. PICK k : IsSum(k, g, DOMAIN g) /\ Total(g) = k[DOMAIN g]
  BY <1>1, TotalSums
<1>4. IsFiniteSet(DOMAIN f) /\ DOMAIN f \in SUBSET DOMAIN f /\ DOMAIN f \in SUBSET DOMAIN g
  BY DEF Summable
<1>5. h[DOMAIN f] = k[DOMAIN f]
  BY <1>2, <1>3, <1>4, SumsAgree
<1> QED BY <1>1, <1>2, <1>3, <1>5

LEMMA TotalType ==
  ASSUME NEW f, Summable(f)
  PROVE  Total(f) \in Int /\ (DOMAIN f = {} => Total(f) = 0)
<1>1. PICK h : IsSum(h, f, DOMAIN f) /\ Total(f) = h[DOMAIN f]
  BY TotalSums
<1> QED BY <1>1 DEF IsSum

(* One more element adds its value.                                        *)
LEMMA TotalAdd ==
  ASSUME NEW f, Summable(f), NEW x, x \notin DOMAIN f,
         NEW g, DOMAIN g = DOMAIN f \cup {x}, \A i \in DOMAIN f : g[i] = f[i], g[x] \in Int
  PROVE  Summable(g) /\ Total(g) = Total(f) + g[x]
<1>1. Summable(g)
  <2>1. IsFiniteSet(DOMAIN f \cup {x})
    BY FS_AddElement DEF Summable
  <2> QED BY <2>1 DEF Summable
<1>2. PICK h : IsSum(h, f, DOMAIN f) /\ Total(f) = h[DOMAIN f]
  BY TotalSums
<1>3. PICK k : IsSum(k, g, DOMAIN g) /\ Total(g) = k[DOMAIN g]
  BY <1>1, TotalSums
<1>4. IsFiniteSet(DOMAIN f) /\ DOMAIN f \in SUBSET DOMAIN f /\ DOMAIN f \in SUBSET DOMAIN g
  BY DEF Summable
<1>5. h[DOMAIN f] = k[DOMAIN f]
  BY <1>2, <1>3, <1>4, SumsAgree
<1>6. DOMAIN g \ {x} = DOMAIN f /\ x \in DOMAIN g
  OBVIOUS
<1>7. k[DOMAIN g] = g[x] + k[DOMAIN f]
  <2>1. \A y \in DOMAIN g : k[DOMAIN g] = g[y] + k[DOMAIN g \ {y}]
    BY <1>3 DEF IsSum
  <2> QED BY <1>6, <2>1
<1>8. Total(f) \in Int
  BY TotalType
<1> QED BY <1>1, <1>2, <1>3, <1>5, <1>7, <1>8

(* One element less takes its value.                                       *)
LEMMA TotalRemove ==
  ASSUME NEW f, Summable(f), NEW x \in DOMAIN f,
         NEW g, DOMAIN g = DOMAIN f \ {x}, \A i \in DOMAIN g : g[i] = f[i]
  PROVE  Summable(g) /\ Total(f) = Total(g) + f[x]
<1>1. Summable(g)
  <2>1. IsFiniteSet(DOMAIN f \ {x})
    BY FS_RemoveElement DEF Summable
  <2> QED BY <2>1 DEF Summable
<1>2. x \notin DOMAIN g /\ DOMAIN f = DOMAIN g \cup {x} /\ f[x] \in Int
  BY DEF Summable
<1> QED BY <1>1, <1>2, TotalAdd

(* A new value at one place.                                               *)
LEMMA TotalUpdate ==
  ASSUME NEW f, Summable(f), NEW x \in DOMAIN f,
         NEW g, DOMAIN g = DOMAIN f, \A i \in DOMAIN f : i # x => g[i] = f[i], g[x] \in Int
  PROVE  Summable(g) /\ Total(g) = Total(f) - f[x] + g[x]
<1> DEFINE r == [i \in DOMAIN f \ {x} |-> f[i]]
<1>1. Summable(g)
  BY DEF Summable
<1>2. DOMAIN r = DOMAIN f \ {x} /\ \A i \in DOMAIN r : r[i] = f[i] /\ r[i] = g[i]
  OBVIOUS
<1> HIDE DEF r
<1>3. Summable(r) /\ Total(f) = Total(r) + f[x]
  BY <1>2, TotalRemove
<1>4. Total(g) = Total(r) + g[x]
  BY <1>1, <1>2, TotalRemove
<1>5. Total(r) \in Int /\ f[x] \in Int
  BY <1>3, TotalType DEF Summable
<1> QED BY <1>1, <1>3, <1>4, <1>5

(* A sum of naturals is one, and no less than any of them.                 *)
LEMMA TotalNat ==
  ASSUME NEW f, Summable(f), \A i \in DOMAIN f : f[i] \in Nat
  PROVE  Total(f) \in Nat /\ \A i \in DOMAIN f : f[i] <= Total(f)
<1>1. PICK h : IsSum(h, f, DOMAIN f) /\ Total(f) = h[DOMAIN f]
  BY TotalSums
<1> DEFINE G == {s \in SUBSET DOMAIN f : h[s] \in Nat}
<1>2. {} \in G
  BY <1>1 DEF IsSum
<1>3. ASSUME NEW s \in SUBSET DOMAIN f, \A x \in s : s \ {x} \in G PROVE s \in G
  <2>1. CASE s = {}
    BY <1>2, <2>1
  <2>2. CASE s # {}
    <3>1. PICK x \in s : TRUE
      BY <2>2
    <3>2. h[s \ {x}] \in Nat /\ f[x] \in Nat /\ h[s] = f[x] + h[s \ {x}]
      BY <1>1, <1>3, <3>1 DEF IsSum
    <3>3. h[s] \in Nat
      BY <3>2
    <3> QED BY <3>3
  <2> QED BY <2>1, <2>2
<1>4. G = SUBSET DOMAIN f
  <2>1. G \in SUBSET (SUBSET DOMAIN f) /\ IsFiniteSet(DOMAIN f)
    BY DEF Summable
  <2> HIDE DEF G
  <2> QED BY <1>2, <1>3, <2>1, CardinalityInduction
<1>5. ASSUME NEW x \in DOMAIN f PROVE f[x] <= h[DOMAIN f]
  <2>1. h[DOMAIN f \ {x}] \in Nat /\ f[x] \in Nat
    BY <1>4
  <2>2. h[DOMAIN f] = f[x] + h[DOMAIN f \ {x}]
    BY <1>1 DEF IsSum
  <2> QED BY <2>1, <2>2
<1> QED BY <1>1, <1>4, <1>5

LEMMA TotalZero ==
  ASSUME NEW f, Summable(f), \A i \in DOMAIN f : f[i] = 0
  PROVE  Total(f) = 0
<1>1. PICK h : IsSum(h, f, DOMAIN f) /\ Total(f) = h[DOMAIN f]
  BY TotalSums
<1> DEFINE G == {s \in SUBSET DOMAIN f : h[s] = 0}
<1>2. {} \in G
  BY <1>1 DEF IsSum
<1>3. ASSUME NEW s \in SUBSET DOMAIN f, \A x \in s : s \ {x} \in G PROVE s \in G
  <2>1. CASE s = {}
    BY <1>2, <2>1
  <2>2. CASE s # {}
    <3>1. PICK x \in s : TRUE
      BY <2>2
    <3>2. h[s \ {x}] = 0 /\ f[x] = 0 /\ h[s] = f[x] + h[s \ {x}]
      BY <1>1, <1>3, <3>1 DEF IsSum
    <3> QED BY <3>2
  <2> QED BY <2>1, <2>2
<1>4. G = SUBSET DOMAIN f
  <2>1. G \in SUBSET (SUBSET DOMAIN f) /\ IsFiniteSet(DOMAIN f)
    BY DEF Summable
  <2> HIDE DEF G
  <2> QED BY <1>2, <1>3, <2>1, CardinalityInduction
<1> QED BY <1>1, <1>4

(* Terms that are 0 can be left out.                                       *)
LEMMA TotalWithoutZeros ==
  ASSUME NEW f, Summable(f), NEW g, Summable(g), DOMAIN f \subseteq DOMAIN g,
         \A i \in DOMAIN f : f[i] = g[i], \A i \in DOMAIN g \ DOMAIN f : g[i] = 0
  PROVE  Total(f) = Total(g)
<1> DEFINE D == DOMAIN f
           C == DOMAIN g
<1>1. PICK h : IsSum(h, f, D) /\ Total(f) = h[D]
  BY TotalSums
<1>2. PICK k : IsSum(k, g, C) /\ Total(g) = k[C]
  BY TotalSums
<1>3. D \subseteq C /\ IsFiniteSet(C) /\ \A i \in D : f[i] \in Int
  BY DEF Summable
<1>4. (\A i \in D : f[i] = g[i]) /\ \A i \in C \ D : g[i] = 0
  OBVIOUS
<1> HIDE DEF D, C
<1> DEFINE G == {s \in SUBSET C : h[s \cap D] = k[s]}
<1>5. {} \in G
  <2>1. h[{} \cap D] = 0 /\ k[{}] = 0
    BY <1>1, <1>2 DEF IsSum
  <2> QED BY <2>1
<1>6. ASSUME NEW s \in SUBSET C, \A x \in s : s \ {x} \in G PROVE s \in G
  <2>1. CASE s = {}
    BY <1>5, <2>1
  <2>2. CASE s # {}
    <3>1. PICK x \in s : TRUE
      BY <2>2
    <3> DEFINE r == s \ {x}
    <3>2. h[r \cap D] = k[r] /\ k[s] = g[x] + k[r] /\ k[r] \in Int
      BY <1>2, <1>6, <3>1 DEF IsSum
    <3>3. CASE x \in D
      <4>1. (s \cap D) \ {x} = r \cap D /\ s \cap D \in SUBSET D /\ x \in s \cap D
        BY <3>1, <3>3
      <4>2. h[s \cap D] = f[x] + h[r \cap D]
        BY <1>1, <4>1 DEF IsSum
      <4> HIDE DEF r
      <4>3. h[s \cap D] = k[s]
        BY <1>4, <3>2, <3>3, <4>2
      <4> QED BY <4>3
    <3>4. CASE x \notin D
      <4>1. s \cap D = r \cap D /\ g[x] = 0
        BY <1>4, <3>1, <3>4
      <4>2. h[s \cap D] = k[r]
        BY <3>2, <4>1
      <4> HIDE DEF r
      <4>3. k[s] = k[r]
        BY <3>2, <4>1
      <4> QED BY <4>2, <4>3
    <3> QED BY <3>3, <3>4
  <2> QED BY <2>1, <2>2
<1>7. G = SUBSET C
  <2>1. G \in SUBSET (SUBSET C)
    OBVIOUS
  <2> HIDE DEF G
  <2> QED BY <1>3, <1>5, <1>6, <2>1, CardinalityInduction
<1>8. h[C \cap D] = k[C] /\ C \cap D = D
  BY <1>3, <1>7
<1> QED BY <1>1, <1>2, <1>8

(* More and larger terms have a larger sum.                                *)
LEMMA TotalAtMost ==
  ASSUME NEW f, Summable(f), NEW g, Summable(g), DOMAIN f \subseteq DOMAIN g,
         \A i \in DOMAIN f : f[i] <= g[i], \A i \in DOMAIN g : g[i] \in Nat
  PROVE  Total(f) <= Total(g)
<1> DEFINE D == DOMAIN f
           C == DOMAIN g
<1>1. PICK h : IsSum(h, f, D) /\ Total(f) = h[D]
  BY TotalSums
<1>2. PICK k : IsSum(k, g, C) /\ Total(g) = k[C]
  BY TotalSums
<1>3. D \subseteq C /\ IsFiniteSet(C) /\ \A i \in D : f[i] \in Int
  BY DEF Summable
<1>4. \A i \in D : f[i] <= g[i]
  OBVIOUS
<1>5. \A i \in C : g[i] \in Nat
  OBVIOUS
<1> HIDE DEF D, C
<1> DEFINE G == {s \in SUBSET C : h[s \cap D] <= k[s]}
<1>6. {} \in G
  <2>1. h[{} \cap D] = 0 /\ k[{}] = 0
    BY <1>1, <1>2 DEF IsSum
  <2> QED BY <2>1
<1>7. ASSUME NEW s \in SUBSET C, \A x \in s : s \ {x} \in G PROVE s \in G
  <2>1. CASE s = {}
    BY <1>6, <2>1
  <2>2. CASE s # {}
    <3>1. PICK x \in s : TRUE
      BY <2>2
    <3> DEFINE r == s \ {x}
    <3>2. /\ h[r \cap D] <= k[r] /\ k[s] = g[x] + k[r] /\ g[x] \in Nat
          /\ k[r] \in Int /\ h[r \cap D] \in Int
      BY <1>1, <1>2, <1>5, <1>7, <3>1 DEF IsSum
    <3>3. CASE x \in D
      <4>1. (s \cap D) \ {x} = r \cap D /\ s \cap D \in SUBSET D /\ x \in s \cap D
        BY <3>1, <3>3
      <4>2. h[s \cap D] = f[x] + h[r \cap D]
        BY <1>1, <4>1 DEF IsSum
      <4> HIDE DEF r
      <4>3. f[x] <= g[x] /\ f[x] \in Int
        BY <1>3, <1>4, <3>3
      <4>4. h[s \cap D] <= k[s]
        BY <3>2, <4>2, <4>3
      <4> QED BY <4>4
    <3>4. CASE x \notin D
      <4>1. s \cap D = r \cap D
        BY <3>4
      <4>2. h[s \cap D] <= k[r]
        BY <3>2, <4>1
      <4> HIDE DEF r
      <4>3. h[s \cap D] \in Int
        BY <3>2, <4>1
      <4>4. k[r] <= k[s]
        BY <3>2
      <4>5. h[s \cap D] <= k[s]
        BY <3>2, <4>2, <4>3, <4>4
      <4> QED BY <4>5
    <3> QED BY <3>3, <3>4
  <2> QED BY <2>1, <2>2
<1>8. G = SUBSET C
  <2>1. G \in SUBSET (SUBSET C)
    OBVIOUS
  <2> HIDE DEF G
  <2> QED BY <1>3, <1>6, <1>7, <2>1, CardinalityInduction
<1>9. h[C \cap D] <= k[C] /\ C \cap D = D
  BY <1>3, <1>8
<1> QED BY <1>1, <1>2, <1>9

(* The order of the terms, and what they are numbered with, does not matter. *)
LEMMA TotalBijection ==
  ASSUME NEW f, Summable(f), NEW S, NEW p \in [S -> DOMAIN f],
         \A x, y \in S : p[x] = p[y] => x = y, \A i \in DOMAIN f : \E x \in S : p[x] = i,
         NEW g, DOMAIN g = S, \A x \in S : g[x] = f[p[x]]
  PROVE  Summable(g) /\ Total(g) = Total(f)
<1> DEFINE image(s) == {p[x] : x \in s}
<1>1. Summable(g)
  <2>1. p \in Injection(S, DOMAIN f)
    BY DEF Injection, IsInjective
  <2>2. IsFiniteSet(S)
    BY <2>1, FS_Injection DEF Summable
  <2> QED BY <2>2 DEF Summable
<1>2. PICK h : IsSum(h, f, DOMAIN f) /\ Total(f) = h[DOMAIN f]
  BY TotalSums
<1>3. PICK k : IsSum(k, g, S) /\ Total(g) = k[S]
  BY <1>1, TotalSums
<1> DEFINE G == {s \in SUBSET S : k[s] = h[image(s)]}
<1>4. \A s \in SUBSET S : image(s) \in SUBSET DOMAIN f
  OBVIOUS
<1>5. {} \in G
  <2>1. image({}) = {}
    OBVIOUS
  <2> HIDE DEF image
  <2> QED BY <1>2, <1>3, <2>1 DEF IsSum
<1>6. ASSUME NEW s \in SUBSET S, \A x \in s : s \ {x} \in G PROVE s \in G
  <2>1. CASE s = {}
    BY <1>5, <2>1
  <2>2. CASE s # {}
    <3>1. PICK x \in s : TRUE
      BY <2>2
    <3>2. image(s \ {x}) = image(s) \ {p[x]} /\ p[x] \in image(s)
      BY <3>1
    <3>3. k[s \ {x}] = h[image(s \ {x})]
      BY <1>6, <3>1
    <3>4. image(s) \in SUBSET DOMAIN f /\ g[x] = f[p[x]]
      BY <1>4, <3>1
    <3> HIDE DEF image
    <3>5. k[s] = g[x] + k[s \ {x}]
      BY <1>3, <3>1 DEF IsSum
    <3>6. h[image(s)] = f[p[x]] + h[image(s) \ {p[x]}]
      BY <1>2, <3>2, <3>4 DEF IsSum
    <3>7. k[s] = h[image(s)]
      BY <3>2, <3>3, <3>4, <3>5, <3>6
    <3> QED BY <3>7
  <2> QED BY <2>1, <2>2
<1>7. G = SUBSET S
  <2>1. G \in SUBSET (SUBSET S) /\ IsFiniteSet(S)
    BY <1>1 DEF Summable
  <2> HIDE DEF G
  <2> QED BY <1>5, <1>6, <2>1, CardinalityInduction
<1>8. k[S] = h[image(S)]
  BY <1>7
<1>9. image(S) = DOMAIN f
  OBVIOUS
<1> HIDE DEF image
<1> QED BY <1>1, <1>2, <1>3, <1>8, <1>9

(* One term more at the end of a sequence.                                 *)
LEMMA TotalExtend ==
  ASSUME NEW n \in Nat, NEW f, Summable(f), DOMAIN f = 1..n,
         NEW g, DOMAIN g = 1..(n + 1), \A i \in 1..n : g[i] = f[i], g[n + 1] \in Int
  PROVE  Summable(g) /\ Total(g) = Total(f) + g[n + 1]
<1>1. 1..(n + 1) = (1..n) \cup {n + 1} /\ n + 1 \notin 1..n
  OBVIOUS
<1> QED BY <1>1, TotalAdd

(* The sum over two sequences, one after the other.                        *)
Joined(h, f, m, g, n) ==
  /\ DOMAIN f = 1..m /\ DOMAIN g = 1..n /\ DOMAIN h = 1..(m + n)
  /\ \A i \in 1..(m + n) : h[i] \in Int
  /\ \A i \in 1..m : h[i] = f[i]
  /\ \A i \in 1..n : h[m + i] = g[i]

LEMMA TotalConcat ==
  ASSUME NEW m \in Nat, NEW n \in Nat, NEW f, NEW g, NEW h, Joined(h, f, m, g, n)
  PROVE  Total(h) = Total(f) + Total(g)
<1>0. /\ DOMAIN f = 1..m /\ DOMAIN g = 1..n /\ DOMAIN h = 1..(m + n)
      /\ \A i \in 1..(m + n) : h[i] \in Int
      /\ \A i \in 1..m : h[i] = f[i]
      /\ \A i \in 1..n : h[m + i] = g[i]
  BY DEF Joined
<1> DEFINE upto(k) == [i \in 1..(m + k) |-> h[i]]
           part(k) == [i \in 1..k |-> g[i]]
           N == {k \in Nat : k <= n => Total(upto(k)) = Total(f) + Total(part(k))}
<1>1. \A i \in 1..n : m + i \in 1..(m + n) /\ g[i] \in Int
  BY <1>0
<1>2. \A i \in 1..m : i \in 1..(m + n) /\ f[i] \in Int
  BY <1>0
<1>3. ASSUME NEW k \in Nat, k <= n PROVE Summable(upto(k)) /\ Summable(part(k))
  <2>1. IsFiniteSet(1..(m + k)) /\ IsFiniteSet(1..k)
    <3>1. 1 \in Int /\ k \in Int /\ m + k \in Int
      OBVIOUS
    <3> QED BY <3>1, FS_Interval
  <2>2. \A i \in 1..(m + k) : i \in 1..(m + n)
    BY <1>3
  <2>3. \A i \in 1..k : i \in 1..n
    BY <1>3
  <2>4. Summable(upto(k))
    BY <1>0, <2>1, <2>2 DEF Summable
  <2>5. Summable(part(k))
    BY <1>1, <2>1, <2>3 DEF Summable
  <2> QED BY <2>4, <2>5
<1>4. Summable(f) /\ Summable(g) /\ Summable(h)
  <2>1. IsFiniteSet(1..m) /\ IsFiniteSet(1..n) /\ IsFiniteSet(1..(m + n))
    BY FS_Interval
  <2> QED BY <1>0, <1>1, <1>2, <2>1 DEF Summable
<1>5. 0 \in N
  <2>1. DOMAIN upto(0) = DOMAIN f /\ \A i \in DOMAIN f : upto(0)[i] = f[i]
    BY <1>0
  <2>2. DOMAIN part(0) = {}
    OBVIOUS
  <2>3. 0 \in Nat /\ 0 <= n
    OBVIOUS
  <2>4. Summable(part(0))
    BY <1>3, <2>3
  <2> HIDE DEF upto, part
  <2>5. Total(upto(0)) = Total(f) /\ Total(part(0)) = 0 /\ Total(f) \in Int
    BY <1>4, <2>1, <2>2, <2>4, TotalAgree, TotalType
  <2> QED BY <2>5
<1>6. ASSUME NEW k \in N PROVE k + 1 \in N
  <2>1. SUFFICES ASSUME k + 1 <= n PROVE Total(upto(k + 1)) = Total(f) + Total(part(k + 1))
    OBVIOUS
  <2>2. k \in Nat /\ k <= n /\ k + 1 \in 1..n /\ m + (k + 1) \in 1..(m + n)
    BY <2>1
  <2>3. Total(upto(k)) = Total(f) + Total(part(k))
    BY <2>2
  <2>4. Summable(upto(k)) /\ Summable(part(k))
    BY <1>3, <2>2
  <2>5. (m + k) + 1 = m + (k + 1) /\ m + k \in Nat /\ k + 1 \in Nat
    BY <2>2
  <2>6. /\ DOMAIN upto(k) = 1..(m + k) /\ DOMAIN upto(k + 1) = 1..((m + k) + 1)
        /\ \A i \in 1..(m + k) : upto(k + 1)[i] = upto(k)[i]
        /\ upto(k + 1)[(m + k) + 1] = h[m + (k + 1)]
    <3>1. \A i \in 1..(m + k) : i \in 1..(m + (k + 1))
      BY <2>2
    <3>2. m + (k + 1) \in 1..(m + (k + 1))
      BY <2>2
    <3> QED BY <2>5, <3>1, <3>2
  <2>7. /\ DOMAIN part(k) = 1..k /\ DOMAIN part(k + 1) = 1..(k + 1)
        /\ \A i \in 1..k : part(k + 1)[i] = part(k)[i]
        /\ part(k + 1)[k + 1] = g[k + 1]
    BY <2>2
  <2>8. h[m + (k + 1)] = g[k + 1] /\ g[k + 1] \in Int
    BY <1>0, <1>1, <2>2
  <2> DEFINE j == m + k
             u == upto(k)
             u2 == upto(k + 1)
             v == part(k)
             v2 == part(k + 1)
  <2>9. /\ j \in Nat /\ Summable(u) /\ DOMAIN u = 1..j /\ DOMAIN u2 = 1..(j + 1)
        /\ \A i \in 1..j : u2[i] = u[i]
    BY <2>4, <2>5, <2>6
  <2>10. u2[j + 1] = g[k + 1] /\ u2[j + 1] \in Int
    BY <2>6, <2>8
  <2>11. /\ Summable(v) /\ DOMAIN v = 1..k /\ DOMAIN v2 = 1..(k + 1)
         /\ \A i \in 1..k : v2[i] = v[i]
    BY <2>4, <2>7
  <2>12. v2[k + 1] = g[k + 1] /\ v2[k + 1] \in Int
    BY <2>7, <2>8
  <2>13. Total(u) = Total(f) + Total(v)
    BY <2>3
  <2> HIDE DEF upto, part, j, u, u2, v, v2
  <2>14. Total(u2) = Total(u) + u2[j + 1]
    BY <2>9, <2>10, TotalExtend
  <2>15. Total(v2) = Total(v) + v2[k + 1]
    BY <2>2, <2>11, <2>12, TotalExtend
  <2>16. Total(u) \in Int /\ Total(v) \in Int /\ Total(f) \in Int
    BY <1>4, <2>9, <2>11, TotalType
  <2>17. Total(u2) = Total(f) + Total(v2)
    BY <2>8, <2>10, <2>12, <2>13, <2>14, <2>15, <2>16
  <2> QED BY <2>17 DEF u2, v2
<1>7. N = Nat
  <2>1. N \in SUBSET Nat
    OBVIOUS
  <2> HIDE DEF N
  <2> QED BY <1>5, <1>6, <2>1, SetInduction
<1>8. Total(upto(n)) = Total(f) + Total(part(n))
  <2>1. n \in N
    BY <1>7
  <2> QED BY <2>1
<1>9. /\ DOMAIN upto(n) = DOMAIN h /\ \A i \in DOMAIN h : upto(n)[i] = h[i]
      /\ DOMAIN part(n) = DOMAIN g /\ \A i \in DOMAIN g : part(n)[i] = g[i]
  BY <1>0
<1> HIDE DEF upto, part
<1> QED BY <1>4, <1>8, <1>9, TotalAgree

(* What the elements of a sequence are worth together.                     *)
Worth(v, s) == Total([i \in DOMAIN s |-> v[s[i]]])

LEMMA WorthFacts ==
  ASSUME NEW F, NEW v \in [F -> Int], NEW s \in Seq(F)
  PROVE  /\ Worth(v, s) \in Int
         /\ (\A i \in 1..Len(s) : v[s[i]] \in Nat) => Worth(v, s) \in Nat
         /\ (\A i \in 1..Len(s) : v[s[i]] = 0) => Worth(v, s) = 0
         /\ \A x \in F : Worth(v, Append(s, x)) = Worth(v, s) + v[x]
         /\ \A t \in Seq(F) : Worth(v, s \o t) = Worth(v, s) + Worth(v, t)
<1> DEFINE part(u) == [i \in DOMAIN u |-> v[u[i]]]
<1>1. ASSUME NEW u \in Seq(F)
      PROVE  /\ DOMAIN part(u) = 1..Len(u) /\ Len(u) \in Nat /\ Summable(part(u))
             /\ \A i \in 1..Len(u) : part(u)[i] = v[u[i]] /\ part(u)[i] \in Int
             /\ Worth(v, u) = Total(part(u))
  <2>1. DOMAIN u = 1..Len(u) /\ Len(u) \in Nat /\ \A i \in 1..Len(u) : u[i] \in F
    OBVIOUS
  <2>2. \A i \in 1..Len(u) : v[u[i]] \in Int
    BY <2>1
  <2>3. IsFiniteSet(1..Len(u))
    BY <2>1, FS_Interval
  <2> QED BY <2>1, <2>2, <2>3 DEF Summable, Worth
<1> HIDE DEF part
<1>2. /\ Worth(v, s) \in Int
      /\ (\A i \in 1..Len(s) : v[s[i]] \in Nat) => Worth(v, s) \in Nat
      /\ (\A i \in 1..Len(s) : v[s[i]] = 0) => Worth(v, s) = 0
  <2> DEFINE p == part(s)
  <2>1. /\ DOMAIN p = 1..Len(s) /\ Summable(p) /\ Worth(v, s) = Total(p)
        /\ \A i \in 1..Len(s) : p[i] = v[s[i]]
    BY <1>1
  <2> HIDE DEF p
  <2>2. Worth(v, s) \in Int
    BY <2>1, TotalType
  <2>3. (\A i \in 1..Len(s) : v[s[i]] \in Nat) => Worth(v, s) \in Nat
    BY <2>1, TotalNat, ZenonT(30)
  <2>4. (\A i \in 1..Len(s) : v[s[i]] = 0) => Worth(v, s) = 0
    BY <2>1, TotalZero
  <2> QED BY <2>2, <2>3, <2>4
<1>3. ASSUME NEW x \in F
      PROVE  Worth(v, Append(s, x)) = Worth(v, s) + v[x]
  <2> DEFINE w == Append(s, x)
             n == Len(s)
  <2>1. /\ w \in Seq(F) /\ Len(w) = n + 1 /\ n \in Nat
        /\ \A i \in 1..n : w[i] = s[i] /\ i \in 1..(n + 1)
        /\ w[n + 1] = x /\ n + 1 \in 1..(n + 1)
    OBVIOUS
  <2> HIDE DEF w
  <2>2. /\ DOMAIN part(s) = 1..n /\ DOMAIN part(w) = 1..(n + 1) /\ Summable(part(s))
        /\ Worth(v, s) = Total(part(s)) /\ Worth(v, w) = Total(part(w))
    BY <1>1, <2>1
  <2>3. \A i \in 1..n : part(w)[i] = part(s)[i]
    BY <1>1, <2>1, SMTT(30)
  <2>4. part(w)[n + 1] = v[x] /\ part(w)[n + 1] \in Int
    BY <1>1, <2>1
  <2> HIDE DEF n
  <2>5. Total(part(w)) = Total(part(s)) + part(w)[n + 1]
    BY <2>1, <2>2, <2>3, <2>4, TotalExtend
  <2> QED BY <2>2, <2>4, <2>5 DEF w
<1>4. ASSUME NEW t \in Seq(F)
      PROVE  Worth(v, s \o t) = Worth(v, s) + Worth(v, t)
  <2> DEFINE w == s \o t
             m == Len(s)
             n == Len(t)
  <2>1. /\ w \in Seq(F) /\ Len(w) = m + n /\ m \in Nat /\ n \in Nat
        /\ \A i \in 1..m : w[i] = s[i] /\ i \in 1..(m + n)
        /\ \A i \in 1..n : w[m + i] = t[i] /\ m + i \in 1..(m + n)
    OBVIOUS
  <2> HIDE DEF w
  <2>2. /\ DOMAIN part(s) = 1..m /\ DOMAIN part(t) = 1..n /\ DOMAIN part(w) = 1..(m + n)
        /\ \A i \in 1..(m + n) : part(w)[i] \in Int
        /\ Worth(v, s) = Total(part(s)) /\ Worth(v, t) = Total(part(t))
        /\ Worth(v, w) = Total(part(w))
    BY <1>1, <2>1
  <2>3. \A i \in 1..m : part(w)[i] = part(s)[i]
    BY <1>1, <2>1
  <2>4. ASSUME NEW i \in 1..n
        PROVE  part(w)[m + i] = part(t)[i]
    <3> DEFINE j == m + i
    <3>1. j \in 1..Len(w) /\ w[j] = t[i]
      BY <2>1
    <3>2. part(t)[i] = v[t[i]]
      BY <1>1
    <3> HIDE DEF j
    <3>3. part(w)[j] = v[w[j]]
      BY <1>1, <2>1, <3>1
    <3>4. part(w)[j] = part(t)[i]
      BY <3>1, <3>2, <3>3
    <3> QED BY <3>4 DEF j
  <2> DEFINE f == part(s)
             g == part(t)
             h == part(w)
  <2>5. Joined(h, f, m, g, n)
    BY <2>2, <2>3, <2>4 DEF Joined
  <2>6. m \in Nat /\ n \in Nat
    BY <2>1
  <2> HIDE DEF m, n, f, g, h
  <2>7. Total(h) = Total(f) + Total(g)
    BY <2>5, <2>6, TotalConcat
  <2> QED BY <2>2, <2>7 DEF w, f, g, h
<1> QED BY <1>2, <1>3, <1>4

(* The front of a sequence, and another element in its place.              *)
LEMMA HeadTailFacts ==
  ASSUME NEW F, NEW s \in Seq(F), s # <<>>
  PROVE  /\ Head(s) \in F /\ Tail(s) \in Seq(F) /\ Len(Tail(s)) = Len(s) - 1
         /\ Len(s) \in Nat \ {0} /\ s[1] = Head(s)
         /\ \A i \in 1..Len(Tail(s)) : Tail(s)[i] = s[i + 1]
         /\ \A x \in F : /\ <<x>> \o Tail(s) \in Seq(F)
                         /\ [s EXCEPT ![1] = x] = <<x>> \o Tail(s)
         /\ s = <<Head(s)>> \o Tail(s)
<1>1. /\ Head(s) \in F /\ Tail(s) \in Seq(F) /\ Len(Tail(s)) = Len(s) - 1
      /\ Len(s) \in Nat \ {0} /\ s[1] = Head(s)
      /\ \A i \in 1..Len(Tail(s)) : Tail(s)[i] = s[i + 1]
  OBVIOUS
<1>2. ASSUME NEW x \in F
      PROVE  /\ <<x>> \o Tail(s) \in Seq(F)
             /\ [s EXCEPT ![1] = x] = <<x>> \o Tail(s)
  <2> DEFINE t == Tail(s)
             o == <<x>>
             u == o \o t
             w == [s EXCEPT ![1] = x]
  <2>0. o \in Seq(F) /\ Len(o) = 1 /\ o[1] = x
    OBVIOUS
  <2>1. t \in Seq(F) /\ Len(t) = Len(s) - 1 /\ \A i \in 1..Len(t) : t[i] = s[i + 1]
    BY <1>1
  <2> HIDE DEF t, o
  <2>10. /\ u \in Seq(F) /\ Len(u) = Len(o) + Len(t)
         /\ \A i \in 1..(Len(o) + Len(t)) : u[i] = IF i <= Len(o) THEN o[i] ELSE t[i - Len(o)]
    <3>1. o \in Seq(F) /\ t \in Seq(F)
      BY <2>0, <2>1
    <3> QED BY ONLY <3>1, ConcatProperties
  <2> HIDE DEF u
  <2>2. u \in Seq(F) /\ Len(u) = Len(s)
    BY <1>1, <2>0, <2>1, <2>10
  <2>6. \A i \in 2..Len(s) : u[i] = t[i - 1]
    BY <1>1, <2>0, <2>1, <2>10
  <2>7. u[1] = x
    BY <1>1, <2>0, <2>1, <2>10
  <2>3. DOMAIN w = DOMAIN s /\ w \in [DOMAIN s -> F] /\ DOMAIN s = 1..Len(s)
    BY <1>1
  <2>8. w \in [1..Len(s) -> F]
    BY <2>3
  <2>4. \A i \in 1..Len(s) : w[i] = u[i]
    <3>1. ASSUME NEW i \in 1..Len(s), i # 1 PROVE w[i] = u[i]
      <4>0. Len(s) \in Nat /\ i \in Int /\ i > 1 /\ i <= Len(s)
        BY <1>1, <3>1
      <4>1. i - 1 \in 1..Len(t) /\ (i - 1) + 1 = i /\ i \in 2..Len(s)
        BY <2>1, <4>0
      <4>2. u[i] = t[i - 1]
        BY <2>6, <4>1
      <4>3. t[i - 1] = s[i]
        BY <2>1, <4>1
      <4>4. w[i] = s[i]
        BY <2>3, <3>1
      <4> QED BY <4>2, <4>3, <4>4
    <3>2. w[1] = x /\ u[1] = x
      BY <1>1, <2>7
    <3> QED BY <3>1, <3>2
  <2> HIDE DEF u, w
  <2>9. u \in [1..Len(s) -> F]
    BY <2>2
  <2>5. w = u
    BY <2>4, <2>8, <2>9
  <2> QED BY <2>2, <2>5 DEF u, w, t, o
<1>3. s = <<Head(s)>> \o Tail(s)
  <2>1. [s EXCEPT ![1] = Head(s)] = s
    BY <1>1
  <2> QED BY <1>1, <1>2, <2>1
<1> QED BY <1>1, <1>2, <1>3

(* What a sequence is worth changes at its front by the front's value.     *)
LEMMA WorthFront ==
  ASSUME NEW F, NEW v \in [F -> Int], NEW s \in Seq(F), s # <<>>
  PROVE  /\ Worth(v, s) = v[Head(s)] + Worth(v, Tail(s)) /\ Worth(v, Tail(s)) \in Int
         /\ \A x \in F : Worth(v, [s EXCEPT ![1] = x]) = v[x] + Worth(v, Tail(s))
<1> DEFINE e == <<>>
           t == Tail(s)
<1>1. e \in Seq(F) /\ Len(e) = 0 /\ \A x \in F : Append(e, x) = <<x>> /\ <<x>> \in Seq(F)
  OBVIOUS
<1>2. t \in Seq(F) /\ Head(s) \in F /\ s = <<Head(s)>> \o t
      /\ \A x \in F : [s EXCEPT ![1] = x] = <<x>> \o t
  BY HeadTailFacts
<1> HIDE DEF e, t
<1>6. \A u \in Seq(F) :
         /\ Worth(v, u) \in Int
         /\ (\A i \in 1..Len(u) : v[u[i]] = 0) => Worth(v, u) = 0
         /\ \A x \in F : Worth(v, Append(u, x)) = Worth(v, u) + v[x]
         /\ \A w \in Seq(F) : Worth(v, u \o w) = Worth(v, u) + Worth(v, w)
  BY WorthFacts
<1>3. Worth(v, e) = 0
  <2>1. \A i \in 1..Len(e) : v[e[i]] = 0
    BY <1>1
  <2> QED BY <1>1, <1>6, <2>1
<1>4. ASSUME NEW x \in F PROVE Worth(v, <<x>> \o t) = v[x] + Worth(v, t)
  <2>1. Worth(v, <<x>>) = v[x]
    <3>1. Worth(v, Append(e, x)) = Worth(v, e) + v[x] /\ v[x] \in Int
      BY <1>1, <1>6
    <3> QED BY <1>1, <1>3, <3>1
  <2>2. <<x>> \in Seq(F)
    BY <1>1
  <2>3. Worth(v, <<x>> \o t) = Worth(v, <<x>>) + Worth(v, t)
    BY <1>2, <1>6, <2>2
  <2> QED BY <2>1, <2>3
<1>5. Worth(v, t) \in Int
  BY <1>2, <1>6
<1> QED BY <1>2, <1>4, <1>5 DEF t

(* A sum that is no smaller than one over more and larger values has the   *)
(* same values, and the others are 0.                                      *)
LEMMA TotalSqueezed ==
  ASSUME NEW f, Summable(f), NEW g, Summable(g), DOMAIN f \subseteq DOMAIN g,
         \A i \in DOMAIN f : f[i] <= g[i], \A i \in DOMAIN g : g[i] \in Nat,
         Total(g) <= Total(f)
  PROVE  /\ \A i \in DOMAIN f : f[i] = g[i]
         /\ \A i \in DOMAIN g \ DOMAIN f : g[i] = 0
<1>1. Total(f) \in Int /\ Total(g) \in Int /\ \A i \in DOMAIN f : f[i] \in Int
  BY TotalType DEF Summable
<1>2. ASSUME NEW x \in DOMAIN f PROVE f[x] = g[x]
  <2> DEFINE r == [i \in DOMAIN f \ {x} |-> f[i]]
             s == [i \in DOMAIN g \ {x} |-> g[i]]
  <2>1. /\ DOMAIN r = DOMAIN f \ {x} /\ \A i \in DOMAIN r : r[i] = f[i]
        /\ DOMAIN s = DOMAIN g \ {x} /\ \A i \in DOMAIN s : s[i] = g[i]
    OBVIOUS
  <2> HIDE DEF r, s
  <2>2. Summable(r) /\ Total(f) = Total(r) + f[x]
    BY <2>1, TotalRemove
  <2>3. Summable(s) /\ Total(g) = Total(s) + g[x]
    BY <2>1, TotalRemove
  <2>4. \A i \in DOMAIN r : r[i] <= s[i]
    BY <2>1
  <2>5. \A i \in DOMAIN s : s[i] \in Nat
    BY <2>1
  <2>6. DOMAIN r \subseteq DOMAIN s
    BY <2>1
  <2>7. Total(r) <= Total(s)
    BY <2>2, <2>3, <2>4, <2>5, <2>6, TotalAtMost
  <2>8. Total(r) \in Int /\ Total(s) \in Int /\ f[x] \in Int /\ g[x] \in Nat /\ f[x] <= g[x]
    BY <1>1, <2>2, <2>3, TotalType
  <2> QED BY ONLY <1>1, <2>2, <2>3, <2>7, <2>8, Total(g) <= Total(f)
<1>3. ASSUME NEW x \in DOMAIN g \ DOMAIN f PROVE g[x] = 0
  <2> DEFINE s == [i \in DOMAIN g \ {x} |-> g[i]]
  <2>1. DOMAIN s = DOMAIN g \ {x} /\ \A i \in DOMAIN s : s[i] = g[i]
    OBVIOUS
  <2> HIDE DEF s
  <2>2. Summable(s) /\ Total(g) = Total(s) + g[x]
    BY <2>1, TotalRemove
  <2>3. DOMAIN f \subseteq DOMAIN s
    BY <2>1
  <2>4. \A i \in DOMAIN f : f[i] <= s[i]
    BY <2>1, <2>3
  <2>5. \A i \in DOMAIN s : s[i] \in Nat
    BY <2>1
  <2>6. Total(f) <= Total(s)
    BY <2>2, <2>3, <2>4, <2>5, TotalAtMost
  <2>7. Total(s) \in Int /\ g[x] \in Nat
    BY <2>2, TotalType
  <2> QED BY <1>1, <2>2, <2>6, <2>7
<1> QED BY <1>2, <1>3

\* p takes the places of n to the same ones of m.
Identity(p, n, m) == n = m /\ \A i \in 1..n : p[i] = i

(* Places that go up and leave none out are the places themselves.         *)
LEMMA IncreasingOnto ==
  ASSUME NEW n \in Nat, NEW m \in Nat, NEW p \in [1..n -> 1..m],
         \A i, k \in 1..n : i < k => p[i] < p[k],
         \A j \in 1..m : \E i \in 1..n : p[i] = j
  PROVE  Identity(p, n, m)
<1> DEFINE S == {k \in Nat : \A i \in 1..n : i <= k => p[i] = i}
<1>1. 0 \in S
  OBVIOUS
<1>2. ASSUME NEW k \in S PROVE k + 1 \in S
  <2>1. k \in Nat /\ k + 1 \in Nat /\ \A i \in 1..n : i <= k => p[i] = i
    OBVIOUS
  <2> HIDE DEF S
  <2>2. ASSUME k + 1 \in 1..n PROVE p[k + 1] = k + 1
    <3>1. p[k + 1] \in 1..m
      BY <2>2
    <3>2. p[k + 1] > k
      <4>1. CASE k = 0
        BY <3>1, <4>1
      <4>2. CASE k # 0
        <5>1. k \in 1..n /\ k <= k /\ k < k + 1
          BY <2>1, <2>2, <4>2
        <5>2. p[k] = k /\ p[k] < p[k + 1]
          BY <2>1, <2>2, <5>1
        <5> QED BY <5>2, <3>1, <2>1
      <4> QED BY <4>1, <4>2
    <3>3. k + 1 \in 1..m
      BY <2>1, <3>1, <3>2
    <3>4. PICK i \in 1..n : p[i] = k + 1
      BY <3>3
    <3>5. ~(i <= k)
      BY <2>1, <3>4
    <3>6. ~(k + 1 < i)
      <4>1. ASSUME k + 1 < i PROVE FALSE
        <5>1. p[k + 1] < p[i]
          BY <2>2, <4>1
        <5> QED BY <2>1, <3>1, <3>2, <3>4, <5>1
      <4> QED BY <4>1
    <3>7. i = k + 1
      BY <2>1, <3>5, <3>6
    <3> QED BY <3>4, <3>7
  <2>3. ASSUME NEW i \in 1..n, i <= k + 1 PROVE p[i] = i
    <3>1. CASE i <= k
      BY <2>1, <3>1
    <3>2. CASE ~(i <= k)
      <4>1. i = k + 1
        BY <2>1, <2>3, <3>2
      <4> QED BY <2>2, <4>1
    <3> QED BY <3>1, <3>2
  <2> QED BY <2>1, <2>3 DEF S
<1>3. S = Nat
  <2>1. S \in SUBSET Nat
    OBVIOUS
  <2> HIDE DEF S
  <2> QED BY <1>1, <1>2, <2>1, SetInduction
<1>4. \A i \in 1..n : p[i] = i
  <2>1. n \in S
    BY <1>3
  <2> QED BY <2>1
<1> HIDE DEF S
<1>5. \A j \in 1..m : j \in 1..n
  BY <1>4
<1>6. \A i \in 1..n : i \in 1..m
  BY <1>4
<1>7. m <= n
  <2>1. CASE m = 0
    BY <2>1
  <2>2. CASE m # 0
    <3>1. m \in 1..m
      BY <2>2
    <3>2. m \in 1..n
      BY <1>5, <3>1
    <3> QED BY <3>2
  <2> QED BY <2>1, <2>2
<1>8. n <= m
  <2>1. CASE n = 0
    BY <2>1
  <2>2. CASE n # 0
    <3>1. n \in 1..n
      BY <2>2
    <3>2. n \in 1..m
      BY <1>6, <3>1
    <3> QED BY <3>2
  <2> QED BY <2>1, <2>2
<1> QED BY <1>4, <1>7, <1>8 DEF Identity

==============================================================================
