-------------------------- MODULE ReconstructionProofs --------------------------
(***************************************************************************)
(* The Binance reconstruction, for every price set, snapshot, sequence of  *)
(* updates and trades, and strategy.                                       *)
(*                                                                         *)
(* ReconOK is what every reconstructor keeps from one line of the code to  *)
(* the next: the virtual queue of a level holds what the level's quantity  *)
(* says, and the best prices are current.  The flow identity follows from  *)
(* two sums: what the levels still lack to their targets, and what they    *)
(* have in excess, counted as if the trades that are still to come had     *)
(* been taken already.  No step of the trade loop changes the additions so *)
(* far plus the lack, or the excess, whatever the policy; the endpoint     *)
(* settles both.                                                           *)
(***************************************************************************)
EXTENDS Reconstruction, EngineOpsProofs

(***************************************************************************)
(* Levels and trades in order.                                             *)
(***************************************************************************)

StrictOrder(R, S) ==
  /\ \A x \in S : <<x, x>> \notin R
  /\ \A x, y, z \in S : <<x, y>> \in R /\ <<y, z>> \in R => <<x, z>> \in R
  /\ \A x, y \in S : x # y => <<x, y>> \in R \/ <<y, x>> \in R

(* s has every element of S once.                                          *)
Enumerates(s, S) ==
  /\ Cardinality(S) \in Nat /\ s \in [1..Cardinality(S) -> S]
  /\ \A x \in S : \E k \in 1..Cardinality(S) : s[k] = x
  /\ \A k, l \in 1..Cardinality(S) : s[k] = s[l] => k = l

LEMMA RankEnumerates ==
  ASSUME NEW S, IsFiniteSet(S), NEW R, StrictOrder(R, S),
         NEW s, DOMAIN s = 1..Cardinality(S), s = [k \in DOMAIN s |-> s[k]],
         \A k \in 1..Cardinality(S) :
            (\E x \in S : Cardinality({y \in S : <<y, x>> \in R}) = k - 1)
               => s[k] \in S /\ Cardinality({y \in S : <<y, s[k]>> \in R}) = k - 1
  PROVE  /\ Enumerates(s, S)
         /\ \A k, l \in 1..Cardinality(S) : k < l => <<s[k], s[l]>> \in R
<1> DEFINE n == Cardinality(S)
           before(x) == {y \in S : <<y, x>> \in R}
           rank == [x \in S |-> Cardinality(before(x)) + 1]
<1>1. n \in Nat /\ IsFiniteSet(1..n) /\ Cardinality(1..n) = n
  <2>1. n \in Nat
    BY FS_CardinalityType
  <2> HIDE DEF n
  <2>2. IsFiniteSet(1..n) /\ Cardinality(1..n) = IF 1 > n THEN 0 ELSE n - 1 + 1
    BY <2>1, FS_Interval
  <2> QED BY <2>1, <2>2
<1>2. \A x \in S : rank[x] = Cardinality(before(x)) + 1 /\ before(x) \in SUBSET S
  OBVIOUS
<1>3. \A k \in 1..n : (\E x \in S : Cardinality(before(x)) = k - 1)
                           => s[k] \in S /\ Cardinality(before(s[k])) = k - 1
  OBVIOUS
<1>4. DOMAIN s = 1..n /\ s = [k \in DOMAIN s |-> s[k]]
  OBVIOUS
<1> HIDE DEF n, rank
<1>5. ASSUME NEW x \in S
      PROVE  /\ IsFiniteSet(before(x)) /\ Cardinality(before(x)) \in Nat
             /\ rank[x] \in 1..n /\ rank[x] \in Nat
  <2>1. /\ IsFiniteSet(before(x)) /\ Cardinality(before(x)) <= n
        /\ Cardinality(before(x)) = n => before(x) = S
    BY <1>2, FS_Subset DEF n
  <2>2. Cardinality(before(x)) \in Nat /\ x \notin before(x)
    BY <2>1, FS_CardinalityType DEF StrictOrder
  <2>3. Cardinality(before(x)) # n
    BY <2>1, <2>2
  <2>4. rank[x] = Cardinality(before(x)) + 1
    BY <1>2
  <2> HIDE DEF before
  <2> QED BY <1>1, <2>1, <2>2, <2>3, <2>4
<1>6. ASSUME NEW x \in S, NEW z \in S, <<x, z>> \in R
      PROVE  rank[x] < rank[z]
  <2>1. before(x) \in SUBSET before(z) /\ x \in before(z) /\ x \notin before(x)
    BY <1>6 DEF StrictOrder
  <2>2. /\ IsFiniteSet(before(z)) /\ Cardinality(before(x)) \in Nat /\ Cardinality(before(z)) \in Nat
        /\ rank[x] = Cardinality(before(x)) + 1 /\ rank[z] = Cardinality(before(z)) + 1
    BY <1>2, <1>5
  <2>3. Cardinality(before(x)) <= Cardinality(before(z)) /\ Cardinality(before(x)) # Cardinality(before(z))
    <3> HIDE DEF before
    <3> QED BY <2>1, <2>2, FS_Subset
  <2> HIDE DEF before
  <2> QED BY <2>2, <2>3
<1>7. \A x, z \in S : rank[x] = rank[z] => x = z
  <2>1. \A x \in S : rank[x] \in Nat
    BY <1>5
  <2>2. ASSUME NEW x \in S, NEW z \in S, rank[x] = rank[z], x # z PROVE FALSE
    <3>1. <<x, z>> \in R \/ <<z, x>> \in R
      BY <2>2 DEF StrictOrder
    <3>2. rank[x] \in Nat /\ rank[z] \in Nat
      BY <2>1
    <3>3. rank[x] < rank[z] \/ rank[z] < rank[x]
      BY <1>6, <3>1
    <3> QED BY <2>2, <3>2, <3>3
  <2> QED BY <2>2
<1>8. rank \in Surjection(S, 1..n)
  <2>1. rank \in Injection(S, 1..n)
    <3>1. rank \in [S -> 1..n]
      BY <1>5 DEF rank
    <3> QED BY <1>7, <3>1 DEF Injection, IsInjective
  <2> QED BY <1>1, <2>1, FS_Injection DEF n
<1>9. \A k \in 1..n : s[k] \in S /\ rank[s[k]] = k
  <2>1. ASSUME NEW k \in 1..n PROVE s[k] \in S /\ rank[s[k]] = k
    <3>1. PICK x \in S : rank[x] = k
      BY <1>8 DEF Surjection
    <3>5. /\ k \in Nat
          /\ rank[x] = Cardinality(before(x)) + 1 /\ Cardinality(before(x)) \in Nat
      <4>1. k \in Nat
        BY <1>1
      <4> QED BY <1>2, <1>5, <4>1
    <3> HIDE DEF before
    <3>2. Cardinality(before(x)) = k - 1
      BY <3>1, <3>5
    <3>3. s[k] \in S /\ Cardinality(before(s[k])) = k - 1
      BY <1>3, <3>2
    <3>4. rank[s[k]] = (k - 1) + 1
      BY <1>2, <3>3
    <3> QED BY <3>3, <3>4, <3>5
  <2> QED BY <2>1
<1>10. ASSUME NEW x \in S PROVE \E k \in 1..n : s[k] = x
  <2>1. rank[x] \in 1..n
    BY <1>5
  <2>2. s[rank[x]] \in S /\ rank[s[rank[x]]] = rank[x]
    BY <1>9, <2>1
  <2>3. s[rank[x]] = x
    BY <1>7, <2>2
  <2> QED BY <2>1, <2>3
<1>11. ASSUME NEW k \in 1..n, NEW l \in 1..n, k < l
       PROVE  <<s[k], s[l]>> \in R
  <2>1. s[k] \in S /\ s[l] \in S /\ rank[s[k]] = k /\ rank[s[l]] = l /\ k \in Nat /\ l \in Nat
    BY <1>1, <1>9
  <2>2. s[k] # s[l]
    BY <1>11, <2>1
  <2>3. ~(<<s[l], s[k]>> \in R)
    <3>1. <<s[l], s[k]>> \in R => rank[s[l]] < rank[s[k]]
      BY <1>6, <2>1
    <3> QED BY <1>11, <2>1, <3>1
  <2> QED BY <2>1, <2>2, <2>3 DEF StrictOrder
<1>12. s \in [1..n -> S]
  BY <1>4, <1>9
<1>13. \A k, l \in 1..n : s[k] = s[l] => k = l
  BY <1>9
<1> QED BY <1>1, <1>10, <1>11, <1>12, <1>13 DEF n, Enumerates

LEMMA LevelsFinite ==
  /\ IsFiniteSet(Levels)
  /\ \A S \in SUBSET Levels : IsFiniteSet(S)
  /\ \A L \in Levels : L[1] \in BookSides /\ L[2] \in Prices /\ L = <<L[1], L[2]>>
  /\ Prices \subseteq Nat \ {0}
<1>1. IsFiniteSet({"bid"}) /\ IsFiniteSet({"ask"})
  BY FS_Singleton
<1>2. IsFiniteSet({"bid"} \cup {"ask"})
  BY <1>1, FS_Union
<1>3. BookSides = {"bid"} \cup {"ask"}
  BY DEF BookSides
<1>4. IsFiniteSet(BookSides \X Prices)
  BY <1>2, <1>3, PricesAssumption, FS_Product
<1>5. \A S \in SUBSET Levels : IsFiniteSet(S)
  BY <1>4, FS_Subset DEF Levels
<1> QED BY <1>4, <1>5, PricesAssumption DEF Levels

LEMMA SortedLevelsFacts ==
  ASSUME NEW S \in SUBSET Levels
  PROVE  Enumerates(SortedLevels(S), S) /\ SortedLevels(S) \in Seq(S)
         /\ Len(SortedLevels(S)) = Cardinality(S)
<1> DEFINE R == {p \in S \X S : LevelBefore(p[1], p[2])}
           s == SortedLevels(S)
<1>1. \A K, L \in S : <<K, L>> \in R <=> LevelBefore(K, L)
  OBVIOUS
<1>2. /\ IsFiniteSet(S)
      /\ \A L \in S : /\ L[1] \in {"bid", "ask"} /\ L[2] \in Nat
                      /\ L = <<L[1], L[2]>>
  BY LevelsFinite DEF BookSides
<1>3. /\ DOMAIN s = 1..Cardinality(S) /\ s = [k \in DOMAIN s |-> s[k]]
      /\ \A k \in 1..Cardinality(S) :
            (\E x \in S : Cardinality({y \in S : <<y, x>> \in R}) = k - 1)
               => s[k] \in S /\ Cardinality({y \in S : <<y, s[k]>> \in R}) = k - 1
  <2> DEFINE before(x) == {y \in S : LevelBefore(y, x)}
  <2>1. \A x \in S : before(x) = {y \in S : <<y, x>> \in R}
    BY <1>1
  <2>2. s = [k \in 1..Cardinality(S) |->
                CHOOSE L \in S : Cardinality(before(L)) = k - 1]
    BY DEF SortedLevels
  <2> HIDE DEF R, s, before
  <2>3. DOMAIN s = 1..Cardinality(S) /\ s = [k \in DOMAIN s |-> s[k]]
    BY <2>2
  <2>4. \A k \in 1..Cardinality(S) :
           (\E x \in S : Cardinality(before(x)) = k - 1)
              => s[k] \in S /\ Cardinality(before(s[k])) = k - 1
    BY <2>2
  <2> QED BY <2>1, <2>3, <2>4
<1> HIDE DEF R, s
<1>4. StrictOrder(R, S)
  <2>1. \A x \in S : <<x, x>> \notin R
    BY <1>1, <1>2 DEF LevelBefore, BetterPrice
  <2>2. \A x, y, z \in S : <<x, y>> \in R /\ <<y, z>> \in R => <<x, z>> \in R
    BY <1>1, <1>2 DEF LevelBefore, BetterPrice
  <2>3. \A x, y \in S : x # y => <<x, y>> \in R \/ <<y, x>> \in R
    BY <1>1, <1>2 DEF LevelBefore, BetterPrice
  <2> QED BY <2>1, <2>2, <2>3 DEF StrictOrder
<1>5. Enumerates(s, S)
  BY <1>2, <1>3, <1>4, RankEnumerates
<1>6. s \in Seq(S) /\ Len(s) = Cardinality(S)
  BY <1>5 DEF Enumerates
<1> QED BY <1>5, <1>6 DEF s

(* Trades of one update: unique ids, times in (from, to].                  *)
TradeRecords(from, to) ==
  [id : Nat, ts : (from + 1)..to, level : Levels, size : Nat \ {0}]
TradesOK(trades, from, to) ==
  /\ IsFiniteSet(trades) /\ trades \subseteq TradeRecords(from, to)
  /\ \A t, u \in trades : t.id = u.id => t = u

LEMMA SortedTradesFacts ==
  ASSUME NEW from \in Nat, NEW to \in Nat, NEW trades, TradesOK(trades, from, to)
  PROVE  /\ Enumerates(SortedTrades(trades), trades)
         /\ Len(SortedTrades(trades)) = Cardinality(trades)
         /\ \A k, l \in 1..Cardinality(trades) :
               k < l => TradeBefore(SortedTrades(trades)[k], SortedTrades(trades)[l])
<1> DEFINE R == {p \in trades \X trades : TradeBefore(p[1], p[2])}
           s == SortedTrades(trades)
<1>1. \A t, u \in trades : <<t, u>> \in R <=> TradeBefore(t, u)
  OBVIOUS
<1>2. /\ IsFiniteSet(trades)
      /\ \A t \in trades : t.ts \in Nat /\ t.id \in Nat
      /\ \A t, u \in trades : t.id = u.id => t = u
  BY DEF TradesOK, TradeRecords
<1>3. /\ DOMAIN s = 1..Cardinality(trades) /\ s = [k \in DOMAIN s |-> s[k]]
      /\ \A k \in 1..Cardinality(trades) :
            (\E x \in trades : Cardinality({y \in trades : <<y, x>> \in R}) = k - 1)
               => s[k] \in trades /\ Cardinality({y \in trades : <<y, s[k]>> \in R}) = k - 1
  <2> DEFINE before(x) == {y \in trades : TradeBefore(y, x)}
  <2>1. \A x \in trades : before(x) = {y \in trades : <<y, x>> \in R}
    BY <1>1
  <2>2. s = [k \in 1..Cardinality(trades) |->
                CHOOSE t \in trades : Cardinality(before(t)) = k - 1]
    BY DEF SortedTrades
  <2> HIDE DEF R, s, before
  <2>3. DOMAIN s = 1..Cardinality(trades) /\ s = [k \in DOMAIN s |-> s[k]]
    BY <2>2
  <2>4. \A k \in 1..Cardinality(trades) :
           (\E x \in trades : Cardinality(before(x)) = k - 1)
              => s[k] \in trades /\ Cardinality(before(s[k])) = k - 1
    BY <2>2
  <2> QED BY <2>1, <2>3, <2>4
<1> HIDE DEF R, s
<1>4. StrictOrder(R, trades)
  <2>1. \A x \in trades : <<x, x>> \notin R
    BY <1>1, <1>2 DEF TradeBefore
  <2>2. \A x, y, z \in trades : <<x, y>> \in R /\ <<y, z>> \in R => <<x, z>> \in R
    BY <1>1, <1>2 DEF TradeBefore
  <2>3. \A x, y \in trades : x # y => <<x, y>> \in R \/ <<y, x>> \in R
    BY <1>1, <1>2 DEF TradeBefore
  <2> QED BY <2>1, <2>2, <2>3 DEF StrictOrder
<1>5. /\ Enumerates(s, trades)
      /\ \A k, l \in 1..Cardinality(trades) : k < l => <<s[k], s[l]>> \in R
  BY <1>2, <1>3, <1>4, RankEnumerates
<1>6. Len(s) = Cardinality(trades)
  BY <1>5 DEF Enumerates
<1>7. \A k, l \in 1..Cardinality(trades) : k < l => TradeBefore(s[k], s[l])
  <2>1. \A k \in 1..Cardinality(trades) : s[k] \in trades
    BY <1>5 DEF Enumerates
  <2> QED BY <1>1, <1>5, <2>1
<1> QED BY <1>5, <1>6, <1>7 DEF s

(***************************************************************************)
(* Virtual orders and queues.                                              *)
(***************************************************************************)

AnyOrder == [id : Nat, size : Nat \ {0}]
VOrders(m) == [id : 1..(m - 1), size : Nat \ {0}]
VSize == [x \in AnyOrder |-> x.size]

(* What a queue holds.                                                     *)
Held(q) == Worth(VSize, q)

LEMMA HeldFacts ==
  ASSUME NEW q \in Seq(AnyOrder)
  PROVE  /\ Held(q) \in Nat
         /\ q = <<>> => Held(q) = 0
         /\ \A x \in AnyOrder : Held(Append(q, x)) = Held(q) + x.size
<1>1. VSize \in [AnyOrder -> Int] /\ \A x \in AnyOrder : VSize[x] = x.size /\ x.size \in Nat
  BY DEF VSize, AnyOrder
<1>2. \A i \in 1..Len(q) : q[i] \in AnyOrder
  OBVIOUS
<1>3. \A i \in 1..Len(q) : VSize[q[i]] \in Nat
  BY <1>1, <1>2
<1>4. /\ (\A i \in 1..Len(q) : VSize[q[i]] \in Nat) => Worth(VSize, q) \in Nat
      /\ (\A i \in 1..Len(q) : VSize[q[i]] = 0) => Worth(VSize, q) = 0
      /\ \A x \in AnyOrder : Worth(VSize, Append(q, x)) = Worth(VSize, q) + VSize[x]
  BY <1>1, WorthFacts
<1>5. q = <<>> => \A i \in 1..Len(q) : VSize[q[i]] = 0
  OBVIOUS
<1> QED BY <1>1, <1>3, <1>4, <1>5 DEF Held

LEMMA HeldFront ==
  ASSUME NEW q \in Seq(AnyOrder), q # <<>>
  PROVE  /\ Held(q) = Head(q).size + Held(Tail(q)) /\ Tail(q) \in Seq(AnyOrder)
         /\ \A x \in AnyOrder : Held([q EXCEPT ![1] = x]) = x.size + Held(Tail(q))
<1>1. VSize \in [AnyOrder -> Int] /\ \A x \in AnyOrder : VSize[x] = x.size
  BY DEF VSize, AnyOrder
<1>2. Head(q) \in AnyOrder /\ Tail(q) \in Seq(AnyOrder)
  BY HeadTailFacts
<1>3. /\ Worth(VSize, q) = VSize[Head(q)] + Worth(VSize, Tail(q))
      /\ \A x \in AnyOrder : Worth(VSize, [q EXCEPT ![1] = x]) = VSize[x] + Worth(VSize, Tail(q))
  BY <1>1, WorthFront
<1> QED BY <1>1, <1>2, <1>3 DEF Held

LEMMA FrontFacts ==
  ASSUME NEW F, NEW q \in Seq(F), q # <<>>
  PROVE  /\ Front(q) \in Seq(F) /\ Len(Front(q)) = Len(q) - 1
         /\ q[Len(q)] \in F /\ q = Append(Front(q), q[Len(q)])
         /\ \A x \in F : [q EXCEPT ![Len(q)] = x] = Append(Front(q), x)
<1> DEFINE n == Len(q)
           f == Front(q)
<1>1. n \in Nat \ {0} /\ q \in [1..n -> F]
  OBVIOUS
<1>2. f = [i \in 1..(n - 1) |-> q[i]]
  BY <1>1 DEF Front
<1> HIDE DEF n, f
<1>3. f \in Seq(F) /\ Len(f) = n - 1 /\ \A i \in 1..(n - 1) : f[i] = q[i]
  BY <1>1, <1>2
<1>4. ASSUME NEW x \in F PROVE [q EXCEPT ![n] = x] = Append(f, x)
  <2>1. /\ Append(f, x) \in Seq(F) /\ Len(Append(f, x)) = n
        /\ \A i \in 1..n : Append(f, x)[i] = IF i = n THEN x ELSE f[i]
    BY <1>1, <1>3
  <2>2. /\ [q EXCEPT ![n] = x] \in Seq(F) /\ Len([q EXCEPT ![n] = x]) = n
        /\ \A i \in 1..n : [q EXCEPT ![n] = x][i] = IF i = n THEN x ELSE q[i]
    BY <1>1
  <2> DEFINE a == Append(f, x)
             b == [q EXCEPT ![n] = x]
  <2>3. \A i \in 1..n : a[i] = b[i]
    BY <1>1, <1>3, <2>1, <2>2
  <2> HIDE DEF a, b
  <2>4. a \in Seq(F) /\ b \in Seq(F) /\ Len(a) = n /\ Len(b) = n
    BY <2>1, <2>2 DEF a, b
  <2>5. a = b
    BY <1>1, <2>3, <2>4, SeqEqual
  <2> QED BY <2>5 DEF a, b
<1>5. q[n] \in F /\ [q EXCEPT ![n] = q[n]] = q
  BY <1>1
<1> QED BY <1>1, <1>3, <1>4, <1>5 DEF n, f

LEMMA HeldBack ==
  ASSUME NEW q \in Seq(AnyOrder), q # <<>>
  PROVE  /\ Held(q) = q[Len(q)].size + Held(Front(q)) /\ Front(q) \in Seq(AnyOrder)
         /\ \A x \in AnyOrder : Held([q EXCEPT ![Len(q)] = x]) = x.size + Held(Front(q))
<1> DEFINE f == Front(q)
<1>1. /\ f \in Seq(AnyOrder) /\ q[Len(q)] \in AnyOrder /\ q = Append(f, q[Len(q)])
      /\ \A x \in AnyOrder : [q EXCEPT ![Len(q)] = x] = Append(f, x)
  BY FrontFacts
<1> HIDE DEF f
<1>2. Held(f) \in Nat /\ \A x \in AnyOrder : Held(Append(f, x)) = Held(f) + x.size
  BY <1>1, HeldFacts
<1>3. \A x \in AnyOrder : x.size \in Nat
  BY DEF AnyOrder
<1> DEFINE y == q[Len(q)]
<1>4. y \in AnyOrder /\ q = Append(f, y)
  BY <1>1
<1> HIDE DEF y
<1>5. Held(Append(f, y)) = Held(f) + y.size /\ y.size \in Nat
  BY <1>2, <1>3, <1>4
<1>6. Held(q) = Held(f) + y.size
  BY <1>4, <1>5
<1>7. Held(q) = y.size + Held(f)
  BY ONLY <1>2, <1>5, <1>6
<1>8. \A x \in AnyOrder : Held([q EXCEPT ![Len(q)] = x]) = x.size + Held(f)
  <2>1. ASSUME NEW x \in AnyOrder PROVE Held([q EXCEPT ![Len(q)] = x]) = x.size + Held(f)
    <3>1. [q EXCEPT ![Len(q)] = x] = Append(f, x)
      BY <1>1
    <3>2. Held(Append(f, x)) = Held(f) + x.size /\ x.size \in Nat /\ Held(f) \in Nat
      BY <1>2, <1>3
    <3>3. Held(f) + x.size = x.size + Held(f)
      BY ONLY <3>2
    <3> QED BY ONLY <3>1, <3>2, <3>3
  <2> QED BY <2>1
<1>9. f \in Seq(AnyOrder)
  BY <1>1
<1> QED BY ONLY <1>7, <1>8, <1>9 DEF f, y

DrainStates(m) == [q : Seq(VOrders(m)), left : Nat, taken : Seq(VOrders(m))]

LEMMA VOrdersFacts ==
  ASSUME NEW m \in Nat
  PROVE  /\ \A x \in VOrders(m) : x \in AnyOrder /\ x.size \in Nat \ {0} /\ x.id \in 1..(m - 1)
         /\ \A q \in Seq(VOrders(m)) : q \in Seq(AnyOrder)
         /\ \A n \in Nat : m <= n => \A q \in Seq(VOrders(m)) : q \in Seq(VOrders(n))
<1>1. \A x \in VOrders(m) : x \in AnyOrder /\ x.size \in Nat \ {0} /\ x.id \in 1..(m - 1)
  BY DEF VOrders, AnyOrder
<1>2. \A q \in Seq(VOrders(m)) : q \in Seq(AnyOrder)
  BY <1>1
<1>3. ASSUME NEW n \in Nat, m <= n PROVE \A q \in Seq(VOrders(m)) : q \in Seq(VOrders(n))
  <2>1. \A x \in VOrders(m) : x \in VOrders(n)
    BY <1>3 DEF VOrders
  <2> QED BY <2>1
<1> QED BY <1>1, <1>2, <1>3

(* One turn takes what it says from the queue, and empties an order unless *)
(* it is the last.                                                         *)
LEMMA DrainTurnFacts ==
  ASSUME NEW m \in Nat, NEW s \in DrainStates(m), NEW newest \in BOOLEAN
  PROVE  /\ DrainTurn(s, newest) \in DrainStates(m)
         /\ DrainTurn(s, newest).left <= s.left
         /\ Held(DrainTurn(s, newest).q) - DrainTurn(s, newest).left = Held(s.q) - s.left
         /\ Len(DrainTurn(s, newest).q) <= Len(s.q)
         /\ s.q # <<>> /\ DrainTurn(s, newest).left > 0
               => Len(DrainTurn(s, newest).q) = Len(s.q) - 1
         /\ s.q = <<>> \/ s.left = 0 => DrainTurn(s, newest) = s
<1> DEFINE q == s.q
           left == s.left
           i == IF newest THEN Len(q) ELSE 1
           x == q[i]
           n == Lesser(x.size, left)
           rest == IF newest THEN Front(q) ELSE Tail(q)
           less == [x EXCEPT !.size = @ - n]
           w == IF n < x.size THEN [q EXCEPT ![i].size = @ - n] ELSE rest
           t == DrainTurn(s, newest)
           O == VOrders(m)
<1>1. /\ q \in Seq(O) /\ left \in Nat /\ s.taken \in Seq(O) /\ q \in Seq(AnyOrder)
      /\ Held(q) \in Nat /\ Len(q) \in Nat
  <2>1. q \in Seq(O) /\ left \in Nat /\ s.taken \in Seq(O)
    BY DEF DrainStates
  <2>2. q \in Seq(AnyOrder)
    BY <2>1, VOrdersFacts
  <2> HIDE DEF q, O
  <2> QED BY <2>1, <2>2, HeldFacts
<1>2. CASE left = 0 \/ q = <<>>
  <2>1. t = s
    BY <1>2 DEF DrainTurn
  <2>2. s \in DrainStates(m)
    OBVIOUS
  <2> QED BY ONLY <1>1, <1>2, <2>1, <2>2 DEF t, q, left
<1>3. CASE left # 0 /\ q # <<>>
  <2>1. t = [q |-> w, left |-> left - n, taken |-> Append(s.taken, [id |-> x.id, size |-> n])]
    BY <1>3 DEF DrainTurn
  <2>2. /\ i \in 1..Len(q) /\ x \in O /\ rest \in Seq(O) /\ Len(rest) = Len(q) - 1
        /\ Held(q) = x.size + Held(rest)
        /\ \A y \in AnyOrder : Held([q EXCEPT ![i] = y]) = y.size + Held(rest)
    <3> HIDE DEF O, q
    <3>1. CASE newest
      <4>1. i = Len(q) /\ rest = Front(q) /\ x = q[Len(q)] /\ Len(q) \in 1..Len(q)
        BY <1>1, <1>3, <3>1
      <4> HIDE DEF i, rest, x
      <4>2. q[Len(q)] \in O /\ Front(q) \in Seq(O) /\ Len(Front(q)) = Len(q) - 1
        BY <1>1, <1>3, FrontFacts
      <4>3. /\ Held(q) = q[Len(q)].size + Held(Front(q))
            /\ \A y \in AnyOrder : Held([q EXCEPT ![Len(q)] = y]) = y.size + Held(Front(q))
        BY <1>1, <1>3, HeldBack
      <4> QED BY <4>1, <4>2, <4>3
    <3>2. CASE ~newest
      <4>1. i = 1 /\ rest = Tail(q) /\ x = q[1] /\ 1 \in 1..Len(q)
        BY <1>1, <1>3, <3>2
      <4> HIDE DEF i, rest, x
      <4>2. /\ q[1] = Head(q) /\ Head(q) \in O /\ Tail(q) \in Seq(O)
            /\ Len(Tail(q)) = Len(q) - 1
        BY <1>1, <1>3, HeadTailFacts
      <4>3. /\ Held(q) = Head(q).size + Held(Tail(q))
            /\ \A y \in AnyOrder : Held([q EXCEPT ![1] = y]) = y.size + Held(Tail(q))
        BY <1>1, <1>3, HeldFront
      <4> QED BY <4>1, <4>2, <4>3
    <3> QED BY <3>1, <3>2
  <2>3. x.size \in Nat \ {0} /\ x.id \in 1..(m - 1) /\ x \in [id : 1..(m - 1), size : Nat \ {0}]
    BY <2>2 DEF VOrders
  <2>4. [q EXCEPT ![i].size = @ - n] = [q EXCEPT ![i] = less]
    <3> HIDE DEF q, i, n
    <3> QED OBVIOUS
  <2> HIDE DEF x, q, left
  <2>5. /\ n \in Nat \ {0} /\ n <= x.size /\ n <= left
        /\ n < x.size => left = n
    BY <1>1, <1>3, <2>3 DEF Lesser
  <2> HIDE DEF n
  <2>6. /\ [id |-> x.id, size |-> n] \in O
        /\ n < x.size => less \in O /\ less.size = x.size - n
    BY <2>3, <2>5 DEF VOrders
  <2>7. less \in O => less \in AnyOrder
    BY VOrdersFacts
  <2> HIDE DEF less, O, rest, i
  <2>8. Held(rest) \in Nat
    <3>1. rest \in Seq(AnyOrder)
      BY <2>2, VOrdersFacts DEF O
    <3> QED BY <3>1, HeldFacts
  <2>9. w \in Seq(O) /\ Held(w) = Held(q) - n /\ Len(w) <= Len(q)
        /\ (n = x.size => Len(w) = Len(q) - 1)
    <3>1. CASE n < x.size
      <4>1. w = [q EXCEPT ![i] = less]
        BY <2>4, <3>1
      <4>2. [q EXCEPT ![i] = less] \in Seq(O) /\ Len([q EXCEPT ![i] = less]) = Len(q)
        BY <1>1, <2>2, <2>6, <3>1
      <4>3. Held([q EXCEPT ![i] = less]) = less.size + Held(rest)
        BY <2>2, <2>6, <2>7, <3>1
      <4>4. Held(q) = x.size + Held(rest)
        BY <2>2
      <4>5. Held(w) = (x.size - n) + Held(rest) /\ Len(w) = Len(q) /\ w \in Seq(O)
        <5> HIDE DEF w
        <5> QED BY <2>6, <3>1, <4>1, <4>2, <4>3
      <4> HIDE DEF w
      <4> QED BY ONLY <1>1, <2>3, <2>5, <2>8, <3>1, <4>4, <4>5
    <3>2. CASE n = x.size
      <4>1. w = rest
        BY <2>3, <3>2
      <4> HIDE DEF w
      <4> QED BY <1>1, <2>2, <2>3, <2>8, <3>2, <4>1
    <3> QED BY <2>3, <2>5, <3>1, <3>2
  <2> HIDE DEF w
  <2>10. Append(s.taken, [id |-> x.id, size |-> n]) \in Seq(O)
    BY <1>1, <2>6
  <2>11. left - n \in Nat /\ left - n <= left
    BY <1>1, <2>5
  <2>12. t.q = w /\ t.left = left - n /\ t.taken = Append(s.taken, [id |-> x.id, size |-> n])
         /\ t \in DrainStates(m)
    BY <2>1, <2>9, <2>10, <2>11 DEF DrainStates, O
  <2> HIDE DEF t
  <2>13. Held(t.q) - t.left = Held(q) - left
    BY <1>1, <2>5, <2>9, <2>12
  <2>14. t.left > 0 => Len(t.q) = Len(q) - 1
    BY <1>1, <2>3, <2>5, <2>9, <2>12
  <2>15. s.q = q /\ s.left = left
    BY DEF q, left
  <2> QED BY ONLY <1>3, <2>9, <2>11, <2>12, <2>13, <2>14, <2>15 DEF t
<1> QED BY <1>2, <1>3 DEF t, q, left

(* The turns of the loop.                                                  *)
LEMMA DrainTurns ==
  ASSUME NEW q, Len(q) \in Nat, NEW n, NEW newest
  PROVE  \E turn : /\ turn[0] = [q |-> q, left |-> n, taken |-> <<>>]
                   /\ \A k \in 1..Len(q) : turn[k] = DrainTurn(turn[k - 1], newest)
                   /\ Drain(q, n, newest) = turn[Len(q)]
<1> DEFINE N == Len(q)
           x == [q |-> q, left |-> n, taken |-> <<>>]
           Step(t, k) == DrainTurn(t, newest)
           S == {M \in Nat : \E h : h = [k \in 0..M |-> IF k = 0 THEN x ELSE Step(h[k - 1], k)]}
           f == CHOOSE h : h = [k \in 0..N |-> IF k = 0 THEN x ELSE Step(h[k - 1], k)]
<1>1. N \in Nat
  OBVIOUS
<1>2. Drain(q, n, newest) = f[N]
  BY DEF Drain
<1> HIDE DEF N, x, Step
<1>3. 0 \in S
  <2> DEFINE h == [k \in 0..0 |-> x]
  <2>1. h = [k \in 0..0 |-> IF k = 0 THEN x ELSE Step(h[k - 1], k)]
    <3>1. \A k \in 0..0 : k = 0
      OBVIOUS
    <3> QED BY <3>1
  <2> HIDE DEF h
  <2> QED BY <2>1
<1>4. ASSUME NEW M \in S PROVE M + 1 \in S
  <2>1. PICK h : h = [k \in 0..M |-> IF k = 0 THEN x ELSE Step(h[k - 1], k)]
    BY <1>4
  <2> DEFINE g == [k \in 0..(M + 1) |-> IF k \in 0..M THEN h[k] ELSE Step(h[M], k)]
  <2>2. M \in Nat /\ M + 1 \in Nat
    BY <1>4
  <2>3. \A k \in 0..M : g[k] = h[k] /\ h[k] = IF k = 0 THEN x ELSE Step(h[k - 1], k)
    BY <2>1, <2>2
  <2>4. ASSUME NEW k \in 0..(M + 1)
        PROVE  g[k] = IF k = 0 THEN x ELSE Step(g[k - 1], k)
    <3>1. CASE k \in 0..M
      <4>1. k # 0 => k - 1 \in 0..M
        BY <2>2, <3>1
      <4> HIDE DEF g
      <4> QED BY <2>3, <3>1, <4>1
    <3>2. CASE k \notin 0..M
      <4>1. k - 1 = M /\ k # 0 /\ M \in 0..M
        BY <2>2, <3>2
      <4>2. g[k] = Step(h[M], k)
        BY <3>2
      <4> HIDE DEF g
      <4> QED BY <2>3, <4>1, <4>2
    <3> QED BY <3>1, <3>2
  <2>5. g = [k \in 0..(M + 1) |-> g[k]]
    OBVIOUS
  <2> HIDE DEF g
  <2>6. g = [k \in 0..(M + 1) |-> IF k = 0 THEN x ELSE Step(g[k - 1], k)]
    BY <2>4, <2>5
  <2> QED BY <2>2, <2>6
<1>5. S = Nat
  <2>1. S \in SUBSET Nat
    OBVIOUS
  <2> HIDE DEF S
  <2> QED BY <1>3, <1>4, <2>1, SetInduction
<1>6. f = [k \in 0..N |-> IF k = 0 THEN x ELSE Step(f[k - 1], k)]
  <2>1. \E h : h = [k \in 0..N |-> IF k = 0 THEN x ELSE Step(h[k - 1], k)]
    BY <1>1, <1>5
  <2> QED BY <2>1
<1> HIDE DEF f
<1>7. f[0] = x /\ \A k \in 1..N : f[k] = Step(f[k - 1], k)
  <2>1. 0 \in 0..N /\ \A k \in 1..N : k \in 0..N /\ k # 0
    BY <1>1
  <2> QED BY <1>6, <2>1
<1> QED BY <1>2, <1>7 DEF N, x, Step

(* Draining a queue that holds enough.                                      *)
LEMMA DrainFacts ==
  ASSUME NEW m \in Nat, NEW q \in Seq(VOrders(m)), NEW n \in Nat, n <= Held(q),
         NEW newest \in BOOLEAN
  PROVE  /\ Drain(q, n, newest).q \in Seq(VOrders(m))
         /\ Drain(q, n, newest).taken \in Seq(VOrders(m))
         /\ Drain(q, n, newest).left = 0
         /\ Held(Drain(q, n, newest).q) = Held(q) - n
<1> DEFINE N == Len(q)
           x == [q |-> q, left |-> n, taken |-> <<>>]
           d == Drain(q, n, newest)
<1>1. N \in Nat /\ x.q = q /\ x.left = n /\ x \in DrainStates(m)
  BY DEF DrainStates
<1> HIDE DEF x
<1>2. PICK turn : /\ turn[0] = x
                  /\ \A k \in 1..N : turn[k] = DrainTurn(turn[k - 1], newest)
                  /\ d = turn[N]
  BY <1>1, DrainTurns DEF x
<1>3. Held(q) \in Nat /\ q \in Seq(AnyOrder)
  <2>1. q \in Seq(AnyOrder)
    BY VOrdersFacts
  <2> QED BY <2>1, HeldFacts
<1> DEFINE P(k) == /\ turn[k] \in DrainStates(m)
                   /\ Held(turn[k].q) - turn[k].left = Held(q) - n
                   /\ turn[k].left # 0 => Len(turn[k].q) <= N - k
           S == {k \in Nat : k <= N => P(k)}
<1> HIDE DEF N, d
<1>4. 0 \in S
  <2>1. P(0)
    BY <1>1, <1>2 DEF N
  <2> QED BY <2>1
<1>5. ASSUME NEW k \in S PROVE k + 1 \in S
  <2> SUFFICES ASSUME k + 1 <= N PROVE P(k + 1)
    BY <1>5
  <2> DEFINE s == turn[k]
             t == turn[k + 1]
  <2>1. k \in Nat /\ k <= N /\ k + 1 \in 1..N /\ (k + 1) - 1 = k
    BY <1>1, <1>5
  <2>2. t = DrainTurn(s, newest)
    BY <1>2, <2>1
  <2>3. s \in DrainStates(m) /\ Held(s.q) - s.left = Held(q) - n
        /\ (s.left # 0 => Len(s.q) <= N - k)
    BY <1>5, <2>1
  <2> HIDE DEF s, t
  <2>4. /\ t \in DrainStates(m) /\ t.left <= s.left
        /\ Held(t.q) - t.left = Held(s.q) - s.left
        /\ Len(t.q) <= Len(s.q)
        /\ s.q # <<>> /\ t.left > 0 => Len(t.q) = Len(s.q) - 1
        /\ s.q = <<>> \/ s.left = 0 => t = s
    BY <2>2, <2>3, DrainTurnFacts
  <2>5. /\ s.left \in Nat /\ t.left \in Nat /\ s.q \in Seq(VOrders(m)) /\ t.q \in Seq(VOrders(m))
    BY <2>3, <2>4 DEF DrainStates
  <2>6. Len(s.q) \in Nat /\ Len(t.q) \in Nat /\ (s.q = <<>> => Len(s.q) = 0)
    BY <2>5
  <2>7. t.left # 0 => Len(t.q) <= N - (k + 1)
    <3>1. CASE s.q = <<>>
      <4>1. t.left # 0 => Held(s.q) = 0 /\ s.left # 0
        <5>1. s.q \in Seq(AnyOrder)
          BY <2>5, VOrdersFacts
        <5> QED BY <2>4, <3>1, <5>1, HeldFacts
      <4> QED BY <1>3, <2>3, <2>4, <2>5, <3>1, <4>1
    <3>2. CASE s.q # <<>>
      <4> SUFFICES ASSUME t.left # 0 PROVE Len(t.q) <= N - (k + 1)
        OBVIOUS
      <4> DEFINE a == Len(s.q)
                 b == Len(t.q)
                 c == s.left
                 d1 == t.left
      <4>1. c \in Nat /\ d1 \in Nat /\ d1 <= c /\ d1 # 0 /\ a \in Nat /\ b \in Nat
        BY <2>4, <2>5, <2>6
      <4>2. (c # 0 => a <= N - k) /\ (d1 > 0 => b = a - 1)
        BY <2>3, <2>4, <3>2
      <4>3. N \in Nat /\ k \in Nat
        BY <1>1, <2>1
      <4> HIDE DEF a, b, c, d1
      <4>4. b <= N - (k + 1)
        BY ONLY <4>1, <4>2, <4>3
      <4> QED BY <4>4 DEF b
    <3> QED BY <3>1, <3>2
  <2> QED BY <2>3, <2>4, <2>7 DEF t
<1>6. P(N)
  <2>1. S = Nat
    <3>1. S \in SUBSET Nat
      OBVIOUS
    <3> HIDE DEF S
    <3> QED BY <1>4, <1>5, <3>1, SetInduction
  <2>2. N \in S /\ N <= N
    BY <1>1, <2>1
  <2> QED BY <2>2
<1>7. d \in DrainStates(m) /\ Held(d.q) - d.left = Held(q) - n
      /\ (d.left # 0 => Len(d.q) <= N - N)
  BY <1>2, <1>6
<1>8. d.q \in Seq(VOrders(m)) /\ d.taken \in Seq(VOrders(m)) /\ d.left \in Nat
  BY <1>7 DEF DrainStates
<1>9. Held(d.q) \in Nat /\ (Len(d.q) = 0 => Held(d.q) = 0) /\ Len(d.q) \in Nat
  <2>1. d.q \in Seq(AnyOrder)
    BY <1>8, VOrdersFacts
  <2> QED BY <2>1, HeldFacts
<1>10. d.left = 0
  BY <1>1, <1>3, <1>7, <1>8, <1>9
<1> QED BY <1>3, <1>7, <1>8, <1>9, <1>10 DEF d

(***************************************************************************)
(* Best prices.                                                            *)
(***************************************************************************)

Standing(units, side) == {p \in Prices : units[<<side, p>>] > 0}
BestNow(best, units) ==
  \A side \in BookSides :
     best[side] = IF Standing(units, side) = {} THEN None
                  ELSE Best(side, Standing(units, side))

LEMMA BestIs ==
  ASSUME NEW S \in SUBSET Prices, NEW side \in BookSides, NEW p \in S,
         \A y \in S : ~BetterPrice(side, y, p)
  PROVE  Best(side, S) = p
<1> DEFINE b == Best(side, S)
<1>1. S # {} /\ S \subseteq Nat
  BY PricesAssumption
<1>2. b \in S
  BY <1>1, BestFacts
<1>3. IF side = "bid" THEN p <= b ELSE b <= p
  BY <1>1, BestIsBest
<1> HIDE DEF b
<1>4. b = p
  BY <1>1, <1>2, <1>3 DEF BetterPrice
<1> QED BY <1>4 DEF b

LEMMA BestBeats ==
  ASSUME NEW S \in SUBSET Prices, NEW side \in BookSides, S # {}
  PROVE  /\ Best(side, S) \in S /\ Best(side, S) \in Nat \ {0}
         /\ \A y \in S : ~BetterPrice(side, y, Best(side, S))
<1> DEFINE b == Best(side, S)
<1>1. S \subseteq Nat \ {0}
  BY PricesAssumption
<1>2. b \in S
  BY BestFacts
<1>3. \A y \in S : IF side = "bid" THEN y <= b ELSE b <= y
  BY BestIsBest
<1> HIDE DEF b
<1>4. \A y \in S : ~BetterPrice(side, y, b)
  BY <1>1, <1>2, <1>3 DEF BetterPrice
<1> QED BY <1>1, <1>2, <1>4 DEF b

StandingChanges(units, L, v, w) ==
  /\ w \in [Levels -> Nat]
  /\ \A side \in BookSides : side # L[1] =>
               Standing(w, side) = Standing(units, side)
  /\ v > 0 => Standing(w, L[1]) = Standing(units, L[1]) \cup {L[2]}
  /\ v = 0 => Standing(w, L[1]) = Standing(units, L[1]) \ {L[2]}
  /\ units[L] > 0 <=> L[2] \in Standing(units, L[1])
  /\ \A side \in BookSides : Standing(units, side) \in SUBSET Prices

LEMMA StandingFacts ==
  ASSUME NEW units \in [Levels -> Nat], NEW L \in Levels, NEW v \in Nat,
         NEW w, w = [units EXCEPT ![L] = v]
  PROVE  StandingChanges(units, L, v, w)
<1>1. L[1] \in BookSides /\ L[2] \in Prices /\ L = <<L[1], L[2]>>
  BY LevelsFinite
<1>2. \A side \in BookSides, p \in Prices :
         /\ <<side, p>> \in Levels
         /\ <<side, p>> = L <=> side = L[1] /\ p = L[2]
  BY <1>1 DEF Levels
<1>3. w \in [Levels -> Nat] /\ \A K \in Levels : w[K] = IF K = L THEN v ELSE units[K]
  OBVIOUS
<1>4. \A side \in BookSides, p \in Prices :
         w[<<side, p>>] = IF side = L[1] /\ p = L[2] THEN v ELSE units[<<side, p>>]
  BY <1>2, <1>3
<1>5. \A side \in BookSides : side # L[1] => Standing(w, side) = Standing(units, side)
  BY <1>4 DEF Standing
<1>6. v > 0 => Standing(w, L[1]) = Standing(units, L[1]) \cup {L[2]}
  BY <1>1, <1>4 DEF Standing
<1>7. v = 0 => Standing(w, L[1]) = Standing(units, L[1]) \ {L[2]}
  BY <1>1, <1>4 DEF Standing
<1>8. units[L] > 0 <=> L[2] \in Standing(units, L[1])
  BY <1>1 DEF Standing
<1>9. \A side \in BookSides : Standing(units, side) \in SUBSET Prices
  BY DEF Standing
<1> QED BY <1>3, <1>5, <1>6, <1>7, <1>8, <1>9 DEF StandingChanges

(* The best price after an addition.                                       *)
LEMMA BestAfterAdd ==
  ASSUME NEW units \in [Levels -> Nat], NEW best \in [BookSides -> Prices \cup {None}],
         BestNow(best, units), NEW L \in Levels, NEW v \in Nat \ {0},
         NEW new, new = [best EXCEPT ![L[1]] =
                            IF @ = None \/ BetterPrice(L[1], L[2], @) THEN L[2] ELSE @]
  PROVE  /\ new \in [BookSides -> Prices \cup {None}]
         /\ BestNow(new, [units EXCEPT ![L] = v])
<1> DEFINE w == [units EXCEPT ![L] = v]
           S(side) == Standing(units, side)
           side == L[1]
           p == L[2]
           b == best[side]
<1>1. /\ side \in BookSides /\ p \in Prices /\ p \in Nat \ {0} /\ Prices \subseteq Nat \ {0}
  BY LevelsFinite
<1>2. /\ \A k \in BookSides : S(k) \in SUBSET Prices
      /\ \A k \in BookSides : k # side => Standing(w, k) = S(k)
      /\ Standing(w, side) = S(side) \cup {p}
  <2>1. v \in Nat /\ v > 0 /\ w = [units EXCEPT ![L] = v]
    OBVIOUS
  <2> HIDE DEF w
  <2>2. StandingChanges(units, L, v, w)
    BY <2>1, StandingFacts
  <2> QED BY ONLY <1>1, <2>1, <2>2 DEF StandingChanges
<1>3. /\ new \in [BookSides -> Prices \cup {None}]
      /\ \A k \in BookSides : k # side => new[k] = best[k]
      /\ new[side] = IF b = None \/ BetterPrice(side, p, b) THEN p ELSE b
  BY <1>1
<1>4. b = IF S(side) = {} THEN None ELSE Best(side, S(side))
  BY <1>1 DEF BestNow
<1> HIDE DEF w, S
<1>5. new[side] = Best(side, Standing(w, side)) /\ Standing(w, side) # {}
  <2>1. CASE S(side) = {}
    <3>1. new[side] = p /\ Standing(w, side) = {p}
      BY <1>2, <1>3, <1>4, <2>1
    <3>2. \A y \in {p} : ~BetterPrice(side, y, p)
      BY <1>1 DEF BetterPrice
    <3>3. Best(side, {p}) = p
      <4> HIDE DEF side, p
      <4> QED BY <1>1, <3>2, BestIs
    <3> QED BY <3>1, <3>3
  <2>2. CASE S(side) # {}
    <3>1. b \in S(side) /\ b \in Nat \ {0} /\ \A y \in S(side) : ~BetterPrice(side, y, b)
      <4> DEFINE s == S(side)
      <4>1. s \in SUBSET Prices /\ s # {} /\ b = Best(side, s)
        BY <1>1, <1>2, <1>4, <2>2
      <4> HIDE DEF s, b, side
      <4> QED BY <1>1, <4>1, BestBeats DEF s
    <3>2. b # None
      BY <3>1 DEF None
    <3>3. new[side] \in Standing(w, side)
          /\ \A y \in Standing(w, side) : ~BetterPrice(side, y, new[side])
      <4>1. S(side) \subseteq Nat
        BY <1>1, <1>2
      <4> QED BY <1>1, <1>2, <1>3, <3>1, <3>2, <4>1 DEF BetterPrice
    <3>4. Standing(w, side) \in SUBSET Prices
      BY <1>1, <1>2
    <3> DEFINE c == new[side]
    <3> HIDE DEF c, side, p
    <3>5. Best(side, Standing(w, side)) = c
      BY <1>1, <3>3, <3>4, BestIs DEF c
    <3> QED BY <3>3, <3>5 DEF c
  <2> QED BY <2>1, <2>2
<1>6. \A k \in BookSides :
         new[k] = IF Standing(w, k) = {} THEN None ELSE Best(k, Standing(w, k))
  BY <1>2, <1>3, <1>5 DEF BestNow, S
<1> QED BY <1>3, <1>6 DEF BestNow, w

(* The best price after a removal: _drop_empty_level.                      *)
LEMMA BestAfterRemoval ==
  ASSUME NEW units \in [Levels -> Nat], NEW best \in [BookSides -> Prices \cup {None}],
         BestNow(best, units), NEW L \in Levels, NEW v \in Nat, NEW w, w = [units EXCEPT ![L] = v]
  PROVE  /\ v # 0 /\ units[L] # 0 => BestNow(best, w)
         /\ v = 0 =>
              LET side == L[1]
                  new == [best EXCEPT ![side] = IF @ # L[2] THEN @
                                                ELSE IF Standing(w, side) = {} THEN None
                                                ELSE Best(side, Standing(w, side))]
              IN  BestNow(new, w) /\ new \in [BookSides -> Prices \cup {None}]
<1> DEFINE side == L[1]
           p == L[2]
           b == best[side]
           T == Standing(w, side)
           new == [best EXCEPT ![side] = IF @ # L[2] THEN @
                                         ELSE IF T = {} THEN None ELSE Best(side, T)]
<1>1. /\ side \in BookSides /\ p \in Prices /\ p \in Nat \ {0} /\ Prices \subseteq Nat \ {0}
  BY LevelsFinite
<1>2. /\ Standing(units, side) \in SUBSET Prices
      /\ \A k \in BookSides : k # side => Standing(w, k) = Standing(units, k)
      /\ v > 0 => T = Standing(units, side) \cup {p}
      /\ v = 0 => T = Standing(units, side) \ {p}
      /\ units[L] > 0 => p \in Standing(units, side)
  <2>1. StandingChanges(units, L, v, w)
    BY StandingFacts
  <2> QED BY ONLY <1>1, <2>1 DEF StandingChanges
<1>3. b = IF Standing(units, side) = {} THEN None ELSE Best(side, Standing(units, side))
  BY <1>1 DEF BestNow
<1>4. units[L] \in Nat
  OBVIOUS
<1>5. ASSUME v # 0, units[L] # 0 PROVE BestNow(best, w)
  <2>1. \A k \in BookSides : Standing(w, k) = Standing(units, k)
    <3>1. v > 0 /\ units[L] > 0
      BY <1>4, <1>5
    <3>2. T = Standing(units, side)
      BY <1>2, <3>1
    <3> QED BY <1>2, <3>2
  <2> QED BY <2>1 DEF BestNow
<1>6. ASSUME v = 0 PROVE BestNow(new, w) /\ new \in [BookSides -> Prices \cup {None}]
  <2>1. T = Standing(units, side) \ {p} /\ T \in SUBSET Prices
    BY <1>2, <1>6
  <2> HIDE DEF T
  <2>2. T # {} => Best(side, T) \in T
    BY <1>1, <2>1, BestBeats
  <2>3. /\ new \in [BookSides -> Prices \cup {None}]
        /\ \A k \in BookSides : k # side => new[k] = best[k]
        /\ new[side] = IF b # p THEN b ELSE IF T = {} THEN None ELSE Best(side, T)
    BY <1>1, <2>1, <2>2
  <2> HIDE DEF new
  <2>4. new[side] = IF T = {} THEN None ELSE Best(side, T)
    <3>1. CASE b = p
      BY <2>3, <3>1
    <3>2. CASE b # p /\ Standing(units, side) = {}
      BY <1>3, <2>1, <2>3, <3>2
    <3>3. CASE b # p /\ Standing(units, side) # {}
      <4>1. /\ b \in Standing(units, side)
            /\ \A y \in Standing(units, side) : ~BetterPrice(side, y, b)
        BY <1>1, <1>2, <1>3, <3>3, BestBeats
      <4>2. b \in T /\ \A y \in T : ~BetterPrice(side, y, b)
        BY <2>1, <3>3, <4>1
      <4> HIDE DEF side, b
      <4>3. Best(side, T) = b
        BY <1>1, <2>1, <4>2, BestIs
      <4> QED BY <2>3, <3>3, <4>2, <4>3
    <3> QED BY <3>1, <3>2, <3>3
  <2>5. \A k \in BookSides :
           new[k] = IF Standing(w, k) = {} THEN None ELSE Best(k, Standing(w, k))
    BY <1>2, <2>3, <2>4 DEF BestNow, T
  <2> QED BY <2>3, <2>5 DEF BestNow
<1> QED BY <1>5, <1>6

(***************************************************************************)
(* Reconstructors.                                                         *)
(***************************************************************************)

Recons ==
  [emits : BOOLEAN, newestFirst : BOOLEAN, queues : [Levels -> Seq(AnyOrder)],
   units : [Levels -> Nat], best : [BookSides -> Prices \cup {None}], nextId : Nat \ {0},
   symbol : BOOLEAN, time : Int, events : Seq(MBOEvents), added : Nat, cancelled : Nat,
   raised : BOOLEAN]

(* What a level's virtual queue holds is its quantity.                     *)
QueuesHold(r) ==
  \A L \in Levels : /\ r.queues[L] \in Seq(VOrders(r.nextId))
                    /\ IF r.emits THEN Held(r.queues[L]) = r.units[L] ELSE r.queues[L] = <<>>

ReconOK(r) == r \in Recons /\ QueuesHold(r) /\ BestNow(r.best, r.units) /\ ~r.raised

SameKind(r, s) == /\ s.emits = r.emits /\ s.newestFirst = r.newestFirst
                  /\ s.symbol = r.symbol /\ s.time = r.time

(* Events are appended, at ts.                                             *)
EventsGrow(a, b, ts) ==
  \A lo, hi \in Nat : lo <= hi /\ hi <= ts /\ InTime(a, lo, hi) => InTime(b, lo, ts)

LEMMA ReconFacts ==
  ASSUME NEW r, ReconOK(r)
  PROVE  /\ r.emits \in BOOLEAN /\ r.newestFirst \in BOOLEAN /\ r.queues \in [Levels -> Seq(AnyOrder)]
         /\ r.units \in [Levels -> Nat] /\ r.best \in [BookSides -> Prices \cup {None}]
         /\ r.nextId \in Nat \ {0} /\ r.symbol \in BOOLEAN /\ r.time \in Int
         /\ r.events \in Seq(MBOEvents) /\ r.added \in Nat /\ r.cancelled \in Nat
         /\ r.raised = FALSE /\ BestNow(r.best, r.units)
         /\ \A L \in Levels : /\ r.units[L] \in Nat
                              /\ r.queues[L] \in Seq(VOrders(r.nextId))
                              /\ r.emits => Held(r.queues[L]) = r.units[L]
                              /\ ~r.emits => r.queues[L] = <<>>
<1>1. /\ r.emits \in BOOLEAN /\ r.newestFirst \in BOOLEAN /\ r.queues \in [Levels -> Seq(AnyOrder)]
      /\ r.units \in [Levels -> Nat] /\ r.best \in [BookSides -> Prices \cup {None}]
      /\ r.nextId \in Nat \ {0} /\ r.symbol \in BOOLEAN /\ r.time \in Int
      /\ r.events \in Seq(MBOEvents) /\ r.added \in Nat /\ r.cancelled \in Nat
      /\ r.raised \in BOOLEAN
  BY DEF ReconOK, Recons
<1>2. r.raised = FALSE /\ BestNow(r.best, r.units)
  BY <1>1 DEF ReconOK
<1>3. \A L \in Levels : r.units[L] \in Nat
  BY <1>1
<1>4. \A L \in Levels : /\ r.queues[L] \in Seq(VOrders(r.nextId))
                        /\ r.emits => Held(r.queues[L]) = r.units[L]
                        /\ ~r.emits => r.queues[L] = <<>>
  BY <1>1 DEF ReconOK, QueuesHold
<1> QED BY <1>1, <1>2, <1>3, <1>4

LEMMA EventTimes == \A x \in MBOEvents : x.ts \in Nat
  BY DEF MBOEvents

LEMMA EventIs ==
  ASSUME NEW L \in Levels, NEW n \in Nat \ {0}, NEW id \in Nat, NEW ts \in Nat,
         NEW action \in {"add", "cancel", "trade"}
  PROVE  /\ MBOEventAt(action, L, n, id, ts) \in MBOEvents
         /\ MBOEventAt(action, L, n, id, ts).ts = ts
  BY IdsAssumption DEF MBOEvents, MBOEventAt

LEMMA EventsStay ==
  ASSUME NEW a \in Seq(MBOEvents), NEW ts \in Nat
  PROVE  EventsGrow(a, a, ts)
<1>1. \A x \in MBOEvents : x.ts \in Nat
  BY EventTimes
<1>2. ASSUME NEW lo \in Nat, NEW hi \in Nat, lo <= hi, hi <= ts, InTime(a, lo, hi)
      PROVE  InTime(a, lo, ts)
  BY <1>1, <1>2, InTimeLater
<1> QED BY <1>2 DEF EventsGrow

LEMMA EventsGrowOn ==
  ASSUME NEW a, NEW b, NEW c, NEW t \in Nat, NEW u \in Nat, t <= u,
         EventsGrow(a, b, t), EventsGrow(b, c, u)
  PROVE  \A lo, hi \in Nat : lo <= hi /\ hi <= t /\ InTime(a, lo, hi) => InTime(c, lo, u)
<1> SUFFICES ASSUME NEW lo \in Nat, NEW hi \in Nat, lo <= hi, hi <= t, InTime(a, lo, hi)
             PROVE  InTime(c, lo, u)
  OBVIOUS
<1>1. InTime(b, lo, t)
  BY DEF EventsGrow
<1>2. lo <= t
  OBVIOUS
<1> QED BY <1>1, <1>2 DEF EventsGrow

LEMMA EventAppended ==
  ASSUME NEW a \in Seq(MBOEvents), NEW x \in MBOEvents
  PROVE  Append(a, x) \in Seq(MBOEvents) /\ EventsGrow(a, Append(a, x), x.ts)
<1>1. \A y \in MBOEvents : y.ts \in Nat
  BY EventTimes
<1>2. ASSUME NEW lo \in Nat, NEW hi \in Nat, lo <= hi, hi <= x.ts, InTime(a, lo, hi)
      PROVE  InTime(Append(a, x), lo, x.ts)
  BY <1>1, <1>2, InTimeAppend
<1> QED BY <1>2 DEF EventsGrow

(***************************************************************************)
(* An engine that replays the events holds the virtual queues.             *)
(***************************************************************************)

(* The first and the last entry of a queue without duplicates.             *)
LEMMA WithoutEnds ==
  ASSUME NEW q \in Seq(Entries), q # <<>>, \A i, j \in 1..Len(q) : q[i] = q[j] => i = j
  PROVE  Without(q, q[1]) = Tail(q) /\ Without(q, q[Len(q)]) = Front(q)
<1> DEFINE N == Len(q)
<1>1. N \in Nat \ {0} /\ 1 \in 1..N /\ N \in 1..N
  OBVIOUS
<1>2. /\ Tail(q) \in Seq(Entries) /\ Len(Tail(q)) = N - 1
      /\ \A i \in 1..(N - 1) : Tail(q)[i] = q[i + 1]
  OBVIOUS
<1>3. /\ Front(q) \in Seq(Entries) /\ Len(Front(q)) = N - 1
      /\ \A i \in 1..(N - 1) : Front(q)[i] = q[i]
  <2>1. Front(q) \in Seq(Entries) /\ Len(Front(q)) = N - 1 /\ q = Append(Front(q), q[N])
    BY FrontFacts
  <2> DEFINE w == Front(q)
             x == q[N]
  <2>2. w \in Seq(Entries) /\ Len(w) = N - 1 /\ q = Append(w, x)
    BY <2>1
  <2> HIDE DEF w, x
  <2>3. \A i \in 1..(N - 1) : w[i] = q[i]
    BY <2>2
  <2> QED BY <2>2, <2>3 DEF w
<1>4. \A i \in 1..N : q[i] \in Entries
  OBVIOUS
<1>5. Without(q, q[1]) = Tail(q)
  <2> DEFINE x == q[1]
  <2>1. PICK f : KeptTurns(f, q, x)
    BY WithoutTurns
  <2>2. /\ f[0] = <<>> /\ Without(q, x) = f[N]
        /\ \A n \in Nat : f[n + 1] = IF q[n + 1] = x THEN f[n] ELSE Append(f[n], q[n + 1])
    BY <2>1 DEF KeptTurns
  <2> DEFINE P(n) == /\ f[n + 1] \in Seq(Entries) /\ Len(f[n + 1]) = n
                     /\ \A i \in 1..n : f[n + 1][i] = q[i + 1]
             S == {n \in Nat : n + 1 <= N => P(n)}
  <2>3. \A k \in 2..N : q[k] # x
    BY <1>1
  <2> HIDE DEF x, N
  <2>4. 0 \in S
    <3>1. f[0 + 1] = <<>> /\ <<>> \in Seq(Entries) /\ Len(<<>>) = 0
      <4>1. f[0 + 1] = IF q[0 + 1] = x THEN f[0] ELSE Append(f[0], q[0 + 1])
        BY <2>2
      <4> QED BY <2>2, <4>1 DEF x
    <3> DEFINE u == f[0 + 1]
    <3>2. u = <<>> /\ u \in Seq(Entries) /\ Len(u) = 0
      BY <3>1
    <3> HIDE DEF u
    <3>3. P(0)
      BY <3>2 DEF u
    <3> HIDE DEF P
    <3> QED BY <3>3
  <2>5. ASSUME NEW n \in S PROVE n + 1 \in S
    <3> SUFFICES ASSUME (n + 1) + 1 <= N PROVE P(n + 1)
      BY <2>5
    <3> DEFINE u == f[n + 1]
               w == f[(n + 1) + 1]
               y == q[(n + 1) + 1]
    <3>1. n \in Nat /\ n + 1 \in Nat /\ n + 1 <= N /\ (n + 1) + 1 \in 2..N /\ (n + 1) + 1 \in 1..N
      BY <1>1, <2>5
    <3>2. w = Append(u, y) /\ y \in Entries
      BY <1>4, <2>2, <2>3, <3>1
    <3>3. u \in Seq(Entries) /\ Len(u) = n /\ \A i \in 1..n : u[i] = q[i + 1]
      BY <2>5, <3>1
    <3> HIDE DEF u, w
    <3>4. /\ w \in Seq(Entries) /\ Len(w) = n + 1 /\ w[n + 1] = y
          /\ \A i \in 1..n : w[i] = u[i]
      BY <3>1, <3>2, <3>3
    <3>5. \A i \in 1..(n + 1) : w[i] = q[i + 1]
      BY <3>1, <3>3, <3>4
    <3> QED BY <3>4, <3>5 DEF w
  <2>6. P(N - 1)
    <3>1. S = Nat
      <4>1. S \in SUBSET Nat
        OBVIOUS
      <4> HIDE DEF S
      <4> QED BY <2>4, <2>5, <4>1, SetInduction
    <3>2. N - 1 \in Nat /\ (N - 1) + 1 <= N
      BY <1>1
    <3>3. N - 1 \in S
      <4> HIDE DEF S
      <4> QED BY <3>1, <3>2
    <3> HIDE DEF P
    <3> QED BY <3>2, <3>3
  <2> DEFINE w == f[N]
  <2>7. /\ w \in Seq(Entries) /\ Len(w) = N - 1
        /\ \A i \in 1..(N - 1) : w[i] = q[i + 1]
    <3>1. (N - 1) + 1 = N
      BY <1>1
    <3> QED BY <2>6, <3>1
  <2> HIDE DEF w
  <2> DEFINE t == Tail(q)
  <2>8. t \in Seq(Entries) /\ Len(t) = N - 1 /\ \A i \in 1..(N - 1) : t[i] = q[i + 1]
    BY <1>2
  <2> HIDE DEF t
  <2>9. w = t
    BY <2>7, <2>8, SeqEqual
  <2> QED BY <2>2, <2>9 DEF w, t, x
<1>6. Without(q, q[N]) = Front(q)
  <2> DEFINE x == q[N]
  <2>1. PICK f : KeptTurns(f, q, x)
    BY WithoutTurns
  <2>2. /\ f[0] = <<>> /\ Without(q, x) = f[N]
        /\ \A n \in Nat : f[n + 1] = IF q[n + 1] = x THEN f[n] ELSE Append(f[n], q[n + 1])
    BY <2>1 DEF KeptTurns
  <2> DEFINE P(n) == /\ f[n] \in Seq(Entries) /\ Len(f[n]) = n
                     /\ \A i \in 1..n : f[n][i] = q[i]
             S == {n \in Nat : n <= N - 1 => P(n)}
  <2>3. \A k \in 1..(N - 1) : q[k] # x
    BY <1>1
  <2> HIDE DEF x, N
  <2>4. 0 \in S
    <3> DEFINE u == f[0]
    <3>1. u = <<>> /\ u \in Seq(Entries) /\ Len(u) = 0
      BY <2>2
    <3> HIDE DEF u
    <3>2. P(0)
      BY <3>1 DEF u
    <3> HIDE DEF P
    <3> QED BY <3>2
  <2>5. ASSUME NEW n \in S PROVE n + 1 \in S
    <3> SUFFICES ASSUME n + 1 <= N - 1 PROVE P(n + 1)
      BY <2>5
    <3> DEFINE u == f[n]
               w == f[n + 1]
               y == q[n + 1]
    <3>1. n \in Nat /\ n <= N - 1 /\ n + 1 \in 1..(N - 1) /\ n + 1 \in 1..N
      BY <1>1, <2>5
    <3>2. w = Append(u, y) /\ y \in Entries
      BY <1>4, <2>2, <2>3, <3>1
    <3>3. u \in Seq(Entries) /\ Len(u) = n /\ \A i \in 1..n : u[i] = q[i]
      BY <2>5, <3>1
    <3> HIDE DEF u, w
    <3>4. /\ w \in Seq(Entries) /\ Len(w) = n + 1 /\ w[n + 1] = y
          /\ \A i \in 1..n : w[i] = u[i]
      BY <3>1, <3>2, <3>3
    <3>5. \A i \in 1..(n + 1) : w[i] = q[i]
      BY <3>1, <3>3, <3>4
    <3> QED BY <3>4, <3>5 DEF w
  <2>6. P(N - 1)
    <3>1. S = Nat
      <4>1. S \in SUBSET Nat
        OBVIOUS
      <4> HIDE DEF S
      <4> QED BY <2>4, <2>5, <4>1, SetInduction
    <3>2. N - 1 \in Nat /\ N - 1 <= N - 1
      BY <1>1
    <3>3. N - 1 \in S
      <4> HIDE DEF S
      <4> QED BY <3>1, <3>2
    <3> HIDE DEF P
    <3> QED BY <3>2, <3>3
  <2> DEFINE w == f[N - 1]
             t == Front(q)
  <2>7. /\ w \in Seq(Entries) /\ Len(w) = N - 1
        /\ \A i \in 1..(N - 1) : w[i] = q[i]
    BY <2>6
  <2>8. f[N] = w
    <3>1. N - 1 \in Nat /\ (N - 1) + 1 = N
      BY <1>1
    <3>2. f[(N - 1) + 1] = IF q[(N - 1) + 1] = x THEN f[N - 1]
                           ELSE Append(f[N - 1], q[(N - 1) + 1])
      BY <2>2, <3>1
    <3> QED BY <3>1, <3>2 DEF x
  <2>9. t \in Seq(Entries) /\ Len(t) = N - 1 /\ \A i \in 1..(N - 1) : t[i] = q[i]
    BY <1>3
  <2> HIDE DEF w, t
  <2>10. w = t
    BY <2>7, <2>9, SeqEqual
  <2> QED BY <2>2, <2>8, <2>10 DEF t, x
<1> QED BY <1>5, <1>6 DEF N

(***************************************************************************)
(* Engines that hold a virtual queue.                                      *)
(***************************************************************************)

(* The entries of a virtual queue in the engine that replays it.           *)
Names(q) == [i \in 1..Len(q) |-> Public(q[i].id)]

(* Level L of engine f is virtual queue q.                                 *)
Lined(f, L, q) ==
  /\ f.book[L] = Held(q)
  /\ f.queues[L] = Names(q)
  /\ \A i \in 1..Len(q) : /\ Public(q[i].id) \in DOMAIN f.orders
                          /\ f.orders[Public(q[i].id)] = [level |-> L, size |-> q[i].size]
  /\ \A i, j \in 1..Len(q) : q[i].id = q[j].id => i = j

(* Every level is, and no other order lives in f: the next id is m.        *)
Shown(f, queues, m) ==
  /\ EngineInv(f) /\ DOMAIN f.orders \subseteq {Public(i) : i \in 1..(m - 1)}
  /\ \A L \in Levels : Lined(f, L, queues[L])

(* From f to g only level L changes.                                       *)
OnlyAt(f, g, L) ==
  /\ DOMAIN g.orders \subseteq DOMAIN f.orders
  /\ \A M \in Levels : M # L => g.book[M] = f.book[M] /\ g.queues[M] = f.queues[M]
  /\ \A x \in DOMAIN f.orders :
        f.orders[x].level # L => x \in DOMAIN g.orders /\ g.orders[x] = f.orders[x]

LEMMA NamesFacts ==
  ASSUME NEW q \in Seq(AnyOrder)
  PROVE  /\ Names(q) \in Seq(Entries) /\ Len(Names(q)) = Len(q)
         /\ \A i \in 1..Len(q) : Names(q)[i] = Public(q[i].id)
         /\ \A i \in 1..Len(q) : q[i] \in AnyOrder /\ Public(q[i].id) \in Entries
<1>1. \A i \in 1..Len(q) : q[i] \in AnyOrder
  OBVIOUS
<1>2. \A x \in AnyOrder : Public(x.id) \in Entries
  BY IdsAssumption DEF AnyOrder, Public, Entries
<1>3. \A i \in 1..Len(q) : Public(q[i].id) \in Entries
  BY <1>1, <1>2
<1>4. Len(q) \in Nat
  OBVIOUS
<1> DEFINE w == Names(q)
<1>5. w = [i \in 1..Len(q) |-> Public(q[i].id)]
  BY DEF Names
<1> HIDE DEF w
<1>6. w \in Seq(Entries) /\ Len(w) = Len(q) /\ \A i \in 1..Len(q) : w[i] = Public(q[i].id)
  BY <1>3, <1>4, <1>5
<1> QED BY <1>1, <1>3, <1>6 DEF w

(* Queues whose orders have the same ids have the same names.              *)
LEMMA SameNames ==
  ASSUME NEW q, NEW w, Len(w) = Len(q), \A i \in 1..Len(q) : w[i].id = q[i].id
  PROVE  Names(w) = Names(q)
BY DEF Names

LEMMA NamesAppend ==
  ASSUME NEW q \in Seq(AnyOrder), NEW x \in AnyOrder
  PROVE  Names(Append(q, x)) = Append(Names(q), Public(x.id))
<1> DEFINE a == Append(q, x)
           u == Names(a)
           w == Append(Names(q), Public(x.id))
           n == Len(q)
<1>1. a \in Seq(AnyOrder) /\ Len(a) = n + 1 /\ n \in Nat
      /\ \A i \in 1..(n + 1) : a[i] = IF i = n + 1 THEN x ELSE q[i]
  OBVIOUS
<1>2. u \in Seq(Entries) /\ Len(u) = n + 1 /\ \A i \in 1..(n + 1) : u[i] = Public(a[i].id)
  <2> HIDE DEF a
  <2> QED BY <1>1, NamesFacts
<1> DEFINE v == Names(q)
           y == Public(x.id)
<1>3. v \in Seq(Entries) /\ Len(v) = n /\ \A i \in 1..n : v[i] = Public(q[i].id)
  BY NamesFacts
<1>4. y \in Entries
  BY IdsAssumption DEF AnyOrder, Public, Entries
<1> HIDE DEF v
<1>5. w \in Seq(Entries) /\ Len(w) = n + 1
      /\ \A i \in 1..(n + 1) : w[i] = IF i = n + 1 THEN y ELSE v[i]
  <2> HIDE DEF y
  <2>1. w = Append(v, y)
    BY DEF v, y
  <2> HIDE DEF w
  <2> QED BY <1>1, <1>3, <1>4, <2>1
<1> HIDE DEF u, w, a
<1>6. ASSUME NEW i \in 1..(n + 1) PROVE u[i] = w[i]
  <2>1. CASE i = n + 1
    BY <1>1, <1>2, <1>5, <2>1
  <2>2. CASE i # n + 1
    <3>1. i \in 1..n
      BY <1>1, <2>2
    <3> QED BY <1>1, <1>2, <1>3, <1>5, <2>2, <3>1
  <2> QED BY <2>1, <2>2
<1>7. u = w
  BY <1>2, <1>5, <1>6, SeqEqual
<1> QED BY <1>7 DEF u, w, a

LEMMA OnlyAtAgain ==
  ASSUME NEW f, NEW g, NEW h, NEW L, OnlyAt(f, g, L), OnlyAt(g, h, L)
  PROVE  OnlyAt(f, h, L)
BY DEF OnlyAt

(* What happens at one level leaves the others as they are.                *)
LEMMA OnlyAtShown ==
  ASSUME NEW f, NEW queues, NEW m, Shown(f, queues, m), NEW g, EngineInv(g), NEW L \in Levels,
         OnlyAt(f, g, L), NEW q, Lined(g, L, q), NEW new,
         \A M \in Levels : new[M] = IF M = L THEN q ELSE queues[M]
  PROVE  Shown(g, new, m)
<1>1. ASSUME NEW M \in Levels PROVE Lined(g, M, new[M])
  <2>1. CASE M = L
    BY <2>1
  <2>2. CASE M # L
    <3> DEFINE w == queues[M]
    <3>1. new[M] = w /\ Lined(f, M, w) /\ g.book[M] = f.book[M] /\ g.queues[M] = f.queues[M]
      BY <2>2 DEF Shown, OnlyAt
    <3> HIDE DEF w
    <3>2. ASSUME NEW i \in 1..Len(w)
          PROVE  /\ Public(w[i].id) \in DOMAIN g.orders
                 /\ g.orders[Public(w[i].id)] = [level |-> M, size |-> w[i].size]
      <4> DEFINE x == Public(w[i].id)
      <4>1. x \in DOMAIN f.orders /\ f.orders[x] = [level |-> M, size |-> w[i].size]
        BY <3>1 DEF Lined
      <4> HIDE DEF x
      <4>2. f.orders[x].level # L
        BY <2>2, <4>1
      <4> QED BY <4>1, <4>2 DEF OnlyAt, x
    <3> QED BY <3>1, <3>2 DEF Lined
  <2> QED BY <2>1, <2>2
<1>2. DOMAIN g.orders \subseteq {Public(i) : i \in 1..(m - 1)}
  BY DEF Shown, OnlyAt
<1> QED BY <1>1, <1>2 DEF Shown

(***************************************************************************)
(* One turn at the front or at the back of a queue, in the reconstructor   *)
(* and in an engine.                                                       *)
(***************************************************************************)

(* w is what is left of q when n is taken from its i-th order: its places  *)
(* are places p of q.                                                      *)
TakenFrom(q, w, i, n, p) ==
  /\ \A j \in 1..Len(w) : /\ p[j] \in 1..Len(q) /\ w[j].id = q[p[j]].id
                          /\ p[j] # i => w[j] = q[p[j]]
                          /\ p[j] = i => n < q[i].size /\ w[j].size = q[i].size - n
  /\ \A j, k \in 1..Len(w) : p[j] = p[k] => j = k

\* From s to t, a turn takes n from the i-th order.
TurnAt(s, newest, i, n, t) ==
  /\ s.left # 0 /\ s.q # <<>> /\ i = (IF newest THEN Len(s.q) ELSE 1)
  /\ n = Lesser(s.q[i].size, s.left) /\ t = DrainTurn(s, newest)

\* What it does.
TurnTakes(m, s, newest, i, n, t) ==
  /\ i \in 1..Len(s.q) /\ s.q[i] \in VOrders(m)
  /\ n \in Nat \ {0} /\ n <= s.q[i].size /\ n <= s.left
  /\ t.left = s.left - n /\ t.taken = Append(s.taken, [id |-> s.q[i].id, size |-> n])
  /\ t \in DrainStates(m) /\ Held(t.q) = Held(s.q) - n
  /\ n < s.q[i].size => Len(t.q) = Len(s.q) /\ \A j \in 1..Len(s.q) : t.q[j].id = s.q[j].id
  /\ n = s.q[i].size => t.q = IF newest THEN Front(s.q) ELSE Tail(s.q)
  /\ \E p : TakenFrom(s.q, t.q, i, n, p)

LEMMA DrainTurnIs ==
  ASSUME NEW m \in Nat, NEW s \in DrainStates(m), NEW newest \in BOOLEAN,
         NEW i, NEW n, NEW t, TurnAt(s, newest, i, n, t)
  PROVE  TurnTakes(m, s, newest, i, n, t)
<1> DEFINE q == s.q
           x == q[i]
           w == t.q
           O == VOrders(m)
<1>0. /\ s.left # 0 /\ s.q # <<>> /\ i = (IF newest THEN Len(s.q) ELSE 1)
      /\ n = Lesser(s.q[i].size, s.left) /\ t = DrainTurn(s, newest)
  BY DEF TurnAt
<1>1. /\ q \in Seq(O) /\ s.left \in Nat /\ s.taken \in Seq(O) /\ Len(q) \in Nat
      /\ q # <<>> /\ q \in Seq(AnyOrder)
  <2>1. q \in Seq(O) /\ s.left \in Nat /\ s.taken \in Seq(O)
    BY DEF DrainStates
  <2>2. q \in Seq(AnyOrder)
    BY <2>1, VOrdersFacts
  <2> QED BY <1>0, <2>1, <2>2
<1>2. i \in 1..Len(q) /\ x \in O /\ x.size \in Nat \ {0}
  <2> HIDE DEF q, O
  <2>1. i \in 1..Len(q)
    BY <1>0, <1>1 DEF q
  <2>2. x \in O
    BY <1>1, <2>1
  <2> HIDE DEF x
  <2> QED BY <2>1, <2>2 DEF O, VOrders
<1>3. n \in Nat \ {0} /\ n <= x.size /\ n <= s.left
  <2> HIDE DEF q, x
  <2> QED BY <1>0, <1>1, <1>2 DEF Lesser, x, q
<1>4. t = [q |-> IF n < x.size THEN [q EXCEPT ![i].size = @ - n]
                 ELSE IF newest THEN Front(q) ELSE Tail(q),
           left |-> s.left - n,
           taken |-> Append(s.taken, [id |-> x.id, size |-> n])]
  BY <1>0 DEF DrainTurn
<1>5. /\ t.left = s.left - n /\ t.taken = Append(s.taken, [id |-> x.id, size |-> n])
      /\ w = IF n < x.size THEN [q EXCEPT ![i].size = @ - n]
             ELSE IF newest THEN Front(q) ELSE Tail(q)
  BY <1>4
<1>6. t \in DrainStates(m) /\ Held(w) - t.left = Held(q) - s.left
  BY <1>0, DrainTurnFacts
<1>7. Held(w) = Held(q) - n
  <2>1. w \in Seq(AnyOrder)
    <3>1. w \in Seq(O)
      BY <1>6 DEF DrainStates
    <3> QED BY <3>1, VOrdersFacts
  <2>2. Held(w) \in Nat /\ Held(q) \in Nat
    BY <1>1, <2>1, HeldFacts
  <2> HIDE DEF w, q, x
  <2>3. t.left = s.left - n
    BY <1>5
  <2>4. s.left \in Nat /\ n \in Nat
    BY <1>1, <1>3
  <2>5. Held(w) - t.left = Held(q) - s.left
    BY <1>6
  <2> QED BY ONLY <2>2, <2>3, <2>4, <2>5
<1> HIDE DEF w
<1>8. CASE n < x.size
  <2>1. w = [q EXCEPT ![i].size = @ - n]
    BY <1>5, <1>8
  <2>2. Len(w) = Len(q) /\ \A j \in 1..Len(q) : w[j] = IF j = i THEN [x EXCEPT !.size = @ - n] ELSE q[j]
    <3> HIDE DEF q, O
    <3> QED BY <1>1, <1>2, <2>1
  <2>3. [x EXCEPT !.size = @ - n].id = x.id /\ [x EXCEPT !.size = @ - n].size = x.size - n
    <3> HIDE DEF x
    <3> QED BY <1>2 DEF O, VOrders
  <2> DEFINE p == [j \in 1..Len(q) |-> j]
             y == [x EXCEPT !.size = @ - n]
  <2>4. y.id = x.id /\ y.size = x.size - n
    BY <2>3
  <2>5. \A j \in 1..Len(q) : p[j] = j
    OBVIOUS
  <2> HIDE DEF p, y
  <2>6. \A j \in 1..Len(q) : w[j] = IF j = i THEN y ELSE q[j]
    BY <2>2 DEF y
  <2>7. TakenFrom(q, w, i, n, p)
    <3> HIDE DEF q
    <3> QED BY <1>8, <2>2, <2>4, <2>5, <2>6 DEF TakenFrom, x
  <2>8. \A j \in 1..Len(q) : w[j].id = q[j].id
    BY <2>4, <2>6
  <2>9. n # x.size
    BY <1>2, <1>3, <1>8
  <2> QED BY <1>2, <1>3, <1>5, <1>6, <1>7, <2>2, <2>7, <2>8, <2>9 DEF w, TurnTakes
<1>9. CASE n = x.size
  <2> HIDE DEF q, O
  <2>1. w = IF newest THEN Front(q) ELSE Tail(q)
    <3>1. ~(n < x.size)
      BY <1>2, <1>9
    <3> QED BY <1>5, <3>1
  <2> DEFINE p == [j \in 1..Len(q) |-> IF newest THEN j ELSE j + 1]
  <2>2. /\ Len(w) = Len(q) - 1
        /\ \A j \in 1..Len(w) : p[j] \in 1..Len(q) /\ p[j] # i /\ w[j] = q[p[j]]
        /\ \A j, k \in 1..Len(w) : p[j] = p[k] => j = k
    <3>1. CASE newest
      <4>1. w = Front(q) /\ i = Len(q)
        BY <1>0, <2>1, <3>1 DEF q
      <4>2. Len(w) = Len(q) - 1 /\ w \in Seq(O) /\ q = Append(w, x)
        BY <1>1, <4>1, FrontFacts
      <4>3. \A j \in 1..Len(w) : w[j] = q[j] /\ p[j] = j /\ j \in 1..Len(q) /\ j # i
        <5>1. \A j \in 1..Len(w) : j \in 1..Len(q) /\ j # i
          BY <1>1, <4>1, <4>2
        <5>2. \A j \in 1..Len(w) : w[j] = Append(w, x)[j]
          <6> HIDE DEF x
          <6> QED BY <4>2
        <5>3. \A j \in 1..Len(w) : p[j] = j
          BY <3>1, <5>1
        <5> QED BY <4>2, <5>1, <5>2, <5>3
      <4> HIDE DEF p
      <4> QED BY <4>2, <4>3
    <3>2. CASE ~newest
      <4>1. w = Tail(q) /\ i = 1
        BY <1>0, <2>1, <3>2
      <4>2. Len(w) = Len(q) - 1 /\ \A j \in 1..Len(w) : w[j] = q[j + 1]
        BY <1>1, <4>1
      <4>3. \A j \in 1..Len(w) : p[j] = j + 1 /\ j + 1 \in 1..Len(q) /\ j + 1 # i /\ j \in Nat
        <5>1. \A j \in 1..Len(w) : j \in 1..Len(q) /\ j + 1 \in 1..Len(q) /\ j + 1 # i /\ j \in Nat
          BY <1>1, <4>1, <4>2
        <5> QED BY <3>2, <5>1
      <4> HIDE DEF p
      <4> QED BY <4>2, <4>3
    <3> QED BY <3>1, <3>2
  <2> HIDE DEF p
  <2>3. TakenFrom(q, w, i, n, p)
    BY <2>2 DEF TakenFrom
  <2>4. ~(n < x.size)
    BY <1>2, <1>9
  <2> QED BY <1>2, <1>3, <1>5, <1>6, <1>7, <2>1, <2>3, <2>4 DEF w, q, O, TurnTakes
<1>10. n < x.size \/ n = x.size
  BY <1>2, <1>3
<1> QED BY <1>8, <1>9, <1>10

(* An engine that takes the same from the order follows the queue.         *)
LEMMA TurnFollowed ==
  ASSUME NEW f, EngineOK(f), NEW L \in Levels, NEW q \in Seq(AnyOrder), Lined(f, L, q),
         NEW i \in 1..Len(q), NEW n \in Nat \ {0}, n <= q[i].size,
         NEW w \in Seq(AnyOrder), Held(w) = Held(q) - n, NEW p, TakenFrom(q, w, i, n, p),
         NEW g, g.book = RemoveFromBook(f.book, L, n),
         g.orders = SetSize(f.orders, Public(q[i].id), q[i].size - n),
         g.queues = [f.queues EXCEPT ![L] = Names(w)]
  PROVE  Lined(g, L, w) /\ OnlyAt(f, g, L)
<1> DEFINE x == Public(q[i].id)
           left == q[i].size - n
<1>1. /\ f.book \in [Levels -> Nat] /\ f.queues \in [Levels -> Seq(Entries)]
      /\ f.orders \in [DOMAIN f.orders -> Orders]
  BY EngineFields
<1>2. /\ f.book[L] = Held(q)
      /\ \A j \in 1..Len(q) : /\ Public(q[j].id) \in DOMAIN f.orders
                              /\ f.orders[Public(q[j].id)] = [level |-> L, size |-> q[j].size]
      /\ \A j, k \in 1..Len(q) : q[j].id = q[k].id => j = k
  BY DEF Lined
<1>3. x \in DOMAIN f.orders /\ f.orders[x].level = L
  <2>1. x \in DOMAIN f.orders /\ f.orders[x] = [level |-> L, size |-> q[i].size]
    BY <1>2
  <2> HIDE DEF x
  <2> QED BY <2>1
<1>4. left \in Nat /\ Held(q) \in Nat /\ Held(w) \in Nat
  <2>1. q[i] \in AnyOrder
    OBVIOUS
  <2>2. q[i].size \in Nat
    BY <2>1 DEF AnyOrder
  <2> QED BY <2>2, HeldFacts
<1>5. g.book[L] = Held(w) /\ \A M \in Levels : M # L => g.book[M] = f.book[M]
  <2>1. n <= Held(q) /\ Held(w) = Held(q) - n
    BY <1>4
  <2>2. Lesser(f.book[L], n) = n
    BY <1>2, <1>4, <2>1 DEF Lesser
  <2>3. /\ g.book[L] = f.book[L] - Lesser(f.book[L], n)
        /\ \A M \in Levels : M # L => g.book[M] = f.book[M]
    BY <1>1 DEF RemoveFromBook
  <2> QED BY <1>2, <2>1, <2>2, <2>3
<1>6. g.queues[L] = Names(w) /\ \A M \in Levels : M # L => g.queues[M] = f.queues[M]
  BY <1>1
<1>7. /\ DOMAIN g.orders \subseteq DOMAIN f.orders
      /\ \A y \in DOMAIN f.orders : y # x => y \in DOMAIN g.orders /\ g.orders[y] = f.orders[y]
      /\ left # 0 => x \in DOMAIN g.orders /\ g.orders[x] = [level |-> L, size |-> left]
  <2> DEFINE o == f.orders
             h == SetSize(o, x, left)
  <2>1. g.orders = h /\ o \in [DOMAIN o -> Orders] /\ x \in DOMAIN o
    BY <1>1, <1>3
  <2>2. left # 0 => h[x] = [level |-> o[x].level, size |-> left]
    <3> HIDE DEF x, left
    <3> QED BY DEF SetSize, Put
  <2> HIDE DEF o, x, left
  <2>3. /\ DOMAIN h \subseteq DOMAIN o
        /\ \A y \in DOMAIN o : y \in DOMAIN h <=> y # x \/ left # 0
        /\ \A y \in DOMAIN h : y # x => h[y] = o[y]
    <3>1. /\ o \in [DOMAIN o -> Orders] /\ x \in DOMAIN o /\ left \in Nat
      BY <1>4, <2>1
    <3> QED BY ONLY <3>1, SetSizeFacts
  <2> HIDE DEF h
  <2>4. \A y \in DOMAIN o : y # x => y \in DOMAIN h /\ h[y] = o[y]
    BY <2>3
  <2>5. left # 0 => x \in DOMAIN h /\ h[x] = [level |-> L, size |-> left]
    BY <1>3, <2>1, <2>2, <2>3 DEF o
  <2> QED BY <2>1, <2>3, <2>4, <2>5 DEF o
<1>8. ASSUME NEW j \in 1..Len(w)
      PROVE  /\ Public(w[j].id) \in DOMAIN g.orders
             /\ g.orders[Public(w[j].id)] = [level |-> L, size |-> w[j].size]
  <2> DEFINE y == Public(w[j].id)
             k == p[j]
  <2>1. /\ k \in 1..Len(q) /\ w[j].id = q[k].id /\ (k # i => w[j] = q[k])
        /\ (k = i => n < q[i].size /\ w[j].size = left)
    BY DEF TakenFrom
  <2> HIDE DEF k
  <2>2. y = Public(q[k].id)
    BY <2>1
  <2>3. CASE k = i
    <3>1. left # 0 /\ y = x
      <4>1. q[i].size \in Nat
        <5>1. q[i] \in AnyOrder
          OBVIOUS
        <5> QED BY <5>1 DEF AnyOrder
      <4> QED BY <2>1, <2>2, <2>3, <4>1
    <3> QED BY <1>7, <2>1, <2>3, <3>1
  <2>4. CASE k # i
    <3>1. y # x
      <4>1. q[k].id # q[i].id
        BY <1>2, <2>1, <2>4
      <4> QED BY <2>2, <4>1 DEF Public
    <3>2. y \in DOMAIN f.orders /\ f.orders[y] = [level |-> L, size |-> q[k].size]
      BY <1>2, <2>1, <2>2
    <3> HIDE DEF x, y
    <3> QED BY <1>7, <2>1, <2>4, <3>1, <3>2 DEF y
  <2> QED BY <2>3, <2>4
<1>9. ASSUME NEW j \in 1..Len(w), NEW k \in 1..Len(w), w[j].id = w[k].id
      PROVE  j = k
  <2>1. p[j] \in 1..Len(q) /\ p[k] \in 1..Len(q) /\ w[j].id = q[p[j]].id /\ w[k].id = q[p[k]].id
    BY DEF TakenFrom
  <2> DEFINE y == p[j]
             z == p[k]
  <2>2. y \in 1..Len(q) /\ z \in 1..Len(q) /\ q[y].id = q[z].id
    BY <1>9, <2>1
  <2> HIDE DEF y, z
  <2>3. y = z
    BY <1>2, <2>2
  <2>4. p[j] = p[k] /\ \A a, b \in 1..Len(w) : p[a] = p[b] => a = b
    BY <2>3 DEF TakenFrom, y, z
  <2> QED BY ONLY <1>9, <2>4
<1>10. Lined(g, L, w)
  BY <1>5, <1>6, <1>8, <1>9 DEF Lined
<1>11. ASSUME NEW y \in DOMAIN f.orders, f.orders[y].level # L
       PROVE  y \in DOMAIN g.orders /\ g.orders[y] = f.orders[y]
  <2>1. y # x
    BY <1>3, <1>11
  <2> HIDE DEF x
  <2> QED BY <1>7, <2>1
<1>12. OnlyAt(f, g, L)
  BY <1>5, <1>6, <1>7, <1>11 DEF OnlyAt
<1> QED BY <1>10, <1>12

(* A level of nothing is empty.                                            *)
LEMMA LinedEmpty ==
  ASSUME NEW q \in Seq(AnyOrder)
  PROVE  (Held(q) = 0 => q = <<>>) /\ (q = <<>> <=> Names(q) = <<>>)
<1>1. q # <<>> => Held(q) # 0
  <2> SUFFICES ASSUME q # <<>> PROVE Held(q) # 0
    OBVIOUS
  <2>1. Held(q) = Head(q).size + Held(Tail(q)) /\ Tail(q) \in Seq(AnyOrder)
    BY HeldFront
  <2>2. Held(Tail(q)) \in Nat
    BY <2>1, HeldFacts
  <2>3. Head(q) \in AnyOrder
    OBVIOUS
  <2>4. Head(q).size \in Nat \ {0}
    BY <2>3 DEF AnyOrder
  <2> QED BY <2>1, <2>2, <2>4
<1>2. Names(q) \in Seq(Entries) /\ Len(Names(q)) = Len(q)
  BY NamesFacts
<1> QED BY <1>1, <1>2

(* What an engine keeps of a level when only its clock or its list of fills changes. *)
LEMMA SameLines ==
  ASSUME NEW f, NEW g, g.book = f.book, g.orders = f.orders, g.queues = f.queues, NEW L
  PROVE  OnlyAt(f, g, L) /\ \A q : Lined(f, L, q) => Lined(g, L, q)
BY DEF OnlyAt, Lined

(* A turn of the engine's loop and the turn of the reconstructor's loop.   *)
Paired(m, L, s, d) ==
  /\ s \in ConsumeStates /\ d \in DrainStates(m)
  /\ s.rem = d.left /\ Lined(s.e, L, d.q)

LEMMA ConsumeStepFollows ==
  ASSUME NEW m \in Nat, NEW s, NEW d, NEW L \in Levels, NEW ts \in Nat, Paired(m, L, s, d)
  PROVE  /\ Paired(m, L, ConsumeStep(s, L, ts), DrainTurn(d, FALSE))
         /\ OnlyAt(s.e, ConsumeStep(s, L, ts).e, L)
<1>0. /\ s \in ConsumeStates /\ d \in DrainStates(m)
      /\ s.rem = d.left /\ Lined(s.e, L, d.q)
  BY DEF Paired
<1>0a. PICK t : t = ConsumeStep(s, L, ts)
  OBVIOUS
<1>0b. PICK c : c = DrainTurn(d, FALSE)
  OBVIOUS
<1>0c. SUFFICES Paired(m, L, t, c) /\ OnlyAt(s.e, t.e, L)
  BY <1>0a, <1>0b
<1> DEFINE e == s.e
           q == d.q
           x == Public(q[1].id)
           n == Lesser(q[1].size, d.left)
           g == FillFront(e, x, L, n, ts)
<1>1. t \in ConsumeStates /\ c \in DrainStates(m)
  BY <1>0, <1>0a, <1>0b, ConsumeStepFacts, DrainTurnFacts
<1>2. /\ EngineOK(e) /\ d.left \in Nat /\ q \in Seq(AnyOrder)
      /\ e.queues[L] = Names(q)
  <2>1. q \in Seq(VOrders(m)) /\ d.left \in Nat
    BY <1>0 DEF DrainStates
  <2>2. q \in Seq(AnyOrder)
    BY <2>1, VOrdersFacts
  <2> QED BY <1>0, <2>1, <2>2 DEF ConsumeStates, EngineInv, Lined
<1>3. CASE d.left = 0 \/ q = <<>>
  <2>1. e.queues[L] = <<>> \/ s.rem = 0
    <3> HIDE DEF q
    <3> QED BY <1>0, <1>2, <1>3, LinedEmpty
  <2>2. t = s
    BY <1>0a, <2>1 DEF ConsumeStep
  <2>3. c = d
    BY <1>0b, <1>3 DEF DrainTurn
  <2>4. OnlyAt(e, e, L)
    BY DEF OnlyAt
  <2> QED BY <2>2, <2>3, <2>4
<1>4. CASE d.left # 0 /\ q # <<>>
  <2>1. /\ 1 \in 1..Len(q) /\ n \in Nat \ {0} /\ n <= q[1].size
        /\ c.left = d.left - n /\ Held(c.q) = Held(q) - n
        /\ n < q[1].size => Len(c.q) = Len(q) /\ \A j \in 1..Len(q) : c.q[j].id = q[j].id
        /\ n = q[1].size => c.q = Tail(q)
        /\ \E p : TakenFrom(q, c.q, 1, n, p)
    <3> DEFINE i == 1
    <3>0. PICK newest \in BOOLEAN : newest = FALSE
      OBVIOUS
    <3>1. newest \in BOOLEAN /\ TurnAt(d, newest, i, n, c)
      BY <1>0b, <1>4, <3>0 DEF TurnAt
    <3>2. m \in Nat /\ d \in DrainStates(m)
      BY <1>0
    <3> HIDE DEF i, n
    <3>4. TurnTakes(m, d, newest, i, n, c)
      BY ONLY <3>1, <3>2, DrainTurnIs
    <3>3. /\ i \in 1..Len(d.q) /\ n \in Nat \ {0} /\ n <= d.q[i].size
          /\ c.left = d.left - n /\ Held(c.q) = Held(d.q) - n
          /\ n < d.q[i].size => Len(c.q) = Len(d.q) /\ \A j \in 1..Len(d.q) : c.q[j].id = d.q[j].id
          /\ n = d.q[i].size => c.q = IF newest THEN Front(d.q) ELSE Tail(d.q)
          /\ \E p : TakenFrom(d.q, c.q, i, n, p)
      BY ONLY <3>4 DEF TurnTakes
    <3> QED BY <3>0, <3>3 DEF i
  <2>2. PICK p : TakenFrom(q, c.q, 1, n, p)
    BY <2>1
  <2>3. /\ x \in DOMAIN e.orders /\ e.orders[x] = [level |-> L, size |-> q[1].size]
        /\ Head(e.queues[L]) = x /\ e.queues[L] # <<>>
    <3>1. x \in DOMAIN e.orders /\ e.orders[x] = [level |-> L, size |-> q[1].size]
      BY <1>0, <2>1 DEF Lined
    <3>2. Names(q) \in Seq(Entries) /\ Len(Names(q)) = Len(q) /\ Names(q)[1] = x
      BY <1>2, <2>1, NamesFacts
    <3> DEFINE w == Names(q)
    <3>3. w \in Seq(Entries) /\ Len(w) = Len(q) /\ w[1] = x
      BY <3>2
    <3> HIDE DEF w, x, q
    <3>4. Head(w) = x /\ w # <<>>
      BY <1>2, <2>1, <3>3
    <3> QED BY <1>2, <3>1, <3>4 DEF w, q
  <2>4. t = [e |-> g, rem |-> s.rem - n]
    <3>1. e.orders[x].size = q[1].size
      <4> HIDE DEF x
      <4> QED BY <2>3
    <3>2. n = Lesser(e.orders[x].size, s.rem)
      BY <1>0, <3>1
    <3>3. ~(s.rem = 0 \/ s.e.queues[L] = <<>>)
      BY <1>0, <1>4, <2>3
    <3>4. t = [e |-> FillFront(s.e, x, L, Lesser(s.e.orders[x].size, s.rem), ts),
               rem |-> s.rem - Lesser(s.e.orders[x].size, s.rem)]
      <4> HIDE DEF x, n
      <4> QED BY <1>0a, <2>3, <3>3 DEF ConsumeStep
    <3> HIDE DEF n, x
    <3> QED BY <3>2, <3>4
  <2>5. /\ g.book = RemoveFromBook(e.book, L, n)
        /\ g.orders = SetSize(e.orders, x, q[1].size - n)
        /\ g.queues = IF q[1].size - n = 0 THEN PopFront(e.queues, L) ELSE e.queues
    <3>1. DOMAIN e = Fields /\ e.orders[x].size = q[1].size
      <4>1. DOMAIN e = Fields
        BY <1>2, EngineFields
      <4> HIDE DEF x
      <4> QED BY <2>3, <4>1
    <3> HIDE DEF x, n
    <3> QED BY <3>1 DEF FillFront, Fields
  <2> HIDE DEF n, g
  <2>6. g.queues = [e.queues EXCEPT ![L] = Names(c.q)]
    <3>1. e.queues \in [Levels -> Seq(Entries)] /\ q[1].size \in Nat
      <4>1. q[1] \in AnyOrder
        BY <1>2, <2>1
      <4> QED BY <1>2, <4>1, EngineFields DEF AnyOrder
    <3>2. CASE n = q[1].size
      <4>1. c.q = Tail(q) /\ q[1].size - n = 0
        <5>1. c.q = Tail(q)
          <6> HIDE DEF q
          <6> QED BY <2>1, <3>2
        <5>2. q[1].size - n = 0
          BY ONLY <3>1, <3>2
        <5> QED BY <5>1, <5>2
      <4>2. Tail(Names(q)) = Names(Tail(q))
        <5>1. Tail(q) \in Seq(AnyOrder) /\ Len(Tail(q)) = Len(q) - 1
              /\ \A j \in 1..(Len(q) - 1) : Tail(q)[j] = q[j + 1]
          <6> HIDE DEF q
          <6> QED BY <1>2, <1>4
        <5> DEFINE w == Names(q)
                   u == Tail(w)
                   r == Tail(q)
                   v == Names(r)
        <5>2. w \in Seq(Entries) /\ Len(w) = Len(q) /\ \A j \in 1..Len(q) : w[j] = Public(q[j].id)
          BY <1>2, NamesFacts
        <5>3. r \in Seq(AnyOrder) /\ Len(r) = Len(q) - 1 /\ \A j \in 1..(Len(q) - 1) : r[j] = q[j + 1]
          BY <5>1
        <5> HIDE DEF r
        <5>4. v \in Seq(Entries) /\ Len(v) = Len(q) - 1
              /\ \A j \in 1..(Len(q) - 1) : v[j] = Public(r[j].id)
          BY <5>3, NamesFacts
        <5> HIDE DEF w, v, q
        <5>5. u \in Seq(Entries) /\ Len(u) = Len(q) - 1 /\ \A j \in 1..(Len(q) - 1) : u[j] = w[j + 1]
          BY <1>2, <1>4, <5>2 DEF q
        <5> HIDE DEF u
        <5>6. \A j \in 1..(Len(q) - 1) : j + 1 \in 1..Len(q)
          BY <1>2
        <5>7. \A j \in 1..(Len(q) - 1) : u[j] = v[j]
          BY <5>2, <5>3, <5>4, <5>5, <5>6
        <5>8. u = v
          BY <5>4, <5>5, <5>7, SeqEqual
        <5> QED BY <5>8 DEF u, v, w, r
      <4>3. g.queues = [e.queues EXCEPT ![L] = Tail(@)]
        BY <2>5, <4>1 DEF PopFront
      <4> HIDE DEF q, e
      <4> QED BY <1>2, <4>1, <4>2, <4>3 DEF e
    <3>3. CASE n # q[1].size
      <4>1. n < q[1].size /\ q[1].size - n # 0
        BY <2>1, <3>1, <3>3
      <4>2. Names(c.q) = Names(q)
        BY <2>1, <4>1, SameNames
      <4> QED BY <1>2, <2>5, <3>1, <4>1, <4>2
    <3> QED BY <3>2, <3>3
  <2>7. c.q \in Seq(AnyOrder)
    <3>1. c.q \in Seq(VOrders(m))
      BY <1>1 DEF DrainStates
    <3> QED BY <3>1, VOrdersFacts
  <2>8. Lined(g, L, c.q) /\ OnlyAt(e, g, L)
    <3> DEFINE i == 1
               w == c.q
    <3>1. /\ EngineOK(e) /\ q \in Seq(AnyOrder) /\ Lined(e, L, q) /\ i \in 1..Len(q)
          /\ n \in Nat \ {0} /\ n <= q[i].size /\ w \in Seq(AnyOrder) /\ Held(w) = Held(q) - n
          /\ TakenFrom(q, w, i, n, p)
          /\ g.book = RemoveFromBook(e.book, L, n)
          /\ g.orders = SetSize(e.orders, Public(q[i].id), q[i].size - n)
          /\ g.queues = [e.queues EXCEPT ![L] = Names(w)]
      BY <1>0, <1>2, <2>1, <2>2, <2>5, <2>6, <2>7
    <3> HIDE DEF i, w, q, e
    <3>2. Lined(g, L, w) /\ OnlyAt(e, g, L)
      BY ONLY <3>1, L \in Levels, TurnFollowed
    <3> QED BY <3>2 DEF w
  <2>9. t.e = g /\ t.rem = c.left
    <3>1. t.e = g /\ t.rem = s.rem - n
      <4> HIDE DEF q, e
      <4> QED BY ONLY <2>4
    <3>2. c.left = d.left - n
      BY ONLY <2>1
    <3> QED BY <1>0, <3>1, <3>2
  <2> QED BY <1>1, <2>8, <2>9 DEF Paired
<1> QED BY <1>2, <1>3, <1>4

(* The turns of the engine's loop.                                         *)
LEMMA ConsumeTurns ==
  ASSUME NEW s \in ConsumeStates, NEW L \in Levels, NEW ts \in Nat
  PROVE  /\ ConsumeLoop(s, L, ts)[0] = s
         /\ \A k \in Nat : ConsumeLoop(s, L, ts)[k + 1] = ConsumeStep(ConsumeLoop(s, L, ts)[k], L, ts)
<1>1. \A t \in ConsumeStates : ConsumeStep(t, L, ts) \in ConsumeStates
  BY ConsumeStepFacts
<1> QED BY <1>1, ConsumeLoopTurns

(* Consuming a level takes what the reconstructor takes from its queue.    *)
LEMMA ConsumeFollows ==
  ASSUME NEW m \in Nat, NEW e, EngineInv(e), NEW L \in Levels, NEW q \in Seq(VOrders(m)),
         Lined(e, L, q), NEW n \in Nat, NEW ts \in Nat, NEW f, f = ConsumeLevel(e, L, n, ts)
  PROVE  Lined(f, L, Drain(q, n, FALSE).q) /\ OnlyAt(e, f, L)
<1> DEFINE N == Len(q)
           s == [e |-> e, rem |-> n]
           x == [q |-> q, left |-> n, taken |-> <<>>]
           loop == ConsumeLoop(s, L, ts)
<1>1. /\ N \in Nat /\ s \in ConsumeStates /\ x \in DrainStates(m)
      /\ s.e = e /\ s.rem = n /\ x.left = n /\ x.q = q
  BY EnginesFacts DEF ConsumeStates, EngineInv, DrainStates
<1>2. f = loop[N].e
  <2>1. Len(e.queues[L]) = N
    <3>1. q \in Seq(AnyOrder) /\ e.queues[L] = Names(q)
      BY VOrdersFacts DEF Lined
    <3>2. Len(Names(q)) = Len(q)
      BY <3>1, NamesFacts
    <3> QED BY <3>1, <3>2
  <2> HIDE DEF N
  <2> QED BY <2>1 DEF ConsumeLevel
<1>2a. PICK newest \in BOOLEAN : newest = FALSE
  OBVIOUS
<1>3. PICK turn : /\ turn[0] = x
                  /\ \A k \in 1..N : turn[k] = DrainTurn(turn[k - 1], newest)
                  /\ Drain(q, n, newest) = turn[N]
  <2>1. Len(q) \in Nat
    BY <1>1
  <2> QED BY ONLY <2>1, DrainTurns
<1> HIDE DEF s, x
<1>4. /\ loop[0] = s
      /\ \A k \in Nat : loop[k + 1] = ConsumeStep(loop[k], L, ts)
  BY <1>1, ConsumeTurns
<1> HIDE DEF loop, N
<1> DEFINE P(k) == Paired(m, L, loop[k], turn[k]) /\ OnlyAt(e, loop[k].e, L)
           S == {k \in Nat : k <= N => P(k)}
<1>5. 0 \in S
  <2>1. OnlyAt(e, e, L)
    BY DEF OnlyAt
  <2>2. P(0)
    BY <1>1, <1>3, <1>4, <2>1 DEF Paired
  <2> HIDE DEF P
  <2> QED BY <2>2
<1>6. ASSUME NEW k \in S PROVE k + 1 \in S
  <2> SUFFICES ASSUME k + 1 <= N PROVE P(k + 1)
    BY <1>6
  <2>1. k \in Nat /\ k <= N /\ k + 1 \in 1..N /\ (k + 1) - 1 = k
    BY <1>1, <1>6
  <2>2. P(k)
    <3> HIDE DEF P
    <3> QED BY <1>6, <2>1
  <2> DEFINE a == loop[k]
             b == turn[k]
             t == loop[k + 1]
             c == turn[k + 1]
  <2>3. Paired(m, L, a, b) /\ OnlyAt(e, a.e, L)
    BY <2>2
  <2>4. t = ConsumeStep(a, L, ts) /\ c = DrainTurn(b, FALSE)
    BY <1>2a, <1>3, <1>4, <2>1
  <2> HIDE DEF a, b, t, c, P, S
  <2>0. m \in Nat /\ L \in Levels /\ ts \in Nat
    OBVIOUS
  <2>5. Paired(m, L, t, c) /\ OnlyAt(a.e, t.e, L)
    BY ONLY <2>0, <2>3, <2>4, ConsumeStepFollows
  <2>6. OnlyAt(e, t.e, L)
    BY <2>3, <2>5, OnlyAtAgain
  <2> QED BY <2>5, <2>6 DEF t, c, P
<1>7. P(N)
  <2>1. S = Nat
    <3>1. S \in SUBSET Nat
      OBVIOUS
    <3> HIDE DEF S
    <3> QED BY <1>5, <1>6, <3>1, SetInduction
  <2>2. N \in S /\ N <= N
    <3> HIDE DEF S
    <3> QED BY <1>1, <2>1
  <2> HIDE DEF P
  <2> QED BY <2>2
<1> QED BY <1>2, <1>2a, <1>3, <1>7 DEF Paired

LEMMA NamesFront ==
  ASSUME NEW q \in Seq(AnyOrder), q # <<>>
  PROVE  Front(Names(q)) = Names(Front(q)) /\ Front(q) \in Seq(AnyOrder)
<1> DEFINE w == Names(q)
           u == Front(w)
           r == Front(q)
           v == Names(r)
           n == Len(q)
<1>1. w \in Seq(Entries) /\ Len(w) = n /\ n \in Nat \ {0} /\ \A j \in 1..n : w[j] = Public(q[j].id)
  BY NamesFacts
<1>2. r \in Seq(AnyOrder) /\ Len(r) = n - 1 /\ q = Append(r, q[n])
  BY FrontFacts
<1>3. \A j \in 1..(n - 1) : r[j] = q[j]
  <2> DEFINE x == q[n]
  <2>1. q = Append(r, x)
    BY <1>2
  <2> HIDE DEF r, x
  <2>2. \A j \in 1..(n - 1) : Append(r, x)[j] = r[j]
    BY <1>1, <1>2
  <2> QED BY <2>1, <2>2
<1> HIDE DEF r
<1>4. v \in Seq(Entries) /\ Len(v) = n - 1 /\ \A j \in 1..(n - 1) : v[j] = Public(r[j].id)
  BY <1>2, NamesFacts
<1> HIDE DEF w, v
<1>5. w # <<>>
  <2> HIDE DEF n
  <2> QED BY <1>1
<1>6. u \in Seq(Entries) /\ Len(u) = n - 1 /\ w = Append(u, w[n])
  BY <1>1, <1>5, FrontFacts
<1>7. \A j \in 1..(n - 1) : u[j] = w[j]
  <2> DEFINE x == w[n]
  <2>1. w = Append(u, x)
    BY <1>6
  <2> HIDE DEF u, x, n
  <2>2. \A j \in 1..(n - 1) : Append(u, x)[j] = u[j]
    BY <1>1, <1>6
  <2> QED BY <2>1, <2>2
<1> HIDE DEF u, n
<1>8. \A j \in 1..(n - 1) : u[j] = v[j]
  <2>1. \A j \in 1..(n - 1) : j \in 1..n
    BY <1>1
  <2> QED BY <1>1, <1>3, <1>4, <1>7, <2>1
<1>9. u = v
  BY <1>4, <1>6, <1>8, SeqEqual
<1> QED BY <1>2, <1>9 DEF u, v, w, r

LEMMA NamesTail ==
  ASSUME NEW q \in Seq(AnyOrder), q # <<>>
  PROVE  Tail(Names(q)) = Names(Tail(q)) /\ Tail(q) \in Seq(AnyOrder)
<1> DEFINE w == Names(q)
           u == Tail(w)
           r == Tail(q)
           v == Names(r)
           n == Len(q)
<1>1. w \in Seq(Entries) /\ Len(w) = n /\ n \in Nat \ {0} /\ \A j \in 1..n : w[j] = Public(q[j].id)
  BY NamesFacts
<1>2. r \in Seq(AnyOrder) /\ Len(r) = n - 1 /\ \A j \in 1..(n - 1) : r[j] = q[j + 1]
  OBVIOUS
<1> HIDE DEF r
<1>3. v \in Seq(Entries) /\ Len(v) = n - 1 /\ \A j \in 1..(n - 1) : v[j] = Public(r[j].id)
  BY <1>2, NamesFacts
<1> HIDE DEF w, v
<1>4. u \in Seq(Entries) /\ Len(u) = n - 1 /\ \A j \in 1..(n - 1) : u[j] = w[j + 1]
  BY <1>1
<1> HIDE DEF u, n
<1>5. \A j \in 1..(n - 1) : u[j] = v[j]
  <2> SUFFICES ASSUME NEW j \in 1..(n - 1) PROVE u[j] = v[j]
    OBVIOUS
  <2>1. j + 1 \in 1..n
    BY <1>1
  <2>2. u[j] = w[j + 1] /\ r[j] = q[j + 1] /\ v[j] = Public(r[j].id)
    BY <1>2, <1>3, <1>4 DEF n
  <2>3. w[j + 1] = Public(q[j + 1].id)
    BY <1>1, <2>1
  <2> QED BY <2>2, <2>3
<1>6. u = v
  BY <1>3, <1>4, <1>5, SeqEqual
<1> QED BY <1>2, <1>6 DEF u, v, w, r

(* The engine's clock.                                                     *)
LEMMA NowFacts ==
  ASSUME NEW f, EngineInv(f), NEW ts \in Nat, NEW g, g = [f EXCEPT !.now = ts]
  PROVE  EngineInv(g) /\ g.book = f.book /\ g.orders = f.orders /\ g.queues = f.queues
<1>1. EngineInv(g)
  BY AdvanceTimeFacts DEF AdvanceTime
<1>2. DOMAIN f = Fields
  BY EngineFields DEF EngineInv
<1> QED BY <1>1, <1>2 DEF Fields

(* Event ev brings level L of f to w, and nothing else changes.            *)
Follows(f, L, ev, w) ==
  /\ EngineInv(ApplyEvent(f, ev)) /\ Lined(ApplyEvent(f, ev), L, w)
  /\ OnlyAt(f, ApplyEvent(f, ev), L)

LEMMA TradeFollows ==
  ASSUME NEW m \in Nat, NEW f, EngineInv(f), NEW L \in Levels, NEW q \in Seq(VOrders(m)),
         Lined(f, L, q), NEW ev \in MBOEvents, ev.action = "trade", ev.level = L
  PROVE  Follows(f, L, ev, Drain(q, ev.size, FALSE).q)
<1> DEFINE g == [f EXCEPT !.now = ev.ts]
           h == ConsumeLevel(g, L, ev.size, ev.ts)
<1>1. ev.ts \in Nat /\ ev.size \in Nat
  BY DEF MBOEvents
<1>2. EngineInv(g) /\ g.book = f.book /\ g.orders = f.orders /\ g.queues = f.queues
  BY <1>1, NowFacts
<1>3. ApplyEvent(f, ev) = h
  BY DEF ApplyEvent
<1> HIDE DEF g
<1>4. OnlyAt(f, g, L) /\ Lined(g, L, q)
  BY <1>2, SameLines
<1>5. Lined(h, L, Drain(q, ev.size, FALSE).q) /\ OnlyAt(g, h, L)
  BY <1>1, <1>2, <1>4, ConsumeFollows
<1>6. EngineInv(ApplyEvent(f, ev))
  BY ApplyEventFacts
<1> HIDE DEF h
<1>7. OnlyAt(f, h, L)
  BY <1>4, <1>5, OnlyAtAgain
<1> QED BY <1>3, <1>5, <1>6, <1>7 DEF Follows

LEMMA CancelFollows ==
  ASSUME NEW m \in Nat, NEW f, EngineInv(f), NEW L \in Levels, NEW s \in DrainStates(m),
         Lined(f, L, s.q), NEW newest \in BOOLEAN, NEW i, NEW n, NEW t,
         TurnAt(s, newest, i, n, t), NEW ev \in MBOEvents, ev.action = "cancel",
         ev.id = s.q[i].id, ev.size = n
  PROVE  Follows(f, L, ev, t.q)
<1> DEFINE g == [f EXCEPT !.now = ev.ts]
           h == ApplyEvent(f, ev)
           q == s.q
           w == t.q
           x == Public(ev.id)
           size == q[i].size
           left == size - n
<1>1. TurnTakes(m, s, newest, i, n, t)
  BY DrainTurnIs
<1>2. /\ i \in 1..Len(q) /\ q[i] \in VOrders(m) /\ n \in Nat \ {0} /\ n <= size
      /\ t \in DrainStates(m) /\ Held(w) = Held(q) - n
      /\ n < size => Len(w) = Len(q) /\ \A j \in 1..Len(q) : w[j].id = q[j].id
      /\ n = size => w = IF newest THEN Front(q) ELSE Tail(q)
      /\ \E p : TakenFrom(q, w, i, n, p)
  BY <1>1 DEF TurnTakes
<1>3. q \in Seq(AnyOrder) /\ w \in Seq(AnyOrder) /\ size \in Nat /\ q # <<>>
      /\ i = (IF newest THEN Len(q) ELSE 1)
  <2>1. q \in Seq(VOrders(m)) /\ w \in Seq(VOrders(m))
    BY <1>2 DEF DrainStates
  <2>2. size \in Nat
    <3> DEFINE y == q[i]
    <3>1. y \in VOrders(m)
      BY <1>2
    <3> HIDE DEF y
    <3> QED BY <3>1, VOrdersFacts DEF y
  <2> HIDE DEF q, w
  <2>3. q # <<>> /\ i = (IF newest THEN Len(q) ELSE 1)
    BY DEF TurnAt, q
  <2> QED BY <2>1, <2>2, <2>3, VOrdersFacts
<1>4. EngineInv(g) /\ g.book = f.book /\ g.orders = f.orders /\ g.queues = f.queues
  BY NowFacts DEF MBOEvents
<1> HIDE DEF g
<1>5. OnlyAt(f, g, L) /\ Lined(g, L, q)
  BY <1>4, SameLines
<1>6. PICK p : TakenFrom(q, w, i, n, p)
  BY <1>2
<1> HIDE DEF q, w
<1>7. /\ x \in DOMAIN g.orders /\ g.orders[x] = [level |-> L, size |-> size]
      /\ g.queues[L] = Names(q) /\ \A j, k \in 1..Len(q) : q[j].id = q[k].id => j = k
  BY <1>2, <1>5 DEF Lined, q
<1>8. h = Resize(g, x, left)
  <2>1. h = CancelPublic(g, ev)
    BY DEF ApplyEvent, g
  <2>2. g.orders[x].size = size
    BY <1>7
  <2>3. Lesser(size, n) = n
    BY <1>2, <1>3 DEF Lesser
  <2> HIDE DEF h, size
  <2> QED BY <1>7, <2>1, <2>2, <2>3 DEF CancelPublic
<1>9. left \in Nat /\ ~(left >= size) /\ size - left = n /\ (left = 0 <=> n = size)
  <2> HIDE DEF size
  <2> QED BY <1>2, <1>3
<1> HIDE DEF h, left, size
<1>10. /\ h.book = RemoveFromBook(g.book, L, n) /\ h.orders = SetSize(g.orders, x, left)
       /\ h.queues = IF left = 0 THEN Dequeue(g.queues, L, x) ELSE g.queues
  <2>1. DOMAIN g = Fields
    BY <1>4, EngineFields DEF EngineInv
  <2> DEFINE o == g.orders[x]
  <2>2. o.level = L /\ o.size = size
    BY <1>7
  <2> HIDE DEF o, x
  <2> QED BY <1>8, <1>9, <2>1, <2>2 DEF Resize, Fields, o
<1>11. h.queues = [g.queues EXCEPT ![L] = Names(w)]
  <2>1. g.queues \in [Levels -> Seq(Entries)]
    BY <1>4, EngineFields DEF EngineInv
  <2>2. CASE n = size
    <3> DEFINE u == Names(q)
    <3>1. /\ u \in Seq(Entries) /\ Len(u) = Len(q)
          /\ \A j \in 1..Len(q) : u[j] = Public(q[j].id)
      BY <1>3, NamesFacts
    <3> HIDE DEF u
    <3>2. \A j, k \in 1..Len(u) : u[j] = u[k] => j = k
      BY <1>7, <3>1 DEF Public
    <3>3. u # <<>> /\ x = u[i]
      BY <1>2, <1>3, <3>1 DEF q
    <3>4. Without(u, u[1]) = Tail(u) /\ Without(u, u[Len(u)]) = Front(u)
      BY <3>1, <3>2, <3>3, WithoutEnds
    <3>5. Front(u) = Names(Front(q)) /\ Tail(u) = Names(Tail(q))
      BY <1>3, NamesFront, NamesTail DEF u
    <3>6. Without(u, x) = Names(w)
      <4>1. w = IF newest THEN Front(q) ELSE Tail(q)
        BY <1>2, <2>2 DEF size, q, w
      <4> HIDE DEF x
      <4>2. CASE newest
        BY <1>3, <3>1, <3>3, <3>4, <3>5, <4>1, <4>2
      <4>3. CASE ~newest
        BY <1>3, <3>1, <3>3, <3>4, <3>5, <4>1, <4>3
      <4> QED BY <4>2, <4>3
    <3>7. left = 0 /\ g.queues[L] = u
      BY <1>7, <1>9, <2>2 DEF u
    <3> HIDE DEF x
    <3> QED BY <1>10, <2>1, <3>6, <3>7 DEF Dequeue
  <2>3. CASE n # size
    <3>1. left # 0 /\ n < size
      BY <1>2, <1>3, <1>9, <2>3 DEF size, q
    <3>2. Names(w) = Names(q)
      BY <1>2, <3>1, SameNames DEF size, q, w
    <3> HIDE DEF x
    <3> QED BY <1>7, <1>10, <2>1, <3>1, <3>2
  <2> QED BY <2>2, <2>3
<1>12. Lined(h, L, w) /\ OnlyAt(g, h, L)
  <2>1. /\ EngineOK(g) /\ q \in Seq(AnyOrder) /\ Lined(g, L, q) /\ i \in 1..Len(q)
        /\ n \in Nat \ {0} /\ n <= q[i].size /\ w \in Seq(AnyOrder) /\ Held(w) = Held(q) - n
        /\ TakenFrom(q, w, i, n, p)
        /\ h.book = RemoveFromBook(g.book, L, n)
        /\ h.orders = SetSize(g.orders, Public(q[i].id), q[i].size - n)
        /\ h.queues = [g.queues EXCEPT ![L] = Names(w)]
    BY <1>2, <1>3, <1>4, <1>5, <1>6, <1>10, <1>11 DEF EngineInv, q, w, left, size
  <2> QED BY ONLY <2>1, L \in Levels, TurnFollowed
<1>13. EngineInv(h)
  BY ApplyEventFacts DEF h
<1>14. OnlyAt(f, h, L)
  BY <1>5, <1>12, OnlyAtAgain
<1> QED BY <1>12, <1>13, <1>14 DEF Follows, h, w

(* A new order joins the back of its level.                                *)
LEMMA AddFollows ==
  ASSUME NEW m \in Nat \ {0}, NEW f, NEW queues \in [Levels -> Seq(VOrders(m))],
         Shown(f, queues, m), NEW L \in Levels, NEW n \in Nat \ {0}, NEW ts \in Nat,
         NEW new,
         \A M \in Levels : new[M] = IF M = L THEN Append(queues[M], [id |-> m, size |-> n])
                                    ELSE queues[M]
  PROVE  Shown(ApplyEvent(f, MBOEventAt("add", L, n, m, ts)), new, m + 1)
<1> DEFINE ev == MBOEventAt("add", L, n, m, ts)
           g == [f EXCEPT !.now = ts]
           h == ApplyEvent(f, ev)
           q == queues[L]
           y == [id |-> m, size |-> n]
           w == Append(q, y)
           x == Public(m)
<1>1. ev \in MBOEvents
  <2>1. "add" \in {"add", "cancel", "trade"} /\ m \in Nat
    OBVIOUS
  <2> QED BY <2>1, EventIs
<1>2. /\ ev.action = "add" /\ ev.id = m /\ ev.level = L /\ ev.size = n /\ ev.ts = ts
  BY DEF MBOEventAt
<1>3. /\ EngineInv(f) /\ DOMAIN f.orders \subseteq {Public(i) : i \in 1..(m - 1)}
      /\ \A M \in Levels : Lined(f, M, queues[M])
  BY DEF Shown
<1>4. EngineInv(g) /\ g.book = f.book /\ g.orders = f.orders /\ g.queues = f.queues
  BY <1>3, NowFacts
<1>5. EngineInv(h)
  BY <1>1, <1>3, ApplyEventFacts
<1>6. h = Rest(g, x, L, n)
  <2> HIDE DEF ev, x
  <2>1. ev.action = "add" => h = Rest([f EXCEPT !.now = ev.ts], Public(ev.id), ev.level, ev.size)
    BY DEF ApplyEvent
  <2> QED BY <1>2, <2>1 DEF x
<1> HIDE DEF h, g, ev
<1>7. /\ h.orders = Put(g.orders, x, [level |-> L, size |-> n])
      /\ h.queues = Enqueue(g.queues, L, x) /\ h.book = AddToBook(g.book, L, n)
  <2>1. DOMAIN g = Fields
    BY <1>4, EngineFields DEF EngineInv
  <2> HIDE DEF x
  <2> QED BY <1>6, <2>1 DEF Rest, Fields
<1>8. /\ g.book \in [Levels -> Nat] /\ g.queues \in [Levels -> Seq(Entries)]
      /\ g.orders \in [DOMAIN g.orders -> Orders]
  BY <1>4, EngineFields DEF EngineInv
<1>9. /\ DOMAIN h.orders = DOMAIN g.orders \cup {x} /\ h.orders[x] = [level |-> L, size |-> n]
      /\ \A z \in DOMAIN g.orders : z # x => h.orders[z] = g.orders[z]
  <2> HIDE DEF x
  <2> QED BY <1>7 DEF Put
<1>10. /\ h.book[L] = f.book[L] + n /\ h.queues[L] = Append(f.queues[L], x)
       /\ \A M \in Levels : M # L => h.book[M] = f.book[M] /\ h.queues[M] = f.queues[M]
  <2> HIDE DEF x
  <2> QED BY <1>4, <1>7, <1>8 DEF AddToBook, Enqueue
<1>11. \A M \in Levels : \A i \in 1..Len(queues[M]) :
           queues[M][i] \in VOrders(m) /\ queues[M][i].id \in 1..(m - 1)
  <2> TAKE M \in Levels
  <2> DEFINE u == queues[M]
  <2>1. u \in Seq(VOrders(m))
    OBVIOUS
  <2> HIDE DEF u
  <2>2. \A i \in 1..Len(u) : u[i] \in VOrders(m)
    BY <2>1
  <2> QED BY <2>2, VOrdersFacts DEF u
<1>12. ASSUME NEW i \in 1..(m - 1) PROVE Public(i) # x
  BY DEF Public
<1>13. ASSUME NEW M \in Levels, NEW i \in 1..Len(queues[M])
       PROVE  /\ Public(queues[M][i].id) \in DOMAIN h.orders
              /\ h.orders[Public(queues[M][i].id)] = [level |-> M, size |-> queues[M][i].size]
  <2> DEFINE z == Public(queues[M][i].id)
  <2>1. z \in DOMAIN f.orders /\ f.orders[z] = [level |-> M, size |-> queues[M][i].size]
    BY <1>3 DEF Lined
  <2>2. z # x
    BY <1>11, <1>12
  <2> HIDE DEF z, x
  <2> QED BY <1>4, <1>9, <2>1, <2>2 DEF z
<1>14. q \in Seq(AnyOrder) /\ y \in AnyOrder
  <2>1. q \in Seq(VOrders(m))
    OBVIOUS
  <2>2. y \in AnyOrder
    BY DEF AnyOrder
  <2> HIDE DEF q, y
  <2> QED BY <2>1, <2>2, VOrdersFacts
<1>15. ASSUME NEW M \in Levels, M # L PROVE Lined(h, M, queues[M])
  <2>1. Lined(f, M, queues[M])
    BY <1>3
  <2> DEFINE u == queues[M]
  <2>2. h.book[M] = f.book[M] /\ h.queues[M] = f.queues[M]
    BY <1>10, <1>15
  <2>3. \A i \in 1..Len(u) : /\ Public(u[i].id) \in DOMAIN h.orders
                             /\ h.orders[Public(u[i].id)] = [level |-> M, size |-> u[i].size]
    BY <1>13
  <2> HIDE DEF u, x
  <2> QED BY <2>1, <2>2, <2>3 DEF Lined, u
<1>16. Lined(h, L, w)
  <2>1. Lined(f, L, q)
    BY <1>3
  <2>2. h.book[L] = Held(w)
    <3>1. Held(w) = Held(q) + y.size
      <4> HIDE DEF y
      <4> QED BY <1>14, HeldFacts
    <3> QED BY <1>10, <2>1, <3>1 DEF Lined
  <2>3. h.queues[L] = Names(w)
    <3>1. Names(w) = Append(Names(q), Public(y.id))
      <4> HIDE DEF y
      <4> QED BY <1>14, NamesAppend
    <3> QED BY <1>10, <2>1, <3>1 DEF Lined
  <2>4. Len(w) = Len(q) + 1 /\ Len(q) \in Nat
        /\ \A i \in 1..Len(w) : w[i] = IF i = Len(q) + 1 THEN y ELSE q[i]
    <3> HIDE DEF y, q
    <3> QED BY <1>14
  <2>5. \A i \in 1..Len(w) : i = Len(q) + 1 \/ i \in 1..Len(q)
    <3> HIDE DEF w, q
    <3> QED BY <2>4
  <2> HIDE DEF w
  <2>6. ASSUME NEW i \in 1..Len(w)
        PROVE  /\ Public(w[i].id) \in DOMAIN h.orders
               /\ h.orders[Public(w[i].id)] = [level |-> L, size |-> w[i].size]
    <3>1. CASE i = Len(q) + 1
      <4>1. w[i] = y
        BY <2>4, <3>1
      <4>2. Public(w[i].id) = x /\ w[i].size = n
        BY <4>1
      <4> HIDE DEF x
      <4> QED BY <1>9, <4>2
    <3>2. CASE i \in 1..Len(q)
      <4>1. w[i] = q[i]
        BY <2>4, <3>2
      <4> QED BY <1>13, <3>2, <4>1
    <3> QED BY <2>5, <3>1, <3>2
  <2>7. ASSUME NEW i \in 1..Len(w), NEW j \in 1..Len(w), w[i].id = w[j].id
        PROVE  i = j
    <3>1. \A k \in 1..Len(q) : q[k].id \in 1..(m - 1) /\ q[k].id # m
      BY <1>11
    <3>2. \A k, l \in 1..Len(q) : q[k].id = q[l].id => k = l
      BY <2>1 DEF Lined
    <3>3. CASE i \in 1..Len(q) /\ j \in 1..Len(q)
      <4>1. w[i] = q[i] /\ w[j] = q[j]
        BY <2>4, <3>3
      <4> QED BY <2>7, <3>2, <3>3, <4>1
    <3>4. CASE i = Len(q) + 1 /\ j \in 1..Len(q)
      <4>1. w[i].id = m /\ w[j] = q[j]
        BY <2>4, <3>4
      <4> QED BY <2>7, <3>1, <3>4, <4>1
    <3>5. CASE j = Len(q) + 1 /\ i \in 1..Len(q)
      <4>1. w[j].id = m /\ w[i] = q[i]
        BY <2>4, <3>5
      <4> QED BY <2>7, <3>1, <3>5, <4>1
    <3>6. CASE i = Len(q) + 1 /\ j = Len(q) + 1
      BY <3>6
    <3> QED BY <2>5, <3>3, <3>4, <3>5, <3>6
  <2> QED BY <2>2, <2>3, <2>6, <2>7 DEF Lined
<1>17. DOMAIN h.orders \subseteq {Public(i) : i \in 1..((m + 1) - 1)}
  <2>1. x \in {Public(i) : i \in 1..((m + 1) - 1)}
    <3>1. m \in 1..((m + 1) - 1)
      OBVIOUS
    <3> QED BY <3>1
  <2>2. \A i \in 1..(m - 1) : i \in 1..((m + 1) - 1)
    OBVIOUS
  <2> HIDE DEF x
  <2> QED BY <1>3, <1>4, <1>9, <2>1, <2>2
<1>18. ASSUME NEW M \in Levels PROVE Lined(h, M, new[M])
  <2>1. CASE M = L
    <3>1. new[M] = w
      BY <2>1
    <3> HIDE DEF w
    <3> QED BY <1>16, <2>1, <3>1
  <2>2. CASE M # L
    BY <1>15, <2>2
  <2> QED BY <2>1, <2>2
<1> QED BY <1>5, <1>17, <1>18 DEF Shown, h, ev

(***************************************************************************)
(* Streams of events.                                                      *)
(***************************************************************************)

(* Events evs, one after the other, bring engine e to f.                   *)
Path(e, evs, f, tr) ==
  /\ tr[0] = e /\ tr[Len(evs)] = f
  /\ \A k \in 1..Len(evs) : tr[k] = ApplyEvent(tr[k - 1], evs[k])

Leads(e, evs, f) == \E tr : Path(e, evs, f, tr)

LEMMA LeadsNowhere ==
  ASSUME NEW e
  PROVE  Leads(e, <<>>, e)
<1> DEFINE tr == [k \in {0} |-> e]
<1>1. tr[0] = e
  OBVIOUS
<1> HIDE DEF tr
<1>2. Path(e, <<>>, e, tr)
  BY <1>1 DEF Path
<1> QED BY <1>2 DEF Leads

LEMMA LeadsThrough ==
  ASSUME NEW T, NEW e, NEW a \in Seq(T), NEW f, Leads(e, a, f), NEW b \in Seq(T), NEW g, Leads(f, b, g)
  PROVE  Leads(e, a \o b, g)
<1> DEFINE m == Len(a)
           n == Len(b)
           c == a \o b
<1>1. PICK t : Path(e, a, f, t)
  BY DEF Leads
<1>2. PICK u : Path(f, b, g, u)
  BY DEF Leads
<1>3. /\ m \in Nat /\ n \in Nat /\ Len(c) = m + n
      /\ \A k \in 1..m : c[k] = a[k]
      /\ \A k \in 1..n : c[m + k] = b[k]
  OBVIOUS
<1>4. /\ t[0] = e /\ t[m] = f /\ \A k \in 1..m : t[k] = ApplyEvent(t[k - 1], a[k])
      /\ u[0] = f /\ u[n] = g /\ \A k \in 1..n : u[k] = ApplyEvent(u[k - 1], b[k])
  BY <1>1, <1>2 DEF Path
<1> DEFINE tr == [k \in 0..(m + n) |-> IF k <= m THEN t[k] ELSE u[k - m]]
<1> HIDE DEF m, n, c
<1>5. /\ \A k \in 0..m : tr[k] = t[k]
      /\ \A k \in 0..n : tr[m + k] = u[k]
  <2>1. \A k \in 0..m : k \in 0..(m + n) /\ k <= m
    BY <1>3
  <2>2. \A k \in 1..n : m + k \in 0..(m + n) /\ ~(m + k <= m) /\ (m + k) - m = k
    BY <1>3
  <2>3. m + 0 = m /\ m \in 0..m
    BY <1>3
  <2>4. \A k \in 0..n : k = 0 \/ k \in 1..n
    BY <1>3
  <2>5. \A k \in 0..m : tr[k] = t[k]
    BY <2>1
  <2>6. \A k \in 1..n : tr[m + k] = u[k]
    BY <2>2
  <2> HIDE DEF tr
  <2>7. tr[m + 0] = u[0]
    BY <1>4, <2>3, <2>5
  <2> QED BY <2>4, <2>5, <2>6, <2>7
<1> HIDE DEF tr
<1>6. ASSUME NEW k \in 1..(m + n) PROVE tr[k] = ApplyEvent(tr[k - 1], c[k])
  <2>1. CASE k <= m
    <3>1. k \in 1..m /\ k \in 0..m /\ k - 1 \in 0..m
      BY <1>3, <2>1
    <3> QED BY <1>3, <1>4, <1>5, <3>1
  <2>2. CASE k > m
    <3> DEFINE j == k - m
    <3>1. j \in 1..n /\ j \in 0..n /\ j - 1 \in 0..n /\ m + j = k /\ m + (j - 1) = k - 1
      BY <1>3, <2>2
    <3> HIDE DEF j
    <3>2. tr[m + j] = u[j] /\ tr[m + (j - 1)] = u[j - 1] /\ c[m + j] = b[j]
      BY <1>3, <1>5, <3>1
    <3>3. u[j] = ApplyEvent(u[j - 1], b[j])
      BY <1>4, <3>1
    <3> QED BY <3>1, <3>2, <3>3
  <2> QED BY <1>3, <2>1, <2>2
<1>7. tr[0] = e /\ tr[m + n] = g
  <2>1. 0 \in 0..m /\ n \in 0..n
    BY <1>3
  <2> QED BY <1>4, <1>5, <2>1
<1>8. Path(e, c, g, tr)
  BY <1>3, <1>6, <1>7 DEF Path
<1> QED BY <1>8 DEF Leads, c

LEMMA LeadsOn ==
  ASSUME NEW T, NEW e, NEW a \in Seq(T), NEW f, Leads(e, a, f), NEW x \in T
  PROVE  Leads(e, Append(a, x), ApplyEvent(f, x))
<1> DEFINE g == ApplyEvent(f, x)
           tr == [k \in 0..1 |-> IF k = 0 THEN f ELSE g]
           b == <<x>>
<1>1. tr[0] = f /\ tr[1] = g
  OBVIOUS
<1>2. b \in Seq(T) /\ Len(b) = 1 /\ b[1] = x /\ a \o b = Append(a, x)
  OBVIOUS
<1>3. g = ApplyEvent(f, x)
  OBVIOUS
<1> HIDE DEF tr, g, b
<1>4. \A k \in 1..1 : k = 1 /\ k - 1 = 0
  OBVIOUS
<1>5. Path(f, b, g, tr)
  BY <1>1, <1>2, <1>3, <1>4 DEF Path
<1>6. Leads(f, b, g)
  BY <1>5 DEF Leads
<1>7. Leads(e, a \o b, g)
  BY <1>2, <1>6, LeadsThrough
<1> QED BY <1>2, <1>7 DEF g

(* The rest of a stream, from an engine whose clock has moved on.          *)
LEMMA LeadsRest ==
  ASSUME NEW T, NEW e, NEW a \in Seq(T), NEW f, NEW tr, Path(e, a, f, tr), NEW k \in 0..Len(a),
         NEW g, NEW ts, g = AdvanceTime(tr[k], ts)
  PROVE  IF k = Len(a) THEN Leads(g, SubSeq(a, k + 1, Len(a)), AdvanceTime(f, ts))
         ELSE Leads(g, SubSeq(a, k + 1, Len(a)), f)
<1> DEFINE n == Len(a)
           b == SubSeq(a, k + 1, n)
<1>1. n \in Nat /\ k \in 0..n /\ k \in Nat
  OBVIOUS
<1>2. tr[n] = f /\ \A j \in 1..n : tr[j] = ApplyEvent(tr[j - 1], a[j])
  BY DEF Path
<1>3. CASE k = n
  <2>1. b = <<>>
    BY <1>3
  <2>2. g = AdvanceTime(f, ts)
    BY <1>2, <1>3
  <2> QED BY <1>3, <2>1, <2>2, LeadsNowhere
<1>4. CASE k # n
  <2> DEFINE u == [j \in 0..(n - k) |-> IF j = 0 THEN g ELSE tr[k + j]]
  <2>1. Len(b) = n - k /\ \A j \in 1..(n - k) : b[j] = a[k + j]
    OBVIOUS
  <2>2. n - k \in Nat \ {0}
    BY <1>1, <1>4
  <2> HIDE DEF b, n
  <2>3. u[0] = g /\ \A j \in 1..(n - k) : u[j] = tr[k + j]
    BY <2>2
  <2> HIDE DEF u
  <2>4. \A x : ApplyEvent(AdvanceTime(x, ts), a[k + 1]) = ApplyEvent(x, a[k + 1])
    <3> TAKE x
    <3> DEFINE ev == a[k + 1]
               y == AdvanceTime(x, ts)
    <3>1. [y EXCEPT !.now = ev.ts] = [x EXCEPT !.now = ev.ts]
      <4> HIDE DEF ev
      <4> QED BY DEF AdvanceTime
    <3> HIDE DEF y, ev
    <3>2. ApplyEvent(y, ev) = ApplyEvent(x, ev)
      BY <3>1 DEF ApplyEvent
    <3> QED BY <3>2 DEF y, ev
  <2>5. ASSUME NEW j \in 1..(n - k) PROVE u[j] = ApplyEvent(u[j - 1], b[j])
    <3>1. /\ k + j \in 1..n /\ (k + j) - 1 = k + (j - 1) /\ j - 1 \in 0..(n - k)
          /\ (j = 1 \/ j - 1 \in 1..(n - k))
      BY <1>1, <2>2
    <3>2. tr[k + j] = ApplyEvent(tr[k + (j - 1)], a[k + j])
      BY <1>2, <3>1
    <3>3. CASE j = 1
      <4>1. u[j - 1] = g /\ k + (j - 1) = k
        BY <1>1, <2>3, <3>3
      <4>2. ApplyEvent(g, a[k + 1]) = ApplyEvent(tr[k], a[k + 1])
        BY <2>4
      <4> QED BY <2>1, <2>3, <3>2, <3>3, <4>1, <4>2
    <3>4. CASE j - 1 \in 1..(n - k)
      BY <2>1, <2>3, <3>2, <3>4
    <3> QED BY <3>1, <3>3, <3>4
  <2>6. u[n - k] = f
    <3>1. n - k \in 1..(n - k) /\ k + (n - k) = n
      BY <1>1, <2>2
    <3> QED BY <1>2, <2>3, <3>1
  <2>7. Path(g, b, f, u)
    BY <2>1, <2>3, <2>5, <2>6 DEF Path
  <2>8. Leads(g, b, f)
    BY <2>7 DEF Leads
  <2> QED BY <1>4, <2>8 DEF b, n
<1> QED BY <1>3, <1>4

(***************************************************************************)
(* A whole cancel or trade.                                                *)
(***************************************************************************)

Cancels(L, taken, ts) ==
  [i \in 1..Len(taken) |-> MBOEventAt("cancel", L, taken[i].size, taken[i].id, ts)]

LEMMA CancelsFacts ==
  ASSUME NEW m \in Nat, NEW L \in Levels, NEW ts \in Nat, NEW taken \in Seq(VOrders(m))
  PROVE  /\ Cancels(L, taken, ts) \in Seq(MBOEvents)
         /\ Cancels(L, <<>>, ts) = <<>>
         /\ \A x \in VOrders(m) : Cancels(L, Append(taken, x), ts)
                = Append(Cancels(L, taken, ts), MBOEventAt("cancel", L, x.size, x.id, ts))
<1> DEFINE Ev(x) == MBOEventAt("cancel", L, x.size, x.id, ts)
<1>1. ASSUME NEW x \in VOrders(m) PROVE Ev(x) \in MBOEvents
  <2>1. x.id \in Nat /\ x.size \in Nat \ {0}
    BY VOrdersFacts
  <2> DEFINE n == x.size
             i == x.id
  <2>2. i \in Nat /\ n \in Nat \ {0} /\ "cancel" \in {"add", "cancel", "trade"}
    BY <2>1
  <2> HIDE DEF n, i
  <2>3. MBOEventAt("cancel", L, n, i, ts) \in MBOEvents
    BY <2>2, EventIs
  <2> QED BY <2>3 DEF n, i
<1> HIDE DEF Ev
<1>2. \A q \in Seq(VOrders(m)) :
          /\ [i \in 1..Len(q) |-> Ev(q[i])] \in Seq(MBOEvents)
          /\ Len([i \in 1..Len(q) |-> Ev(q[i])]) = Len(q)
          /\ \A i \in 1..Len(q) : [j \in 1..Len(q) |-> Ev(q[j])][i] = Ev(q[i])
  <2> TAKE q \in Seq(VOrders(m))
  <2>1. Len(q) \in Nat /\ \A i \in 1..Len(q) : q[i] \in VOrders(m)
    OBVIOUS
  <2>2. \A i \in 1..Len(q) : Ev(q[i]) \in MBOEvents
    BY <1>1, <2>1
  <2> DEFINE w == [i \in 1..Len(q) |-> Ev(q[i])]
  <2>3. w \in Seq(MBOEvents) /\ Len(w) = Len(q) /\ \A i \in 1..Len(q) : w[i] = Ev(q[i])
    BY <2>1, <2>2
  <2> QED BY <2>3
<1>3. \A q : Cancels(L, q, ts) = [i \in 1..Len(q) |-> Ev(q[i])]
  BY DEF Cancels, Ev
<1>4. Cancels(L, <<>>, ts) = <<>>
  <2> DEFINE q == <<>>
             w == Cancels(L, q, ts)
  <2>1. q \in Seq(VOrders(m)) /\ Len(q) = 0
    OBVIOUS
  <2> HIDE DEF q
  <2>2. w \in Seq(MBOEvents) /\ Len(w) = 0
    BY <1>2, <1>3, <2>1
  <2> HIDE DEF w
  <2>3. w = <<>>
    BY <2>2
  <2> QED BY <2>3 DEF w, q
<1>5. ASSUME NEW x \in VOrders(m)
      PROVE  Cancels(L, Append(taken, x), ts) = Append(Cancels(L, taken, ts), Ev(x))
  <2> DEFINE u == Append(taken, x)
             n == Len(taken)
             a == Cancels(L, u, ts)
             b == Cancels(L, taken, ts)
             c == Append(b, Ev(x))
             y == Ev(x)
  <2>1. /\ u \in Seq(VOrders(m)) /\ Len(u) = n + 1 /\ n \in Nat
        /\ \A i \in 1..(n + 1) : u[i] = IF i = n + 1 THEN x ELSE taken[i]
    OBVIOUS
  <2> HIDE DEF u
  <2>2. a \in Seq(MBOEvents) /\ Len(a) = n + 1 /\ \A i \in 1..(n + 1) : a[i] = Ev(u[i])
    BY <1>2, <1>3, <2>1
  <2>3. b \in Seq(MBOEvents) /\ Len(b) = n /\ \A i \in 1..n : b[i] = Ev(taken[i])
    BY <1>2, <1>3
  <2>4. y \in MBOEvents
    BY <1>1
  <2> HIDE DEF b, a, n, y
  <2>5. c \in Seq(MBOEvents) /\ Len(c) = n + 1
        /\ \A i \in 1..(n + 1) : c[i] = IF i = n + 1 THEN y ELSE b[i]
    <3>1. c = Append(b, y)
      BY DEF y
    <3> HIDE DEF c
    <3> QED BY <2>1, <2>3, <2>4, <3>1
  <2> HIDE DEF c
  <2>6. ASSUME NEW i \in 1..(n + 1) PROVE a[i] = c[i]
    <3>1. CASE i = n + 1
      BY <2>1, <2>2, <2>5, <3>1 DEF y
    <3>2. CASE i # n + 1
      <4>1. i \in 1..n
        BY <2>1, <3>2
      <4> QED BY <2>1, <2>2, <2>3, <2>5, <3>2, <4>1
    <3> QED BY <3>1, <3>2
  <2>7. a = c
    BY <2>1, <2>2, <2>5, <2>6, SeqEqual
  <2> QED BY <2>7 DEF a, c, b, u
<1>6. Cancels(L, taken, ts) \in Seq(MBOEvents)
  BY <1>2, <1>3
<1> QED BY <1>4, <1>5, <1>6 DEF Ev

(* The cancels of loop state s bring e to f, whose level L is the queue left. *)
Reaches(e, L, s, ts, f) ==
  /\ Leads(e, Cancels(L, s.taken, ts), f) /\ EngineInv(f)
  /\ Lined(f, L, s.q) /\ OnlyAt(e, f, L)

LEMMA CancelTurnReaches ==
  ASSUME NEW m \in Nat, NEW e, NEW L \in Levels, NEW ts \in Nat, NEW s \in DrainStates(m),
         NEW newest \in BOOLEAN, NEW f, Reaches(e, L, s, ts, f)
  PROVE  \E g : Reaches(e, L, DrainTurn(s, newest), ts, g)
<1> DEFINE t == DrainTurn(s, newest)
<1>1. CASE s.left = 0 \/ s.q = <<>>
  <2>1. t = s
    BY <1>1 DEF DrainTurn
  <2> QED BY <2>1
<1>2. CASE s.left # 0 /\ s.q # <<>>
  <2>1. PICK i : i = (IF newest THEN Len(s.q) ELSE 1)
    OBVIOUS
  <2>2. PICK n : n = Lesser(s.q[i].size, s.left)
    OBVIOUS
  <2>3. TurnAt(s, newest, i, n, t)
    BY <1>2, <2>1, <2>2 DEF TurnAt
  <2> HIDE DEF t
  <2>4. TurnTakes(m, s, newest, i, n, t)
    BY <2>3, DrainTurnIs
  <2>5. /\ i \in 1..Len(s.q) /\ s.q[i] \in VOrders(m) /\ n \in Nat \ {0}
        /\ t.taken = Append(s.taken, [id |-> s.q[i].id, size |-> n])
    BY <2>4 DEF TurnTakes
  <2> DEFINE id == s.q[i].id
             ev == MBOEventAt("cancel", L, n, id, ts)
             x == [id |-> id, size |-> n]
             g == ApplyEvent(f, ev)
  <2>6. id \in Nat /\ x \in VOrders(m) /\ x.size = n /\ x.id = id
    <3> DEFINE y == s.q[i]
    <3>1. y \in VOrders(m)
      BY <2>5
    <3> HIDE DEF y
    <3>2. y.id \in 1..(m - 1)
      BY <3>1, VOrdersFacts
    <3>3. id \in 1..(m - 1)
      BY <3>2 DEF y
    <3> HIDE DEF id
    <3> QED BY <2>5, <3>3 DEF VOrders
  <2>7. t.taken = Append(s.taken, x)
    BY <2>5
  <2> HIDE DEF id, x
  <2>8. /\ ev \in MBOEvents /\ ev.action = "cancel" /\ ev.id = s.q[i].id /\ ev.size = n
    <3>1. "cancel" \in {"add", "cancel", "trade"}
      OBVIOUS
    <3>2. ev \in MBOEvents
      BY <2>5, <2>6, <3>1, EventIs
    <3> QED BY <3>2 DEF MBOEventAt, id
  <2> HIDE DEF ev
  <2>9. Leads(e, Cancels(L, s.taken, ts), f) /\ EngineInv(f) /\ Lined(f, L, s.q) /\ OnlyAt(e, f, L)
    BY DEF Reaches
  <2>10. Follows(f, L, ev, t.q)
    <3>1. /\ m \in Nat /\ EngineInv(f) /\ L \in Levels /\ s \in DrainStates(m)
          /\ Lined(f, L, s.q) /\ newest \in BOOLEAN /\ TurnAt(s, newest, i, n, t)
          /\ ev \in MBOEvents /\ ev.action = "cancel" /\ ev.id = s.q[i].id /\ ev.size = n
      BY <2>3, <2>8, <2>9
    <3> QED BY ONLY <3>1, CancelFollows
  <2>11. EngineInv(g) /\ Lined(g, L, t.q) /\ OnlyAt(f, g, L)
    BY <2>10 DEF Follows
  <2>12. OnlyAt(e, g, L)
    BY <2>9, <2>11, OnlyAtAgain
  <2>13. s.taken \in Seq(VOrders(m))
    BY DEF DrainStates
  <2> DEFINE a == Cancels(L, s.taken, ts)
  <2>14. a \in Seq(MBOEvents) /\ Cancels(L, t.taken, ts) = Append(a, ev)
    <3>1. Cancels(L, Append(s.taken, x), ts)
            = Append(a, MBOEventAt("cancel", L, x.size, x.id, ts))
      BY <2>6, <2>13, CancelsFacts
    <3>2. a \in Seq(MBOEvents)
      BY <2>13, CancelsFacts
    <3> QED BY <2>6, <2>7, <3>1, <3>2 DEF ev
  <2> HIDE DEF a
  <2>15. Leads(e, Append(a, ev), g)
    <3>1. Leads(e, a, f)
      BY <2>9 DEF a
    <3> QED BY <2>8, <2>14, <3>1, LeadsOn
  <2>16. Reaches(e, L, t, ts, g)
    BY <2>11, <2>12, <2>14, <2>15 DEF Reaches
  <2> QED BY <2>16 DEF t
<1> QED BY <1>1, <1>2

LEMMA CancelsFollow ==
  ASSUME NEW m \in Nat, NEW e, EngineInv(e), NEW L \in Levels, NEW ts \in Nat,
         NEW q \in Seq(VOrders(m)), Lined(e, L, q), NEW n \in Nat, NEW newest \in BOOLEAN
  PROVE  \E f : Reaches(e, L, Drain(q, n, newest), ts, f)
<1> DEFINE N == Len(q)
           x == [q |-> q, left |-> n, taken |-> <<>>]
<1>1. N \in Nat /\ x \in DrainStates(m) /\ x.q = q /\ x.taken = <<>>
  BY DEF DrainStates
<1>2. PICK turn : /\ turn[0] = x
                  /\ \A k \in 1..N : turn[k] = DrainTurn(turn[k - 1], newest)
                  /\ Drain(q, n, newest) = turn[N]
  <2>1. Len(q) \in Nat
    BY <1>1
  <2> QED BY ONLY <2>1, DrainTurns
<1> HIDE DEF x
<1> DEFINE P(k) == turn[k] \in DrainStates(m) /\ \E f : Reaches(e, L, turn[k], ts, f)
           S == {k \in Nat : k <= N => P(k)}
<1>3. 0 \in S
  <2>1. Cancels(L, <<>>, ts) = <<>>
    <3>1. <<>> \in Seq(VOrders(m))
      OBVIOUS
    <3> QED BY <3>1, CancelsFacts
  <2>2. Leads(e, <<>>, e)
    BY LeadsNowhere
  <2>3. OnlyAt(e, e, L)
    BY DEF OnlyAt
  <2>4. Reaches(e, L, x, ts, e)
    BY <1>1, <2>1, <2>2, <2>3 DEF Reaches
  <2>5. P(0)
    BY <1>1, <1>2, <2>4
  <2> HIDE DEF P
  <2> QED BY <2>5
<1>4. ASSUME NEW k \in S PROVE k + 1 \in S
  <2> SUFFICES ASSUME k + 1 <= N PROVE P(k + 1)
    BY <1>4
  <2>1. k \in Nat /\ k <= N /\ k + 1 \in 1..N /\ (k + 1) - 1 = k
    BY <1>1, <1>4
  <2>2. P(k)
    <3> HIDE DEF P
    <3> QED BY <1>4, <2>1
  <2> DEFINE s == turn[k]
             t == turn[k + 1]
  <2>3. s \in DrainStates(m) /\ \E f : Reaches(e, L, s, ts, f)
    BY <2>2
  <2>4. t = DrainTurn(s, newest)
    BY <1>2, <2>1
  <2> HIDE DEF s, t, P, S
  <2>5. t \in DrainStates(m)
    BY <2>3, <2>4, DrainTurnFacts
  <2>6. \E g : Reaches(e, L, t, ts, g)
    <3>1. PICK f : Reaches(e, L, s, ts, f)
      BY <2>3
    <3> QED BY <2>3, <2>4, <3>1, CancelTurnReaches
  <2> QED BY <2>5, <2>6 DEF t, P
<1>5. P(N)
  <2>1. S = Nat
    <3>1. S \in SUBSET Nat
      OBVIOUS
    <3> HIDE DEF S
    <3> QED BY <1>3, <1>4, <3>1, SetInduction
  <2>2. N \in S /\ N <= N
    <3> HIDE DEF S
    <3> QED BY <1>1, <2>1
  <2> HIDE DEF P
  <2> QED BY <2>2
<1> QED BY <1>2, <1>5

(* Events evs bring e to an engine that holds the queues of r.             *)
Leaves(e, evs, r) == \E f : Leads(e, evs, f) /\ Shown(f, r.queues, r.nextId)

LEMMA AddLeaves ==
  ASSUME NEW e, NEW evs \in Seq(MBOEvents), NEW r, Leaves(e, evs, r), r.nextId \in Nat \ {0},
         \A M \in Levels : r.queues[M] \in Seq(VOrders(r.nextId)),
         NEW L \in Levels, NEW n \in Nat \ {0}, NEW ts \in Nat, NEW s, s.nextId = r.nextId + 1,
         \A M \in Levels : s.queues[M] = IF M = L THEN Append(r.queues[M], [id |-> r.nextId, size |-> n])
                                         ELSE r.queues[M]
  PROVE  Leaves(e, Append(evs, MBOEventAt("add", L, n, r.nextId, ts)), s)
<1> DEFINE m == r.nextId
           ev == MBOEventAt("add", L, n, m, ts)
           queues == [M \in Levels |-> r.queues[M]]
<1>1. PICK f : Leads(e, evs, f) /\ Shown(f, r.queues, m)
  BY DEF Leaves
<1>2. m \in Nat \ {0} /\ queues \in [Levels -> Seq(VOrders(m))]
  OBVIOUS
<1>3. Shown(f, queues, m)
  BY <1>1 DEF Shown
<1>4. /\ s.nextId = m + 1
      /\ \A M \in Levels : s.queues[M] = IF M = L THEN Append(queues[M], [id |-> m, size |-> n])
                                         ELSE queues[M]
  OBVIOUS
<1>5. ev \in MBOEvents
  <2>1. "add" \in {"add", "cancel", "trade"} /\ m \in Nat
    BY <1>2
  <2> HIDE DEF m
  <2> QED BY <2>1, EventIs
<1> HIDE DEF m, queues
<1>6. Shown(ApplyEvent(f, ev), s.queues, m + 1)
  BY <1>2, <1>3, <1>4, AddFollows
<1> HIDE DEF ev
<1>7. Leads(e, Append(evs, ev), ApplyEvent(f, ev))
  BY <1>1, <1>5, LeadsOn
<1>8. Leaves(e, Append(evs, ev), s)
  BY <1>4, <1>6, <1>7 DEF Leaves
<1> QED BY <1>8 DEF ev, m

(* From r to s, ev is traded.                                              *)
TradedAway(r, s, ev) ==
  /\ ev \in MBOEvents /\ ev.action = "trade" /\ s.nextId = r.nextId
  /\ \A M \in Levels : s.queues[M] = IF M = ev.level THEN Drain(r.queues[M], ev.size, FALSE).q
                                      ELSE r.queues[M]

LEMMA TradeLeaves ==
  ASSUME NEW e, NEW evs \in Seq(MBOEvents), NEW r, Leaves(e, evs, r), r.nextId \in Nat \ {0},
         \A M \in Levels : r.queues[M] \in Seq(VOrders(r.nextId)),
         NEW s, NEW ev, TradedAway(r, s, ev)
  PROVE  Leaves(e, Append(evs, ev), s)
<1> DEFINE m == r.nextId
           L == ev.level
           q == r.queues[L]
           w == Drain(q, ev.size, FALSE).q
<1>0. /\ ev \in MBOEvents /\ ev.action = "trade" /\ ev.level = L /\ L \in Levels
  <2>1. ev \in MBOEvents /\ ev.action = "trade"
    BY DEF TradedAway
  <2> QED BY <2>1 DEF MBOEvents
<1>1. PICK f : Leads(e, evs, f) /\ Shown(f, r.queues, m)
  BY DEF Leaves
<1>2. EngineInv(f) /\ Lined(f, L, q)
  BY <1>0, <1>1 DEF Shown
<1>3. m \in Nat /\ q \in Seq(VOrders(m))
  BY <1>0
<1>4. \A M \in Levels : s.queues[M] = IF M = L THEN w ELSE r.queues[M]
  BY DEF TradedAway
<1>5. s.nextId = m
  BY DEF TradedAway
<1> HIDE DEF m, q, L
<1>6. Follows(f, L, ev, w)
  BY <1>0, <1>2, <1>3, TradeFollows
<1> HIDE DEF w
<1> DEFINE h == ApplyEvent(f, ev)
<1>7. EngineInv(h) /\ Lined(h, L, w) /\ OnlyAt(f, h, L)
  BY <1>6 DEF Follows
<1>8. Leads(e, Append(evs, ev), h)
  BY <1>0, <1>1, LeadsOn
<1> HIDE DEF h
<1> DEFINE new == s.queues
<1>9. \A M \in Levels : new[M] = IF M = L THEN w ELSE r.queues[M]
  BY <1>4
<1> HIDE DEF new
<1>10. Shown(h, new, m)
  BY <1>0, <1>1, <1>7, <1>9, OnlyAtShown
<1> QED BY <1>5, <1>8, <1>10 DEF Leaves, new

LEMMA CancelLeaves ==
  ASSUME NEW e, NEW evs \in Seq(MBOEvents), NEW r, Leaves(e, evs, r), r.nextId \in Nat \ {0},
         NEW L \in Levels, r.queues[L] \in Seq(VOrders(r.nextId)), NEW n \in Nat,
         NEW newest \in BOOLEAN, NEW ts \in Nat, NEW d, d = Drain(r.queues[L], n, newest),
         d.taken \in Seq(VOrders(r.nextId)), NEW s, s.nextId = r.nextId,
         \A M \in Levels : s.queues[M] = IF M = L THEN d.q ELSE r.queues[M]
  PROVE  Leaves(e, evs \o Cancels(L, d.taken, ts), s)
<1> DEFINE m == r.nextId
           q == r.queues[L]
           w == d.q
           new == s.queues
           c == Cancels(L, d.taken, ts)
<1>1. PICK f : Leads(e, evs, f) /\ Shown(f, r.queues, m)
  BY DEF Leaves
<1>2. EngineInv(f) /\ Lined(f, L, q)
  BY <1>1 DEF Shown
<1>3. m \in Nat /\ q \in Seq(VOrders(m)) /\ d = Drain(q, n, newest) /\ d.taken \in Seq(VOrders(m))
  OBVIOUS
<1>4. s.nextId = m /\ \A M \in Levels : new[M] = IF M = L THEN w ELSE r.queues[M]
  OBVIOUS
<1> HIDE DEF m, q, new
<1>5. PICK g : Reaches(f, L, d, ts, g)
  BY <1>2, <1>3, CancelsFollow
<1>6. Leads(f, c, g) /\ EngineInv(g) /\ Lined(g, L, w) /\ OnlyAt(f, g, L)
  BY <1>5 DEF Reaches
<1>7. c \in Seq(MBOEvents)
  BY <1>3, CancelsFacts
<1> HIDE DEF c, w
<1>8. Leads(e, evs \o c, g)
  BY <1>1, <1>6, <1>7, LeadsThrough
<1>9. Shown(g, new, m)
  BY <1>1, <1>4, <1>6, OnlyAtShown
<1>10. Leaves(e, evs \o c, s)
  BY <1>4, <1>8, <1>9 DEF Leaves, new
<1> QED BY <1>10 DEF c

(* An engine that holds the queues of r after the events of r holds those  *)
(* of s after the events of s.                                             *)
Followed(r, s) ==
  r.emits => \A e : Leaves(e, r.events, r) => Leaves(e, s.events, s)

Kept(r, s) == SameKind(r, s) /\ Followed(r, s)

LEMMA KeptOn ==
  ASSUME NEW r, NEW s, NEW q, Kept(r, s), Kept(s, q)
  PROVE  Kept(r, q)
BY DEF Kept, SameKind, Followed

(* From r to s the quantity of level L becomes v, at ts.                   *)
Moved(r, s, L, v, ts) ==
  /\ ReconOK(s) /\ Kept(r, s) /\ EventsGrow(r.events, s.events, ts)
  /\ s.units = [r.units EXCEPT ![L] = v]

LEMMA AppendPublicFacts ==
  ASSUME NEW r, ReconOK(r), NEW L \in Levels, NEW n \in Nat \ {0}, NEW ts \in Nat
  PROVE  /\ Moved(r, AppendPublic(r, L, n, ts), L, r.units[L] + n, ts)
         /\ AppendPublic(r, L, n, ts).added = r.added + n
         /\ AppendPublic(r, L, n, ts).cancelled = r.cancelled
<1> DEFINE s == AppendPublic(r, L, n, ts)
           x == [id |-> r.nextId, size |-> n]
           ev == MBOEventAt("add", L, n, r.nextId, ts)
           v == r.units[L] + n
           best == [r.best EXCEPT ![L[1]] =
                       IF @ = None \/ BetterPrice(L[1], L[2], @) THEN L[2] ELSE @]
           queues == IF r.emits THEN [r.queues EXCEPT ![L] = Append(@, x)] ELSE r.queues
           events == IF r.emits THEN Append(r.events, ev) ELSE r.events
           next == IF r.emits THEN r.nextId + 1 ELSE r.nextId
           units == [r.units EXCEPT ![L] = v]
<1>1. /\ r.emits \in BOOLEAN /\ r.newestFirst \in BOOLEAN /\ r.queues \in [Levels -> Seq(AnyOrder)]
      /\ r.units \in [Levels -> Nat] /\ r.best \in [BookSides -> Prices \cup {None}]
      /\ r.nextId \in Nat \ {0} /\ r.symbol \in BOOLEAN /\ r.time \in Int
      /\ r.events \in Seq(MBOEvents) /\ r.added \in Nat /\ r.cancelled \in Nat
      /\ r.raised = FALSE /\ BestNow(r.best, r.units)
      /\ \A K \in Levels : /\ r.units[K] \in Nat
                           /\ r.queues[K] \in Seq(VOrders(r.nextId))
                           /\ r.emits => Held(r.queues[K]) = r.units[K]
                           /\ ~r.emits => r.queues[K] = <<>>
  BY ReconFacts
<1>2. /\ s \in [emits : {r.emits}, newestFirst : {r.newestFirst}, queues : {queues},
                units : {units}, best : {best}, nextId : {next}, symbol : {r.symbol},
                time : {r.time}, events : {events}, added : {r.added + n},
                cancelled : {r.cancelled}, raised : {r.raised}]
  <2>1. r \in Recons
    BY DEF ReconOK
  <2>2. [r.queues EXCEPT ![L] = IF r.emits THEN Append(@, x) ELSE @] = queues
    BY <1>1
  <2>3. [r.units EXCEPT ![L] = @ + n] = units
    OBVIOUS
  <2> HIDE DEF best, x, ev
  <2> QED BY <2>1, <2>2, <2>3 DEF AppendPublic, Recons, best, x, ev
<1> HIDE DEF s
<1>3. /\ s.emits = r.emits /\ s.newestFirst = r.newestFirst /\ s.queues = queues
      /\ s.units = units /\ s.best = best /\ s.nextId = next /\ s.symbol = r.symbol
      /\ s.time = r.time /\ s.events = events /\ s.added = r.added + n
      /\ s.cancelled = r.cancelled /\ s.raised = FALSE
  BY <1>1, <1>2
<1>4. /\ v \in Nat \ {0} /\ ev \in MBOEvents /\ ev.ts = ts /\ r.added + n \in Nat
      /\ x \in VOrders(next) \/ ~r.emits
      /\ next \in Nat \ {0} /\ r.nextId <= next /\ r.nextId \in Nat
  <2>1. ev \in MBOEvents /\ ev.ts = ts
    <3>1. r.nextId \in Nat /\ "add" \in {"add", "cancel", "trade"}
      BY <1>1
    <3> QED BY <3>1, EventIs
  <2>2. v \in Nat \ {0} /\ r.added + n \in Nat /\ next \in Nat \ {0}
        /\ r.nextId <= next /\ r.nextId \in Nat
    <3>1. r.units[L] \in Nat /\ r.added \in Nat /\ r.nextId \in Nat \ {0} /\ n \in Nat \ {0}
      BY <1>1
    <3> QED BY ONLY <3>1
  <2>3. x \in VOrders(next) \/ ~r.emits
    BY <1>1 DEF VOrders
  <2> QED BY <2>1, <2>2, <2>3
<1> HIDE DEF best, ev, v, next
<1>5. best \in [BookSides -> Prices \cup {None}] /\ BestNow(best, units)
  BY <1>1, <1>4, BestAfterAdd DEF best
<1>6. events \in Seq(MBOEvents) /\ EventsGrow(r.events, events, ts)
  BY <1>1, <1>4, EventAppended, EventsStay
<1> HIDE DEF events
<1>7. units \in [Levels -> Nat] /\ \A K \in Levels : units[K] = IF K = L THEN v ELSE r.units[K]
  BY <1>1, <1>4
<1> HIDE DEF units
<1>8. /\ queues \in [Levels -> Seq(AnyOrder)]
      /\ \A K \in Levels : /\ queues[K] \in Seq(VOrders(next))
                           /\ r.emits => Held(queues[K]) = units[K]
                           /\ ~r.emits => queues[K] = <<>>
  <2>1. CASE ~r.emits
    BY <1>1, <2>1 DEF next
  <2>2. CASE r.emits
    <3>1. /\ x \in VOrders(next) /\ x \in AnyOrder /\ x.size = n
      <4>1. x \in VOrders(next) /\ x.size = n
        BY <1>4, <2>2
      <4> HIDE DEF x
      <4> QED BY <1>4, <4>1, VOrdersFacts
    <3>2. queues = [r.queues EXCEPT ![L] = Append(@, x)]
      BY <2>2
    <3> HIDE DEF x, queues
    <3>3. \A K \in Levels : r.queues[K] \in Seq(VOrders(next)) /\ r.queues[K] \in Seq(AnyOrder)
      BY <1>1, <1>4, VOrdersFacts
    <3>4. \A K \in Levels : queues[K] = IF K = L THEN Append(r.queues[L], x) ELSE r.queues[K]
      BY <1>1, <3>2
    <3>5. Append(r.queues[L], x) \in Seq(VOrders(next)) /\ Append(r.queues[L], x) \in Seq(AnyOrder)
      BY <3>1, <3>3
    <3>6. Held(Append(r.queues[L], x)) = Held(r.queues[L]) + n
      BY <3>1, <3>3, HeldFacts
    <3>7. \A K \in Levels : queues[K] \in Seq(VOrders(next)) /\ queues[K] \in Seq(AnyOrder)
      BY <3>3, <3>4, <3>5
    <3>8. queues \in [Levels -> Seq(AnyOrder)]
      BY <1>1, <3>1, <3>2, <3>5
    <3>9. \A K \in Levels : Held(queues[K]) = units[K]
      BY <1>1, <1>7, <2>2, <3>4, <3>6 DEF v
    <3> QED BY <2>2, <3>7, <3>8, <3>9
  <2> QED BY <1>1, <2>1, <2>2
<1> HIDE DEF queues
<1>9. s \in Recons
  <2>1. r.added + n \in Nat /\ r.raised \in BOOLEAN
    BY <1>1, <1>4
  <2> QED BY ONLY <1>1, <1>2, <1>4, <1>5, <1>6, <1>7, <1>8, <2>1 DEF Recons
<1>10. QueuesHold(s)
  BY <1>3, <1>8, <1>1 DEF QueuesHold
<1>11. ReconOK(s)
  BY <1>3, <1>5, <1>9, <1>10 DEF ReconOK
<1>12. Kept(r, s)
  <2>1. ASSUME r.emits, NEW e, Leaves(e, r.events, r) PROVE Leaves(e, s.events, s)
    <3> DEFINE y == MBOEventAt("add", L, n, r.nextId, ts)
    <3>1. s.events = Append(r.events, y) /\ s.nextId = r.nextId + 1
      BY <1>3, <2>1 DEF events, ev, next
    <3>2. \A K \in Levels : s.queues[K] = IF K = L THEN Append(r.queues[K], [id |-> r.nextId, size |-> n])
                                           ELSE r.queues[K]
      <4>1. s.queues = [r.queues EXCEPT ![L] = Append(@, x)]
        BY <1>3, <2>1 DEF queues
      <4> HIDE DEF x
      <4>2. \A K \in Levels : s.queues[K] = IF K = L THEN Append(r.queues[K], x) ELSE r.queues[K]
        BY <1>1, <4>1
      <4> QED BY <4>2 DEF x
    <3>3. \A K \in Levels : r.queues[K] \in Seq(VOrders(r.nextId))
      BY <1>1
    <3> HIDE DEF x
    <3>4. Leaves(e, Append(r.events, y), s)
      BY <1>1, <2>1, <3>1, <3>2, <3>3, AddLeaves
    <3> QED BY <3>1, <3>4
  <2> QED BY <1>3, <2>1 DEF Kept, SameKind, Followed
<1>13. EventsGrow(r.events, s.events, ts) /\ s.units = [r.units EXCEPT ![L] = v]
  BY <1>3, <1>6 DEF units
<1>14. Moved(r, s, L, v, ts)
  BY <1>11, <1>12, <1>13 DEF Moved
<1> QED BY <1>3, <1>14 DEF s, v

(* The rest of the record does not matter.                                 *)
LEMMA ReconAgrees ==
  ASSUME NEW r, ReconOK(r), NEW s \in Recons, s.queues = r.queues, s.units = r.units,
         s.best = r.best, s.nextId = r.nextId, s.emits = r.emits, s.raised = r.raised
  PROVE  ReconOK(s)
BY DEF ReconOK, QueuesHold

(* From r to s, n are taken from level L.                                  *)
Less(r, s, L, n, newest) ==
  /\ ReconOK(s) /\ SameKind(r, s) /\ s.units = [r.units EXCEPT ![L] = r.units[L] - n]
  /\ s.nextId = r.nextId
  /\ r.emits => \A M \in Levels : s.queues[M] = IF M = L THEN Drain(r.queues[L], n, newest).q
                                                ELSE r.queues[M]
  /\ s.events = r.events /\ s.added = r.added /\ s.cancelled = r.cancelled

LEMMA RemovedFacts ==
  ASSUME NEW r, ReconOK(r), NEW L \in Levels, NEW n \in Nat, n <= r.units[L],
         NEW newest \in BOOLEAN
  PROVE  Less(r, Removed(r, L, n, newest), L, n, newest)
<1> DEFINE s == Removed(r, L, n, newest)
           d == Drain(r.queues[L], n, newest)
           v == r.units[L] - n
           missing == IF r.emits THEN d.left ELSE IF r.units[L] < n THEN n ELSE 0
           taken == [r EXCEPT !.queues[L] = d.q,
                              !.units[L] = @ - (n - missing),
                              !.raised = @ \/ missing > 0]
           units == [r.units EXCEPT ![L] = v]
           queues == [r.queues EXCEPT ![L] = IF v = 0 THEN <<>> ELSE d.q]
           side == L[1]
           new == [r.best EXCEPT ![side] = IF @ # L[2] THEN @
                                           ELSE IF Standing(units, side) = {} THEN None
                                           ELSE Best(side, Standing(units, side))]
           best == IF v = 0 THEN new ELSE r.best
<1>1. /\ r.emits \in BOOLEAN /\ r.newestFirst \in BOOLEAN /\ r.queues \in [Levels -> Seq(AnyOrder)]
      /\ r.units \in [Levels -> Nat] /\ r.best \in [BookSides -> Prices \cup {None}]
      /\ r.nextId \in Nat \ {0} /\ r.symbol \in BOOLEAN /\ r.time \in Int
      /\ r.events \in Seq(MBOEvents) /\ r.added \in Nat /\ r.cancelled \in Nat
      /\ r.raised = FALSE /\ BestNow(r.best, r.units)
      /\ \A K \in Levels : /\ r.units[K] \in Nat
                           /\ r.queues[K] \in Seq(VOrders(r.nextId))
                           /\ r.emits => Held(r.queues[K]) = r.units[K]
                           /\ ~r.emits => r.queues[K] = <<>>
  BY ReconFacts
<1>2. /\ v \in Nat /\ r.units[L] \in Nat /\ r.nextId \in Nat
  BY <1>1
<1>3. /\ missing = 0 /\ d.q \in Seq(VOrders(r.nextId))
      /\ r.emits => Held(d.q) = v
      /\ ~r.emits => d.q = <<>>
  <2>1. CASE r.emits
    <3>1. /\ r.queues[L] \in Seq(VOrders(r.nextId)) /\ Held(r.queues[L]) = r.units[L]
      BY <1>1, <2>1
    <3>2. d.q \in Seq(VOrders(r.nextId)) /\ d.left = 0 /\ Held(d.q) = r.units[L] - n
      BY <1>2, <3>1, DrainFacts
    <3> QED BY <2>1, <3>2
  <2>2. CASE ~r.emits
    <3> DEFINE q == r.queues[L]
    <3>1. q = <<>> /\ Len(q) = 0 /\ Len(q) \in Nat
      BY <1>1, <2>2
    <3> HIDE DEF q
    <3>2. Drain(q, n, newest) = [q |-> q, left |-> n, taken |-> <<>>]
      <4>1. PICK turn : /\ turn[0] = [q |-> q, left |-> n, taken |-> <<>>]
                        /\ Drain(q, n, newest) = turn[Len(q)]
        BY <3>1, DrainTurns
      <4> QED BY <3>1, <4>1
    <3>3. d.q = <<>>
      BY <3>1, <3>2 DEF q
    <3>4. missing = 0
      BY <1>2, <2>2
    <3>5. <<>> \in Seq(VOrders(r.nextId))
      OBVIOUS
    <3> QED BY <2>2, <3>3, <3>4, <3>5
  <2> QED BY <1>1, <2>1, <2>2
<1> HIDE DEF d
<1>4. /\ \A K \in Levels : units[K] = IF K = L THEN v ELSE r.units[K]
      /\ units \in [Levels -> Nat]
  BY <1>1, <1>2
<1>5. best \in [BookSides -> Prices \cup {None}] /\ BestNow(best, units)
  <2>1. v # 0 => r.units[L] # 0
    BY <1>2
  <2>2. /\ v # 0 /\ r.units[L] # 0 => BestNow(r.best, units)
        /\ v = 0 => BestNow(new, units) /\ new \in [BookSides -> Prices \cup {None}]
    <3> DEFINE w == units
    <3>1. w = [r.units EXCEPT ![L] = v]
      OBVIOUS
    <3> HIDE DEF w, v
    <3> QED BY <1>1, <1>2, <3>1, BestAfterRemoval DEF w
  <2> QED BY <1>1, <2>1, <2>2
<1>6. taken = [r EXCEPT !.queues = [r.queues EXCEPT ![L] = d.q], !.units = units]
  <2>1. r \in Recons
    BY DEF ReconOK
  <2>2. /\ r.units[L] - (n - 0) = v /\ (FALSE \/ 0 > 0) = FALSE
    BY <1>2
  <2> HIDE DEF missing
  <2>3. /\ [r.units EXCEPT ![L] = @ - (n - missing)] = units
        /\ (r.raised \/ missing > 0) = r.raised
    BY <1>1, <1>3, <2>2
  <2> HIDE DEF units
  <2> QED BY <2>1, <2>3 DEF Recons
<1>7. /\ taken.queues = [r.queues EXCEPT ![L] = d.q] /\ taken.units = units
      /\ taken.units[L] = v /\ taken.best = r.best
  <2>1. r \in Recons
    BY DEF ReconOK
  <2> HIDE DEF taken, units
  <2> QED BY <1>1, <1>4, <1>6, <2>1 DEF Recons
<1>8. s = [r EXCEPT !.queues = queues, !.units = units, !.best = best]
  <2>1. r \in Recons
    BY DEF ReconOK
  <2>2. s = DropEmptyLevel(taken, L)
    BY <1>3 DEF Removed, d
  <2> HIDE DEF s, missing
  <2>3. CASE v # 0
    <3>1. s = taken
      BY <1>7, <2>2, <2>3 DEF DropEmptyLevel
    <3>2. queues = [r.queues EXCEPT ![L] = d.q] /\ best = r.best
      BY <2>3
    <3>3. [r EXCEPT !.queues = queues, !.units = units, !.best = r.best]
             = [r EXCEPT !.queues = queues, !.units = units]
      <4> HIDE DEF queues, units
      <4> QED BY <2>1 DEF Recons
    <3> HIDE DEF taken, queues, units, best, v
    <3> QED BY <1>6, <3>1, <3>2, <3>3
  <2>4. CASE v = 0
    <3>1. {p \in Prices : taken.units[<<side, p>>] > 0} = Standing(units, side)
      BY <1>7 DEF Standing
    <3>2. s = [taken EXCEPT !.queues[L] = <<>>,
                            !.best[side] = IF @ # L[2] THEN @
                                           ELSE IF Standing(units, side) = {} THEN None
                                           ELSE Best(side, Standing(units, side))]
      <4> HIDE DEF taken, units
      <4> QED BY <1>7, <2>2, <2>4, <3>1 DEF DropEmptyLevel
    <3>3. queues = [r.queues EXCEPT ![L] = <<>>] /\ best = new
      BY <2>4
    <3>4. [[r.queues EXCEPT ![L] = d.q] EXCEPT ![L] = <<>>] = [r.queues EXCEPT ![L] = <<>>]
      BY <1>1
    <3> DEFINE q1 == [r.queues EXCEPT ![L] = d.q]
    <3>5. [q1 EXCEPT ![L] = <<>>] = queues
      BY <3>3, <3>4
    <3>6. taken.queues = q1 /\ taken.best = r.best /\ taken = [r EXCEPT !.queues = q1, !.units = units]
      BY <1>6, <1>7
    <3>7. s = [taken EXCEPT !.queues = queues, !.best = new]
      <4> HIDE DEF taken, queues, q1, units
      <4> QED BY <3>2, <3>5, <3>6
    <3> HIDE DEF taken, queues, units, best, v, new, q1
    <3> QED BY <2>1, <3>3, <3>6, <3>7 DEF Recons
  <2> QED BY <2>3, <2>4
<1>9. /\ queues \in [Levels -> Seq(AnyOrder)]
      /\ \A K \in Levels : /\ queues[K] \in Seq(VOrders(r.nextId))
                           /\ r.emits => Held(queues[K]) = units[K]
                           /\ ~r.emits => queues[K] = <<>>
  <2> DEFINE q == IF v = 0 THEN <<>> ELSE d.q
  <2>1. /\ <<>> \in Seq(VOrders(r.nextId)) /\ <<>> \in Seq(AnyOrder) /\ Held(<<>>) = 0
    <3>1. <<>> \in Seq(VOrders(r.nextId)) /\ <<>> \in Seq(AnyOrder)
      OBVIOUS
    <3> QED BY <3>1, HeldFacts
  <2>2. q \in Seq(VOrders(r.nextId)) /\ (r.emits => Held(q) = v) /\ (~r.emits => q = <<>>)
    BY <1>3, <2>1
  <2>3. q \in Seq(AnyOrder)
    BY <1>2, <2>2, VOrdersFacts
  <2>4. queues = [r.queues EXCEPT ![L] = q]
    OBVIOUS
  <2> HIDE DEF q, queues, units
  <2>5. queues \in [Levels -> Seq(AnyOrder)]
        /\ \A K \in Levels : queues[K] = IF K = L THEN q ELSE r.queues[K]
    BY <1>1, <2>3, <2>4
  <2> QED BY <1>1, <1>4, <2>2, <2>5
<1> HIDE DEF s, queues, units, best
<1>10. /\ s \in Recons /\ s.queues = queues /\ s.units = units /\ s.best = best
       /\ s.nextId = r.nextId /\ s.emits = r.emits /\ s.newestFirst = r.newestFirst
       /\ s.symbol = r.symbol /\ s.time = r.time /\ s.events = r.events
       /\ s.added = r.added /\ s.cancelled = r.cancelled /\ s.raised = FALSE
  <2>1. r \in Recons
    BY DEF ReconOK
  <2> QED BY <1>1, <1>4, <1>5, <1>8, <1>9, <2>1 DEF Recons
<1>11. QueuesHold(s)
  BY <1>1, <1>9, <1>10 DEF QueuesHold
<1>12. ReconOK(s) /\ SameKind(r, s)
  BY <1>5, <1>10, <1>11 DEF ReconOK, SameKind
<1>13. s.units = [r.units EXCEPT ![L] = r.units[L] - n]
  BY <1>10 DEF units
<1>14. ASSUME r.emits, NEW M \in Levels
       PROVE  s.queues[M] = IF M = L THEN d.q ELSE r.queues[M]
  <2>1. d.q \in Seq(AnyOrder)
    BY <1>2, <1>3, VOrdersFacts
  <2>2. v = 0 => d.q = <<>>
    BY <1>3, <1>14, <2>1, LinedEmpty
  <2>3. s.queues = [r.queues EXCEPT ![L] = d.q]
    BY <1>10, <2>2 DEF queues
  <2> QED BY <1>1, <2>3
<1>15. Less(r, s, L, n, newest)
  BY <1>10, <1>12, <1>13, <1>14 DEF Less, d
<1> QED BY <1>15 DEF s

(* _consume_public.                                                        *)
LEMMA ConsumePublicFacts ==
  ASSUME NEW r, ReconOK(r), NEW t, t.level \in Levels, t.size \in Nat \ {0}, t.id \in Nat,
         t.ts \in Nat, t.size <= r.units[t.level]
  PROVE  /\ Moved(r, ConsumePublic(r, t), t.level, r.units[t.level] - t.size, t.ts)
         /\ ConsumePublic(r, t).added = r.added
         /\ ConsumePublic(r, t).cancelled = r.cancelled
<1> DEFINE L == t.level
           s == Removed(r, L, t.size, FALSE)
           ev == MBOEventAt("trade", L, t.size, t.id, t.ts)
           events == IF r.emits THEN Append(r.events, ev) ELSE r.events
           q == ConsumePublic(r, t)
<1>1. Less(r, s, L, t.size, FALSE)
  <2> DEFINE n == t.size
  <2>1. PICK newest \in BOOLEAN : newest = FALSE
    OBVIOUS
  <2>2. L \in Levels /\ n \in Nat /\ n <= r.units[L]
    OBVIOUS
  <2> HIDE DEF n, L
  <2>3. Less(r, Removed(r, L, n, newest), L, n, newest)
    BY <2>2, RemovedFacts
  <2> QED BY <2>1, <2>3 DEF n
<1>2. ev \in MBOEvents /\ ev.ts = t.ts
  <2>1. "trade" \in {"add", "cancel", "trade"}
    OBVIOUS
  <2> QED BY <2>1, EventIs
<1>3. r.events \in Seq(MBOEvents) /\ r.emits \in BOOLEAN
  BY ReconFacts
<1>4. events \in Seq(MBOEvents) /\ EventsGrow(r.events, events, t.ts)
  <2> HIDE DEF ev
  <2> QED BY <1>2, <1>3, EventAppended, EventsStay
<1>5. s \in Recons /\ s.events = r.events
  BY <1>1 DEF Less, ReconOK
<1>6. q = [s EXCEPT !.events = events]
  <2> HIDE DEF s, ev
  <2>1. q = [s EXCEPT !.events = IF r.emits THEN Append(@, ev) ELSE @]
    BY DEF ConsumePublic, s, ev
  <2> QED BY <1>5, <2>1 DEF Recons
<1> HIDE DEF q, s, events, ev
<1>7. /\ q \in Recons /\ q.queues = s.queues /\ q.units = s.units /\ q.best = s.best
      /\ q.nextId = s.nextId /\ q.emits = s.emits /\ q.raised = s.raised
      /\ q.newestFirst = s.newestFirst /\ q.symbol = s.symbol /\ q.time = s.time
      /\ q.events = events /\ q.added = s.added /\ q.cancelled = s.cancelled
  BY <1>4, <1>5, <1>6 DEF Recons
<1>8. ReconOK(q)
  BY <1>1, <1>7, ReconAgrees DEF Less
<1>9. SameKind(r, q) /\ q.units = [r.units EXCEPT ![L] = r.units[L] - t.size]
      /\ q.added = r.added /\ q.cancelled = r.cancelled
  BY <1>1, <1>7 DEF Less, SameKind
<1>10. EventsGrow(r.events, q.events, t.ts)
  BY <1>4, <1>7
<1>11. Kept(r, q)
  <2>1. ASSUME r.emits, NEW e, Leaves(e, r.events, r) PROVE Leaves(e, q.events, q)
    <3>1. q.events = Append(r.events, ev) /\ q.nextId = r.nextId
      BY <1>1, <1>7, <2>1 DEF events, Less
    <3>2. ev.action = "trade" /\ ev.level = L /\ ev.size = t.size
      BY DEF ev, MBOEventAt
    <3>3. TradedAway(r, q, ev)
      <4> DEFINE d == Drain(r.queues[L], t.size, FALSE)
      <4>1. \A M \in Levels : s.queues[M] = IF M = L THEN d.q ELSE r.queues[M]
        BY <1>1, <2>1 DEF Less
      <4>2. d = Drain(r.queues[L], ev.size, FALSE)
        BY <3>2
      <4> HIDE DEF d
      <4>3. \A M \in Levels : q.queues[M] = IF M = ev.level THEN d.q ELSE r.queues[M]
        BY <1>7, <3>2, <4>1
      <4>4. ASSUME NEW M \in Levels
            PROVE  q.queues[M] = IF M = ev.level THEN Drain(r.queues[M], ev.size, FALSE).q
                                 ELSE r.queues[M]
        <5>1. CASE M = L
          <6>1. q.queues[M] = d.q /\ d = Drain(r.queues[M], ev.size, FALSE)
            BY <3>2, <4>2, <4>3, <5>1
          <6> QED BY <3>2, <5>1, <6>1
        <5>2. CASE M # L
          BY <3>2, <4>3, <5>2
        <5> QED BY <5>1, <5>2
      <4> QED BY <1>2, <3>1, <3>2, <4>4 DEF TradedAway
    <3>4. r.nextId \in Nat \ {0} /\ \A M \in Levels : r.queues[M] \in Seq(VOrders(r.nextId))
      BY ReconFacts
    <3>5. Leaves(e, Append(r.events, ev), q)
      BY ONLY <1>3, <2>1, <3>3, <3>4, TradeLeaves
    <3> QED BY <3>1, <3>5
  <2> QED BY <1>9, <2>1 DEF Kept, Followed
<1> QED BY ONLY <1>8, <1>9, <1>10, <1>11 DEF Moved, q, L

(* _cancel_public.                                                         *)
LEMMA CancelAtFacts ==
  ASSUME NEW r, ReconOK(r), NEW L \in Levels, NEW n \in Nat, n <= r.units[L], NEW ts \in Nat
  PROVE  /\ Moved(r, CancelPublicAt(r, L, n, ts), L, r.units[L] - n, ts)
         /\ CancelPublicAt(r, L, n, ts).added = r.added
         /\ CancelPublicAt(r, L, n, ts).cancelled = r.cancelled + n
<1> DEFINE newest == r.newestFirst
           s == Removed(r, L, n, newest)
           d == Drain(r.queues[L], n, newest)
           taken == d.taken
           cancels == [i \in 1..Len(taken) |-> MBOEventAt("cancel", L, taken[i].size, taken[i].id, ts)]
           events == IF r.emits THEN r.events \o cancels ELSE r.events
           q == CancelPublicAt(r, L, n, ts)
<1>1. /\ r.events \in Seq(MBOEvents) /\ r.emits \in BOOLEAN /\ newest \in BOOLEAN
      /\ r.nextId \in Nat /\ r.cancelled \in Nat
      /\ r.queues[L] \in Seq(VOrders(r.nextId))
      /\ r.emits => Held(r.queues[L]) = r.units[L]
  BY ReconFacts
<1>2. Less(r, s, L, n, newest)
  BY <1>1, RemovedFacts
<1>3. s \in Recons /\ s.events = r.events /\ s.cancelled = r.cancelled
  BY <1>2 DEF Less, ReconOK
<1>4. q = [s EXCEPT !.events = events, !.cancelled = r.cancelled + n]
  <2> HIDE DEF s, cancels
  <2>1. q = [s EXCEPT !.events = IF r.emits THEN @ \o cancels ELSE @, !.cancelled = @ + n]
    BY DEF CancelPublicAt, s, cancels
  <2> QED BY <1>3, <2>1 DEF Recons
<1>5. events \in Seq(MBOEvents) /\ EventsGrow(r.events, events, ts)
  <2>1. CASE ~r.emits
    BY <1>1, <2>1, EventsStay
  <2>2. CASE r.emits
    <3>1. taken \in Seq(VOrders(r.nextId))
      BY <1>1, <2>2, DrainFacts
    <3> HIDE DEF taken
    <3>2. ASSUME NEW i \in 1..Len(taken)
          PROVE  cancels[i] \in MBOEvents /\ cancels[i].ts = ts
      <4> DEFINE x == taken[i]
      <4>1. x \in VOrders(r.nextId)
        BY <3>1
      <4>2. cancels[i] = MBOEventAt("cancel", L, x.size, x.id, ts)
        OBVIOUS
      <4> HIDE DEF x, cancels
      <4>3. x.size \in Nat \ {0} /\ x.id \in Nat /\ "cancel" \in {"add", "cancel", "trade"}
        BY <1>1, <4>1 DEF VOrders
      <4> QED BY <4>2, <4>3, EventIs
    <3>3. DOMAIN cancels = 1..Len(taken) /\ Len(taken) \in Nat
      BY <3>1
    <3>4. cancels \in Seq(MBOEvents) /\ Len(cancels) = Len(taken)
      <4>1. cancels = [i \in 1..Len(taken) |-> cancels[i]]
        OBVIOUS
      <4> HIDE DEF cancels
      <4> QED BY <3>2, <3>3, <4>1
    <3>5. InTime(cancels, ts, ts)
      <4>1. \A i \in 1..Len(cancels) : cancels[i].ts = ts
        BY <3>2, <3>4
      <4> HIDE DEF cancels
      <4> QED BY <4>1 DEF InTime
    <3> HIDE DEF cancels
    <3>6. ASSUME NEW lo \in Nat, NEW hi \in Nat, lo <= hi, hi <= ts, InTime(r.events, lo, hi)
          PROVE  InTime(events, lo, ts)
      <4>1. lo <= ts /\ ts <= ts
        BY <3>6
      <4>2. InTime(r.events, lo, ts)
        BY <1>1, <3>6, EventTimes, InTimeLater
      <4>3. InTime(r.events \o cancels, lo, ts)
        BY <1>1, <3>4, <3>5, <4>1, <4>2, EventTimes, InTimeConcat
      <4> QED BY <2>2, <4>3
    <3>7. events \in Seq(MBOEvents)
      BY <1>1, <2>2, <3>4
    <3> HIDE DEF events
    <3> QED BY <3>6, <3>7 DEF EventsGrow
  <2> QED BY <1>1, <2>1, <2>2
<1> HIDE DEF q, s, events
<1>6. /\ q \in Recons /\ q.queues = s.queues /\ q.units = s.units /\ q.best = s.best
      /\ q.nextId = s.nextId /\ q.emits = s.emits /\ q.raised = s.raised
      /\ q.newestFirst = s.newestFirst /\ q.symbol = s.symbol /\ q.time = s.time
      /\ q.events = events /\ q.added = s.added /\ q.cancelled = r.cancelled + n
  <2>1. r.cancelled + n \in Nat
    BY <1>1
  <2> QED BY <1>3, <1>4, <1>5, <2>1 DEF Recons
<1>7. ReconOK(q)
  BY <1>2, <1>6, ReconAgrees DEF Less
<1>8. SameKind(r, q) /\ q.units = [r.units EXCEPT ![L] = r.units[L] - n] /\ q.added = r.added
  BY <1>2, <1>6 DEF Less, SameKind
<1>9. EventsGrow(r.events, q.events, ts)
  BY <1>5, <1>6
<1>10. Kept(r, q)
  <2>1. ASSUME r.emits, NEW e, Leaves(e, r.events, r) PROVE Leaves(e, q.events, q)
    <3>1. q.events = r.events \o Cancels(L, taken, ts) /\ q.nextId = r.nextId
      BY <1>2, <1>6, <2>1 DEF events, Less, Cancels
    <3>2. \A M \in Levels : q.queues[M] = IF M = L THEN d.q ELSE r.queues[M]
      BY <1>2, <1>6, <2>1 DEF Less
    <3>3. r.nextId \in Nat \ {0}
      BY ReconFacts
    <3>4. taken \in Seq(VOrders(r.nextId))
      BY <1>1, <2>1, DrainFacts
    <3> DEFINE y == d
    <3>5. y = Drain(r.queues[L], n, newest) /\ y.taken \in Seq(VOrders(r.nextId))
          /\ \A M \in Levels : q.queues[M] = IF M = L THEN y.q ELSE r.queues[M]
      BY <3>2, <3>4
    <3> HIDE DEF y, newest
    <3>6. Leaves(e, r.events \o Cancels(L, y.taken, ts), q)
      BY <1>1, <2>1, <3>1, <3>3, <3>5, CancelLeaves
    <3> QED BY <3>1, <3>6 DEF y
  <2> QED BY <1>8, <2>1 DEF Kept, Followed
<1> QED BY ONLY <1>6, <1>7, <1>8, <1>9, <1>10 DEF Moved, q

(***************************************************************************)
(* What levels w lack to their targets, and what they have in excess.      *)
(***************************************************************************)

TargetsOK(T) == DOMAIN T \subseteq Levels /\ T \in [DOMAIN T -> Nat]

Lack(T, w) == Total([L \in DOMAIN T |-> Shortfall(T[L], w[L])])
Excess(T, w) == Total([L \in DOMAIN T |-> Shortfall(w[L], T[L])])

LEMMA ShortfallFacts ==
  ASSUME NEW m \in Int, NEW n \in Int
  PROVE  /\ Shortfall(m, n) \in Nat
         /\ n < m => Shortfall(m, n) = m - n
         /\ m <= n => Shortfall(m, n) = 0
  BY DEF Shortfall

LEMMA GapTypes ==
  ASSUME NEW T, TargetsOK(T), NEW w \in [Levels -> Int]
  PROVE  Lack(T, w) \in Nat /\ Excess(T, w) \in Nat
<1> DEFINE f == [L \in DOMAIN T |-> Shortfall(T[L], w[L])]
           g == [L \in DOMAIN T |-> Shortfall(w[L], T[L])]
<1>1. IsFiniteSet(DOMAIN T)
  BY LevelsFinite DEF TargetsOK
<1>2. \A L \in DOMAIN T : f[L] \in Nat /\ g[L] \in Nat
  <2>1. \A L \in DOMAIN T : T[L] \in Int /\ w[L] \in Int
    BY DEF TargetsOK
  <2> QED BY <2>1, ShortfallFacts
<1>3. DOMAIN f = DOMAIN T /\ DOMAIN g = DOMAIN T /\ Lack(T, w) = Total(f) /\ Excess(T, w) = Total(g)
  BY DEF Lack, Excess
<1> HIDE DEF f, g
<1>4. Summable(f) /\ Summable(g)
  BY <1>1, <1>2, <1>3 DEF Summable
<1>5. (\A L \in DOMAIN f : f[L] \in Nat) /\ (\A L \in DOMAIN g : g[L] \in Nat)
  BY <1>2, <1>3
<1>6. Total(f) \in Nat /\ Total(g) \in Nat
  BY <1>4, <1>5, TotalNat
<1> QED BY <1>3, <1>6

(* From w to x level L takes another value, v.                             *)
GapMoved(T, w, L, v, x) ==
  /\ x \in [Levels -> Int]
  /\ Lack(T, x) = Lack(T, w) - Shortfall(T[L], w[L]) + Shortfall(T[L], v)
  /\ Excess(T, x) = Excess(T, w) - Shortfall(w[L], T[L]) + Shortfall(v, T[L])

LEMMA GapMoves ==
  ASSUME NEW T, TargetsOK(T), NEW w \in [Levels -> Int], NEW L \in DOMAIN T, NEW v \in Int,
         NEW x, x = [w EXCEPT ![L] = v]
  PROVE  GapMoved(T, w, L, v, x)
<1>1. IsFiniteSet(DOMAIN T) /\ L \in Levels
  BY LevelsFinite DEF TargetsOK
<1>2. x \in [Levels -> Int] /\ \A K \in DOMAIN T : x[K] = IF K = L THEN v ELSE w[K]
  BY <1>1 DEF TargetsOK
<1>3. \A K \in DOMAIN T : T[K] \in Int /\ w[K] \in Int /\ x[K] \in Int
  BY <1>2 DEF TargetsOK
<1> DEFINE f == [K \in DOMAIN T |-> Shortfall(T[K], w[K])]
           g == [K \in DOMAIN T |-> Shortfall(T[K], x[K])]
           h == [K \in DOMAIN T |-> Shortfall(w[K], T[K])]
           k == [K \in DOMAIN T |-> Shortfall(x[K], T[K])]
<1>4. \A K \in DOMAIN T : f[K] \in Int /\ g[K] \in Int /\ h[K] \in Int /\ k[K] \in Int
  <2>1. \A m, n \in Int : Shortfall(m, n) \in Int
    BY ShortfallFacts
  <2> QED BY <1>3, <2>1
<1>5. /\ DOMAIN f = DOMAIN T /\ DOMAIN g = DOMAIN T /\ DOMAIN h = DOMAIN T /\ DOMAIN k = DOMAIN T
      /\ Lack(T, w) = Total(f) /\ Lack(T, x) = Total(g)
      /\ Excess(T, w) = Total(h) /\ Excess(T, x) = Total(k)
      /\ f[L] = Shortfall(T[L], w[L]) /\ g[L] = Shortfall(T[L], v)
      /\ h[L] = Shortfall(w[L], T[L]) /\ k[L] = Shortfall(v, T[L])
  <2>1. x[L] = v
    BY <1>2
  <2> QED BY <2>1 DEF Lack, Excess
<1>6. \A K \in DOMAIN T : K # L => g[K] = f[K] /\ k[K] = h[K]
  BY <1>2
<1> HIDE DEF f, g, h, k
<1>7. Summable(f) /\ Summable(h)
  BY <1>1, <1>4, <1>5 DEF Summable
<1>8. Total(g) = Total(f) - f[L] + g[L]
  BY <1>4, <1>5, <1>6, <1>7, TotalUpdate
<1>9. Total(k) = Total(h) - h[L] + k[L]
  BY <1>4, <1>5, <1>6, <1>7, TotalUpdate
<1> QED BY <1>2, <1>5, <1>8, <1>9 DEF GapMoved

(***************************************************************************)
(* Depth endpoints.                                                        *)
(***************************************************************************)

(* What is given to level L counts as added, what is taken as cancelled.   *)
AtTarget(r, s, L, goal, ts) ==
  /\ Moved(r, s, L, goal, ts)
  /\ s.added = r.added + Shortfall(goal, r.units[L])
  /\ s.cancelled = r.cancelled + Shortfall(r.units[L], goal)

LEMMA MovedNowhere ==
  ASSUME NEW r, ReconOK(r), NEW L \in Levels, NEW ts \in Nat
  PROVE  Moved(r, r, L, r.units[L], ts)
<1>1. r.events \in Seq(MBOEvents) /\ r.units \in [Levels -> Nat]
  BY ReconFacts
<1>2. EventsGrow(r.events, r.events, ts)
  BY <1>1, EventsStay
<1>3. r.units = [r.units EXCEPT ![L] = r.units[L]]
  BY <1>1
<1> QED BY <1>2, <1>3 DEF Moved, Kept, SameKind, Followed

LEMMA ReachTargetFacts ==
  ASSUME NEW r, ReconOK(r), NEW L \in Levels, NEW goal \in Nat, NEW ts \in Nat
  PROVE  AtTarget(r, ReachTarget(r, L, goal, ts), L, goal, ts)
<1> DEFINE s == ReachTarget(r, L, goal, ts)
           u == r.units[L]
<1>1. u \in Nat /\ r.added \in Nat /\ r.cancelled \in Nat
  BY ReconFacts
<1> HIDE DEF u
<1>2. CASE u < goal
  <2>1. s = AppendPublic(r, L, goal - u, ts)
    BY <1>1, <1>2 DEF ReachTarget, u
  <2>2. goal - u \in Nat \ {0} /\ u + (goal - u) = goal
        /\ Shortfall(goal, u) = goal - u /\ Shortfall(u, goal) = 0
    BY <1>1, <1>2 DEF Shortfall
  <2> DEFINE n == goal - u
  <2> HIDE DEF n
  <2>3. /\ Moved(r, AppendPublic(r, L, n, ts), L, u + n, ts)
        /\ AppendPublic(r, L, n, ts).added = r.added + n
        /\ AppendPublic(r, L, n, ts).cancelled = r.cancelled
    BY <2>2, AppendPublicFacts DEF n, u
  <2>4. Moved(r, s, L, goal, ts) /\ s.added = r.added + Shortfall(goal, u)
        /\ s.cancelled = r.cancelled
    BY <2>1, <2>2, <2>3 DEF n
  <2>5. s.cancelled = r.cancelled + Shortfall(u, goal)
    BY ONLY <1>1, <2>2, <2>4
  <2> QED BY ONLY <2>4, <2>5 DEF AtTarget, u
<1>3. CASE goal < u
  <2>1. s = CancelPublicAt(r, L, u - goal, ts)
    BY <1>1, <1>3 DEF ReachTarget, u
  <2>2. u - goal \in Nat /\ u - goal <= u /\ u - (u - goal) = goal
        /\ Shortfall(goal, u) = 0 /\ Shortfall(u, goal) = u - goal
    BY <1>1, <1>3 DEF Shortfall
  <2> DEFINE n == u - goal
  <2> HIDE DEF n
  <2>3. /\ Moved(r, CancelPublicAt(r, L, n, ts), L, u - n, ts)
        /\ CancelPublicAt(r, L, n, ts).added = r.added
        /\ CancelPublicAt(r, L, n, ts).cancelled = r.cancelled + n
    BY <2>2, CancelAtFacts DEF n, u
  <2>4. Moved(r, s, L, goal, ts) /\ s.cancelled = r.cancelled + Shortfall(u, goal)
        /\ s.added = r.added
    BY <2>1, <2>2, <2>3 DEF n
  <2>5. s.added = r.added + Shortfall(goal, u)
    BY ONLY <1>1, <2>2, <2>4
  <2> QED BY ONLY <2>4, <2>5 DEF AtTarget, u
<1>4. CASE u = goal
  <2>1. s = r
    BY <1>1, <1>4 DEF ReachTarget, u
  <2>2. Shortfall(goal, u) = 0 /\ Shortfall(u, goal) = 0
    BY <1>1, <1>4 DEF Shortfall
  <2>3. Moved(r, r, L, u, ts)
    BY MovedNowhere DEF u
  <2>4. s.added = r.added + Shortfall(goal, u) /\ s.cancelled = r.cancelled + Shortfall(u, goal)
    BY ONLY <1>1, <2>1, <2>2
  <2> QED BY ONLY <1>4, <2>1, <2>3, <2>4 DEF AtTarget, u
<1> QED BY <1>1, <1>2, <1>3, <1>4

(* _append_public when there is something to add.                          *)
LEMMA AppendIfAnyFacts ==
  ASSUME NEW r, ReconOK(r), NEW L \in Levels, NEW n \in Nat, NEW ts \in Nat
  PROVE  /\ Moved(r, AppendIfAny(r, L, n, ts), L, r.units[L] + n, ts)
         /\ AppendIfAny(r, L, n, ts).added = r.added + n
         /\ AppendIfAny(r, L, n, ts).cancelled = r.cancelled
<1> DEFINE u == r.units[L]
<1>1. u \in Nat /\ r.added \in Nat
  BY ReconFacts
<1>2. CASE n = 0
  <2>1. AppendIfAny(r, L, n, ts) = r
    BY <1>2 DEF AppendIfAny
  <2>2. Moved(r, r, L, u, ts)
    BY MovedNowhere
  <2> HIDE DEF u
  <2>3. u + n = u /\ r.added + n = r.added
    BY <1>1, <1>2
  <2> QED BY ONLY <2>1, <2>2, <2>3 DEF u
<1>3. CASE n # 0
  <2>1. AppendIfAny(r, L, n, ts) = AppendPublic(r, L, n, ts)
    BY <1>3 DEF AppendIfAny
  <2>2. n \in Nat \ {0}
    BY <1>3
  <2> QED BY <2>1, <2>2, AppendPublicFacts
<1> QED BY <1>2, <1>3

(* From r to s the levels in S came to their targets, at ts.               *)
Walked(r, s, S, T, ts) ==
  /\ ReconOK(s) /\ Kept(r, s) /\ EventsGrow(r.events, s.events, ts)
  /\ s.units = [L \in Levels |-> IF L \in S THEN T[L] ELSE r.units[L]]
  /\ s.added + Lack(T, s.units) = r.added + Lack(T, r.units)
  /\ s.cancelled + Excess(T, s.units) = r.cancelled + Excess(T, r.units)

LEMMA WalkStarts ==
  ASSUME NEW r, ReconOK(r), NEW T, NEW ts \in Nat
  PROVE  Walked(r, r, {}, T, ts)
<1>1. r.events \in Seq(MBOEvents) /\ r.units \in [Levels -> Nat]
  BY ReconFacts
<1>2. EventsGrow(r.events, r.events, ts)
  BY <1>1, EventsStay
<1>3. r.units = [L \in Levels |-> IF L \in {} THEN T[L] ELSE r.units[L]]
  BY <1>1
<1>4. Kept(r, r)
  BY DEF Kept, SameKind, Followed
<1> QED BY <1>2, <1>3, <1>4 DEF Walked

LEMMA WalkStep ==
  ASSUME NEW r, ReconOK(r), NEW T, TargetsOK(T), NEW ts \in Nat, NEW S \in SUBSET DOMAIN T,
         NEW L \in DOMAIN T, NEW s, Walked(r, s, S, T, ts), NEW q, AtTarget(s, q, L, T[L], ts)
  PROVE  Walked(r, q, S \cup {L}, T, ts)
<1> DEFINE goal == T[L]
           u == s.units[L]
           v == s.units
           w == q.units
<1>1. L \in Levels /\ goal \in Nat
  BY DEF TargetsOK
<1>2. /\ ReconOK(s) /\ Kept(r, s) /\ EventsGrow(r.events, s.events, ts)
      /\ v = [K \in Levels |-> IF K \in S THEN T[K] ELSE r.units[K]]
      /\ s.added + Lack(T, v) = r.added + Lack(T, r.units)
      /\ s.cancelled + Excess(T, v) = r.cancelled + Excess(T, r.units)
  BY DEF Walked
<1>3. /\ ReconOK(q) /\ Kept(s, q) /\ EventsGrow(s.events, q.events, ts)
      /\ w = [v EXCEPT ![L] = goal]
      /\ q.added = s.added + Shortfall(goal, u)
      /\ q.cancelled = s.cancelled + Shortfall(u, goal)
  BY DEF AtTarget, Moved
<1>4. /\ v \in [Levels -> Nat] /\ v \in [Levels -> Int] /\ u \in Nat
      /\ s.added \in Nat /\ s.cancelled \in Nat
  <2>1. s.units \in [Levels -> Nat] /\ s.added \in Nat /\ s.cancelled \in Nat
    BY <1>2, ReconFacts
  <2> QED BY <1>1, <2>1
<1>5. r.units \in [Levels -> Int] /\ r.added \in Nat /\ r.cancelled \in Nat
  <2>1. r.units \in [Levels -> Nat] /\ r.added \in Nat /\ r.cancelled \in Nat
    BY ReconFacts
  <2> QED BY <2>1
<1>6. goal \in Int /\ v[L] = u
  BY <1>1
<1> HIDE DEF goal, u, v, w
<1>7. /\ w \in [Levels -> Int]
      /\ Lack(T, w) = Lack(T, v) - Shortfall(goal, u) + Shortfall(goal, goal)
      /\ Excess(T, w) = Excess(T, v) - Shortfall(u, goal) + Shortfall(goal, goal)
  <2>1. L \in DOMAIN T /\ w = [v EXCEPT ![L] = goal]
    BY <1>3
  <2>2. GapMoved(T, v, L, goal, w)
    BY <1>4, <1>6, <2>1, GapMoves
  <2> QED BY <1>6, <2>2 DEF GapMoved, goal
<1>8. /\ Shortfall(goal, goal) = 0 /\ Shortfall(goal, u) \in Nat /\ Shortfall(u, goal) \in Nat
  <2>1. u \in Int
    BY <1>4
  <2> QED BY <1>6, <2>1, ShortfallFacts DEF Shortfall
<1>9. /\ Lack(T, v) \in Nat /\ Excess(T, v) \in Nat
      /\ Lack(T, r.units) \in Nat /\ Excess(T, r.units) \in Nat
  BY <1>4, <1>5, GapTypes
<1>10. q.added + Lack(T, w) = r.added + Lack(T, r.units)
  BY ONLY <1>2, <1>3, <1>4, <1>5, <1>7, <1>8, <1>9
<1>11. q.cancelled + Excess(T, w) = r.cancelled + Excess(T, r.units)
  BY ONLY <1>2, <1>3, <1>4, <1>5, <1>7, <1>8, <1>9
<1>12. w = [K \in Levels |-> IF K \in S \cup {L} THEN T[K] ELSE r.units[K]]
  BY <1>1, <1>2, <1>3 DEF goal
<1>13. Kept(r, q)
  BY <1>2, <1>3, KeptOn
<1>14. EventsGrow(r.events, q.events, ts)
  <2>1. \A lo, hi \in Nat : lo <= hi /\ hi <= ts /\ InTime(r.events, lo, hi) => InTime(q.events, lo, ts)
    BY <1>2, <1>3, EventsGrowOn
  <2> QED BY <2>1 DEF EventsGrow
<1> QED BY ONLY <1>3, <1>10, <1>11, <1>12, <1>13, <1>14 DEF Walked, w

(* A loop that brings one level after the other to its target.             *)
Walks(r, turn, levels, T, ts) ==
  /\ turn[0] = r
  /\ \A k \in 1..Len(levels) :
        turn[k - 1].units[levels[k]] = r.units[levels[k]]
           => turn[k] = ReachTarget(turn[k - 1], levels[k], T[levels[k]], ts)

LEMMA WalkFacts ==
  ASSUME NEW r, ReconOK(r), NEW T, TargetsOK(T), NEW ts \in Nat,
         NEW levels \in Seq(DOMAIN T), \A k, l \in 1..Len(levels) : levels[k] = levels[l] => k = l,
         NEW turn, Walks(r, turn, levels, T, ts)
  PROVE  Walked(r, turn[Len(levels)], {levels[k] : k \in 1..Len(levels)}, T, ts)
<1> DEFINE N == Len(levels)
           upto(k) == {levels[j] : j \in 1..k}
           P(k) == Walked(r, turn[k], upto(k), T, ts)
           S == {k \in Nat : k <= N => P(k)}
<1>1. N \in Nat /\ \A k \in 1..N : levels[k] \in DOMAIN T
  OBVIOUS
<1>2. turn[0] = r /\ \A k \in 1..N :
         turn[k - 1].units[levels[k]] = r.units[levels[k]]
            => turn[k] = ReachTarget(turn[k - 1], levels[k], T[levels[k]], ts)
  BY DEF Walks
<1>3. \A k, l \in 1..N : levels[k] = levels[l] => k = l
  OBVIOUS
<1> HIDE DEF N
<1>4. 0 \in S
  <2>1. upto(0) = {}
    OBVIOUS
  <2>2. Walked(r, r, {}, T, ts)
    BY WalkStarts
  <2> HIDE DEF upto
  <2> QED BY <1>2, <2>1, <2>2
<1>5. ASSUME NEW k \in S PROVE k + 1 \in S
  <2> SUFFICES ASSUME k + 1 <= N PROVE P(k + 1)
    BY <1>5
  <2>1. k \in Nat /\ k <= N /\ k + 1 \in 1..N /\ (k + 1) - 1 = k
    BY <1>1, <1>5
  <2> DEFINE L == levels[k + 1]
             s == turn[k]
             q == turn[k + 1]
  <2>2. L \in DOMAIN T /\ L \in Levels /\ T[L] \in Nat
    BY <1>1, <2>1 DEF TargetsOK
  <2>3. upto(k) \in SUBSET DOMAIN T /\ upto(k + 1) = upto(k) \cup {L} /\ L \notin upto(k)
    <3>1. \A j \in 1..k : j \in 1..N /\ j # k + 1
      BY <1>1, <2>1
    <3>2. 1..(k + 1) = (1..k) \cup {k + 1}
      BY <2>1
    <3> QED BY <1>1, <1>3, <2>1, <3>1, <3>2
  <2>4. Walked(r, s, upto(k), T, ts)
    BY <1>5, <2>1
  <2> HIDE DEF upto
  <2>5. s.units[L] = r.units[L]
    BY <2>2, <2>3, <2>4 DEF Walked
  <2>6. q = ReachTarget(s, L, T[L], ts)
    BY <1>2, <2>1, <2>5
  <2> HIDE DEF s, q, L
  <2>7. ReconOK(s)
    BY <2>4 DEF Walked
  <2>8. AtTarget(s, q, L, T[L], ts)
    BY <2>2, <2>6, <2>7, ReachTargetFacts
  <2>9. Walked(r, q, upto(k) \cup {L}, T, ts)
    BY <2>2, <2>3, <2>4, <2>8, WalkStep
  <2> QED BY <2>3, <2>9 DEF q
<1>6. P(N)
  <2>1. S = Nat
    <3>1. S \in SUBSET Nat
      OBVIOUS
    <3> HIDE DEF S
    <3> QED BY <1>4, <1>5, <3>1, SetInduction
  <2> HIDE DEF P
  <2>2. N \in S /\ N <= N
    <3> HIDE DEF S
    <3> QED BY <1>1, <2>1
  <2> QED BY <2>2
<1> QED BY <1>6 DEF N

(* The turns of the loop of _apply_endpoint.                               *)
LEMMA EndpointTurns ==
  ASSUME NEW r, NEW T, Len(SortedLevels(DOMAIN T)) \in Nat, NEW ts
  PROVE  \E turn : /\ turn[0] = r
                   /\ \A k \in 1..Len(SortedLevels(DOMAIN T)) : turn[k] = ReachTarget(turn[k - 1], SortedLevels(DOMAIN T)[k], T[SortedLevels(DOMAIN T)[k]], ts)
                   /\ ApplyEndpoint(r, T, ts) = turn[Len(SortedLevels(DOMAIN T))]
<1> DEFINE N == Len(SortedLevels(DOMAIN T))
           x == r
           Step(t, k) == ReachTarget(t, SortedLevels(DOMAIN T)[k], T[SortedLevels(DOMAIN T)[k]], ts)
           S == {M \in Nat : \E h : h = [k \in 0..M |-> IF k = 0 THEN x ELSE Step(h[k - 1], k)]}
           f == CHOOSE h : h = [k \in 0..N |-> IF k = 0 THEN x ELSE Step(h[k - 1], k)]
<1>1. N \in Nat
  OBVIOUS
<1>2. ApplyEndpoint(r, T, ts) = f[N]
  BY DEF ApplyEndpoint
<1> HIDE DEF N, x, Step
<1>3. 0 \in S
  <2> DEFINE h == [k \in 0..0 |-> x]
  <2>1. h = [k \in 0..0 |-> IF k = 0 THEN x ELSE Step(h[k - 1], k)]
    <3>1. \A k \in 0..0 : k = 0
      OBVIOUS
    <3> QED BY <3>1
  <2> HIDE DEF h
  <2> QED BY <2>1
<1>4. ASSUME NEW M \in S PROVE M + 1 \in S
  <2>1. PICK h : h = [k \in 0..M |-> IF k = 0 THEN x ELSE Step(h[k - 1], k)]
    BY <1>4
  <2> DEFINE g == [k \in 0..(M + 1) |-> IF k \in 0..M THEN h[k] ELSE Step(h[M], k)]
  <2>2. M \in Nat /\ M + 1 \in Nat
    BY <1>4
  <2>3. \A k \in 0..M : g[k] = h[k] /\ h[k] = IF k = 0 THEN x ELSE Step(h[k - 1], k)
    BY <2>1, <2>2
  <2>4. ASSUME NEW k \in 0..(M + 1)
        PROVE  g[k] = IF k = 0 THEN x ELSE Step(g[k - 1], k)
    <3>1. CASE k \in 0..M
      <4>1. k # 0 => k - 1 \in 0..M
        BY <2>2, <3>1
      <4> HIDE DEF g
      <4> QED BY <2>3, <3>1, <4>1
    <3>2. CASE k \notin 0..M
      <4>1. k - 1 = M /\ k # 0 /\ M \in 0..M
        BY <2>2, <3>2
      <4>2. g[k] = Step(h[M], k)
        BY <3>2
      <4> HIDE DEF g
      <4> QED BY <2>3, <4>1, <4>2
    <3> QED BY <3>1, <3>2
  <2>5. g = [k \in 0..(M + 1) |-> g[k]]
    OBVIOUS
  <2> HIDE DEF g
  <2>6. g = [k \in 0..(M + 1) |-> IF k = 0 THEN x ELSE Step(g[k - 1], k)]
    BY <2>4, <2>5
  <2> QED BY <2>2, <2>6
<1>5. S = Nat
  <2>1. S \in SUBSET Nat
    OBVIOUS
  <2> HIDE DEF S
  <2> QED BY <1>3, <1>4, <2>1, SetInduction
<1>6. f = [k \in 0..N |-> IF k = 0 THEN x ELSE Step(f[k - 1], k)]
  <2>1. \E h : h = [k \in 0..N |-> IF k = 0 THEN x ELSE Step(h[k - 1], k)]
    BY <1>1, <1>5
  <2> QED BY <2>1
<1> HIDE DEF f
<1>7. f[0] = x /\ \A k \in 1..N : f[k] = Step(f[k - 1], k)
  <2>1. 0 \in 0..N /\ \A k \in 1..N : k \in 0..N /\ k # 0
    BY <1>1
  <2> QED BY <1>6, <2>1
<1> QED BY <1>2, <1>7 DEF N, x, Step

(* _apply_endpoint.                                                        *)
LEMMA ApplyEndpointFacts ==
  ASSUME NEW r, ReconOK(r), NEW T, TargetsOK(T), NEW ts \in Nat
  PROVE  Walked(r, ApplyEndpoint(r, T, ts), DOMAIN T, T, ts)
<1> DEFINE levels == SortedLevels(DOMAIN T)
           N == Len(levels)
<1>1. /\ Enumerates(levels, DOMAIN T) /\ levels \in Seq(DOMAIN T) /\ N = Cardinality(DOMAIN T)
  BY SortedLevelsFacts DEF TargetsOK
<1>2. /\ N \in Nat /\ \A k, l \in 1..N : levels[k] = levels[l] => k = l
      /\ {levels[k] : k \in 1..N} = DOMAIN T
  <2> HIDE DEF N, levels
  <2>1. /\ N \in Nat /\ \A k, l \in 1..N : levels[k] = levels[l] => k = l
        /\ \A k \in 1..N : levels[k] \in DOMAIN T
        /\ \A x \in DOMAIN T : \E k \in 1..N : levels[k] = x
    BY <1>1 DEF Enumerates
  <2> QED BY <2>1
<1>3. PICK turn : /\ turn[0] = r
                  /\ \A k \in 1..N : turn[k] = ReachTarget(turn[k - 1], levels[k], T[levels[k]], ts)
                  /\ ApplyEndpoint(r, T, ts) = turn[N]
  <2>1. Len(SortedLevels(DOMAIN T)) \in Nat
    BY <1>2
  <2> QED BY ONLY <2>1, EndpointTurns DEF N, levels
<1>4. Walks(r, turn, levels, T, ts)
  BY <1>3 DEF Walks
<1> HIDE DEF levels
<1>5. Walked(r, turn[Len(levels)], {levels[k] : k \in 1..Len(levels)}, T, ts)
  BY <1>1, <1>2, <1>4, WalkFacts
<1> QED BY <1>2, <1>3, <1>5

(***************************************************************************)
(* Trades.                                                                 *)
(***************************************************************************)

TradesAt(R, L) == {u \in R : u.level = L}

LEMMA UnitsAtFacts ==
  ASSUME NEW R, IsFiniteSet(R), \A t \in R : t.size \in Nat, NEW L
  PROVE  /\ UnitsAt(R, L) \in Nat
         /\ TradesAt(R, L) = {} => UnitsAt(R, L) = 0
         /\ \A t \in R : t.level = L => t.size <= UnitsAt(R, L)
<1> DEFINE S == TradesAt(R, L)
           f == [t \in S |-> t.size]
<1>1. UnitsAt(R, L) = Total(f)
  BY DEF UnitsAt, TradesAt
<1>2. IsFiniteSet(S) /\ \A t \in S : t.size \in Nat
  BY FS_Subset DEF TradesAt
<1> HIDE DEF S
<1>3. DOMAIN f = S /\ \A t \in S : f[t] = t.size
  OBVIOUS
<1> HIDE DEF f
<1>4. Summable(f) /\ \A t \in DOMAIN f : f[t] \in Nat
  BY <1>2, <1>3 DEF Summable
<1>5. Total(f) \in Nat /\ \A t \in DOMAIN f : f[t] <= Total(f)
  BY <1>4, TotalNat
<1>6. S = {} => Total(f) = 0
  BY <1>3, <1>4, TotalType
<1>7. \A t \in R : t.level = L => t.size <= Total(f)
  BY <1>3, <1>5 DEF S, TradesAt
<1> QED BY <1>1, <1>5, <1>6, <1>7 DEF S

LEMMA UnitsAtWithout ==
  ASSUME NEW R, IsFiniteSet(R), \A t \in R : t.size \in Nat, NEW L, NEW t \in R
  PROVE  UnitsAt(R \ {t}, L) = UnitsAt(R, L) - (IF t.level = L THEN t.size ELSE 0)
<1> DEFINE S == TradesAt(R, L)
           f == [u \in S |-> u.size]
           T == TradesAt(R \ {t}, L)
           g == [u \in T |-> u.size]
<1>1. UnitsAt(R, L) = Total(f) /\ UnitsAt(R \ {t}, L) = Total(g)
  BY DEF UnitsAt, TradesAt
<1>2. IsFiniteSet(S) /\ (\A u \in S : u.size \in Nat) /\ T = S \ {t} /\ (t \in S <=> t.level = L)
  BY FS_Subset DEF TradesAt
<1> HIDE DEF S, T
<1>3. DOMAIN f = S /\ (\A u \in S : f[u] = u.size) /\ DOMAIN g = T /\ \A u \in T : g[u] = u.size
  OBVIOUS
<1>4. t \notin S => f = g
  BY <1>2
<1> HIDE DEF f, g
<1>5. Summable(f)
  BY <1>2, <1>3 DEF Summable
<1>6. CASE t \in S
  <2>1. Total(f) = Total(g) + f[t] /\ Summable(g)
    BY <1>2, <1>3, <1>5, <1>6, TotalRemove
  <2>2. Total(f) \in Int /\ Total(g) \in Int /\ f[t] = t.size /\ t.size \in Nat
    BY <1>2, <1>3, <1>5, <1>6, <2>1, TotalType
  <2>3. t.level = L
    BY <1>2, <1>6
  <2>4. Total(g) = Total(f) - t.size
    BY ONLY <2>1, <2>2
  <2> QED BY ONLY <1>1, <2>3, <2>4
<1>7. CASE t \notin S
  <2>1. Total(f) = Total(g) /\ Total(f) \in Int /\ t.level # L
    BY <1>2, <1>4, <1>5, <1>7, TotalType
  <2>2. Total(g) = Total(f) - 0
    BY ONLY <2>1
  <2> QED BY ONLY <1>1, <2>1, <2>2
<1> QED BY <1>6, <1>7

(* The trades after the first k.                                           *)
ToCome(X, k) == {SortedTrades(X)[j] : j \in (k + 1)..Cardinality(X)}

LEMMA TradeFields ==
  ASSUME NEW from \in Nat, NEW to \in Nat, NEW X, TradesOK(X, from, to)
  PROVE  /\ IsFiniteSet(X)
         /\ \A t \in X : /\ t.id \in Nat /\ t.ts \in Nat /\ from < t.ts /\ t.ts <= to
                         /\ t.level \in Levels /\ t.size \in Nat \ {0} /\ t.size \in Nat
<1>1. \A t \in TradeRecords(from, to) :
         /\ t.id \in Nat /\ t.ts \in (from + 1)..to /\ t.level \in Levels /\ t.size \in Nat \ {0}
  BY DEF TradeRecords
<1>2. \A n \in (from + 1)..to : n \in Nat /\ from < n /\ n <= to
  OBVIOUS
<1> QED BY <1>1, <1>2 DEF TradesOK

LEMMA RestTrades ==
  ASSUME NEW from \in Nat, NEW to \in Nat, NEW X, TradesOK(X, from, to)
  PROVE  /\ ToCome(X, 0) = X /\ ToCome(X, Cardinality(X)) = {}
         /\ Cardinality(X) \in Nat
         /\ \A k \in 0..Cardinality(X) : ToCome(X, k) \in SUBSET X
         /\ \A k \in 0..(Cardinality(X) - 1) :
               /\ SortedTrades(X)[k + 1] \in ToCome(X, k)
               /\ ToCome(X, k + 1) = ToCome(X, k) \ {SortedTrades(X)[k + 1]}
<1> DEFINE n == Cardinality(X)
           s == SortedTrades(X)
           rest(k) == {s[j] : j \in (k + 1)..n}
<1>1. /\ n \in Nat /\ \A k \in 1..n : s[k] \in X
      /\ \A t \in X : \E k \in 1..n : s[k] = t
      /\ \A k, l \in 1..n : s[k] = s[l] => k = l
  <2>1. Enumerates(s, X)
    BY SortedTradesFacts
  <2> HIDE DEF s
  <2>2. n \in Nat /\ s \in [1..n -> X]
    BY <2>1 DEF Enumerates
  <2> QED BY <2>1, <2>2 DEF Enumerates
<1>2. \A k : ToCome(X, k) = rest(k)
  BY DEF ToCome
<1> HIDE DEF n, s
<1>3. rest(0) = X
  BY <1>1
<1>4. rest(n) = {}
  BY <1>1
<1>5. ASSUME NEW k \in 0..n PROVE rest(k) \in SUBSET X
  <2>1. \A j \in (k + 1)..n : j \in 1..n
    BY <1>1
  <2> QED BY <1>1, <2>1
<1>6. ASSUME NEW k \in 0..(n - 1)
      PROVE  s[k + 1] \in rest(k) /\ rest(k + 1) = rest(k) \ {s[k + 1]}
  <2>1. /\ k + 1 \in (k + 1)..n /\ k + 1 \in 1..n
        /\ (k + 1)..n = {k + 1} \cup ((k + 1) + 1)..n
        /\ \A j \in ((k + 1) + 1)..n : j \in 1..n /\ j # k + 1
    BY <1>1
  <2>2. \A j \in ((k + 1) + 1)..n : s[j] # s[k + 1]
    BY <1>1, <2>1
  <2> QED BY <2>1, <2>2
<1> HIDE DEF rest
<1> QED BY <1>1, <1>2, <1>3, <1>4, <1>5, <1>6 DEF n, s

(* What the levels will hold once the trades in R are taken.               *)
AfterTrades(units, R) == [L \in Levels |-> units[L] - UnitsAt(R, L)]

(* The arithmetic of one addition a: level quantity u, of which ua will still  *)
(* be traded, size now.                                                    *)
Enough(u, ua, size, goal, a) ==
  /\ a \in Nat /\ size <= u + a
  /\ Shortfall(goal, (u - ua) + a) = Shortfall(goal, u - ua) - a
  /\ Shortfall((u - ua) + a, goal) = Shortfall(u - ua, goal)

LEMMA AdditionEnough ==
  ASSUME NEW u \in Nat, NEW ua \in Nat, NEW size \in Nat, NEW goal \in Nat, size <= ua
  PROVE  /\ Enough(u, ua, size, goal, Shortfall(size, u))
         /\ Enough(u, ua, size, goal, Shortfall(goal + ua, u))
         /\ goal <= (u - ua) + Shortfall(goal + ua, u)
         /\ goal <= u - ua => Enough(u, ua, size, goal, 0)
<1>1. Enough(u, ua, size, goal, Shortfall(size, u))
  BY DEF Enough, Shortfall
<1>2. Enough(u, ua, size, goal, Shortfall(goal + ua, u)) /\ goal <= (u - ua) + Shortfall(goal + ua, u)
  BY DEF Enough, Shortfall
<1>3. goal <= u - ua => Enough(u, ua, size, goal, 0)
  BY DEF Enough, Shortfall
<1> QED BY <1>1, <1>2, <1>3

(* The state of the loop from r after k trades of X: no trade changes the      *)
(* additions so far plus the lack, or the excess, counted as if the rest were  *)
(* taken; a level whose trades are all to come is as it was; and the           *)
(* conservative policy has added enough for all trades of the others.          *)
LastTime(X, k, from) == IF k = 0 THEN from ELSE SortedTrades(X)[k].ts
Trading(r, s, X, k, T, from) ==
  LET R == ToCome(X, k)
  IN  /\ ReconOK(s) /\ Kept(r, s) /\ s.cancelled = r.cancelled
      /\ s.added + Lack(T, AfterTrades(s.units, R)) = r.added + Lack(T, AfterTrades(r.units, X))
      /\ Excess(T, AfterTrades(s.units, R)) = Excess(T, AfterTrades(r.units, X))
      /\ \A L \in Levels : TradesAt(R, L) = TradesAt(X, L) => s.units[L] = r.units[L]
      /\ r.newestFirst => \A L \in DOMAIN T :
            TradesAt(R, L) # TradesAt(X, L) => T[L] <= s.units[L] - UnitsAt(R, L)
      /\ InTime(s.events, from, LastTime(X, k, from))

(* The next trade is the first of its level if no trade of it is past.         *)
LEMMA FirstOfLevel ==
  ASSUME NEW from \in Nat, NEW to \in Nat, NEW X, TradesOK(X, from, to),
         NEW k \in 0..(Cardinality(X) - 1), NEW t, t = SortedTrades(X)[k + 1]
  PROVE  (\A u \in X : u.level = t.level => u = t \/ TradeBefore(t, u))
            <=> TradesAt(ToCome(X, k), t.level) = TradesAt(X, t.level)
<1> DEFINE n == Cardinality(X)
           s == SortedTrades(X)
           R == ToCome(X, k)
<1>1. /\ n \in Nat /\ (\A j \in 1..n : s[j] \in X)
      /\ (\A u \in X : \E j \in 1..n : s[j] = u)
      /\ (\A i, j \in 1..n : i < j => TradeBefore(s[i], s[j]))
      /\ R = {s[j] : j \in (k + 1)..n}
  <2>1. Enumerates(s, X) /\ \A i, j \in 1..n : i < j => TradeBefore(s[i], s[j])
    BY SortedTradesFacts
  <2>2. R = {s[j] : j \in (k + 1)..n}
    BY DEF ToCome
  <2> HIDE DEF s, R
  <2>3. n \in Nat /\ s \in [1..n -> X]
    BY <2>1 DEF Enumerates
  <2> QED BY <2>1, <2>2, <2>3 DEF Enumerates
<1>2. t = s[k + 1]
  OBVIOUS
<1>3. \A u \in X : u.ts \in Nat /\ u.id \in Nat
  BY TradeFields
<1> HIDE DEF n, s, R
<1>4. k \in Nat /\ k + 1 \in 1..n /\ t \in X /\ R \in SUBSET X
  <2>1. k \in Nat /\ k + 1 \in 1..n /\ \A j \in (k + 1)..n : j \in 1..n
    BY <1>1 DEF n
  <2> QED BY <1>1, <1>2, <2>1
<1>5. \A u \in X : u \in R <=> u = t \/ TradeBefore(t, u)
  <2>1. ASSUME NEW u \in X PROVE u \in R <=> u = t \/ TradeBefore(t, u)
    <3>1. PICK j \in 1..n : s[j] = u
      BY <1>1
    <3>2. CASE j <= k
      <4>1. TradeBefore(u, t)
        BY <1>1, <1>2, <1>4, <3>1, <3>2
      <4>2. ~TradeBefore(t, u) /\ u # t
        BY <1>3, <1>4, <4>1 DEF TradeBefore
      <4>3. u \notin R
        <5>1. SUFFICES ASSUME NEW i \in (k + 1)..n, s[i] = u PROVE FALSE
          BY <1>1
        <5>2. i \in 1..n /\ j < i
          BY <1>1, <1>4, <3>2
        <5>3. TradeBefore(u, u)
          BY <1>1, <3>1, <5>1, <5>2
        <5> QED BY <1>3, <5>3 DEF TradeBefore
      <4> QED BY <4>2, <4>3
    <3>3. CASE j = k + 1
      BY <1>1, <1>2, <1>4, <3>1, <3>3
    <3>4. CASE k + 1 < j
      <4>1. j \in (k + 1)..n
        BY <1>1, <1>4, <3>4
      <4>2. TradeBefore(t, u)
        BY <1>1, <1>2, <1>4, <3>1, <3>4
      <4> QED BY <1>1, <3>1, <4>1, <4>2
    <3> QED BY <1>1, <1>4, <3>2, <3>3, <3>4
  <2> QED BY <2>1
<1>6. (\A u \in X : u.level = t.level => u \in R) <=> TradesAt(R, t.level) = TradesAt(X, t.level)
  BY <1>4 DEF TradesAt
<1> QED BY <1>5, <1>6 DEF R

(* Taking one trade away from those to come.                               *)
LEMMA NextTradeFacts ==
  ASSUME NEW from \in Nat, NEW to \in Nat, NEW X, TradesOK(X, from, to),
         NEW k \in 0..(Cardinality(X) - 1), NEW t, t = SortedTrades(X)[k + 1],
         NEW R, R = ToCome(X, k), NEW Q, Q = ToCome(X, k + 1)
  PROVE  /\ t \in X /\ t \in R /\ Q = R \ {t}
         /\ \A L : UnitsAt(R, L) \in Nat
         /\ t.size <= UnitsAt(R, t.level)
         /\ \A L : UnitsAt(Q, L) = UnitsAt(R, L) - (IF t.level = L THEN t.size ELSE 0)
         /\ TradesAt(Q, t.level) # TradesAt(X, t.level)
         /\ \A L : L # t.level => TradesAt(Q, L) = TradesAt(R, L)
<1>1. IsFiniteSet(X) /\ \A u \in X : u.size \in Nat
  BY TradeFields
<1>2. R \in SUBSET X /\ t \in R /\ Q = R \ {t}
  <2>1. k \in 0..Cardinality(X)
    BY RestTrades
  <2> QED BY <2>1, RestTrades
<1>3. IsFiniteSet(R) /\ t \in X /\ \A u \in R : u.size \in Nat
  BY <1>1, <1>2, FS_Subset
<1>4. \A L : UnitsAt(R, L) \in Nat
  BY <1>3, UnitsAtFacts
<1>5. t.size <= UnitsAt(R, t.level)
  <2> DEFINE L == t.level
  <2>1. \A u \in R : u.level = L => u.size <= UnitsAt(R, L)
    <3> HIDE DEF L
    <3> QED BY <1>3, UnitsAtFacts
  <2> QED BY <1>2, <2>1
<1>6. ASSUME NEW L PROVE UnitsAt(Q, L) = UnitsAt(R, L) - (IF t.level = L THEN t.size ELSE 0)
  <2>1. IsFiniteSet(R) /\ (\A u \in R : u.size \in Nat) /\ t \in R
    BY <1>2, <1>3
  <2>2. UnitsAt(R \ {t}, L) = UnitsAt(R, L) - (IF t.level = L THEN t.size ELSE 0)
    BY ONLY <2>1, UnitsAtWithout
  <2> QED BY ONLY <1>2, <2>2
<1>7. TradesAt(Q, t.level) # TradesAt(X, t.level)
  BY <1>2, <1>3 DEF TradesAt
<1>8. \A L : L # t.level => TradesAt(Q, L) = TradesAt(R, L)
  BY <1>2 DEF TradesAt
<1> QED BY <1>2, <1>3, <1>4, <1>5, <1>6, <1>7, <1>8

TradeTurn(r, s, t, T, X) ==
  ConsumePublic(AppendIfAny(s, t.level, Addition(r, s, t, T, X), t.ts), t)

LEMMA TradeStep ==
  ASSUME NEW r, ReconOK(r), NEW from \in Nat, NEW to \in Nat, NEW X, TradesOK(X, from, to),
         NEW T, TargetsOK(T), \A t \in X : t.level \in DOMAIN T,
         NEW k \in 0..(Cardinality(X) - 1), NEW s, Trading(r, s, X, k, T, from)
  PROVE  Trading(r, TradeTurn(r, s, SortedTrades(X)[k + 1], T, X), X, k + 1, T, from)
<1> DEFINE t == SortedTrades(X)[k + 1]
           R == ToCome(X, k)
           Q == ToCome(X, k + 1)
           L == t.level
           u == s.units[L]
           ua == UnitsAt(R, L)
           goal == T[L]
           a == Addition(r, s, t, T, X)
           m == AppendIfAny(s, L, a, t.ts)
           q == ConsumePublic(m, t)
           first == TradesAt(R, L) = TradesAt(X, L)
           newest == s.newestFirst
           v == AfterTrades(s.units, R)
           w == AfterTrades(q.units, Q)
<1>1. /\ ReconOK(s) /\ Kept(r, s) /\ s.cancelled = r.cancelled
      /\ s.added + Lack(T, v) = r.added + Lack(T, AfterTrades(r.units, X))
      /\ Excess(T, v) = Excess(T, AfterTrades(r.units, X))
      /\ \A K \in Levels : TradesAt(R, K) = TradesAt(X, K) => s.units[K] = r.units[K]
      /\ r.newestFirst => \A K \in DOMAIN T :
            TradesAt(R, K) # TradesAt(X, K) => T[K] <= s.units[K] - UnitsAt(R, K)
      /\ InTime(s.events, from, LastTime(X, k, from))
  BY DEF Trading
<1>2. /\ t \in X /\ t \in R /\ Q = R \ {t}
      /\ \A K : UnitsAt(R, K) \in Nat
      /\ t.size <= UnitsAt(R, t.level)
      /\ \A K : UnitsAt(Q, K) = UnitsAt(R, K) - (IF t.level = K THEN t.size ELSE 0)
      /\ TradesAt(Q, t.level) # TradesAt(X, t.level)
      /\ \A K : K # t.level => TradesAt(Q, K) = TradesAt(R, K)
  BY NextTradeFacts
<1>3. (\A x \in X : x.level = t.level => x = t \/ TradeBefore(t, x)) <=> first
  BY FirstOfLevel
<1>4. /\ t.id \in Nat /\ t.ts \in Nat /\ from < t.ts /\ t.ts <= to
      /\ L \in Levels /\ t.size \in Nat \ {0} /\ t.size \in Nat
  BY <1>2, TradeFields
<1>5. L \in DOMAIN T /\ goal \in Nat
  BY <1>2 DEF TargetsOK
<1>6. /\ newest \in BOOLEAN /\ newest = r.newestFirst /\ u \in Nat /\ s.added \in Nat
      /\ s.units \in [Levels -> Nat]
  BY <1>1, <1>4, ReconFacts DEF Kept, SameKind
<1>7. LastTime(X, k, from) \in Nat /\ from <= LastTime(X, k, from) /\ LastTime(X, k, from) <= t.ts
  <2>1. CASE k = 0
    BY <1>4, <2>1 DEF LastTime
  <2>2. CASE k # 0
    <3> DEFINE z == SortedTrades(X)[k]
    <3>1. LastTime(X, k, from) = z.ts
      BY <2>2 DEF LastTime
    <3>2. Cardinality(X) \in Nat
      BY RestTrades
    <3>3. k \in 1..Cardinality(X) /\ k + 1 \in 1..Cardinality(X) /\ k < k + 1
      BY <2>2, <3>2
    <3>4. z \in X
      <4>1. Enumerates(SortedTrades(X), X)
        BY SortedTradesFacts
      <4> DEFINE st == SortedTrades(X)
      <4>2. st \in [1..Cardinality(X) -> X]
        BY <4>1 DEF Enumerates
      <4> HIDE DEF st
      <4>3. st[k] \in X
        BY <3>3, <4>2
      <4> QED BY <4>3 DEF st
    <3>5. TradeBefore(z, t)
      BY <3>3, SortedTradesFacts
    <3>6. z.ts \in Nat /\ from < z.ts
      BY <3>4, TradeFields
    <3> HIDE DEF z, t
    <3>7. z.ts <= t.ts
      BY <1>4, <3>5, <3>6 DEF TradeBefore
    <3> QED BY <3>1, <3>6, <3>7
  <2> QED BY <2>1, <2>2
<1>8. first => u = r.units[L] /\ ua = UnitsAt(X, L)
  <2>1. first => s.units[L] = r.units[L]
    BY <1>1, <1>4
  <2>2. first => UnitsAt(R, L) = UnitsAt(X, L)
    BY DEF TradesAt, UnitsAt
  <2> QED BY <2>1, <2>2
<1>9. newest /\ ~first => goal <= u - ua
  BY <1>1, <1>5, <1>6
<1> HIDE DEF R, Q, first
<1>10. a = IF ~newest THEN Shortfall(t.size, u)
           ELSE IF first THEN Shortfall(goal + ua, u) ELSE 0
  <2> DEFINE isFirst == \A x \in X : x.level = t.level => x = t \/ TradeBefore(t, x)
  <2>1. isFirst <=> first
    BY <1>3
  <2>2. a = CASE ~newest -> Shortfall(t.size, u)
              [] newest /\ isFirst -> MinimumAdd(r, L, goal, UnitsAt(X, L))
              [] OTHER -> 0
    <3> HIDE DEF t
    <3> QED BY DEF Addition
  <2>3. first => MinimumAdd(r, L, goal, UnitsAt(X, L)) = Shortfall(goal + ua, u)
    BY <1>8 DEF MinimumAdd
  <2> HIDE DEF isFirst, a, newest, u, ua, L, t, goal
  <2>4. CASE ~newest
    BY <2>2, <2>4
  <2>5. CASE newest /\ first
    BY <2>1, <2>2, <2>3, <2>5
  <2>6. CASE newest /\ ~first
    BY <2>1, <2>2, <2>6
  <2> QED BY <1>6, <2>4, <2>5, <2>6 DEF newest
<1> HIDE DEF t, a
<1>11. ua \in Nat /\ t.size <= ua /\ first \in BOOLEAN
  BY <1>2 DEF first
<1> HIDE DEF L, u, ua, goal, newest
<1>12. /\ a \in Nat /\ t.size <= u + a
       /\ Shortfall(goal, (u - ua) + a) = Shortfall(goal, u - ua) - a
       /\ Shortfall((u - ua) + a, goal) = Shortfall(u - ua, goal)
       /\ newest => goal <= (u - ua) + a
  <2> DEFINE n == t.size
  <2>1. n \in Nat /\ n <= ua
    BY <1>4, <1>11
  <2> HIDE DEF n
  <2>2. a = IF ~newest THEN Shortfall(n, u) ELSE IF first THEN Shortfall(goal + ua, u) ELSE 0
    BY <1>10 DEF n
  <2>3. /\ Enough(u, ua, n, goal, Shortfall(n, u))
        /\ Enough(u, ua, n, goal, Shortfall(goal + ua, u))
        /\ goal <= (u - ua) + Shortfall(goal + ua, u)
        /\ goal <= u - ua => Enough(u, ua, n, goal, 0)
    BY <1>5, <1>6, <1>11, <2>1, AdditionEnough
  <2>4. Enough(u, ua, n, goal, a)
    BY <1>9, <2>2, <2>3
  <2>5. newest => goal <= (u - ua) + a
    <3>1. CASE newest /\ first
      BY <2>2, <2>3, <3>1
    <3>2. CASE newest /\ ~first
      <4>1. a = 0 /\ goal <= u - ua
        BY <1>9, <2>2, <3>2
      <4> QED BY <1>5, <1>6, <1>11, <4>1
    <3> QED BY <3>1, <3>2
  <2> QED BY <2>4, <2>5 DEF n, Enough
<1>13. /\ Moved(s, m, L, u + a, t.ts) /\ m.added = s.added + a /\ m.cancelled = s.cancelled
  BY <1>1, <1>4, <1>12, AppendIfAnyFacts DEF u
<1> HIDE DEF m
<1>14. /\ ReconOK(m) /\ Kept(s, m) /\ EventsGrow(s.events, m.events, t.ts)
       /\ m.units = [s.units EXCEPT ![L] = u + a] /\ m.units[L] = u + a
  <2>1. m.units = [s.units EXCEPT ![L] = u + a]
    BY <1>13 DEF Moved
  <2> QED BY <1>4, <1>6, <1>13, <2>1 DEF Moved
<1>15. /\ Moved(m, q, L, (u + a) - t.size, t.ts) /\ q.added = m.added /\ q.cancelled = m.cancelled
  <2>1. /\ t.level \in Levels /\ t.size <= m.units[t.level] /\ m.units[t.level] = u + a
    BY <1>4, <1>12, <1>14 DEF L
  <2>2. /\ Moved(m, q, t.level, m.units[t.level] - t.size, t.ts)
        /\ q.added = m.added /\ q.cancelled = m.cancelled
    BY <1>4, <1>14, <2>1, ConsumePublicFacts DEF q
  <2> QED BY <2>1, <2>2 DEF L
<1> HIDE DEF q
<1>16. /\ ReconOK(q) /\ Kept(m, q) /\ EventsGrow(m.events, q.events, t.ts)
       /\ q.units \in [Levels -> Nat]
       /\ \A K \in Levels : q.units[K] = IF K = L THEN (u + a) - t.size ELSE s.units[K]
  <2>1. ReconOK(q) /\ Kept(m, q) /\ EventsGrow(m.events, q.events, t.ts)
        /\ q.units = [m.units EXCEPT ![L] = (u + a) - t.size]
    BY <1>15 DEF Moved
  <2>2. q.units \in [Levels -> Nat] /\ m.units \in [Levels -> Nat]
    BY <1>14, <2>1, ReconFacts
  <2>3. \A K \in Levels : m.units[K] = IF K = L THEN u + a ELSE s.units[K]
    BY <1>6, <1>14
  <2> QED BY <2>1, <2>2, <2>3
<1>17. \A K \in Levels : v[K] = s.units[K] - UnitsAt(R, K) /\ w[K] = q.units[K] - UnitsAt(Q, K)
  BY DEF AfterTrades
<1>18. v \in [Levels -> Int] /\ w \in [Levels -> Int]
  <2>1. \A K \in Levels : UnitsAt(R, K) \in Int /\ UnitsAt(Q, K) \in Int
    BY <1>2, <1>4
  <2>2. \A K \in Levels : s.units[K] \in Int /\ q.units[K] \in Int
    BY <1>6, <1>16
  <2> QED BY <2>1, <2>2 DEF AfterTrades
<1> HIDE DEF v, w
<1>19. w = [v EXCEPT ![L] = (u - ua) + a] /\ v[L] = u - ua
  <2>1. v[L] = u - ua
    BY <1>4, <1>17 DEF u, ua
  <2>2. UnitsAt(Q, L) = ua - t.size
    BY <1>2 DEF L, ua
  <2>3. w[L] = (u - ua) + a
    BY <1>4, <1>6, <1>11, <1>12, <1>16, <1>17, <2>2
  <2>4. \A K \in Levels : K # L => w[K] = v[K]
    <3>1. ASSUME NEW K \in Levels, K # L PROVE w[K] = v[K]
      <4>1. UnitsAt(Q, K) = UnitsAt(R, K) - 0 /\ UnitsAt(R, K) \in Nat
        BY <1>2, <3>1 DEF L
      <4>2. q.units[K] = s.units[K]
        BY <1>16, <3>1
      <4> QED BY <1>17, <4>1, <4>2
    <3> QED BY <3>1
  <2> QED BY <1>4, <1>18, <2>1, <2>3, <2>4
<1>20. /\ Lack(T, w) = Lack(T, v) - Shortfall(goal, u - ua) + Shortfall(goal, (u - ua) + a)
       /\ Excess(T, w) = Excess(T, v) - Shortfall(u - ua, goal) + Shortfall((u - ua) + a, goal)
  <2> DEFINE x == (u - ua) + a
             y == u - ua
  <2>1. x \in Int /\ y \in Int
    BY <1>6, <1>11, <1>12
  <2>2. w = [v EXCEPT ![L] = x] /\ v[L] = y
    BY <1>19
  <2> HIDE DEF x, y
  <2>3. /\ Lack(T, w) = Lack(T, v) - Shortfall(T[L], v[L]) + Shortfall(T[L], x)
        /\ Excess(T, w) = Excess(T, v) - Shortfall(v[L], T[L]) + Shortfall(x, T[L])
    <3>1. TargetsOK(T) /\ L \in DOMAIN T
      BY <1>5
    <3>2. w = [v EXCEPT ![L] = x]
      BY <2>2
    <3>3. v \in [Levels -> Int] /\ x \in Int
      BY <1>18, <2>1
    <3>4. GapMoved(T, v, L, x, w)
      BY ONLY <3>1, <3>2, <3>3, GapMoves
    <3> QED BY <3>4 DEF GapMoved
  <2> QED BY <2>2, <2>3 DEF goal, x, y
<1>21. /\ Lack(T, v) \in Nat /\ Excess(T, v) \in Nat /\ Lack(T, w) \in Nat /\ Excess(T, w) \in Nat
       /\ Shortfall(goal, u - ua) \in Nat /\ Shortfall(u - ua, goal) \in Nat
  <2>1. u - ua \in Int /\ goal \in Int
    BY <1>5, <1>6, <1>11
  <2> QED BY <1>18, <2>1, GapTypes, ShortfallFacts
<1>22. q.added + Lack(T, w) = s.added + Lack(T, v) /\ Excess(T, w) = Excess(T, v)
  <2>1. q.added = s.added + a
    BY <1>13, <1>15
  <2> QED BY ONLY <1>6, <1>12, <1>20, <1>21, <2>1
<1>23. q.cancelled = r.cancelled
  BY <1>1, <1>13, <1>15
<1>24. Kept(r, q)
  <2>1. Kept(r, m)
    BY <1>1, <1>14, KeptOn
  <2> QED BY <1>16, <2>1, KeptOn
<1>25. ASSUME NEW K \in Levels, TradesAt(Q, K) = TradesAt(X, K) PROVE q.units[K] = r.units[K]
  <2>1. K # L /\ TradesAt(R, K) = TradesAt(X, K)
    BY <1>2, <1>25 DEF L
  <2> QED BY <1>1, <1>16, <2>1
<1>26. ASSUME r.newestFirst, NEW K \in DOMAIN T, TradesAt(Q, K) # TradesAt(X, K)
       PROVE  T[K] <= q.units[K] - UnitsAt(Q, K)
  <2>1. K \in Levels
    BY DEF TargetsOK
  <2>2. CASE K = L
    <3>1. w[L] = (u - ua) + a
      BY <1>4, <1>18, <1>19
    <3> QED BY <1>6, <1>12, <1>17, <1>26, <2>1, <2>2, <3>1 DEF goal
  <2>3. CASE K # L
    <3>1. TradesAt(R, K) # TradesAt(X, K)
      BY <1>2, <1>26, <2>3 DEF L
    <3>2. T[K] <= v[K]
      BY <1>1, <1>17, <1>26, <2>1, <3>1
    <3>3. w[K] = v[K]
      BY <1>18, <1>19, <2>1, <2>3
    <3> QED BY <1>17, <2>1, <3>2, <3>3
  <2> QED BY <2>2, <2>3
<1>27. InTime(q.events, from, LastTime(X, k + 1, from))
  <2>1. LastTime(X, k + 1, from) = t.ts
    <3>1. k + 1 # 0
      OBVIOUS
    <3> QED BY <3>1 DEF LastTime, t
  <2>2. \A lo, hi \in Nat : lo <= hi /\ hi <= t.ts /\ InTime(s.events, lo, hi)
                                => InTime(q.events, lo, t.ts)
    <3> DEFINE ts == t.ts
    <3>1. ts \in Nat /\ ts <= ts
      BY <1>4
    <3> HIDE DEF ts
    <3>2. EventsGrow(s.events, m.events, ts) /\ EventsGrow(m.events, q.events, ts)
      BY <1>14, <1>16 DEF ts
    <3>3. \A lo, hi \in Nat : lo <= hi /\ hi <= ts /\ InTime(s.events, lo, hi)
                                => InTime(q.events, lo, ts)
      BY <3>1, <3>2, EventsGrowOn
    <3> QED BY <3>3 DEF ts
  <2> QED BY <1>1, <1>7, <2>1, <2>2
<1>28. /\ q.added + Lack(T, w) = r.added + Lack(T, AfterTrades(r.units, X))
       /\ Excess(T, w) = Excess(T, AfterTrades(r.units, X))
  BY ONLY <1>1, <1>22
<1>29. TradeTurn(r, s, t, T, X) = q
  BY DEF TradeTurn, q, m, a, L
<1>30. Trading(r, q, X, k + 1, T, from)
  BY ONLY <1>16, <1>23, <1>24, <1>25, <1>26, <1>27, <1>28 DEF Trading, w, Q
<1> QED BY ONLY <1>29, <1>30 DEF t

(* The turns of the trade loop.                                            *)
LEMMA TradeTurns ==
  ASSUME NEW r, NEW T, NEW X, Len(SortedTrades(X)) \in Nat
  PROVE  \E turn : /\ turn[0] = r
                   /\ \A k \in 1..Len(SortedTrades(X)) : turn[k] = ConsumePublic(AppendIfAny(turn[k - 1], SortedTrades(X)[k].level, Addition(r, turn[k - 1], SortedTrades(X)[k], T, X), SortedTrades(X)[k].ts), SortedTrades(X)[k])
                   /\ ApplyTrades(r, T, X) = turn[Len(SortedTrades(X))]
<1> DEFINE N == Len(SortedTrades(X))
           x == r
           Step(t, k) == ConsumePublic(AppendIfAny(t, SortedTrades(X)[k].level, Addition(r, t, SortedTrades(X)[k], T, X), SortedTrades(X)[k].ts), SortedTrades(X)[k])
           S == {M \in Nat : \E h : h = [k \in 0..M |-> IF k = 0 THEN x ELSE Step(h[k - 1], k)]}
           f == CHOOSE h : h = [k \in 0..N |-> IF k = 0 THEN x ELSE Step(h[k - 1], k)]
<1>1. N \in Nat
  OBVIOUS
<1>2. ApplyTrades(r, T, X) = f[N]
  BY DEF ApplyTrades
<1> HIDE DEF N, x, Step
<1>3. 0 \in S
  <2> DEFINE h == [k \in 0..0 |-> x]
  <2>1. h = [k \in 0..0 |-> IF k = 0 THEN x ELSE Step(h[k - 1], k)]
    <3>1. \A k \in 0..0 : k = 0
      OBVIOUS
    <3> QED BY <3>1
  <2> HIDE DEF h
  <2> QED BY <2>1
<1>4. ASSUME NEW M \in S PROVE M + 1 \in S
  <2>1. PICK h : h = [k \in 0..M |-> IF k = 0 THEN x ELSE Step(h[k - 1], k)]
    BY <1>4
  <2> DEFINE g == [k \in 0..(M + 1) |-> IF k \in 0..M THEN h[k] ELSE Step(h[M], k)]
  <2>2. M \in Nat /\ M + 1 \in Nat
    BY <1>4
  <2>3. \A k \in 0..M : g[k] = h[k] /\ h[k] = IF k = 0 THEN x ELSE Step(h[k - 1], k)
    BY <2>1, <2>2
  <2>4. ASSUME NEW k \in 0..(M + 1)
        PROVE  g[k] = IF k = 0 THEN x ELSE Step(g[k - 1], k)
    <3>1. CASE k \in 0..M
      <4>1. k # 0 => k - 1 \in 0..M
        BY <2>2, <3>1
      <4> HIDE DEF g
      <4> QED BY <2>3, <3>1, <4>1
    <3>2. CASE k \notin 0..M
      <4>1. k - 1 = M /\ k # 0 /\ M \in 0..M
        BY <2>2, <3>2
      <4>2. g[k] = Step(h[M], k)
        BY <3>2
      <4> HIDE DEF g
      <4> QED BY <2>3, <4>1, <4>2
    <3> QED BY <3>1, <3>2
  <2>5. g = [k \in 0..(M + 1) |-> g[k]]
    OBVIOUS
  <2> HIDE DEF g
  <2>6. g = [k \in 0..(M + 1) |-> IF k = 0 THEN x ELSE Step(g[k - 1], k)]
    BY <2>4, <2>5
  <2> QED BY <2>2, <2>6
<1>5. S = Nat
  <2>1. S \in SUBSET Nat
    OBVIOUS
  <2> HIDE DEF S
  <2> QED BY <1>3, <1>4, <2>1, SetInduction
<1>6. f = [k \in 0..N |-> IF k = 0 THEN x ELSE Step(f[k - 1], k)]
  <2>1. \E h : h = [k \in 0..N |-> IF k = 0 THEN x ELSE Step(h[k - 1], k)]
    BY <1>1, <1>5
  <2> QED BY <2>1
<1> HIDE DEF f
<1>7. f[0] = x /\ \A k \in 1..N : f[k] = Step(f[k - 1], k)
  <2>1. 0 \in 0..N /\ \A k \in 1..N : k \in 0..N /\ k # 0
    BY <1>1
  <2> QED BY <1>6, <2>1
<1> QED BY <1>2, <1>7 DEF N, x, Step

LEMMA TradingStarts ==
  ASSUME NEW r, ReconOK(r), r.events = <<>>, NEW from \in Nat, NEW to \in Nat,
         NEW X, TradesOK(X, from, to), NEW T
  PROVE  Trading(r, r, X, 0, T, from)
<1>1. ToCome(X, 0) = X
  BY RestTrades
<1>2. InTime(r.events, from, from) /\ LastTime(X, 0, from) = from
  BY InTimeEmpty DEF LastTime
<1>3. Kept(r, r)
  BY DEF Kept, SameKind, Followed
<1> QED BY <1>1, <1>2, <1>3 DEF Trading

(* The trade loop.                                                         *)
LEMMA ApplyTradesFacts ==
  ASSUME NEW r, ReconOK(r), r.events = <<>>, NEW from \in Nat, NEW to \in Nat,
         NEW X, TradesOK(X, from, to), NEW T, TargetsOK(T), \A t \in X : t.level \in DOMAIN T
  PROVE  Trading(r, ApplyTrades(r, T, X), X, Cardinality(X), T, from)
<1> DEFINE N == Cardinality(X)
<1>1. N \in Nat /\ Len(SortedTrades(X)) = N
  BY SortedTradesFacts, RestTrades
<1>2. PICK turn : /\ turn[0] = r
                  /\ \A k \in 1..N : turn[k] = TradeTurn(r, turn[k - 1], SortedTrades(X)[k], T, X)
                  /\ ApplyTrades(r, T, X) = turn[N]
  <2> DEFINE M == Len(SortedTrades(X))
  <2>1. M \in Nat
    BY <1>1
  <2>2. \E turn : /\ turn[0] = r
                  /\ \A k \in 1..M : turn[k] = TradeTurn(r, turn[k - 1], SortedTrades(X)[k], T, X)
                  /\ ApplyTrades(r, T, X) = turn[M]
    BY ONLY <2>1, TradeTurns DEF TradeTurn
  <2>3. M = N
    BY <1>1
  <2> HIDE DEF M, N
  <2> QED BY ONLY <2>2, <2>3
<1> DEFINE P(k) == Trading(r, turn[k], X, k, T, from)
           S == {k \in Nat : k <= N => P(k)}
<1> HIDE DEF P
<1>3. 0 \in S
  <2>1. P(0)
    BY <1>2, TradingStarts DEF P
  <2> QED BY <2>1
<1>4. ASSUME NEW k \in S PROVE k + 1 \in S
  <2> SUFFICES ASSUME k + 1 <= N PROVE P(k + 1)
    BY <1>4
  <2>1. k \in 0..(N - 1) /\ k + 1 \in 1..N /\ (k + 1) - 1 = k /\ k <= N
    BY <1>1, <1>4
  <2>2. P(k)
    BY <1>4, <2>1
  <2> DEFINE s == turn[k]
  <2>3. Trading(r, s, X, k, T, from)
    BY <2>2 DEF P
  <2> HIDE DEF s
  <2>4. Trading(r, TradeTurn(r, s, SortedTrades(X)[k + 1], T, X), X, k + 1, T, from)
    BY <2>1, <2>3, TradeStep
  <2>5. turn[k + 1] = TradeTurn(r, s, SortedTrades(X)[k + 1], T, X)
    BY <1>2, <2>1 DEF s
  <2> QED BY <2>4, <2>5 DEF P
<1>5. P(N)
  <2>1. S = Nat
    <3>1. S \in SUBSET Nat
      OBVIOUS
    <3> HIDE DEF S
    <3> QED BY <1>3, <1>4, <3>1, SetInduction
  <2>2. N \in S /\ N <= N
    <3> HIDE DEF S
    <3> QED BY <1>1, <2>1
  <2> QED BY <2>2
<1> QED BY <1>2, <1>5 DEF P

(***************************************************************************)
(* Calls.                                                                  *)
(***************************************************************************)

LEMMA BegunFacts ==
  ASSUME NEW r, ReconOK(r)
  PROVE  /\ ReconOK(Begun(r)) /\ SameKind(r, Begun(r)) /\ Begun(r).events = <<>>
         /\ Begun(r).added = 0 /\ Begun(r).cancelled = 0 /\ Begun(r).units = r.units
         /\ Begun(r).queues = r.queues /\ Begun(r).nextId = r.nextId
<1> DEFINE b == Begun(r)
<1>1. r \in Recons
  BY DEF ReconOK
<1>2. <<>> \in Seq(MBOEvents)
  OBVIOUS
<1>3. /\ b \in Recons /\ b.queues = r.queues /\ b.units = r.units /\ b.best = r.best
      /\ b.nextId = r.nextId /\ b.emits = r.emits /\ b.raised = r.raised
      /\ b.newestFirst = r.newestFirst /\ b.symbol = r.symbol /\ b.time = r.time
      /\ b.events = <<>> /\ b.added = 0 /\ b.cancelled = 0
  BY <1>1, <1>2 DEF Begun, Recons
<1> HIDE DEF b
<1>4. ReconOK(b)
  BY <1>3, ReconAgrees
<1>5. SameKind(r, b)
  BY <1>3 DEF SameKind
<1> QED BY <1>3, <1>4, <1>5 DEF b

LEMMA EndedFacts ==
  ASSUME NEW r, ReconOK(r), NEW ts \in Nat
  PROVE  /\ ReconOK(Ended(r, ts)) /\ Ended(r, ts).time = ts
         /\ Ended(r, ts).emits = r.emits /\ Ended(r, ts).newestFirst = r.newestFirst
         /\ Ended(r, ts).symbol = r.symbol /\ Ended(r, ts).events = r.events
         /\ Ended(r, ts).added = r.added /\ Ended(r, ts).cancelled = r.cancelled
         /\ Ended(r, ts).units = r.units /\ Ended(r, ts).queues = r.queues
         /\ Ended(r, ts).nextId = r.nextId
<1> DEFINE b == Ended(r, ts)
<1>1. r \in Recons
  BY DEF ReconOK
<1>2. /\ b \in Recons /\ b.queues = r.queues /\ b.units = r.units /\ b.best = r.best
      /\ b.nextId = r.nextId /\ b.emits = r.emits /\ b.raised = r.raised
      /\ b.newestFirst = r.newestFirst /\ b.symbol = r.symbol /\ b.time = ts
      /\ b.events = r.events /\ b.added = r.added /\ b.cancelled = r.cancelled
  <2>1. ts \in Int
    OBVIOUS
  <2>2. b = [r EXCEPT !.time = ts]
    BY DEF Ended
  <2> HIDE DEF b
  <2> QED BY <1>1, <2>1, <2>2 DEF Recons
<1> HIDE DEF b
<1>3. ReconOK(b)
  BY <1>2, ReconAgrees
<1> QED BY <1>2, <1>3 DEF b

LEMMA LastTimeFacts ==
  ASSUME NEW from \in Nat, NEW to \in Nat, from <= to, NEW X, TradesOK(X, from, to),
         NEW k \in 0..Cardinality(X)
  PROVE  LastTime(X, k, from) \in Nat /\ from <= LastTime(X, k, from) /\ LastTime(X, k, from) <= to
<1>1. CASE k = 0
  BY <1>1 DEF LastTime
<1>2. CASE k # 0
  <2> DEFINE st == SortedTrades(X)
             z == st[k]
  <2>1. LastTime(X, k, from) = z.ts
    BY <1>2 DEF LastTime
  <2>2. Enumerates(st, X)
    BY SortedTradesFacts
  <2> HIDE DEF st
  <2>3. st \in [1..Cardinality(X) -> X] /\ k \in 1..Cardinality(X)
    BY <1>2, <2>2 DEF Enumerates
  <2>4. z \in X
    BY <2>3
  <2>5. z.ts \in Nat /\ from < z.ts /\ z.ts <= to
    BY <2>4, TradeFields
  <2> QED BY <2>1, <2>5
<1> QED BY <1>1, <1>2

LEMMA NoTradesToCome ==
  ASSUME NEW units \in [Levels -> Nat]
  PROVE  AfterTrades(units, {}) = units
<1>1. \A L \in Levels : UnitsAt({}, L) = 0
  <2>1. IsFiniteSet({}) /\ \A t \in {} : t.size \in Nat
    BY FS_EmptySet
  <2>2. \A L : TradesAt({}, L) = {}
    BY DEF TradesAt
  <2> QED BY <2>1, <2>2, UnitsAtFacts
<1> QED BY <1>1 DEF AfterTrades

TargetsAre(T, r, obs, X) ==
  /\ TargetsOK(T) /\ \A t \in X : t.level \in DOMAIN T
  /\ DOMAIN T = DOMAIN obs \cup {t.level : t \in X}
  /\ \A L \in DOMAIN T : T[L] = IF L \in DOMAIN obs THEN obs[L] ELSE r.units[L]

LEMMA TargetsFacts ==
  ASSUME NEW r, r.units \in [Levels -> Nat], NEW obs, TargetsOK(obs), NEW from \in Nat,
         NEW to \in Nat, NEW X, TradesOK(X, from, to), NEW T, T = Targets(r, obs, X)
  PROVE  TargetsAre(T, r, obs, X)
<1> DEFINE D == DOMAIN obs \cup {t.level : t \in X}
<1>1. D \subseteq Levels
  BY TradeFields DEF TargetsOK
<1>2. T = [L \in D |-> IF L \in DOMAIN obs THEN obs[L] ELSE r.units[L]]
  BY DEF Targets
<1>3. \A t \in X : t.level \in D
  OBVIOUS
<1> HIDE DEF D
<1>4. DOMAIN T = D /\ \A L \in D : T[L] = IF L \in DOMAIN obs THEN obs[L] ELSE r.units[L]
  BY <1>2
<1>5. \A L \in D : T[L] \in Nat
  BY <1>1, <1>4 DEF TargetsOK
<1>6. T \in [D -> Nat]
  BY <1>2, <1>4, <1>5
<1> QED BY <1>1, <1>3, <1>4, <1>6 DEF TargetsAre, TargetsOK, D

(* The events of a call bring an engine that holds the queues of r to one  *)
(* that holds those of q.                                                  *)
Begins(r, q) ==
  r.emits => \A e : Shown(e, r.queues, r.nextId) => Leaves(e, q.events, q)

LEMMA BeginsHere ==
  ASSUME NEW r, NEW b, b.queues = r.queues, b.nextId = r.nextId, b.events = <<>>
  PROVE  Begins(r, b)
<1>1. ASSUME NEW e, Shown(e, r.queues, r.nextId) PROVE Leaves(e, b.events, b)
  <2>1. Leads(e, <<>>, e)
    BY LeadsNowhere
  <2> QED BY <1>1, <2>1 DEF Leaves
<1> QED BY <1>1 DEF Begins

LEMMA BeginsOn ==
  ASSUME NEW r, NEW s, Begins(r, s), s.emits = r.emits, NEW e, Kept(s, e), NEW q,
         q.queues = e.queues, q.nextId = e.nextId, q.events = e.events
  PROVE  Begins(r, q)
<1>1. ASSUME r.emits, NEW f, Shown(f, r.queues, r.nextId) PROVE Leaves(f, q.events, q)
  <2>1. Leaves(f, s.events, s)
    BY <1>1 DEF Begins
  <2>2. Leaves(f, e.events, e)
    BY <1>1, <2>1 DEF Kept, Followed
  <2> QED BY <2>2 DEF Leaves
<1> QED BY <1>1 DEF Begins

(* What apply_update makes of r.                                           *)
UpdateDone(r, q, obs, X, ts) ==
  LET T == Targets(r, obs, X)
      w == AfterTrades(r.units, X)
  IN  /\ ReconOK(q) /\ q.time = ts /\ Begins(r, q)
      /\ q.emits = r.emits /\ q.newestFirst = r.newestFirst /\ q.symbol = r.symbol
      /\ q.units = Observed(r.units, obs) /\ InTime(q.events, r.time, ts)
      /\ q.added + Lack(T, q.units) = Lack(T, w)
      /\ q.cancelled + Excess(T, q.units) = Excess(T, w)

LEMMA UpdatedFacts ==
  ASSUME NEW r, ReconOK(r), r.time \in Nat, NEW ts \in Nat, r.time <= ts, NEW obs, TargetsOK(obs),
         NEW X, TradesOK(X, r.time, ts)
  PROVE  UpdateDone(r, Updated(r, obs, X, ts), obs, X, ts)
<1> DEFINE from == r.time
           T == Targets(r, obs, X)
           b == Begun(r)
           s == ApplyTrades(b, T, X)
           e == ApplyEndpoint(s, T, ts)
           q == Ended(e, ts)
           n == Cardinality(X)
           w == AfterTrades(r.units, X)
<1>1. /\ r.units \in [Levels -> Nat] /\ from \in Nat
  BY ReconFacts
<1>2. /\ ReconOK(b) /\ SameKind(r, b) /\ b.events = <<>> /\ b.added = 0 /\ b.cancelled = 0
      /\ b.units = r.units /\ b.queues = r.queues /\ b.nextId = r.nextId
  BY BegunFacts
<1> HIDE DEF b, from, T
<1>3. /\ TargetsOK(T) /\ \A t \in X : t.level \in DOMAIN T
      /\ DOMAIN T = DOMAIN obs \cup {t.level : t \in X}
      /\ \A L \in DOMAIN T : T[L] = IF L \in DOMAIN obs THEN obs[L] ELSE r.units[L]
  <2>1. T = Targets(r, obs, X)
    BY DEF T
  <2>2. TradesOK(X, from, ts)
    BY DEF from
  <2>3. TargetsAre(T, r, obs, X)
    BY <1>1, <2>1, <2>2, TargetsFacts
  <2> QED BY <2>3 DEF TargetsAre
<1>4. TradesOK(X, from, ts) /\ from <= ts
  BY DEF from
<1>5. Trading(b, s, X, n, T, from)
  BY <1>1, <1>2, <1>3, <1>4, ApplyTradesFacts
<1> HIDE DEF s
<1>6. ToCome(X, n) = {} /\ n \in 0..Cardinality(X)
  BY <1>1, <1>4, RestTrades
<1>7. /\ ReconOK(s) /\ Kept(b, s) /\ s.cancelled = 0
      /\ s.added + Lack(T, AfterTrades(s.units, {})) = 0 + Lack(T, w)
      /\ Excess(T, AfterTrades(s.units, {})) = Excess(T, w)
      /\ \A L \in Levels : TradesAt({}, L) = TradesAt(X, L) => s.units[L] = r.units[L]
      /\ InTime(s.events, from, LastTime(X, n, from))
  BY <1>2, <1>5, <1>6 DEF Trading
<1>8. s.units \in [Levels -> Nat] /\ AfterTrades(s.units, {}) = s.units
  BY <1>7, ReconFacts, NoTradesToCome
<1>9. Walked(s, e, DOMAIN T, T, ts)
  BY <1>3, <1>7, ApplyEndpointFacts
<1> HIDE DEF e
<1>10. /\ ReconOK(e) /\ Kept(s, e) /\ EventsGrow(s.events, e.events, ts)
       /\ e.units = [L \in Levels |-> IF L \in DOMAIN T THEN T[L] ELSE s.units[L]]
       /\ e.added + Lack(T, e.units) = s.added + Lack(T, s.units)
       /\ e.cancelled + Excess(T, e.units) = s.cancelled + Excess(T, s.units)
  BY <1>9 DEF Walked
<1>11. e.units = Observed(r.units, obs)
  <2>1. ASSUME NEW L \in Levels
        PROVE  (IF L \in DOMAIN T THEN T[L] ELSE s.units[L])
                  = IF L \in DOMAIN obs THEN obs[L] ELSE r.units[L]
    <3>1. CASE L \in DOMAIN T
      BY <1>3, <3>1
    <3>2. CASE L \notin DOMAIN T
      <4>1. TradesAt({}, L) = TradesAt(X, L) /\ L \notin DOMAIN obs
        BY <1>3, <3>2 DEF TradesAt
      <4> QED BY <1>7, <3>2, <4>1
    <3> QED BY <3>1, <3>2
  <2> QED BY <1>10, <2>1 DEF Observed
<1>12. InTime(e.events, from, ts)
  <2> DEFINE hi == LastTime(X, n, from)
  <2>1. hi \in Nat /\ from <= hi /\ hi <= ts
    BY <1>1, <1>4, <1>6, LastTimeFacts
  <2> HIDE DEF hi
  <2>2. InTime(s.events, from, hi)
    BY <1>7 DEF hi
  <2> QED BY <1>1, <1>10, <2>1, <2>2 DEF EventsGrow
<1>13. /\ e.units \in [Levels -> Int] /\ s.units \in [Levels -> Int] /\ w \in [Levels -> Int]
       /\ e.added \in Nat /\ e.cancelled \in Nat /\ s.added \in Nat
  <2>1. e.units \in [Levels -> Nat] /\ e.added \in Nat /\ e.cancelled \in Nat /\ s.added \in Nat
    BY <1>7, <1>10, ReconFacts
  <2>2. \A L \in Levels : UnitsAt(X, L) \in Int
    <3>1. IsFiniteSet(X) /\ \A t \in X : t.size \in Nat
      BY <1>1, <1>4, TradeFields
    <3> QED BY <3>1, UnitsAtFacts
  <2>3. w \in [Levels -> Int]
    BY <1>1, <2>2 DEF AfterTrades
  <2> HIDE DEF w
  <2> QED BY <1>8, <2>1, <2>3
<1> HIDE DEF w
<1>14. /\ Lack(T, e.units) \in Nat /\ Excess(T, e.units) \in Nat
       /\ Lack(T, s.units) \in Nat /\ Excess(T, s.units) \in Nat
       /\ Lack(T, w) \in Nat /\ Excess(T, w) \in Nat
  BY <1>3, <1>13, GapTypes
<1>15. e.added + Lack(T, e.units) = Lack(T, w) /\ e.cancelled + Excess(T, e.units) = Excess(T, w)
  <2>1. /\ s.added + Lack(T, s.units) = 0 + Lack(T, w) /\ Excess(T, s.units) = Excess(T, w)
        /\ s.cancelled = 0
    BY <1>7, <1>8
  <2> QED BY ONLY <1>10, <1>13, <1>14, <2>1
<1>16. /\ ReconOK(q) /\ q.time = ts /\ q.emits = e.emits /\ q.newestFirst = e.newestFirst
       /\ q.symbol = e.symbol /\ q.events = e.events /\ q.added = e.added
       /\ q.cancelled = e.cancelled /\ q.units = e.units
       /\ q.queues = e.queues /\ q.nextId = e.nextId
  BY <1>10, EndedFacts
<1>17. q.emits = r.emits /\ q.newestFirst = r.newestFirst /\ q.symbol = r.symbol
  <2> HIDE DEF q
  <2> QED BY <1>2, <1>7, <1>10, <1>16 DEF Kept, SameKind
<1>18. q = Updated(r, obs, X, ts)
  BY DEF Updated, e, s, b, T
<1> HIDE DEF q
<1>19. Begins(r, q)
  <2>1. Begins(r, b) /\ b.emits = r.emits
    BY <1>2, BeginsHere DEF SameKind
  <2>2. Kept(b, e)
    BY <1>7, <1>10, KeptOn
  <2> QED BY <1>16, <2>1, <2>2, BeginsOn
<1>20. UpdateDone(r, q, obs, X, ts)
  BY <1>11, <1>12, <1>15, <1>16, <1>17, <1>19 DEF UpdateDone, T, w, from
<1> QED BY <1>18, <1>20

(* The turns of the loop over the levels of the snapshot.                  *)
LEMMA LoadTurns ==
  ASSUME NEW r, NEW levels, Len(levels) \in Nat, NEW snapshot, NEW ts
  PROVE  \E turn : /\ turn[0] = [Begun(r) EXCEPT !.symbol = TRUE]
                   /\ \A k \in 1..Len(levels) : turn[k] = AppendIfAny(turn[k - 1], levels[k], snapshot[levels[k]], ts)
                   /\ LoadSnapshot(r, levels, snapshot, ts) = turn[Len(levels)]
<1> DEFINE N == Len(levels)
           x == [Begun(r) EXCEPT !.symbol = TRUE]
           Step(t, k) == AppendIfAny(t, levels[k], snapshot[levels[k]], ts)
           S == {M \in Nat : \E h : h = [k \in 0..M |-> IF k = 0 THEN x ELSE Step(h[k - 1], k)]}
           f == CHOOSE h : h = [k \in 0..N |-> IF k = 0 THEN x ELSE Step(h[k - 1], k)]
<1>1. N \in Nat
  OBVIOUS
<1>2. LoadSnapshot(r, levels, snapshot, ts) = f[N]
  BY DEF LoadSnapshot
<1> HIDE DEF N, x, Step
<1>3. 0 \in S
  <2> DEFINE h == [k \in 0..0 |-> x]
  <2>1. h = [k \in 0..0 |-> IF k = 0 THEN x ELSE Step(h[k - 1], k)]
    <3>1. \A k \in 0..0 : k = 0
      OBVIOUS
    <3> QED BY <3>1
  <2> HIDE DEF h
  <2> QED BY <2>1
<1>4. ASSUME NEW M \in S PROVE M + 1 \in S
  <2>1. PICK h : h = [k \in 0..M |-> IF k = 0 THEN x ELSE Step(h[k - 1], k)]
    BY <1>4
  <2> DEFINE g == [k \in 0..(M + 1) |-> IF k \in 0..M THEN h[k] ELSE Step(h[M], k)]
  <2>2. M \in Nat /\ M + 1 \in Nat
    BY <1>4
  <2>3. \A k \in 0..M : g[k] = h[k] /\ h[k] = IF k = 0 THEN x ELSE Step(h[k - 1], k)
    BY <2>1, <2>2
  <2>4. ASSUME NEW k \in 0..(M + 1)
        PROVE  g[k] = IF k = 0 THEN x ELSE Step(g[k - 1], k)
    <3>1. CASE k \in 0..M
      <4>1. k # 0 => k - 1 \in 0..M
        BY <2>2, <3>1
      <4> HIDE DEF g
      <4> QED BY <2>3, <3>1, <4>1
    <3>2. CASE k \notin 0..M
      <4>1. k - 1 = M /\ k # 0 /\ M \in 0..M
        BY <2>2, <3>2
      <4>2. g[k] = Step(h[M], k)
        BY <3>2
      <4> HIDE DEF g
      <4> QED BY <2>3, <4>1, <4>2
    <3> QED BY <3>1, <3>2
  <2>5. g = [k \in 0..(M + 1) |-> g[k]]
    OBVIOUS
  <2> HIDE DEF g
  <2>6. g = [k \in 0..(M + 1) |-> IF k = 0 THEN x ELSE Step(g[k - 1], k)]
    BY <2>4, <2>5
  <2> QED BY <2>2, <2>6
<1>5. S = Nat
  <2>1. S \in SUBSET Nat
    OBVIOUS
  <2> HIDE DEF S
  <2> QED BY <1>3, <1>4, <2>1, SetInduction
<1>6. f = [k \in 0..N |-> IF k = 0 THEN x ELSE Step(f[k - 1], k)]
  <2>1. \E h : h = [k \in 0..N |-> IF k = 0 THEN x ELSE Step(h[k - 1], k)]
    BY <1>1, <1>5
  <2> QED BY <2>1
<1> HIDE DEF f
<1>7. f[0] = x /\ \A k \in 1..N : f[k] = Step(f[k - 1], k)
  <2>1. 0 \in 0..N /\ \A k \in 1..N : k \in 0..N /\ k # 0
    BY <1>1
  <2> QED BY <1>6, <2>1
<1> QED BY <1>2, <1>7 DEF N, x, Step

(* What loading the levels in S of a snapshot makes of r.                  *)
LoadDone(r, q, S, snapshot, ts) ==
  /\ ReconOK(q) /\ q.time = r.time /\ q.symbol = TRUE /\ Begins(r, q)
  /\ q.emits = r.emits /\ q.newestFirst = r.newestFirst
  /\ q.units = [L \in Levels |-> IF L \in S THEN snapshot[L] ELSE r.units[L]]
  /\ q.added + Lack(snapshot, q.units) = Lack(snapshot, r.units)
  /\ q.cancelled + Excess(snapshot, q.units) = Excess(snapshot, r.units)
  /\ InTime(q.events, 0, ts)

LEMMA LoadFacts ==
  ASSUME NEW r, ReconOK(r), \A L \in Levels : r.units[L] = 0,
         NEW snapshot, TargetsOK(snapshot), NEW ts \in Nat, NEW levels \in Seq(DOMAIN snapshot),
         \A k, l \in 1..Len(levels) : levels[k] = levels[l] => k = l
  PROVE  LoadDone(r, LoadSnapshot(r, levels, snapshot, ts),
                  {levels[k] : k \in 1..Len(levels)}, snapshot, ts)
<1> DEFINE b == Begun(r)
           x == [b EXCEPT !.symbol = TRUE]
           q == LoadSnapshot(r, levels, snapshot, ts)
           N == Len(levels)
           S == {levels[k] : k \in 1..N}
<1>1. /\ ReconOK(b) /\ SameKind(r, b) /\ b.events = <<>> /\ b.added = 0 /\ b.cancelled = 0
      /\ b.units = r.units /\ b.queues = r.queues /\ b.nextId = r.nextId
  BY BegunFacts
<1>2. PICK turn : /\ turn[0] = x
                  /\ \A k \in 1..N : turn[k] = AppendIfAny(turn[k - 1], levels[k], snapshot[levels[k]], ts)
                  /\ q = turn[N]
  <2>1. Len(levels) \in Nat
    OBVIOUS
  <2> QED BY ONLY <2>1, LoadTurns
<1> HIDE DEF b, q
<1>3. /\ ReconOK(x) /\ x.emits = r.emits /\ x.newestFirst = r.newestFirst /\ x.symbol = TRUE
      /\ x.time = r.time /\ x.units = r.units /\ x.events = <<>> /\ x.added = 0 /\ x.cancelled = 0
      /\ x.queues = r.queues /\ x.nextId = r.nextId
  <2>1. b \in Recons
    BY <1>1 DEF ReconOK
  <2>2. /\ x \in Recons /\ x.queues = b.queues /\ x.units = b.units /\ x.best = b.best
        /\ x.nextId = b.nextId /\ x.emits = b.emits /\ x.raised = b.raised
        /\ x.newestFirst = b.newestFirst /\ x.symbol = TRUE /\ x.time = b.time
        /\ x.events = b.events /\ x.added = b.added /\ x.cancelled = b.cancelled
    BY <2>1 DEF Recons
  <2> HIDE DEF x
  <2>3. ReconOK(x)
    BY <1>1, <2>2, ReconAgrees
  <2> QED BY <1>1, <2>2, <2>3 DEF SameKind
<1> HIDE DEF x
<1>4. Walks(x, turn, levels, snapshot, ts)
  <2>1. ASSUME NEW k \in 1..N, turn[k - 1].units[levels[k]] = x.units[levels[k]]
        PROVE  turn[k] = ReachTarget(turn[k - 1], levels[k], snapshot[levels[k]], ts)
    <3> DEFINE L == levels[k]
               goal == snapshot[L]
               s == turn[k - 1]
    <3>1. L \in Levels /\ goal \in Nat
      BY DEF TargetsOK
    <3>2. s.units[L] = 0
      BY <1>3, <2>1, <3>1
    <3>3. turn[k] = AppendIfAny(s, L, goal, ts)
      BY <1>2
    <3> HIDE DEF s, goal, L
    <3>4. CASE goal = 0
      <4>1. AppendIfAny(s, L, goal, ts) = s
        BY <3>4 DEF AppendIfAny
      <4>2. ReachTarget(s, L, goal, ts) = s
        BY <3>2, <3>4 DEF ReachTarget
      <4> QED BY <3>3, <4>1, <4>2 DEF s, goal, L
    <3>5. CASE goal # 0
      <4>1. AppendIfAny(s, L, goal, ts) = AppendPublic(s, L, goal, ts)
        BY <3>5 DEF AppendIfAny
      <4>2. s.units[L] < goal /\ goal - s.units[L] = goal /\ ~(s.units[L] > goal)
        BY <3>1, <3>2, <3>5
      <4>3. ReachTarget(s, L, goal, ts) = AppendPublic(s, L, goal, ts)
        BY <4>2 DEF ReachTarget
      <4> QED BY <3>3, <4>1, <4>3 DEF s, goal, L
    <3> QED BY <3>4, <3>5
  <2> HIDE DEF N
  <2> QED BY <1>2, <2>1 DEF Walks, N
<1>5. Walked(x, turn[N], S, snapshot, ts)
  BY <1>3, <1>4, WalkFacts
<1>6. Walked(x, q, S, snapshot, ts)
  BY <1>2, <1>5
<1> HIDE DEF S
<1>7. /\ ReconOK(q) /\ Kept(x, q) /\ EventsGrow(x.events, q.events, ts)
      /\ q.units = [L \in Levels |-> IF L \in S THEN snapshot[L] ELSE x.units[L]]
      /\ q.added + Lack(snapshot, q.units) = x.added + Lack(snapshot, x.units)
      /\ q.cancelled + Excess(snapshot, q.units) = x.cancelled + Excess(snapshot, x.units)
  BY <1>6 DEF Walked
<1>8. Lack(snapshot, r.units) \in Nat /\ Excess(snapshot, r.units) \in Nat
  <2>1. r.units \in [Levels -> Nat]
    BY ReconFacts
  <2>2. r.units \in [Levels -> Int]
    BY <2>1
  <2> QED BY <2>2, GapTypes
<1>9. /\ q.added + Lack(snapshot, q.units) = Lack(snapshot, r.units)
      /\ q.cancelled + Excess(snapshot, q.units) = Excess(snapshot, r.units)
  <2>1. /\ q.added + Lack(snapshot, q.units) = 0 + Lack(snapshot, r.units)
        /\ q.cancelled + Excess(snapshot, q.units) = 0 + Excess(snapshot, r.units)
    BY <1>3, <1>7
  <2> QED BY ONLY <1>8, <2>1
<1>10. InTime(q.events, 0, ts)
  <2>1. InTime(x.events, 0, 0)
    BY <1>3, InTimeEmpty
  <2>2. 0 \in Nat /\ 0 <= ts
    OBVIOUS
  <2> QED BY <1>7, <2>1, <2>2 DEF EventsGrow
<1>11. q.units = [L \in Levels |-> IF L \in S THEN snapshot[L] ELSE r.units[L]]
  BY <1>3, <1>7
<1>12. Begins(r, q)
  <2>1. Begins(r, x)
    BY <1>3, BeginsHere
  <2> QED BY <1>3, <1>7, <2>1, BeginsOn
<1> QED BY <1>3, <1>7, <1>9, <1>10, <1>11, <1>12 DEF LoadDone, Kept, SameKind, q, S

(* What bootstrap makes of r.                                              *)
BootstrapDone(r, q, snapshot, bridge, ts) ==
  LET z == r.units
      l == Observed(z, snapshot)
  IN  /\ ReconOK(q) /\ q.time = ts /\ q.symbol = TRUE /\ Begins(r, q)
      /\ q.emits = r.emits /\ q.newestFirst = r.newestFirst
      /\ q.units = Observed(l, bridge) /\ InTime(q.events, 0, ts)
      /\ q.added + Lack(bridge, q.units)
           = (Lack(snapshot, z) - Lack(snapshot, l)) + Lack(bridge, l)
      /\ q.cancelled + Excess(bridge, q.units)
           = (Excess(snapshot, z) - Excess(snapshot, l)) + Excess(bridge, l)

LEMMA BootstrappedFacts ==
  ASSUME NEW r, ReconOK(r), \A L \in Levels : r.units[L] = 0,
         NEW snapshot, TargetsOK(snapshot), NEW bridge, TargetsOK(bridge), NEW ts \in Nat
  PROVE  BootstrapDone(r, Bootstrapped(r, snapshot, bridge, ts), snapshot, bridge, ts)
<1> DEFINE levels == SortedLevels(DOMAIN snapshot)
           N == Len(levels)
           s == LoadSnapshot(r, levels, snapshot, ts)
           e == ApplyEndpoint(s, bridge, ts)
           q == Ended(e, ts)
           z == r.units
           l == Observed(z, snapshot)
<1>1. /\ Enumerates(levels, DOMAIN snapshot) /\ levels \in Seq(DOMAIN snapshot)
      /\ N = Cardinality(DOMAIN snapshot)
  BY SortedLevelsFacts DEF TargetsOK
<1> HIDE DEF levels, N
<1>2. /\ \A j, k \in 1..N : levels[j] = levels[k] => j = k
      /\ {levels[k] : k \in 1..N} = DOMAIN snapshot
  <2>1. /\ N \in Nat /\ \A j, k \in 1..N : levels[j] = levels[k] => j = k
        /\ \A k \in 1..N : levels[k] \in DOMAIN snapshot
        /\ \A y \in DOMAIN snapshot : \E k \in 1..N : levels[k] = y
    BY <1>1 DEF Enumerates
  <2> QED BY <2>1
<1>3. LoadDone(r, s, {levels[k] : k \in 1..N}, snapshot, ts)
  BY <1>1, <1>2, LoadFacts DEF N
<1>4. LoadDone(r, s, DOMAIN snapshot, snapshot, ts)
  BY <1>2, <1>3
<1> HIDE DEF s
<1>5. /\ ReconOK(s) /\ s.symbol = TRUE /\ Begins(r, s)
      /\ s.emits = r.emits /\ s.newestFirst = r.newestFirst
      /\ s.units = l
      /\ s.added + Lack(snapshot, s.units) = Lack(snapshot, r.units)
      /\ s.cancelled + Excess(snapshot, s.units) = Excess(snapshot, r.units)
      /\ InTime(s.events, 0, ts)
  BY <1>4 DEF LoadDone, Observed
<1> HIDE DEF l
<1>6. Walked(s, e, DOMAIN bridge, bridge, ts)
  BY <1>5, ApplyEndpointFacts
<1> HIDE DEF e
<1>7. /\ ReconOK(e) /\ Kept(s, e) /\ EventsGrow(s.events, e.events, ts)
      /\ e.units = [L \in Levels |-> IF L \in DOMAIN bridge THEN bridge[L] ELSE s.units[L]]
      /\ e.added + Lack(bridge, e.units) = s.added + Lack(bridge, s.units)
      /\ e.cancelled + Excess(bridge, e.units) = s.cancelled + Excess(bridge, s.units)
  BY <1>6 DEF Walked
<1>8. e.units = Observed(l, bridge)
  BY <1>5, <1>7 DEF Observed
<1>9. InTime(e.events, 0, ts)
  <2>1. 0 \in Nat /\ 0 <= ts /\ ts <= ts
    OBVIOUS
  <2> QED BY <1>5, <1>7, <2>1 DEF EventsGrow
<1>10. /\ z \in [Levels -> Int] /\ l \in [Levels -> Int] /\ e.units \in [Levels -> Int]
       /\ s.added \in Nat /\ s.cancelled \in Nat /\ e.added \in Nat /\ e.cancelled \in Nat
  <2>1. /\ z \in [Levels -> Nat] /\ s.units \in [Levels -> Nat] /\ e.units \in [Levels -> Nat]
        /\ s.added \in Nat /\ s.cancelled \in Nat /\ e.added \in Nat /\ e.cancelled \in Nat
    BY <1>5, <1>7, ReconFacts
  <2> QED BY <1>5, <2>1
<1>11. /\ Lack(snapshot, z) \in Nat /\ Excess(snapshot, z) \in Nat
       /\ Lack(snapshot, l) \in Nat /\ Excess(snapshot, l) \in Nat
       /\ Lack(bridge, l) \in Nat /\ Excess(bridge, l) \in Nat
       /\ Lack(bridge, e.units) \in Nat /\ Excess(bridge, e.units) \in Nat
  <2> HIDE DEF z
  <2> QED BY <1>10, GapTypes
<1>12. /\ e.added + Lack(bridge, e.units) = (Lack(snapshot, z) - Lack(snapshot, l)) + Lack(bridge, l)
       /\ e.cancelled + Excess(bridge, e.units)
            = (Excess(snapshot, z) - Excess(snapshot, l)) + Excess(bridge, l)
  <2>1. /\ s.added + Lack(snapshot, l) = Lack(snapshot, z)
        /\ s.cancelled + Excess(snapshot, l) = Excess(snapshot, z)
        /\ e.added + Lack(bridge, e.units) = s.added + Lack(bridge, l)
        /\ e.cancelled + Excess(bridge, e.units) = s.cancelled + Excess(bridge, l)
    BY <1>5, <1>7
  <2> QED BY ONLY <1>10, <1>11, <2>1
<1>13. /\ ReconOK(q) /\ q.time = ts /\ q.emits = e.emits /\ q.newestFirst = e.newestFirst
       /\ q.symbol = e.symbol /\ q.events = e.events /\ q.added = e.added
       /\ q.cancelled = e.cancelled /\ q.units = e.units
       /\ q.queues = e.queues /\ q.nextId = e.nextId
  BY <1>7, EndedFacts
<1>14. q = Bootstrapped(r, snapshot, bridge, ts)
  BY DEF Bootstrapped, e, s, levels
<1> HIDE DEF q, z
<1>15. q.emits = r.emits /\ q.newestFirst = r.newestFirst /\ q.symbol = TRUE
  BY <1>5, <1>7, <1>13 DEF Kept, SameKind
<1>16. Begins(r, q)
  BY <1>5, <1>7, <1>13, BeginsOn
<1>17. BootstrapDone(r, q, snapshot, bridge, ts)
  BY <1>8, <1>9, <1>12, <1>13, <1>15, <1>16 DEF BootstrapDone, l, z
<1> QED BY <1>14, <1>17

(***************************************************************************)
(* The inductive invariant.                                                *)
(***************************************************************************)

(* What the models must agree on.                                          *)
SameFlow(r, s) ==
  /\ r.units = s.units /\ r.added = s.added /\ r.cancelled = s.cancelled
  /\ r.symbol = s.symbol /\ r.time = s.time

(* A reconstructor that was never called is empty; one that works is at    *)
(* the depth last observed.                                                *)
StateOK(r) ==
  /\ ReconOK(r) /\ r.time \in 1..MaxTime \cup {Unset}
  /\ r.time # Unset => r.units = depth
  /\ ~r.symbol => /\ r.time = Unset
                  /\ \A L \in Levels : r.units[L] = 0 /\ depth[L] = 0

(* The events not yet replayed are in time order and not of the future.    *)
FeedOK(p) ==
  /\ feed[p] \in Seq(MBOEvents)
  /\ IF recon[p].time = Unset THEN feed[p] = <<>> ELSE InTime(feed[p], 0, recon[p].time)

ModelsInv == /\ \A m \in Models : StateOK(recon[m])
             /\ \A m, n \in Models : SameFlow(recon[m], recon[n])
ReplayInv == /\ \A p \in Policies : FeedOK(p)
             /\ \A p \in Policies : EngineInv(engine[p])
             /\ clock \in 0..MaxTime
ReconInv == ModelsInv /\ ReplayInv /\ depth \in [Levels -> Nat]

LEMMA NewReconOK ==
  ASSUME NEW m \in Models
  PROVE  /\ ReconOK(NewReconstructor(m)) /\ NewReconstructor(m).time = Unset
         /\ NewReconstructor(m).symbol = FALSE
         /\ NewReconstructor(m).units = [L \in Levels |-> 0]
         /\ NewReconstructor(m).added = 0 /\ NewReconstructor(m).cancelled = 0
<1> DEFINE r == NewReconstructor(m)
<1>1. /\ r.emits \in BOOLEAN /\ r.newestFirst \in BOOLEAN /\ r.queues = [L \in Levels |-> <<>>]
      /\ r.units = [L \in Levels |-> 0] /\ r.best = [side \in BookSides |-> None]
      /\ r.nextId = 1 /\ r.symbol = FALSE /\ r.time = Unset /\ r.events = <<>>
      /\ r.added = 0 /\ r.cancelled = 0 /\ r.raised = FALSE
  BY DEF NewReconstructor
<1>2. r \in Recons
  <2>1. Unset \in Int /\ <<>> \in Seq(MBOEvents) /\ <<>> \in Seq(AnyOrder)
    BY DEF Unset
  <2> QED BY <2>1 DEF NewReconstructor, Recons
<1> HIDE DEF r
<1>3. QueuesHold(r)
  <2>1. <<>> \in Seq(VOrders(1)) /\ <<>> \in Seq(AnyOrder)
    OBVIOUS
  <2>2. Held(<<>>) = 0
    BY <2>1, HeldFacts
  <2> QED BY <1>1, <2>1, <2>2 DEF QueuesHold
<1>4. BestNow(r.best, r.units)
  <2>1. ASSUME NEW side \in BookSides PROVE Standing(r.units, side) = {} /\ r.best[side] = None
    <3>1. \A p \in Prices : <<side, p>> \in Levels
      BY DEF Levels
    <3> QED BY <1>1, <3>1 DEF Standing
  <2> QED BY <2>1 DEF BestNow
<1>5. ReconOK(r)
  BY <1>1, <1>2, <1>3, <1>4 DEF ReconOK
<1> QED BY <1>1, <1>5 DEF r

LEMMA ReconInit == Init => ReconInv
<1> SUFFICES ASSUME Init PROVE ReconInv
  OBVIOUS
<1>1. /\ \A m \in Models : recon[m] = NewReconstructor(m)
      /\ \A p \in Policies : feed[p] = <<>> /\ engine[p] = EmptyEngine
      /\ clock = 0 /\ depth = [L \in Levels |-> 0]
  BY DEF Init
<1>2. ModelsInv
  <2>1. ASSUME NEW m \in Models
        PROVE  /\ ReconOK(recon[m]) /\ recon[m].time = Unset /\ recon[m].symbol = FALSE
               /\ recon[m].units = [L \in Levels |-> 0]
               /\ recon[m].added = 0 /\ recon[m].cancelled = 0
    BY <1>1, NewReconOK
  <2>2. \A m \in Models : StateOK(recon[m])
    BY <1>1, <2>1 DEF StateOK
  <2>3. \A m, n \in Models : SameFlow(recon[m], recon[n])
    BY <2>1 DEF SameFlow
  <2> QED BY <2>2, <2>3 DEF ModelsInv
<1>3. ReplayInv
  <2>1. ASSUME NEW p \in Policies PROVE recon[p].time = Unset
    <3>1. p \in Models
      BY DEF Models
    <3>2. recon[p] = NewReconstructor(p) /\ NewReconstructor(p).time = Unset
      BY <1>1, <3>1, NewReconOK
    <3> QED BY ONLY <3>2
  <2>2. ASSUME NEW p \in Policies PROVE FeedOK(p)
    <3>1. recon[p].time = Unset /\ feed[p] = <<>> /\ <<>> \in Seq(MBOEvents)
      BY <1>1, <2>1
    <3> QED BY ONLY <3>1 DEF FeedOK
  <2>3. \A p \in Policies : EngineInv(engine[p])
    BY <1>1, EmptyEngineFacts
  <2>4. clock \in 0..MaxTime
    BY <1>1, ReconstructionBounds
  <2> QED BY <2>2, <2>3, <2>4 DEF ReplayInv
<1> QED BY <1>1, <1>2, <1>3 DEF ReconInv

LEMMA ObservationsOK ==
  ASSUME NEW f \in Snapshots \cup Depths
  PROVE  TargetsOK(f)
BY ObservationsAssumption DEF TargetsOK

LEMMA PoliciesAreModels == \A p \in Policies : p \in Models
BY DEF Models

LEMMA BootstrapKeeps ==
  ASSUME ReconInv, NEW snapshot \in Snapshots, NEW bridge \in Depths, Bootstrap(snapshot, bridge, 1)
  PROVE  ReconInv'
<1> DEFINE z == recon["metrics"].units
           l == Observed(z, snapshot)
           u == Observed(l, bridge)
<1>1. /\ \A m \in Models : ~recon[m].symbol
      /\ \A m \in Models : recon'[m] = Bootstrapped(recon[m], snapshot, bridge, 1)
      /\ \A p \in Policies : feed'[p] = feed[p] \o recon'[p].events
      /\ depth' = Observed(Observed(depth, snapshot), bridge)
      /\ engine' = engine /\ clock' = clock
  BY DEF Bootstrap, Emit
<1>2. TargetsOK(snapshot) /\ TargetsOK(bridge) /\ 1 \in Nat /\ "metrics" \in Models
  BY ObservationsOK DEF Models
<1>3. ASSUME NEW m \in Models
      PROVE  /\ ReconOK(recon[m]) /\ (\A L \in Levels : recon[m].units[L] = 0 /\ depth[L] = 0)
             /\ recon[m].time = Unset /\ recon[m].units = z
  <2>1. StateOK(recon[m]) /\ ~recon[m].symbol /\ SameFlow(recon[m], recon["metrics"])
    BY <1>1, <1>2 DEF ReconInv, ModelsInv
  <2> QED BY <2>1 DEF StateOK, SameFlow
<1>4. /\ z \in [Levels -> Nat] /\ z = depth
  <2>1. z \in [Levels -> Nat] /\ (\A L \in Levels : z[L] = 0 /\ depth[L] = 0)
    <3>1. ReconOK(recon["metrics"]) /\ \A L \in Levels : recon["metrics"].units[L] = 0 /\ depth[L] = 0
      BY <1>2, <1>3
    <3>2. recon["metrics"].units \in [Levels -> Nat]
      BY <3>1, ReconFacts
    <3> QED BY <3>1, <3>2
  <2>2. depth \in [Levels -> Nat]
    BY DEF ReconInv
  <2> HIDE DEF z
  <2> QED BY <2>1, <2>2
<1>5. ASSUME NEW m \in Models
      PROVE  BootstrapDone(recon[m], recon'[m], snapshot, bridge, 1)
  <2> DEFINE r == recon[m]
  <2>1. ReconOK(r) /\ \A L \in Levels : r.units[L] = 0
    BY <1>3
  <2>2. recon'[m] = Bootstrapped(r, snapshot, bridge, 1)
    BY <1>1
  <2> HIDE DEF r
  <2>3. BootstrapDone(r, Bootstrapped(r, snapshot, bridge, 1), snapshot, bridge, 1)
    BY <1>2, <2>1, BootstrappedFacts
  <2> QED BY <2>2, <2>3 DEF r
<1> HIDE DEF z
<1>6. ASSUME NEW m \in Models
      PROVE  /\ ReconOK(recon'[m]) /\ recon'[m].time = 1 /\ recon'[m].symbol = TRUE
             /\ recon'[m].units = u /\ InTime(recon'[m].events, 0, 1)
             /\ recon'[m].added + Lack(bridge, u)
                  = (Lack(snapshot, z) - Lack(snapshot, l)) + Lack(bridge, l)
             /\ recon'[m].cancelled + Excess(bridge, u)
                  = (Excess(snapshot, z) - Excess(snapshot, l)) + Excess(bridge, l)
             /\ recon'[m].added \in Nat /\ recon'[m].cancelled \in Nat
  <2> DEFINE q == recon'[m]
             r == recon[m]
  <2>1. BootstrapDone(r, q, snapshot, bridge, 1) /\ r.units = z
    BY <1>3, <1>5
  <2> HIDE DEF q, r
  <2>2. /\ ReconOK(q) /\ q.time = 1 /\ q.symbol = TRUE /\ q.units = u /\ InTime(q.events, 0, 1)
        /\ q.added + Lack(bridge, q.units)
             = (Lack(snapshot, z) - Lack(snapshot, l)) + Lack(bridge, l)
        /\ q.cancelled + Excess(bridge, q.units)
             = (Excess(snapshot, z) - Excess(snapshot, l)) + Excess(bridge, l)
    BY <2>1 DEF BootstrapDone
  <2>3. q.added \in Nat /\ q.cancelled \in Nat
    BY <2>2, ReconFacts
  <2> HIDE DEF u, l
  <2> QED BY <2>2, <2>3 DEF q
<1>7. Lack(bridge, u) \in Nat /\ Excess(bridge, u) \in Nat /\ u \in [Levels -> Nat]
  <2>1. u \in [Levels -> Nat]
    <3>1. recon'["metrics"].units = u /\ ReconOK(recon'["metrics"])
      BY <1>2, <1>6
    <3> HIDE DEF u
    <3> QED BY <3>1, ReconFacts
  <2> HIDE DEF u
  <2>2. u \in [Levels -> Int]
    BY <2>1
  <2> QED BY <1>2, <2>1, <2>2, GapTypes
<1>8. depth' = u
  BY <1>1, <1>4
<1> DEFINE a == (Lack(snapshot, z) - Lack(snapshot, l)) + Lack(bridge, l)
           c == (Excess(snapshot, z) - Excess(snapshot, l)) + Excess(bridge, l)
           x == Lack(bridge, u)
           y == Excess(bridge, u)
<1>9. \A m \in Models : /\ recon'[m].added + x = a /\ recon'[m].cancelled + y = c
                        /\ recon'[m].added \in Nat /\ recon'[m].cancelled \in Nat
                        /\ x \in Nat /\ y \in Nat
  BY <1>6, <1>7
<1> HIDE DEF a, c, x, y, u, l
<1>10. ASSUME NEW m \in Models, NEW n \in Models PROVE SameFlow(recon'[m], recon'[n])
  <2> DEFINE am == recon'[m].added
             an == recon'[n].added
             cm == recon'[m].cancelled
             cn == recon'[n].cancelled
  <2>3. am + x = a /\ cm + y = c /\ am \in Nat /\ cm \in Nat /\ x \in Nat /\ y \in Nat
    BY ONLY <1>9
  <2>4. an + x = a /\ cn + y = c /\ an \in Nat /\ cn \in Nat
    BY ONLY <1>9
  <2>5. am = an /\ cm = cn
    <3> HIDE DEF am, an, cm, cn
    <3> QED BY ONLY <2>3, <2>4
  <2>1. recon'[m].added = recon'[n].added /\ recon'[m].cancelled = recon'[n].cancelled
    BY ONLY <2>5
  <2>2. /\ recon'[m].units = recon'[n].units /\ recon'[m].time = recon'[n].time
        /\ recon'[m].symbol = recon'[n].symbol
    BY <1>6
  <2> QED BY <2>1, <2>2 DEF SameFlow
<1>11. \A m \in Models : StateOK(recon[m])'
  <2>1. 1 \in 1..MaxTime /\ 1 # Unset
    BY ReconstructionBounds DEF Unset
  <2> QED BY <1>6, <1>8, <2>1 DEF StateOK
<1>12. ASSUME NEW p \in Policies PROVE FeedOK(p)'
  <2>1. p \in Models
    BY DEF Models
  <2>2. feed[p] = <<>>
    <3>1. FeedOK(p)
      BY DEF ReconInv, ReplayInv
    <3> QED BY <1>3, <2>1, <3>1 DEF FeedOK
  <2>3. recon'[p].events \in Seq(MBOEvents)
    BY <1>6, <2>1, ReconFacts
  <2> DEFINE ev == recon'[p].events
  <2>4. feed'[p] = ev
    <3>1. feed'[p] = <<>> \o ev
      BY <1>1, <2>2
    <3> HIDE DEF ev
    <3> QED BY <2>3, <3>1 DEF ev
  <2>5. InTime(ev, 0, 1) /\ recon'[p].time = 1
    BY <1>6, <2>1
  <2> QED BY <2>3, <2>4, <2>5 DEF FeedOK, Unset
<1>13. ModelsInv'
  BY <1>10, <1>11 DEF ModelsInv
<1>14. ReplayInv'
  <2>1. (\A p \in Policies : EngineInv(engine[p])) /\ clock \in 0..MaxTime
    BY DEF ReconInv, ReplayInv
  <2> QED BY <1>1, <1>12, <2>1 DEF ReplayInv
<1> QED BY <1>7, <1>8, <1>13, <1>14 DEF ReconInv

(* Equal gaps close equally.                                               *)
LEMMA SameBalance ==
  ASSUME NEW a \in Nat, NEW b \in Nat, NEW x \in Nat, NEW c, a + x = c, b + x = c
  PROVE  a = b
OBVIOUS

LEMMA BootstrapFailsKeeps ==
  ASSUME ReconInv, NEW snapshot \in Snapshots, NEW k \in 0..Cardinality(DOMAIN snapshot),
         BootstrapFails(snapshot, k, 1)
  PROVE  ReconInv'
<1> DEFINE D == DOMAIN snapshot
           sorted == SortedLevels(D)
           levels == SubSeq(sorted, 1, k)
           S == {levels[j] : j \in 1..Len(levels)}
           z == recon["metrics"].units
           v == [L \in Levels |-> IF L \in S THEN snapshot[L] ELSE z[L]]
<1>1. /\ \A m \in Models : ~recon[m].symbol
      /\ \A m \in Models : recon'[m] = LoadSnapshot(recon[m], levels, snapshot, 1)
      /\ feed' = feed /\ depth' = depth /\ engine' = engine /\ clock' = clock
  BY DEF BootstrapFails
<1>2. TargetsOK(snapshot) /\ 1 \in Nat /\ "metrics" \in Models
  BY ObservationsOK DEF Models
<1>3. ASSUME NEW m \in Models
      PROVE  /\ ReconOK(recon[m]) /\ (\A L \in Levels : recon[m].units[L] = 0)
             /\ recon[m].time = Unset /\ recon[m].units = z
  <2>1. StateOK(recon[m]) /\ ~recon[m].symbol /\ SameFlow(recon[m], recon["metrics"])
    BY <1>1, <1>2 DEF ReconInv, ModelsInv
  <2> QED BY <2>1 DEF StateOK, SameFlow
<1>4. levels \in Seq(D) /\ \A i, j \in 1..Len(levels) : levels[i] = levels[j] => i = j
  <2>1. Enumerates(sorted, D) /\ sorted \in Seq(D) /\ Len(sorted) = Cardinality(D)
    BY <1>2, SortedLevelsFacts DEF TargetsOK
  <2> HIDE DEF sorted, D
  <2>2. k \in 0..Len(sorted) /\ Len(sorted) \in Nat
    BY <2>1 DEF D
  <2>3. /\ levels \in Seq(D) /\ Len(levels) = k
        /\ \A i \in 1..k : levels[i] = sorted[i] /\ i \in 1..Len(sorted)
    BY <2>1, <2>2
  <2>4. \A i, j \in 1..Len(sorted) : sorted[i] = sorted[j] => i = j
    BY <2>1 DEF Enumerates
  <2> HIDE DEF levels
  <2> QED BY <2>3, <2>4
<1>5. ASSUME NEW m \in Models
      PROVE  LoadDone(recon[m], recon'[m], S, snapshot, 1)
  <2> DEFINE r == recon[m]
  <2>1. ReconOK(r) /\ \A L \in Levels : r.units[L] = 0
    BY <1>3
  <2>2. recon'[m] = LoadSnapshot(r, levels, snapshot, 1)
    BY <1>1
  <2> HIDE DEF r, levels
  <2>3. LoadDone(r, LoadSnapshot(r, levels, snapshot, 1), {levels[j] : j \in 1..Len(levels)}, snapshot, 1)
    BY <1>2, <1>4, <2>1, LoadFacts
  <2> QED BY <2>2, <2>3 DEF r
<1> HIDE DEF z, S
<1>6. ASSUME NEW m \in Models
      PROVE  /\ ReconOK(recon'[m]) /\ recon'[m].time = Unset /\ recon'[m].symbol = TRUE
             /\ recon'[m].units = v
             /\ recon'[m].added + Lack(snapshot, v) = Lack(snapshot, z)
             /\ recon'[m].cancelled + Excess(snapshot, v) = Excess(snapshot, z)
             /\ recon'[m].added \in Nat /\ recon'[m].cancelled \in Nat
             /\ v \in [Levels -> Nat]
  <2> DEFINE q == recon'[m]
             r == recon[m]
  <2>1. LoadDone(r, q, S, snapshot, 1) /\ r.units = z /\ r.time = Unset
    BY <1>3, <1>5
  <2> HIDE DEF q, r
  <2>2. /\ ReconOK(q) /\ q.time = Unset /\ q.symbol = TRUE /\ q.units = v
        /\ q.added + Lack(snapshot, q.units) = Lack(snapshot, z)
        /\ q.cancelled + Excess(snapshot, q.units) = Excess(snapshot, z)
    BY <2>1 DEF LoadDone
  <2> HIDE DEF v
  <2>3. q.added \in Nat /\ q.cancelled \in Nat /\ q.units \in [Levels -> Nat]
    BY <2>2, ReconFacts
  <2> QED BY <2>2, <2>3 DEF q
<1> HIDE DEF v
<1>7. Lack(snapshot, v) \in Nat /\ Excess(snapshot, v) \in Nat
  <2>2. v \in [Levels -> Nat]
    BY ONLY <1>2, <1>6
  <2>1. v \in [Levels -> Int]
    BY ONLY <2>2
  <2> QED BY <1>2, <2>1, GapTypes
<1>8. ASSUME NEW m \in Models, NEW n \in Models PROVE SameFlow(recon'[m], recon'[n])
  <2> DEFINE am == recon'[m].added
             an == recon'[n].added
             cm == recon'[m].cancelled
             cn == recon'[n].cancelled
             x == Lack(snapshot, v)
             y == Excess(snapshot, v)
             a == Lack(snapshot, z)
             c == Excess(snapshot, z)
  <2>3. am + x = a /\ cm + y = c /\ am \in Nat /\ cm \in Nat /\ x \in Nat /\ y \in Nat
    BY ONLY <1>6, <1>7
  <2>4. an + x = a /\ cn + y = c /\ an \in Nat /\ cn \in Nat
    BY ONLY <1>6
  <2>5. am = an /\ cm = cn
    <3> HIDE DEF am, an, cm, cn, x, y, a, c
    <3> QED BY ONLY <2>3, <2>4
  <2>1. recon'[m].added = recon'[n].added /\ recon'[m].cancelled = recon'[n].cancelled
    BY ONLY <2>5
  <2>2. /\ recon'[m].units = recon'[n].units /\ recon'[m].time = recon'[n].time
        /\ recon'[m].symbol = recon'[n].symbol
    BY <1>6
  <2> QED BY <2>1, <2>2 DEF SameFlow
<1>9. \A m \in Models : StateOK(recon[m])'
  BY <1>6 DEF StateOK
<1>10. ASSUME NEW p \in Policies PROVE FeedOK(p)'
  <2>1. p \in Models
    BY DEF Models
  <2>2. feed[p] = <<>> /\ <<>> \in Seq(MBOEvents)
    <3>1. FeedOK(p)
      BY DEF ReconInv, ReplayInv
    <3> QED BY <1>3, <2>1, <3>1 DEF FeedOK
  <2>3. feed'[p] = <<>> /\ recon'[p].time = Unset
    BY <1>1, <1>6, <2>1, <2>2
  <2> QED BY ONLY <2>2, <2>3 DEF FeedOK
<1>11. ModelsInv'
  BY <1>8, <1>9 DEF ModelsInv
<1>12. ReplayInv'
  <2>1. (\A p \in Policies : EngineInv(engine[p])) /\ clock \in 0..MaxTime
    BY DEF ReconInv, ReplayInv
  <2> QED BY <1>1, <1>10, <2>1 DEF ReplayInv
<1>13. (depth \in [Levels -> Nat])'
  BY <1>1 DEF ReconInv
<1> QED BY <1>11, <1>12, <1>13 DEF ReconInv

(* The trades of an update are well-formed and have an id each.            *)
LEMMA TradesAreOK ==
  ASSUME NEW from \in Nat, NEW to \in Nat, NEW X \in Trades(from, to)
  PROVE  TradesOK(X, from, to)
<1> DEFINE Slots == [ts : (from + 1)..to, level : TradeLevels, size : 1..MaxTrade]
           trade(s, i) == [id |-> i, ts |-> s[i].ts, level |-> s[i].level, size |-> s[i].size]
<1>0. PICK k \in 0..MaxTrades : \E s \in [1..k -> Slots] : X = {trade(s, i) : i \in DOMAIN s}
  BY DEF Trades
<1>1. PICK s \in [1..k -> Slots] : X = {trade(s, i) : i \in DOMAIN s}
  BY <1>0
<1>2. k \in Nat /\ DOMAIN s = 1..k /\ X = {trade(s, i) : i \in 1..k}
  BY <1>1, ReconstructionBounds
<1>3. IsFiniteSet(X)
  <2>1. IsFiniteSet(1..k)
    BY <1>2, FS_Interval
  <2> DEFINE f == [i \in 1..k |-> trade(s, i)]
  <2>2. f \in Surjection(1..k, X)
    <3> HIDE DEF trade
    <3>1. f \in [1..k -> X]
      BY <1>2
    <3>2. \A x \in X : \E i \in 1..k : f[i] = x
      BY <1>2
    <3> QED BY <3>1, <3>2 DEF Surjection
  <2> HIDE DEF f
  <2> QED BY <2>1, <2>2, FS_Surjection
<1>4. \A i \in 1..k : trade(s, i) \in TradeRecords(from, to)
  <2> SUFFICES ASSUME NEW i \in 1..k PROVE trade(s, i) \in TradeRecords(from, to)
    OBVIOUS
  <2>1. s[i] \in Slots
    BY <1>2
  <2>2. /\ s[i].ts \in (from + 1)..to /\ s[i].level \in TradeLevels /\ s[i].size \in 1..MaxTrade
    BY <2>1
  <2>3. i \in Nat /\ s[i].level \in Levels /\ s[i].size \in Nat \ {0}
    BY <1>2, <2>2, TradesAssumption
  <2> QED BY <2>2, <2>3 DEF TradeRecords
<1>5. \A t, u \in X : t.id = u.id => t = u
  BY <1>2
<1> QED BY <1>2, <1>3, <1>4, <1>5 DEF TradesOK

LEMMA ApplyUpdateKeeps ==
  ASSUME ReconInv, NEW ts \in 1..MaxTime, NEW observed \in Depths,
         NEW trades \in Trades(recon["metrics"].time, ts), ApplyUpdate(observed, trades, ts)
  PROVE  ReconInv'
<1> DEFINE from == recon["metrics"].time
           z == recon["metrics"].units
           T == Targets(recon["metrics"], observed, trades)
           w == AfterTrades(z, trades)
           u == Observed(z, observed)
<1>1. /\ \A m \in Models : recon[m].time # Unset /\ ts >= recon[m].time
      /\ \A m \in Models : recon'[m] = Updated(recon[m], observed, trades, ts)
      /\ \A p \in Policies : feed'[p] = feed[p] \o recon'[p].events
      /\ depth' = Observed(depth, observed) /\ engine' = engine /\ clock' = clock
  BY DEF ApplyUpdate, Emit
<1>2. TargetsOK(observed) /\ "metrics" \in Models /\ ts \in Nat
  BY ObservationsOK, ReconstructionBounds DEF Models
<1>3. ASSUME NEW m \in Models
      PROVE  /\ ReconOK(recon[m]) /\ recon[m].time = from /\ recon[m].units = z
             /\ recon[m].units = depth /\ recon[m].time \in 1..MaxTime
             /\ recon[m].symbol = recon["metrics"].symbol
  <2>1. StateOK(recon[m]) /\ SameFlow(recon[m], recon["metrics"]) /\ recon[m].time # Unset
    BY <1>1, <1>2 DEF ReconInv, ModelsInv
  <2> QED BY <2>1 DEF StateOK, SameFlow
<1>4. /\ from \in Nat /\ from <= ts /\ z = depth /\ z \in [Levels -> Nat]
  <2>1. from \in 1..MaxTime /\ z = depth /\ ReconOK(recon["metrics"]) /\ ts >= from
    BY <1>1, <1>2, <1>3
  <2>2. z \in [Levels -> Nat]
    <3> DEFINE r == recon["metrics"]
    <3>1. ReconOK(r)
      BY <2>1
    <3> HIDE DEF r
    <3>2. r.units \in [Levels -> Nat]
      BY <3>1, ReconFacts
    <3> QED BY <3>2 DEF r
  <2> HIDE DEF from, z
  <2> QED BY <1>2, <2>1, <2>2, ReconstructionBounds
<1>5. TradesOK(trades, from, ts)
  <2> HIDE DEF from
  <2>1. trades \in Trades(from, ts)
    BY DEF from
  <2> QED BY <1>2, <1>4, <2>1, TradesAreOK
<1>6. ASSUME NEW m \in Models
      PROVE  UpdateDone(recon[m], recon'[m], observed, trades, ts) /\ recon[m].units = z
             /\ recon[m].time = from /\ Targets(recon[m], observed, trades) = T
             /\ recon[m].symbol = recon["metrics"].symbol
  <2> DEFINE r == recon[m]
  <2>1. ReconOK(r) /\ r.time = from /\ r.units = z /\ r.symbol = recon["metrics"].symbol
    BY <1>3
  <2>2. recon'[m] = Updated(r, observed, trades, ts)
    BY <1>1
  <2>3. Targets(r, observed, trades) = T
    BY <2>1 DEF Targets
  <2> HIDE DEF r, from, z, T
  <2>4. r.time \in Nat /\ r.time <= ts /\ TradesOK(trades, r.time, ts)
    BY <1>4, <1>5, <2>1
  <2>5. UpdateDone(r, Updated(r, observed, trades, ts), observed, trades, ts)
    BY <1>2, <2>1, <2>4, UpdatedFacts
  <2> QED BY <2>1, <2>2, <2>3, <2>5 DEF r
<1> DEFINE sym == recon["metrics"].symbol
<1> HIDE DEF z, from, T, sym
<1>7. ASSUME NEW m \in Models
      PROVE  /\ ReconOK(recon'[m]) /\ recon'[m].time = ts /\ recon'[m].symbol = sym
             /\ recon'[m].units = u /\ InTime(recon'[m].events, from, ts)
             /\ recon'[m].added + Lack(T, u) = Lack(T, w)
             /\ recon'[m].cancelled + Excess(T, u) = Excess(T, w)
             /\ recon'[m].added \in Nat /\ recon'[m].cancelled \in Nat
             /\ u \in [Levels -> Nat] /\ TargetsOK(T)
  <2> DEFINE q == recon'[m]
             r == recon[m]
  <2>1. /\ UpdateDone(r, q, observed, trades, ts) /\ r.units = z /\ r.time = from /\ r.symbol = sym
        /\ Targets(r, observed, trades) = T
    BY <1>6 DEF sym
  <2> HIDE DEF q, r
  <2>2. /\ ReconOK(q) /\ q.time = ts /\ q.symbol = sym /\ q.units = u
        /\ InTime(q.events, from, ts)
        /\ q.added + Lack(T, q.units) = Lack(T, w)
        /\ q.cancelled + Excess(T, q.units) = Excess(T, w)
    BY <2>1 DEF UpdateDone
  <2>4. TargetsOK(T)
    <3>1. TargetsAre(T, r, observed, trades)
      BY <1>2, <1>4, <1>5, <2>1, TargetsFacts
    <3> QED BY <3>1 DEF TargetsAre
  <2> HIDE DEF u, w
  <2>3. q.added \in Nat /\ q.cancelled \in Nat /\ q.units \in [Levels -> Nat]
    BY <2>2, ReconFacts
  <2> QED BY <2>2, <2>3, <2>4 DEF q
<1>8. depth' = u
  BY <1>1, <1>4
<1> HIDE DEF u, w
<1>9. Lack(T, u) \in Nat /\ Excess(T, u) \in Nat /\ u \in [Levels -> Nat]
  <2>2. u \in [Levels -> Nat] /\ TargetsOK(T)
    BY ONLY <1>2, <1>7
  <2>1. u \in [Levels -> Int]
    BY ONLY <2>2
  <2> QED BY <2>1, <2>2, GapTypes
<1>10. ASSUME NEW m \in Models, NEW n \in Models PROVE SameFlow(recon'[m], recon'[n])
  <2> DEFINE am == recon'[m].added
             an == recon'[n].added
             cm == recon'[m].cancelled
             cn == recon'[n].cancelled
             x == Lack(T, u)
             y == Excess(T, u)
             a == Lack(T, w)
             c == Excess(T, w)
  <2>3. am + x = a /\ cm + y = c /\ am \in Nat /\ cm \in Nat /\ x \in Nat /\ y \in Nat
    BY ONLY <1>7, <1>9
  <2>4. an + x = a /\ cn + y = c /\ an \in Nat /\ cn \in Nat
    BY ONLY <1>7
  <2>5. am = an /\ cm = cn
    <3> HIDE DEF am, an, cm, cn, x, y, a, c
    <3> QED BY ONLY <2>3, <2>4
  <2>1. recon'[m].added = recon'[n].added /\ recon'[m].cancelled = recon'[n].cancelled
    BY ONLY <2>5
  <2>2. /\ recon'[m].units = recon'[n].units /\ recon'[m].time = recon'[n].time
        /\ recon'[m].symbol = recon'[n].symbol
    BY <1>7
  <2> QED BY <2>1, <2>2 DEF SameFlow
<1>11. \A m \in Models : StateOK(recon[m])'
  <2>1. sym = TRUE
    <3>1. StateOK(recon["metrics"]) /\ recon["metrics"].time # Unset
      BY <1>1, <1>2 DEF ReconInv, ModelsInv
    <3>2. ReconOK(recon["metrics"]) /\ recon["metrics"].symbol
      BY <3>1 DEF StateOK
    <3> DEFINE r == recon["metrics"]
    <3>3. ReconOK(r) /\ r.symbol
      BY <3>2
    <3> HIDE DEF r
    <3>4. r.symbol \in BOOLEAN
      BY <3>3, ReconFacts
    <3> QED BY <3>3, <3>4 DEF r, sym
  <2> SUFFICES ASSUME NEW m \in Models PROVE StateOK(recon[m])'
    OBVIOUS
  <2> DEFINE q == recon'[m]
  <2>2. ReconOK(q) /\ q.time = ts /\ q.units = u /\ q.symbol = TRUE
    BY <1>7, <2>1
  <2> QED BY <1>8, <2>2 DEF StateOK
<1>12. ASSUME NEW p \in Policies PROVE FeedOK(p)'
  <2> DEFINE ev == recon'[p].events
             old == feed[p]
  <2>1. p \in Models
    BY DEF Models
  <2>2. old \in Seq(MBOEvents) /\ InTime(old, 0, from)
    <3>1. FeedOK(p) /\ recon[p].time # Unset /\ recon[p].time = from
      BY <1>1, <1>3, <2>1 DEF ReconInv, ReplayInv, from
    <3> QED BY <3>1 DEF FeedOK
  <2>3. ev \in Seq(MBOEvents) /\ InTime(ev, from, ts) /\ recon'[p].time = ts
    <3> DEFINE q == recon'[p]
    <3>1. ReconOK(q) /\ InTime(q.events, from, ts) /\ q.time = ts
      BY <1>7, <2>1
    <3> HIDE DEF q
    <3>2. q.events \in Seq(MBOEvents)
      BY <3>1, ReconFacts
    <3> QED BY <3>1, <3>2 DEF q
  <2>4. feed'[p] = old \o ev
    BY <1>1
  <2> HIDE DEF ev, old
  <2>5. InTime(old \o ev, 0, ts)
    <3>1. 0 \in Nat /\ 0 <= from
      BY <1>4
    <3> QED BY ONLY <1>2, <1>4, <2>2, <2>3, <3>1, EventTimes, InTimeConcat
  <2>6. ts # Unset /\ old \o ev \in Seq(MBOEvents)
    BY <2>2, <2>3 DEF Unset
  <2> QED BY ONLY <2>3, <2>4, <2>5, <2>6 DEF FeedOK
<1>13. ModelsInv'
  BY <1>10, <1>11 DEF ModelsInv
<1>14. ReplayInv'
  <2>1. (\A p \in Policies : EngineInv(engine[p])) /\ clock \in 0..MaxTime
    BY DEF ReconInv, ReplayInv
  <2> QED BY <1>1, <1>12, <2>1 DEF ReplayInv
<1> QED BY <1>8, <1>9, <1>13, <1>14 DEF ReconInv

(* The events a replay takes are a prefix of the feed.                     *)
LEMMA DueFacts ==
  ASSUME NEW events, Len(events) \in Nat, NEW ts
  PROVE  /\ Due(events, ts) \in 0..Len(events)
         /\ \A i \in 1..Due(events, ts) : events[i].ts <= ts
<1> DEFINE n == Len(events)
           S == {k \in 0..n : \A i \in 1..k : events[i].ts <= ts}
<1>1. S \in SUBSET (0..n) /\ 0 \in S /\ n \in Nat
  OBVIOUS
<1>2. Due(events, ts) = Max(S)
  BY DEF Due
<1>3. Max(S) \in S
  <2> HIDE DEF S
  <2>1. S # {}
    BY <1>1
  <2> QED BY <1>1, <2>1, MaxFacts
<1> QED BY <1>2, <1>3

(* What remains of a stream in time order is in time order.                *)
LEMMA InTimeRest ==
  ASSUME NEW T, NEW s \in Seq(T), NEW lo, NEW hi, InTime(s, lo, hi), NEW k \in 0..Len(s)
  PROVE  SubSeq(s, k + 1, Len(s)) \in Seq(T) /\ InTime(SubSeq(s, k + 1, Len(s)), lo, hi)
<1> DEFINE u == SubSeq(s, k + 1, Len(s))
<1>1. /\ u \in Seq(T) /\ Len(u) = Len(s) - k /\ Len(s) \in Nat /\ k \in Nat
      /\ \A i \in 1..Len(u) : u[i] = s[k + i] /\ k + i \in 1..Len(s)
  OBVIOUS
<1> HIDE DEF u
<1>2. \A i \in 1..Len(u) : lo <= u[i].ts /\ u[i].ts <= hi
  BY <1>1 DEF InTime
<1>3. \A i, j \in 1..Len(u) : i < j => u[i].ts <= u[j].ts
  <2> SUFFICES ASSUME NEW i \in 1..Len(u), NEW j \in 1..Len(u), i < j PROVE u[i].ts <= u[j].ts
    OBVIOUS
  <2>1. k + i < k + j /\ k + i \in 1..Len(s) /\ k + j \in 1..Len(s) /\ u[i] = s[k + i] /\ u[j] = s[k + j]
    BY <1>1
  <2> QED BY <2>1 DEF InTime
<1> QED BY <1>1, <1>2, <1>3 DEF InTime, u

LEMMA ReplayKeeps ==
  ASSUME ReconInv, NEW ts \in 1..MaxTime, Replay(ts)
  PROVE  ReconInv'
<1> DEFINE due(p) == Due(feed[p], ts)
           run(p) == ReplayLoop([engine |-> engine[p], fills |-> <<>>, marks |-> <<>>], feed[p], 0)
<1>1. /\ recon' = recon /\ depth' = depth /\ clock' = ts
      /\ \A p \in Policies : engine'[p] = AdvanceTime(run(p)[due(p)].engine, ts)
      /\ \A p \in Policies : feed'[p] = SubSeq(feed[p], due(p) + 1, Len(feed[p]))
  BY DEF Replay
<1>2. ts \in Nat /\ ts \in 0..MaxTime
  BY ReconstructionBounds
<1>3. ASSUME NEW p \in Policies
      PROVE  EngineInv(engine'[p]) /\ FeedOK(p)'
  <2> DEFINE evs == feed[p]
             e == engine[p]
             r == [engine |-> e, fills |-> <<>>, marks |-> <<>>]
             d == Due(evs, ts)
  <2>1. /\ evs \in Seq(MBOEvents) /\ EngineInv(e)
        /\ IF recon[p].time = Unset THEN evs = <<>> ELSE InTime(evs, 0, recon[p].time)
    BY DEF ReconInv, ReplayInv, FeedOK
  <2>2. engine'[p] = AdvanceTime(ReplayLoop(r, evs, 0)[d].engine, ts)
        /\ feed'[p] = SubSeq(evs, d + 1, Len(evs))
    BY <1>1
  <2> HIDE DEF evs, e, d
  <2>3. d \in 0..Len(evs) /\ Len(evs) \in Nat
    BY <2>1, DueFacts DEF d
  <2>4. r \in ReplayStates
    <3>1. e \in Engines
      <4>1. EngineOK(e)
        BY <2>1 DEF EngineInv
      <4> QED BY <4>1, EnginesFacts
    <3>2. <<>> \in Seq(Fills) /\ <<>> \in Seq(Marks)
      OBVIOUS
    <3> QED BY <2>1, <3>1, <3>2 DEF ReplayStates
  <2> HIDE DEF r
  <2> DEFINE s == ReplayLoop(r, evs, 0)[d]
  <2>5. s \in ReplayStates
    <3>1. 0 \in 0..Len(evs) /\ d \in 0..(Len(evs) - 0)
      BY <2>3
    <3> QED BY <2>1, <2>4, <3>1, ReplayLoopSettles
  <2> HIDE DEF s
  <2>6. EngineInv(s.engine)
    BY <2>5 DEF ReplayStates
  <2> DEFINE g == s.engine
  <2>7. EngineInv(AdvanceTime(g, ts))
    <3>1. EngineInv(g)
      BY <2>6
    <3> HIDE DEF g
    <3> QED BY <1>2, <3>1, AdvanceTimeFacts
  <2>8. EngineInv(engine'[p])
    BY <2>2, <2>7 DEF s
  <2>9. recon'[p] = recon[p]
    BY <1>1
  <2>10. /\ feed'[p] \in Seq(MBOEvents)
         /\ IF recon[p].time = Unset THEN feed'[p] = <<>> ELSE InTime(feed'[p], 0, recon[p].time)
    <3>1. CASE recon[p].time = Unset
      <4>1. evs = <<>> /\ SubSeq(evs, d + 1, Len(evs)) = <<>>
        BY <2>1, <2>3, <3>1
      <4> QED BY <2>1, <2>2, <3>1, <4>1
    <3>2. CASE recon[p].time # Unset
      <4>1. InTime(evs, 0, recon[p].time)
        BY <2>1, <3>2
      <4>2. /\ SubSeq(evs, d + 1, Len(evs)) \in Seq(MBOEvents)
            /\ InTime(SubSeq(evs, d + 1, Len(evs)), 0, recon[p].time)
        BY <2>1, <2>3, <4>1, InTimeRest
      <4> QED BY <2>2, <3>2, <4>2
    <3> QED BY <3>1, <3>2
  <2>11. FeedOK(p)'
    BY <2>9, <2>10 DEF FeedOK
  <2> QED BY <2>8, <2>11
<1>4. ModelsInv'
  BY <1>1 DEF ReconInv, ModelsInv, StateOK
<1>5. ReplayInv'
  BY <1>1, <1>2, <1>3 DEF ReplayInv
<1> QED BY <1>1, <1>4, <1>5 DEF ReconInv

LEMMA RestOwnKeeps ==
  ASSUME ReconInv, NEW L \in TradeLevels, NEW n \in 1..MaxTrade, RestOwn(L, n)
  PROVE  ReconInv'
<1> DEFINE side == OrderSideOf(L[1])
<1>1. /\ recon' = recon /\ depth' = depth /\ clock' = clock /\ feed' = feed
      /\ \A p \in Policies : engine'[p] = Place(engine[p], side, n, L[2], "GTC").e
  BY DEF RestOwn
<1>2. side \in OrderSides /\ L[2] \in Prices /\ n \in Nat \ {0}
  <2>1. L \in Levels
    BY TradesAssumption
  <2> QED BY <2>1, TradesAssumption DEF Levels, OrderSideOf, OrderSides, BookSides
<1> HIDE DEF side
<1>3. ASSUME NEW p \in Policies PROVE EngineInv(engine'[p])
  <2> DEFINE e == engine[p]
             limit == L[2]
  <2>1. EngineInv(e) /\ engine'[p] = Place(e, side, n, limit, "GTC").e /\ limit \in Prices
    BY <1>1, <1>2 DEF ReconInv, ReplayInv
  <2> HIDE DEF e, limit
  <2>2. EngineInv(Place(e, side, n, limit, "GTC").e)
    BY <1>2, <2>1, PlaceFacts
  <2> QED BY <2>1, <2>2
<1>4. ModelsInv'
  BY <1>1 DEF ReconInv, ModelsInv, StateOK
<1>5. ReplayInv'
  BY <1>1, <1>3 DEF ReconInv, ReplayInv, FeedOK
<1> QED BY <1>1, <1>4, <1>5 DEF ReconInv

LEMMA StutterKeeps ==
  ASSUME ReconInv, UNCHANGED vars
  PROVE  ReconInv'
<1>1. recon' = recon /\ feed' = feed /\ engine' = engine /\ clock' = clock /\ depth' = depth
  BY DEF vars
<1> QED BY <1>1 DEF ReconInv, ModelsInv, ReplayInv, StateOK, FeedOK

LEMMA ReconNext == ReconInv /\ [Next]_vars => ReconInv'
<1> SUFFICES ASSUME ReconInv, [Next]_vars PROVE ReconInv'
  OBVIOUS
<1>1. CASE \E snapshot \in Snapshots : \E bridge \in Depths : Bootstrap(snapshot, bridge, 1)
  BY <1>1, BootstrapKeeps
<1>2. CASE \E snapshot \in Snapshots : \E k \in 0..Cardinality(DOMAIN snapshot) :
              BootstrapFails(snapshot, k, 1)
  BY <1>2, BootstrapFailsKeeps
<1>3. CASE \E ts \in 1..MaxTime : \E observed \in Depths :
              \E trades \in Trades(recon["metrics"].time, ts) : ApplyUpdate(observed, trades, ts)
  BY <1>3, ApplyUpdateKeeps
<1>4. CASE \E ts \in 1..MaxTime : Replay(ts)
  BY <1>4, ReplayKeeps
<1>5. CASE \E L \in TradeLevels, n \in 1..MaxTrade : RestOwn(L, n)
  BY <1>5, RestOwnKeeps
<1>6. CASE UNCHANGED vars
  BY <1>6, StutterKeeps
<1> QED BY <1>1, <1>2, <1>3, <1>4, <1>5, <1>6 DEF Next

(* The inductive invariant holds: whatever snapshots, updates and trades   *)
(* arrive, each reconstructor's virtual queues hold exactly its level      *)
(* quantities, all three models agree on quantities, flow and time, and    *)
(* the events still to be replayed are in time order.                      *)
THEOREM ReconstructionInvariant == Spec => []ReconInv
<1>1. Init => ReconInv
  BY ReconInit
<1>2. ReconInv /\ [Next]_vars => ReconInv'
  BY ReconNext
<1> QED BY <1>1, <1>2, PTL DEF Spec

LEMMA ReconImplies ==
  ASSUME ReconInv
  PROVE  /\ TypeOK /\ ReachesEveryEndpoint /\ NeverContradictsItself
         /\ BestPricesCurrent /\ PoliciesInferSameFlow /\ EventsInTimeOrder
<1>1. ASSUME NEW m \in Models
      PROVE  /\ ReconOK(recon[m]) /\ recon[m].time \in 1..MaxTime \cup {Unset}
             /\ recon[m].time # Unset => recon[m].units = depth
  BY DEF ReconInv, ModelsInv, StateOK
<1>2. ASSUME NEW m \in Models
      PROVE  /\ recon[m].units \in [Levels -> Nat]
             /\ recon[m].queues \in [Levels -> Seq([id : 1..(recon[m].nextId - 1), size : Nat \ {0}])]
             /\ recon[m].best \in [BookSides -> Prices \cup {None}]
             /\ {recon[m].symbol, recon[m].raised} \subseteq BOOLEAN
             /\ recon[m].time \in 0..MaxTime \cup {Unset}
             /\ ~recon[m].raised /\ BestNow(recon[m].best, recon[m].units)
  <2> DEFINE r == recon[m]
  <2>1. ReconOK(r) /\ r.time \in 1..MaxTime \cup {Unset}
    BY <1>1
  <2> HIDE DEF r
  <2>2. /\ r.units \in [Levels -> Nat] /\ r.queues \in [Levels -> Seq(AnyOrder)]
        /\ r.best \in [BookSides -> Prices \cup {None}]
        /\ r.symbol \in BOOLEAN /\ r.raised = FALSE /\ BestNow(r.best, r.units)
        /\ \A L \in Levels : r.queues[L] \in Seq(VOrders(r.nextId))
    BY <2>1, ReconFacts
  <2>3. r.queues \in [Levels -> Seq([id : 1..(r.nextId - 1), size : Nat \ {0}])]
    <3>1. r.queues \in [Levels -> Seq(VOrders(r.nextId))]
      BY <2>2
    <3> QED BY <3>1 DEF VOrders
  <2>4. r.time \in 0..MaxTime \cup {Unset}
    BY <2>1, ReconstructionBounds
  <2> QED BY <2>2, <2>3, <2>4 DEF r
<1>3. TypeOK
  <2>1. \A p \in Policies : EngineOK(engine[p])
    BY DEF ReconInv, ReplayInv, EngineInv
  <2>2. clock \in 0..MaxTime /\ depth \in [Levels -> Nat]
    BY DEF ReconInv, ReplayInv
  <2> QED BY <1>2, <2>1, <2>2 DEF TypeOK
<1>4. ReachesEveryEndpoint
  BY <1>1 DEF ReachesEveryEndpoint, Started
<1>5. NeverContradictsItself
  BY <1>2 DEF NeverContradictsItself
<1>6. BestPricesCurrent
  BY <1>2 DEF BestPricesCurrent, BestNow, Standing
<1>7. PoliciesInferSameFlow
  BY DEF ReconInv, ModelsInv, SameFlow, PoliciesInferSameFlow
<1>8. EventsInTimeOrder
  <2> SUFFICES ASSUME NEW p \in Policies
               PROVE  \A i, j \in 1..Len(feed[p]) : i < j => feed[p][i].ts <= feed[p][j].ts
    BY DEF EventsInTimeOrder
  <2>1. FeedOK(p)
    BY DEF ReconInv, ReplayInv
  <2>2. CASE recon[p].time = Unset
    <3>1. feed[p] = <<>>
      BY <2>1, <2>2 DEF FeedOK
    <3>2. Len(feed[p]) = 0 /\ 1..Len(feed[p]) = {}
      BY <3>1
    <3> QED BY <3>2
  <2>3. CASE recon[p].time # Unset
    BY <2>1, <2>3 DEF FeedOK, InTime
  <2> QED BY <2>2, <2>3
<1> QED BY <1>3, <1>4, <1>5, <1>6, <1>7, <1>8

(* State has its type, in particular virtual ids were given out before and *)
(* no virtual order is empty.                                              *)
THEOREM ReconstructionTypes == Spec => []TypeOK
<1>1. ReconInv => TypeOK
  BY ReconImplies
<1> QED BY <1>1, ReconstructionInvariant, PTL

(* After every successful call of bootstrap and apply_update every model's *)
(* level quantities are the depth last observed.                           *)
THEOREM EndpointsAlwaysReached == Spec => []ReachesEveryEndpoint
<1>1. ReconInv => ReachesEveryEndpoint
  BY ReconImplies
<1> QED BY <1>1, ReconstructionInvariant, PTL

(* No internal assertion of the reconstructor fails: MinimumAdd is always  *)
(* enough for the trades and cancels that follow.                          *)
THEOREM ReconstructionNeverContradictsItself == Spec => []NeverContradictsItself
<1>1. ReconInv => NeverContradictsItself
  BY ReconImplies
<1> QED BY <1>1, ReconstructionInvariant, PTL

(* The best prices kept incrementally are those of the levels.             *)
THEOREM BestPricesAlwaysCurrent == Spec => []BestPricesCurrent
<1>1. ReconInv => BestPricesCurrent
  BY ReconImplies
<1> QED BY <1>1, ReconstructionInvariant, PTL

(* Whatever the policy does with queue positions, every call infers the    *)
(* same additions and cancels.                                             *)
THEOREM PoliciesAlwaysInferSameFlow == Spec => []PoliciesInferSameFlow
<1>1. ReconInv => PoliciesInferSameFlow
  BY ReconImplies
<1> QED BY <1>1, ReconstructionInvariant, PTL

(* The stream of virtual events is in time order.                          *)
THEOREM EventsAlwaysInTimeOrder == Spec => []EventsInTimeOrder
<1>1. ReconInv => EventsInTimeOrder
  BY ReconImplies
<1> QED BY <1>1, ReconstructionInvariant, PTL

(***************************************************************************)
(* Replays hold the virtual queues.                                        *)
(***************************************************************************)

(* While the strategy rests nothing, what is still to be replayed of a     *)
(* working policy's events brings its engine to the virtual queues.        *)
Working(r) == r.time # Unset \/ ~r.symbol

FollowInv ==
  /\ own \in Seq(Levels)
  /\ own = <<>> => \A p \in Policies :
        recon[p].emits /\ (Working(recon[p]) => Leaves(engine[p], feed[p], recon[p]))

LEMMA LeavesOn ==
  ASSUME NEW e, NEW a \in Seq(MBOEvents), NEW r, r.emits, Leaves(e, a, r), NEW q, Begins(r, q),
         q.events \in Seq(MBOEvents)
  PROVE  Leaves(e, a \o q.events, q)
<1> DEFINE b == q.events
<1>1. PICK f : Leads(e, a, f) /\ Shown(f, r.queues, r.nextId)
  BY DEF Leaves
<1>2. Leaves(f, b, q)
  BY <1>1 DEF Begins
<1> HIDE DEF b
<1>3. PICK g : Leads(f, b, g) /\ Shown(g, q.queues, q.nextId)
  BY <1>2 DEF Leaves
<1>4. b \in Seq(MBOEvents)
  BY DEF b
<1>5. Leads(e, a \o b, g)
  BY ONLY <1>1, <1>3, <1>4, a \in Seq(MBOEvents), LeadsThrough
<1> QED BY <1>3, <1>5 DEF Leaves, b

LEMMA FollowInit == Init => FollowInv
<1> SUFFICES ASSUME Init PROVE FollowInv
  OBVIOUS
<1>1. own = <<>> /\ own \in Seq(Levels)
  BY DEF Init
<1>2. ASSUME NEW p \in Policies
      PROVE  recon[p].emits /\ Leaves(engine[p], feed[p], recon[p])
  <2> DEFINE r == recon[p]
             e == EmptyEngine
  <2>1. /\ r.emits /\ r.nextId = 1 /\ r.queues = [L \in Levels |-> <<>>]
        /\ engine[p] = e /\ feed[p] = <<>>
    BY DEF Init, Models, Policies, NewReconstructor
  <2>2. /\ EngineInv(e) /\ DOMAIN e.orders = {}
        /\ \A L \in Levels : e.book[L] = 0 /\ e.queues[L] = <<>>
    BY EmptyEngineFacts DEF EmptyEngine
  <2> HIDE DEF r, e
  <2>3. Held(<<>>) = 0 /\ Names(<<>>) = <<>>
    <3>1. <<>> \in Seq(AnyOrder)
      OBVIOUS
    <3> QED BY <3>1, HeldFacts, LinedEmpty
  <2>4. \A L \in Levels : Lined(e, L, <<>>)
    BY <2>2, <2>3 DEF Lined
  <2>5. Shown(e, r.queues, r.nextId)
    BY <2>1, <2>2, <2>4 DEF Shown
  <2>6. Leaves(e, <<>>, r)
    BY <2>5, LeadsNowhere DEF Leaves
  <2> QED BY <2>1, <2>6 DEF r
<1> QED BY <1>1, <1>2 DEF FollowInv

(* A call appends its events.                                              *)
LEMMA CallFollows ==
  ASSUME FollowInv, ReconInv, NEW p \in Policies, own = <<>>, Working(recon[p]),
         Begins(recon[p], recon'[p]), ReconOK(recon'[p]), recon'[p].emits = recon[p].emits,
         engine' = engine, feed'[p] = feed[p] \o recon'[p].events
  PROVE  recon'[p].emits /\ Leaves(engine'[p], feed'[p], recon'[p])
<1> DEFINE r == recon[p]
           q == recon'[p]
           a == feed[p]
           e == engine[p]
<1>1. r.emits /\ Leaves(e, a, r)
  BY DEF FollowInv
<1>2. a \in Seq(MBOEvents)
  BY DEF ReconInv, ReplayInv, FeedOK
<1>3. Begins(r, q) /\ ReconOK(q) /\ q.emits = r.emits
  OBVIOUS
<1> HIDE DEF r, q, a, e
<1>4. q.events \in Seq(MBOEvents)
  BY <1>3, ReconFacts
<1>5. Leaves(e, a \o q.events, q)
  BY <1>1, <1>2, <1>3, <1>4, LeavesOn
<1> QED BY <1>1, <1>3, <1>5 DEF r, q, a, e

LEMMA BootstrapFollows ==
  ASSUME FollowInv, ReconInv, NEW snapshot \in Snapshots, NEW bridge \in Depths,
         Bootstrap(snapshot, bridge, 1)
  PROVE  FollowInv'
<1>1. /\ \A m \in Models : ~recon[m].symbol
      /\ \A m \in Models : recon'[m] = Bootstrapped(recon[m], snapshot, bridge, 1)
      /\ \A p \in Policies : feed'[p] = feed[p] \o recon'[p].events
      /\ engine' = engine /\ own' = own
  BY DEF Bootstrap, Emit
<1>2. TargetsOK(snapshot) /\ TargetsOK(bridge) /\ 1 \in Nat
  BY ObservationsOK
<1>3. ASSUME own = <<>>, NEW p \in Policies
      PROVE  recon'[p].emits /\ Leaves(engine'[p], feed'[p], recon'[p])
  <2> DEFINE r == recon[p]
             q == recon'[p]
  <2>1. p \in Models
    BY PoliciesAreModels
  <2>2. StateOK(r) /\ ~r.symbol
    BY <1>1, <2>1 DEF ReconInv, ModelsInv
  <2>3. q = Bootstrapped(r, snapshot, bridge, 1)
    BY <1>1, <2>1
  <2> HIDE DEF r, q
  <2>4. ReconOK(r) /\ \A L \in Levels : r.units[L] = 0
    BY <2>2 DEF StateOK
  <2>5. BootstrapDone(r, Bootstrapped(r, snapshot, bridge, 1), snapshot, bridge, 1)
    BY <1>2, <2>4, BootstrappedFacts
  <2>6. ReconOK(q) /\ Begins(r, q) /\ q.emits = r.emits
    BY <2>3, <2>5 DEF BootstrapDone
  <2>7. Working(r)
    BY <2>2 DEF Working
  <2> QED BY <1>1, <1>3, <2>6, <2>7, CallFollows DEF r, q
<1> QED BY <1>1, <1>3 DEF FollowInv

(* After a failed bootstrap no call works.                                 *)
LEMMA BootstrapFailsFollows ==
  ASSUME FollowInv, ReconInv, NEW snapshot \in Snapshots,
         NEW k \in 0..Cardinality(DOMAIN snapshot), BootstrapFails(snapshot, k, 1)
  PROVE  FollowInv'
<1> DEFINE D == DOMAIN snapshot
           sorted == SortedLevels(D)
           levels == SubSeq(sorted, 1, k)
           S == {levels[j] : j \in 1..Len(levels)}
<1>1. /\ \A m \in Models : ~recon[m].symbol
      /\ \A m \in Models : recon'[m] = LoadSnapshot(recon[m], levels, snapshot, 1)
      /\ own' = own
  BY DEF BootstrapFails
<1>2. TargetsOK(snapshot) /\ 1 \in Nat
  BY ObservationsOK
<1>3. levels \in Seq(D) /\ \A i, j \in 1..Len(levels) : levels[i] = levels[j] => i = j
  <2>1. Enumerates(sorted, D) /\ sorted \in Seq(D) /\ Len(sorted) = Cardinality(D)
    BY <1>2, SortedLevelsFacts DEF TargetsOK
  <2> HIDE DEF sorted, D
  <2>2. k \in 0..Len(sorted) /\ Len(sorted) \in Nat
    BY <2>1 DEF D
  <2>3. /\ levels \in Seq(D) /\ Len(levels) = k
        /\ \A i \in 1..k : levels[i] = sorted[i] /\ i \in 1..Len(sorted)
    BY <2>1, <2>2
  <2>4. \A i, j \in 1..Len(sorted) : sorted[i] = sorted[j] => i = j
    BY <2>1 DEF Enumerates
  <2> HIDE DEF levels
  <2> QED BY <2>3, <2>4
<1>4. ASSUME own = <<>>, NEW p \in Policies PROVE recon'[p].emits /\ ~Working(recon'[p])
  <2> DEFINE r == recon[p]
             q == recon'[p]
  <2>1. p \in Models
    BY PoliciesAreModels
  <2>2. StateOK(r) /\ ~r.symbol
    BY <1>1, <2>1 DEF ReconInv, ModelsInv
  <2>3. q = LoadSnapshot(r, levels, snapshot, 1)
    BY <1>1, <2>1
  <2>4. r.emits
    BY <1>4 DEF FollowInv
  <2> HIDE DEF r, q, levels
  <2>5. ReconOK(r) /\ (\A L \in Levels : r.units[L] = 0) /\ r.time = Unset
    BY <2>2 DEF StateOK
  <2>6. LoadDone(r, LoadSnapshot(r, levels, snapshot, 1), {levels[j] : j \in 1..Len(levels)}, snapshot, 1)
    BY <1>2, <1>3, <2>5, LoadFacts
  <2>7. q.time = Unset /\ q.symbol = TRUE /\ q.emits
    BY <2>3, <2>4, <2>5, <2>6 DEF LoadDone
  <2> QED BY <2>7 DEF Working, q
<1> QED BY <1>1, <1>4 DEF FollowInv

LEMMA ApplyUpdateFollows ==
  ASSUME FollowInv, ReconInv, NEW ts \in 1..MaxTime, NEW observed \in Depths,
         NEW trades \in Trades(recon["metrics"].time, ts), ApplyUpdate(observed, trades, ts)
  PROVE  FollowInv'
<1>1. /\ \A m \in Models : recon[m].time # Unset /\ ts >= recon[m].time
      /\ \A m \in Models : recon'[m] = Updated(recon[m], observed, trades, ts)
      /\ \A p \in Policies : feed'[p] = feed[p] \o recon'[p].events
      /\ engine' = engine /\ own' = own
  BY DEF ApplyUpdate, Emit
<1>2. TargetsOK(observed) /\ "metrics" \in Models /\ ts \in Nat
  BY ObservationsOK, ReconstructionBounds DEF Models
<1>3. ASSUME own = <<>>, NEW p \in Policies
      PROVE  recon'[p].emits /\ Leaves(engine'[p], feed'[p], recon'[p])
  <2> DEFINE r == recon[p]
             q == recon'[p]
  <2>1. p \in Models
    BY PoliciesAreModels
  <2>2. StateOK(r) /\ r.time # Unset /\ ts >= r.time /\ r.time = recon["metrics"].time
    BY <1>1, <1>2, <2>1 DEF ReconInv, ModelsInv, SameFlow
  <2>3. q = Updated(r, observed, trades, ts) /\ trades \in Trades(r.time, ts)
    BY <1>1, <2>1, <2>2
  <2> HIDE DEF r, q
  <2>4. ReconOK(r) /\ r.time \in Nat /\ r.time <= ts
    BY <1>2, <2>2, ReconstructionBounds DEF StateOK
  <2>5. TradesOK(trades, r.time, ts)
    <3> DEFINE from == r.time
    <3>1. from \in Nat /\ trades \in Trades(from, ts)
      BY <2>3, <2>4
    <3> HIDE DEF from
    <3>2. TradesOK(trades, from, ts)
      BY <1>2, <3>1, TradesAreOK
    <3> QED BY <3>2 DEF from
  <2>6. UpdateDone(r, Updated(r, observed, trades, ts), observed, trades, ts)
    BY <1>2, <2>4, <2>5, UpdatedFacts
  <2>7. ReconOK(q) /\ Begins(r, q) /\ q.emits = r.emits
    BY <2>3, <2>6 DEF UpdateDone
  <2>8. Working(r)
    BY <2>2 DEF Working
  <2> QED BY <1>1, <1>3, <2>7, <2>8, CallFollows DEF r, q
<1> QED BY <1>1, <1>3 DEF FollowInv

(* The loop of a replay goes through the same engines.                     *)
Along(r, evs, tr) == \A k \in 0..Len(evs) : ReplayLoop(r, evs, 0)[k].engine = tr[k]

LEMMA ReplayLoopPath ==
  ASSUME NEW evs \in Seq(MBOEvents), NEW r \in ReplayStates, NEW e, e = r.engine, NEW f, NEW tr,
         Path(e, evs, f, tr)
  PROVE  Along(r, evs, tr)
<1> DEFINE m == Len(evs)
           loop == ReplayLoop(r, evs, 0)
           S == {n \in Nat : n <= m => loop[n].engine = tr[n]}
<1>1. m \in Nat
  OBVIOUS
<1>2. /\ loop[0] = r
      /\ \A n \in Nat : n + 1 \in 1..m => loop[n + 1] = ReplayStep(loop[n], evs[n + 1])
  <2>1. 0 \in 0..Len(evs) /\ Len(evs) - 0 = m
    BY <1>1
  <2>2. /\ loop[0] = r
        /\ \A n \in Nat : n + 1 \in 1..(Len(evs) - 0) =>
              loop[n + 1] = ReplayStep(loop[n], evs[0 + (n + 1)])
    BY <2>1, ReplayLoopTurns
  <2>3. \A n \in Nat : 0 + (n + 1) = n + 1
    OBVIOUS
  <2> HIDE DEF loop, m
  <2> QED BY <2>1, <2>2, <2>3
<1>3. tr[0] = r.engine /\ \A n \in 1..m : tr[n] = ApplyEvent(tr[n - 1], evs[n])
  BY DEF Path
<1> HIDE DEF m, loop
<1>4. 0 \in S
  BY <1>2, <1>3
<1>5. ASSUME NEW n \in S PROVE n + 1 \in S
  <2> SUFFICES ASSUME n + 1 <= m PROVE loop[n + 1].engine = tr[n + 1]
    OBVIOUS
  <2>1. n \in Nat /\ n + 1 \in 1..m /\ (n + 1) - 1 = n /\ n <= m
    BY <1>1
  <2>2. loop[n + 1].engine = ApplyEvent(loop[n].engine, evs[n + 1])
    <3>1. \A s, x : ReplayStep(s, x).engine = ApplyEvent(s.engine, x)
      BY DEF ReplayStep
    <3>2. loop[n + 1] = ReplayStep(loop[n], evs[n + 1])
      BY <1>2, <2>1
    <3> QED BY <3>1, <3>2
  <2>3. loop[n].engine = tr[n]
    BY <2>1
  <2> QED BY <1>3, <2>1, <2>2, <2>3
<1>6. S = Nat
  <2>1. S \in SUBSET Nat
    OBVIOUS
  <2> HIDE DEF S
  <2> QED BY <1>4, <1>5, <2>1, SetInduction
<1>7. ASSUME NEW k \in 0..m PROVE loop[k].engine = tr[k]
  <2>1. k \in Nat /\ k <= m
    BY <1>1
  <2> QED BY <1>6, <2>1
<1> QED BY <1>7 DEF Along, loop, m

LEMMA ClockShown ==
  ASSUME NEW f, NEW queues, NEW m, Shown(f, queues, m), NEW ts \in Nat
  PROVE  Shown(AdvanceTime(f, ts), queues, m)
<1> DEFINE g == AdvanceTime(f, ts)
<1>1. EngineInv(f) /\ g = [f EXCEPT !.now = ts]
  BY DEF Shown, AdvanceTime
<1> HIDE DEF g
<1>2. EngineInv(g) /\ g.book = f.book /\ g.orders = f.orders /\ g.queues = f.queues
  BY <1>1, NowFacts
<1>3. ASSUME NEW L \in Levels PROVE Lined(g, L, queues[L])
  <2>1. Lined(f, L, queues[L])
    BY DEF Shown
  <2> QED BY <1>2, <2>1 DEF Lined
<1>4. Shown(g, queues, m)
  BY <1>2, <1>3 DEF Shown
<1> QED BY <1>4 DEF g

(* A replay takes events off the feed.                                     *)
LEMMA RestLeaves ==
  ASSUME NEW e, EngineInv(e), NEW evs \in Seq(MBOEvents), NEW q, Leaves(e, evs, q),
         NEW k \in 0..Len(evs), NEW ts \in Nat, NEW r,
         r = [engine |-> e, fills |-> <<>>, marks |-> <<>>]
  PROVE  Leaves(AdvanceTime(ReplayLoop(r, evs, 0)[k].engine, ts),
                SubSeq(evs, k + 1, Len(evs)), q)
<1> DEFINE g == AdvanceTime(ReplayLoop(r, evs, 0)[k].engine, ts)
           b == SubSeq(evs, k + 1, Len(evs))
<1>1. PICK f : Leads(e, evs, f) /\ Shown(f, q.queues, q.nextId)
  BY DEF Leaves
<1>2. PICK tr : Path(e, evs, f, tr)
  BY <1>1 DEF Leads
<1>3. r \in ReplayStates /\ r.engine = e
  <2>1. e \in Engines
    BY EnginesFacts DEF EngineInv
  <2>2. <<>> \in Seq(Fills) /\ <<>> \in Seq(Marks)
    OBVIOUS
  <2> QED BY <2>1, <2>2 DEF ReplayStates
<1>4. g = AdvanceTime(tr[k], ts)
  <2>1. Along(r, evs, tr)
    BY <1>2, <1>3, ReplayLoopPath
  <2> QED BY <2>1 DEF Along
<1> HIDE DEF g
<1>5. IF k = Len(evs) THEN Leads(g, b, AdvanceTime(f, ts)) ELSE Leads(g, b, f)
  BY <1>2, <1>4, LeadsRest
<1> HIDE DEF b
<1>6. Shown(AdvanceTime(f, ts), q.queues, q.nextId)
  BY <1>1, ClockShown
<1>7. Leaves(g, b, q)
  BY <1>1, <1>5, <1>6 DEF Leaves
<1> QED BY <1>7 DEF g, b

LEMMA ReplayFollows ==
  ASSUME FollowInv, ReconInv, NEW ts \in 1..MaxTime, Replay(ts)
  PROVE  FollowInv'
<1> DEFINE due(p) == Due(feed[p], ts)
           run(p) == ReplayLoop([engine |-> engine[p], fills |-> <<>>, marks |-> <<>>], feed[p], 0)
<1>1. /\ recon' = recon /\ own' = own
      /\ \A p \in Policies : engine'[p] = AdvanceTime(run(p)[due(p)].engine, ts)
      /\ \A p \in Policies : feed'[p] = SubSeq(feed[p], due(p) + 1, Len(feed[p]))
  BY DEF Replay
<1>2. ts \in Nat
  BY ReconstructionBounds
<1>3. ASSUME own = <<>>, NEW p \in Policies
      PROVE  recon'[p].emits /\ (Working(recon'[p]) => Leaves(engine'[p], feed'[p], recon'[p]))
  <2> DEFINE evs == feed[p]
             e == engine[p]
             q == recon[p]
             r == [engine |-> e, fills |-> <<>>, marks |-> <<>>]
             d == Due(evs, ts)
  <2>1. /\ evs \in Seq(MBOEvents) /\ EngineInv(e)
        /\ q.emits /\ (Working(q) => Leaves(e, evs, q))
    BY <1>3 DEF ReconInv, ReplayInv, FeedOK, FollowInv
  <2>2. engine'[p] = AdvanceTime(ReplayLoop(r, evs, 0)[d].engine, ts)
        /\ feed'[p] = SubSeq(evs, d + 1, Len(evs)) /\ recon'[p] = q
    BY <1>1
  <2> HIDE DEF evs, e, d, q
  <2>3. d \in 0..Len(evs)
    BY <2>1, DueFacts DEF d
  <2>4. r = [engine |-> e, fills |-> <<>>, marks |-> <<>>]
    OBVIOUS
  <2> HIDE DEF r
  <2>5. ASSUME Working(q)
        PROVE  Leaves(AdvanceTime(ReplayLoop(r, evs, 0)[d].engine, ts), SubSeq(evs, d + 1, Len(evs)), q)
    BY <1>2, <2>1, <2>3, <2>4, <2>5, RestLeaves
  <2> QED BY <2>1, <2>2, <2>5
<1> QED BY <1>1, <1>3 DEF FollowInv

LEMMA FollowNext == ReconInv /\ FollowInv /\ [Next]_vars => FollowInv'
<1> SUFFICES ASSUME ReconInv, FollowInv, [Next]_vars PROVE FollowInv'
  OBVIOUS
<1>1. CASE \E snapshot \in Snapshots : \E bridge \in Depths : Bootstrap(snapshot, bridge, 1)
  BY <1>1, BootstrapFollows
<1>2. CASE \E snapshot \in Snapshots : \E k \in 0..Cardinality(DOMAIN snapshot) :
              BootstrapFails(snapshot, k, 1)
  BY <1>2, BootstrapFailsFollows
<1>3. CASE \E ts \in 1..MaxTime : \E observed \in Depths :
              \E trades \in Trades(recon["metrics"].time, ts) : ApplyUpdate(observed, trades, ts)
  BY <1>3, ApplyUpdateFollows
<1>4. CASE \E ts \in 1..MaxTime : Replay(ts)
  BY <1>4, ReplayFollows
<1>5. CASE \E L \in TradeLevels, n \in 1..MaxTrade : RestOwn(L, n)
  <2>1. PICK L \in TradeLevels : own' = Append(own, L)
    BY <1>5 DEF RestOwn
  <2>2. L \in Levels /\ own \in Seq(Levels)
    BY TradesAssumption DEF FollowInv
  <2>3. own' \in Seq(Levels) /\ own' # <<>>
    BY <2>1, <2>2
  <2> QED BY <2>3 DEF FollowInv
<1>6. CASE UNCHANGED vars
  <2>1. own' = own /\ recon' = recon /\ feed' = feed /\ engine' = engine
    BY <1>6 DEF vars
  <2> QED BY <2>1 DEF FollowInv
<1> QED BY <1>1, <1>2, <1>3, <1>4, <1>5, <1>6 DEF Next

(* An engine that has nothing left to replay holds the virtual queues.     *)
LEMMA FollowImplies ==
  ASSUME ReconInv, FollowInv
  PROVE  ReplayFollowsQueues
<1> SUFFICES ASSUME NEW p \in Policies, feed[p] = <<>>, own = <<>>, Started, NEW L \in Levels
             PROVE  /\ engine[p].book[L] = recon[p].units[L]
                    /\ [i \in 1..Len(engine[p].queues[L]) |->
                            [id |-> engine[p].queues[L][i][2],
                             size |-> SizeOf(engine[p], engine[p].queues[L][i])]]
                         = recon[p].queues[L]
  BY DEF ReplayFollowsQueues
<1> DEFINE r == recon[p]
           e == engine[p]
           q == r.queues[L]
<1>1. p \in Models
  BY PoliciesAreModels
<1>2. ReconOK(r) /\ r.emits /\ Leaves(e, <<>>, r)
  BY <1>1 DEF ReconInv, ModelsInv, StateOK, FollowInv, Working, Started
<1> HIDE DEF r, e
<1>3. q \in Seq(AnyOrder) /\ Held(q) = r.units[L]
  BY <1>2, ReconFacts
<1>4. Lined(e, L, q)
  <2>1. PICK f : Leads(e, <<>>, f) /\ Shown(f, r.queues, r.nextId)
    BY <1>2 DEF Leaves
  <2>2. f = e
    <3>1. PICK tr : Path(e, <<>>, f, tr)
      BY <2>1 DEF Leads
    <3> QED BY <3>1 DEF Path
  <2> QED BY <2>1, <2>2 DEF Shown
<1> HIDE DEF q
<1>5. /\ e.book[L] = Held(q) /\ e.queues[L] = Names(q)
      /\ \A i \in 1..Len(q) : /\ Public(q[i].id) \in DOMAIN e.orders
                              /\ e.orders[Public(q[i].id)] = [level |-> L, size |-> q[i].size]
  BY <1>4 DEF Lined
<1>6. /\ Len(Names(q)) = Len(q) /\ \A i \in 1..Len(q) : Names(q)[i] = Public(q[i].id)
      /\ \A i \in 1..Len(q) : q[i] \in AnyOrder
  BY <1>3, NamesFacts
<1> DEFINE w == Names(q)
<1> HIDE DEF w
<1>7. ASSUME NEW i \in 1..Len(q) PROVE [id |-> w[i][2], size |-> SizeOf(e, w[i])] = q[i]
  <2> DEFINE x == q[i]
             y == Public(x.id)
  <2>1. x \in AnyOrder /\ w[i] = y
    BY <1>6 DEF w
  <2>2. y \in DOMAIN e.orders /\ e.orders[y].size = x.size
    <3>1. y \in DOMAIN e.orders /\ e.orders[y] = [level |-> L, size |-> x.size]
      BY <1>5
    <3> HIDE DEF x, y
    <3> QED BY <3>1
  <2>3. y[2] = x.id
    BY DEF Public
  <2> HIDE DEF x, y
  <2>4. SizeOf(e, y) = x.size
    BY <2>2 DEF SizeOf
  <2>5. [id |-> x.id, size |-> x.size] = x
    BY <2>1 DEF AnyOrder
  <2> QED BY <2>1, <2>3, <2>4, <2>5 DEF x
<1>8. [i \in 1..Len(w) |-> [id |-> w[i][2], size |-> SizeOf(e, w[i])]] = q
  <2>1. Len(w) = Len(q) /\ q = [i \in 1..Len(q) |-> q[i]]
    BY <1>3, <1>6 DEF w
  <2> QED BY <1>7, <2>1
<1>9. e.queues[L] = w /\ e.book[L] = r.units[L]
  BY <1>3, <1>5 DEF w
<1> QED BY <1>8, <1>9 DEF r, e, q

(* Before the strategy rests anything, an engine that replayed all events  *)
(* of a policy shows, order by order, the virtual queues that the policy   *)
(* inferred.                                                               *)
THEOREM ReplayAlwaysFollowsQueues == Spec => []ReplayFollowsQueues
<1>1. Init => FollowInv
  BY FollowInit
<1>2. ReconInv /\ FollowInv /\ [Next]_vars => FollowInv'
  BY FollowNext
<1>3. ReconInv /\ FollowInv => ReplayFollowsQueues
  BY FollowImplies
<1> QED BY <1>1, <1>2, <1>3, ReconstructionInvariant, PTL DEF Spec

==============================================================================
