--------------------------- MODULE EngineOpsProofs ---------------------------
(***************************************************************************)
(* What every operation of the engine preserves: the types, that own       *)
(* orders are queued exactly once (EngineInv), and that fills are only     *)
(* appended, with the time of the operation; and what the event loop of a  *)
(* replay keeps: the fills it collects and the valuation marks it records  *)
(* are in time order, no earlier than the loop's start, and the last mark  *)
(* values the book the loop leaves.  The loops are unfolded with           *)
(* LoopExists and carried by SetInduction.                                 *)
(***************************************************************************)
EXTENDS ReplayOps, NumberFacts, SequenceTheorems, FiniteSetTheorems

EngineInv(e) == EngineOK(e) /\ OwnQueued(e) /\ OwnIdsGivenOut(e)

LEMMA LesserFacts ==
  ASSUME NEW m \in Nat, NEW n \in Nat
  PROVE  /\ Lesser(m, n) \in Nat
         /\ Lesser(m, n) <= m /\ Lesser(m, n) <= n
         /\ m > 0 /\ n > 0 => Lesser(m, n) > 0
  BY DEF Lesser

LEMMA LevelFacts ==
  ASSUME NEW L \in Levels
  PROVE  L[1] \in BookSides /\ L[2] \in Prices /\ L[2] \in Nat
  BY PricesAssumption DEF Levels

LEMMA BookFacts ==
  ASSUME NEW b \in [Levels -> Nat], NEW L \in Levels, NEW n \in Nat
  PROVE  /\ AddToBook(b, L, n) \in [Levels -> Nat]
         /\ RemoveFromBook(b, L, n) \in [Levels -> Nat]
         /\ \A M \in Levels \ {L} : /\ AddToBook(b, L, n)[M] = b[M]
                                    /\ RemoveFromBook(b, L, n)[M] = b[M]
<1>1. b[L] \in Nat /\ Lesser(b[L], n) \in Nat /\ b[L] - Lesser(b[L], n) \in Nat
  BY LesserFacts
<1> QED BY <1>1 DEF AddToBook, RemoveFromBook

LEMMA EntryFacts ==
  /\ \A x \in Entries : IsOwn(x) => x[2] \in Nat
  /\ \A id \in PublicIds : Public(id) \in Entries /\ ~IsOwn(Public(id))
  /\ \A id \in Nat : Own(id) \in Entries /\ IsOwn(Own(id)) /\ Own(id)[2] = id
  BY DEF Entries, IsOwn, Public, Own

(***************************************************************************)
(* Queues.                                                                 *)
(***************************************************************************)

(* p maps the places of w to the places of q its entries come from, in order: *)
(* those that hold something else than x.                                  *)
Embeds(p, w, q, x) ==
  /\ p \in [1..Len(w) -> 1..Len(q)]
  /\ \A i \in 1..Len(w) : w[i] = q[p[i]] /\ q[p[i]] # x
  /\ \A i, k \in 1..Len(w) : i < k => p[i] < p[k]
  /\ \A j \in 1..Len(q) : q[j] # x => \E i \in 1..Len(w) : p[i] = j

(* Without(q, x) keeps the other entries, each of them, in order.          *)
LEMMA WithoutEmbeds ==
  ASSUME NEW q \in Seq(Entries), NEW x
  PROVE  /\ Without(q, x) \in Seq(Entries)
         /\ \E p : Embeds(p, Without(q, x), q, x)
<1> DEFINE V == {q[n] : n \in Nat} \cup Entries
           T == Seq(V)
           step == [p \in T \X Nat |->
                       IF q[p[2]] = x THEN p[1] ELSE Append(p[1], q[p[2]])]
<1>1. step \in [T \X Nat -> T]
  <2>1. ASSUME NEW p \in T \X Nat
        PROVE  (IF q[p[2]] = x THEN p[1] ELSE Append(p[1], q[p[2]])) \in T
    <3>1. p[1] \in Seq(V) /\ p[2] \in Nat /\ q[p[2]] \in V
      OBVIOUS
    <3> HIDE DEF V
    <3> QED BY <3>1
  <2> HIDE DEF T
  <2> QED BY <2>1
<1>2. PICK g : IsLoop(g, T, <<>>, step)
  <2>1. <<>> \in T
    OBVIOUS
  <2> HIDE DEF step, T
  <2> QED BY <1>1, <2>1, LoopExists, Zenon
<1>3. \A n \in Nat : g[n + 1] = IF q[n + 1] = x THEN g[n] ELSE Append(g[n], q[n + 1])
  <2>1. ASSUME NEW n \in Nat
        PROVE  g[n + 1] = IF q[n + 1] = x THEN g[n] ELSE Append(g[n], q[n + 1])
    <3>1. <<g[n], n + 1>> \in T \X Nat
      BY <1>2 DEF IsLoop
    <3> HIDE DEF T
    <3> QED BY <1>2, <3>1 DEF IsLoop
  <2> QED BY <2>1
<1> HIDE DEF step
<1> DEFINE f == CHOOSE h : h = [n \in Nat |-> IF n = 0 THEN <<>>
                                   ELSE IF q[n] = x THEN h[n - 1]
                                   ELSE Append(h[n - 1], q[n])]
<1>4. g = [n \in Nat |-> IF n = 0 THEN <<>> ELSE IF q[n] = x THEN g[n - 1]
                                   ELSE Append(g[n - 1], q[n])]
  <2>1. ASSUME NEW n \in Nat
        PROVE  g[n] = IF n = 0 THEN <<>> ELSE IF q[n] = x THEN g[n - 1]
                                   ELSE Append(g[n - 1], q[n])
    <3>1. CASE n = 0
      BY <1>2, <3>1 DEF IsLoop
    <3>2. CASE n # 0
      <4>1. n - 1 \in Nat /\ (n - 1) + 1 = n
        BY <3>2
      <4>2. g[(n - 1) + 1] = IF q[(n - 1) + 1] = x THEN g[n - 1]
                                 ELSE Append(g[n - 1], q[(n - 1) + 1])
        BY <1>3, <4>1
      <4> QED BY <4>1, <4>2, <3>2
    <3> QED BY <3>1, <3>2
  <2> HIDE DEF T
  <2> QED BY <2>1, <1>2 DEF IsLoop
<1>5. f = [n \in Nat |-> IF n = 0 THEN <<>> ELSE IF q[n] = x THEN f[n - 1]
                                   ELSE Append(f[n - 1], q[n])]
  BY <1>4
<1>6. Without(q, x) = f[Len(q)]
  BY DEF Without
<1> HIDE DEF f
<1>7. f[0] = <<>>
  BY <1>5
<1>8. ASSUME NEW n \in Nat
      PROVE  f[n + 1] = IF q[n + 1] = x THEN f[n] ELSE Append(f[n], q[n + 1])
  <2>1. n + 1 \in Nat /\ n + 1 # 0 /\ (n + 1) - 1 = n
    OBVIOUS
  <2> QED BY <1>5, <2>1
<1> DEFINE Part(n, p) ==
             /\ p \in [1..Len(f[n]) -> 1..n]
             /\ \A i \in 1..Len(f[n]) : f[n][i] = q[p[i]] /\ q[p[i]] # x
             /\ \A i, k \in 1..Len(f[n]) : i < k => p[i] < p[k]
             /\ \A j \in 1..n : q[j] # x => \E i \in 1..Len(f[n]) : p[i] = j
           Kept(n) == f[n] \in Seq(Entries) /\ \E p : Part(n, p)
           S == {n \in Nat : n <= Len(q) => Kept(n)}
<1>9. S = Nat
  <2>1. 0 \in S
    <3>1. Len(f[0]) = 0 /\ f[0] \in Seq(Entries)
      BY <1>7
    <3>2. Part(0, [i \in 1..0 |-> 0])
      BY <3>1
    <3> QED BY <3>1, <3>2
  <2>2. ASSUME NEW n \in Nat, n + 1 <= Len(q), Kept(n)
        PROVE  Kept(n + 1)
    <3>1. PICK p : Part(n, p)
      BY <2>2
    <3>2. n + 1 \in 1..Len(q) /\ q[n + 1] \in Entries
      BY <2>2
    <3>3. CASE q[n + 1] = x
      <4>1. f[n + 1] = f[n]
        BY <1>8, <3>3
      <4>2. ASSUME NEW j \in 1..(n + 1), q[j] # x PROVE j \in 1..n
        BY <3>3, <4>2
      <4>3. p \in [1..Len(f[n]) -> 1..(n + 1)]
        BY <3>1
      <4>4. Part(n + 1, p)
        BY <3>1, <4>1, <4>2, <4>3
      <4> QED BY <2>2, <4>1, <4>4, ZenonT(30)
    <3>4. CASE q[n + 1] # x
      <4> DEFINE w == f[n]
                 z == q[n + 1]
                 v == f[n + 1]
                 r == [i \in 1..(Len(w) + 1) |-> IF i = Len(w) + 1 THEN n + 1 ELSE p[i]]
      <4>1. v = Append(w, z)
        BY <1>8, <3>4
      <4>2. /\ v \in Seq(Entries) /\ Len(v) = Len(w) + 1 /\ Len(w) \in Nat
            /\ \A i \in 1..Len(w) : v[i] = w[i]
            /\ v[Len(w) + 1] = z
        BY <2>2, <3>2, <4>1
      <4>3. /\ p \in [1..Len(w) -> 1..n]
            /\ \A i \in 1..Len(w) : w[i] = q[p[i]] /\ q[p[i]] # x
            /\ \A i, k \in 1..Len(w) : i < k => p[i] < p[k]
            /\ \A j \in 1..n : q[j] # x => \E i \in 1..Len(w) : p[i] = j
        BY <3>1
      <4>4. z = q[n + 1] /\ z # x
        BY <3>4
      <4> HIDE DEF w, z, v
      <4>5. \A i \in 1..Len(w) : r[i] = p[i] /\ p[i] \in 1..n /\ i \in 1..(Len(w) + 1)
        BY <4>2, <4>3
      <4>6. r[Len(w) + 1] = n + 1 /\ Len(w) + 1 \in 1..(Len(w) + 1)
        BY <4>2
      <4>7. r \in [1..Len(v) -> 1..(n + 1)]
        BY <4>2, <4>3
      <4> HIDE DEF r
      <4>8. \A i \in 1..Len(v) : i \in 1..Len(w) \/ i = Len(w) + 1
        BY <4>2
      <4>9. \A i \in 1..Len(v) : v[i] = q[r[i]] /\ q[r[i]] # x
        BY <4>2, <4>3, <4>4, <4>5, <4>6, <4>8
      <4>10. \A i, k \in 1..Len(v) : i < k => r[i] < r[k]
        <5>1. ASSUME NEW i \in 1..Len(v), NEW k \in 1..Len(v), i < k
              PROVE  r[i] < r[k]
          <6>1. i \in 1..Len(w)
            BY <4>2, <5>1
          <6>2. CASE k \in 1..Len(w)
            BY <4>3, <4>5, <5>1, <6>1, <6>2
          <6>3. CASE k = Len(w) + 1
            BY <4>5, <4>6, <6>1, <6>3
          <6> QED BY <4>8, <6>2, <6>3
        <5> QED BY <5>1
      <4>11. ASSUME NEW j \in 1..(n + 1), q[j] # x
             PROVE  \E i \in 1..Len(v) : r[i] = j
        <5>1. CASE j = n + 1
          BY <4>2, <4>6, <5>1
        <5>2. CASE j # n + 1
          <6>1. PICK i \in 1..Len(w) : p[i] = j
            BY <4>3, <4>11, <5>2
          <6> QED BY <4>2, <4>5, <6>1
        <5> QED BY <5>1, <5>2
      <4>12. Part(n + 1, r)
        BY <4>7, <4>9, <4>10, <4>11 DEF v
      <4> QED BY <4>2, <4>12 DEF v
    <3> QED BY <3>3, <3>4
  <2> HIDE DEF Kept
  <2>3. ASSUME NEW n \in S PROVE n + 1 \in S
    BY <2>2
  <2>4. S \in SUBSET Nat
    OBVIOUS
  <2> HIDE DEF S
  <2> QED BY <2>1, <2>3, <2>4, SetInduction
<1>10. Kept(Len(q))
  <2>1. Len(q) \in Nat
    OBVIOUS
  <2>2. Len(q) \in S
    <3> HIDE DEF S
    <3> QED BY <1>9, <2>1
  <2> HIDE DEF Kept
  <2> QED BY <2>2
<1> QED BY <1>6, <1>10 DEF Embeds

LEMMA WithoutFacts ==
  ASSUME NEW q \in Seq(Entries), NEW x
  PROVE  /\ Without(q, x) \in Seq(Entries)
         /\ \A i \in 1..Len(Without(q, x)) :
               /\ Without(q, x)[i] # x
               /\ \E j \in 1..Len(q) : q[j] = Without(q, x)[i]
         /\ \A y : y # x /\ StandsOnce(q, y) => StandsOnce(Without(q, x), y)
<1> DEFINE w == Without(q, x)
<1>1. PICK p : w \in Seq(Entries) /\ Embeds(p, w, q, x)
  BY WithoutEmbeds
<1> HIDE DEF w
<1>2. \A i \in 1..Len(w) : w[i] # x /\ p[i] \in 1..Len(q) /\ q[p[i]] = w[i]
  BY <1>1 DEF Embeds
<1>3. ASSUME NEW y, y # x, NEW j \in 1..Len(q), \A k \in 1..Len(q) : q[k] = y <=> k = j
      PROVE  StandsOnce(w, y)
  <2>1. PICK i \in 1..Len(w) : p[i] = j
    BY <1>1, <1>3 DEF Embeds
  <2>2. \A k \in 1..Len(w) : k # i => p[k] # p[i]
    <3>1. Len(w) \in Nat /\ Len(q) \in Nat
      BY <1>1
    <3> QED BY <1>1, <1>2, <3>1 DEF Embeds
  <2>3. \A k \in 1..Len(w) : w[k] = y <=> k = i
    BY <1>2, <1>3, <2>1, <2>2
  <2> QED BY <2>3 DEF StandsOnce
<1>4. \A y : y # x /\ StandsOnce(q, y) => StandsOnce(w, y)
  BY <1>3 DEF StandsOnce
<1> QED BY <1>1, <1>2, <1>4 DEF w

LEMMA AppendFacts ==
  ASSUME NEW q \in Seq(Entries), NEW x \in Entries
  PROVE  /\ Append(q, x) \in Seq(Entries)
         /\ \A i \in 1..Len(Append(q, x)) :
               Append(q, x)[i] = x \/ \E j \in 1..Len(q) : Append(q, x)[i] = q[j]
         /\ \A y : y # x /\ StandsOnce(q, y) => StandsOnce(Append(q, x), y)
         /\ (\A i \in 1..Len(q) : q[i] # x) => StandsOnce(Append(q, x), x)
<1> DEFINE w == Append(q, x)
<1>1. /\ w \in Seq(Entries) /\ Len(w) = Len(q) + 1 /\ Len(q) \in Nat
      /\ \A i \in 1..Len(q) : w[i] = q[i]
      /\ w[Len(q) + 1] = x
  OBVIOUS
<1> HIDE DEF w
<1>2. ASSUME NEW y, y # x, NEW j \in 1..Len(q), \A k \in 1..Len(q) : q[k] = y <=> k = j
      PROVE  StandsOnce(w, y)
  <2>1. j \in 1..Len(w) /\ \A k \in 1..Len(w) : w[k] = y <=> k = j
    BY <1>1, <1>2
  <2> QED BY <2>1 DEF StandsOnce
<1>3. ASSUME \A i \in 1..Len(q) : q[i] # x
      PROVE  StandsOnce(w, x)
  <2>1. Len(w) \in 1..Len(w) /\ \A k \in 1..Len(w) : w[k] = x <=> k = Len(w)
    BY <1>1, <1>3
  <2> QED BY <2>1 DEF StandsOnce
<1>4. \A i \in 1..Len(w) : w[i] = x \/ \E j \in 1..Len(q) : w[i] = q[j]
  BY <1>1
<1>5. \A y : y # x /\ StandsOnce(q, y) => StandsOnce(w, y)
  BY <1>2 DEF StandsOnce
<1> QED BY <1>1, <1>3, <1>4, <1>5 DEF w

LEMMA TailFacts ==
  ASSUME NEW q \in Seq(Entries), q # <<>>
  PROVE  /\ Tail(q) \in Seq(Entries) /\ Head(q) \in Entries /\ Head(q) = q[1]
         /\ Len(Tail(q)) + 1 = Len(q) /\ 1 \in 1..Len(q)
         /\ \A i \in 1..Len(Tail(q)) : \E j \in 1..Len(q) : Tail(q)[i] = q[j]
         /\ \A y : y # Head(q) /\ StandsOnce(q, y) => StandsOnce(Tail(q), y)
         /\ StandsOnce(q, Head(q)) => \A i \in 1..Len(Tail(q)) : Tail(q)[i] # Head(q)
<1> DEFINE w == Tail(q)
           x == Head(q)
<1>1. /\ w \in Seq(Entries) /\ x \in Entries /\ x = q[1] /\ Len(w) + 1 = Len(q)
      /\ Len(w) \in Nat /\ \A i \in 1..Len(w) : w[i] = q[i + 1]
  OBVIOUS
<1> HIDE DEF w, x
<1>2. ASSUME NEW y, y # x, NEW j \in 1..Len(q), \A k \in 1..Len(q) : q[k] = y <=> k = j
      PROVE  StandsOnce(w, y)
  <2>1. j # 1 /\ j - 1 \in 1..Len(w)
    BY <1>1, <1>2
  <2>2. \A k \in 1..Len(w) : k + 1 \in 1..Len(q) /\ w[k] = q[k + 1]
    BY <1>1
  <2>3. \A k \in 1..Len(w) : w[k] = y <=> k = j - 1
    BY <2>1, <2>2, <1>2
  <2> QED BY <2>1, <2>3 DEF StandsOnce
<1>3. ASSUME StandsOnce(q, x), NEW i \in 1..Len(w) PROVE w[i] # x
  <2>1. PICK j \in 1..Len(q) : \A k \in 1..Len(q) : q[k] = x <=> k = j
    BY <1>3 DEF StandsOnce
  <2>2. 1 \in 1..Len(q) /\ i + 1 \in 1..Len(q) /\ i + 1 # 1
    BY <1>1
  <2> QED BY <1>1, <2>1, <2>2
<1>4. \A i \in 1..Len(w) : \E j \in 1..Len(q) : w[i] = q[j]
  BY <1>1
<1>5. \A y : y # x /\ StandsOnce(q, y) => StandsOnce(w, y)
  BY <1>2 DEF StandsOnce
<1> QED BY <1>1, <1>3, <1>4, <1>5 DEF w, x

(***************************************************************************)
(* The operations on one level.                                            *)
(***************************************************************************)

Fields == {"book", "orders", "queues", "fills", "nextId", "now", "position"}

(* An engine is typed field by field.                                      *)
LEMMA EngineFields ==
  ASSUME NEW e
  PROVE  EngineOK(e) <=>
           /\ DOMAIN e = Fields /\ e = [k \in DOMAIN e |-> e[k]]
           /\ e.book \in [Levels -> Nat] /\ e.queues \in [Levels -> Seq(Entries)]
           /\ e.orders \in [DOMAIN e.orders -> Orders] /\ DOMAIN e.orders \subseteq Entries
           /\ e.fills \in Seq(Fills) /\ e.nextId \in Nat /\ e.now \in Nat
           /\ e.position \in Int
  BY DEF EngineOK, Fields

(* Joining the back of a queue.                                            *)
LEMMA RestFacts ==
  ASSUME NEW e, EngineInv(e), NEW x \in Entries, NEW L \in Levels, NEW n \in Nat \ {0},
         IsOwn(x) => x \notin DOMAIN e.orders /\ x[2] \in FirstOwnId..(e.nextId - 1)
  PROVE  /\ EngineInv(Rest(e, x, L, n))
         /\ Rest(e, x, L, n).fills = e.fills
         /\ Rest(e, x, L, n).nextId = e.nextId
         /\ Rest(e, x, L, n).now = e.now
<1> DEFINE f == Rest(e, x, L, n)
<1>0. EngineOK(e) /\ OwnQueued(e) /\ OwnIdsGivenOut(e)
  BY DEF EngineInv
<1>1. /\ DOMAIN e = Fields
      /\ e.book \in [Levels -> Nat] /\ e.queues \in [Levels -> Seq(Entries)]
      /\ e.orders \in [DOMAIN e.orders -> Orders] /\ DOMAIN e.orders \subseteq Entries
      /\ e.fills \in Seq(Fills) /\ e.nextId \in Nat /\ e.now \in Nat /\ e.position \in Int
  BY <1>0, EngineFields
<1>2. /\ f.book = AddToBook(e.book, L, n)
      /\ f.orders = Put(e.orders, x, [level |-> L, size |-> n])
      /\ f.queues = Enqueue(e.queues, L, x)
      /\ f.fills = e.fills /\ f.nextId = e.nextId /\ f.now = e.now
      /\ f.position = e.position
      /\ DOMAIN f = Fields /\ f = [k \in DOMAIN f |-> f[k]]
  BY <1>1 DEF Rest, Fields
<1>3. /\ DOMAIN f.orders = DOMAIN e.orders \cup {x}
      /\ f.orders[x] = [level |-> L, size |-> n]
      /\ \A y \in DOMAIN e.orders \ {x} : f.orders[y] = e.orders[y]
      /\ f.orders \in [DOMAIN f.orders -> Orders]
  BY <1>1, <1>2 DEF Put, Orders
<1>4. /\ f.queues \in [Levels -> Seq(Entries)]
      /\ f.queues[L] = Append(e.queues[L], x)
      /\ \A M \in Levels \ {L} : f.queues[M] = e.queues[M]
      /\ e.queues[L] \in Seq(Entries)
  BY <1>1, <1>2 DEF Enqueue
<1>5. f.book \in [Levels -> Nat]
  <2>1. n \in Nat
    OBVIOUS
  <2>2. AddToBook(e.book, L, n) \in [Levels -> Nat]
    BY <1>1, <2>1, BookFacts
  <2> QED BY <1>2, <2>2
<1> HIDE DEF f
<1>6. EngineOK(f)
  BY <1>1, <1>2, <1>3, <1>4, <1>5, EngineFields
<1>7. ASSUME NEW y \in OwnOrders(f)
      PROVE  StandsOnce(f.queues[f.orders[y].level], y) /\ y[2] \in FirstOwnId..(f.nextId - 1)
  <2>1. CASE y = x
    <3>1. IsOwn(x) /\ x \notin DOMAIN e.orders /\ f.orders[y].level = L
      BY <2>1, <1>3, <1>7 DEF OwnOrders
    <3>2. \A i \in 1..Len(e.queues[L]) : e.queues[L][i] # x
      BY <3>1, <1>0 DEF OwnQueued
    <3>3. StandsOnce(Append(e.queues[L], x), x)
      BY <3>2, <1>4, AppendFacts
    <3>4. x[2] \in FirstOwnId..(f.nextId - 1)
      BY <3>1, <1>2
    <3> QED BY <3>1, <3>3, <3>4, <2>1, <1>4
  <2>2. CASE y # x
    <3>1. y \in OwnOrders(e) /\ f.orders[y] = e.orders[y] /\ e.orders[y].level \in Levels
      BY <2>2, <1>1, <1>3, <1>7 DEF OwnOrders, Orders
    <3>2. StandsOnce(e.queues[e.orders[y].level], y) /\ y[2] \in FirstOwnId..(e.nextId - 1)
      BY <3>1, <1>0 DEF OwnQueued, OwnIdsGivenOut
    <3>3. StandsOnce(e.queues[L], y) => StandsOnce(Append(e.queues[L], x), y)
      BY <2>2, <1>4, AppendFacts
    <3>4. y[2] \in FirstOwnId..(f.nextId - 1)
      BY <3>2, <1>2
    <3>5. StandsOnce(f.queues[e.orders[y].level], y)
      BY <3>1, <3>2, <3>3, <1>4
    <3> QED BY <3>1, <3>4, <3>5
  <2> QED BY <2>1, <2>2
<1>8. ASSUME NEW M \in Levels, NEW i \in 1..Len(f.queues[M]), IsOwn(f.queues[M][i])
      PROVE  f.queues[M][i] \in DOMAIN f.orders /\ f.orders[f.queues[M][i]].level = M
  <2> DEFINE y == f.queues[M][i]
  <2>1. CASE M = L /\ y = x
    BY <2>1, <1>3
  <2>2. CASE ~(M = L /\ y = x)
    <3>1. PICK j \in 1..Len(e.queues[M]) : y = e.queues[M][j]
      <4>1. CASE M # L
        BY <4>1, <1>4, <1>8
      <4>2. CASE M = L
        <5>1. \A k \in 1..Len(Append(e.queues[L], x)) :
                 \/ Append(e.queues[L], x)[k] = x
                 \/ \E j \in 1..Len(e.queues[L]) : Append(e.queues[L], x)[k] = e.queues[L][j]
          BY <1>4, AppendFacts
        <5> QED BY <5>1, <4>2, <2>2, <1>4, <1>8
      <4> QED BY <4>1, <4>2
    <3>2. y \in DOMAIN e.orders /\ e.orders[y].level = M
      BY <3>1, <1>0, <1>8 DEF OwnQueued
    <3>3. y # x
      BY <3>2, <1>8
    <3> QED BY <3>2, <3>3, <1>3
  <2> QED BY <2>1, <2>2
<1>9. f.nextId >= FirstOwnId
  BY <1>0, <1>2 DEF OwnIdsGivenOut
<1> QED BY <1>2, <1>6, <1>7, <1>8, <1>9 DEF EngineInv, OwnQueued, OwnIdsGivenOut, f

(* Nothing but removals and new sizes: orders only go, keep their level, and *)
(* an entry goes from a queue only if it is no order's.                    *)
LEMMA ShrinkFacts ==
  ASSUME NEW e, EngineInv(e), NEW f, EngineOK(f), f.nextId >= e.nextId,
         DOMAIN f.orders \subseteq DOMAIN e.orders,
         \A y \in DOMAIN f.orders : f.orders[y].level = e.orders[y].level,
         \A M \in Levels : \A y \in OwnOrders(f) :
            StandsOnce(e.queues[M], y) => StandsOnce(f.queues[M], y),
         \A M \in Levels : \A i \in 1..Len(f.queues[M]) :
            /\ \E j \in 1..Len(e.queues[M]) : f.queues[M][i] = e.queues[M][j]
            /\ IsOwn(f.queues[M][i]) => f.queues[M][i] \in DOMAIN f.orders
  PROVE  EngineInv(f)
<1>1. OwnQueued(e) /\ OwnIdsGivenOut(e) /\ e.orders \in [DOMAIN e.orders -> Orders]
      /\ e.nextId \in Nat /\ f.nextId \in Nat /\ DOMAIN e.orders \subseteq Entries
  BY EngineFields DEF EngineInv
<1>2. ASSUME NEW y \in OwnOrders(f)
      PROVE  StandsOnce(f.queues[f.orders[y].level], y) /\ y[2] \in FirstOwnId..(f.nextId - 1)
  <2>1. y \in OwnOrders(e) /\ f.orders[y].level = e.orders[y].level
        /\ e.orders[y].level \in Levels /\ y[2] \in Nat
    BY <1>1, <1>2, EntryFacts DEF OwnOrders, Orders
  <2>2. StandsOnce(e.queues[e.orders[y].level], y) /\ y[2] \in FirstOwnId..(e.nextId - 1)
    BY <1>1, <2>1 DEF OwnQueued, OwnIdsGivenOut
  <2>3. y[2] \in FirstOwnId..(f.nextId - 1)
    BY <1>1, <2>1, <2>2
  <2> QED BY <1>2, <2>1, <2>2, <2>3
<1>3. ASSUME NEW M \in Levels, NEW i \in 1..Len(f.queues[M]), IsOwn(f.queues[M][i])
      PROVE  f.queues[M][i] \in DOMAIN f.orders /\ f.orders[f.queues[M][i]].level = M
  <2>1. PICK j \in 1..Len(e.queues[M]) : f.queues[M][i] = e.queues[M][j]
    OBVIOUS
  <2>2. e.orders[e.queues[M][j]].level = M
    BY <1>1, <1>3, <2>1 DEF OwnQueued
  <2> QED BY <1>3, <2>1, <2>2
<1>4. f.nextId >= FirstOwnId
  BY <1>1, FirstOwnIdAssumption DEF OwnIdsGivenOut
<1> QED BY <1>2, <1>3, <1>4 DEF EngineInv, OwnQueued, OwnIdsGivenOut

LEMMA SetSizeFacts ==
  ASSUME NEW orders, orders \in [DOMAIN orders -> Orders], NEW x \in DOMAIN orders,
         NEW n \in Nat
  PROVE  /\ SetSize(orders, x, n) \in [DOMAIN SetSize(orders, x, n) -> Orders]
         /\ DOMAIN SetSize(orders, x, n) \subseteq DOMAIN orders
         /\ \A y \in DOMAIN orders : y \in DOMAIN SetSize(orders, x, n) <=> y # x \/ n # 0
         /\ \A y \in DOMAIN SetSize(orders, x, n) :
               /\ SetSize(orders, x, n)[y].level = orders[y].level
               /\ y # x => SetSize(orders, x, n)[y] = orders[y]
               /\ y = x => SetSize(orders, x, n)[y].size = n
<1>1. orders[x].level \in Levels
  BY DEF Orders
<1>2. CASE n = 0
  BY <1>2 DEF SetSize, Drop
<1>3. CASE n # 0
  <2>1. [level |-> orders[x].level, size |-> n] \in Orders
    BY <1>1, <1>3 DEF Orders
  <2>2. SetSize(orders, x, n) = Put(orders, x, [level |-> orders[x].level, size |-> n])
    BY <1>3 DEF SetSize
  <2>3. DOMAIN orders \cup {x} = DOMAIN orders
    OBVIOUS
  <2> QED BY <1>3, <2>1, <2>2, <2>3 DEF Put
<1> QED BY <1>2, <1>3

LEMMA DequeueFacts ==
  ASSUME NEW queues \in [Levels -> Seq(Entries)], NEW L \in Levels, NEW x
  PROVE  /\ Dequeue(queues, L, x) \in [Levels -> Seq(Entries)]
         /\ \A M \in Levels : \A y \in Entries :
               y # x /\ StandsOnce(queues[M], y) => StandsOnce(Dequeue(queues, L, x)[M], y)
         /\ \A M \in Levels : \A i \in 1..Len(Dequeue(queues, L, x)[M]) :
               /\ \E j \in 1..Len(queues[M]) : Dequeue(queues, L, x)[M][i] = queues[M][j]
               /\ M = L => Dequeue(queues, L, x)[M][i] # x
<1> DEFINE qs == Dequeue(queues, L, x)
           w == Without(queues[L], x)
<1>1. queues[L] \in Seq(Entries)
  OBVIOUS
<1>2. /\ w \in Seq(Entries)
      /\ \A i \in 1..Len(w) : w[i] # x /\ \E j \in 1..Len(queues[L]) : queues[L][j] = w[i]
      /\ \A y : y # x /\ StandsOnce(queues[L], y) => StandsOnce(w, y)
  BY <1>1, WithoutFacts
<1> HIDE DEF w
<1>3. qs \in [Levels -> Seq(Entries)] /\ qs[L] = w
      /\ \A M \in Levels \ {L} : qs[M] = queues[M]
  BY <1>2 DEF Dequeue, w
<1> HIDE DEF qs
<1>4. ASSUME NEW M \in Levels, NEW y \in Entries, y # x, StandsOnce(queues[M], y)
      PROVE  StandsOnce(qs[M], y)
  BY <1>2, <1>3, <1>4
<1>5. ASSUME NEW M \in Levels, NEW i \in 1..Len(qs[M])
      PROVE  /\ \E j \in 1..Len(queues[M]) : qs[M][i] = queues[M][j]
             /\ M = L => qs[M][i] # x
  <2>1. CASE M = L
    BY <1>2, <1>3, <2>1
  <2>2. CASE M # L
    BY <1>3, <2>2
  <2> QED BY <2>1, <2>2
<1> QED BY <1>3, <1>4, <1>5 DEF qs

LEMMA PopFrontFacts ==
  ASSUME NEW queues \in [Levels -> Seq(Entries)], NEW L \in Levels, queues[L] # <<>>
  PROVE  /\ PopFront(queues, L) \in [Levels -> Seq(Entries)]
         /\ Head(queues[L]) \in Entries /\ Len(PopFront(queues, L)[L]) + 1 = Len(queues[L])
         /\ \E j \in 1..Len(queues[L]) : queues[L][j] = Head(queues[L])
         /\ \A M \in Levels \ {L} : PopFront(queues, L)[M] = queues[M]
         /\ \A M \in Levels : \A y \in Entries :
               y # Head(queues[L]) /\ StandsOnce(queues[M], y)
                  => StandsOnce(PopFront(queues, L)[M], y)
         /\ \A M \in Levels : \A i \in 1..Len(PopFront(queues, L)[M]) :
               /\ \E j \in 1..Len(queues[M]) : PopFront(queues, L)[M][i] = queues[M][j]
               /\ M = L /\ StandsOnce(queues[L], Head(queues[L]))
                     => PopFront(queues, L)[M][i] # Head(queues[L])
<1> DEFINE qs == PopFront(queues, L)
           w == Tail(queues[L])
           x == Head(queues[L])
<1>1. queues[L] \in Seq(Entries)
  OBVIOUS
<1>2. /\ w \in Seq(Entries) /\ x \in Entries /\ x = queues[L][1]
      /\ Len(w) + 1 = Len(queues[L]) /\ 1 \in 1..Len(queues[L])
      /\ \A i \in 1..Len(w) : \E j \in 1..Len(queues[L]) : w[i] = queues[L][j]
      /\ \A y : y # x /\ StandsOnce(queues[L], y) => StandsOnce(w, y)
      /\ StandsOnce(queues[L], x) => \A i \in 1..Len(w) : w[i] # x
  BY <1>1, TailFacts
<1> HIDE DEF w, x
<1>3. qs \in [Levels -> Seq(Entries)] /\ qs[L] = w
      /\ \A M \in Levels \ {L} : qs[M] = queues[M]
  BY <1>2 DEF PopFront, w
<1> HIDE DEF qs
<1>4. ASSUME NEW M \in Levels, NEW y \in Entries, y # x, StandsOnce(queues[M], y)
      PROVE  StandsOnce(qs[M], y)
  BY <1>2, <1>3, <1>4
<1>5. ASSUME NEW M \in Levels, NEW i \in 1..Len(qs[M])
      PROVE  /\ \E j \in 1..Len(queues[M]) : qs[M][i] = queues[M][j]
             /\ M = L /\ StandsOnce(queues[L], x) => qs[M][i] # x
  <2>1. CASE M = L
    BY <1>2, <1>3, <2>1
  <2>2. CASE M # L
    BY <1>3, <2>2
  <2> QED BY <2>1, <2>2
<1> QED BY <1>2, <1>3, <1>4, <1>5 DEF qs, x

(***************************************************************************)
(* Public events.                                                          *)
(***************************************************************************)

LEMMA ResizeFacts ==
  ASSUME NEW e, EngineInv(e), NEW x \in DOMAIN e.orders, ~IsOwn(x), NEW n \in Nat
  PROVE  /\ EngineInv(Resize(e, x, n))
         /\ Resize(e, x, n).fills = e.fills
         /\ Resize(e, x, n).nextId = e.nextId
<1> DEFINE f == Resize(e, x, n)
           L == e.orders[x].level
<1>1. /\ DOMAIN e = Fields
      /\ e.book \in [Levels -> Nat] /\ e.queues \in [Levels -> Seq(Entries)]
      /\ e.orders \in [DOMAIN e.orders -> Orders] /\ DOMAIN e.orders \subseteq Entries
      /\ e.fills \in Seq(Fills) /\ e.nextId \in Nat /\ e.now \in Nat /\ e.position \in Int
  BY EngineFields DEF EngineInv
<1>2. L \in Levels /\ e.orders[x].size \in Nat
  BY <1>1 DEF Orders
<1>3. /\ f.book = IF n >= e.orders[x].size
                  THEN AddToBook(e.book, L, n - e.orders[x].size)
                  ELSE RemoveFromBook(e.book, L, e.orders[x].size - n)
      /\ f.orders = SetSize(e.orders, x, n)
      /\ f.queues = IF n = 0 THEN Dequeue(e.queues, L, x) ELSE e.queues
      /\ f.fills = e.fills /\ f.nextId = e.nextId /\ f.now = e.now
      /\ f.position = e.position
      /\ DOMAIN f = Fields /\ f = [k \in DOMAIN f |-> f[k]]
  BY <1>1 DEF Resize, Fields
<1> HIDE DEF f, L
<1>4. f.book \in [Levels -> Nat]
  <2>1. CASE n >= e.orders[x].size
    <3>1. n - e.orders[x].size \in Nat
      BY <1>2, <2>1
    <3>2. AddToBook(e.book, L, n - e.orders[x].size) \in [Levels -> Nat]
      BY <1>1, <1>2, <3>1, BookFacts
    <3> QED BY <1>3, <2>1, <3>2
  <2>2. CASE ~(n >= e.orders[x].size)
    <3>1. e.orders[x].size - n \in Nat
      BY <1>2, <2>2
    <3>2. RemoveFromBook(e.book, L, e.orders[x].size - n) \in [Levels -> Nat]
      BY <1>1, <1>2, <3>1, BookFacts
    <3> QED BY <1>3, <2>2, <3>2
  <2> QED BY <2>1, <2>2
<1>5. /\ f.orders \in [DOMAIN f.orders -> Orders]
      /\ DOMAIN f.orders \subseteq DOMAIN e.orders
      /\ \A y \in DOMAIN e.orders : y \in DOMAIN f.orders <=> y # x \/ n # 0
      /\ \A y \in DOMAIN f.orders : f.orders[y].level = e.orders[y].level
  <2> DEFINE os == SetSize(e.orders, x, n)
  <2>0. e.orders \in [DOMAIN e.orders -> Orders]
    BY <1>1
  <2>1. /\ os \in [DOMAIN os -> Orders]
        /\ DOMAIN os \subseteq DOMAIN e.orders
        /\ \A y \in DOMAIN e.orders : y \in DOMAIN os <=> y # x \/ n # 0
        /\ \A y \in DOMAIN os : os[y].level = e.orders[y].level
    BY <2>0, SetSizeFacts
  <2>2. f.orders = os
    BY <1>3
  <2> HIDE DEF os
  <2> QED BY <2>1, <2>2
<1>6. /\ f.queues \in [Levels -> Seq(Entries)]
      /\ \A M \in Levels : \A y \in OwnOrders(f) :
            StandsOnce(e.queues[M], y) => StandsOnce(f.queues[M], y)
      /\ \A M \in Levels : \A i \in 1..Len(f.queues[M]) :
            \E j \in 1..Len(e.queues[M]) : f.queues[M][i] = e.queues[M][j]
  <2>1. \A y \in OwnOrders(f) : y # x /\ y \in Entries
    BY <1>1, <1>5 DEF OwnOrders
  <2>2. CASE n = 0
    <3> DEFINE qs == Dequeue(e.queues, L, x)
    <3>0. e.queues \in [Levels -> Seq(Entries)] /\ L \in Levels
      BY <1>1, <1>2
    <3>1. qs \in [Levels -> Seq(Entries)]
      BY <3>0, DequeueFacts
    <3>2. \A M \in Levels : \A y \in Entries :
             y # x /\ StandsOnce(e.queues[M], y) => StandsOnce(qs[M], y)
      BY <3>0, DequeueFacts
    <3>3. \A M \in Levels : \A i \in 1..Len(qs[M]) :
             \E j \in 1..Len(e.queues[M]) : qs[M][i] = e.queues[M][j]
      BY <3>0, DequeueFacts, SMTT(60)
    <3>4. f.queues = qs
      BY <1>3, <2>2
    <3> HIDE DEF qs
    <3> QED BY <2>1, <3>1, <3>2, <3>3, <3>4
  <2>3. CASE n # 0
    BY <1>1, <1>3, <2>3
  <2> QED BY <2>2, <2>3
<1>7. EngineOK(f)
  <2>1. DOMAIN f.orders \subseteq Entries
    BY <1>1, <1>5
  <2> QED BY <1>1, <1>3, <1>4, <1>5, <1>6, <2>1, EngineFields
<1>8. \A M \in Levels : \A i \in 1..Len(f.queues[M]) :
         IsOwn(f.queues[M][i]) => f.queues[M][i] \in DOMAIN f.orders
  <2>1. SUFFICES ASSUME NEW M \in Levels, NEW i \in 1..Len(f.queues[M]),
                        IsOwn(f.queues[M][i])
                 PROVE  f.queues[M][i] \in DOMAIN f.orders
    OBVIOUS
  <2>2. PICK j \in 1..Len(e.queues[M]) : f.queues[M][i] = e.queues[M][j]
    BY <1>6
  <2>3. f.queues[M][i] \in DOMAIN e.orders
    BY <2>1, <2>2 DEF EngineInv, OwnQueued
  <2>4. f.queues[M][i] # x
    BY <2>1
  <2> QED BY <1>5, <2>3, <2>4
<1>9. EngineInv(f)
  <2>1. f.nextId >= e.nextId
    BY <1>1, <1>3
  <2>2. DOMAIN f.orders \subseteq DOMAIN e.orders
    BY <1>5
  <2> QED BY <1>5, <1>6, <1>7, <1>8, <2>1, <2>2, ShrinkFacts
<1> QED BY <1>3, <1>9 DEF f

(* What CancelPublic, CancelOwn and MovePublic share: a public order is taken *)
(* off its level, an own order is cancelled.                                *)
LEMMA CancelOwnFacts ==
  ASSUME NEW e, EngineInv(e), NEW id \in Nat
  PROVE  /\ EngineInv(CancelOwn(e, id))
         /\ CancelOwn(e, id).fills = e.fills
         /\ CancelOwn(e, id).nextId = e.nextId
         /\ CancelOwn(e, id).now = e.now
<1> DEFINE x == Own(id)
           f == CancelOwn(e, id)
           L == e.orders[x].level
<1>1. /\ DOMAIN e = Fields
      /\ e.book \in [Levels -> Nat] /\ e.queues \in [Levels -> Seq(Entries)]
      /\ e.orders \in [DOMAIN e.orders -> Orders] /\ DOMAIN e.orders \subseteq Entries
      /\ e.fills \in Seq(Fills) /\ e.nextId \in Nat /\ e.now \in Nat /\ e.position \in Int
  BY EngineFields DEF EngineInv
<1>2. CASE x \notin DOMAIN e.orders
  BY <1>2 DEF CancelOwn
<1>3. CASE x \in DOMAIN e.orders
  <2>1. L \in Levels /\ e.orders[x].size \in Nat
    BY <1>1, <1>3 DEF Orders
  <2>2. /\ f.book = RemoveFromBook(e.book, L, e.orders[x].size)
        /\ f.orders = Drop(e.orders, x)
        /\ f.queues = Dequeue(e.queues, L, x)
        /\ f.fills = e.fills /\ f.nextId = e.nextId /\ f.now = e.now
        /\ f.position = e.position
        /\ DOMAIN f = Fields /\ f = [k \in DOMAIN f |-> f[k]]
    BY <1>1, <1>3 DEF CancelOwn, Fields
  <2> HIDE DEF f, L, x
  <2>3. f.book \in [Levels -> Nat]
    <3>1. RemoveFromBook(e.book, L, e.orders[x].size) \in [Levels -> Nat]
      BY <1>1, <2>1, BookFacts
    <3> QED BY <2>2, <3>1
  <2>4. /\ f.orders \in [DOMAIN f.orders -> Orders]
        /\ DOMAIN f.orders = DOMAIN e.orders \ {x}
        /\ \A y \in DOMAIN f.orders : f.orders[y].level = e.orders[y].level
    BY <1>1, <2>2 DEF Drop
  <2>5. /\ f.queues \in [Levels -> Seq(Entries)]
        /\ \A M \in Levels : \A y \in OwnOrders(f) :
              StandsOnce(e.queues[M], y) => StandsOnce(f.queues[M], y)
        /\ \A M \in Levels : \A i \in 1..Len(f.queues[M]) :
              \E j \in 1..Len(e.queues[M]) : f.queues[M][i] = e.queues[M][j]
        /\ \A i \in 1..Len(f.queues[L]) : f.queues[L][i] # x
    <3> DEFINE qs == Dequeue(e.queues, L, x)
    <3>0. e.queues \in [Levels -> Seq(Entries)] /\ L \in Levels
      BY <1>1, <2>1
    <3>1. qs \in [Levels -> Seq(Entries)]
      BY <3>0, DequeueFacts
    <3>2. \A M \in Levels : \A y \in Entries :
             y # x /\ StandsOnce(e.queues[M], y) => StandsOnce(qs[M], y)
      BY <3>0, DequeueFacts
    <3>3. \A M \in Levels : \A i \in 1..Len(qs[M]) :
             \E j \in 1..Len(e.queues[M]) : qs[M][i] = e.queues[M][j]
      BY <3>0, DequeueFacts
    <3>4. \A M \in Levels : \A i \in 1..Len(qs[M]) : M = L => qs[M][i] # x
      BY <3>0, DequeueFacts
    <3>5. f.queues = qs
      BY <2>2
    <3>6. \A y \in OwnOrders(f) : y # x /\ y \in Entries
      BY <1>1, <2>4 DEF OwnOrders
    <3> HIDE DEF qs
    <3> QED BY <2>1, <3>1, <3>2, <3>3, <3>4, <3>5, <3>6
  <2>6. EngineOK(f)
    <3>1. DOMAIN f.orders \subseteq Entries
      BY <1>1, <2>4
    <3> QED BY <1>1, <2>2, <2>3, <2>4, <2>5, <3>1, EngineFields
  <2>7. \A M \in Levels : \A i \in 1..Len(f.queues[M]) :
           IsOwn(f.queues[M][i]) => f.queues[M][i] \in DOMAIN f.orders
    <3>1. SUFFICES ASSUME NEW M \in Levels, NEW i \in 1..Len(f.queues[M]),
                          IsOwn(f.queues[M][i])
                   PROVE  f.queues[M][i] \in DOMAIN f.orders
      OBVIOUS
    <3>2. PICK j \in 1..Len(e.queues[M]) : f.queues[M][i] = e.queues[M][j]
      BY <2>5
    <3>3. f.queues[M][i] \in DOMAIN e.orders /\ e.orders[f.queues[M][i]].level = M
      BY <3>1, <3>2 DEF EngineInv, OwnQueued
    <3>4. f.queues[M][i] # x
      BY <2>5, <3>3 DEF L
    <3> QED BY <2>4, <3>3, <3>4
  <2>8. EngineInv(f)
    <3>1. f.nextId >= e.nextId /\ DOMAIN f.orders \subseteq DOMAIN e.orders
      BY <1>1, <2>2, <2>4
    <3> QED BY <2>4, <2>5, <2>6, <2>7, <3>1, ShrinkFacts
  <2> QED BY <2>2, <2>8 DEF f
<1> QED BY <1>2, <1>3

LEMMA MovePublicFacts ==
  ASSUME NEW e, EngineInv(e), NEW x \in DOMAIN e.orders, ~IsOwn(x),
         NEW L \in Levels, NEW n \in Nat \ {0}
  PROVE  /\ EngineInv(MovePublic(e, x, L, n))
         /\ MovePublic(e, x, L, n).fills = e.fills
         /\ MovePublic(e, x, L, n).nextId = e.nextId
<1> DEFINE K == e.orders[x].level
           f == [e EXCEPT !.book = RemoveFromBook(@, K, e.orders[x].size),
                          !.queues = Dequeue(@, K, x)]
<1>1. /\ DOMAIN e = Fields
      /\ e.book \in [Levels -> Nat] /\ e.queues \in [Levels -> Seq(Entries)]
      /\ e.orders \in [DOMAIN e.orders -> Orders] /\ DOMAIN e.orders \subseteq Entries
      /\ e.fills \in Seq(Fills) /\ e.nextId \in Nat /\ e.now \in Nat /\ e.position \in Int
  BY EngineFields DEF EngineInv
<1>2. K \in Levels /\ e.orders[x].size \in Nat
  BY <1>1 DEF Orders
<1>3. MovePublic(e, x, L, n) = Rest(f, x, L, n)
  BY DEF MovePublic
<1>4. /\ f.book = RemoveFromBook(e.book, K, e.orders[x].size)
      /\ f.queues = Dequeue(e.queues, K, x)
      /\ f.orders = e.orders /\ f.fills = e.fills /\ f.nextId = e.nextId
      /\ f.now = e.now /\ f.position = e.position
      /\ DOMAIN f = Fields /\ f = [k \in DOMAIN f |-> f[k]]
  BY <1>1 DEF Fields
<1> HIDE DEF f, K
<1>5. f.book \in [Levels -> Nat]
  <2>1. RemoveFromBook(e.book, K, e.orders[x].size) \in [Levels -> Nat]
    BY <1>1, <1>2, BookFacts
  <2> QED BY <1>4, <2>1
<1>6. /\ f.queues \in [Levels -> Seq(Entries)]
      /\ \A M \in Levels : \A y \in OwnOrders(f) :
            StandsOnce(e.queues[M], y) => StandsOnce(f.queues[M], y)
      /\ \A M \in Levels : \A i \in 1..Len(f.queues[M]) :
            \E j \in 1..Len(e.queues[M]) : f.queues[M][i] = e.queues[M][j]
  <2> DEFINE old == e.queues
             new == Dequeue(old, K, x)
  <2>1. old \in [Levels -> Seq(Entries)] /\ K \in Levels /\ f.queues = new /\ e.queues = old
    BY <1>1, <1>2, <1>4
  <2>2. \A y \in OwnOrders(f) : y # x /\ y \in Entries
    BY <1>1, <1>4 DEF OwnOrders
  <2> HIDE DEF old
  <2>3. new \in [Levels -> Seq(Entries)]
    BY <2>1, DequeueFacts
  <2>4. \A M \in Levels : \A y \in Entries :
           y # x /\ StandsOnce(old[M], y) => StandsOnce(new[M], y)
    BY <2>1, DequeueFacts
  <2>5. \A M \in Levels : \A i \in 1..Len(new[M]) :
           \E j \in 1..Len(old[M]) : new[M][i] = old[M][j]
    BY <2>1, DequeueFacts, SMTT(60)
  <2> HIDE DEF new
  <2> QED BY <2>1, <2>2, <2>3, <2>4, <2>5, ZenonT(60)
<1>7. EngineOK(f)
  BY <1>1, <1>4, <1>5, <1>6, EngineFields
<1>8. \A M \in Levels : \A i \in 1..Len(f.queues[M]) :
         IsOwn(f.queues[M][i]) => f.queues[M][i] \in DOMAIN f.orders
  <2>1. SUFFICES ASSUME NEW M \in Levels, NEW i \in 1..Len(f.queues[M]),
                        IsOwn(f.queues[M][i])
                 PROVE  f.queues[M][i] \in DOMAIN f.orders
    OBVIOUS
  <2>2. PICK j \in 1..Len(e.queues[M]) : f.queues[M][i] = e.queues[M][j]
    BY <1>6
  <2> QED BY <1>4, <2>1, <2>2 DEF EngineInv, OwnQueued
<1>9. EngineInv(f)
  <2>1. f.nextId >= e.nextId /\ DOMAIN f.orders \subseteq DOMAIN e.orders
    BY <1>1, <1>4
  <2>2. \A y \in DOMAIN f.orders : f.orders[y].level = e.orders[y].level
    BY <1>4
  <2> QED BY <1>6, <1>7, <1>8, <2>1, <2>2, ShrinkFacts
<1>10. x \in Entries
  BY <1>1
<1> QED BY <1>3, <1>4, <1>9, <1>10, RestFacts

LEMMA CancelPublicFacts ==
  ASSUME NEW e, EngineInv(e), NEW ev \in MBOEvents
  PROVE  /\ EngineInv(CancelPublic(e, ev))
         /\ CancelPublic(e, ev).fills = e.fills
         /\ CancelPublic(e, ev).nextId = e.nextId
<1> DEFINE x == Public(ev.id)
           f == CancelPublic(e, ev)
<1>1. /\ DOMAIN e = Fields
      /\ e.book \in [Levels -> Nat] /\ e.queues \in [Levels -> Seq(Entries)]
      /\ e.orders \in [DOMAIN e.orders -> Orders] /\ DOMAIN e.orders \subseteq Entries
      /\ e.fills \in Seq(Fills) /\ e.nextId \in Nat /\ e.now \in Nat /\ e.position \in Int
  BY EngineFields DEF EngineInv
<1>2. x \in Entries /\ ~IsOwn(x) /\ ev.level \in Levels /\ ev.size \in Nat
  BY EntryFacts DEF MBOEvents
<1>3. CASE x \in DOMAIN e.orders
  <2>1. e.orders[x].size \in Nat
    BY <1>1, <1>3 DEF Orders
  <2>2. e.orders[x].size - Lesser(e.orders[x].size, ev.size) \in Nat
    <3>1. /\ Lesser(e.orders[x].size, ev.size) \in Nat
          /\ Lesser(e.orders[x].size, ev.size) <= e.orders[x].size
      BY <1>2, <2>1, LesserFacts
    <3> HIDE DEF x
    <3> QED BY <2>1, <3>1
  <2>3. f = Resize(e, x, e.orders[x].size - Lesser(e.orders[x].size, ev.size))
    BY <1>3 DEF CancelPublic
  <2> HIDE DEF x, f
  <2> QED BY <1>2, <1>3, <2>2, <2>3, ResizeFacts DEF f
<1>4. CASE x \notin DOMAIN e.orders
  <2>1. /\ f.book = RemoveFromBook(e.book, ev.level, ev.size)
        /\ f.orders = e.orders /\ f.queues = e.queues
        /\ f.fills = e.fills /\ f.nextId = e.nextId /\ f.now = e.now
        /\ f.position = e.position
        /\ DOMAIN f = Fields /\ f = [k \in DOMAIN f |-> f[k]]
    BY <1>1, <1>4 DEF CancelPublic, Fields
  <2> HIDE DEF x, f
  <2>2. f.book \in [Levels -> Nat]
    <3>1. RemoveFromBook(e.book, ev.level, ev.size) \in [Levels -> Nat]
      BY <1>1, <1>2, BookFacts
    <3> QED BY <2>1, <3>1
  <2>3. EngineOK(f)
    BY <1>1, <2>1, <2>2, EngineFields
  <2>4. OwnQueued(f) /\ OwnIdsGivenOut(f)
    BY <2>1 DEF EngineInv, OwnQueued, OwnIdsGivenOut, OwnOrders
  <2> QED BY <2>1, <2>3, <2>4 DEF f, EngineInv
<1> QED BY <1>3, <1>4

LEMMA ModifyPublicFacts ==
  ASSUME NEW e, EngineInv(e), NEW ev \in MBOEvents
  PROVE  /\ EngineInv(ModifyPublic(e, ev))
         /\ ModifyPublic(e, ev).fills = e.fills
         /\ ModifyPublic(e, ev).nextId = e.nextId
<1> DEFINE x == Public(ev.id)
<1>1. x \in Entries /\ ~IsOwn(x) /\ ev.level \in Levels /\ ev.size \in Nat \ {0}
  BY EntryFacts DEF MBOEvents
<1> HIDE DEF x
<1>2. CASE x \notin DOMAIN e.orders
  <2>1. ModifyPublic(e, ev) = Rest(e, x, ev.level, ev.size)
    BY <1>2 DEF ModifyPublic, x
  <2> QED BY <1>1, <2>1, RestFacts
<1>3. CASE x \in DOMAIN e.orders /\ e.orders[x].level = ev.level
  <2>1. ModifyPublic(e, ev) = Resize(e, x, ev.size)
    BY <1>3 DEF ModifyPublic, x
  <2> QED BY <1>1, <1>3, <2>1, ResizeFacts
<1>4. CASE x \in DOMAIN e.orders /\ e.orders[x].level # ev.level
  <2>1. ModifyPublic(e, ev) = MovePublic(e, x, ev.level, ev.size)
    BY <1>4 DEF ModifyPublic, x
  <2> QED BY <1>1, <1>4, <2>1, MovePublicFacts
<1> QED BY <1>2, <1>3, <1>4

(***************************************************************************)
(* Consuming a level.                                                      *)
(***************************************************************************)

(* The passive fills of an operation at time ts come after the old ones, and *)
(* are of orders with an id below next.                                    *)
FillsGrow(old, new, ts, next) ==
  /\ Len(old) <= Len(new)
  /\ \A i \in 1..Len(old) : new[i] = old[i]
  /\ \A i \in Len(old) + 1..Len(new) :
        new[i].ts = ts /\ new[i].id \in FirstOwnId..(next - 1)

Consumed(e, f, ts) ==
  /\ DOMAIN f.orders \subseteq DOMAIN e.orders
  /\ \A y \in DOMAIN f.orders : f.orders[y].level = e.orders[y].level
  /\ f.nextId = e.nextId /\ f.now = e.now
  /\ FillsGrow(e.fills, f.fills, ts, e.nextId)

LEMMA ConsumedTransitive ==
  ASSUME NEW e, NEW f, NEW g, NEW ts, e.fills \in Seq(Fills), f.fills \in Seq(Fills),
         g.fills \in Seq(Fills), Consumed(e, f, ts), Consumed(f, g, ts)
  PROVE  Consumed(e, g, ts)
<1>1. FillsGrow(e.fills, g.fills, ts, e.nextId)
  <2> DEFINE u == e.fills
             v == f.fills
             w == g.fills
  <2>1. Len(u) \in Nat /\ Len(v) \in Nat /\ Len(w) \in Nat
    OBVIOUS
  <2>2. FillsGrow(u, v, ts, e.nextId) /\ FillsGrow(v, w, ts, e.nextId)
    BY DEF Consumed
  <2> HIDE DEF u, v, w
  <2>3. Len(u) <= Len(w) /\ \A i \in 1..Len(u) : w[i] = u[i]
    BY <2>1, <2>2 DEF FillsGrow
  <2>4. ASSUME NEW i \in Len(u) + 1..Len(w)
        PROVE  w[i].ts = ts /\ w[i].id \in FirstOwnId..(e.nextId - 1)
    <3>1. CASE i \in 1..Len(v)
      BY <2>1, <2>2, <2>4, <3>1 DEF FillsGrow
    <3>2. CASE i \notin 1..Len(v)
      BY <2>1, <2>2, <2>4, <3>2 DEF FillsGrow
    <3> QED BY <3>1, <3>2
  <2>5. FillsGrow(u, w, ts, e.nextId)
    BY <2>3, <2>4 DEF FillsGrow
  <2> QED BY <2>5 DEF u, w
<1> QED BY <1>1 DEF Consumed

LEMMA FillFrontFacts ==
  ASSUME NEW e, EngineInv(e), NEW L \in Levels, NEW ts \in Nat, e.queues[L] # <<>>,
         NEW x, x = Head(e.queues[L]), x \in DOMAIN e.orders,
         NEW n \in Nat \ {0}, n <= e.orders[x].size
  PROVE  /\ EngineInv(FillFront(e, x, L, n, ts))
         /\ Consumed(e, FillFront(e, x, L, n, ts), ts)
<1> DEFINE f == FillFront(e, x, L, n, ts)
           left == e.orders[x].size - n
           fill == [id |-> x[2], side |-> OrderSideOf(L[1]), price |-> L[2],
                    size |-> n, ts |-> ts]
<1>1. /\ DOMAIN e = Fields
      /\ e.book \in [Levels -> Nat] /\ e.queues \in [Levels -> Seq(Entries)]
      /\ e.orders \in [DOMAIN e.orders -> Orders] /\ DOMAIN e.orders \subseteq Entries
      /\ e.fills \in Seq(Fills) /\ e.nextId \in Nat /\ e.now \in Nat /\ e.position \in Int
  BY EngineFields DEF EngineInv
<1>2. left \in Nat /\ x \in Entries
  BY <1>1 DEF Orders
<1>3. IsOwn(x) => fill \in Fills /\ Signed(fill.side, n) \in Int
  BY <1>2, EntryFacts, LevelFacts DEF Fills, OrderSideOf, OrderSides, BookSides, Signed
<1>4. /\ f.book = RemoveFromBook(e.book, L, n)
      /\ f.orders = SetSize(e.orders, x, left)
      /\ f.queues = IF left = 0 THEN PopFront(e.queues, L) ELSE e.queues
      /\ f.fills = IF IsOwn(x) THEN Append(e.fills, fill) ELSE e.fills
      /\ f.nextId = e.nextId /\ f.now = e.now
      /\ f.position = IF IsOwn(x) THEN e.position + Signed(fill.side, n) ELSE e.position
      /\ DOMAIN f = Fields /\ f = [k \in DOMAIN f |-> f[k]]
  BY <1>1 DEF FillFront, Fields
<1>5. fill.ts = ts /\ (IsOwn(x) => fill.id \in FirstOwnId..(e.nextId - 1))
  BY DEF EngineInv, OwnIdsGivenOut, OwnOrders
<1> HIDE DEF f, left, fill
<1>6. f.book \in [Levels -> Nat]
  <2>1. RemoveFromBook(e.book, L, n) \in [Levels -> Nat]
    BY <1>1, BookFacts
  <2> QED BY <1>4, <2>1
<1>7. /\ f.orders \in [DOMAIN f.orders -> Orders]
      /\ DOMAIN f.orders \subseteq DOMAIN e.orders
      /\ \A y \in DOMAIN e.orders : y \in DOMAIN f.orders <=> y # x \/ left # 0
      /\ \A y \in DOMAIN f.orders : f.orders[y].level = e.orders[y].level
  <2> DEFINE os == SetSize(e.orders, x, left)
  <2>0. e.orders \in [DOMAIN e.orders -> Orders]
    BY <1>1
  <2>1. /\ os \in [DOMAIN os -> Orders]
        /\ DOMAIN os \subseteq DOMAIN e.orders
        /\ \A y \in DOMAIN e.orders : y \in DOMAIN os <=> y # x \/ left # 0
        /\ \A y \in DOMAIN os : os[y].level = e.orders[y].level
    BY <1>2, <2>0, SetSizeFacts
  <2>2. f.orders = os
    BY <1>4
  <2> HIDE DEF os
  <2> QED BY <2>1, <2>2
<1>8. /\ f.fills \in Seq(Fills) /\ f.position \in Int
      /\ FillsGrow(e.fills, f.fills, ts, e.nextId)
  <2> DEFINE u == e.fills
             v == f.fills
  <2>1. CASE IsOwn(x)
    <3>1. v = Append(u, fill) /\ u \in Seq(Fills) /\ fill \in Fills
      BY <1>1, <1>3, <1>4, <2>1
    <3> HIDE DEF u, v
    <3>2. /\ v \in Seq(Fills) /\ Len(v) = Len(u) + 1 /\ Len(u) \in Nat
          /\ \A i \in 1..Len(u) : v[i] = u[i]
          /\ v[Len(u) + 1] = fill
      BY <3>1
    <3>3. FillsGrow(u, v, ts, e.nextId)
      BY <1>5, <2>1, <3>2 DEF FillsGrow
    <3>4. f.position \in Int
      BY <1>1, <1>3, <1>4, <2>1
    <3> QED BY <3>2, <3>3, <3>4 DEF u, v
  <2>2. CASE ~IsOwn(x)
    <3>1. v = u /\ Len(u) \in Nat /\ f.position = e.position
      BY <1>1, <1>4, <2>2
    <3>2. FillsGrow(u, v, ts, e.nextId)
      <4> HIDE DEF u, v
      <4> QED BY <3>1 DEF FillsGrow
    <3> QED BY <1>1, <3>1, <3>2
  <2> QED BY <2>1, <2>2
<1>9. /\ f.queues \in [Levels -> Seq(Entries)]
      /\ \A M \in Levels : \A y \in OwnOrders(f) :
            StandsOnce(e.queues[M], y) => StandsOnce(f.queues[M], y)
      /\ \A M \in Levels : \A i \in 1..Len(f.queues[M]) :
            \E j \in 1..Len(e.queues[M]) : f.queues[M][i] = e.queues[M][j]
      /\ left = 0 /\ StandsOnce(e.queues[L], x)
            => \A i \in 1..Len(f.queues[L]) : f.queues[L][i] # x
  <2>1. CASE left = 0
    <3> DEFINE old == e.queues
               new == PopFront(old, L)
    <3>1. /\ old \in [Levels -> Seq(Entries)] /\ f.queues = new /\ e.queues = old
          /\ old[L] # <<>> /\ Head(old[L]) = x
      BY <1>1, <1>4, <2>1
    <3>2. \A y \in OwnOrders(f) : y # x /\ y \in Entries
      BY <1>1, <1>7, <2>1 DEF OwnOrders
    <3> HIDE DEF old
    <3>3. new \in [Levels -> Seq(Entries)]
      BY <3>1, PopFrontFacts
    <3>4. \A M \in Levels : \A y \in Entries :
             y # Head(old[L]) /\ StandsOnce(old[M], y) => StandsOnce(new[M], y)
      BY <3>1, PopFrontFacts
    <3>5. \A M \in Levels : \A i \in 1..Len(new[M]) :
             \E j \in 1..Len(old[M]) : new[M][i] = old[M][j]
      BY <3>1, PopFrontFacts
    <3>6. \A M \in Levels : \A i \in 1..Len(new[M]) :
             M = L /\ StandsOnce(old[L], Head(old[L])) => new[M][i] # Head(old[L])
      BY <3>1, PopFrontFacts
    <3> HIDE DEF new
    <3> QED BY <3>1, <3>2, <3>3, <3>4, <3>5, <3>6, ZenonT(60)
  <2>2. CASE left # 0
    BY <1>1, <1>4, <2>2
  <2> QED BY <2>1, <2>2
<1>10. EngineOK(f)
  <2>1. DOMAIN f.orders \subseteq Entries
    BY <1>1, <1>7
  <2> QED BY <1>1, <1>4, <1>6, <1>7, <1>8, <1>9, <2>1, EngineFields
<1>11. \A M \in Levels : \A i \in 1..Len(f.queues[M]) :
          IsOwn(f.queues[M][i]) => f.queues[M][i] \in DOMAIN f.orders
  <2>1. SUFFICES ASSUME NEW M \in Levels, NEW i \in 1..Len(f.queues[M]),
                        IsOwn(f.queues[M][i])
                 PROVE  f.queues[M][i] \in DOMAIN f.orders
    OBVIOUS
  <2>2. PICK j \in 1..Len(e.queues[M]) : f.queues[M][i] = e.queues[M][j]
    BY <1>9
  <2>3. f.queues[M][i] \in DOMAIN e.orders /\ e.orders[f.queues[M][i]].level = M
    BY <2>1, <2>2 DEF EngineInv, OwnQueued
  <2>4. CASE f.queues[M][i] = x /\ left = 0
    <3>1. x \in OwnOrders(e) /\ e.orders[x].level = M
      BY <2>1, <2>3, <2>4 DEF OwnOrders
    <3>2. StandsOnce(e.queues[M], x)
      BY <3>1 DEF EngineInv, OwnQueued
    <3>3. M = L
      <4>1. e.queues[L] \in Seq(Entries)
        BY <1>1
      <4>2. 1 \in 1..Len(e.queues[L]) /\ e.queues[L][1] = x
        BY <4>1, TailFacts
      <4>3. e.orders[e.queues[L][1]].level = L
        BY <2>1, <2>4, <4>2 DEF EngineInv, OwnQueued
      <4> QED BY <3>1, <4>2, <4>3
    <3> QED BY <1>9, <2>4, <3>2, <3>3
  <2> QED BY <1>7, <2>3, <2>4
<1>12. EngineInv(f)
  <2>1. f.nextId >= e.nextId
    BY <1>1, <1>4
  <2> QED BY <1>7, <1>9, <1>10, <1>11, <2>1, ShrinkFacts
<1> QED BY <1>4, <1>7, <1>8, <1>12 DEF Consumed, f

(* A set that holds every loop state: LoopExists needs one.                *)
Engines == [book : [Levels -> Nat],
            orders : UNION {[D -> Orders] : D \in SUBSET Entries},
            queues : [Levels -> Seq(Entries)], fills : Seq(Fills),
            nextId : Nat, now : Nat, position : Int]

LEMMA EnginesFacts ==
  ASSUME NEW e, EngineOK(e)
  PROVE  e \in Engines
<1>1. /\ e \in [book : [Levels -> Nat], orders : {e.orders},
              queues : [Levels -> Seq(Entries)], fills : Seq(Fills),
              nextId : Nat, now : Nat, position : Int]
      /\ e.orders \in [DOMAIN e.orders -> Orders] /\ DOMAIN e.orders \in SUBSET Entries
  BY DEF EngineOK
<1>2. e.orders \in UNION {[D -> Orders] : D \in SUBSET Entries}
  BY <1>1
<1> QED BY <1>1, <1>2 DEF Engines

ConsumeStates == {s \in [e : Engines, rem : Nat] : EngineInv(s.e)}

LEMMA ConsumeStepFacts ==
  ASSUME NEW s \in ConsumeStates, NEW L \in Levels, NEW ts \in Nat
  PROVE  /\ ConsumeStep(s, L, ts) \in ConsumeStates
         /\ Consumed(s.e, ConsumeStep(s, L, ts).e, ts)
<1> DEFINE e == s.e
           t == ConsumeStep(s, L, ts)
           x == Head(e.queues[L])
<1>1. EngineInv(e) /\ EngineOK(e) /\ s.rem \in Nat
  BY DEF ConsumeStates, EngineInv
<1>2. /\ DOMAIN e = Fields
      /\ e.book \in [Levels -> Nat] /\ e.queues \in [Levels -> Seq(Entries)]
      /\ e.orders \in [DOMAIN e.orders -> Orders] /\ DOMAIN e.orders \subseteq Entries
      /\ e.fills \in Seq(Fills) /\ e.nextId \in Nat /\ e.now \in Nat /\ e.position \in Int
  BY <1>1, EngineFields
<1>3. Consumed(e, e, ts)
  <2> DEFINE u == e.fills
  <2>1. Len(u) \in Nat
    BY <1>2
  <2>2. FillsGrow(u, u, ts, e.nextId)
    <3> HIDE DEF u
    <3> QED BY <2>1 DEF FillsGrow
  <2> QED BY <2>2 DEF Consumed
<1>4. CASE s.rem = 0 \/ e.queues[L] = <<>>
  BY <1>3, <1>4 DEF ConsumeStep
<1>5. CASE s.rem # 0 /\ e.queues[L] # <<>> /\ x \notin DOMAIN e.orders
  <2> DEFINE f == [e EXCEPT !.queues = PopFront(@, L)]
  <2>1. t = [e |-> f, rem |-> s.rem]
    BY <1>5 DEF ConsumeStep
  <2>2. /\ f.queues = PopFront(e.queues, L)
        /\ f.book = e.book /\ f.orders = e.orders /\ f.fills = e.fills
        /\ f.nextId = e.nextId /\ f.now = e.now /\ f.position = e.position
        /\ DOMAIN f = Fields /\ f = [k \in DOMAIN f |-> f[k]]
    BY <1>2 DEF Fields
  <2> HIDE DEF f
  <2>3. /\ f.queues \in [Levels -> Seq(Entries)]
        /\ \A M \in Levels : \A y \in OwnOrders(f) :
              StandsOnce(e.queues[M], y) => StandsOnce(f.queues[M], y)
        /\ \A M \in Levels : \A i \in 1..Len(f.queues[M]) :
              \E j \in 1..Len(e.queues[M]) : f.queues[M][i] = e.queues[M][j]
    <3> DEFINE old == e.queues
               new == PopFront(old, L)
    <3>1. /\ old \in [Levels -> Seq(Entries)] /\ f.queues = new /\ e.queues = old
          /\ old[L] # <<>> /\ Head(old[L]) = x
      BY <1>2, <1>5, <2>2
    <3>2. \A y \in OwnOrders(f) : y # x /\ y \in Entries
      BY <1>2, <1>5, <2>2 DEF OwnOrders
    <3> HIDE DEF old
    <3>3. new \in [Levels -> Seq(Entries)]
      BY <3>1, PopFrontFacts
    <3>4. \A M \in Levels : \A y \in Entries :
             y # Head(old[L]) /\ StandsOnce(old[M], y) => StandsOnce(new[M], y)
      BY <3>1, PopFrontFacts
    <3>5. \A M \in Levels : \A i \in 1..Len(new[M]) :
             \E j \in 1..Len(old[M]) : new[M][i] = old[M][j]
      BY <3>1, PopFrontFacts
    <3> HIDE DEF new
    <3> QED BY <3>1, <3>2, <3>3, <3>4, <3>5
  <2>4. EngineOK(f)
    BY <1>2, <2>2, <2>3, EngineFields
  <2>5. \A M \in Levels : \A i \in 1..Len(f.queues[M]) :
           IsOwn(f.queues[M][i]) => f.queues[M][i] \in DOMAIN f.orders
    <3>1. SUFFICES ASSUME NEW M \in Levels, NEW i \in 1..Len(f.queues[M]),
                          IsOwn(f.queues[M][i])
                   PROVE  f.queues[M][i] \in DOMAIN f.orders
      OBVIOUS
    <3>2. PICK j \in 1..Len(e.queues[M]) : f.queues[M][i] = e.queues[M][j]
      BY <2>3
    <3> QED BY <1>1, <2>2, <3>1, <3>2 DEF EngineInv, OwnQueued
  <2>6. EngineInv(f)
    <3>1. f.nextId >= e.nextId /\ DOMAIN f.orders \subseteq DOMAIN e.orders
      BY <1>2, <2>2
    <3>2. \A y \in DOMAIN f.orders : f.orders[y].level = e.orders[y].level
      BY <2>2
    <3>3. EngineInv(e)
      BY <1>1
    <3> HIDE DEF e
    <3> QED BY <2>3, <2>4, <2>5, <3>1, <3>2, <3>3, ShrinkFacts
  <2>7. Consumed(e, f, ts)
    BY <1>3, <2>2 DEF Consumed
  <2> QED BY <1>1, <2>1, <2>4, <2>6, <2>7, EnginesFacts DEF ConsumeStates
<1>6. CASE s.rem # 0 /\ e.queues[L] # <<>> /\ x \in DOMAIN e.orders
  <2> DEFINE n == Lesser(e.orders[x].size, s.rem)
             f == FillFront(e, x, L, n, ts)
  <2>1. t = [e |-> f, rem |-> s.rem - n]
    BY <1>6 DEF ConsumeStep
  <2>2. e.orders[x].size \in Nat \ {0} /\ s.rem \in Nat \ {0}
    BY <1>1, <1>2, <1>6 DEF Orders
  <2>3. n \in Nat \ {0} /\ n <= e.orders[x].size /\ s.rem - n \in Nat
    <3> DEFINE a == e.orders[x].size
               b == s.rem
    <3>1. a \in Nat \ {0} /\ b \in Nat \ {0} /\ n = Lesser(a, b)
      BY <2>2
    <3> HIDE DEF a, b, n
    <3>2. n \in Nat /\ n <= a /\ n <= b /\ n > 0
      BY <3>1 DEF Lesser
    <3>3. b - n \in Nat
      BY <3>1, <3>2
    <3> QED BY <3>2, <3>3 DEF a, b
  <2> HIDE DEF n
  <2>4. EngineInv(f) /\ Consumed(e, f, ts)
    BY <1>1, <1>6, <2>3, FillFrontFacts
  <2> HIDE DEF f
  <2>5. f \in Engines
    BY <2>4, EnginesFacts DEF EngineInv
  <2> QED BY <2>1, <2>3, <2>4, <2>5 DEF ConsumeStates
<1> QED BY <1>4, <1>5, <1>6

(* The loop turn by turn.                                                 *)
LEMMA ConsumeLoopTurns ==
  ASSUME NEW G, NEW s \in G, NEW L, NEW ts,
         \A t \in G : ConsumeStep(t, L, ts) \in G
  PROVE  /\ ConsumeLoop(s, L, ts)[0] = s
         /\ \A n \in Nat : /\ ConsumeLoop(s, L, ts)[n] \in G
                          /\ ConsumeLoop(s, L, ts)[n + 1]
                               = ConsumeStep(ConsumeLoop(s, L, ts)[n], L, ts)
<1> DEFINE step == [p \in G \X Nat |-> ConsumeStep(p[1], L, ts)]
<1>1. step \in [G \X Nat -> G]
  OBVIOUS
<1>2. PICK g : IsLoop(g, G, s, step)
  <2> HIDE DEF step
  <2> QED BY <1>1, LoopExists, Zenon
<1>3. \A n \in Nat : g[n + 1] = ConsumeStep(g[n], L, ts) /\ g[n] \in G
  <2>1. ASSUME NEW n \in Nat
        PROVE  g[n + 1] = ConsumeStep(g[n], L, ts) /\ g[n] \in G
    <3>1. g[n] \in G /\ <<g[n], n + 1>> \in G \X Nat
      BY <1>2 DEF IsLoop
    <3> QED BY <1>2, <3>1 DEF IsLoop
  <2> QED BY <2>1
<1> DEFINE f == CHOOSE h : h = [n \in Nat |-> IF n = 0 THEN s
                                              ELSE ConsumeStep(h[n - 1], L, ts)]
<1>4. g = [n \in Nat |-> IF n = 0 THEN s ELSE ConsumeStep(g[n - 1], L, ts)]
  <2>1. ASSUME NEW n \in Nat
        PROVE  g[n] = IF n = 0 THEN s ELSE ConsumeStep(g[n - 1], L, ts)
    <3>1. CASE n = 0
      BY <1>2, <3>1 DEF IsLoop
    <3>2. CASE n # 0
      <4>1. n - 1 \in Nat /\ (n - 1) + 1 = n
        BY <3>2
      <4>2. g[(n - 1) + 1] = ConsumeStep(g[n - 1], L, ts)
        BY <1>3, <4>1
      <4> QED BY <4>1, <4>2, <3>2
    <3> QED BY <3>1, <3>2
  <2> QED BY <2>1, <1>2 DEF IsLoop
<1>5. f = [n \in Nat |-> IF n = 0 THEN s ELSE ConsumeStep(f[n - 1], L, ts)]
  BY <1>4
<1>6. ConsumeLoop(s, L, ts) = f
  BY DEF ConsumeLoop
<1> HIDE DEF f
<1>7. f[0] = s
  BY <1>5
<1>8. ASSUME NEW n \in Nat
      PROVE  f[n + 1] = ConsumeStep(f[n], L, ts)
  <2>1. n + 1 \in Nat /\ n + 1 # 0 /\ (n + 1) - 1 = n
    OBVIOUS
  <2> QED BY <1>5, <2>1
<1> DEFINE S == {n \in Nat : f[n] \in G}
<1>9. S = Nat
  <2>1. ASSUME NEW n \in S PROVE n + 1 \in S
    BY <1>8, <2>1
  <2>2. S \in SUBSET Nat /\ 0 \in S
    BY <1>7
  <2> HIDE DEF S
  <2> QED BY <2>1, <2>2, SetInduction
<1>10. \A n \in Nat : f[n] \in G
  BY <1>9
<1> QED BY <1>6, <1>7, <1>8, <1>10

(* What a turn of the loop preserves holds after any number of turns.       *)
LEMMA ConsumeLoopInduction ==
  ASSUME NEW G, NEW s \in G, NEW L, NEW ts,
         \A t \in G : ConsumeStep(t, L, ts) \in G, NEW k \in Nat
  PROVE  ConsumeLoop(s, L, ts)[k] \in G
BY ConsumeLoopTurns

LEMMA ConsumedReflexive ==
  ASSUME NEW e, e.fills \in Seq(Fills), NEW ts
  PROVE  Consumed(e, e, ts)
<1> DEFINE u == e.fills
<1>1. Len(u) \in Nat
  OBVIOUS
<1>2. FillsGrow(u, u, ts, e.nextId)
  <2> HIDE DEF u
  <2> QED BY <1>1 DEF FillsGrow
<1> QED BY <1>2 DEF Consumed

LEMMA ConsumeLoopFacts ==
  ASSUME NEW s \in ConsumeStates, NEW L \in Levels, NEW ts \in Nat, NEW k \in Nat
  PROVE  /\ ConsumeLoop(s, L, ts)[k] \in ConsumeStates
         /\ Consumed(s.e, ConsumeLoop(s, L, ts)[k].e, ts)
<1> DEFINE G == {t \in ConsumeStates : Consumed(s.e, t.e, ts)}
<1>1. \A t \in ConsumeStates : t.e.fills \in Seq(Fills)
  BY EngineFields DEF ConsumeStates, EngineInv
<1>2. s \in G
  BY <1>1, ConsumedReflexive
<1>3. ASSUME NEW t \in G PROVE ConsumeStep(t, L, ts) \in G
  <2> DEFINE u == ConsumeStep(t, L, ts)
  <2>1. u \in ConsumeStates /\ Consumed(t.e, u.e, ts)
    BY ConsumeStepFacts
  <2> HIDE DEF u
  <2>2. Consumed(s.e, u.e, ts)
    BY <1>1, <2>1, ConsumedTransitive
  <2> QED BY <2>1, <2>2 DEF u
<1> HIDE DEF G
<1>4. ConsumeLoop(s, L, ts)[k] \in G
  BY <1>2, <1>3, ConsumeLoopInduction
<1> QED BY <1>4 DEF G

LEMMA ConsumeLevelFacts ==
  ASSUME NEW e, EngineInv(e), NEW L \in Levels, NEW n \in Nat, NEW ts \in Nat
  PROVE  /\ EngineInv(ConsumeLevel(e, L, n, ts))
         /\ Consumed(e, ConsumeLevel(e, L, n, ts), ts)
<1> DEFINE s == [e |-> e, rem |-> n]
           k == Len(e.queues[L])
<1>1. s \in ConsumeStates
  BY EnginesFacts DEF ConsumeStates, EngineInv
<1>2. k \in Nat
  <2>1. e.queues[L] \in Seq(Entries)
    BY EngineFields DEF EngineInv
  <2> QED BY <2>1
<1>3. s.e = e /\ ConsumeLevel(e, L, n, ts) = ConsumeLoop(s, L, ts)[k].e
  BY DEF ConsumeLevel
<1> HIDE DEF s, k
<1>4. /\ ConsumeLoop(s, L, ts)[k] \in ConsumeStates
      /\ Consumed(s.e, ConsumeLoop(s, L, ts)[k].e, ts)
  BY <1>1, <1>2, ConsumeLoopFacts
<1> QED BY <1>3, <1>4 DEF ConsumeStates

(* apply_event.                                                            *)
LEMMA ApplyEventFacts ==
  ASSUME NEW e, EngineInv(e), NEW ev \in MBOEvents
  PROVE  /\ EngineInv(ApplyEvent(e, ev))
         /\ ApplyEvent(e, ev).nextId = e.nextId
         /\ FillsGrow(e.fills, ApplyEvent(e, ev).fills, ev.ts, e.nextId)
<1> DEFINE now == [e EXCEPT !.now = ev.ts]
           f == ApplyEvent(e, ev)
<1>1. /\ DOMAIN e = Fields
      /\ e.book \in [Levels -> Nat] /\ e.queues \in [Levels -> Seq(Entries)]
      /\ e.orders \in [DOMAIN e.orders -> Orders] /\ DOMAIN e.orders \subseteq Entries
      /\ e.fills \in Seq(Fills) /\ e.nextId \in Nat /\ e.now \in Nat /\ e.position \in Int
  BY EngineFields DEF EngineInv
<1>2. /\ ev.ts \in Nat /\ ev.level \in Levels /\ ev.size \in Nat \ {0} /\ ev.size \in Nat
      /\ ev.action \in {"add", "cancel", "modify", "trade"} /\ ev.id \in PublicIds
  BY DEF MBOEvents
<1>3. /\ now.book = e.book /\ now.orders = e.orders /\ now.queues = e.queues
      /\ now.fills = e.fills /\ now.nextId = e.nextId /\ now.now = ev.ts
      /\ now.position = e.position
      /\ DOMAIN now = Fields /\ now = [k \in DOMAIN now |-> now[k]]
  BY <1>1 DEF Fields
<1> HIDE DEF now
<1>4. EngineInv(now)
  <2>1. EngineOK(now)
    BY <1>1, <1>2, <1>3, EngineFields
  <2>2. OwnQueued(now) /\ OwnIdsGivenOut(now)
    BY <1>3 DEF EngineInv, OwnQueued, OwnIdsGivenOut, OwnOrders
  <2> QED BY <2>1, <2>2 DEF EngineInv
<1>5. EngineInv(f) /\ f.nextId = now.nextId /\ (f.fills = now.fills \/ FillsGrow(now.fills, f.fills, ev.ts, e.nextId))
  <2>1. CASE ev.action = "add"
    <3>1. f = Rest(now, Public(ev.id), ev.level, ev.size)
      BY <2>1 DEF ApplyEvent, now
    <3>2. Public(ev.id) \in Entries /\ ~IsOwn(Public(ev.id))
      BY <1>2, EntryFacts
    <3> HIDE DEF f
    <3> QED BY <1>2, <1>4, <3>1, <3>2, RestFacts
  <2>2. CASE ev.action = "cancel"
    <3>1. f = CancelPublic(now, ev)
      BY <2>2 DEF ApplyEvent, now
    <3> HIDE DEF f
    <3> QED BY <1>4, <3>1, CancelPublicFacts
  <2>3. CASE ev.action = "modify"
    <3>1. f = ModifyPublic(now, ev)
      BY <2>3 DEF ApplyEvent, now
    <3> HIDE DEF f
    <3> QED BY <1>4, <3>1, ModifyPublicFacts
  <2>4. CASE ev.action = "trade"
    <3>1. f = ConsumeLevel(now, ev.level, ev.size, ev.ts)
      BY <2>4 DEF ApplyEvent, now
    <3> HIDE DEF f
    <3> QED BY <1>2, <1>3, <1>4, <3>1, ConsumeLevelFacts DEF Consumed
  <2> QED BY <1>2, <2>1, <2>2, <2>3, <2>4
<1>6. FillsGrow(e.fills, e.fills, ev.ts, e.nextId)
  <2> DEFINE u == e.fills
  <2>1. Len(u) \in Nat
    BY <1>1
  <2>2. FillsGrow(u, u, ev.ts, e.nextId)
    <3> HIDE DEF u
    <3> QED BY <2>1 DEF FillsGrow
  <2> QED BY <2>2
<1> HIDE DEF f
<1>7. FillsGrow(e.fills, f.fills, ev.ts, e.nextId)
  BY <1>3, <1>5, <1>6
<1> QED BY <1>3, <1>5, <1>7 DEF f

(***************************************************************************)
(* Strategy orders.                                                        *)
(***************************************************************************)

LEMMA ExtremesExist ==
  ASSUME NEW S \in SUBSET Prices, S # {}
  PROVE  (\E x \in S : \A y \in S : x >= y) /\ (\E x \in S : \A y \in S : x <= y)
<1> DEFINE Bounded(T) == /\ \E x \in T : \A y \in T : x >= y
                         /\ \E x \in T : \A y \in T : x <= y
           K == {n \in Nat : \A T \in SUBSET Prices : Cardinality(T) = n + 1 => Bounded(T)}
<1>1. \A T \in SUBSET Prices : IsFiniteSet(T) /\ Cardinality(T) \in Nat /\ T \subseteq Nat
  BY PricesAssumption, FS_Subset, FS_CardinalityType
<1>2. \A T \in SUBSET Prices : \A x \in T : /\ T \ {x} \in SUBSET Prices
                                            /\ Cardinality(T \ {x}) + 1 = Cardinality(T)
  <2>1. ASSUME NEW T \in SUBSET Prices, NEW x \in T
        PROVE  T \ {x} \in SUBSET Prices /\ Cardinality(T \ {x}) + 1 = Cardinality(T)
    <3>1. IsFiniteSet(T) /\ Cardinality(T) \in Nat
      BY <1>1
    <3>2. Cardinality(T \ {x}) = Cardinality(T) - 1
      BY <3>1, FS_RemoveElement
    <3>3. T \ {x} \in SUBSET Prices
      OBVIOUS
    <3> QED BY <3>1, <3>2, <3>3
  <2> QED BY <2>1
<1>3. \A T \in SUBSET Prices : Cardinality(T) = 0 <=> T = {}
  BY <1>1, FS_EmptySet
<1>4. 0 \in K
  <2>1. ASSUME NEW T \in SUBSET Prices, Cardinality(T) = 0 + 1
        PROVE  Bounded(T)
    <3>1. PICK x \in T : TRUE
      BY <1>3, <2>1
    <3>2. Cardinality(T \ {x}) + 1 = 1 /\ Cardinality(T \ {x}) \in Nat
          /\ T \ {x} \in SUBSET Prices
      BY <1>1, <1>2, <2>1
    <3>3. T \ {x} = {}
      BY <1>3, <3>2
    <3>4. x \in Nat /\ \A y \in T : y = x
      BY <1>1, <3>3
    <3> QED BY <3>4
  <2> HIDE DEF Bounded
  <2> QED BY <2>1
<1>5. ASSUME NEW n \in K PROVE n + 1 \in K
  <2>1. ASSUME NEW T \in SUBSET Prices, Cardinality(T) = (n + 1) + 1
        PROVE  Bounded(T)
    <3>0. n \in Nat
      OBVIOUS
    <3>1. PICK z \in T : TRUE
      BY <1>3, <2>1, <3>0
    <3>2. /\ Cardinality(T \ {z}) + 1 = (n + 1) + 1 /\ Cardinality(T \ {z}) \in Nat
          /\ T \ {z} \in SUBSET Prices
      BY <1>1, <1>2, <2>1
    <3>3. Cardinality(T \ {z}) = n + 1
      BY <3>0, <3>2
    <3>4. Bounded(T \ {z})
      <4> HIDE DEF Bounded
      <4> QED BY <3>2, <3>3
    <3>5. T \subseteq Nat
      BY <1>1
    <3>6. \E x \in T : \A y \in T : x >= y
      <4>1. PICK x \in T \ {z} : \A y \in T \ {z} : x >= y
        BY <3>4
      <4> QED BY <3>5, <4>1
    <3>7. \E x \in T : \A y \in T : x <= y
      <4>1. PICK x \in T \ {z} : \A y \in T \ {z} : x <= y
        BY <3>4
      <4> QED BY <3>5, <4>1
    <3> QED BY <3>6, <3>7
  <2> HIDE DEF Bounded
  <2> QED BY <2>1
<1>6. K = Nat
  <2>1. K \in SUBSET Nat
    OBVIOUS
  <2> HIDE DEF K
  <2> QED BY <1>4, <1>5, <2>1, SetInduction
<1>7. Bounded(S)
  <2>1. Cardinality(S) \in Nat /\ Cardinality(S) # 0
    BY <1>1, <1>3
  <2>2. Cardinality(S) - 1 \in Nat /\ Cardinality(S) = (Cardinality(S) - 1) + 1
    BY <2>1
  <2>3. Cardinality(S) - 1 \in K
    <3> HIDE DEF K
    <3> QED BY <1>6, <2>2
  <2> HIDE DEF Bounded
  <2> QED BY <2>2, <2>3
<1> QED BY <1>7

LEMMA BestFacts ==
  ASSUME NEW S \in SUBSET Prices, S # {}, NEW bookSide
  PROVE  Best(bookSide, S) \in S
BY ExtremesExist DEF Best, Max, Min

LEMMA BestIsBest ==
  ASSUME NEW S \in SUBSET Prices, S # {}, NEW bookSide, NEW y \in S
  PROVE  IF bookSide = "bid" THEN y <= Best(bookSide, S) ELSE Best(bookSide, S) <= y
<1>1. S \subseteq Nat
  BY PricesAssumption
<1>2. CASE bookSide = "bid"
  <2> DEFINE P(x) == x \in S /\ \A z \in S : x >= z
  <2>1. P(CHOOSE x : P(x))
    <3>1. \E x : P(x)
      BY ExtremesExist
    <3> HIDE DEF P
    <3> QED BY <3>1
  <2>2. Max(S) = CHOOSE x : P(x)
    BY Zenon DEF Max
  <2>3. P(Max(S))
    <3> HIDE DEF P
    <3> QED BY <2>1, <2>2
  <2> QED BY <1>1, <1>2, <2>3 DEF Best
<1>3. CASE bookSide # "bid"
  <2>1. \A z \in S : Min(S) <= z
    BY <1>1, MinFacts
  <2> QED BY <1>3, <2>1 DEF Best
<1> QED BY <1>2, <1>3

ActiveFills == [id : Nat, side : OrderSides, price : Prices, size : Nat, ts : Nat]

(* The fills of an active order are under its id, at the engine's time.    *)
Told(fills, id, ts) ==
  \A i \in 1..Len(fills) : fills[i].id = id /\ fills[i].ts = ts

MatchStates == {m \in [e : Engines, rem : Nat, todo : SUBSET Prices, fills : Seq(ActiveFills)] :
                   EngineInv(m.e)}

LEMMA MatchStepFacts ==
  ASSUME NEW m \in MatchStates, NEW id \in Nat, NEW side \in OrderSides
  PROVE  /\ MatchStep(m, id, side) \in MatchStates
         /\ Consumed(m.e, MatchStep(m, id, side).e, m.e.now)
         /\ Told(m.fills, id, m.e.now) => Told(MatchStep(m, id, side).fills, id, m.e.now)
<1> DEFINE e == m.e
           t == MatchStep(m, id, side)
           opposite == OppositeBookSide(side)
           p == Best(opposite, m.todo)
           L == <<opposite, p>>
           n == Lesser(m.rem, e.book[L])
           hit == ConsumeLevel(e, L, n, e.now)
           f == [hit EXCEPT !.position = @ + Signed(side, n)]
           fill == [id |-> id, side |-> side, price |-> p, size |-> n, ts |-> e.now]
<1>1. EngineInv(e) /\ m.rem \in Nat /\ m.todo \in SUBSET Prices /\ m.fills \in Seq(ActiveFills)
  BY DEF MatchStates
<1>2. e.book \in [Levels -> Nat] /\ e.now \in Nat /\ e.fills \in Seq(Fills)
  BY <1>1, EngineFields DEF EngineInv
<1>3. CASE m.rem = 0 \/ m.todo = {}
  <2>1. t = m
    BY <1>3 DEF MatchStep
  <2>2. FillsGrow(e.fills, e.fills, e.now, e.nextId)
    <3> DEFINE u == e.fills
    <3>1. Len(u) \in Nat
      BY <1>2
    <3>2. FillsGrow(u, u, e.now, e.nextId)
      <4> HIDE DEF u
      <4> QED BY <3>1 DEF FillsGrow
    <3> QED BY <3>2
  <2> QED BY <2>1, <2>2 DEF Consumed
<1>4. CASE ~(m.rem = 0 \/ m.todo = {})
  <2>1. t = [e |-> f, rem |-> m.rem - n, todo |-> m.todo \ {p},
             fills |-> Append(m.fills, fill)]
    BY <1>4 DEF MatchStep
  <2>2. p \in m.todo
    BY <1>1, <1>4, BestFacts
  <2>3. L \in Levels
    BY <1>1, <2>2 DEF Levels, BookSides, OppositeBookSide
  <2>4. n \in Nat /\ m.rem - n \in Nat
    <3> DEFINE b == e.book[L]
    <3>1. b \in Nat
      BY <1>2, <2>3
    <3> HIDE DEF b
    <3>2. Lesser(m.rem, b) \in Nat /\ Lesser(m.rem, b) <= m.rem
      BY <1>1, <3>1, LesserFacts
    <3> QED BY <1>1, <3>2 DEF b
  <2>5. fill \in ActiveFills
    <3> HIDE DEF n, p
    <3> QED BY <1>1, <1>2, <2>2, <2>4 DEF ActiveFills
  <2> HIDE DEF n, L, e
  <2>6. EngineInv(hit) /\ Consumed(e, hit, e.now)
    BY <1>1, <1>2, <2>3, <2>4, ConsumeLevelFacts
  <2> HIDE DEF hit
  <2>7. /\ DOMAIN hit = Fields
        /\ hit.book \in [Levels -> Nat] /\ hit.queues \in [Levels -> Seq(Entries)]
        /\ hit.orders \in [DOMAIN hit.orders -> Orders] /\ DOMAIN hit.orders \subseteq Entries
        /\ hit.fills \in Seq(Fills) /\ hit.nextId \in Nat /\ hit.now \in Nat
        /\ hit.position \in Int
    BY <2>6, EngineFields DEF EngineInv
  <2>8. Signed(side, n) \in Int
    BY <2>4 DEF Signed
  <2>9. /\ f.book = hit.book /\ f.orders = hit.orders /\ f.queues = hit.queues
        /\ f.fills = hit.fills /\ f.nextId = hit.nextId /\ f.now = hit.now
        /\ f.position = hit.position + Signed(side, n)
        /\ DOMAIN f = Fields /\ f = [k \in DOMAIN f |-> f[k]]
    BY <2>7 DEF Fields
  <2> HIDE DEF f
  <2>10. f.position \in Int
    BY <2>7, <2>8, <2>9
  <2>11. EngineOK(f)
    BY <2>7, <2>9, <2>10, EngineFields
  <2>12. EngineInv(f)
    BY <2>6, <2>9, <2>11 DEF EngineInv, OwnQueued, OwnIdsGivenOut, OwnOrders
  <2>13. Consumed(e, f, e.now)
    BY <2>6, <2>9 DEF Consumed
  <2>14. t.e = f
    BY <2>1
  <2>15. t \in MatchStates
    <3> HIDE DEF p, fill, t
    <3>1. f \in Engines /\ Append(m.fills, fill) \in Seq(ActiveFills)
          /\ m.todo \ {p} \in SUBSET Prices
      BY <1>1, <2>5, <2>11, EnginesFacts
    <3> QED BY <2>1, <2>4, <2>12, <3>1 DEF MatchStates
  <2>16. Told(m.fills, id, e.now) => Told(t.fills, id, e.now)
    <3>1. t.fills = Append(m.fills, fill) /\ fill.id = id /\ fill.ts = e.now
      BY <2>1
    <3> HIDE DEF t, fill
    <3> QED BY <1>1, <2>5, <3>1 DEF Told
  <2> QED BY <2>13, <2>14, <2>15, <2>16 DEF e
<1> QED BY <1>3, <1>4

(* The loop turn by turn.                                                 *)
LEMMA MatchLoopTurns ==
  ASSUME NEW G, NEW m \in G, NEW id, NEW side,
         \A t \in G : MatchStep(t, id, side) \in G
  PROVE  /\ MatchLoop(m, id, side)[0] = m
         /\ \A n \in Nat : /\ MatchLoop(m, id, side)[n] \in G
                          /\ MatchLoop(m, id, side)[n + 1]
                               = MatchStep(MatchLoop(m, id, side)[n], id, side)
<1> DEFINE step == [p \in G \X Nat |-> MatchStep(p[1], id, side)]
<1>1. step \in [G \X Nat -> G]
  OBVIOUS
<1>2. PICK g : IsLoop(g, G, m, step)
  <2> HIDE DEF step
  <2> QED BY <1>1, LoopExists, Zenon
<1>3. \A n \in Nat : g[n + 1] = MatchStep(g[n], id, side) /\ g[n] \in G
  <2>1. ASSUME NEW n \in Nat
        PROVE  g[n + 1] = MatchStep(g[n], id, side) /\ g[n] \in G
    <3>1. g[n] \in G /\ <<g[n], n + 1>> \in G \X Nat
      BY <1>2 DEF IsLoop
    <3> QED BY <1>2, <3>1 DEF IsLoop
  <2> QED BY <2>1
<1> DEFINE f == CHOOSE h : h = [n \in Nat |-> IF n = 0 THEN m
                                              ELSE MatchStep(h[n - 1], id, side)]
<1>4. g = [n \in Nat |-> IF n = 0 THEN m ELSE MatchStep(g[n - 1], id, side)]
  <2>1. ASSUME NEW n \in Nat
        PROVE  g[n] = IF n = 0 THEN m ELSE MatchStep(g[n - 1], id, side)
    <3>1. CASE n = 0
      BY <1>2, <3>1 DEF IsLoop
    <3>2. CASE n # 0
      <4>1. n - 1 \in Nat /\ (n - 1) + 1 = n
        BY <3>2
      <4>2. g[(n - 1) + 1] = MatchStep(g[n - 1], id, side)
        BY <1>3, <4>1
      <4> QED BY <4>1, <4>2, <3>2
    <3> QED BY <3>1, <3>2
  <2> QED BY <2>1, <1>2 DEF IsLoop
<1>5. f = [n \in Nat |-> IF n = 0 THEN m ELSE MatchStep(f[n - 1], id, side)]
  BY <1>4
<1>6. MatchLoop(m, id, side) = f
  BY DEF MatchLoop
<1> HIDE DEF f
<1>7. f[0] = m
  BY <1>5
<1>8. ASSUME NEW n \in Nat
      PROVE  f[n + 1] = MatchStep(f[n], id, side)
  <2>1. n + 1 \in Nat /\ n + 1 # 0 /\ (n + 1) - 1 = n
    OBVIOUS
  <2> QED BY <1>5, <2>1
<1> DEFINE S == {n \in Nat : f[n] \in G}
<1>9. S = Nat
  <2>1. ASSUME NEW n \in S PROVE n + 1 \in S
    BY <1>8, <2>1
  <2>2. S \in SUBSET Nat /\ 0 \in S
    BY <1>7
  <2> HIDE DEF S
  <2> QED BY <2>1, <2>2, SetInduction
<1>10. \A n \in Nat : f[n] \in G
  BY <1>9
<1> QED BY <1>6, <1>7, <1>8, <1>10

(* What a turn of the loop preserves holds after any number of turns.       *)
LEMMA MatchLoopInduction ==
  ASSUME NEW G, NEW m \in G, NEW id, NEW side,
         \A t \in G : MatchStep(t, id, side) \in G, NEW k \in Nat
  PROVE  MatchLoop(m, id, side)[k] \in G
BY MatchLoopTurns

LEMMA MatchLoopFacts ==
  ASSUME NEW m \in MatchStates, NEW id \in Nat, NEW side \in OrderSides, NEW k \in Nat
  PROVE  /\ MatchLoop(m, id, side)[k] \in MatchStates
         /\ Consumed(m.e, MatchLoop(m, id, side)[k].e, m.e.now)
         /\ Told(m.fills, id, m.e.now) => Told(MatchLoop(m, id, side)[k].fills, id, m.e.now)
<1> DEFINE ts == m.e.now
           G == {t \in MatchStates :
                    /\ Consumed(m.e, t.e, ts)
                    /\ Told(m.fills, id, ts) => Told(t.fills, id, ts)}
<1>1. \A t \in MatchStates : t.e.fills \in Seq(Fills)
  BY EngineFields DEF MatchStates, EngineInv
<1>2. m \in G
  BY <1>1, ConsumedReflexive
<1>3. ASSUME NEW t \in G PROVE MatchStep(t, id, side) \in G
  <2> DEFINE u == MatchStep(t, id, side)
  <2>1. t \in MatchStates /\ Consumed(m.e, t.e, ts) /\ t.e.now = ts
    BY DEF Consumed
  <2>2. /\ u \in MatchStates /\ Consumed(t.e, u.e, ts)
        /\ Told(t.fills, id, ts) => Told(u.fills, id, ts)
    BY <2>1, MatchStepFacts
  <2> HIDE DEF u, ts
  <2>3. Consumed(m.e, u.e, ts)
    BY <1>1, <2>1, <2>2, ConsumedTransitive
  <2> QED BY <2>2, <2>3 DEF u
<1> HIDE DEF G
<1>4. MatchLoop(m, id, side)[k] \in G
  BY <1>2, <1>3, MatchLoopInduction
<1> QED BY <1>4 DEF G

(* _allocate_order_id: one id more is given out, nothing else changes.     *)
LEMMA NextIdFacts ==
  ASSUME NEW e, EngineInv(e), NEW given, given = [e EXCEPT !.nextId = @ + 1]
  PROVE  /\ EngineInv(given)
         /\ given.book = e.book /\ given.orders = e.orders /\ given.queues = e.queues
         /\ given.fills = e.fills /\ given.nextId = e.nextId + 1 /\ given.now = e.now
         /\ given.position = e.position
<1>1. /\ DOMAIN e = Fields
      /\ e.book \in [Levels -> Nat] /\ e.queues \in [Levels -> Seq(Entries)]
      /\ e.orders \in [DOMAIN e.orders -> Orders] /\ DOMAIN e.orders \subseteq Entries
      /\ e.fills \in Seq(Fills) /\ e.nextId \in Nat /\ e.now \in Nat /\ e.position \in Int
      /\ OwnQueued(e) /\ OwnIdsGivenOut(e)
  BY EngineFields DEF EngineInv
<1>2. /\ given.book = e.book /\ given.orders = e.orders /\ given.queues = e.queues
      /\ given.fills = e.fills /\ given.nextId = e.nextId + 1 /\ given.now = e.now
      /\ given.position = e.position
      /\ DOMAIN given = Fields /\ given = [k \in DOMAIN given |-> given[k]]
  BY <1>1 DEF Fields
<1>3. EngineOK(given)
  <2>1. given.nextId \in Nat
    BY <1>1, <1>2
  <2> QED BY <1>1, <1>2, <2>1, EngineFields
<1>4. OwnQueued(given)
  BY <1>1, <1>2 DEF OwnQueued, OwnOrders
<1>5. OwnIdsGivenOut(given)
  <2>1. given.nextId >= FirstOwnId
    BY <1>1, <1>2, FirstOwnIdAssumption DEF OwnIdsGivenOut
  <2>2. ASSUME NEW x \in OwnOrders(given)
        PROVE  x[2] \in FirstOwnId..(given.nextId - 1)
    <3>1. x \in OwnOrders(e)
      BY <1>2, <2>2 DEF OwnOrders
    <3>2. x[2] \in FirstOwnId..(e.nextId - 1)
      BY <1>1, <3>1 DEF OwnIdsGivenOut
    <3> QED BY <1>1, <1>2, <3>2, FirstOwnIdAssumption
  <2> QED BY <2>1, <2>2 DEF OwnIdsGivenOut
<1> QED BY <1>2, <1>3, <1>4, <1>5 DEF EngineInv

(* place_limit and place_market: the order gets the next id, takes what it can *)
(* and, if anything is left of a GTC order, rests.                         *)
LEMMA PlaceFacts ==
  ASSUME NEW e, EngineInv(e), NEW side \in OrderSides, NEW n \in Nat \ {0},
         NEW limit, NEW tif, tif = "GTC" => limit \in Prices
  PROVE  /\ EngineInv(Place(e, side, n, limit, tif).e)
         /\ Place(e, side, n, limit, tif).e.nextId = e.nextId + 1
         /\ FillsGrow(e.fills, Place(e, side, n, limit, tif).e.fills, e.now, e.nextId + 1)
         /\ Place(e, side, n, limit, tif).fills \in Seq(ActiveFills)
         /\ Told(Place(e, side, n, limit, tif).fills, e.nextId, e.now)
         /\ Place(e, side, n, limit, tif).id = e.nextId
         /\ Place(e, side, n, limit, tif).e.now = e.now
<1> DEFINE id == e.nextId
           given == [e EXCEPT !.nextId = @ + 1]
           todo == Matchable(given, OppositeBookSide(side), limit)
           m0 == [e |-> given, rem |-> n, todo |-> todo, fills |-> <<>>]
           m == MatchLoop(m0, id, side)[Cardinality(todo)]
           L == <<BookSideOf(side), limit>>
           r == Place(e, side, n, limit, tif)
<1>1. /\ DOMAIN e = Fields
      /\ e.book \in [Levels -> Nat] /\ e.queues \in [Levels -> Seq(Entries)]
      /\ e.orders \in [DOMAIN e.orders -> Orders] /\ DOMAIN e.orders \subseteq Entries
      /\ e.fills \in Seq(Fills) /\ e.nextId \in Nat /\ e.now \in Nat /\ e.position \in Int
      /\ OwnQueued(e) /\ OwnIdsGivenOut(e)
  BY EngineFields DEF EngineInv
<1>2. /\ EngineInv(given)
      /\ given.orders = e.orders /\ given.fills = e.fills
      /\ given.nextId = e.nextId + 1 /\ given.now = e.now
  BY NextIdFacts
<1>3. m = MatchActive(given, id, side, n, limit)
  BY DEF MatchActive
<1>4. /\ r.e = IF m.rem > 0 /\ tif = "GTC" THEN Rest(m.e, Own(id), L, m.rem) ELSE m.e
      /\ r.fills = m.fills /\ r.id = e.nextId
  BY <1>3 DEF Place
<1>5. todo \in SUBSET Prices /\ Cardinality(todo) \in Nat
  <2>1. todo \in SUBSET Prices
    BY DEF Matchable
  <2> HIDE DEF todo
  <2> QED BY <2>1, PricesAssumption, FS_Subset, FS_CardinalityType
<1> HIDE DEF given, todo, r
<1>7. m0 \in MatchStates /\ m0.e = given /\ Told(m0.fills, id, e.now)
  <2>1. given \in Engines
    BY <1>2, EnginesFacts DEF EngineInv
  <2>2. Told(<<>>, id, e.now)
    BY DEF Told
  <2> QED BY <1>2, <1>5, <2>1, <2>2 DEF MatchStates
<1> HIDE DEF m0
<1>8. m \in MatchStates /\ Consumed(given, m.e, e.now) /\ Told(m.fills, id, e.now)
  BY <1>1, <1>2, <1>5, <1>7, MatchLoopFacts
<1> HIDE DEF m
<1>9. /\ EngineInv(m.e) /\ m.rem \in Nat /\ m.fills \in Seq(ActiveFills)
      /\ m.e.nextId = e.nextId + 1 /\ FillsGrow(e.fills, m.e.fills, e.now, e.nextId + 1)
      /\ DOMAIN m.e.orders \subseteq DOMAIN e.orders
      /\ m.e.now = e.now /\ Told(m.fills, id, e.now)
  BY <1>2, <1>8 DEF MatchStates, Consumed
<1>10. CASE m.rem > 0 /\ tif = "GTC"
  <2>1. L \in Levels /\ m.rem \in Nat \ {0}
    BY <1>9, <1>10 DEF Levels, BookSides, BookSideOf
  <2>2. /\ Own(id) \in Entries /\ IsOwn(Own(id)) /\ Own(id)[2] = id
        /\ id \in Nat
    BY <1>1, EntryFacts
  <2>3. Own(id) \notin DOMAIN m.e.orders
    <3>1. SUFFICES ASSUME Own(id) \in DOMAIN e.orders PROVE FALSE
      BY <1>9
    <3>2. Own(id) \in OwnOrders(e)
      BY <2>2, <3>1 DEF OwnOrders
    <3>3. id \in FirstOwnId..(e.nextId - 1)
      BY <1>1, <2>2, <3>2 DEF OwnIdsGivenOut
    <3> QED BY <1>1, <3>3, FirstOwnIdAssumption
  <2>4. Own(id)[2] \in FirstOwnId..(m.e.nextId - 1)
    BY <1>1, <1>9, <2>2, FirstOwnIdAssumption DEF OwnIdsGivenOut
  <2>5. r.e = Rest(m.e, Own(id), L, m.rem)
    BY <1>4, <1>10
  <2> HIDE DEF L, id
  <2>6. /\ EngineInv(Rest(m.e, Own(id), L, m.rem))
        /\ Rest(m.e, Own(id), L, m.rem).fills = m.e.fills
        /\ Rest(m.e, Own(id), L, m.rem).nextId = m.e.nextId
        /\ Rest(m.e, Own(id), L, m.rem).now = m.e.now
    BY <1>9, <2>1, <2>2, <2>3, <2>4, RestFacts
  <2>7. r.fills = m.fills /\ r.id = e.nextId
    BY <1>4
  <2> QED BY <1>9, <2>5, <2>6, <2>7 DEF r, id
<1>11. CASE ~(m.rem > 0 /\ tif = "GTC")
  BY <1>4, <1>9, <1>11 DEF r
<1> QED BY <1>10, <1>11

(***************************************************************************)
(* The calls that only set a field, and the empty engine.                  *)
(***************************************************************************)

LEMMA AdvanceTimeFacts ==
  ASSUME NEW e, EngineInv(e), NEW ts \in Nat
  PROVE  /\ EngineInv(AdvanceTime(e, ts))
         /\ AdvanceTime(e, ts).nextId = e.nextId
         /\ AdvanceTime(e, ts).fills = e.fills
         /\ AdvanceTime(e, ts).book = e.book
         /\ AdvanceTime(e, ts).now = ts
<1> DEFINE f == AdvanceTime(e, ts)
<1>1. /\ DOMAIN e = Fields
      /\ e.book \in [Levels -> Nat] /\ e.queues \in [Levels -> Seq(Entries)]
      /\ e.orders \in [DOMAIN e.orders -> Orders] /\ DOMAIN e.orders \subseteq Entries
      /\ e.fills \in Seq(Fills) /\ e.nextId \in Nat /\ e.now \in Nat /\ e.position \in Int
  BY EngineFields DEF EngineInv
<1>2. /\ f.book = e.book /\ f.orders = e.orders /\ f.queues = e.queues
      /\ f.fills = e.fills /\ f.nextId = e.nextId /\ f.now = ts
      /\ f.position = e.position
      /\ DOMAIN f = Fields /\ f = [k \in DOMAIN f |-> f[k]]
  BY <1>1 DEF AdvanceTime, Fields
<1> HIDE DEF f
<1>3. EngineOK(f)
  BY <1>1, <1>2, EngineFields
<1> QED BY <1>2, <1>3 DEF EngineInv, OwnQueued, OwnIdsGivenOut, OwnOrders, f

LEMMA PopPassiveFillsFacts ==
  ASSUME NEW e, EngineInv(e)
  PROVE  /\ EngineInv(PopPassiveFills(e))
         /\ PopPassiveFills(e).nextId = e.nextId
<1> DEFINE f == PopPassiveFills(e)
<1>1. /\ DOMAIN e = Fields
      /\ e.book \in [Levels -> Nat] /\ e.queues \in [Levels -> Seq(Entries)]
      /\ e.orders \in [DOMAIN e.orders -> Orders] /\ DOMAIN e.orders \subseteq Entries
      /\ e.fills \in Seq(Fills) /\ e.nextId \in Nat /\ e.now \in Nat /\ e.position \in Int
  BY EngineFields DEF EngineInv
<1>2. /\ f.book = e.book /\ f.orders = e.orders /\ f.queues = e.queues
      /\ f.fills = <<>> /\ f.nextId = e.nextId /\ f.now = e.now
      /\ f.position = e.position
      /\ DOMAIN f = Fields /\ f = [k \in DOMAIN f |-> f[k]]
  BY <1>1 DEF PopPassiveFills, Fields
<1> HIDE DEF f
<1>3. f.fills \in Seq(Fills)
  BY <1>2
<1>4. EngineOK(f)
  BY <1>1, <1>2, <1>3, EngineFields
<1> QED BY <1>2, <1>4 DEF EngineInv, OwnQueued, OwnIdsGivenOut, OwnOrders, f

LEMMA EmptyEngineFacts ==
  EngineInv(EmptyEngine) /\ EmptyEngine.nextId = FirstOwnId
<1> DEFINE e == EmptyEngine
<1>1. /\ e.book = [L \in Levels |-> 0] /\ e.orders = [x \in {} |-> 0]
      /\ e.queues = [L \in Levels |-> <<>>] /\ e.fills = <<>>
      /\ e.nextId = FirstOwnId /\ e.now = 0 /\ e.position = 0
      /\ DOMAIN e = Fields /\ e = [k \in DOMAIN e |-> e[k]]
  BY DEF EmptyEngine, Fields
<1> HIDE DEF e
<1>2. /\ e.book \in [Levels -> Nat] /\ e.queues \in [Levels -> Seq(Entries)]
      /\ e.orders \in [DOMAIN e.orders -> Orders] /\ DOMAIN e.orders = {}
      /\ e.fills \in Seq(Fills) /\ \A L \in Levels : Len(e.queues[L]) = 0
  BY <1>1
<1>3. EngineOK(e)
  <2>1. /\ e.nextId \in Nat /\ e.now \in Nat /\ e.position \in Int
        /\ DOMAIN e.orders \subseteq Entries
    BY <1>1, <1>2, FirstOwnIdAssumption
  <2> QED BY <1>1, <1>2, <2>1, EngineFields
<1>4. OwnOrders(e) = {}
  BY <1>2 DEF OwnOrders
<1>5. OwnQueued(e)
  BY <1>2, <1>4 DEF OwnQueued
<1>6. OwnIdsGivenOut(e)
  BY <1>1, <1>4, FirstOwnIdAssumption DEF OwnIdsGivenOut
<1> QED BY <1>1, <1>3, <1>5, <1>6 DEF EngineInv, e

(***************************************************************************)
(* What the fills of an operation add up to.                               *)
(***************************************************************************)

LEMMA NetFacts ==
  ASSUME NEW s \in Seq(ActiveFills)
  PROVE  /\ Net(s) \in Int
         /\ \A f \in ActiveFills : Net(Append(s, f)) = Net(s) + Signed(f.side, f.size)
         /\ \A t \in Seq(ActiveFills) : Net(s \o t) = Net(s) + Net(t)
         /\ Net(<<>>) = 0
<1> DEFINE v == [f \in ActiveFills |-> Signed(f.side, f.size)]
<1>1. v \in [ActiveFills -> Int] /\ \A f \in ActiveFills : v[f] = Signed(f.side, f.size)
  <2>1. ASSUME NEW f \in ActiveFills PROVE Signed(f.side, f.size) \in Int
    <3>1. f.size \in Nat
      BY DEF ActiveFills
    <3> QED BY <3>1 DEF Signed
  <2> QED BY <2>1
<1>2. ASSUME NEW u \in Seq(ActiveFills) PROVE Net(u) = Worth(v, u)
  <2>1. \A i \in DOMAIN u : u[i] \in ActiveFills
    OBVIOUS
  <2>2. \A i \in DOMAIN u : v[u[i]] = Signed(u[i].side, u[i].size)
    BY <1>1, <2>1
  <2> QED BY <2>2 DEF Net, Worth
<1> HIDE DEF v
<1>3. \A f \in ActiveFills : Append(s, f) \in Seq(ActiveFills)
  OBVIOUS
<1>4. \A t \in Seq(ActiveFills) : s \o t \in Seq(ActiveFills)
  OBVIOUS
<1>5. <<>> \in Seq(ActiveFills) /\ Len(<<>>) = 0
  OBVIOUS
<1>6. \A u \in Seq(ActiveFills) :
         /\ Worth(v, u) \in Int
         /\ (\A i \in 1..Len(u) : v[u[i]] = 0) => Worth(v, u) = 0
         /\ \A f \in ActiveFills : Worth(v, Append(u, f)) = Worth(v, u) + v[f]
         /\ \A t \in Seq(ActiveFills) : Worth(v, u \o t) = Worth(v, u) + Worth(v, t)
  BY ONLY <1>1, WorthFacts
<1>7. Net(s) \in Int /\ Net(<<>>) = 0
  <2> DEFINE u == <<>>
  <2>0. u \in Seq(ActiveFills) /\ \A i \in 1..Len(u) : v[u[i]] = 0
    BY <1>5
  <2> HIDE DEF u
  <2>1. Worth(v, u) = 0
    BY <1>6, <2>0
  <2> USE DEF u
  <2> QED BY <1>2, <1>5, <1>6, <2>1
<1>8. ASSUME NEW f \in ActiveFills PROVE Net(Append(s, f)) = Net(s) + Signed(f.side, f.size)
  <2>1. Net(Append(s, f)) = Worth(v, Append(s, f)) /\ Net(s) = Worth(v, s)
    BY <1>2, <1>3
  <2>2. Worth(v, Append(s, f)) = Worth(v, s) + v[f]
    BY <1>6
  <2> QED BY <1>1, <2>1, <2>2
<1>9. ASSUME NEW t \in Seq(ActiveFills) PROVE Net(s \o t) = Net(s) + Net(t)
  <2>1. Net(s \o t) = Worth(v, s \o t) /\ Net(s) = Worth(v, s) /\ Net(t) = Worth(v, t)
    BY <1>2, <1>4
  <2> QED BY <1>6, <2>1
<1> QED BY <1>7, <1>8, <1>9

LEMMA FilledFacts ==
  ASSUME NEW s \in Seq(ActiveFills), NEW id
  PROVE  /\ FilledOf(id, s) \in Nat
         /\ \A f \in ActiveFills :
               FilledOf(id, Append(s, f)) = FilledOf(id, s) + IF f.id = id THEN f.size ELSE 0
         /\ \A t \in Seq(ActiveFills) : FilledOf(id, s \o t) = FilledOf(id, s) + FilledOf(id, t)
         /\ (\A i \in 1..Len(s) : s[i].id # id) => FilledOf(id, s) = 0
<1> DEFINE v == [f \in ActiveFills |-> IF f.id = id THEN f.size ELSE 0]
<1>1. /\ v \in [ActiveFills -> Int]
      /\ \A f \in ActiveFills : v[f] = (IF f.id = id THEN f.size ELSE 0) /\ v[f] \in Nat
  <2>1. \A f \in ActiveFills : f.size \in Nat
    BY DEF ActiveFills
  <2> QED BY <2>1
<1>2. ASSUME NEW u \in Seq(ActiveFills) PROVE FilledOf(id, u) = Worth(v, u)
  <2>1. \A i \in DOMAIN u : u[i] \in ActiveFills
    OBVIOUS
  <2>2. \A i \in DOMAIN u : v[u[i]] = IF u[i].id = id THEN u[i].size ELSE 0
    BY <1>1, <2>1
  <2> QED BY <2>2 DEF FilledOf, Worth
<1> HIDE DEF v
<1>3. \A f \in ActiveFills : Append(s, f) \in Seq(ActiveFills)
  OBVIOUS
<1>4. \A t \in Seq(ActiveFills) : s \o t \in Seq(ActiveFills)
  OBVIOUS
<1>5. \A i \in 1..Len(s) : s[i] \in ActiveFills
  OBVIOUS
<1>6. /\ (\A i \in 1..Len(s) : v[s[i]] \in Nat) => Worth(v, s) \in Nat
      /\ (\A i \in 1..Len(s) : v[s[i]] = 0) => Worth(v, s) = 0
      /\ \A f \in ActiveFills : Worth(v, Append(s, f)) = Worth(v, s) + v[f]
      /\ \A t \in Seq(ActiveFills) : Worth(v, s \o t) = Worth(v, s) + Worth(v, t)
  BY ONLY <1>1, s \in Seq(ActiveFills), WorthFacts
<1>7. FilledOf(id, s) \in Nat /\ ((\A i \in 1..Len(s) : s[i].id # id) => FilledOf(id, s) = 0)
  <2>1. \A i \in 1..Len(s) : v[s[i]] \in Nat /\ (s[i].id # id => v[s[i]] = 0)
    BY <1>1, <1>5
  <2> QED BY <1>2, <1>6, <2>1
<1>8. ASSUME NEW f \in ActiveFills
      PROVE  FilledOf(id, Append(s, f)) = FilledOf(id, s) + IF f.id = id THEN f.size ELSE 0
  <2>1. FilledOf(id, Append(s, f)) = Worth(v, Append(s, f)) /\ FilledOf(id, s) = Worth(v, s)
    BY <1>2, <1>3
  <2>2. Worth(v, Append(s, f)) = Worth(v, s) + v[f]
    BY <1>6
  <2> QED BY <1>1, <2>1, <2>2
<1>9. ASSUME NEW t \in Seq(ActiveFills)
      PROVE  FilledOf(id, s \o t) = FilledOf(id, s) + FilledOf(id, t)
  <2>1. /\ FilledOf(id, s \o t) = Worth(v, s \o t)
        /\ FilledOf(id, s) = Worth(v, s) /\ FilledOf(id, t) = Worth(v, t)
    BY <1>2, <1>4
  <2> QED BY <1>6, <2>1
<1> QED BY <1>7, <1>8, <1>9

(* Taking from level L: nothing else in the book changes, what an own order  *)
(* loses its fills tell, and so does the position.  Where no own order rests *)
(* there is no passive fill.                                               *)
Left(e, id) == SizeOf(e, Own(id)) + FilledOf(id, e.fills)

NoneAt(e, S) == \A x \in OwnOrders(e) : e.orders[x].level \notin S

Takes(e, f, L) ==
  /\ \A M \in Levels \ {L} : f.book[M] = e.book[M]
  /\ \A id \in Nat : Left(f, id) = Left(e, id)
  /\ f.position - Net(f.fills) = e.position - Net(e.fills)
  /\ NoneAt(e, {L}) => f.fills = e.fills

LEMMA TakesTransitive ==
  ASSUME NEW e, NEW f, NEW g, NEW L, NEW ts, Consumed(e, f, ts), Takes(e, f, L), Takes(f, g, L)
  PROVE  Takes(e, g, L)
<1>1. NoneAt(e, {L}) => NoneAt(f, {L})
  BY DEF NoneAt, Consumed, OwnOrders
<1> QED BY <1>1 DEF Takes

LEMMA FillsAreActive ==
  Seq(Fills) \subseteq Seq(ActiveFills)
<1>1. Fills \subseteq ActiveFills
  BY DEF Fills, ActiveFills
<1> QED BY <1>1

LEMMA FillFrontTakes ==
  ASSUME NEW e, EngineInv(e), NEW L \in Levels, NEW ts \in Nat, e.queues[L] # <<>>,
         NEW x, x = Head(e.queues[L]), x \in DOMAIN e.orders,
         NEW n \in Nat \ {0}, n <= e.orders[x].size
  PROVE  Takes(e, FillFront(e, x, L, n, ts), L)
<1> DEFINE f == FillFront(e, x, L, n, ts)
           left == e.orders[x].size - n
           fill == [id |-> x[2], side |-> OrderSideOf(L[1]), price |-> L[2],
                    size |-> n, ts |-> ts]
<1>1. /\ DOMAIN e = Fields
      /\ e.book \in [Levels -> Nat] /\ e.queues \in [Levels -> Seq(Entries)]
      /\ e.orders \in [DOMAIN e.orders -> Orders] /\ DOMAIN e.orders \subseteq Entries
      /\ e.fills \in Seq(ActiveFills) /\ e.position \in Int
  BY EngineFields, FillsAreActive DEF EngineInv
<1>2. left \in Nat /\ x \in Entries /\ left + n = e.orders[x].size
  BY <1>1 DEF Orders
<1>3. IsOwn(x) => fill \in ActiveFills /\ Signed(fill.side, n) \in Int
  BY <1>2, EntryFacts, LevelFacts DEF ActiveFills, OrderSideOf, OrderSides, BookSides, Signed
<1>4. /\ f.book = RemoveFromBook(e.book, L, n)
      /\ f.orders = SetSize(e.orders, x, left)
      /\ f.fills = IF IsOwn(x) THEN Append(e.fills, fill) ELSE e.fills
      /\ f.position = IF IsOwn(x) THEN e.position + Signed(fill.side, n) ELSE e.position
  BY <1>1 DEF FillFront, Fields
<1>5. fill.size = n /\ fill.id = x[2]
  OBVIOUS
<1> HIDE DEF f, left, fill
<1>6. \A M \in Levels \ {L} : f.book[M] = e.book[M]
  <2> DEFINE b == e.book
  <2>1. b \in [Levels -> Nat] /\ f.book = RemoveFromBook(b, L, n)
    BY <1>1, <1>4
  <2> HIDE DEF b
  <2>2. \A M \in Levels \ {L} : RemoveFromBook(b, L, n)[M] = b[M]
    BY <2>1, BookFacts
  <2> QED BY <2>1, <2>2 DEF b
<1>7. /\ SizeOf(f, x) = left
      /\ \A y : y # x => SizeOf(f, y) = SizeOf(e, y)
  <2> DEFINE os == SetSize(e.orders, x, left)
  <2>0. e.orders \in [DOMAIN e.orders -> Orders]
    BY <1>1
  <2>1. /\ os \in [DOMAIN os -> Orders]
        /\ DOMAIN os \subseteq DOMAIN e.orders
        /\ \A y \in DOMAIN e.orders : y \in DOMAIN os <=> y # x \/ left # 0
        /\ \A y \in DOMAIN os : /\ y # x => os[y] = e.orders[y]
                                /\ y = x => os[y].size = left
    BY <1>2, <2>0, SetSizeFacts
  <2>2. f.orders = os
    BY <1>4
  <2> HIDE DEF os
  <2> QED BY <2>1, <2>2 DEF SizeOf
<1>8. SizeOf(e, x) = left + n
  BY <1>2 DEF SizeOf
<1>9. f.position - Net(f.fills) = e.position - Net(e.fills)
  <2>1. Net(e.fills) \in Int
    BY <1>1, NetFacts
  <2>2. CASE IsOwn(x)
    <3>1. Net(f.fills) = Net(e.fills) + Signed(fill.side, n)
      BY <1>1, <1>3, <1>4, <1>5, <2>2, NetFacts
    <3>2. f.position = e.position + Signed(fill.side, n)
      BY <1>4, <2>2
    <3> QED BY <1>1, <1>3, <2>1, <2>2, <3>1, <3>2
  <2>3. CASE ~IsOwn(x)
    BY <1>4, <2>3
  <2> QED BY <2>2, <2>3
<1>10. ASSUME NEW id \in Nat
       PROVE  Left(f, id) = Left(e, id)
  <2>0. FilledOf(id, e.fills) \in Nat
    BY <1>1, FilledFacts
  <2>1. CASE IsOwn(x) /\ x = Own(id)
    <3>1. x[2] = id
      BY <2>1 DEF Own
    <3>2. FilledOf(id, f.fills) = FilledOf(id, e.fills) + n
      BY <1>1, <1>3, <1>4, <1>5, <2>1, <3>1, FilledFacts, SMTT(30)
    <3> QED BY <1>2, <1>7, <1>8, <2>0, <2>1, <3>2 DEF Left
  <2>2. CASE IsOwn(x) /\ x # Own(id)
    <3>1. x[2] # id
      <4>1. x[1] = "own"
        BY <2>2 DEF IsOwn
      <4>2. \E k \in Nat : x = <<"own", k>>
        BY <1>2, <4>1 DEF Entries
      <4> QED BY <2>2, <4>2 DEF Own
    <3>2. FilledOf(id, f.fills) = FilledOf(id, e.fills) + 0
      BY <1>1, <1>3, <1>4, <1>5, <2>2, <3>1, FilledFacts
    <3> QED BY <1>7, <2>0, <2>2, <3>2 DEF Left
  <2>3. CASE ~IsOwn(x)
    <3>1. Own(id) # x
      BY <2>3, EntryFacts
    <3> QED BY <1>4, <1>7, <2>3, <3>1 DEF Left
  <2> QED BY <2>1, <2>2, <2>3
<1>11. NoneAt(e, {L}) => f.fills = e.fills
  <2>1. SUFFICES ASSUME NoneAt(e, {L}) PROVE ~IsOwn(x)
    BY <1>4
  <2>2. SUFFICES ASSUME IsOwn(x) PROVE FALSE
    OBVIOUS
  <2>3. 1 \in 1..Len(e.queues[L]) /\ e.queues[L][1] = x
    <3>1. e.queues[L] \in Seq(Entries)
      BY <1>1
    <3> QED BY <3>1, TailFacts
  <2>4. x \in OwnOrders(e) /\ e.orders[x].level = L
    <3>1. e.orders[e.queues[L][1]].level = L
      BY <2>2, <2>3 DEF EngineInv, OwnQueued
    <3> QED BY <2>2, <2>3, <3>1 DEF OwnOrders
  <2> QED BY <2>1, <2>4 DEF NoneAt
<1> QED BY <1>6, <1>9, <1>10, <1>11 DEF Takes, f

LEMMA ConsumeStepTakes ==
  ASSUME NEW s \in ConsumeStates, NEW L \in Levels, NEW ts \in Nat
  PROVE  Takes(s.e, ConsumeStep(s, L, ts).e, L)
<1> DEFINE e == s.e
           t == ConsumeStep(s, L, ts)
           x == Head(e.queues[L])
<1>1. EngineInv(e) /\ s.rem \in Nat
  BY DEF ConsumeStates
<1>2. DOMAIN e = Fields /\ e.orders \in [DOMAIN e.orders -> Orders]
  BY <1>1, EngineFields DEF EngineInv
<1>3. CASE s.rem = 0 \/ e.queues[L] = <<>>
  <2>1. t.e = e
    BY <1>3 DEF ConsumeStep
  <2> QED BY <2>1 DEF Takes
<1>4. CASE s.rem # 0 /\ e.queues[L] # <<>> /\ x \notin DOMAIN e.orders
  <2> DEFINE f == [e EXCEPT !.queues = PopFront(@, L)]
  <2>1. t.e = f
    BY <1>4 DEF ConsumeStep
  <2>2. f.book = e.book /\ f.orders = e.orders /\ f.fills = e.fills /\ f.position = e.position
    BY <1>2 DEF Fields
  <2> HIDE DEF f
  <2>3. \A id \in Nat : Left(f, id) = Left(e, id)
    BY <2>2 DEF Left, SizeOf
  <2> QED BY <2>1, <2>2, <2>3 DEF Takes
<1>5. CASE s.rem # 0 /\ e.queues[L] # <<>> /\ x \in DOMAIN e.orders
  <2> DEFINE n == Lesser(e.orders[x].size, s.rem)
  <2>1. t.e = FillFront(e, x, L, n, ts)
    BY <1>5 DEF ConsumeStep
  <2>2. e.orders[x].size \in Nat \ {0} /\ s.rem \in Nat \ {0}
    BY <1>1, <1>2, <1>5 DEF Orders
  <2>3. n \in Nat \ {0} /\ n <= e.orders[x].size
    BY <2>2 DEF Lesser
  <2> HIDE DEF n
  <2> QED BY <1>1, <1>5, <2>1, <2>3, FillFrontTakes
<1> QED BY <1>3, <1>4, <1>5

LEMMA ConsumeLevelTakes ==
  ASSUME NEW e, EngineInv(e), NEW L \in Levels, NEW n \in Nat, NEW ts \in Nat
  PROVE  Takes(e, ConsumeLevel(e, L, n, ts), L)
<1> DEFINE s == [e |-> e, rem |-> n]
           G == {t \in ConsumeStates : Consumed(e, t.e, ts) /\ Takes(e, t.e, L)}
           k == Len(e.queues[L])
<1>1. \A t \in ConsumeStates : t.e.fills \in Seq(Fills)
  BY EngineFields DEF ConsumeStates, EngineInv
<1>2. s \in G
  <2>1. e \in Engines /\ e.fills \in Seq(Fills)
    BY EnginesFacts, EngineFields DEF EngineInv
  <2>2. Takes(e, e, L)
    BY DEF Takes
  <2> QED BY <2>1, <2>2, ConsumedReflexive DEF ConsumeStates
<1>3. ASSUME NEW t \in G PROVE ConsumeStep(t, L, ts) \in G
  <2> DEFINE u == ConsumeStep(t, L, ts)
  <2>1. u \in ConsumeStates /\ Consumed(t.e, u.e, ts) /\ Takes(t.e, u.e, L)
    BY ConsumeStepFacts, ConsumeStepTakes
  <2>2. e.fills \in Seq(Fills)
    BY EngineFields DEF EngineInv
  <2> HIDE DEF u
  <2>3. Consumed(e, u.e, ts)
    BY <1>1, <2>1, <2>2, ConsumedTransitive
  <2>4. Takes(e, u.e, L)
    BY <2>1, TakesTransitive
  <2> QED BY <2>1, <2>3, <2>4 DEF u
<1>4. k \in Nat
  <2>1. e.queues[L] \in Seq(Entries)
    BY EngineFields DEF EngineInv
  <2> QED BY <2>1
<1> HIDE DEF G, s, k
<1>5. ConsumeLoop(s, L, ts)[k] \in G
  BY <1>2, <1>3, <1>4, ConsumeLoopInduction
<1> QED BY <1>5 DEF G, s, k, ConsumeLevel

(***************************************************************************)
(* The same for an active order: what it took is what it has fills for.    *)
(***************************************************************************)

(* What one or more turns of _match_active_order leave as it was.          *)
Balanced(m, t, id) ==
  /\ t.e.position - Net(t.e.fills) - Net(t.fills) = m.e.position - Net(m.e.fills) - Net(m.fills)
  /\ \A j \in Nat : Left(t.e, j) = Left(m.e, j)
  /\ t.rem + FilledOf(id, t.fills) = m.rem + FilledOf(id, m.fills)

(* The prices still to visit have something to take.                       *)
Offered(m, side) == \A p \in m.todo : m.e.book[<<OppositeBookSide(side), p>>] > 0

(* Matching where no own order rests gives no passive fill.                *)
Alone(m, side) == NoneAt(m.e, {OppositeBookSide(side)} \X m.todo)
Quiet(m, t, side) == Alone(m, side) => Alone(t, side) /\ t.e.fills = m.e.fills

LEMMA MatchStepBalances ==
  ASSUME NEW m \in MatchStates, NEW id \in Nat, NEW side \in OrderSides,
         m.fills \in Seq(Fills), Offered(m, side)
  PROVE  /\ MatchStep(m, id, side).fills \in Seq(Fills)
         /\ Offered(MatchStep(m, id, side), side)
         /\ Balanced(m, MatchStep(m, id, side), id)
         /\ Quiet(m, MatchStep(m, id, side), side)
<1> DEFINE e == m.e
           t == MatchStep(m, id, side)
           opposite == OppositeBookSide(side)
           p == Best(opposite, m.todo)
           L == <<opposite, p>>
           n == Lesser(m.rem, e.book[L])
           hit == ConsumeLevel(e, L, n, e.now)
           f == [hit EXCEPT !.position = @ + Signed(side, n)]
           fill == [id |-> id, side |-> side, price |-> p, size |-> n, ts |-> e.now]
<1>1. EngineInv(e) /\ m.rem \in Nat /\ m.todo \in SUBSET Prices /\ m.fills \in Seq(ActiveFills)
  BY DEF MatchStates
<1>2. e.book \in [Levels -> Nat] /\ e.now \in Nat /\ e.fills \in Seq(Fills)
  BY <1>1, EngineFields DEF EngineInv
<1>3. CASE m.rem = 0 \/ m.todo = {}
  <2>1. t = m
    BY <1>3 DEF MatchStep
  <2> HIDE DEF t
  <2> QED BY <2>1 DEF Balanced, Quiet, t
<1>4. CASE ~(m.rem = 0 \/ m.todo = {})
  <2>1. t = [e |-> f, rem |-> m.rem - n, todo |-> m.todo \ {p},
             fills |-> Append(m.fills, fill)]
    BY <1>4 DEF MatchStep
  <2>2. p \in m.todo
    BY <1>1, <1>4, BestFacts
  <2>3. L \in Levels
    BY <1>1, <2>2 DEF Levels, BookSides, OppositeBookSide
  <2>4. n \in Nat \ {0} /\ n <= m.rem
    <3>1. e.book[L] > 0 /\ e.book[L] \in Nat /\ m.rem > 0
      BY <1>1, <1>2, <1>4, <2>2, <2>3 DEF Offered
    <3> QED BY <1>1, <3>1 DEF Lesser
  <2>5. fill \in Fills
    <3> HIDE DEF n, p
    <3> QED BY <1>1, <1>2, <2>2, <2>4 DEF Fills
  <2>6. fill.side = side /\ fill.size = n /\ fill.id = id
    OBVIOUS
  <2>7. L[1] = opposite /\ L[2] = p
    OBVIOUS
  <2>8. \A q \in m.todo \ {p} : <<opposite, q>> \in Levels \ {L}
    <3>1. opposite \in BookSides
      BY DEF BookSides, OppositeBookSide
    <3> QED BY <1>1, <3>1 DEF Levels
  <2>9. t.e = f /\ t.rem = m.rem - n /\ t.todo = m.todo \ {p} /\ t.fills = Append(m.fills, fill)
    BY <2>1
  <2> HIDE DEF n, e, fill, t
  <2>10. EngineInv(hit) /\ Consumed(e, hit, e.now) /\ Takes(e, hit, L)
    <3> HIDE DEF L
    <3> QED BY <1>1, <1>2, <2>3, <2>4, ConsumeLevelFacts, ConsumeLevelTakes
  <2> HIDE DEF hit
  <2>11. /\ DOMAIN hit = Fields /\ hit.position \in Int /\ hit.fills \in Seq(Fills)
         /\ e.position \in Int
    BY <1>1, <2>10, EngineFields DEF EngineInv
  <2>12. /\ f.book = hit.book /\ f.orders = hit.orders /\ f.fills = hit.fills
         /\ f.position = hit.position + Signed(side, n)
    BY <2>11 DEF Fields
  <2> HIDE DEF f
  <2>13. t.fills \in Seq(Fills)
    <3>1. \A u : u \in Seq(Fills) => Append(u, fill) \in Seq(Fills)
      BY <2>5
    <3> QED BY <2>9, <3>1
  <2>14. Offered(t, side)
    <3>1. ASSUME NEW q \in m.todo \ {p}
          PROVE  f.book[<<opposite, q>>] > 0
      <4>1. <<opposite, q>> \in Levels \ {L}
        BY <2>8
      <4>2. hit.book[<<opposite, q>>] = e.book[<<opposite, q>>]
        BY <2>10, <4>1 DEF Takes
      <4>3. e.book[<<opposite, q>>] > 0
        BY DEF Offered, e
      <4> QED BY <2>12, <4>2, <4>3
    <3> QED BY <2>9, <3>1 DEF Offered
  <2>15. Balanced(m, t, id)
    <3>0. fill \in ActiveFills /\ e.fills \in Seq(ActiveFills) /\ hit.fills \in Seq(ActiveFills)
      BY <1>2, <2>5, <2>11, FillsAreActive DEF Fills, ActiveFills
    <3>1. Net(t.fills) = Net(m.fills) + Signed(side, n)
      BY <1>1, <2>6, <2>9, <3>0, NetFacts
    <3>2. /\ Net(m.fills) \in Int /\ Net(e.fills) \in Int /\ Net(hit.fills) \in Int
          /\ Signed(side, n) \in Int
      BY <1>1, <2>4, <3>0, NetFacts, SMTT(30) DEF Signed
    <3>3. hit.position - Net(hit.fills) = e.position - Net(e.fills)
      BY <2>10 DEF Takes
    <3>4. t.e.position - Net(t.e.fills) - Net(t.fills) = e.position - Net(e.fills) - Net(m.fills)
      <4>1. t.e.position = hit.position + Signed(side, n) /\ t.e.fills = hit.fills
        BY <2>9, <2>12
      <4> QED BY <2>11, <3>1, <3>2, <3>3, <4>1
    <3>5. \A j \in Nat : Left(t.e, j) = Left(e, j)
      BY <2>9, <2>10, <2>12 DEF Takes, Left, SizeOf
    <3>6. t.rem + FilledOf(id, t.fills) = m.rem + FilledOf(id, m.fills)
      <4>1. FilledOf(id, t.fills) = FilledOf(id, m.fills) + n /\ FilledOf(id, m.fills) \in Nat
        BY <1>1, <2>6, <2>9, <3>0, FilledFacts
      <4> QED BY <1>1, <2>4, <2>9, <4>1
    <3> QED BY <3>4, <3>5, <3>6 DEF Balanced, e
  <2>16. Quiet(m, t, side)
    <3>1. SUFFICES ASSUME NoneAt(e, {opposite} \X m.todo)
                   PROVE  NoneAt(f, {opposite} \X (m.todo \ {p})) /\ f.fills = e.fills
      BY <2>9 DEF Quiet, Alone, e
    <3>2. {L} \subseteq {opposite} \X m.todo
      BY <2>2, <2>7 DEF L
    <3>3. NoneAt(e, {L})
      BY <3>1, <3>2 DEF NoneAt
    <3>4. NoneAt(hit, {opposite} \X m.todo)
      BY <2>10, <3>1 DEF NoneAt, Consumed, OwnOrders
    <3>5. NoneAt(f, {opposite} \X (m.todo \ {p}))
      BY <2>12, <3>4 DEF NoneAt, OwnOrders
    <3> QED BY <2>10, <2>12, <3>3, <3>5 DEF Takes
  <2> QED BY <2>13, <2>14, <2>15, <2>16 DEF t
<1> QED BY <1>3, <1>4

LEMMA MatchLoopBalances ==
  ASSUME NEW m \in MatchStates, NEW id \in Nat, NEW side \in OrderSides, NEW k \in Nat,
         m.fills \in Seq(Fills), Offered(m, side)
  PROVE  /\ MatchLoop(m, id, side)[k].fills \in Seq(Fills)
         /\ Balanced(m, MatchLoop(m, id, side)[k], id)
         /\ Quiet(m, MatchLoop(m, id, side)[k], side)
<1> DEFINE G == {t \in MatchStates : /\ t.fills \in Seq(Fills) /\ Offered(t, side)
                                     /\ Balanced(m, t, id) /\ Quiet(m, t, side)}
<1>1. m \in G
  BY DEF Balanced, Quiet
<1>2. ASSUME NEW t \in G PROVE MatchStep(t, id, side) \in G
  <2> DEFINE u == MatchStep(t, id, side)
  <2>1. /\ u \in MatchStates /\ u.fills \in Seq(Fills) /\ Offered(u, side)
        /\ Balanced(t, u, id) /\ Quiet(t, u, side)
    BY MatchStepFacts, MatchStepBalances
  <2> HIDE DEF u
  <2>2. Balanced(m, u, id)
    BY <2>1 DEF Balanced
  <2>3. Quiet(m, u, side)
    BY <2>1 DEF Quiet
  <2> QED BY <2>1, <2>2, <2>3 DEF u
<1> HIDE DEF G
<1>3. MatchLoop(m, id, side)[k] \in G
  BY <1>1, <1>2, MatchLoopInduction
<1> QED BY <1>3 DEF G

(* What the orders other than x are, and x where it has size n.             *)
OrdersBut(e, f, x) == \A y : y # x => SizeOf(f, y) = SizeOf(e, y)

LEMMA PutFacts ==
  ASSUME NEW e, NEW f, NEW x, NEW L, NEW n, f.orders = Put(e.orders, x, [level |-> L, size |-> n])
  PROVE  OrdersBut(e, f, x) /\ SizeOf(f, x) = n
<1> DEFINE o == [level |-> L, size |-> n]
<1>1. /\ DOMAIN f.orders = DOMAIN e.orders \cup {x}
      /\ \A y \in DOMAIN e.orders : y # x => f.orders[y] = e.orders[y]
      /\ f.orders[x] = o
  BY DEF Put
<1>2. o.size = n
  OBVIOUS
<1> HIDE DEF o
<1> QED BY <1>1, <1>2 DEF OrdersBut, SizeOf

(* The id of the next order names no order yet.                            *)
LEMMA FreshId ==
  ASSUME NEW e, EngineInv(e)
  PROVE  Own(e.nextId) \notin DOMAIN e.orders /\ Own(e.nextId) \in Entries
<1>1. e.nextId \in Nat /\ OwnIdsGivenOut(e)
  BY EngineFields DEF EngineInv
<1>2. /\ Own(e.nextId) \in Entries /\ IsOwn(Own(e.nextId)) /\ Own(e.nextId)[2] = e.nextId
  BY <1>1, EntryFacts
<1>3. SUFFICES ASSUME Own(e.nextId) \in DOMAIN e.orders PROVE FALSE
  BY <1>2
<1>4. Own(e.nextId) \in OwnOrders(e)
  BY <1>2, <1>3 DEF OwnOrders
<1>5. e.nextId \in FirstOwnId..(e.nextId - 1)
  BY <1>1, <1>2, <1>4 DEF OwnIdsGivenOut
<1> QED BY <1>1, <1>5, FirstOwnIdAssumption

(* The account of a call that places an order of size n: the position has   *)
(* moved by the fills, what the order rests and has filled is at most n and  *)
(* is n if it rests, and no other order is touched but by crossing it.       *)
Placed(e, side, n, limit, r) ==
    LET opposite == OppositeBookSide(side)
        id == e.nextId
    IN  /\ r.fills \in Seq(Fills)
        /\ r.e.position - Net(r.e.fills) - Net(r.fills) = e.position - Net(e.fills)
        /\ \A j \in Nat \ {id} : Left(r.e, j) = Left(e, j) /\ FilledOf(j, r.fills) = 0
        /\ Left(r.e, id) + FilledOf(id, r.fills) <= n + Left(e, id)
        /\ Own(id) \in DOMAIN r.e.orders
              => Left(r.e, id) + FilledOf(id, r.fills) = n + Left(e, id)
        /\ NoneAt(e, {opposite} \X Matchable(e, opposite, limit)) => r.e.fills = e.fills
        /\ \A x \in DOMAIN r.e.orders : x # Own(id) => x \in DOMAIN e.orders

LEMMA PlaceAccounts ==
  ASSUME NEW e, EngineInv(e), NEW side \in OrderSides, NEW n \in Nat \ {0},
         NEW limit, NEW tif, tif = "GTC" => limit \in Prices,
         NEW r, r = Place(e, side, n, limit, tif)
  PROVE  Placed(e, side, n, limit, r)
<1> DEFINE id == e.nextId
           opposite == OppositeBookSide(side)
           given == [e EXCEPT !.nextId = @ + 1]
           todo == Matchable(given, opposite, limit)
           m0 == [e |-> given, rem |-> n, todo |-> todo, fills |-> <<>>]
           m == MatchLoop(m0, id, side)[Cardinality(todo)]
           L == <<BookSideOf(side), limit>>
<1>1. /\ e.fills \in Seq(Fills) /\ e.nextId \in Nat /\ e.now \in Nat /\ e.position \in Int
      /\ OwnIdsGivenOut(e)
  BY EngineFields DEF EngineInv
<1>2. /\ EngineInv(given)
      /\ given.book = e.book /\ given.orders = e.orders /\ given.fills = e.fills
      /\ given.nextId = e.nextId + 1 /\ given.now = e.now /\ given.position = e.position
  BY NextIdFacts
<1>3. m = MatchActive(given, id, side, n, limit)
  BY DEF MatchActive
<1>4. /\ r.e = IF m.rem > 0 /\ tif = "GTC" THEN Rest(m.e, Own(id), L, m.rem) ELSE m.e
      /\ r.fills = m.fills
  BY <1>3 DEF Place
<1>5. /\ todo \in SUBSET Prices /\ Cardinality(todo) \in Nat
      /\ todo = Matchable(e, opposite, limit)
      /\ \A p \in todo : given.book[<<opposite, p>>] > 0
  <2>1. todo \in SUBSET Prices /\ \A p \in todo : given.book[<<opposite, p>>] > 0
    BY DEF Matchable
  <2>2. todo = Matchable(e, opposite, limit)
    BY <1>2 DEF Matchable
  <2> HIDE DEF todo
  <2> QED BY <2>1, <2>2, PricesAssumption, FS_Subset, FS_CardinalityType
<1> HIDE DEF given, todo
<1>6. /\ m0 \in MatchStates /\ m0.e = given /\ m0.fills = <<>> /\ m0.rem = n /\ m0.todo = todo
      /\ Told(m0.fills, id, e.now) /\ m0.fills \in Seq(Fills)
  <2>1. given \in Engines
    BY <1>2, EnginesFacts DEF EngineInv
  <2>2. Told(<<>>, id, e.now)
    BY DEF Told
  <2> QED BY <1>2, <1>5, <2>1, <2>2 DEF MatchStates
<1>7. Offered(m0, side)
  BY <1>5 DEF Offered
<1> HIDE DEF m0
<1>8. /\ m \in MatchStates /\ Consumed(given, m.e, e.now) /\ Told(m.fills, id, e.now)
      /\ m.fills \in Seq(Fills) /\ Balanced(m0, m, id) /\ Quiet(m0, m, side)
  BY <1>1, <1>2, <1>5, <1>6, <1>7, MatchLoopFacts, MatchLoopBalances
<1> HIDE DEF m
<1>9. /\ EngineInv(m.e) /\ m.rem \in Nat /\ m.fills \in Seq(ActiveFills)
      /\ DOMAIN m.e.orders \subseteq DOMAIN e.orders
      /\ m.e.fills \in Seq(Fills) /\ m.e.position \in Int
  BY <1>2, <1>8, EngineFields DEF MatchStates, Consumed, EngineInv
<1>10. /\ Net(<<>>) = 0 /\ FilledOf(id, <<>>) = 0 /\ FilledOf(id, m.fills) \in Nat
       /\ \A j \in Nat \ {id} : FilledOf(j, m.fills) = 0
       /\ Net(e.fills) \in Int /\ Net(m.e.fills) \in Int /\ Net(m.fills) \in Int
  <2>1. e.fills \in Seq(ActiveFills) /\ m.e.fills \in Seq(ActiveFills)
    BY <1>1, <1>9, FillsAreActive
  <2>2. \A i \in 1..Len(m.fills) : m.fills[i].id = id
    BY <1>8 DEF Told
  <2>3. Net(<<>>) = 0 /\ Net(m.fills) \in Int /\ Net(e.fills) \in Int /\ Net(m.e.fills) \in Int
    BY <1>9, <2>1, NetFacts
  <2>4. \A j \in Nat \ {id} : FilledOf(j, m.fills) = 0
    <3>1. ASSUME NEW j \in Nat \ {id} PROVE FilledOf(j, m.fills) = 0
      <4>1. \A i \in 1..Len(m.fills) : m.fills[i].id # j
        BY <2>2
      <4> QED BY <1>9, <4>1, FilledFacts
    <3> QED BY <3>1
  <2>5. FilledOf(id, <<>>) = 0
    <3> DEFINE u == <<>>
    <3>1. u \in Seq(ActiveFills) /\ \A i \in 1..Len(u) : u[i].id # id
      OBVIOUS
    <3> HIDE DEF u
    <3>2. FilledOf(id, u) = 0
      BY <3>1, FilledFacts
    <3> QED BY <3>2 DEF u
  <2>6. FilledOf(id, m.fills) \in Nat
    BY <1>9, FilledFacts
  <2> QED BY <2>3, <2>4, <2>5, <2>6
<1>11. /\ m.e.position - Net(m.e.fills) - Net(m.fills) = e.position - Net(e.fills)
       /\ \A j \in Nat : Left(m.e, j) = Left(e, j)
       /\ m.rem + FilledOf(id, m.fills) = n
  <2>1. \A j \in Nat : Left(m.e, j) = Left(given, j)
    BY <1>6, <1>8 DEF Balanced
  <2>2. \A j \in Nat : Left(given, j) = Left(e, j)
    BY <1>2 DEF Left, SizeOf
  <2>3. m.e.position - Net(m.e.fills) - Net(m.fills) = e.position - Net(e.fills) - 0
    BY <1>2, <1>6, <1>8, <1>10 DEF Balanced
  <2>4. m.rem + FilledOf(id, m.fills) = n + 0
    BY <1>6, <1>8, <1>10 DEF Balanced
  <2> QED BY <1>1, <1>9, <1>10, <2>1, <2>2, <2>3, <2>4, SMTT(30)
<1>12. Own(id) \notin DOMAIN e.orders /\ Own(id) \notin DOMAIN m.e.orders
  BY <1>9, FreshId
<1>13. NoneAt(e, {opposite} \X Matchable(e, opposite, limit)) => m.e.fills = e.fills
  <2>1. SUFFICES ASSUME NoneAt(e, {opposite} \X todo) PROVE m.e.fills = e.fills
    BY <1>5
  <2>2. Alone(m0, side)
    BY <1>2, <1>6, <2>1 DEF Alone, NoneAt, OwnOrders
  <2> QED BY <1>2, <1>6, <1>8, <2>2 DEF Quiet
<1>14. /\ r.e.position = m.e.position /\ r.e.fills = m.e.fills
       /\ OrdersBut(m.e, r.e, Own(id))
       /\ SizeOf(r.e, Own(id)) \in {0, m.rem}
       /\ Own(id) \in DOMAIN r.e.orders => SizeOf(r.e, Own(id)) = m.rem
       /\ DOMAIN r.e.orders \subseteq DOMAIN m.e.orders \cup {Own(id)}
  <2>1. CASE m.rem > 0 /\ tif = "GTC"
    <3>1. r.e = Rest(m.e, Own(id), L, m.rem)
      BY <1>4, <2>1
    <3> HIDE DEF L
    <3>2. DOMAIN m.e = Fields
      BY <1>9, EngineFields DEF EngineInv
    <3>3. /\ r.e.orders = Put(m.e.orders, Own(id), [level |-> L, size |-> m.rem])
          /\ r.e.position = m.e.position /\ r.e.fills = m.e.fills
      BY <3>1, <3>2 DEF Rest, Fields
    <3>4. OrdersBut(m.e, r.e, Own(id)) /\ SizeOf(r.e, Own(id)) = m.rem
      BY <3>3, PutFacts
    <3>5. DOMAIN r.e.orders = DOMAIN m.e.orders \cup {Own(id)}
      BY <3>3 DEF Put
    <3> QED BY <3>3, <3>4, <3>5
  <2>2. CASE ~(m.rem > 0 /\ tif = "GTC")
    <3>1. r.e = m.e
      BY <1>4, <2>2
    <3> QED BY <1>12, <3>1 DEF OrdersBut, SizeOf
  <2> QED BY <2>1, <2>2
<1>15. \A j \in Nat \ {id} : Left(r.e, j) = Left(e, j)
  <2>1. ASSUME NEW j \in Nat \ {id} PROVE Left(r.e, j) = Left(e, j)
    <3>1. Own(j) # Own(id)
      BY DEF Own
    <3>2. SizeOf(r.e, Own(j)) = SizeOf(m.e, Own(j))
      BY <1>14, <3>1 DEF OrdersBut
    <3> QED BY <1>11, <1>14, <3>2 DEF Left
  <2> QED BY <2>1
<1>16. /\ Left(r.e, id) = SizeOf(r.e, Own(id)) + Left(e, id)
       /\ Left(e, id) \in Nat
  <2>1. SizeOf(m.e, Own(id)) = 0 /\ SizeOf(e, Own(id)) = 0
    BY <1>12 DEF SizeOf
  <2>2. FilledOf(id, m.e.fills) \in Nat /\ FilledOf(id, e.fills) \in Nat
    BY <1>1, <1>9, FillsAreActive, FilledFacts
  <2>3. Left(m.e, id) = FilledOf(id, m.e.fills) /\ Left(e, id) = FilledOf(id, e.fills)
    BY <2>1, <2>2 DEF Left
  <2>4. Left(r.e, id) = SizeOf(r.e, Own(id)) + FilledOf(id, m.e.fills)
    BY <1>14 DEF Left
  <2> QED BY <1>1, <1>11, <2>2, <2>3, <2>4
<1>17. SizeOf(r.e, Own(id)) \in Nat
  BY <1>9, <1>14
<1>18. /\ Left(r.e, id) + FilledOf(id, m.fills) <= n + Left(e, id)
       /\ Own(id) \in DOMAIN r.e.orders => Left(r.e, id) + FilledOf(id, m.fills) = n + Left(e, id)
  <2> DEFINE s == SizeOf(r.e, Own(id))
             g == FilledOf(id, m.fills)
             k == Left(e, id)
  <2>1. /\ s \in Nat /\ g \in Nat /\ k \in Nat /\ m.rem \in Nat /\ m.rem + g = n
        /\ Left(r.e, id) = s + k /\ s \in {0, m.rem}
        /\ Own(id) \in DOMAIN r.e.orders => s = m.rem
    BY <1>9, <1>10, <1>11, <1>14, <1>16, <1>17
  <2> HIDE DEF s, g, k, id
  <2>2. Left(r.e, id) + g <= n + k
    BY <2>1
  <2>3. Own(id) \in DOMAIN r.e.orders => Left(r.e, id) + g = n + k
    BY <2>1
  <2> QED BY <2>2, <2>3 DEF g, k
<1>19. \A x \in DOMAIN r.e.orders : x # Own(id) => x \in DOMAIN e.orders
  BY <1>9, <1>14
<1>20. /\ r.fills \in Seq(Fills)
       /\ r.e.position - Net(r.e.fills) - Net(r.fills) = e.position - Net(e.fills)
       /\ \A j \in Nat \ {id} : Left(r.e, j) = Left(e, j) /\ FilledOf(j, r.fills) = 0
       /\ Left(r.e, id) + FilledOf(id, r.fills) <= n + Left(e, id)
       /\ Own(id) \in DOMAIN r.e.orders
             => Left(r.e, id) + FilledOf(id, r.fills) = n + Left(e, id)
       /\ NoneAt(e, {opposite} \X Matchable(e, opposite, limit)) => r.e.fills = e.fills
       /\ \A x \in DOMAIN r.e.orders : x # Own(id) => x \in DOMAIN e.orders
  BY <1>4, <1>8, <1>10, <1>11, <1>13, <1>14, <1>15, <1>18, <1>19
<1> QED BY <1>20 DEF Placed

(***************************************************************************)
(* Events of the feed and cancels.                                         *)
(***************************************************************************)

(* The account of own orders is settled: nobody gained or lost anything    *)
(* that a passive fill does not tell, and no own order came into being.     *)
Settled(e, f) ==
  /\ f.position - Net(f.fills) = e.position - Net(e.fills)
  /\ \A j \in Nat : Left(f, j) = Left(e, j)
  /\ \A x \in DOMAIN f.orders : IsOwn(x) => x \in DOMAIN e.orders

LEMMA OwnUntouched ==
  ASSUME NEW e, NEW f, NEW x, ~IsOwn(x), OrdersBut(e, f, x), f.fills = e.fills,
         f.position = e.position, DOMAIN f.orders \subseteq DOMAIN e.orders \cup {x}
  PROVE  Settled(e, f)
<1>1. \A j \in Nat : Own(j) # x
  BY EntryFacts
<1> QED BY <1>1 DEF Settled, Left, OrdersBut

LEMMA SetSizeBut ==
  ASSUME NEW e, NEW f, e.orders \in [DOMAIN e.orders -> Orders], NEW x \in DOMAIN e.orders,
         NEW n \in Nat, f.orders = SetSize(e.orders, x, n)
  PROVE  OrdersBut(e, f, x) /\ DOMAIN f.orders \subseteq DOMAIN e.orders
<1> DEFINE a == e.orders
           b == f.orders
<1>1. a \in [DOMAIN a -> Orders] /\ x \in DOMAIN a /\ b = SetSize(a, x, n)
  OBVIOUS
<1> HIDE DEF a, b
<1>2. /\ DOMAIN b \subseteq DOMAIN a
      /\ \A y \in DOMAIN a : y \in DOMAIN b <=> y # x \/ n # 0
      /\ \A y \in DOMAIN b : y # x => b[y] = a[y]
  BY <1>1, SetSizeFacts
<1> QED BY <1>2 DEF OrdersBut, SizeOf, a, b

LEMMA ApplyEventSettles ==
  ASSUME NEW e, EngineInv(e), NEW ev \in MBOEvents
  PROVE  Settled(e, ApplyEvent(e, ev))
<1> DEFINE now == [e EXCEPT !.now = ev.ts]
           f == ApplyEvent(e, ev)
           x == Public(ev.id)
<1>1. /\ DOMAIN e = Fields
      /\ e.book \in [Levels -> Nat] /\ e.queues \in [Levels -> Seq(Entries)]
      /\ e.orders \in [DOMAIN e.orders -> Orders] /\ DOMAIN e.orders \subseteq Entries
      /\ e.fills \in Seq(Fills) /\ e.nextId \in Nat /\ e.now \in Nat /\ e.position \in Int
  BY EngineFields DEF EngineInv
<1>2. /\ ev.ts \in Nat /\ ev.level \in Levels /\ ev.size \in Nat \ {0} /\ ev.size \in Nat
      /\ ev.action \in {"add", "cancel", "modify", "trade"} /\ ~IsOwn(x)
  BY EntryFacts DEF MBOEvents
<1>3. /\ now.book = e.book /\ now.orders = e.orders /\ now.queues = e.queues
      /\ now.fills = e.fills /\ now.nextId = e.nextId /\ now.now = ev.ts
      /\ now.position = e.position
      /\ DOMAIN now = Fields /\ now = [k \in DOMAIN now |-> now[k]]
  BY <1>1 DEF Fields
<1> HIDE DEF x
<1>4. CASE ev.action = "trade"
  <2>1. f = ConsumeLevel(now, ev.level, ev.size, ev.ts)
    BY <1>4 DEF ApplyEvent
  <2> HIDE DEF now, f
  <2>2. EngineInv(now)
    <3>1. EngineOK(now)
      BY <1>1, <1>2, <1>3, EngineFields
    <3>2. OwnQueued(now) /\ OwnIdsGivenOut(now)
      BY <1>3 DEF EngineInv, OwnQueued, OwnIdsGivenOut, OwnOrders
    <3> QED BY <3>1, <3>2 DEF EngineInv
  <2>3. Takes(now, f, ev.level) /\ Consumed(now, f, ev.ts)
    BY <1>2, <2>1, <2>2, ConsumeLevelTakes, ConsumeLevelFacts
  <2>4. \A j \in Nat : Left(now, j) = Left(e, j)
    BY <1>3 DEF Left, SizeOf
  <2>5. Settled(e, f)
    BY <1>3, <2>3, <2>4 DEF Settled, Takes, Consumed
  <2> QED BY <2>5 DEF f
<1>5. CASE ev.action # "trade"
  <2>1. /\ f.fills = e.fills /\ f.position = e.position
        /\ \/ f.orders = e.orders
           \/ x \in DOMAIN e.orders /\ \E n \in Nat : f.orders = SetSize(e.orders, x, n)
           \/ \E L, n : f.orders = Put(e.orders, x, [level |-> L, size |-> n])
    <3>1. ASSUME NEW n \in Nat, f = Resize(now, x, n), x \in DOMAIN e.orders
          PROVE  f.fills = e.fills /\ f.position = e.position /\ f.orders = SetSize(e.orders, x, n)
      <4> HIDE DEF f, now
      <4> QED BY <1>3, <3>1 DEF Resize, Fields
    <3>2. ASSUME NEW L, NEW n, f = Rest(now, x, L, n)
          PROVE  /\ f.fills = e.fills /\ f.position = e.position
                 /\ f.orders = Put(e.orders, x, [level |-> L, size |-> n])
      <4> HIDE DEF f, now
      <4> QED BY <1>3, <3>2 DEF Rest, Fields
    <3>3. CASE ev.action = "add"
      <4>1. f = Rest(now, x, ev.level, ev.size)
        BY <3>3 DEF ApplyEvent, x
      <4> HIDE DEF f, now
      <4> QED BY <3>2, <4>1
    <3>4. CASE ev.action = "cancel"
      <4>1. f = CancelPublic(now, ev)
        BY <3>4 DEF ApplyEvent
      <4> HIDE DEF f, now
      <4>2. CASE x \notin DOMAIN now.orders
        <5>1. f = [now EXCEPT !.book = RemoveFromBook(@, ev.level, ev.size)]
          BY <4>1, <4>2 DEF CancelPublic, x
        <5> QED BY <1>3, <5>1 DEF Fields
      <4>3. CASE x \in DOMAIN now.orders
        <5> DEFINE k == now.orders[x].size
                   n == k - Lesser(k, ev.size)
        <5>1. f = Resize(now, x, n)
          BY <4>1, <4>3 DEF CancelPublic, x
        <5>2. k \in Nat
          BY <1>1, <1>3, <4>3 DEF Orders
        <5>3. n \in Nat
          <6> HIDE DEF k
          <6> QED BY <1>2, <5>2 DEF Lesser
        <5> HIDE DEF n
        <5> QED BY <1>3, <3>1, <4>3, <5>1, <5>3
      <4> QED BY <4>2, <4>3
    <3>5. CASE ev.action = "modify"
      <4>1. f = ModifyPublic(now, ev)
        BY <3>5 DEF ApplyEvent
      <4> HIDE DEF f, now
      <4>2. CASE x \notin DOMAIN now.orders
        <5>1. f = Rest(now, x, ev.level, ev.size)
          BY <4>1, <4>2 DEF ModifyPublic, x
        <5> QED BY <3>2, <5>1
      <4>3. CASE x \in DOMAIN now.orders /\ now.orders[x].level = ev.level
        <5>1. f = Resize(now, x, ev.size)
          BY <4>1, <4>3 DEF ModifyPublic, x
        <5> QED BY <1>2, <1>3, <3>1, <4>3, <5>1
      <4>4. CASE x \in DOMAIN now.orders /\ now.orders[x].level # ev.level
        <5> DEFINE o == now.orders[x]
                   left == [now EXCEPT !.book = RemoveFromBook(@, o.level, o.size),
                                       !.queues = Dequeue(@, o.level, x)]
        <5>1. f = MovePublic(now, x, ev.level, ev.size)
          BY <4>1, <4>4 DEF ModifyPublic, x
        <5>2. f = Rest(left, x, ev.level, ev.size)
          BY <5>1 DEF MovePublic
        <5>3. /\ DOMAIN left = Fields /\ left.orders = e.orders /\ left.fills = e.fills
              /\ left.position = e.position
          BY <1>3 DEF Fields
        <5> HIDE DEF left
        <5>4. /\ f.orders = Put(e.orders, x, [level |-> ev.level, size |-> ev.size])
              /\ f.fills = e.fills /\ f.position = e.position
          BY <5>2, <5>3 DEF Rest, Fields
        <5> QED BY <5>4
      <4> QED BY <4>2, <4>3, <4>4
    <3> HIDE DEF f, now
    <3> QED BY <1>2, <1>5, <3>3, <3>4, <3>5
  <2> HIDE DEF f, now
  <2>2. OrdersBut(e, f, x) /\ DOMAIN f.orders \subseteq DOMAIN e.orders \cup {x}
    <3>1. CASE f.orders = e.orders
      BY <3>1 DEF OrdersBut, SizeOf
    <3>2. ASSUME NEW n \in Nat, x \in DOMAIN e.orders, f.orders = SetSize(e.orders, x, n)
          PROVE  OrdersBut(e, f, x) /\ DOMAIN f.orders \subseteq DOMAIN e.orders \cup {x}
      BY <1>1, <3>2, SetSizeBut
    <3>3. ASSUME NEW L, NEW n, f.orders = Put(e.orders, x, [level |-> L, size |-> n])
          PROVE  OrdersBut(e, f, x) /\ DOMAIN f.orders \subseteq DOMAIN e.orders \cup {x}
      <4>1. OrdersBut(e, f, x)
        BY <3>3, PutFacts
      <4>2. DOMAIN f.orders = DOMAIN e.orders \cup {x}
        BY <3>3 DEF Put
      <4> QED BY <4>1, <4>2
    <3> QED BY <2>1, <3>1, <3>2, <3>3
  <2>3. Settled(e, f)
    BY <1>2, <2>1, <2>2, OwnUntouched
  <2> QED BY <2>3 DEF f
<1> QED BY <1>4, <1>5

(* A cancel takes an own order away and changes no fill.                    *)
LEMMA CancelOwnAccounts ==
  ASSUME NEW e, EngineInv(e), NEW id \in Nat
  PROVE  /\ CancelOwn(e, id).position = e.position /\ CancelOwn(e, id).fills = e.fills
         /\ \A j \in Nat : Left(CancelOwn(e, id), j) <= Left(e, j)
         /\ \A j \in Nat : Own(j) \in DOMAIN CancelOwn(e, id).orders
               => Own(j) \in DOMAIN e.orders /\ Left(CancelOwn(e, id), j) = Left(e, j)
         /\ Own(id) \notin DOMAIN CancelOwn(e, id).orders
<1> DEFINE x == Own(id)
           f == CancelOwn(e, id)
<1>1. /\ DOMAIN e = Fields /\ e.fills \in Seq(Fills)
      /\ e.orders \in [DOMAIN e.orders -> Orders]
  BY EngineFields DEF EngineInv
<1>2. \A j \in Nat : Left(e, j) \in Nat /\ FilledOf(j, e.fills) \in Nat
  <2>1. ASSUME NEW j \in Nat PROVE Left(e, j) \in Nat /\ FilledOf(j, e.fills) \in Nat
    <3>1. FilledOf(j, e.fills) \in Nat
      BY <1>1, FillsAreActive, FilledFacts
    <3>2. SizeOf(e, Own(j)) \in Nat
      BY <1>1 DEF SizeOf, Orders
    <3> QED BY <3>1, <3>2 DEF Left
  <2> QED BY <2>1
<1>3. CASE x \notin DOMAIN e.orders
  <2>1. f = e
    BY <1>3 DEF CancelOwn
  <2> HIDE DEF f
  <2> QED BY <1>2, <1>3, <2>1 DEF f
<1>4. CASE x \in DOMAIN e.orders
  <2>1. f.orders = Drop(e.orders, x) /\ f.fills = e.fills /\ f.position = e.position
    BY <1>1, <1>4 DEF CancelOwn, Fields
  <2>2. /\ DOMAIN f.orders = DOMAIN e.orders \ {x}
        /\ \A y \in DOMAIN f.orders : f.orders[y] = e.orders[y]
    BY <2>1 DEF Drop
  <2> HIDE DEF f
  <2>3. ASSUME NEW j \in Nat
        PROVE  /\ Left(f, j) <= Left(e, j)
               /\ Own(j) \in DOMAIN f.orders
                    => Own(j) \in DOMAIN e.orders /\ Left(f, j) = Left(e, j)
    <3>1. CASE Own(j) \in DOMAIN f.orders
      <4>1. SizeOf(f, Own(j)) = SizeOf(e, Own(j)) /\ Own(j) \in DOMAIN e.orders
        BY <2>2, <3>1 DEF SizeOf
      <4>2. Left(f, j) = Left(e, j)
        BY <2>1, <4>1 DEF Left
      <4> QED BY <1>2, <4>1, <4>2
    <3>2. CASE Own(j) \notin DOMAIN f.orders
      <4>1. SizeOf(f, Own(j)) = 0
        BY <3>2 DEF SizeOf
      <4>2. SizeOf(e, Own(j)) \in Nat
        BY <1>1 DEF SizeOf, Orders
      <4>3. FilledOf(j, f.fills) = FilledOf(j, e.fills) /\ FilledOf(j, e.fills) \in Nat
        BY <1>2, <2>1
      <4> QED BY <3>2, <4>1, <4>2, <4>3 DEF Left
    <3> QED BY <3>1, <3>2
  <2> QED BY <2>1, <2>2, <2>3 DEF f
<1> QED BY <1>3, <1>4

(* The slice a call returns is what it appended.                           *)
LEMMA NewFillsAppended ==
  ASSUME NEW e, NEW f, e.fills \in Seq(Fills), f.fills \in Seq(Fills),
         NEW ts, NEW next, FillsGrow(e.fills, f.fills, ts, next)
  PROVE  NewFills(e, f) \in Seq(Fills) /\ f.fills = e.fills \o NewFills(e, f)
<1> DEFINE u == e.fills
           v == f.fills
           w == SubSeq(v, Len(u) + 1, Len(v))
<1>1. u \in Seq(Fills) /\ v \in Seq(Fills) /\ Len(u) \in Nat /\ Len(v) \in Nat
      /\ Len(u) <= Len(v) /\ \A i \in 1..Len(u) : v[i] = u[i]
  BY DEF FillsGrow
<1>2. NewFills(e, f) = w
  BY DEF NewFills
<1> HIDE DEF u, v
<1>3. /\ w \in Seq(Fills) /\ Len(w) = Len(v) - Len(u)
      /\ \A i \in 1..(Len(v) - Len(u)) : w[i] = v[Len(u) + i]
  BY <1>1
<1> HIDE DEF w
<1>4. u \o w \in Seq(Fills) /\ Len(u \o w) = Len(v)
  BY <1>1, <1>3
<1>5. ASSUME NEW i \in 1..Len(v) PROVE (u \o w)[i] = v[i]
  <2>1. CASE i <= Len(u)
    BY <1>1, <1>3, <2>1
  <2>2. CASE i > Len(u)
    <3>1. i - Len(u) \in 1..(Len(v) - Len(u)) /\ Len(u) + (i - Len(u)) = i
      BY <1>1, <2>2
    <3>2. (u \o w)[i] = w[i - Len(u)]
      BY <1>1, <1>3, <2>2
    <3> QED BY <1>3, <3>1, <3>2
  <2>3. i <= Len(u) \/ i > Len(u)
    BY <1>1
  <2> QED BY <2>1, <2>2, <2>3
<1>6. v = u \o w
  <2> DEFINE q == u \o w
  <2>0. q \in Seq(Fills) /\ Len(q) = Len(v) /\ v \in Seq(Fills)
    BY <1>1, <1>4
  <2>2. \A i \in 1..Len(v) : q[i] = v[i]
    BY <1>5
  <2> HIDE DEF q
  <2>1. q \in [1..Len(v) -> Fills] /\ v \in [1..Len(v) -> Fills]
    <3>1. \A s \in Seq(Fills) : s \in [1..Len(s) -> Fills]
      OBVIOUS
    <3> QED BY <2>0, <3>1
  <2>3. v = q
    BY <2>1, <2>2
  <2> QED BY <2>3 DEF q
<1> QED BY <1>2, <1>3, <1>6 DEF u, v

(* The fills are of orders with an id below next.                          *)
GivenOut(fills, next) == \A i \in 1..Len(fills) : fills[i].id \in FirstOwnId..(next - 1)

LEMMA GivenOutConcat ==
  ASSUME NEW T, NEW s \in Seq(T), NEW t \in Seq(T), NEW next, GivenOut(s, next), GivenOut(t, next)
  PROVE  GivenOut(s \o t, next)
<1>1. /\ Len(s) \in Nat /\ Len(t) \in Nat /\ Len(s \o t) = Len(s) + Len(t)
      /\ \A i \in 1..Len(s) : (s \o t)[i] = s[i]
      /\ \A i \in (Len(s) + 1)..(Len(s) + Len(t)) :
            (s \o t)[i] = t[i - Len(s)] /\ i - Len(s) \in 1..Len(t)
      /\ \A i \in 1..(Len(s) + Len(t)) :
            i \in 1..Len(s) \/ i \in (Len(s) + 1)..(Len(s) + Len(t))
  OBVIOUS
<1> QED BY <1>1 DEF GivenOut

LEMMA GivenOutStays ==
  ASSUME NEW T, NEW u \in Seq(T), NEW v \in Seq(T), NEW ts, NEW next,
         FillsGrow(u, v, ts, next), GivenOut(u, next)
  PROVE  GivenOut(v, next)
<1>1. /\ Len(u) \in Nat /\ Len(v) \in Nat
      /\ \A i \in 1..Len(v) : i \in 1..Len(u) \/ i \in Len(u) + 1..Len(v)
  OBVIOUS
<1> QED BY <1>1 DEF FillsGrow, GivenOut

LEMMA GivenOutLater ==
  ASSUME NEW fills, NEW next \in Nat, NEW later \in Nat, next <= later, GivenOut(fills, next)
  PROVE  GivenOut(fills, later)
<1>1. FirstOwnId..(next - 1) \subseteq FirstOwnId..(later - 1)
  BY FirstOwnIdAssumption
<1> QED BY <1>1 DEF GivenOut

(* An order that has no id yet has no fills.                               *)
LEMMA NoFillsYet ==
  ASSUME NEW s \in Seq(Fills), NEW next \in Nat, GivenOut(s, next)
  PROVE  FilledOf(next, s) = 0
<1>1. \A i \in 1..Len(s) : s[i].id # next
  BY FirstOwnIdAssumption DEF GivenOut
<1> QED BY <1>1, FillsAreActive, FilledFacts

----------------------------------------------------------------------------

(* The times of s are in order and between lo and hi.                      *)
InTime(s, lo, hi) ==
  /\ \A i \in 1..Len(s) : lo <= s[i].ts /\ s[i].ts <= hi
  /\ \A i, j \in 1..Len(s) : i < j => s[i].ts <= s[j].ts

LEMMA InTimeEmpty ==
  ASSUME NEW lo, NEW hi
  PROVE  InTime(<<>>, lo, hi)
  BY DEF InTime

LEMMA InTimeLater ==
  ASSUME NEW T, \A x \in T : x.ts \in Nat, NEW s \in Seq(T),
         NEW lo \in Nat, NEW mid \in Nat, NEW hi \in Nat, mid <= hi, InTime(s, lo, mid)
  PROVE  InTime(s, lo, hi)
<1>1. \A i \in 1..Len(s) : s[i].ts \in Nat
  OBVIOUS
<1> QED BY <1>1 DEF InTime

(* What is appended no earlier than the rest keeps the order.              *)
LEMMA InTimeConcat ==
  ASSUME NEW T, \A x \in T : x.ts \in Nat, NEW s \in Seq(T), NEW t \in Seq(T),
         NEW lo \in Nat, NEW mid \in Nat, NEW hi \in Nat, lo <= mid, mid <= hi,
         InTime(s, lo, mid), InTime(t, mid, hi)
  PROVE  InTime(s \o t, lo, hi)
<1> DEFINE m == Len(s)
           n == Len(t)
           u == s \o t
<1>1. /\ m \in Nat /\ n \in Nat /\ Len(u) = m + n
      /\ \A i \in 1..m : u[i] = s[i] /\ s[i].ts \in Nat
      /\ \A i \in (m + 1)..(m + n) : u[i] = t[i - m]
      /\ \A i \in 1..n : t[i].ts \in Nat
  OBVIOUS
<1>2. /\ \A i \in 1..m : lo <= s[i].ts /\ s[i].ts <= mid
      /\ \A i, j \in 1..m : i < j => s[i].ts <= s[j].ts
      /\ \A i \in 1..n : mid <= t[i].ts /\ t[i].ts <= hi
      /\ \A i, j \in 1..n : i < j => t[i].ts <= t[j].ts
  BY DEF InTime
<1> HIDE DEF m, n, u
<1>3. \A i \in 1..(m + n) :
         \/ i \in 1..m /\ u[i].ts = s[i].ts
         \/ i - m \in 1..n /\ i > m /\ u[i].ts = t[i - m].ts
  <2>1. SUFFICES ASSUME NEW i \in 1..(m + n), i \notin 1..m
                 PROVE  i - m \in 1..n /\ i > m /\ u[i].ts = t[i - m].ts
    BY <1>1
  <2>2. i \in (m + 1)..(m + n) /\ i - m \in 1..n /\ i > m
    BY <1>1, <2>1
  <2> QED BY <1>1, <2>2
<1>4. ASSUME NEW i \in 1..(m + n) PROVE lo <= u[i].ts /\ u[i].ts <= hi
  <2>1. CASE i \in 1..m
    <3>1. lo <= s[i].ts /\ s[i].ts <= mid /\ s[i].ts \in Nat
      BY <1>1, <1>2, <2>1
    <3>2. u[i] = s[i]
      BY <1>1, <2>1
    <3> HIDE DEF m
    <3> QED BY <3>1, <3>2
  <2>2. CASE i \notin 1..m
    <3>1. i - m \in 1..n /\ u[i].ts = t[i - m].ts
      BY <1>1, <1>3, <2>2
    <3> QED BY <1>1, <1>2, <3>1
  <2> QED BY <2>1, <2>2
<1>5. ASSUME NEW i \in 1..(m + n), NEW j \in 1..(m + n), i < j
      PROVE  u[i].ts <= u[j].ts
  <2>1. CASE i \in 1..m /\ j \in 1..m
    BY <1>1, <1>2, <1>5, <2>1
  <2>2. CASE i \in 1..m /\ j \notin 1..m
    <3>1. j - m \in 1..n /\ u[j].ts = t[j - m].ts /\ u[i].ts = s[i].ts
      BY <1>1, <1>3, <2>2
    <3> QED BY <1>1, <1>2, <2>2, <3>1
  <2>3. CASE i \notin 1..m
    <3>1. i - m \in 1..n /\ j - m \in 1..n /\ i - m < j - m
          /\ u[j].ts = t[j - m].ts /\ u[i].ts = t[i - m].ts
      BY <1>1, <1>3, <1>5, <2>3
    <3> QED BY <1>2, <3>1
  <2> QED BY <2>1, <2>2, <2>3
<1> QED BY <1>1, <1>4, <1>5 DEF InTime, u

LEMMA InTimeAppend ==
  ASSUME NEW T, \A x \in T : x.ts \in Nat, NEW s \in Seq(T), NEW x \in T,
         NEW lo \in Nat, NEW hi \in Nat, InTime(s, lo, hi), hi <= x.ts, lo <= hi
  PROVE  InTime(Append(s, x), lo, x.ts)
<1> DEFINE u == Append(s, x)
           m == Len(s)
<1>1. /\ m \in Nat /\ Len(u) = m + 1 /\ u[m + 1] = x /\ x.ts \in Nat
      /\ \A i \in 1..m : u[i] = s[i] /\ s[i].ts \in Nat
  OBVIOUS
<1> HIDE DEF u
<1>2. \A i \in 1..m : lo <= s[i].ts /\ s[i].ts <= hi
  BY DEF InTime
<1>3. \A i, j \in 1..m : i < j => s[i].ts <= s[j].ts
  BY DEF InTime
<1> HIDE DEF m
<1>4. \A i \in 1..(m + 1) : lo <= u[i].ts /\ u[i].ts <= x.ts
  BY <1>1, <1>2
<1>5. ASSUME NEW i \in 1..(m + 1), NEW j \in 1..(m + 1), i < j
      PROVE  u[i].ts <= u[j].ts
  <2>1. CASE j \in 1..m
    BY <1>1, <1>3, <1>5, <2>1
  <2>2. CASE j \notin 1..m
    <3>1. j = m + 1 /\ u[j] = x
      BY <1>1, <2>2
    <3> QED BY <1>4, <3>1
  <2> QED BY <2>1, <2>2
<1> QED BY <1>1, <1>4, <1>5 DEF InTime, u

(* The fills an event gave: those past the old ones.                       *)
LEMMA NewFillsFacts ==
  ASSUME NEW e, NEW f, e.fills \in Seq(Fills), f.fills \in Seq(Fills),
         NEW ts \in Nat, NEW next, FillsGrow(e.fills, f.fills, ts, next)
  PROVE  /\ NewFills(e, f) \in Seq(Fills)
         /\ InTime(NewFills(e, f), ts, ts)
         /\ GivenOut(NewFills(e, f), next)
<1> DEFINE u == e.fills
           v == f.fills
           w == SubSeq(v, Len(u) + 1, Len(v))
<1>1. u \in Seq(Fills) /\ v \in Seq(Fills) /\ Len(u) \in Nat /\ Len(v) \in Nat
      /\ Len(u) <= Len(v)
  BY DEF FillsGrow
<1>2. \A i \in (Len(u) + 1)..Len(v) : v[i].ts = ts /\ v[i].id \in FirstOwnId..(next - 1)
  BY DEF FillsGrow
<1>3. NewFills(e, f) = w
  BY DEF NewFills
<1> HIDE DEF u, v
<1>4. /\ w \in Seq(Fills) /\ Len(w) = Len(v) - Len(u)
      /\ \A i \in 1..(Len(v) - Len(u)) : w[i] = v[Len(u) + i]
  BY <1>1
<1> HIDE DEF w
<1>5. \A i \in 1..(Len(v) - Len(u)) : Len(u) + i \in (Len(u) + 1)..Len(v)
  BY <1>1
<1>6. \A i \in 1..Len(w) : w[i].ts = ts /\ w[i].id \in FirstOwnId..(next - 1)
  BY <1>2, <1>4, <1>5
<1> QED BY <1>3, <1>4, <1>6 DEF InTime, GivenOut

(***************************************************************************)
(* Valuation marks.                                                        *)
(***************************************************************************)

Marks == [ts : Nat, mid2 : Nat]

(* The last mark is the midpoint of the book, if it has one.               *)
Valued(e, marks) ==
  TwoSided(e) => marks # <<>> /\ marks[Len(marks)].mid2 = DoubleMid(e)

LEMMA MidFacts ==
  ASSUME NEW e, TwoSided(e)
  PROVE  DoubleMid(e) \in Nat
<1> DEFINE Q == Quoted(e, "bid")
           R == Quoted(e, "ask")
           b == Best("bid", Q)
           a == Best("ask", R)
<1>1. Q \in SUBSET Prices /\ R \in SUBSET Prices /\ Q # {} /\ R # {}
  BY DEF Quoted, TwoSided
<1>2. DoubleMid(e) = b + a
  BY DEF DoubleMid, Best
<1> HIDE DEF Q, R
<1>3. b \in Prices /\ a \in Prices
  BY <1>1, BestFacts
<1> HIDE DEF a, b
<1>4. b \in Nat /\ a \in Nat
  BY <1>3, PricesAssumption
<1> QED BY <1>2, <1>4

LEMMA MarkedFacts ==
  ASSUME NEW e, NEW marks \in Seq(Marks), NEW hi \in Nat, NEW ts \in Nat, hi <= ts,
         InTime(marks, 0, hi)
  PROVE  /\ Marked(marks, e, ts) \in Seq(Marks)
         /\ InTime(Marked(marks, e, ts), 0, ts)
         /\ Valued(e, Marked(marks, e, ts))
<1>1. \A x \in Marks : x.ts \in Nat
  BY DEF Marks
<1>2. CASE TwoSided(e)
  <2> DEFINE x == [ts |-> ts, mid2 |-> DoubleMid(e)]
  <2>1. Marked(marks, e, ts) = Append(marks, x)
    BY <1>2 DEF Marked
  <2>2. DoubleMid(e) \in Nat
    BY <1>2, MidFacts
  <2>3. x \in Marks /\ x.ts = ts /\ x.mid2 = DoubleMid(e)
    BY <2>2 DEF Marks
  <2> HIDE DEF x
  <2>4. InTime(Append(marks, x), 0, x.ts)
    BY <1>1, <2>3, InTimeAppend
  <2>5. /\ Append(marks, x) \in Seq(Marks) /\ Append(marks, x) # <<>>
        /\ Append(marks, x)[Len(Append(marks, x))] = x
    BY <2>3
  <2> QED BY <2>1, <2>3, <2>4, <2>5 DEF Valued
<1>3. CASE ~TwoSided(e)
  <2>1. Marked(marks, e, ts) = marks
    BY <1>3 DEF Marked
  <2>2. InTime(marks, 0, ts)
    BY <1>1, InTimeLater
  <2> QED BY <1>3, <2>1, <2>2 DEF Valued
<1> QED BY <1>2, <1>3

(***************************************************************************)
(* The event loop.                                                         *)
(***************************************************************************)

InTimeOrder(d) == \A i, j \in 1..Len(d) : i <= j => d[i].ts <= d[j].ts

ReplayStates ==
  {r \in [engine : Engines, fills : Seq(Fills), marks : Seq(Marks)] : EngineInv(r.engine)}

(* What a loop that began at lo with next id next has done by hi.          *)
Progress(r, next, lo, hi) ==
  /\ r \in ReplayStates
  /\ r.engine.nextId = next
  /\ InTime(r.fills, lo, hi) /\ GivenOut(r.fills, next)
  /\ InTime(r.marks, 0, hi) /\ Valued(r.engine, r.marks)

LEMMA ReplayStepFacts ==
  ASSUME NEW r \in ReplayStates, NEW ev \in MBOEvents
  PROVE  /\ ReplayStep(r, ev) \in ReplayStates
         /\ \A next \in Nat, lo \in Nat, hi \in Nat :
               lo <= hi /\ hi <= ev.ts /\ Progress(r, next, lo, hi)
                  => Progress(ReplayStep(r, ev), next, lo, ev.ts)
<1> DEFINE f == ApplyEvent(r.engine, ev)
           new == NewFills(r.engine, f)
           marks == Marked(r.marks, f, ev.ts)
           t == ReplayStep(r, ev)
<1>1. t.engine = f /\ t.fills = r.fills \o new /\ t.marks = marks
      /\ t = [engine |-> f, fills |-> r.fills \o new, marks |-> marks]
  BY DEF ReplayStep
<1>2. /\ EngineInv(r.engine) /\ r.fills \in Seq(Fills) /\ r.marks \in Seq(Marks)
      /\ ev.ts \in Nat /\ r.engine.fills \in Seq(Fills)
  BY EngineFields DEF ReplayStates, EngineInv, MBOEvents
<1> HIDE DEF t
<1>3. /\ EngineInv(f) /\ f.nextId = r.engine.nextId
      /\ FillsGrow(r.engine.fills, f.fills, ev.ts, r.engine.nextId)
  BY <1>2, ApplyEventFacts
<1> HIDE DEF f
<1>4. f \in Engines /\ f.fills \in Seq(Fills)
  BY <1>3, EnginesFacts, EngineFields DEF EngineInv
<1>5. new \in Seq(Fills) /\ InTime(new, ev.ts, ev.ts) /\ GivenOut(new, r.engine.nextId)
  BY <1>2, <1>3, <1>4, NewFillsFacts
<1> HIDE DEF new
<1>6. marks \in Seq(Marks)
  <2>1. CASE TwoSided(f)
    <3>1. [ts |-> ev.ts, mid2 |-> DoubleMid(f)] \in Marks
      BY <1>2, <2>1, MidFacts DEF Marks
    <3> QED BY <1>2, <2>1, <3>1 DEF Marked
  <2>2. CASE ~TwoSided(f)
    BY <1>2, <2>2 DEF Marked
  <2> QED BY <2>1, <2>2
<1>7. t \in ReplayStates
  <2>1. r.fills \o new \in Seq(Fills)
    BY <1>2, <1>5
  <2> HIDE DEF marks
  <2> QED BY <1>1, <1>3, <1>4, <1>6, <2>1 DEF ReplayStates
<1>8. ASSUME NEW next \in Nat, NEW lo \in Nat, NEW hi \in Nat, lo <= hi, hi <= ev.ts,
             Progress(r, next, lo, hi)
      PROVE  Progress(t, next, lo, ev.ts)
  <2>1. /\ r.engine.nextId = next /\ InTime(r.fills, lo, hi) /\ GivenOut(r.fills, next)
        /\ InTime(r.marks, 0, hi)
    BY <1>8 DEF Progress
  <2>2. \A x \in Fills : x.ts \in Nat
    BY DEF Fills
  <2>3. InTime(new, hi, ev.ts)
    <3>1. \A i \in 1..Len(new) : new[i].ts \in Nat
      BY <1>5, <2>2
    <3>2. \A i \in 1..Len(new) : ev.ts <= new[i].ts /\ new[i].ts <= ev.ts
      BY <1>5 DEF InTime
    <3>3. \A i, j \in 1..Len(new) : i < j => new[i].ts <= new[j].ts
      BY <1>5 DEF InTime
    <3>4. \A i \in 1..Len(new) : hi <= new[i].ts
      BY <1>2, <1>8, <3>1, <3>2
    <3> QED BY <3>2, <3>3, <3>4 DEF InTime
  <2>4. InTime(r.fills \o new, lo, ev.ts)
    BY <1>2, <1>5, <1>8, <2>1, <2>2, <2>3, InTimeConcat
  <2>5. GivenOut(r.fills \o new, next)
    BY <1>2, <1>5, <2>1, GivenOutConcat
  <2>6. InTime(marks, 0, ev.ts) /\ Valued(f, marks)
    BY <1>2, <1>8, <2>1, MarkedFacts
  <2> HIDE DEF marks
  <2> QED BY <1>1, <1>3, <1>7, <2>1, <2>4, <2>5, <2>6 DEF Progress
<1> HIDE DEF marks
<1> QED BY <1>7, <1>8 DEF t

(* Turn after turn of the loop.                                            *)
LEMMA ReplayLoopTurns ==
  ASSUME NEW evs \in Seq(MBOEvents), NEW c \in 0..Len(evs), NEW r \in ReplayStates
  PROVE  /\ ReplayLoop(r, evs, c)[0] = r
         /\ \A n \in Nat : n + 1 \in 1..(Len(evs) - c) =>
               /\ evs[c + (n + 1)] \in MBOEvents
               /\ ReplayLoop(r, evs, c)[n + 1]
                     = ReplayStep(ReplayLoop(r, evs, c)[n], evs[c + (n + 1)])
<1> DEFINE m == Len(evs) - c
           step == [p \in ReplayStates \X Nat |->
                       IF p[2] \in 1..m THEN ReplayStep(p[1], evs[c + p[2]]) ELSE p[1]]
           f == CHOOSE h : h = [n \in 0..m |-> IF n = 0 THEN r
                                               ELSE ReplayStep(h[n - 1], evs[c + n])]
<1>1. /\ m \in Nat /\ c \in Nat /\ Len(evs) \in Nat
      /\ \A n \in 1..m : evs[c + n] \in MBOEvents
  <2>1. m \in Nat /\ c \in Nat /\ Len(evs) \in Nat
    OBVIOUS
  <2>2. \A n \in 1..m : c + n \in 1..Len(evs)
    BY <2>1
  <2>3. \A i \in 1..Len(evs) : evs[i] \in MBOEvents
    OBVIOUS
  <2> HIDE DEF m
  <2> QED BY <2>1, <2>2, <2>3
<1> HIDE DEF m
<1>2. step \in [ReplayStates \X Nat -> ReplayStates]
  <2>1. \A p \in ReplayStates \X Nat : p[2] \in 1..m =>
           ReplayStep(p[1], evs[c + p[2]]) \in ReplayStates
    BY <1>1, ReplayStepFacts
  <2> QED BY <2>1
<1>3. PICK g : IsLoop(g, ReplayStates, r, step)
  <2> HIDE DEF step
  <2> QED BY <1>1, <1>2, LoopExists, Zenon
<1>4. ASSUME NEW n \in Nat, n + 1 \in 1..m
      PROVE  g[n + 1] = ReplayStep(g[n], evs[c + (n + 1)])
  <2>1. <<g[n], n + 1>> \in ReplayStates \X Nat
    BY <1>3 DEF IsLoop
  <2> QED BY <1>3, <1>4, <2>1 DEF IsLoop
<1> HIDE DEF step
<1> DEFINE h == [n \in 0..m |-> g[n]]
<1>5. h = [n \in 0..m |-> IF n = 0 THEN r ELSE ReplayStep(h[n - 1], evs[c + n])]
  <2>1. ASSUME NEW n \in 0..m
        PROVE  h[n] = IF n = 0 THEN r ELSE ReplayStep(h[n - 1], evs[c + n])
    <3>1. CASE n = 0
      BY <1>1, <1>3, <3>1 DEF IsLoop
    <3>2. CASE n # 0
      <4>1. n - 1 \in Nat /\ (n - 1) + 1 = n /\ n \in 1..m /\ n - 1 \in 0..m
        BY <1>1, <3>2
      <4>2. g[(n - 1) + 1] = ReplayStep(g[n - 1], evs[c + ((n - 1) + 1)])
        BY <1>4, <4>1
      <4> QED BY <4>1, <4>2, <3>2
    <3> QED BY <3>1, <3>2
  <2> QED BY <2>1
<1> HIDE DEF h
<1>6. f = [n \in 0..m |-> IF n = 0 THEN r ELSE ReplayStep(f[n - 1], evs[c + n])]
  BY <1>5
<1>7. ReplayLoop(r, evs, c) = f
  BY DEF ReplayLoop, m
<1> HIDE DEF f
<1>8. f[0] = r
  BY <1>1, <1>6
<1>9. ASSUME NEW n \in Nat, n + 1 \in 1..m
      PROVE  f[n + 1] = ReplayStep(f[n], evs[c + (n + 1)])
  <2>1. n + 1 \in 0..m /\ n + 1 # 0 /\ (n + 1) - 1 = n
    BY <1>1, <1>9
  <2> QED BY <1>6, <2>1
<1> QED BY <1>1, <1>7, <1>8, <1>9 DEF m

(* The events of a stream that follow place c, up to place c + k.          *)
LEMMA ReplayLoopFacts ==
  ASSUME NEW evs \in Seq(MBOEvents), InTimeOrder(evs), NEW c \in 0..Len(evs),
         NEW r, NEW next \in Nat, NEW lo \in Nat, Progress(r, next, lo, lo),
         \A i \in (c + 1)..Len(evs) : lo <= evs[i].ts,
         NEW k \in 0..(Len(evs) - c), NEW hi \in Nat, lo <= hi,
         \A i \in (c + 1)..(c + k) : evs[i].ts <= hi
  PROVE  Progress(ReplayLoop(r, evs, c)[k], next, lo, hi)
<1> DEFINE m == Len(evs) - c
           f == ReplayLoop(r, evs, c)
           T(n) == IF n = 0 THEN lo ELSE evs[c + n].ts
<1>1. /\ m \in Nat /\ c \in Nat /\ Len(evs) \in Nat /\ r \in ReplayStates
      /\ \A n \in 1..m : c + n \in (c + 1)..Len(evs) /\ c + n \in 1..Len(evs)
                         /\ evs[c + n] \in MBOEvents
      /\ \A i \in 1..Len(evs) : evs[i].ts \in Nat
  <2>1. m \in Nat /\ c \in Nat /\ Len(evs) \in Nat
    OBVIOUS
  <2>2. \A n \in 1..m : c + n \in (c + 1)..Len(evs) /\ c + n \in 1..Len(evs)
    BY <2>1
  <2>3. \A i \in 1..Len(evs) : evs[i] \in MBOEvents /\ evs[i].ts \in Nat
    <3>1. \A i \in 1..Len(evs) : evs[i] \in MBOEvents
      OBVIOUS
    <3> QED BY <3>1 DEF MBOEvents
  <2> HIDE DEF m
  <2> QED BY <2>1, <2>2, <2>3 DEF Progress
<1>7. ReplayLoop(r, evs, c) = f
  OBVIOUS
<1>8. /\ f[0] = r
      /\ \A n \in Nat : n + 1 \in 1..m => f[n + 1] = ReplayStep(f[n], evs[c + (n + 1)])
  BY <1>1, ReplayLoopTurns
<1> HIDE DEF f, m
<1> DEFINE Good(n) == n \in 0..m => T(n) \in Nat /\ lo <= T(n) /\ Progress(f[n], next, lo, T(n))
           S == {n \in Nat : Good(n)}
<1>10. S = Nat
  <2>1. Good(0)
    BY <1>8
  <2>2. ASSUME NEW n \in Nat, Good(n) PROVE Good(n + 1)
    <3>1. SUFFICES ASSUME n + 1 \in 0..m
                   PROVE  /\ T(n + 1) \in Nat /\ lo <= T(n + 1)
                          /\ Progress(f[n + 1], next, lo, T(n + 1))
      OBVIOUS
    <3>2. n \in 0..m /\ n + 1 \in 1..m
      <4>1. m \in Nat
        BY <1>1
      <4> HIDE DEF m
      <4> QED BY <3>1, <4>1
    <3>3. T(n) \in Nat /\ lo <= T(n) /\ Progress(f[n], next, lo, T(n))
      BY <2>2, <3>2
    <3>4. T(n + 1) = evs[c + (n + 1)].ts /\ evs[c + (n + 1)] \in MBOEvents
          /\ c + (n + 1) \in (c + 1)..Len(evs) /\ c + (n + 1) \in 1..Len(evs)
      <4> DEFINE x == n + 1
      <4>1. x \in 1..m /\ x # 0
        BY <3>2
      <4> HIDE DEF x
      <4>2. /\ c + x \in (c + 1)..Len(evs) /\ c + x \in 1..Len(evs)
            /\ evs[c + x] \in MBOEvents
        BY <1>1, <4>1
      <4>3. T(x) = evs[c + x].ts
        BY <4>1
      <4> QED BY <4>2, <4>3 DEF x
    <3>5. T(n + 1) \in Nat /\ lo <= T(n + 1)
      BY <1>1, <3>4
    <3>6. T(n) <= T(n + 1)
      <4>1. CASE n = 0
        BY <3>5, <4>1
      <4>2. CASE n # 0
        <5>1. n \in 1..m /\ c + n \in 1..Len(evs) /\ c + n <= c + (n + 1)
          BY <1>1, <3>2, <4>2
        <5> QED BY <3>4, <4>2, <5>1 DEF InTimeOrder
      <4> QED BY <4>1, <4>2
    <3>7. f[n + 1] = ReplayStep(f[n], evs[c + (n + 1)])
      BY <1>8, <3>2
    <3>8. f[n] \in ReplayStates
      BY <3>3 DEF Progress
    <3> HIDE DEF T
    <3>9. Progress(ReplayStep(f[n], evs[c + (n + 1)]), next, lo, evs[c + (n + 1)].ts)
      BY <3>3, <3>4, <3>6, <3>8, ReplayStepFacts
    <3> QED BY <3>4, <3>5, <3>7, <3>9
  <2> HIDE DEF Good
  <2>3. ASSUME NEW n \in S PROVE n + 1 \in S
    BY <2>2
  <2>4. S \in SUBSET Nat /\ 0 \in S
    BY <2>1
  <2> HIDE DEF S
  <2> QED BY <2>3, <2>4, SetInduction
<1>11. T(k) \in Nat /\ lo <= T(k) /\ Progress(f[k], next, lo, T(k))
  <2>1. k \in Nat /\ k \in 0..m
    BY DEF m
  <2>2. Good(k)
    <3> HIDE DEF Good
    <3> QED BY <1>10, <2>1
  <2> QED BY <2>1, <2>2
<1>12. T(k) <= hi
  <2>1. CASE k = 0
    BY <2>1
  <2>2. CASE k # 0
    <3>1. c + k \in (c + 1)..(c + k)
      BY <1>1, <2>2
    <3> QED BY <2>2, <3>1
  <2> QED BY <2>1, <2>2
<1> HIDE DEF T
<1>13. InTime(f[k].fills, lo, hi) /\ InTime(f[k].marks, 0, hi)
  <2>1. f[k].fills \in Seq(Fills) /\ f[k].marks \in Seq(Marks)
    BY <1>11 DEF Progress, ReplayStates
  <2>2. (\A x \in Fills : x.ts \in Nat) /\ (\A x \in Marks : x.ts \in Nat)
    BY DEF Fills, Marks
  <2>3. InTime(f[k].fills, lo, T(k)) /\ InTime(f[k].marks, 0, T(k))
    BY <1>11 DEF Progress
  <2>4. InTime(f[k].fills, lo, hi)
    BY <1>11, <1>12, <2>1, <2>2, <2>3, InTimeLater
  <2>5. InTime(f[k].marks, 0, hi)
    BY <1>11, <1>12, <2>1, <2>2, <2>3, InTimeLater
  <2> QED BY <2>4, <2>5
<1> QED BY <1>7, <1>11, <1>13 DEF Progress

(***************************************************************************)
(* The account of the loop's fills.                                        *)
(***************************************************************************)

(* Between r and t the fills tell exactly what own orders lost and what the *)
(* position gained, and no own order came into being.                      *)
Settles(r, t) ==
  /\ t.engine.position - Net(t.fills) = r.engine.position - Net(r.fills)
  /\ \A j \in Nat : SizeOf(t.engine, Own(j)) + FilledOf(j, t.fills)
                       = SizeOf(r.engine, Own(j)) + FilledOf(j, r.fills)
  /\ \A x \in DOMAIN t.engine.orders : IsOwn(x) => x \in DOMAIN r.engine.orders

LEMMA SettlesTransitive ==
  ASSUME NEW r, NEW s, NEW t, Settles(r, s), Settles(s, t)
  PROVE  Settles(r, t)
  BY DEF Settles

LEMMA ReplayStepSettles ==
  ASSUME NEW r \in ReplayStates, NEW ev \in MBOEvents
  PROVE  Settles(r, ReplayStep(r, ev))
<1> DEFINE e == r.engine
           f == ApplyEvent(e, ev)
           new == NewFills(e, f)
           t == ReplayStep(r, ev)
<1>1. t.engine = f /\ t.fills = r.fills \o new
  BY DEF ReplayStep
<1>2. EngineInv(e) /\ r.fills \in Seq(Fills) /\ e.fills \in Seq(Fills) /\ ev.ts \in Nat
      /\ e.position \in Int /\ e.orders \in [DOMAIN e.orders -> Orders]
  BY EngineFields DEF ReplayStates, EngineInv, MBOEvents
<1> HIDE DEF e, t
<1>3. EngineInv(f) /\ FillsGrow(e.fills, f.fills, ev.ts, e.nextId) /\ Settled(e, f)
  BY <1>2, ApplyEventFacts, ApplyEventSettles
<1> HIDE DEF f
<1>4. /\ f.fills \in Seq(Fills) /\ f.position \in Int
      /\ f.orders \in [DOMAIN f.orders -> Orders]
  BY <1>3, EngineFields DEF EngineInv
<1>5. new \in Seq(Fills) /\ f.fills = e.fills \o new
  BY <1>2, <1>3, <1>4, NewFillsAppended
<1> HIDE DEF new
<1>6. /\ r.fills \in Seq(ActiveFills) /\ e.fills \in Seq(ActiveFills)
      /\ new \in Seq(ActiveFills) /\ f.fills \in Seq(ActiveFills)
  BY <1>2, <1>4, <1>5, FillsAreActive
<1>7. t.engine.position - Net(t.fills) = e.position - Net(r.fills)
  <2> DEFINE a == Net(r.fills)
             b == Net(e.fills)
             c == Net(new)
             d == Net(f.fills)
             p == f.position
             q == e.position
  <2>1. /\ a \in Int /\ b \in Int /\ c \in Int /\ p \in Int /\ q \in Int
        /\ d = b + c /\ Net(t.fills) = a + c
        /\ p - d = q - b
    BY <1>1, <1>2, <1>3, <1>4, <1>5, <1>6, NetFacts DEF Settled
  <2>2. t.engine.position = p
    BY <1>1
  <2> HIDE DEF a, b, c, d, p, q
  <2>3. p - (a + c) = q - a
    BY <2>1
  <2> QED BY <2>1, <2>2, <2>3 DEF a, q
<1>8. ASSUME NEW j \in Nat
      PROVE  SizeOf(t.engine, Own(j)) + FilledOf(j, t.fills)
                = SizeOf(e, Own(j)) + FilledOf(j, r.fills)
  <2> DEFINE a == FilledOf(j, r.fills)
             b == FilledOf(j, e.fills)
             c == FilledOf(j, new)
             d == FilledOf(j, f.fills)
             p == SizeOf(f, Own(j))
             q == SizeOf(e, Own(j))
  <2>1. /\ a \in Nat /\ b \in Nat /\ c \in Nat
        /\ d = b + c /\ FilledOf(j, t.fills) = a + c
    BY <1>1, <1>5, <1>6, FilledFacts, SMTT(30)
  <2>2. p \in Nat /\ q \in Nat
    BY <1>2, <1>4 DEF SizeOf, Orders
  <2>3. p + d = q + b
    BY <1>3 DEF Settled, Left
  <2>4. SizeOf(t.engine, Own(j)) = p
    BY <1>1
  <2> HIDE DEF a, b, c, d, p, q
  <2>5. p + (a + c) = q + a
    BY <2>1, <2>2, <2>3
  <2> QED BY <2>1, <2>4, <2>5 DEF a, q
<1>9. \A x \in DOMAIN t.engine.orders : IsOwn(x) => x \in DOMAIN e.orders
  BY <1>1, <1>3 DEF Settled
<1> QED BY <1>7, <1>8, <1>9 DEF Settles, t, e

LEMMA ReplayLoopSettles ==
  ASSUME NEW evs \in Seq(MBOEvents), NEW c \in 0..Len(evs), NEW r \in ReplayStates,
         NEW k \in 0..(Len(evs) - c)
  PROVE  /\ ReplayLoop(r, evs, c)[k] \in ReplayStates
         /\ Settles(r, ReplayLoop(r, evs, c)[k])
<1> DEFINE m == Len(evs) - c
           f == ReplayLoop(r, evs, c)
           S == {n \in Nat : n \in 0..m => f[n] \in ReplayStates /\ Settles(r, f[n])}
<1>1. m \in Nat /\ k \in 0..m
  OBVIOUS
<1>2. /\ f[0] = r
      /\ \A n \in Nat : n + 1 \in 1..m =>
            evs[c + (n + 1)] \in MBOEvents /\ f[n + 1] = ReplayStep(f[n], evs[c + (n + 1)])
  BY ReplayLoopTurns
<1> HIDE DEF m, f
<1>3. 0 \in S
  BY <1>2 DEF Settles
<1>4. ASSUME NEW n \in S PROVE n + 1 \in S
  <2>1. SUFFICES ASSUME n + 1 \in 0..m
                 PROVE  f[n + 1] \in ReplayStates /\ Settles(r, f[n + 1])
    OBVIOUS
  <2>2. n \in Nat /\ n \in 0..m /\ n + 1 \in 1..m
    BY <1>1, <2>1
  <2>3. f[n] \in ReplayStates /\ Settles(r, f[n])
    BY <2>2
  <2>4. evs[c + (n + 1)] \in MBOEvents /\ f[n + 1] = ReplayStep(f[n], evs[c + (n + 1)])
    BY <1>2, <2>2
  <2> DEFINE ev == evs[c + (n + 1)]
  <2> HIDE DEF ev
  <2>5. f[n + 1] \in ReplayStates /\ Settles(f[n], f[n + 1])
    BY <2>3, <2>4, ReplayStepFacts, ReplayStepSettles DEF ev
  <2> QED BY <2>3, <2>5, SettlesTransitive
<1>5. S = Nat
  <2>1. S \in SUBSET Nat
    OBVIOUS
  <2> HIDE DEF S
  <2> QED BY <1>3, <1>4, <2>1, SetInduction
<1>6. k \in S /\ k \in 0..m
  BY <1>1, <1>5
<1> QED BY <1>6 DEF f

(***************************************************************************)
(* The loop that takes an entry out of a queue.                            *)
(***************************************************************************)

KeptTurns(f, q, x) ==
  /\ f[0] = <<>>
  /\ \A n \in Nat : f[n + 1] = IF q[n + 1] = x THEN f[n] ELSE Append(f[n], q[n + 1])
  /\ Without(q, x) = f[Len(q)]

LEMMA WithoutTurns ==
  ASSUME NEW q, NEW x
  PROVE  \E f : KeptTurns(f, q, x)
<1> DEFINE V == {q[n] : n \in Nat}
           T == Seq(V)
           step == [p \in T \X Nat |->
                       IF q[p[2]] = x THEN p[1] ELSE Append(p[1], q[p[2]])]
<1>1. step \in [T \X Nat -> T]
  <2>1. ASSUME NEW p \in T \X Nat
        PROVE  (IF q[p[2]] = x THEN p[1] ELSE Append(p[1], q[p[2]])) \in T
    <3>1. p[1] \in T /\ p[2] \in Nat
      <4> HIDE DEF T
      <4> QED OBVIOUS
    <3>2. q[p[2]] \in V
      <4> DEFINE n == p[2]
      <4>1. n \in Nat
        BY <3>1
      <4> HIDE DEF n
      <4>2. q[n] \in V
        BY <4>1
      <4> QED BY <4>2 DEF n
    <3> DEFINE a == p[1]
               v == q[p[2]]
    <3>3. a \in T /\ v \in V
      BY <3>1, <3>2
    <3> HIDE DEF V, a, v
    <3>4. Append(a, v) \in T
      BY <3>3
    <3> HIDE DEF T
    <3>5. p[1] \in T /\ Append(p[1], q[p[2]]) \in T
      BY <3>3, <3>4 DEF a, v
    <3>6. CASE q[p[2]] = x
      BY <3>5, <3>6
    <3>7. CASE q[p[2]] # x
      BY <3>5, <3>7
    <3> QED BY <3>6, <3>7
  <2> HIDE DEF T
  <2> QED BY <2>1
<1>2. PICK g : IsLoop(g, T, <<>>, step)
  <2>1. <<>> \in T
    OBVIOUS
  <2> HIDE DEF step, T
  <2> QED BY <1>1, <2>1, LoopExists, Zenon
<1>3. \A n \in Nat : g[n + 1] = IF q[n + 1] = x THEN g[n] ELSE Append(g[n], q[n + 1])
  <2>1. ASSUME NEW n \in Nat
        PROVE  g[n + 1] = IF q[n + 1] = x THEN g[n] ELSE Append(g[n], q[n + 1])
    <3> HIDE DEF T
    <3>1. <<g[n], n + 1>> \in T \X Nat
      <4> HIDE DEF step
      <4> QED BY <1>2 DEF IsLoop
    <3> QED BY <1>2, <3>1 DEF IsLoop
  <2> QED BY <2>1
<1> HIDE DEF step
<1> DEFINE f == CHOOSE h : h = [n \in Nat |-> IF n = 0 THEN <<>>
                                   ELSE IF q[n] = x THEN h[n - 1]
                                   ELSE Append(h[n - 1], q[n])]
<1>4. g = [n \in Nat |-> IF n = 0 THEN <<>> ELSE IF q[n] = x THEN g[n - 1]
                                   ELSE Append(g[n - 1], q[n])]
  <2>1. ASSUME NEW n \in Nat
        PROVE  g[n] = IF n = 0 THEN <<>> ELSE IF q[n] = x THEN g[n - 1]
                                   ELSE Append(g[n - 1], q[n])
    <3>1. CASE n = 0
      BY <1>2, <3>1 DEF IsLoop
    <3>2. CASE n # 0
      <4>1. n - 1 \in Nat /\ (n - 1) + 1 = n
        BY <3>2
      <4>2. g[(n - 1) + 1] = IF q[(n - 1) + 1] = x THEN g[n - 1]
                                 ELSE Append(g[n - 1], q[(n - 1) + 1])
        BY <1>3, <4>1
      <4> QED BY <4>1, <4>2, <3>2
    <3> QED BY <3>1, <3>2
  <2> HIDE DEF T
  <2> QED BY <2>1, <1>2 DEF IsLoop
<1>5. f = [n \in Nat |-> IF n = 0 THEN <<>> ELSE IF q[n] = x THEN f[n - 1]
                                   ELSE Append(f[n - 1], q[n])]
  BY <1>4
<1>6. Without(q, x) = f[Len(q)]
  BY DEF Without
<1> HIDE DEF f
<1>7. f[0] = <<>>
  BY <1>5
<1>8. ASSUME NEW n \in Nat
      PROVE  f[n + 1] = IF q[n + 1] = x THEN f[n] ELSE Append(f[n], q[n + 1])
  <2>1. n + 1 \in Nat /\ n + 1 # 0 /\ (n + 1) - 1 = n
    OBVIOUS
  <2> QED BY <1>5, <2>1
<1> QED BY <1>6, <1>7, <1>8 DEF KeptTurns

==============================================================================
