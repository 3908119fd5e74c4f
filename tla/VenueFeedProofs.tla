--------------------------- MODULE VenueFeedProofs ----------------------------
(***************************************************************************)
(* The engine on a well-formed feed: what a venue can report, for every    *)
(* strategy.  Its queues and its orders agree, the visible book never      *)
(* shows more than the queues hold, and as long as the strategy takes      *)
(* nothing the book is exactly the queues and every order of the venue is  *)
(* in them, in the venue's order.                                          *)
(* A strategy that places nothing sees the venue itself: the engine        *)
(* implements HistoricalVenue.                                             *)
(***************************************************************************)
EXTENDS MatchingEngineProofs

(***************************************************************************)
(* Queues and orders that agree.                                           *)
(***************************************************************************)

\* Every live order stands exactly once in the queue of its level, and every
\* entry of a queue is a live order of that level.
Tidy(e) ==
  /\ \A x \in DOMAIN e.orders : StandsOnce(e.queues[e.orders[x].level], x)
  /\ \A L \in Levels : \A i \in 1..Len(e.queues[L]) :
        /\ e.queues[L][i] \in DOMAIN e.orders
        /\ e.orders[e.queues[L][i]].level = L

Standing(e, L) == {x \in DOMAIN e.orders : e.orders[x].level = L}
SizesOf(e, S) == [x \in S |-> e.orders[x].size]
Volume(e, L) == Total(SizesOf(e, Standing(e, L)))

\* The visible size of a level is never more than its queue holds.
Covered(e) == \A L \in Levels : e.book[L] <= Volume(e, L)

\* The visible size of a level is what its queue holds.
Exact(e) == \A L \in Levels : e.book[L] = Volume(e, L)

LEMMA StandingFacts ==
  ASSUME NEW e, EngineOK(e), Tidy(e), NEW L \in Levels, NEW S \in SUBSET Standing(e, L)
  PROVE  /\ Summable(SizesOf(e, S)) /\ Total(SizesOf(e, S)) \in Nat
         /\ \A x \in S : e.orders[x].size \in Nat \ {0} /\ e.orders[x].size <= Total(SizesOf(e, S))
<1> DEFINE q == e.queues[L]
           f == SizesOf(e, S)
<1>1. /\ q \in Seq(Entries) /\ e.orders \in [DOMAIN e.orders -> Orders]
      /\ S \subseteq DOMAIN e.orders
  BY EngineFields DEF Standing
<1>2. IsFiniteSet(S)
  <2> DEFINE R == {q[i] : i \in 1..Len(q)}
             h == [i \in 1..Len(q) |-> q[i]]
  <2>1. S \subseteq R
    BY <1>1 DEF Standing, Tidy, StandsOnce
  <2>2. h \in Surjection(1..Len(q), R)
    BY DEF Surjection
  <2>3. Len(q) \in Int /\ 1 \in Int
    BY <1>1
  <2>4. IsFiniteSet(1..Len(q))
    BY <2>3, FS_Interval
  <2>5. IsFiniteSet(R)
    BY <2>2, <2>4, FS_Surjection
  <2> QED BY <2>1, <2>5, FS_Subset
<1>3. DOMAIN f = S /\ \A x \in S : f[x] = e.orders[x].size
  BY DEF SizesOf
<1>4. \A x \in S : e.orders[x].size \in Nat \ {0}
  BY <1>1 DEF Orders
<1> HIDE DEF f
<1>5. Summable(f) /\ \A x \in DOMAIN f : f[x] \in Nat
  BY <1>2, <1>3, <1>4 DEF Summable
<1>6. Total(f) \in Nat /\ \A x \in DOMAIN f : f[x] <= Total(f)
  BY <1>5, TotalNat
<1> QED BY <1>3, <1>4, <1>5, <1>6 DEF f

(* Leaving out x from a queue keeps the others, each once and in order.    *)
LEMMA EmbedsFacts ==
  ASSUME NEW q \in Seq(Entries), NEW w \in Seq(Entries), NEW x, NEW p, Embeds(p, w, q, x)
  PROVE  /\ \A i \in 1..Len(w) : w[i] # x /\ \E j \in 1..Len(q) : q[j] = w[i]
         /\ \A y : y # x /\ StandsOnce(q, y) => StandsOnce(w, y)
         /\ \A y, z : y # x /\ z # x => (Before(w, y, z) <=> Before(q, y, z))
<1>1. Len(w) \in Nat /\ Len(q) \in Nat
  OBVIOUS
<1>2. \A i \in 1..Len(w) : w[i] # x /\ p[i] \in 1..Len(q) /\ q[p[i]] = w[i]
  BY DEF Embeds
<1>3. \A i, j \in 1..Len(w) : p[i] < p[j] <=> i < j
  BY <1>1, <1>2 DEF Embeds
<1>4. ASSUME NEW y, y # x, NEW j \in 1..Len(q), \A k \in 1..Len(q) : q[k] = y <=> k = j
      PROVE  StandsOnce(w, y)
  <2>1. PICK i \in 1..Len(w) : p[i] = j
    BY <1>4 DEF Embeds
  <2>2. \A k \in 1..Len(w) : p[k] = p[i] => k = i
    BY <1>1, <1>2, <1>3
  <2>3. \A k \in 1..Len(w) : w[k] = y <=> k = i
    BY <1>2, <1>4, <2>1, <2>2
  <2> QED BY <2>3 DEF StandsOnce
<1>5. ASSUME NEW y, NEW z, y # x, z # x, Before(w, y, z)
      PROVE  Before(q, y, z)
  <2>1. PICK i \in 1..Len(w), j \in 1..Len(w) : i < j /\ w[i] = y /\ w[j] = z
    BY <1>5 DEF Before
  <2>2. p[i] \in 1..Len(q) /\ p[j] \in 1..Len(q) /\ p[i] < p[j] /\ q[p[i]] = y /\ q[p[j]] = z
    BY <1>2, <1>3, <2>1
  <2> QED BY <2>2 DEF Before
<1>6. ASSUME NEW y, NEW z, y # x, z # x, Before(q, y, z)
      PROVE  Before(w, y, z)
  <2>1. PICK i \in 1..Len(q), j \in 1..Len(q) : i < j /\ q[i] = y /\ q[j] = z
    BY <1>6 DEF Before
  <2>2. PICK k \in 1..Len(w) : p[k] = i
    BY <1>6, <2>1 DEF Embeds
  <2>3. PICK l \in 1..Len(w) : p[l] = j
    BY <1>6, <2>1 DEF Embeds
  <2>4. k < l /\ w[k] = y /\ w[l] = z
    BY <1>2, <1>3, <2>1, <2>2, <2>3
  <2> QED BY <2>4 DEF Before
<1>7. \A y : y # x /\ StandsOnce(q, y) => StandsOnce(w, y)
  BY <1>4 DEF StandsOnce
<1> QED BY <1>2, <1>5, <1>6, <1>7

LEMMA TailEmbeds ==
  ASSUME NEW q \in Seq(Entries), q # <<>>, StandsOnce(q, Head(q))
  PROVE  Tail(q) \in Seq(Entries) /\ \E p : Embeds(p, Tail(q), q, Head(q))
<1> DEFINE w == Tail(q)
           p == [i \in 1..Len(w) |-> i + 1]
           x == Head(q)
<1>1. /\ w \in Seq(Entries) /\ Len(w) \in Nat /\ Len(w) + 1 = Len(q) /\ Len(q) \in Nat
      /\ x = q[1] /\ \A i \in 1..Len(w) : w[i] = q[i + 1]
  OBVIOUS
<1> HIDE DEF w, x
<1>2. \A i \in 1..Len(q) : q[i] = x <=> i = 1
  BY <1>1 DEF StandsOnce, x
<1>3. p \in [1..Len(w) -> 1..Len(q)]
  BY <1>1
<1>4. \A i \in 1..Len(w) : w[i] = q[p[i]] /\ q[p[i]] # x
  <2> SUFFICES ASSUME NEW i \in 1..Len(w) PROVE w[i] = q[p[i]] /\ q[p[i]] # x
    OBVIOUS
  <2>1. p[i] = i + 1 /\ i + 1 \in 1..Len(q) /\ i + 1 # 1
    BY <1>1
  <2> QED BY <1>1, <1>2, <2>1
<1>5. \A i, k \in 1..Len(w) : i < k => p[i] < p[k]
  BY <1>1
<1>6. ASSUME NEW j \in 1..Len(q), q[j] # x
      PROVE  \E i \in 1..Len(w) : p[i] = j
  <2>1. j # 1
    BY <1>1, <1>6
  <2>2. j - 1 \in 1..Len(w) /\ (j - 1) + 1 = j
    BY <1>1, <2>1
  <2> QED BY <2>2
<1> HIDE DEF p
<1>7. Embeds(p, w, q, x)
  BY <1>3, <1>4, <1>5, <1>6 DEF Embeds
<1> QED BY <1>1, <1>7 DEF w, x

(***************************************************************************)
(* A live order gets size n where it stands, and goes at 0.                *)
(***************************************************************************)

Resized(e, f, x, n) ==
  LET o == e.orders[x]
  IN  /\ f.orders = SetSize(e.orders, x, n)
      /\ f.book = IF n >= o.size THEN AddToBook(e.book, o.level, n - o.size)
                                 ELSE RemoveFromBook(e.book, o.level, o.size - n)
      /\ \A M \in Levels :
            IF n = 0 /\ M = o.level THEN \E p : Embeds(p, f.queues[M], e.queues[M], x)
                                    ELSE f.queues[M] = e.queues[M]

\* The orders of f are those of e, but for the size of x.
OnlySize(e, f, x, n) ==
  /\ \A y : y \in DOMAIN f.orders <=> y \in DOMAIN e.orders /\ (y # x \/ n # 0)
  /\ \A y \in DOMAIN f.orders :
        /\ f.orders[y].level = e.orders[y].level
        /\ f.orders[y].size = IF y = x THEN n ELSE e.orders[y].size

\* The orders that stay are in the same order.
SameOrder(e, f) ==
  \A M \in Levels : \A y, z \in DOMAIN f.orders :
     Before(f.queues[M], y, z) <=> Before(e.queues[M], y, z)

LEMMA SizesResized ==
  ASSUME NEW e, EngineOK(e), Tidy(e), NEW f, NEW x \in DOMAIN e.orders, NEW n \in Nat,
         OnlySize(e, f, x, n), NEW L \in Levels, NEW S \in SUBSET Standing(e, L),
         NEW T, T = S \cap DOMAIN f.orders
  PROVE  /\ x \in S => Total(SizesOf(f, T)) = Total(SizesOf(e, S)) - (e.orders[x].size - n)
         /\ x \notin S => Total(SizesOf(f, T)) = Total(SizesOf(e, S))
<1> DEFINE g == SizesOf(e, S)
           h == SizesOf(f, T)
<1>1. /\ Summable(g) /\ Total(g) \in Nat /\ \A y \in S : e.orders[y].size \in Nat
      /\ S \subseteq DOMAIN e.orders
  BY StandingFacts DEF Standing
<1>2. /\ DOMAIN g = S /\ \A y \in S : g[y] = e.orders[y].size
      /\ DOMAIN h = T /\ \A y \in T : h[y] = f.orders[y].size
  BY DEF SizesOf
<1> HIDE DEF g, h
<1>3. CASE x \notin S
  <2>1. DOMAIN h = DOMAIN g /\ \A y \in DOMAIN g : h[y] = g[y]
    BY <1>1, <1>2, <1>3 DEF OnlySize
  <2>2. Total(h) = Total(g)
    BY <1>1, <2>1, TotalAgree
  <2> QED BY <1>1, <1>3, <2>2 DEF g, h
<1>4. CASE x \in S /\ n # 0
  <2>1. T = S /\ (\A y \in S : y # x => h[y] = g[y]) /\ h[x] = n /\ g[x] = e.orders[x].size
    BY <1>1, <1>2, <1>4 DEF OnlySize
  <2>0. /\ DOMAIN h = DOMAIN g /\ x \in DOMAIN g /\ h[x] \in Int
        /\ \A y \in DOMAIN g : y # x => h[y] = g[y]
    BY <1>2, <1>4, <2>1
  <2>2. Total(h) = Total(g) - g[x] + h[x]
    BY <1>1, <2>0, TotalUpdate
  <2>3. g[x] \in Nat
    BY <1>1, <1>4, <2>1
  <2> QED BY <1>1, <1>4, <2>1, <2>2, <2>3 DEF g, h
<1>5. CASE x \in S /\ n = 0
  <2>1. T = S \ {x} /\ (\A y \in T : h[y] = g[y]) /\ g[x] = e.orders[x].size
    BY <1>1, <1>2, <1>5 DEF OnlySize
  <2>0. /\ x \in DOMAIN g /\ DOMAIN h = DOMAIN g \ {x}
        /\ \A y \in DOMAIN h : h[y] = g[y]
    BY <1>2, <1>5, <2>1
  <2>2. Summable(h) /\ Total(g) = Total(h) + g[x]
    BY <1>1, <2>0, TotalRemove
  <2>3. g[x] \in Nat /\ Total(h) \in Int
    BY <1>1, <1>5, <2>1, <2>2, TotalType
  <2>4. Total(h) = Total(g) - (g[x] - n)
    BY <1>1, <1>5, <2>2, <2>3
  <2> QED BY <1>5, <2>1, <2>4 DEF g, h
<1> QED BY <1>3, <1>4, <1>5

\* A sum in which a term has gone from size to n.
Off(after, before, size, n) == after = before - (size - n)

LEMMA SizesResizedWithin ==
  ASSUME NEW e, EngineOK(e), Tidy(e), NEW f, NEW x \in DOMAIN e.orders, NEW n \in Nat,
         OnlySize(e, f, x, n), NEW L \in Levels, NEW S \in SUBSET Standing(e, L),
         NEW T, T = S \cap DOMAIN f.orders, x \in S
  PROVE  Off(Total(SizesOf(f, T)), Total(SizesOf(e, S)), e.orders[x].size, n)
<1>1. x \in S => Total(SizesOf(f, T)) = Total(SizesOf(e, S)) - (e.orders[x].size - n)
  BY SizesResized
<1> QED BY <1>1 DEF Off

LEMMA ResizedOrders ==
  ASSUME NEW e, EngineOK(e), Tidy(e), NEW f, EngineOK(f),
         NEW x \in DOMAIN e.orders, NEW n \in Nat, Resized(e, f, x, n)
  PROVE  OnlySize(e, f, x, n) /\ SameOrder(e, f) /\ Tidy(f)
<1> DEFINE L == e.orders[x].level
<1>1. /\ e.orders \in [DOMAIN e.orders -> Orders] /\ e.queues \in [Levels -> Seq(Entries)]
      /\ f.queues \in [Levels -> Seq(Entries)]
  BY EngineFields
<1>2. L \in Levels /\ e.orders[x].size \in Nat \ {0}
  BY <1>1 DEF Orders
<1>3. OnlySize(e, f, x, n)
  <2> DEFINE os == SetSize(e.orders, x, n)
  <2>0. e.orders \in [DOMAIN e.orders -> Orders]
    BY <1>1
  <2>1. /\ DOMAIN os \subseteq DOMAIN e.orders
        /\ \A y \in DOMAIN e.orders : y \in DOMAIN os <=> y # x \/ n # 0
        /\ \A y \in DOMAIN os :
              /\ os[y].level = e.orders[y].level
              /\ y # x => os[y] = e.orders[y]
              /\ y = x => os[y].size = n
    BY <2>0, SetSizeFacts
  <2>2. f.orders = os
    BY DEF Resized
  <2> HIDE DEF os
  <2> QED BY <2>1, <2>2 DEF OnlySize
<1>4. \A M \in Levels :
         \/ f.queues[M] = e.queues[M] /\ (n # 0 \/ M # L)
         \/ n = 0 /\ M = L /\ \E p : Embeds(p, f.queues[M], e.queues[M], x)
  BY DEF Resized
<1> HIDE DEF L
<1>5. ASSUME NEW M \in Levels
      PROVE  /\ \A i \in 1..Len(f.queues[M]) :
                   /\ \E j \in 1..Len(e.queues[M]) : e.queues[M][j] = f.queues[M][i]
                   /\ n = 0 /\ M = L => f.queues[M][i] # x
             /\ \A y : y # x /\ StandsOnce(e.queues[M], y) => StandsOnce(f.queues[M], y)
             /\ \A y, z : y # x /\ z # x
                   => (Before(f.queues[M], y, z) <=> Before(e.queues[M], y, z))
  <2>1. f.queues[M] \in Seq(Entries) /\ e.queues[M] \in Seq(Entries)
    BY <1>1
  <2>2. CASE f.queues[M] = e.queues[M] /\ (n # 0 \/ M # L)
    BY <2>2
  <2>3. CASE n = 0 /\ M = L /\ \E p : Embeds(p, f.queues[M], e.queues[M], x)
    BY <2>1, <2>3, EmbedsFacts, SMTT(30)
  <2> QED BY <1>4, <2>2, <2>3
<1>6. SameOrder(e, f)
  <2> SUFFICES ASSUME NEW M \in Levels, NEW y \in DOMAIN f.orders, NEW z \in DOMAIN f.orders
               PROVE  Before(f.queues[M], y, z) <=> Before(e.queues[M], y, z)
    BY DEF SameOrder
  <2>1. CASE n = 0
    <3>1. y # x /\ z # x
      BY <1>3, <2>1 DEF OnlySize
    <3> QED BY <1>5, <3>1
  <2>2. CASE n # 0
    <3>1. f.queues[M] = e.queues[M]
      BY <1>4, <2>2
    <3> QED BY <3>1
  <2> QED BY <2>1, <2>2
<1>7. ASSUME NEW y \in DOMAIN f.orders
      PROVE  StandsOnce(f.queues[f.orders[y].level], y)
  <2>1. y \in DOMAIN e.orders /\ f.orders[y].level = e.orders[y].level /\ (y # x \/ n # 0)
    BY <1>3 DEF OnlySize
  <2>2. e.orders[y].level \in Levels
    BY <1>1, <2>1 DEF Orders
  <2>3. StandsOnce(e.queues[e.orders[y].level], y)
    BY <2>1 DEF Tidy
  <2>4. CASE y # x
    BY <1>5, <2>1, <2>2, <2>3, <2>4
  <2>5. CASE n # 0
    BY <1>4, <2>1, <2>2, <2>3, <2>5
  <2> QED BY <2>1, <2>4, <2>5
<1>8. ASSUME NEW M \in Levels, NEW i \in 1..Len(f.queues[M])
      PROVE  f.queues[M][i] \in DOMAIN f.orders /\ f.orders[f.queues[M][i]].level = M
  <2>1. PICK j \in 1..Len(e.queues[M]) : e.queues[M][j] = f.queues[M][i]
    BY <1>5
  <2>2. e.queues[M][j] \in DOMAIN e.orders /\ e.orders[e.queues[M][j]].level = M
    BY DEF Tidy
  <2>3. n = 0 => f.queues[M][i] # x
    BY <1>5, <2>1, <2>2 DEF L
  <2> QED BY <1>3, <2>1, <2>2, <2>3 DEF OnlySize
<1>9. Tidy(f)
  BY <1>7, <1>8 DEF Tidy
<1> QED BY <1>3, <1>6, <1>9

\* The volume of level L has gone from v by d, the book by as much of d as it had.
Moved(e, f, L) ==
  /\ \A M \in Levels \ {L} : f.book[M] = e.book[M] /\ Volume(f, M) = Volume(e, M)
  /\ Covered(e) => Covered(f)
  /\ Exact(e) => Exact(f)

LEMMA StandingResized ==
  ASSUME NEW e, NEW f, NEW x \in DOMAIN e.orders, NEW n, OnlySize(e, f, x, n), NEW L
  PROVE  Standing(f, L) = Standing(e, L) \cap DOMAIN f.orders
BY DEF OnlySize, Standing

LEMMA ResizedBook ==
  ASSUME NEW e, EngineOK(e), Tidy(e), NEW f, EngineOK(f),
         NEW x \in DOMAIN e.orders, NEW n \in Nat, Resized(e, f, x, n)
  PROVE  LET L == e.orders[x].level
             size == e.orders[x].size
         IN  /\ Moved(e, f, L)
             /\ Volume(f, L) = Volume(e, L) - (size - n) /\ size <= Volume(e, L)
             /\ n < size => f.book[L] = e.book[L] - Lesser(e.book[L], size - n)
<1> DEFINE L == e.orders[x].level
           size == e.orders[x].size
           b == e.book[L]
           v == Volume(e, L)
<1>1. /\ e.orders \in [DOMAIN e.orders -> Orders]
      /\ e.book \in [Levels -> Nat] /\ f.book \in [Levels -> Nat]
  BY EngineFields
<1>2. L \in Levels /\ size \in Nat \ {0} /\ b \in Nat
  BY <1>1 DEF Orders
<1>3. OnlySize(e, f, x, n)
  BY ResizedOrders
<1>4. \A M \in Levels : Volume(f, M) = Volume(e, M) - (IF M = L THEN size - n ELSE 0)
  <2> SUFFICES ASSUME NEW M \in Levels
               PROVE  Volume(f, M) = Volume(e, M) - (IF M = L THEN size - n ELSE 0)
    OBVIOUS
  <2> DEFINE S == Standing(e, M)
             T == Standing(f, M)
  <2>1. T = S \cap DOMAIN f.orders
    BY <1>3, StandingResized
  <2>2. x \in S <=> M = L
    BY DEF Standing
  <2>3. S \in SUBSET Standing(e, M)
    OBVIOUS
  <2>4. /\ Volume(f, M) = Total(SizesOf(f, T)) /\ Volume(e, M) = Total(SizesOf(e, S))
        /\ Volume(e, M) \in Nat
    BY StandingFacts DEF Volume
  <2> HIDE DEF S, T
  <2>5. /\ x \in S => Total(SizesOf(f, T)) = Total(SizesOf(e, S)) - (e.orders[x].size - n)
        /\ x \notin S => Total(SizesOf(f, T)) = Total(SizesOf(e, S))
    BY <1>3, <2>1, <2>3, SizesResized
  <2> QED BY <2>2, <2>4, <2>5
<1>5. \A M \in Levels : Volume(e, M) \in Nat
  BY StandingFacts DEF Volume
<1>6. v \in Nat /\ size <= v
  <2>1. x \in Standing(e, L)
    BY DEF Standing
  <2>2. size <= Total(SizesOf(e, Standing(e, L)))
    BY <1>2, <2>1, StandingFacts
  <2> QED BY <1>2, <1>5, <2>2 DEF Volume
<1>7. /\ f.book = IF n >= size THEN AddToBook(e.book, L, n - size)
                              ELSE RemoveFromBook(e.book, L, size - n)
  BY DEF Resized
<1> HIDE DEF L, size
<1>8. /\ f.book[L] = IF n >= size THEN b + (n - size) ELSE b - Lesser(b, size - n)
      /\ \A M \in Levels \ {L} : f.book[M] = e.book[M]
  BY <1>1, <1>2, <1>7 DEF AddToBook, RemoveFromBook
<1>9. \A M \in Levels \ {L} : Volume(f, M) = Volume(e, M)
  BY <1>4, <1>5
<1>10. Volume(f, L) = v - (size - n)
  BY <1>2, <1>4
<1> HIDE DEF b, v
<1>11. b <= v => f.book[L] <= v - (size - n)
  BY <1>2, <1>6, <1>8 DEF Lesser
<1>12. b = v => f.book[L] = v - (size - n)
  BY <1>2, <1>6, <1>8 DEF Lesser
<1>13. Covered(e) => Covered(f)
  BY <1>2, <1>8, <1>9, <1>10, <1>11 DEF Covered, b, v
<1>14. Exact(e) => Exact(f)
  BY <1>2, <1>8, <1>9, <1>10, <1>12 DEF Exact, b, v
<1>15. Moved(e, f, L)
  BY <1>8, <1>9, <1>13, <1>14 DEF Moved
<1>16. n < size => f.book[L] = b - Lesser(b, size - n)
  BY <1>2, <1>8
<1> QED BY <1>6, <1>10, <1>15, <1>16 DEF b, v, L, size

(***************************************************************************)
(* An order joins the back of a queue.                                     *)
(***************************************************************************)

JoinsBack(e, f, x, L, n) ==
  /\ DOMAIN f.orders = DOMAIN e.orders \cup {x}
  /\ \A y \in DOMAIN e.orders : f.orders[y] = e.orders[y]
  /\ f.orders[x].level = L /\ f.orders[x].size = n
  /\ \A M \in Levels : \A y, z \in DOMAIN e.orders :
        Before(f.queues[M], y, z) <=> Before(e.queues[M], y, z)
  /\ \A y \in Standing(e, L) : Before(f.queues[L], y, x)

LEMMA RestJoins ==
  ASSUME NEW e, EngineOK(e), Tidy(e), NEW x \in Entries, x \notin DOMAIN e.orders,
         NEW L \in Levels, NEW n \in Nat \ {0}
  PROVE  LET f == Rest(e, x, L, n)
         IN  JoinsBack(e, f, x, L, n) /\ Tidy(f) /\ Moved(e, f, L)
<1> DEFINE f == Rest(e, x, L, n)
<1>1. /\ DOMAIN e = Fields /\ e.queues \in [Levels -> Seq(Entries)]
      /\ e.orders \in [DOMAIN e.orders -> Orders] /\ e.book \in [Levels -> Nat]
  BY EngineFields
<1>2. /\ f.queues = Enqueue(e.queues, L, x)
      /\ f.orders = Put(e.orders, x, [level |-> L, size |-> n])
      /\ f.book = AddToBook(e.book, L, n)
  BY <1>1 DEF Rest, Fields
<1> HIDE DEF f
<1>3. /\ DOMAIN f.orders = DOMAIN e.orders \cup {x}
      /\ \A y \in DOMAIN e.orders : f.orders[y] = e.orders[y]
      /\ f.orders[x].level = L /\ f.orders[x].size = n
  BY <1>2 DEF Put
<1>4. \A M \in Levels : f.queues[M] = IF M = L THEN Append(e.queues[M], x) ELSE e.queues[M]
  BY <1>1, <1>2 DEF Enqueue
<1>5. \A M \in Levels : \A i \in 1..Len(e.queues[M]) : e.queues[M][i] # x
  BY DEF Tidy
<1>6. ASSUME NEW M \in Levels, NEW y \in DOMAIN e.orders, NEW z \in DOMAIN e.orders
      PROVE  Before(f.queues[M], y, z) <=> Before(e.queues[M], y, z)
  <2>1. e.queues[M] \in Seq(Entries) /\ z # x
    BY <1>1
  <2>2. Before(f.queues[M], y, z) => Before(e.queues[M], y, z)
    BY <1>4, <2>1, BeforeAppend
  <2>3. ASSUME Before(e.queues[M], y, z)
        PROVE  Before(f.queues[M], y, z)
    <3> DEFINE q == e.queues[M]
               w == f.queues[M]
    <3>1. /\ Len(q) \in Nat /\ Len(w) \in Nat /\ Len(q) <= Len(w)
          /\ \A i \in 1..Len(q) : w[i] = q[i]
      <4>1. w = IF M = L THEN Append(q, x) ELSE q
        BY <1>4
      <4>2. q \in Seq(Entries)
        BY <2>1
      <4> HIDE DEF w, q
      <4>3. CASE M = L
        BY <4>1, <4>2, <4>3
      <4>4. CASE M # L
        BY <4>1, <4>2, <4>4
      <4> QED BY <4>3, <4>4
    <3>2. PICK i \in 1..Len(q), j \in 1..Len(q) : i < j /\ q[i] = y /\ q[j] = z
      BY <2>3 DEF Before
    <3> HIDE DEF q
    <3>3. i \in 1..Len(w) /\ j \in 1..Len(w) /\ w[i] = y /\ w[j] = z
      BY <3>1, <3>2
    <3> QED BY <3>2, <3>3 DEF Before
  <2> QED BY <2>2, <2>3
<1>7. ASSUME NEW y \in Standing(e, L)
      PROVE  Before(f.queues[L], y, x)
  <2> DEFINE q == e.queues[L]
             w == f.queues[L]
  <2>1. q \in Seq(Entries) /\ w = Append(q, x)
    BY <1>1, <1>4
  <2>2. PICK i \in 1..Len(q) : q[i] = y
    BY DEF Standing, Tidy, StandsOnce
  <2>3. i \in 1..Len(w) /\ Len(w) \in 1..Len(w) /\ i < Len(w) /\ w[i] = y /\ w[Len(w)] = x
    BY <2>1, <2>2
  <2> QED BY <2>3 DEF Before
<1>8. Tidy(f)
  <2>1. ASSUME NEW y \in DOMAIN f.orders
        PROVE  StandsOnce(f.queues[f.orders[y].level], y)
    <3>1. CASE y = x
      <4>1. e.queues[L] \in Seq(Entries) /\ \A i \in 1..Len(e.queues[L]) : e.queues[L][i] # x
        BY <1>1, <1>5
      <4>2. StandsOnce(Append(e.queues[L], x), x)
        BY <4>1, AppendFacts
      <4> QED BY <1>3, <1>4, <3>1, <4>2
    <3>2. CASE y # x
      <4>1. /\ y \in DOMAIN e.orders /\ f.orders[y] = e.orders[y]
            /\ StandsOnce(e.queues[e.orders[y].level], y) /\ e.orders[y].level \in Levels
        BY <1>1, <1>3, <3>2 DEF Tidy, Orders
      <4>2. e.queues[e.orders[y].level] \in Seq(Entries)
        BY <1>1, <4>1
      <4> DEFINE M == e.orders[y].level
      <4>3. f.queues[M] = IF M = L THEN Append(e.queues[M], x) ELSE e.queues[M]
        BY <1>4, <4>1
      <4> HIDE DEF M
      <4>4. StandsOnce(f.queues[M], y)
        BY <3>2, <4>1, <4>2, <4>3, AppendFacts DEF M
      <4> QED BY <4>1, <4>4 DEF M
    <3> QED BY <3>1, <3>2
  <2>2. ASSUME NEW M \in Levels, NEW i \in 1..Len(f.queues[M])
        PROVE  f.queues[M][i] \in DOMAIN f.orders /\ f.orders[f.queues[M][i]].level = M
    <3>1. e.queues[M] \in Seq(Entries)
      BY <1>1
    <3>2. (M = L /\ f.queues[M][i] = x) \/ \E j \in 1..Len(e.queues[M]) : f.queues[M][i] = e.queues[M][j]
      <4> DEFINE q == e.queues[M]
                 w == f.queues[M]
      <4>1. w = IF M = L THEN Append(q, x) ELSE q
        BY <1>4
      <4>2. i \in 1..Len(w) /\ q \in Seq(Entries)
        BY <3>1
      <4> HIDE DEF w, q
      <4>3. CASE M = L
        BY <4>1, <4>2, <4>3, AppendFacts DEF w, q
      <4>4. CASE M # L
        BY <4>1, <4>2, <4>4 DEF w, q
      <4> QED BY <4>3, <4>4
    <3>3. \A j \in 1..Len(e.queues[M]) :
             e.queues[M][j] \in DOMAIN e.orders /\ e.orders[e.queues[M][j]].level = M
      BY DEF Tidy
    <3> QED BY <1>3, <3>2, <3>3
  <2> QED BY <2>1, <2>2 DEF Tidy
<1>9. \A M \in Levels : Volume(e, M) \in Nat
  BY StandingFacts DEF Volume
<1>10. \A M \in Levels \ {L} : f.book[M] = e.book[M] /\ Volume(f, M) = Volume(e, M)
  <2> SUFFICES ASSUME NEW M \in Levels \ {L}
               PROVE  f.book[M] = e.book[M] /\ Volume(f, M) = Volume(e, M)
    OBVIOUS
  <2>1. Standing(f, M) = Standing(e, M)
    BY <1>3 DEF Standing
  <2>2. SizesOf(f, Standing(f, M)) = SizesOf(e, Standing(e, M))
    BY <1>3, <2>1 DEF SizesOf, Standing
  <2> QED BY <1>1, <1>2, <2>2 DEF Volume, AddToBook
<1>11. f.book[L] = e.book[L] + n /\ Volume(f, L) = Volume(e, L) + n
  <2> DEFINE g == SizesOf(e, Standing(e, L))
             h == SizesOf(f, Standing(f, L))
  <2>1. /\ DOMAIN g = Standing(e, L) /\ DOMAIN h = Standing(e, L) \cup {x}
        /\ \A y \in Standing(e, L) : h[y] = g[y]
        /\ h[x] = n /\ x \notin Standing(e, L)
    BY <1>3 DEF SizesOf, Standing
  <2>2. Summable(g)
    BY StandingFacts
  <2> HIDE DEF g, h
  <2>3. /\ x \notin DOMAIN g /\ DOMAIN h = DOMAIN g \cup {x} /\ h[x] \in Int
        /\ \A y \in DOMAIN g : h[y] = g[y]
    BY <2>1
  <2>4. Total(h) = Total(g) + h[x]
    BY <2>2, <2>3, TotalAdd
  <2> QED BY <1>1, <1>2, <2>1, <2>4 DEF Volume, AddToBook, g, h
<1>12. \A M \in Levels : e.book[M] \in Nat
  BY <1>1
<1>13. Covered(e) => Covered(f)
  BY <1>9, <1>10, <1>11, <1>12 DEF Covered
<1>14. Exact(e) => Exact(f)
  BY <1>10, <1>11 DEF Exact
<1> QED BY <1>3, <1>6, <1>7, <1>8, <1>10, <1>13, <1>14 DEF JoinsBack, Moved, f

(***************************************************************************)
(* The operations that resize an order.                                    *)
(***************************************************************************)

LEMMA DequeueEmbeds ==
  ASSUME NEW queues \in [Levels -> Seq(Entries)], NEW L \in Levels, NEW x
  PROVE  /\ \E p : Embeds(p, Dequeue(queues, L, x)[L], queues[L], x)
         /\ \A M \in Levels \ {L} : Dequeue(queues, L, x)[M] = queues[M]
<1>1. queues[L] \in Seq(Entries)
  OBVIOUS
<1>2. \A M \in Levels : Dequeue(queues, L, x)[M] = IF M = L THEN Without(queues[M], x) ELSE queues[M]
  BY DEF Dequeue
<1> QED BY <1>1, <1>2, WithoutEmbeds

LEMMA ResizeResizes ==
  ASSUME NEW e, EngineOK(e), NEW x \in DOMAIN e.orders, NEW n \in Nat
  PROVE  Resized(e, Resize(e, x, n), x, n)
<1> DEFINE f == Resize(e, x, n)
           L == e.orders[x].level
<1>1. /\ DOMAIN e = Fields /\ e.queues \in [Levels -> Seq(Entries)]
      /\ e.orders \in [DOMAIN e.orders -> Orders]
  BY EngineFields
<1>2. L \in Levels
  BY <1>1 DEF Orders
<1>3. /\ f.queues = IF n = 0 THEN Dequeue(e.queues, L, x) ELSE e.queues
      /\ f.orders = SetSize(e.orders, x, n)
      /\ f.book = IF n >= e.orders[x].size THEN AddToBook(e.book, L, n - e.orders[x].size)
                                           ELSE RemoveFromBook(e.book, L, e.orders[x].size - n)
  BY <1>1 DEF Resize, Fields
<1> HIDE DEF f, L
<1>4. ASSUME NEW M \in Levels
      PROVE  IF n = 0 /\ M = L THEN \E p : Embeds(p, f.queues[M], e.queues[M], x)
                               ELSE f.queues[M] = e.queues[M]
  <2>1. CASE n = 0
    <3>1. f.queues = Dequeue(e.queues, L, x)
      BY <1>3, <2>1
    <3> QED BY <1>1, <1>2, <2>1, <3>1, DequeueEmbeds
  <2>2. CASE n # 0
    BY <1>3, <2>2
  <2> QED BY <2>1, <2>2
<1>5. Resized(e, f, x, n)
  BY <1>3, <1>4 DEF Resized, L
<1> QED BY <1>5 DEF f

LEMMA CancelOwnResizes ==
  ASSUME NEW e, EngineOK(e), NEW id, Own(id) \in DOMAIN e.orders
  PROVE  Resized(e, CancelOwn(e, id), Own(id), 0)
<1> DEFINE x == Own(id)
           f == CancelOwn(e, id)
           L == e.orders[x].level
           size == e.orders[x].size
<1>1. /\ DOMAIN e = Fields /\ e.queues \in [Levels -> Seq(Entries)]
      /\ e.orders \in [DOMAIN e.orders -> Orders]
  BY EngineFields
<1>2. L \in Levels /\ size \in Nat \ {0}
  BY <1>1 DEF Orders
<1>3. /\ f.queues = Dequeue(e.queues, L, x) /\ f.orders = Drop(e.orders, x)
      /\ f.book = RemoveFromBook(e.book, L, size)
  BY <1>1 DEF CancelOwn, Fields
<1>4. f.orders = SetSize(e.orders, x, 0)
  BY <1>3 DEF SetSize
<1> HIDE DEF x, f, L, size
<1>5. size - 0 = size /\ ~(0 >= size)
  BY <1>2
<1>6. f.book = IF 0 >= size THEN AddToBook(e.book, L, 0 - size)
                            ELSE RemoveFromBook(e.book, L, size - 0)
  BY <1>3, <1>5
<1>7. \A M \in Levels : IF M = L THEN \E p : Embeds(p, f.queues[M], e.queues[M], x)
                                 ELSE f.queues[M] = e.queues[M]
  BY <1>1, <1>2, <1>3, DequeueEmbeds
<1>8. Resized(e, f, x, 0)
  BY <1>4, <1>6, <1>7 DEF Resized, L, size
<1> QED BY <1>8 DEF f, x

LEMMA FillFrontResizes ==
  ASSUME NEW e, EngineOK(e), Tidy(e), NEW L \in Levels, NEW ts, e.queues[L] # <<>>,
         NEW x, x = Head(e.queues[L]), NEW n \in Nat \ {0}, n <= e.orders[x].size
  PROVE  /\ x \in DOMAIN e.orders /\ e.orders[x].level = L
         /\ Resized(e, FillFront(e, x, L, n, ts), x, e.orders[x].size - n)
<1> DEFINE f == FillFront(e, x, L, n, ts)
           size == e.orders[x].size
           left == size - n
           q == e.queues[L]
<1>1. /\ DOMAIN e = Fields /\ e.queues \in [Levels -> Seq(Entries)]
      /\ e.orders \in [DOMAIN e.orders -> Orders] /\ q \in Seq(Entries)
  BY EngineFields
<1>2. x = q[1] /\ 1 \in 1..Len(q)
  BY <1>1
<1>3. x \in DOMAIN e.orders /\ e.orders[x].level = L /\ StandsOnce(q, x)
  BY <1>2 DEF Tidy
<1>4. size \in Nat \ {0} /\ left \in Nat
  BY <1>1, <1>3 DEF Orders
<1>5. /\ f.queues = IF left = 0 THEN PopFront(e.queues, L) ELSE e.queues
      /\ f.orders = SetSize(e.orders, x, left)
      /\ f.book = RemoveFromBook(e.book, L, n)
  BY <1>1 DEF FillFront, Fields
<1> HIDE DEF f
<1>6. size - left = n /\ ~(left >= size)
  BY <1>4
<1>7. f.book = IF left >= size THEN AddToBook(e.book, L, left - size)
                               ELSE RemoveFromBook(e.book, L, size - left)
  BY <1>5, <1>6
<1> HIDE DEF left
<1>8. ASSUME NEW M \in Levels
      PROVE  IF left = 0 /\ M = L THEN \E p : Embeds(p, f.queues[M], e.queues[M], x)
                                  ELSE f.queues[M] = e.queues[M]
  <2>1. CASE left = 0
    <3>1. f.queues[M] = IF M = L THEN Tail(e.queues[M]) ELSE e.queues[M]
      BY <1>1, <1>5, <2>1 DEF PopFront
    <3>2. \E p : Embeds(p, Tail(q), q, x)
      <4> HIDE DEF q
      <4> QED BY <1>1, <1>3, TailEmbeds DEF q
    <3> QED BY <2>1, <3>1, <3>2
  <2>2. CASE left # 0
    BY <1>5, <2>2
  <2> QED BY <2>1, <2>2
<1>9. Resized(e, f, x, left)
  BY <1>3, <1>5, <1>7, <1>8 DEF Resized
<1> QED BY <1>3, <1>9 DEF f, left

(* Moving an order is taking it away and resting it again.                 *)
LEMMA MoveIsRest ==
  ASSUME NEW e, EngineOK(e), NEW x \in DOMAIN e.orders, NEW L \in Levels, NEW n
  PROVE  MovePublic(e, x, L, n) = Rest(Resize(e, x, 0), x, L, n)
<1> DEFINE K == e.orders[x].level
           size == e.orders[x].size
           g == Resize(e, x, 0)
           new == [level |-> L, size |-> n]
<1>1. /\ DOMAIN e = Fields /\ e = [k \in DOMAIN e |-> e[k]]
      /\ e.orders \in [DOMAIN e.orders -> Orders]
  BY EngineFields
<1>2. size \in Nat \ {0}
  BY <1>1 DEF Orders
<1>3. size - 0 = size /\ ~(0 >= size)
  BY <1>2
<1>4. g = [e EXCEPT !.book = RemoveFromBook(@, K, size), !.orders = Drop(@, x),
                    !.queues = Dequeue(@, K, x)]
  BY <1>3 DEF Resize, SetSize
<1>5. Put(Drop(e.orders, x), x, new) = Put(e.orders, x, new)
  <2>1. DOMAIN Drop(e.orders, x) \cup {x} = DOMAIN e.orders \cup {x}
    BY DEF Drop
  <2>2. \A y \in DOMAIN e.orders : y # x => Drop(e.orders, x)[y] = e.orders[y]
    BY DEF Drop
  <2> QED BY <2>1, <2>2 DEF Put
<1>6. /\ DOMAIN g = Fields
      /\ g.book = RemoveFromBook(e.book, K, size) /\ g.orders = Drop(e.orders, x)
      /\ g.queues = Dequeue(e.queues, K, x)
      /\ g.fills = e.fills /\ g.nextId = e.nextId /\ g.now = e.now /\ g.position = e.position
  BY <1>1, <1>4 DEF Fields
<1> DEFINE left == [e EXCEPT !.book = RemoveFromBook(@, K, size),
                             !.queues = Dequeue(@, K, x)]
<1>7. /\ DOMAIN left = Fields
      /\ left.book = RemoveFromBook(e.book, K, size) /\ left.orders = e.orders
      /\ left.queues = Dequeue(e.queues, K, x)
      /\ left.fills = e.fills /\ left.nextId = e.nextId /\ left.now = e.now
      /\ left.position = e.position
  BY <1>1 DEF Fields
<1>8. MovePublic(e, x, L, n) = Rest(left, x, L, n)
  BY DEF MovePublic
<1> HIDE DEF g, left, K, size
<1>9. Rest(g, x, L, n) = Rest(left, x, L, n)
  <2> DEFINE a == Rest(g, x, L, n)
             b == Rest(left, x, L, n)
  <2>1. DOMAIN a = Fields /\ a = [k \in DOMAIN a |-> a[k]]
    BY <1>6 DEF Rest
  <2>2. DOMAIN b = Fields /\ b = [k \in DOMAIN b |-> b[k]]
    BY <1>7 DEF Rest
  <2>3. a.orders = b.orders
    BY <1>5, <1>6, <1>7 DEF Rest, Fields
  <2>4. a.book = b.book /\ a.queues = b.queues
    BY <1>6, <1>7 DEF Rest, Fields
  <2>5. a.fills = b.fills /\ a.nextId = b.nextId /\ a.now = b.now /\ a.position = b.position
    BY <1>6, <1>7 DEF Rest, Fields
  <2> HIDE DEF a, b
  <2>6. \A k \in Fields : a[k] = b[k]
    BY <2>3, <2>4, <2>5 DEF Fields
  <2>7. a = b
    BY <2>1, <2>2, <2>6
  <2> QED BY <2>7 DEF a, b
<1> QED BY <1>8, <1>9 DEF g

(***************************************************************************)
(* Consuming a level: its orders are used up in the order of the queue.    *)
(***************************************************************************)

\* Order x and the orders in front of it at its level, and their size.
InFront(e, x) ==
  {y \in Standing(e, e.orders[x].level) : y = x \/ Before(e.queues[e.orders[x].level], y, x)}
UpTo(e, x) == Total(SizesOf(e, InFront(e, x)))

\* n of level L was consumed, front first: an order that is gone had no more than
\* n up to it, one that is left lost nothing of its size or all of it but what
\* is left up to it.
Eaten(e, f, L, n) ==
  /\ Tidy(f) /\ Moved(e, f, L) /\ SameOrder(e, f)
  /\ Volume(f, L) = Volume(e, L) - n
  /\ f.book[L] = e.book[L] - Lesser(e.book[L], n)
  /\ DOMAIN f.orders \subseteq DOMAIN e.orders
  /\ \A x \in DOMAIN e.orders \ DOMAIN f.orders : e.orders[x].level = L /\ UpTo(e, x) <= n
  /\ \A x \in DOMAIN f.orders :
        /\ f.orders[x].level = e.orders[x].level
        /\ \/ f.orders[x].size = e.orders[x].size
           \/ f.orders[x].level = L /\ f.orders[x].size >= UpTo(f, x)
        /\ f.orders[x].level = L => UpTo(f, x) = UpTo(e, x) - n

LEMMA UpToFacts ==
  ASSUME NEW e, EngineOK(e), Tidy(e), NEW x \in DOMAIN e.orders
  PROVE  /\ e.orders[x].level \in Levels /\ InFront(e, x) \in SUBSET Standing(e, e.orders[x].level)
         /\ x \in InFront(e, x)
         /\ UpTo(e, x) \in Nat
<1>1. e.orders[x].level \in Levels
  BY EngineFields DEF Orders
<1>2. InFront(e, x) \in SUBSET Standing(e, e.orders[x].level)
  BY DEF InFront
<1>3. x \in InFront(e, x)
  BY DEF InFront, Standing
<1>4. UpTo(e, x) \in Nat
  BY <1>1, <1>2, StandingFacts DEF UpTo
<1> QED BY <1>1, <1>2, <1>3, <1>4

LEMMA UpToResized ==
  ASSUME NEW e, EngineOK(e), Tidy(e), NEW f, NEW x \in DOMAIN e.orders, NEW n \in Nat,
         OnlySize(e, f, x, n), SameOrder(e, f), NEW y \in DOMAIN f.orders, x \in InFront(e, y)
  PROVE  Off(UpTo(f, y), UpTo(e, y), e.orders[x].size, n)
<1>1. y \in DOMAIN e.orders /\ f.orders[y].level = e.orders[y].level
  BY DEF OnlySize
<1> DEFINE L == e.orders[y].level
           S == InFront(e, y)
           T == InFront(f, y)
<1>2. L \in Levels /\ S \in SUBSET Standing(e, L)
  BY <1>1, UpToFacts
<1>3. T = S \cap DOMAIN f.orders
  <2>1. Standing(f, L) = Standing(e, L) \cap DOMAIN f.orders
    BY StandingResized
  <2>2. \A z \in DOMAIN f.orders : Before(f.queues[L], z, y) <=> Before(e.queues[L], z, y)
    BY <1>2 DEF SameOrder
  <2> QED BY <1>1, <2>1, <2>2 DEF InFront
<1>4. UpTo(e, y) = Total(SizesOf(e, S)) /\ UpTo(f, y) = Total(SizesOf(f, T))
  BY DEF UpTo
<1> HIDE DEF L, S, T
<1>5. Off(Total(SizesOf(f, T)), Total(SizesOf(e, S)), e.orders[x].size, n)
  <2>1. L \in Levels
    BY <1>2
  <2>2. S \in SUBSET Standing(e, L)
    BY <1>2
  <2>3. x \in S
    BY DEF S
  <2> QED BY <1>3, <2>1, <2>2, <2>3, SizesResizedWithin
<1> QED BY <1>4, <1>5

(* Nothing stands in front of the front entry, and it in front of all.      *)
LEMMA FrontFacts ==
  ASSUME NEW e, EngineOK(e), Tidy(e), NEW L \in Levels, e.queues[L] # <<>>,
         NEW x, x = Head(e.queues[L])
  PROVE  /\ x \in DOMAIN e.orders /\ e.orders[x].level = L
         /\ InFront(e, x) = {x} /\ UpTo(e, x) = e.orders[x].size
         /\ \A y \in Standing(e, L) : x \in InFront(e, y)
<1> DEFINE q == e.queues[L]
<1>1. q \in Seq(Entries) /\ e.orders \in [DOMAIN e.orders -> Orders]
  BY EngineFields
<1>2. x = q[1] /\ 1 \in 1..Len(q) /\ Len(q) \in Nat
  BY <1>1
<1>3. x \in DOMAIN e.orders /\ e.orders[x].level = L /\ StandsOnce(q, x)
  BY <1>2 DEF Tidy
<1>4. \A k \in 1..Len(q) : q[k] = x <=> k = 1
  BY <1>2, <1>3 DEF StandsOnce
<1>5. ASSUME NEW y PROVE ~Before(q, y, x)
  <2>1. SUFFICES ASSUME NEW i \in 1..Len(q), NEW j \in 1..Len(q), i < j, q[j] = x
                 PROVE  FALSE
    BY DEF Before
  <2>2. j = 1
    BY <1>4, <2>1
  <2> QED BY <1>2, <2>1, <2>2
<1>6. InFront(e, x) = {x}
  BY <1>3, <1>5 DEF InFront, Standing
<1>7. UpTo(e, x) = e.orders[x].size
  <2> DEFINE g == SizesOf(e, InFront(e, x))
             none == [z \in {} |-> 0]
  <2>1. DOMAIN g = {x} /\ g[x] = e.orders[x].size /\ g[x] \in Nat
    BY <1>1, <1>3, <1>6 DEF SizesOf, Orders
  <2>2. IsFiniteSet({})
    BY FS_EmptySet
  <2>3. Summable(none) /\ DOMAIN none = {}
    BY <2>2 DEF Summable
  <2> HIDE DEF g, none
  <2>4. Total(none) = 0
    BY <2>3, TotalZero
  <2>5. x \notin DOMAIN none /\ DOMAIN g = DOMAIN none \cup {x} /\ g[x] \in Int
        /\ \A i \in DOMAIN none : g[i] = none[i]
    BY <2>1, <2>3
  <2>6. Total(g) = Total(none) + g[x]
    BY <2>3, <2>5, TotalAdd
  <2> QED BY <2>1, <2>4, <2>6 DEF UpTo, g
<1>8. ASSUME NEW y \in Standing(e, L)
      PROVE  x \in InFront(e, y)
  <2>1. CASE y = x
    BY <1>3, <2>1 DEF InFront, Standing
  <2>2. CASE y # x
    <3>1. y \in DOMAIN e.orders /\ e.orders[y].level = L
      BY DEF Standing
    <3>2. PICK j \in 1..Len(q) : q[j] = y
      BY <3>1 DEF Tidy, StandsOnce
    <3>3. 1 < j
      BY <1>2, <2>2, <3>2
    <3>4. Before(q, x, y)
      BY <1>2, <3>2, <3>3 DEF Before
    <3> QED BY <1>3, <3>1, <3>4 DEF InFront, Standing
  <2> QED BY <2>1, <2>2
<1> QED BY <1>3, <1>6, <1>7, <1>8

(* Taking d from the front order of a level eats d of it.                  *)
LEMMA FillFrontEats ==
  ASSUME NEW e, EngineInv(e), Tidy(e), NEW L \in Levels, NEW ts \in Nat, e.queues[L] # <<>>,
         NEW x, x = Head(e.queues[L]), NEW d \in Nat \ {0}, d <= e.orders[x].size
  PROVE  /\ Eaten(e, FillFront(e, x, L, d, ts), L, d)
         /\ EngineInv(FillFront(e, x, L, d, ts))
<1> DEFINE f == FillFront(e, x, L, d, ts)
           size == e.orders[x].size
           left == size - d
<1>1. EngineOK(e) /\ x \in DOMAIN e.orders /\ e.orders[x].level = L
  BY FrontFacts DEF EngineInv
<1>2. size \in Nat \ {0}
  BY <1>1, EngineFields DEF Orders
<1>3. left \in Nat /\ left < size /\ size - left = d
  <2> HIDE DEF size
  <2>1. d <= size
    BY DEF size
  <2> QED BY <1>2, <2>1
<1>4. Resized(e, f, x, left)
  BY <1>1, FillFrontResizes
<1>5. EngineInv(f) /\ EngineOK(f)
  BY <1>1, FillFrontFacts DEF EngineInv
<1> HIDE DEF f, left
<1>6. OnlySize(e, f, x, left) /\ SameOrder(e, f) /\ Tidy(f)
  BY <1>1, <1>3, <1>4, <1>5, ResizedOrders
<1>7. /\ Moved(e, f, L)
      /\ Volume(f, L) = Volume(e, L) - (size - left)
      /\ left < size => f.book[L] = e.book[L] - Lesser(e.book[L], size - left)
  <2>1. LET K == e.orders[x].level
            z == e.orders[x].size
        IN  /\ Moved(e, f, K)
            /\ Volume(f, K) = Volume(e, K) - (z - left) /\ z <= Volume(e, K)
            /\ left < z => f.book[K] = e.book[K] - Lesser(e.book[K], z - left)
    BY <1>1, <1>3, <1>4, <1>5, ResizedBook
  <2> QED BY <1>1, <2>1
<1>8. /\ InFront(e, x) = {x} /\ UpTo(e, x) = size
      /\ \A y \in Standing(e, L) : x \in InFront(e, y)
  BY <1>1, FrontFacts
<1>9. \A y \in DOMAIN f.orders : y \in DOMAIN e.orders /\ f.orders[y].level = e.orders[y].level
  BY <1>6 DEF OnlySize
<1>10. ASSUME NEW y \in DOMAIN f.orders, f.orders[y].level = L
       PROVE  UpTo(f, y) = UpTo(e, y) - d
  <2>1. x \in InFront(e, y)
    BY <1>8, <1>9, <1>10 DEF Standing
  <2>2. Off(UpTo(f, y), UpTo(e, y), e.orders[x].size, left)
    BY <1>1, <1>3, <1>6, <1>10, <2>1, UpToResized
  <2> QED BY <1>3, <2>2 DEF Off
<1>11. ASSUME NEW y \in DOMAIN f.orders
       PROVE  \/ f.orders[y].size = e.orders[y].size
              \/ f.orders[y].level = L /\ f.orders[y].size >= UpTo(f, y)
  <2>1. CASE y # x
    BY <1>6, <2>1 DEF OnlySize
  <2>2. CASE y = x
    <3>1. f.orders[y].level = L /\ f.orders[y].size = left
      BY <1>1, <1>6, <2>2 DEF OnlySize
    <3>2. UpTo(f, y) = size - d
      BY <1>8, <1>10, <2>2, <3>1
    <3>3. left >= UpTo(f, y)
      BY <1>3, <3>2 DEF left
    <3> QED BY <3>1, <3>3
  <2> QED BY <2>1, <2>2
<1>12. ASSUME NEW y \in DOMAIN e.orders \ DOMAIN f.orders
       PROVE  e.orders[y].level = L /\ UpTo(e, y) <= d
  <2>1. y = x /\ left = 0
    BY <1>6 DEF OnlySize
  <2> QED BY <1>1, <1>2, <1>3, <1>8, <2>1
<1>13. Volume(f, L) = Volume(e, L) - d /\ f.book[L] = e.book[L] - Lesser(e.book[L], d)
  BY <1>3, <1>7
<1>14. Eaten(e, f, L, d)
  BY <1>6, <1>7, <1>9, <1>10, <1>11, <1>12, <1>13 DEF Eaten
<1> QED BY <1>5, <1>14 DEF f

LEMMA EatenReflexive ==
  ASSUME NEW e, EngineOK(e), Tidy(e), NEW L \in Levels
  PROVE  Eaten(e, e, L, 0)
<1>1. e.book[L] \in Nat /\ Volume(e, L) \in Nat
  BY EngineFields, StandingFacts DEF Volume
<1>2. e.book[L] - Lesser(e.book[L], 0) = e.book[L]
  BY <1>1 DEF Lesser
<1>3. \A x \in DOMAIN e.orders : UpTo(e, x) = UpTo(e, x) - 0
  BY UpToFacts
<1>4. Volume(e, L) = Volume(e, L) - 0
  BY <1>1
<1> QED BY <1>2, <1>3, <1>4 DEF Eaten, Moved, SameOrder

LEMMA EatenTransitive ==
  ASSUME NEW e, EngineOK(e), Tidy(e), NEW f, EngineOK(f), NEW g, EngineOK(g),
         NEW L \in Levels, NEW m \in Nat, NEW n \in Nat,
         Eaten(e, f, L, m), Eaten(f, g, L, n)
  PROVE  Eaten(e, g, L, m + n)
<1>1. Tidy(f) /\ Tidy(g)
  BY DEF Eaten
<1>2. /\ \A x \in DOMAIN e.orders : UpTo(e, x) \in Nat
      /\ \A x \in DOMAIN f.orders : UpTo(f, x) \in Nat /\ x \in DOMAIN e.orders
      /\ \A x \in DOMAIN g.orders : UpTo(g, x) \in Nat /\ x \in DOMAIN f.orders
  BY <1>1, UpToFacts DEF Eaten
<1>3. \A x \in DOMAIN e.orders : x \notin DOMAIN f.orders => e.orders[x].level = L /\ UpTo(e, x) <= m
  BY DEF Eaten
<1>4. \A x \in DOMAIN f.orders :
         /\ f.orders[x].level = e.orders[x].level
         /\ \/ f.orders[x].size = e.orders[x].size
            \/ f.orders[x].level = L /\ f.orders[x].size >= UpTo(f, x)
         /\ f.orders[x].level = L => UpTo(f, x) = UpTo(e, x) - m
         /\ x \notin DOMAIN g.orders => f.orders[x].level = L /\ UpTo(f, x) <= n
  BY DEF Eaten
<1>5. \A x \in DOMAIN g.orders :
         /\ g.orders[x].level = f.orders[x].level
         /\ \/ g.orders[x].size = f.orders[x].size
            \/ g.orders[x].level = L /\ g.orders[x].size >= UpTo(g, x)
         /\ g.orders[x].level = L => UpTo(g, x) = UpTo(f, x) - n
  BY DEF Eaten
<1>6. ASSUME NEW x \in DOMAIN e.orders, x \notin DOMAIN g.orders
      PROVE  e.orders[x].level = L /\ UpTo(e, x) <= m + n
  <2>1. CASE x \notin DOMAIN f.orders
    BY <1>2, <1>3, <2>1
  <2>2. CASE x \in DOMAIN f.orders
    <3>1. f.orders[x].level = L /\ UpTo(f, x) <= n /\ UpTo(f, x) = UpTo(e, x) - m
          /\ e.orders[x].level = L
      BY <1>4, <1>6, <2>2
    <3> QED BY <1>2, <3>1
  <2> QED BY <2>1, <2>2
<1>7. ASSUME NEW x \in DOMAIN g.orders
      PROVE  /\ g.orders[x].level = e.orders[x].level
             /\ \/ g.orders[x].size = e.orders[x].size
                \/ g.orders[x].level = L /\ g.orders[x].size >= UpTo(g, x)
             /\ g.orders[x].level = L => UpTo(g, x) = UpTo(e, x) - (m + n)
  <2>1. x \in DOMAIN f.orders /\ x \in DOMAIN e.orders
    BY <1>2
  <2>2. g.orders[x].level = f.orders[x].level /\ f.orders[x].level = e.orders[x].level
    BY <1>4, <1>5, <2>1
  <2>3. g.orders[x].level = L
           => UpTo(g, x) = UpTo(f, x) - n /\ UpTo(f, x) = UpTo(e, x) - m
    BY <1>4, <1>5, <2>1, <2>2
  <2>4. g.orders[x].level = L => UpTo(g, x) = UpTo(e, x) - (m + n) /\ UpTo(f, x) >= UpTo(g, x)
    BY <1>2, <2>1, <2>3
  <2>5. f.orders[x].size \in Nat
    BY <2>1, EngineFields DEF Orders
  <2>6. \/ g.orders[x].size = e.orders[x].size
        \/ g.orders[x].level = L /\ g.orders[x].size >= UpTo(g, x)
    <3>1. CASE g.orders[x].level = L /\ g.orders[x].size >= UpTo(g, x)
      BY <3>1
    <3>2. CASE g.orders[x].size = f.orders[x].size /\ f.orders[x].size = e.orders[x].size
      BY <3>2
    <3>3. CASE /\ g.orders[x].size = f.orders[x].size
               /\ f.orders[x].level = L /\ f.orders[x].size >= UpTo(f, x)
      <4>1. UpTo(f, x) >= UpTo(g, x) /\ g.orders[x].level = L
        BY <2>2, <2>4, <3>3
      <4>2. f.orders[x].size >= UpTo(g, x)
        BY <1>2, <2>1, <2>5, <3>3, <4>1
      <4> QED BY <3>3, <4>1, <4>2
    <3> QED BY <1>4, <1>5, <2>1, <3>1, <3>2, <3>3
  <2> QED BY <2>2, <2>4, <2>6
<1>8. Moved(e, g, L)
  BY DEF Eaten, Moved
<1>9. SameOrder(e, g)
  BY <1>2 DEF Eaten, SameOrder
<1>10. Volume(g, L) = Volume(e, L) - (m + n)
  <2>1. Volume(e, L) \in Nat /\ Volume(f, L) = Volume(e, L) - m /\ Volume(g, L) = Volume(f, L) - n
    BY StandingFacts DEF Volume, Eaten
  <2> QED BY <2>1
<1>11. g.book[L] = e.book[L] - Lesser(e.book[L], m + n)
  <2> DEFINE b == e.book[L]
             c == f.book[L]
  <2>1. b \in Nat /\ c \in Nat /\ c = b - Lesser(b, m) /\ g.book[L] = c - Lesser(c, n)
    BY EngineFields DEF Eaten
  <2> HIDE DEF b, c
  <2>2. c - Lesser(c, n) = b - Lesser(b, m + n)
    BY <2>1 DEF Lesser
  <2> QED BY <2>1, <2>2 DEF b
<1>12. DOMAIN g.orders \subseteq DOMAIN e.orders
  BY <1>2
<1> QED BY <1>1, <1>6, <1>7, <1>8, <1>9, <1>10, <1>11, <1>12 DEF Eaten

(* A turn of the loop eats what it takes, and ends the loop or an entry.    *)
LEMMA ConsumeStepEats ==
  ASSUME NEW s \in ConsumeStates, Tidy(s.e), NEW L \in Levels, NEW ts \in Nat,
         s.rem # 0, s.e.queues[L] # <<>>,
         NEW t, t = ConsumeStep(s, L, ts)
  PROVE  /\ t \in ConsumeStates /\ t.rem <= s.rem
         /\ Eaten(s.e, t.e, L, s.rem - t.rem)
         /\ t.rem = 0 \/ Len(t.e.queues[L]) + 1 = Len(s.e.queues[L])
<1> DEFINE e == s.e
           x == Head(e.queues[L])
           size == e.orders[x].size
           n == Lesser(size, s.rem)
           f == FillFront(e, x, L, n, ts)
<1>1. EngineInv(e) /\ EngineOK(e) /\ s.rem \in Nat \ {0}
  BY DEF ConsumeStates, EngineInv
<1>2. /\ DOMAIN e = Fields /\ e.queues \in [Levels -> Seq(Entries)]
      /\ e.orders \in [DOMAIN e.orders -> Orders]
  BY <1>1, EngineFields
<1>3. x \in DOMAIN e.orders
  <2> DEFINE z == x
  <2>1. z = Head(e.queues[L])
    OBVIOUS
  <2> HIDE DEF z, e
  <2>2. z \in DOMAIN e.orders
    BY <1>1, <2>1, FrontFacts DEF e
  <2> QED BY <2>2 DEF z
<1>4. size \in Nat \ {0}
  BY <1>2, <1>3 DEF Orders
<1>5. t = [e |-> f, rem |-> s.rem - n]
  BY <1>3 DEF ConsumeStep
<1>6. /\ n \in Nat \ {0} /\ n <= size /\ s.rem - n \in Nat /\ s.rem - n <= s.rem
      /\ s.rem - (s.rem - n) = n
      /\ s.rem - n = 0 \/ size - n = 0
  <2> DEFINE a == size
             b == s.rem
  <2>1. a \in Nat \ {0} /\ b \in Nat \ {0} /\ n = Lesser(a, b)
    BY <1>1, <1>4
  <2> HIDE DEF a, b, n
  <2>2. /\ n \in Nat \ {0} /\ n <= a /\ b - n \in Nat /\ b - n <= b
        /\ b - (b - n) = n
        /\ b - n = 0 \/ a - n = 0
    BY <2>1 DEF Lesser
  <2> QED BY <2>2 DEF a, b
<1>7. size - n = 0 => Len(f.queues[L]) + 1 = Len(e.queues[L])
  <2> SUFFICES ASSUME size - n = 0 PROVE Len(f.queues[L]) + 1 = Len(e.queues[L])
    OBVIOUS
  <2>1. f.queues = PopFront(e.queues, L)
    BY <1>2 DEF FillFront, Fields
  <2>2. f.queues[L] = Tail(e.queues[L]) /\ e.queues[L] \in Seq(Entries)
    BY <1>2, <2>1 DEF PopFront
  <2> DEFINE q == e.queues[L]
  <2>3. q \in Seq(Entries) /\ q # <<>> /\ f.queues[L] = Tail(q)
    BY <2>2
  <2> HIDE DEF q, f
  <2>4. Len(Tail(q)) + 1 = Len(q)
    BY <2>3
  <2> QED BY <2>3, <2>4 DEF q
<1>8. t.e = f /\ t.rem = s.rem - n
  BY <1>5
<1> HIDE DEF n
<1>9. Eaten(e, f, L, n) /\ EngineInv(f)
  <2> DEFINE a == s.e
             z == x
             d == n
  <2>1. /\ EngineInv(a) /\ Tidy(a) /\ a.queues[L] # <<>> /\ z = Head(a.queues[L])
        /\ d \in Nat \ {0} /\ d <= a.orders[z].size
        /\ f = FillFront(a, z, L, d, ts)
    BY <1>1, <1>6
  <2> HIDE DEF a, z, d, f
  <2>2. Eaten(a, f, L, d) /\ EngineInv(f)
    BY <2>1, FillFrontEats
  <2> QED BY <2>2 DEF a, d
<1> HIDE DEF f
<1>10. f \in Engines
  BY <1>9, EnginesFacts DEF EngineInv
<1>11. t \in ConsumeStates
  BY <1>5, <1>6, <1>9, <1>10 DEF ConsumeStates
<1> HIDE DEF size, x
<1>12. t.rem <= s.rem /\ s.rem - t.rem = n /\ (t.rem = 0 \/ size - n = 0)
  <2>1. /\ s.rem - n <= s.rem /\ s.rem - (s.rem - n) = n
        /\ s.rem - n = 0 \/ size - n = 0
    BY <1>6
  <2> QED BY <1>8, <2>1
<1>13. Eaten(e, t.e, L, s.rem - t.rem)
  BY <1>8, <1>9, <1>12
<1> QED BY <1>7, <1>8, <1>11, <1>12, <1>13

LEMMA EmptyLevel ==
  ASSUME NEW e, EngineOK(e), Tidy(e), NEW L \in Levels, e.queues[L] = <<>>
  PROVE  Volume(e, L) = 0
<1> DEFINE g == SizesOf(e, Standing(e, L))
<1>1. Standing(e, L) = {}
  <2>1. \A x \in Standing(e, L) : \E i \in 1..Len(e.queues[L]) : TRUE
    BY DEF Standing, Tidy, StandsOnce
  <2>2. Len(e.queues[L]) = 0
    OBVIOUS
  <2> QED BY <2>1, <2>2
<1>2. Summable(g) /\ DOMAIN g = {}
  BY <1>1, StandingFacts DEF SizesOf
<1> HIDE DEF g
<1>3. Total(g) = 0
  BY <1>2, TotalZero
<1> QED BY <1>3 DEF Volume, g

LEMMA ConsumeLevelEats ==
  ASSUME NEW e, EngineInv(e), Tidy(e), NEW L \in Levels, NEW n \in Nat, NEW ts \in Nat
  PROVE  \E m \in 0..n :
            /\ Eaten(e, ConsumeLevel(e, L, n, ts), L, m)
            /\ m = n \/ Volume(ConsumeLevel(e, L, n, ts), L) = 0
<1> DEFINE s == [e |-> e, rem |-> n]
           G == {t \in ConsumeStates : t.rem <= n /\ Eaten(e, t.e, L, n - t.rem)}
           k == Len(e.queues[L])
           turn == ConsumeLoop(s, L, ts)
<1>1. EngineOK(e) /\ e \in Engines /\ e.queues \in [Levels -> Seq(Entries)] /\ k \in Nat
  <2>1. EngineOK(e)
    BY DEF EngineInv
  <2>2. e.queues \in [Levels -> Seq(Entries)]
    BY <2>1, EngineFields
  <2>3. e.queues[L] \in Seq(Entries)
    BY <2>2
  <2> QED BY <2>1, <2>2, <2>3, EnginesFacts
<1>2. s \in G
  <2>1. n - n = 0 /\ n <= n
    OBVIOUS
  <2> QED BY <1>1, <2>1, EatenReflexive DEF ConsumeStates
<1>3. \A t \in G : Tidy(t.e) /\ EngineOK(t.e) /\ t \in ConsumeStates /\ t.rem \in Nat /\ t.rem <= n
  BY DEF Eaten, ConsumeStates, EngineInv
<1>4. ASSUME NEW t \in G, NEW u, u = ConsumeStep(t, L, ts), t.rem # 0, t.e.queues[L] # <<>>
      PROVE  u \in G /\ (u.rem = 0 \/ Len(u.e.queues[L]) + 1 = Len(t.e.queues[L]))
  <2>1. /\ u \in ConsumeStates /\ u.rem <= t.rem
        /\ Eaten(t.e, u.e, L, t.rem - u.rem)
        /\ u.rem = 0 \/ Len(u.e.queues[L]) + 1 = Len(t.e.queues[L])
    BY <1>3, <1>4, ConsumeStepEats
  <2>2. /\ Eaten(e, t.e, L, n - t.rem) /\ t.rem <= n /\ t.rem \in Nat /\ u.rem \in Nat
        /\ EngineOK(t.e) /\ EngineOK(u.e)
    BY <1>3, <2>1 DEF ConsumeStates, EngineInv
  <2> DEFINE a == n - t.rem
             b == t.rem - u.rem
  <2>3. a \in Nat /\ b \in Nat /\ a + b = n - u.rem /\ u.rem <= n
    BY <2>1, <2>2
  <2>4. Eaten(e, t.e, L, a) /\ Eaten(t.e, u.e, L, b)
    BY <2>1, <2>2
  <2> HIDE DEF a, b
  <2>5. Eaten(e, u.e, L, a + b)
    BY <1>1, <2>2, <2>3, <2>4, EatenTransitive
  <2> QED BY <2>1, <2>3, <2>5
<1>5. ASSUME NEW t \in G PROVE ConsumeStep(t, L, ts) \in G
  <2>1. CASE t.rem = 0 \/ t.e.queues[L] = <<>>
    BY <2>1 DEF ConsumeStep
  <2>2. CASE t.rem # 0 /\ t.e.queues[L] # <<>>
    BY <1>4, <2>2
  <2> QED BY <2>1, <2>2
<1>6. s.e = e /\ ConsumeLevel(e, L, n, ts) = turn[k].e
  BY DEF ConsumeLevel
<1> HIDE DEF G, s
<1>7. turn[0] = s /\ \A i \in Nat : turn[i] \in G /\ turn[i + 1] = ConsumeStep(turn[i], L, ts)
  BY <1>2, <1>5, ConsumeLoopTurns
<1> HIDE DEF turn
<1> DEFINE Shorter(i) == \/ turn[i].rem = 0 \/ turn[i].e.queues[L] = <<>>
                         \/ Len(turn[i].e.queues[L]) + i <= k
           S == {i \in Nat : Shorter(i)}
<1>8. \A i \in Nat : turn[i].e.queues[L] \in Seq(Entries) /\ turn[i].rem \in Nat
  BY <1>3, <1>7, EngineFields
<1>9. 0 \in S
  BY <1>1, <1>6, <1>7
<1>10. ASSUME NEW i \in S PROVE i + 1 \in S
  <2> DEFINE t == turn[i]
             u == turn[i + 1]
  <2>0. i \in Nat /\ i + 1 \in Nat /\ Shorter(i)
    OBVIOUS
  <2>1. /\ i \in Nat /\ i + 1 \in Nat /\ u = ConsumeStep(t, L, ts) /\ t \in G
        /\ t.rem = 0 \/ t.e.queues[L] = <<>> \/ Len(t.e.queues[L]) + i <= k
        /\ t.e.queues[L] \in Seq(Entries) /\ u.e.queues[L] \in Seq(Entries)
    BY <1>7, <1>8, <2>0
  <2>2. CASE t.rem = 0 \/ t.e.queues[L] = <<>>
    <3>1. u = t
      BY <2>1, <2>2 DEF ConsumeStep
    <3> QED BY <2>1, <2>2, <3>1
  <2>3. CASE t.rem # 0 /\ t.e.queues[L] # <<>>
    <3>1. u.rem = 0 \/ Len(u.e.queues[L]) + 1 = Len(t.e.queues[L])
      BY <1>4, <2>1, <2>3
    <3> DEFINE a == Len(t.e.queues[L])
               b == Len(u.e.queues[L])
    <3>2. a \in Nat /\ b \in Nat
      <4> DEFINE q == t.e.queues[L]
                 w == u.e.queues[L]
      <4>1. q \in Seq(Entries) /\ w \in Seq(Entries) /\ a = Len(q) /\ b = Len(w)
        BY <2>1
      <4> HIDE DEF a, b, q, w
      <4> QED BY <4>1
    <3>3. (u.rem = 0 \/ b + 1 = a) /\ a + i <= k
      <4> HIDE DEF t, u, k
      <4> QED BY <2>1, <2>3, <3>1
    <3>0. i \in Nat /\ k \in Nat
      BY <1>1, <2>1
    <3> HIDE DEF a, b, t, u, k
    <3>4. u.rem = 0 \/ b + (i + 1) <= k
      BY <3>0, <3>2, <3>3
    <3> QED BY <2>1, <3>4 DEF b, u
  <2> QED BY <2>2, <2>3
<1>11. k \in S
  <2>1. S \in SUBSET Nat
    OBVIOUS
  <2> HIDE DEF S
  <2> QED BY <1>1, <1>9, <1>10, <2>1, SetInduction
<1> DEFINE t == turn[k]
<1>12. t.rem = 0 \/ t.e.queues[L] = <<>>
  <2> DEFINE q == t.e.queues[L]
  <2>1. q \in Seq(Entries) /\ (t.rem = 0 \/ q = <<>> \/ Len(q) + k <= k)
    BY <1>1, <1>8, <1>11
  <2> HIDE DEF q, t, k
  <2>2. Len(q) \in Nat /\ (Len(q) = 0 => q = <<>>)
    BY <2>1
  <2>3. t.rem = 0 \/ q = <<>>
    BY <1>1, <2>1, <2>2
  <2> QED BY <2>3 DEF q
<1>13. t \in G /\ t.e = ConsumeLevel(e, L, n, ts)
  BY <1>1, <1>6, <1>7
<1> HIDE DEF t, k
<1>14. /\ t.rem \in Nat /\ t.rem <= n /\ Eaten(e, t.e, L, n - t.rem)
       /\ EngineOK(t.e) /\ Tidy(t.e)
  BY <1>3, <1>13 DEF G
<1>15. t.e.queues[L] = <<>> => Volume(t.e, L) = 0
  BY <1>14, EmptyLevel
<1>16. n - t.rem \in 0..n /\ (t.rem = 0 => n - t.rem = n)
  BY <1>14
<1> QED BY <1>12, <1>13, <1>14, <1>15, <1>16

(* What a level holds can be eaten.                                        *)
LEMMA ConsumeLevelEatsAll ==
  ASSUME NEW e, EngineInv(e), Tidy(e), NEW L \in Levels, NEW n \in Nat, NEW ts \in Nat,
         n <= Volume(e, L)
  PROVE  Eaten(e, ConsumeLevel(e, L, n, ts), L, n)
<1> DEFINE f == ConsumeLevel(e, L, n, ts)
<1>1. PICK m \in 0..n : Eaten(e, f, L, m) /\ (m = n \/ Volume(f, L) = 0)
  BY ConsumeLevelEats
<1>2. Volume(f, L) = Volume(e, L) - m /\ Volume(e, L) \in Nat
  BY <1>1, StandingFacts DEF Eaten, EngineInv, Volume
<1> HIDE DEF f
<1>3. m = n
  BY <1>1, <1>2
<1> QED BY <1>1, <1>3 DEF f

(***************************************************************************)
(* Matching an order: the prices it reaches are swept from the best on.    *)
(***************************************************************************)

\* f differs from e in nothing the book is made of.
SameBook(e, f) == f.book = e.book /\ f.orders = e.orders /\ f.queues = e.queues

LEMMA SameBookFacts ==
  ASSUME NEW e, NEW f, SameBook(e, f)
  PROVE  /\ Tidy(e) => Tidy(f)
         /\ \A L \in Levels : Volume(f, L) = Volume(e, L)
         /\ Covered(e) => Covered(f)
         /\ Exact(e) => Exact(f)
<1>1. Tidy(e) => Tidy(f)
  BY DEF SameBook, Tidy
<1>2. \A L \in Levels : Volume(f, L) = Volume(e, L)
  BY DEF SameBook, Volume, SizesOf, Standing
<1>3. f.book = e.book
  BY DEF SameBook
<1> QED BY <1>1, <1>2, <1>3 DEF Covered, Exact

\* Is price p within the limit of an order on this side?
Within(side, p, limit) == limit = NoLimit \/ AtLeastAsGood(side, p, limit)

\* Nothing is left at the prices before price p.
Behind(e, side, p) ==
  \A r \in Prices \ {p} :
     AtLeastAsGood(side, r, p) => e.book[<<OppositeBookSide(side), r>>] = 0

\* The matching of an order has left no price it has come to, unless it is
\* filled, and none before the price of a fill.
Sweeps(m, side, limit) ==
  /\ Tidy(m.e) /\ Covered(m.e)
  /\ \A p \in m.todo : Within(side, p, limit)
  /\ \A p \in Prices \ m.todo :
        Within(side, p, limit) => m.rem = 0 \/ m.e.book[<<OppositeBookSide(side), p>>] = 0
  /\ \A i \in 1..Len(m.fills) :
        m.fills[i].side = side /\ Behind(m.e, side, m.fills[i].price)

LEMMA AtLeastAsGoodFacts ==
  ASSUME NEW side \in OrderSides, NEW p \in Prices, NEW q \in Prices, NEW limit,
         limit = NoLimit \/ limit \in Prices
  PROVE  /\ AtLeastAsGood(side, p, q) /\ Within(side, q, limit) => Within(side, p, limit)
         /\ AtLeastAsGood(side, p, q) /\ AtLeastAsGood(side, q, p) => p = q
<1>1. p \in Nat /\ q \in Nat /\ (limit = NoLimit \/ limit \in Nat)
  BY PricesAssumption
<1> QED BY <1>1 DEF Within, AtLeastAsGood

LEMMA BestOfSide ==
  ASSUME NEW side \in OrderSides, NEW S \in SUBSET Prices, S # {}, NEW p \in S
  PROVE  AtLeastAsGood(side, Best(OppositeBookSide(side), S), p)
<1> DEFINE b == OppositeBookSide(side)
           best == Best(b, S)
<1>1. best \in Nat /\ p \in Nat
  BY BestFacts, PricesAssumption
<1>2. IF b = "bid" THEN p <= best ELSE best <= p
  BY BestIsBest
<1>3. b = (IF side = "buy" THEN "ask" ELSE "bid")
  BY DEF OppositeBookSide
<1> HIDE DEF best, b
<1> QED BY <1>1, <1>2, <1>3 DEF AtLeastAsGood, OrderSides, best, b

LEMMA MatchStepSweeps ==
  ASSUME NEW m \in MatchStates, NEW id \in Nat, NEW side \in OrderSides, NEW limit,
         limit = NoLimit \/ limit \in Prices,
         Sweeps(m, side, limit), m.rem # 0, m.todo # {},
         NEW t, t = MatchStep(m, id, side)
  PROVE  /\ Sweeps(t, side, limit) /\ t.fills # <<>>
         /\ \E p \in m.todo : t.todo = m.todo \ {p}
<1> DEFINE e == m.e
           opposite == OppositeBookSide(side)
           p == Best(opposite, m.todo)
           L == <<opposite, p>>
           n == Lesser(m.rem, e.book[L])
           hit == ConsumeLevel(e, L, n, e.now)
           f == [hit EXCEPT !.position = @ + Signed(side, n)]
           fill == [id |-> id, side |-> side, price |-> p, size |-> n, ts |-> e.now]
<1>1. /\ EngineInv(e) /\ EngineOK(e) /\ m.rem \in Nat /\ m.todo \in SUBSET Prices
      /\ m.fills \in Seq(ActiveFills)
  BY DEF MatchStates, EngineInv
<1>2. e.book \in [Levels -> Nat] /\ e.now \in Nat
  BY <1>1, EngineFields
<1>3. t = [e |-> f, rem |-> m.rem - n, todo |-> m.todo \ {p},
           fills |-> Append(m.fills, fill)]
  BY DEF MatchStep
<1>4. p \in m.todo /\ p \in Prices /\ Within(side, p, limit)
  BY <1>1, BestFacts DEF Sweeps
<1>5. \A r \in m.todo : AtLeastAsGood(side, p, r)
  BY <1>1, BestOfSide
<1>6. opposite \in BookSides /\ L \in Levels /\ \A r \in Prices : <<opposite, r>> \in Levels
  BY <1>4 DEF Levels, BookSides, OppositeBookSide
<1> DEFINE b == e.book[L]
<1>7. /\ b \in Nat /\ n \in Nat /\ n <= b /\ b <= Volume(e, L) /\ Volume(e, L) \in Nat
      /\ m.rem - n = 0 \/ b - Lesser(b, n) = 0
  <2>1. b \in Nat /\ b <= Volume(e, L) /\ Volume(e, L) \in Nat
    BY <1>1, <1>2, <1>6, StandingFacts DEF Volume, Sweeps, Covered
  <2>2. n = Lesser(m.rem, b) /\ m.rem \in Nat
    BY <1>1
  <2> HIDE DEF b, n
  <2>3. n \in Nat /\ n <= b /\ (m.rem - n = 0 \/ b - Lesser(b, n) = 0)
    BY <2>1, <2>2 DEF Lesser
  <2> QED BY <2>1, <2>3
<1> HIDE DEF n, L
<1>8. Eaten(e, hit, L, n) /\ EngineInv(hit)
  <2>1. n <= Volume(e, L)
    BY <1>7
  <2>2. Tidy(e)
    BY DEF Sweeps
  <2> HIDE DEF e
  <2> QED BY <1>1, <1>2, <1>6, <1>7, <2>1, <2>2, ConsumeLevelEatsAll, ConsumeLevelFacts
<1> HIDE DEF hit
<1>9. DOMAIN hit = Fields
  BY <1>8, EngineFields DEF EngineInv
<1>10. SameBook(hit, f)
  BY <1>9 DEF Fields, SameBook
<1> HIDE DEF f
<1>11. f.book = hit.book
  BY <1>10 DEF SameBook
<1>12. Tidy(f) /\ Covered(f)
  BY <1>8, <1>10, SameBookFacts DEF Eaten, Moved, Sweeps
<1>13. f.book[L] = b - Lesser(b, n) /\ \A M \in Levels \ {L} : f.book[M] = e.book[M]
  BY <1>8, <1>11 DEF Eaten, Moved
<1>14. \A r \in Prices : e.book[<<opposite, r>>] = 0 => f.book[<<opposite, r>>] = 0
  <2> SUFFICES ASSUME NEW r \in Prices, e.book[<<opposite, r>>] = 0
               PROVE  f.book[<<opposite, r>>] = 0
    OBVIOUS
  <2>1. CASE <<opposite, r>> = L
    <3>1. b = 0
      BY <2>1
    <3>2. b - Lesser(b, n) = 0
      BY <1>7, <3>1 DEF Lesser
    <3> QED BY <1>13, <2>1, <3>2
  <2>2. CASE <<opposite, r>> # L
    BY <1>6, <1>13, <2>2
  <2> QED BY <2>1, <2>2
<1>0. fill \in ActiveFills
  <2>1. e.now \in Nat /\ p \in Prices /\ n \in Nat
    BY <1>2, <1>4, <1>7
  <2> HIDE DEF p, e
  <2> QED BY <2>1 DEF ActiveFills
<1> HIDE DEF b, p, opposite, fill, e
<1>15. ASSUME NEW r \in Prices \ (m.todo \ {p}), Within(side, r, limit)
       PROVE  m.rem - n = 0 \/ f.book[<<OppositeBookSide(side), r>>] = 0
  <2>1. CASE r = p
    BY <1>7, <1>13, <2>1 DEF L, opposite
  <2>2. CASE r # p
    <3>1. r \in Prices \ m.todo
      BY <1>15, <2>2
    <3>2. e.book[<<opposite, r>>] = 0
      BY <1>15, <3>1 DEF Sweeps, e, opposite
    <3> QED BY <1>14, <3>1, <3>2 DEF opposite
  <2> QED BY <2>1, <2>2
<1>16. Behind(f, side, p)
  <2> SUFFICES ASSUME NEW r \in Prices \ {p}, AtLeastAsGood(side, r, p)
               PROVE  f.book[<<opposite, r>>] = 0
    BY DEF Behind, opposite
  <2>1. Within(side, r, limit)
    BY <1>4, AtLeastAsGoodFacts
  <2>2. r \notin m.todo
    BY <1>4, <1>5, AtLeastAsGoodFacts
  <2>3. e.book[<<opposite, r>>] = 0
    BY <2>1, <2>2 DEF Sweeps, e, opposite
  <2> QED BY <1>14, <2>3
<1>17. \A r \in Prices : Behind(e, side, r) => Behind(f, side, r)
  BY <1>14 DEF Behind, opposite
<1>18. ASSUME NEW i \in 1..Len(t.fills)
       PROVE  t.fills[i].side = side /\ Behind(f, side, t.fills[i].price)
  <2> DEFINE u == m.fills
             v == t.fills
  <2>1. u \in Seq(ActiveFills) /\ v = Append(u, fill)
    BY <1>1, <1>3
  <2>2. \A j \in 1..Len(u) : u[j].side = side /\ Behind(e, side, u[j].price)
    BY DEF Sweeps, e
  <2>3. fill.side = side /\ fill.price = p
    BY DEF fill
  <2>5. i \in 1..Len(v)
    OBVIOUS
  <2> HIDE DEF u, v
  <2>4. \A j \in 1..Len(u) : u[j].price \in Prices
    <3>1. \A j \in 1..Len(u) : u[j] \in ActiveFills
      BY <2>1
    <3> QED BY <3>1 DEF ActiveFills
  <2>6. (i \in 1..Len(u) /\ v[i] = u[i]) \/ v[i] = fill
    BY <1>0, <2>1, <2>5
  <2>7. v[i].side = side /\ Behind(f, side, v[i].price)
    BY <1>16, <1>17, <2>2, <2>3, <2>4, <2>6
  <2> QED BY <2>7 DEF v
<1>19. t.e = f /\ t.rem = m.rem - n /\ t.todo = m.todo \ {p} /\ t.fills = Append(m.fills, fill)
  BY <1>3
<1>20. \A r \in t.todo : Within(side, r, limit)
  BY <1>19 DEF Sweeps
<1>21. t.fills # <<>>
  BY <1>1, <1>19
<1>22. Sweeps(t, side, limit)
  BY <1>12, <1>15, <1>18, <1>19, <1>20 DEF Sweeps
<1> QED BY <1>4, <1>19, <1>21, <1>22

(* The matching sweeps the prices until the order is filled or none is left. *)
LEMMA MatchActiveSweeps ==
  ASSUME NEW e, EngineInv(e), Tidy(e), Covered(e), NEW id \in Nat, NEW side \in OrderSides,
         NEW n \in Nat, NEW limit, limit = NoLimit \/ limit \in Prices,
         NEW m, m = MatchActive(e, id, side, n, limit)
  PROVE  /\ Sweeps(m, side, limit)
         /\ m.rem = 0 \/ m.todo = {}
         /\ m.fills = <<>> => m.e = e
<1> DEFINE opposite == OppositeBookSide(side)
           todo == Matchable(e, opposite, limit)
           s == [e |-> e, rem |-> n, todo |-> todo, fills |-> <<>>]
           k == Cardinality(todo)
           turn == MatchLoop(s, id, side)
           G == {t \in MatchStates : Sweeps(t, side, limit) /\ (t.fills = <<>> => t.e = e)}
<1>1. todo \in SUBSET Prices /\ k \in Nat
  <2>1. todo \in SUBSET Prices
    BY DEF Matchable
  <2> HIDE DEF todo
  <2> QED BY <2>1, PricesAssumption, FS_Subset, FS_CardinalityType
<1>2. s \in G
  <2>1. e \in Engines /\ e.book \in [Levels -> Nat]
    BY EnginesFacts, EngineFields DEF EngineInv
  <2>2. s \in MatchStates
    BY <1>1, <2>1 DEF MatchStates
  <2>3. opposite = (IF side = "buy" THEN "ask" ELSE "bid") /\ opposite \in BookSides
    BY DEF OppositeBookSide, BookSides
  <2>4. \A p \in todo : Within(side, p, limit)
    BY <2>3 DEF Matchable, Within, AtLeastAsGood
  <2>5. ASSUME NEW p \in Prices \ todo, Within(side, p, limit)
        PROVE  e.book[<<opposite, p>>] = 0
    <3>1. <<opposite, p>> \in Levels
      BY <2>3 DEF Levels
    <3>2. e.book[<<opposite, p>>] \in Nat
      BY <2>1, <3>1
    <3>3. ~(e.book[<<opposite, p>>] > 0)
      BY <2>3, <2>5 DEF Matchable, Within, AtLeastAsGood, OrderSides
    <3> QED BY <3>2, <3>3
  <2>6. Len(<<>>) = 0
    OBVIOUS
  <2> HIDE DEF todo
  <2>7. s.e = e /\ s.rem = n /\ s.todo = todo /\ s.fills = <<>>
    OBVIOUS
  <2> HIDE DEF s
  <2>8. Sweeps(s, side, limit)
    BY <2>4, <2>5, <2>6, <2>7 DEF Sweeps, opposite
  <2> QED BY <2>2, <2>7, <2>8
<1>3. ASSUME NEW t \in G, t.rem # 0, t.todo # {}, NEW u, u = MatchStep(t, id, side)
      PROVE  u \in G /\ \E p \in t.todo : u.todo = t.todo \ {p}
  <2>1. /\ Sweeps(u, side, limit) /\ u.fills # <<>>
        /\ \E p \in t.todo : u.todo = t.todo \ {p}
    BY <1>3, MatchStepSweeps
  <2>2. u \in MatchStates
    BY <1>3, MatchStepFacts
  <2> QED BY <2>1, <2>2
<1>4. ASSUME NEW t \in G PROVE MatchStep(t, id, side) \in G
  <2>1. CASE t.rem = 0 \/ t.todo = {}
    BY <2>1 DEF MatchStep
  <2>2. CASE t.rem # 0 /\ t.todo # {}
    BY <1>3, <2>2
  <2> QED BY <2>1, <2>2
<1>5. m = turn[k] /\ s.todo = todo
  BY DEF MatchActive
<1> HIDE DEF G, s
<1>6. turn[0] = s /\ \A i \in Nat : turn[i] \in G /\ turn[i + 1] = MatchStep(turn[i], id, side)
  BY <1>2, <1>4, MatchLoopTurns
<1> HIDE DEF turn
<1>7. \A t \in G : IsFiniteSet(t.todo) /\ Cardinality(t.todo) \in Nat
  <2>1. \A t \in G : t.todo \in SUBSET Prices
    BY DEF G, MatchStates
  <2> QED BY <2>1, PricesAssumption, FS_Subset, FS_CardinalityType
<1> DEFINE Fewer(i) == turn[i].rem = 0 \/ turn[i].todo = {} \/ Cardinality(turn[i].todo) + i <= k
           S == {i \in Nat : Fewer(i)}
<1>8. 0 \in S
  BY <1>1, <1>5, <1>6
<1>9. ASSUME NEW i \in S PROVE i + 1 \in S
  <2> DEFINE t == turn[i]
             u == turn[i + 1]
  <2>0. i \in Nat /\ i + 1 \in Nat /\ Fewer(i)
    OBVIOUS
  <2>1. /\ i \in Nat /\ i + 1 \in Nat /\ u = MatchStep(t, id, side) /\ t \in G /\ u \in G
        /\ t.rem = 0 \/ t.todo = {} \/ Cardinality(t.todo) + i <= k
    BY <1>6, <2>0
  <2>2. CASE t.rem = 0 \/ t.todo = {}
    <3>1. u = t
      BY <2>1, <2>2 DEF MatchStep
    <3> QED BY <2>1, <2>2, <3>1
  <2>3. CASE t.rem # 0 /\ t.todo # {}
    <3>1. PICK p \in t.todo : u.todo = t.todo \ {p}
      BY <1>3, <2>1, <2>3
    <3>2. IsFiniteSet(t.todo) /\ Cardinality(t.todo) \in Nat /\ Cardinality(u.todo) \in Nat
      BY <1>7, <2>1
    <3>3. Cardinality(u.todo) = Cardinality(t.todo) - 1
      BY <3>1, <3>2, FS_RemoveElement
    <3>4. Cardinality(t.todo) + i <= k
      BY <2>1, <2>3
    <3> DEFINE a == Cardinality(t.todo)
               b == Cardinality(u.todo)
    <3>5. a \in Nat /\ b \in Nat /\ b = a - 1 /\ a + i <= k /\ i \in Nat /\ k \in Nat
      BY <1>1, <2>1, <3>2, <3>3, <3>4
    <3> HIDE DEF a, b, k, t, u
    <3>6. b + (i + 1) <= k
      BY <3>5
    <3> QED BY <2>1, <3>6 DEF b, u
  <2> QED BY <2>2, <2>3
<1>10. k \in S
  <2>1. S \in SUBSET Nat
    OBVIOUS
  <2> HIDE DEF S
  <2> QED BY <1>1, <1>8, <1>9, <2>1, SetInduction
<1>11. m \in G /\ (m.rem = 0 \/ m.todo = {} \/ Cardinality(m.todo) + k <= k)
  BY <1>1, <1>5, <1>6, <1>10
<1>12. Cardinality(m.todo) + k <= k => m.todo = {}
  <2>1. IsFiniteSet(m.todo) /\ Cardinality(m.todo) \in Nat
    BY <1>7, <1>11
  <2>2. Cardinality(m.todo) + k <= k => Cardinality(m.todo) = 0
    BY <1>1, <2>1
  <2> QED BY <2>1, <2>2, FS_EmptySet
<1> QED BY <1>11, <1>12 DEF G

(* place_limit and place_market: nothing is left before the price of a fill, *)
(* nor within the limit of what rests.                                      *)
LEMMA PlaceSweeps ==
  ASSUME NEW e, EngineInv(e), Tidy(e), Covered(e), NEW side \in OrderSides, NEW n \in Nat \ {0},
         NEW limit, limit = NoLimit \/ limit \in Prices, NEW tif, tif = "GTC" => limit \in Prices,
         NEW r, r = Place(e, side, n, limit, tif)
  PROVE  /\ Tidy(r.e) /\ Covered(r.e)
         /\ \A i \in 1..Len(r.fills) :
               r.fills[i].side = side /\ Behind(r.e, side, r.fills[i].price)
         /\ Own(e.nextId) \in DOMAIN r.e.orders =>
               /\ r.e.orders[Own(e.nextId)].level = <<BookSideOf(side), limit>>
               /\ \A p \in Prices : Within(side, p, limit)
                     => r.e.book[<<OppositeBookSide(side), p>>] = 0
         /\ r.fills = <<>> =>
               \/ SameBook(e, r.e)
               \/ \E rem \in Nat \ {0} : \E f :
                     /\ SameBook(e, f) /\ EngineInv(f) /\ limit \in Prices
                     /\ r.e = Rest(f, Own(e.nextId), <<BookSideOf(side), limit>>, rem)
<1> DEFINE id == e.nextId
           x == Own(id)
           given == [e EXCEPT !.nextId = @ + 1]
           m == MatchActive(given, id, side, n, limit)
           L == <<BookSideOf(side), limit>>
           opposite == OppositeBookSide(side)
<1>1. /\ r.e = IF m.rem > 0 /\ tif = "GTC" THEN Rest(m.e, x, L, m.rem) ELSE m.e
      /\ r.fills = m.fills
  BY DEF Place
<1>2. /\ EngineInv(given) /\ given.queues = e.queues /\ given.orders = e.orders
      /\ given.book = e.book /\ id \in Nat
  BY NextIdFacts, EngineFields DEF EngineInv
<1>3. SameBook(e, given)
  BY <1>2 DEF SameBook
<1> HIDE DEF given
<1>4. Tidy(given) /\ Covered(given)
  BY <1>3, SameBookFacts
<1>5. /\ Sweeps(m, side, limit) /\ (m.rem = 0 \/ m.todo = {})
      /\ m.fills = <<>> => m.e = given
  BY <1>2, <1>4, MatchActiveSweeps
<1>6. m \in MatchStates /\ Consumed(given, m.e, given.now)
  BY <1>2, MatchActiveServes
<1> HIDE DEF m
<1>7. EngineInv(m.e) /\ EngineOK(m.e) /\ m.rem \in Nat /\ Tidy(m.e) /\ Covered(m.e)
  BY <1>5, <1>6 DEF MatchStates, EngineInv, Sweeps
<1>8. x \notin DOMAIN m.e.orders /\ x \in Entries
  <2>1. x \notin DOMAIN e.orders
    BY FreshFacts
  <2> QED BY <1>2, <1>6, <2>1, EntryFacts DEF Consumed
<1>9. CASE m.rem > 0 /\ tif = "GTC"
  <2>1. L \in Levels /\ limit \in Prices /\ m.rem \in Nat \ {0}
    BY <1>7, <1>9 DEF Levels, BookSides, BookSideOf
  <2> DEFINE f == Rest(m.e, x, L, m.rem)
  <2>2. r.e = f
    BY <1>1, <1>9
  <2>3. JoinsBack(m.e, f, x, L, m.rem) /\ Tidy(f) /\ Moved(m.e, f, L)
    <3> HIDE DEF x, L
    <3> QED BY <1>7, <1>8, <2>1, RestJoins
  <2> HIDE DEF f
  <2>4. Covered(f) /\ f.orders[x].level = L
    BY <1>7, <2>3 DEF Moved, JoinsBack
  <2>5. ASSUME NEW p \in Prices
        PROVE  f.book[<<opposite, p>>] = m.e.book[<<opposite, p>>]
    <3>1. <<opposite, p>> \in Levels \ {L}
      BY DEF Levels, BookSides, BookSideOf, OppositeBookSide, OrderSides
    <3> QED BY <2>3, <3>1 DEF Moved
  <2>6. \A i \in 1..Len(r.fills) :
           r.fills[i].side = side /\ Behind(f, side, r.fills[i].price)
    BY <1>1, <1>5, <2>5 DEF Sweeps, Behind, opposite
  <2>7. ASSUME NEW p \in Prices, Within(side, p, limit)
        PROVE  f.book[<<opposite, p>>] = 0
    <3>1. m.todo = {}
      BY <1>5, <1>9
    <3>2. m.e.book[<<opposite, p>>] = 0
      BY <1>5, <1>9, <2>7, <3>1 DEF Sweeps, opposite
    <3> QED BY <2>5, <3>2
  <2>8. r.fills = <<>> => m.e = given
    BY <1>1, <1>5
  <2> QED BY <1>2, <1>3, <2>1, <2>2, <2>3, <2>4, <2>6, <2>7, <2>8 DEF x, L, opposite, id, f
<1>10. CASE ~(m.rem > 0 /\ tif = "GTC")
  <2>1. r.e = m.e
    BY <1>1, <1>10
  <2> QED BY <1>1, <1>3, <1>5, <1>7, <1>8, <2>1 DEF Sweeps, x, id
<1> QED BY <1>9, <1>10

(***************************************************************************)
(* The venue.                                                              *)
(***************************************************************************)

\* What book b of the venue is, with the ids u given out: no id stands in it
\* twice, and none that was not given out.
LobOK(b, u) ==
  /\ b \in [Levels -> Seq(Venue!Orders)] /\ u \subseteq PublicIds
  /\ \A L \in Levels : \A i \in 1..Len(b[L]) : b[L][i].id \in u
  /\ \A L, M \in Levels : \A i \in 1..Len(b[L]) : \A j \in 1..Len(b[M]) :
        b[L][i].id = b[M][j].id => L = M /\ i = j

\* The orders of w are some of those of q, in order; p says which.
Picks(p, q, w) ==
  /\ w \in Seq(Venue!Orders) /\ p \in [1..Len(w) -> 1..Len(q)]
  /\ \A i \in 1..Len(w) : w[i].id = q[p[i]].id
  /\ \A i, k \in 1..Len(w) : i < k => p[i] < p[k]

\* The orders of book c are some of those of b, in order.
Thins(b, c) ==
  /\ DOMAIN c = Levels /\ c = [L \in Levels |-> c[L]]
  /\ \A L \in Levels : \E p : Picks(p, b[L], c[L])

\* A new order of size n joins level L of book b.
JoinsLob(b, c, id, L, n) ==
  /\ DOMAIN c = Levels /\ c = [M \in Levels |-> c[M]]
  /\ \A M \in Levels : c[M] = IF M = L THEN Append(b[M], [id |-> id, size |-> n]) ELSE b[M]

LEMMA ThinsLobOK ==
  ASSUME NEW b, NEW u, LobOK(b, u), NEW c, Thins(b, c)
  PROVE  LobOK(c, u)
<1>1. c \in [Levels -> Seq(Venue!Orders)]
  BY DEF Thins, Picks
<1>2. ASSUME NEW L \in Levels, NEW i \in 1..Len(c[L])
      PROVE  c[L][i].id \in u
  <2>1. PICK p : Picks(p, b[L], c[L])
    BY DEF Thins
  <2>2. p[i] \in 1..Len(b[L]) /\ c[L][i].id = b[L][p[i]].id
    BY <2>1 DEF Picks
  <2> QED BY <2>2 DEF LobOK
<1>3. ASSUME NEW L \in Levels, NEW M \in Levels, NEW i \in 1..Len(c[L]), NEW j \in 1..Len(c[M]),
             c[L][i].id = c[M][j].id
      PROVE  L = M /\ i = j
  <2>0. ASSUME NEW K \in Levels, NEW N \in Levels, NEW a \in 1..Len(b[K]), NEW d \in 1..Len(b[N]),
               b[K][a].id = b[N][d].id
        PROVE  K = N /\ a = d
    BY <2>0 DEF LobOK
  <2>1. PICK p : Picks(p, b[L], c[L])
    BY DEF Thins
  <2>2. PICK r : Picks(r, b[M], c[M])
    BY DEF Thins
  <2> DEFINE a == p[i]
             d == r[j]
             g == p[j]
  <2>3. /\ a \in 1..Len(b[L]) /\ c[L][i].id = b[L][a].id
        /\ d \in 1..Len(b[M]) /\ c[M][j].id = b[M][d].id
    BY <2>1, <2>2 DEF Picks
  <2>5. L = M => g \in 1..Len(b[L]) /\ c[L][j].id = b[L][g].id
    BY <2>1 DEF Picks
  <2> HIDE DEF a, d, g
  <2>9. b[L][a].id = b[M][d].id
    BY <1>3, <2>3
  <2>4. L = M
    BY <2>0, <2>3, <2>9
  <2>10. g \in 1..Len(b[L]) /\ b[L][a].id = b[L][g].id
    BY <1>3, <2>3, <2>4, <2>5
  <2>11. a = g
    BY <2>0, <2>3, <2>10
  <2>6. p[i] = p[j]
    BY <2>11 DEF a, g
  <2>7. i \in Int /\ j \in Int /\ p[i] \in Int
    BY <2>3 DEF a
  <2>8. ~(i < j) /\ ~(j < i)
    BY <2>1, <2>4, <2>6, <2>7 DEF Picks
  <2> QED BY <2>4, <2>7, <2>8
<1> QED BY <1>1, <1>2, <1>3 DEF LobOK

LEMMA JoinsLobOK ==
  ASSUME NEW b, NEW u, LobOK(b, u), NEW c, NEW id \in PublicIds, NEW L \in Levels,
         NEW n \in Sizes, JoinsLob(b, c, id, L, n),
         \A M \in Levels : \A i \in 1..Len(b[M]) : b[M][i].id # id
  PROVE  LobOK(c, u \cup {id})
<1> DEFINE o == [id |-> id, size |-> n]
<1>1. o \in Venue!Orders /\ o.id = id
  BY DEF Venue!Orders, Sizes
<1>2. \A M \in Levels : b[M] \in Seq(Venue!Orders) /\ c[M] = IF M = L THEN Append(b[M], o) ELSE b[M]
  BY DEF LobOK, JoinsLob
<1> HIDE DEF o
<1>3. ASSUME NEW M \in Levels
      PROVE  /\ c[M] \in Seq(Venue!Orders)
             /\ \A i \in 1..Len(c[M]) : \/ i \in 1..Len(b[M]) /\ c[M][i] = b[M][i]
                                        \/ M = L /\ i = Len(b[M]) + 1 /\ c[M][i] = o
  <2> DEFINE q == b[M]
             w == c[M]
  <2>1. q \in Seq(Venue!Orders) /\ w = IF M = L THEN Append(q, o) ELSE q
    BY <1>2
  <2> HIDE DEF q, w
  <2>2. CASE M = L
    <3>1. w = Append(q, o)
      BY <2>1, <2>2
    <3>2. w \in Seq(Venue!Orders) /\ Len(w) = Len(q) + 1 /\ Len(q) \in Nat
          /\ w[Len(q) + 1] = o /\ \A i \in 1..Len(q) : w[i] = q[i]
      BY <1>1, <2>1, <3>1
    <3>3. \A i \in 1..Len(w) : i \in 1..Len(q) \/ i = Len(q) + 1
      BY <3>2
    <3> QED BY <2>2, <3>2, <3>3 DEF q, w
  <2>3. CASE M # L
    BY <2>1, <2>3 DEF q, w
  <2> QED BY <2>2, <2>3
<1>4. c \in [Levels -> Seq(Venue!Orders)]
  BY <1>3 DEF JoinsLob
<1>5. \A M \in Levels : \A i \in 1..Len(c[M]) : c[M][i].id \in u \cup {id}
  BY <1>1, <1>3 DEF LobOK
<1>6. ASSUME NEW K \in Levels, NEW M \in Levels, NEW i \in 1..Len(c[K]), NEW j \in 1..Len(c[M]),
             c[K][i].id = c[M][j].id
      PROVE  K = M /\ i = j
  <2>1. CASE i \in 1..Len(b[K]) /\ c[K][i] = b[K][i] /\ j \in 1..Len(b[M]) /\ c[M][j] = b[M][j]
    BY <1>6, <2>1 DEF LobOK
  <2>2. CASE i \in 1..Len(b[K]) /\ c[K][i] = b[K][i] /\ c[M][j] = o
    BY <1>1, <1>6, <2>2
  <2>3. CASE j \in 1..Len(b[M]) /\ c[M][j] = b[M][j] /\ c[K][i] = o
    BY <1>1, <1>6, <2>3
  <2>4. CASE K = L /\ i = Len(b[K]) + 1 /\ M = L /\ j = Len(b[M]) + 1
    BY <2>4
  <2> QED BY <1>3, <2>1, <2>2, <2>3, <2>4
<1>7. u \cup {id} \subseteq PublicIds
  BY DEF LobOK
<1> QED BY <1>4, <1>5, <1>6, <1>7 DEF LobOK

(* An order is where it is.                                                *)
LEMMA PlaceOfFacts ==
  ASSUME LobOK(lob, used), NEW id \in Venue!Live
  PROVE  /\ Venue!LevelOf(id) \in Levels
         /\ Venue!PlaceOf(id) \in 1..Len(lob[Venue!LevelOf(id)])
         /\ lob[Venue!LevelOf(id)][Venue!PlaceOf(id)].id = id
         /\ Venue!SizeOf(id) = lob[Venue!LevelOf(id)][Venue!PlaceOf(id)].size
         /\ Venue!SizeOf(id) \in Sizes
         /\ \A M \in Levels : \A j \in 1..Len(lob[M]) :
               lob[M][j].id = id => M = Venue!LevelOf(id) /\ j = Venue!PlaceOf(id)
<1> DEFINE P(M) == M \in Levels /\ \E i \in 1..Len(lob[M]) : lob[M][i].id = id
           L == CHOOSE M : P(M)
           Q(i) == i \in 1..Len(lob[L]) /\ lob[L][i].id = id
           k == CHOOSE i : Q(i)
<1>1. Venue!Levels = Levels
  BY DEF Venue!Levels, Levels, Venue!BookSides, BookSides
<1>2. Venue!LevelOf(id) = L /\ Venue!PlaceOf(id) = k
  BY <1>1 DEF Venue!LevelOf, Venue!PlaceOf
<1>3. P(L)
  <2>1. \E M : P(M)
    BY <1>1 DEF Venue!Live
  <2> HIDE DEF P
  <2> QED BY <2>1
<1>4. Q(k)
  <2>1. \E i : Q(i)
    BY <1>3
  <2> HIDE DEF Q
  <2> QED BY <2>1
<1>5. L \in Levels /\ k \in 1..Len(lob[L]) /\ lob[L][k].id = id
  BY <1>3, <1>4
<1> HIDE DEF L, k
<1>6. Venue!SizeOf(id) = lob[L][k].size
  BY <1>2 DEF Venue!SizeOf
<1>7. lob[L][k].size \in Sizes
  <2>1. lob[L] \in Seq(Venue!Orders)
    BY <1>5 DEF LobOK
  <2>2. lob[L][k] \in Venue!Orders
    BY <1>5, <2>1
  <2> QED BY <2>2 DEF Venue!Orders, Sizes
<1>8. \A M \in Levels : \A j \in 1..Len(lob[M]) : lob[M][j].id = id => M = L /\ j = k
  BY <1>5 DEF LobOK
<1> QED BY <1>2, <1>5, <1>6, <1>7, <1>8

(* The quantity up to a place grows by the size of each order.             *)
LEMMA PrefixFacts ==
  ASSUME NEW q \in Seq(Venue!Orders), NEW i \in 0..Len(q)
  PROVE  /\ Venue!Prefix(q, i) \in Nat
         /\ i = 0 => Venue!Prefix(q, i) = 0
         /\ i # 0 => /\ q[i].size \in Sizes
                     /\ Venue!Prefix(q, i) = Venue!Prefix(q, i - 1) + q[i].size
         /\ \A k \in 0..Len(q) : i <= k => Venue!Prefix(q, i) <= Venue!Prefix(q, k)
<1> DEFINE upto(k) == [j \in 1..k |-> q[j].size]
<1>1. Len(q) \in Nat /\ \A j \in 1..Len(q) : q[j].size \in Sizes
  <2>1. \A j \in 1..Len(q) : q[j] \in Venue!Orders
    OBVIOUS
  <2> QED BY <2>1 DEF Venue!Orders, Sizes
<1>2. ASSUME NEW k \in 0..Len(q)
      PROVE  /\ Venue!Prefix(q, k) = Total(upto(k)) /\ Summable(upto(k))
             /\ \A j \in DOMAIN upto(k) : upto(k)[j] \in Nat
  <2>1. Venue!Prefix(q, k) = Total(upto(k))
    BY DEF Venue!Prefix, Venue!Total, Total, MapThenSumSet, Venue!MapThenSumSet,
           MapThenFoldSet, Venue!MapThenFoldSet
  <2>2. IsFiniteSet(1..k)
    BY FS_Interval, <1>1
  <2>3. DOMAIN upto(k) = 1..k /\ \A j \in 1..k : upto(k)[j] = q[j].size /\ q[j].size \in Sizes
    BY <1>1
  <2>4. \A j \in 1..k : upto(k)[j] \in Nat
    BY <2>3, SizeAssumption DEF Sizes
  <2> QED BY <2>1, <2>2, <2>3, <2>4 DEF Summable
<1>3. Venue!Prefix(q, i) \in Nat
  BY <1>2, TotalNat
<1>4. i = 0 => Venue!Prefix(q, i) = 0
  <2>1. i = 0 => DOMAIN upto(i) = {}
    OBVIOUS
  <2> QED BY <1>2, <2>1, TotalType
<1>5. ASSUME i # 0
      PROVE  q[i].size \in Sizes /\ Venue!Prefix(q, i) = Venue!Prefix(q, i - 1) + q[i].size
  <2>1. PICK k \in Nat : i = k + 1 /\ k = i - 1 /\ k \in 0..Len(q)
    <3>1. i - 1 \in Nat /\ i = (i - 1) + 1 /\ i - 1 \in 0..Len(q)
      BY <1>1, <1>5
    <3> QED BY <3>1
  <2> DEFINE f == upto(k)
             g == upto(k + 1)
  <2>2. DOMAIN f = 1..k /\ DOMAIN g = 1..(k + 1) /\ \A j \in 1..k : g[j] = f[j]
    OBVIOUS
  <2>3. g[k + 1] = q[i].size /\ q[i].size \in Sizes /\ g[k + 1] \in Int
    BY <1>1, <2>1 DEF Sizes
  <2>4. Summable(f) /\ Venue!Prefix(q, k) = Total(f) /\ Venue!Prefix(q, i) = Total(g)
    BY <1>2, <2>1
  <2> HIDE DEF f, g
  <2>5. Total(g) = Total(f) + g[k + 1]
    BY <2>2, <2>3, <2>4, TotalExtend
  <2> QED BY <2>1, <2>3, <2>4, <2>5
<1>6. ASSUME NEW k \in 0..Len(q), i <= k
      PROVE  Venue!Prefix(q, i) <= Venue!Prefix(q, k)
  <2> DEFINE f == upto(i)
             g == upto(k)
  <2>1. DOMAIN f \subseteq DOMAIN g /\ \A j \in DOMAIN f : f[j] = g[j]
    BY <1>6
  <2>2. /\ Summable(f) /\ Summable(g) /\ \A j \in DOMAIN g : g[j] \in Nat
        /\ Venue!Prefix(q, i) = Total(f) /\ Venue!Prefix(q, k) = Total(g)
    BY <1>2
  <2> HIDE DEF f, g
  <2>3. \A j \in DOMAIN f : f[j] <= g[j]
    BY <2>1, <2>2
  <2>4. Total(f) <= Total(g)
    BY <2>1, <2>2, <2>3, TotalAtMost
  <2> QED BY <2>2, <2>4
<1> QED BY <1>3, <1>4, <1>5, <1>6

\* w is what a trade of n leaves of q, of which it uses up the first k orders.
Leaves(q, n, w, k) ==
  /\ k \in 0..Len(q) /\ Venue!Prefix(q, k) <= n
  /\ \A i \in (k + 1)..Len(q) : Venue!Prefix(q, i) > n
  /\ w = [i \in 1..(Len(q) - k) |->
            IF i = 1 THEN [q[k + 1] EXCEPT !.size = Venue!Prefix(q, k + 1) - n]
                     ELSE q[k + i]]

(* A trade of n uses up the orders whose quantity is reached.              *)
LEMMA AfterTradeLeaves ==
  ASSUME NEW q \in Seq(Venue!Orders), NEW n \in Nat
  PROVE  \E k : Leaves(q, n, Venue!AfterTrade(q, n), k)
<1> DEFINE S == {i \in 1..Len(q) : Venue!Prefix(q, i) <= n}
           gone == Cardinality(S)
           w == Venue!AfterTrade(q, n)
           F(i) == Venue!Prefix(q, i)
<1>1. Len(q) \in Nat
  OBVIOUS
<1>2. /\ F(0) = 0
      /\ \A i \in 0..Len(q) : /\ F(i) \in Nat
                              /\ i # 0 => q[i].size \in Sizes /\ F(i) = F(i - 1) + q[i].size
                              /\ \A k \in 0..Len(q) : i <= k => F(i) <= F(k)
  BY <1>1, PrefixFacts
<1>3. w = [i \in 1..(Len(q) - gone) |->
             IF i = 1 THEN [q[gone + 1] EXCEPT !.size = F(gone + 1) - n] ELSE q[gone + i]]
  <2>1. Venue!Cardinality(S) = gone
    BY DEF Venue!Cardinality, Cardinality
  <2> QED BY <2>1 DEF Venue!AfterTrade
<1> HIDE DEF F, w
<1>4. \E m \in 0..Len(q) : S = 1..m
  <2>1. CASE S = {}
    <3>1. S = 1..0 /\ 0 \in 0..Len(q)
      BY <1>1, <2>1
    <3> QED BY <3>1
  <2>2. CASE S # {}
    <3> DEFINE m == Max(S)
    <3>1. S \in SUBSET (0..Len(q)) /\ S \in SUBSET (1..Len(q))
      OBVIOUS
    <3>2. m \in S /\ \A y \in S : y <= m
      <4> HIDE DEF S
      <4> QED BY <1>1, <2>2, <3>1, MaxFacts
    <3> HIDE DEF m
    <3>3. m \in 1..Len(q) /\ F(m) <= n
      BY <3>2 DEF F
    <3>4. S \subseteq 1..m
      <4>1. \A y \in S : y \in 1..m
        <5> HIDE DEF S
        <5> QED BY <3>1, <3>2, <3>3
      <4> QED BY <4>1
    <3>5. ASSUME NEW y \in 1..m PROVE y \in S
      <4>1. y \in 0..Len(q) /\ m \in 0..Len(q) /\ y <= m /\ y \in 1..Len(q)
        BY <1>1, <3>3
      <4>2. F(y) <= F(m) /\ F(y) \in Nat /\ F(m) \in Nat
        BY <1>2, <4>1
      <4>3. F(y) <= n
        BY <3>3, <4>2
      <4> QED BY <4>1, <4>3 DEF F
    <3>6. S = 1..m /\ m \in 0..Len(q)
      <4>1. m \in 0..Len(q)
        BY <3>3
      <4> HIDE DEF S
      <4> QED BY <3>4, <3>5, <4>1
    <3> QED BY <3>6
  <2> QED BY <2>1, <2>2
<1>5. gone \in 0..Len(q) /\ S = 1..gone
  <2>1. PICK m \in 0..Len(q) : S = 1..m
    BY <1>4
  <2>2. m \in Int /\ 1 \in Int /\ m \in Nat
    BY <1>1, <2>1
  <2>3. Cardinality(1..m) = m
    <3>1. Cardinality(1..m) = IF 1 <= m THEN m - 1 + 1 ELSE 0
      BY <2>2, FS_Interval
    <3> QED BY <2>2, <3>1
  <2> QED BY <2>1, <2>3
<1>6. F(gone) <= n
  <2>1. CASE gone = 0
    BY <1>2, <2>1
  <2>2. CASE gone # 0
    <3>1. gone \in S
      <4> HIDE DEF S, gone
      <4> QED BY <1>1, <1>5, <2>2
    <3> QED BY <3>1 DEF F
  <2> QED BY <2>1, <2>2
<1>7. ASSUME NEW i \in (gone + 1)..Len(q) PROVE F(i) > n
  <2>1. i \in 0..Len(q) /\ i \in 1..Len(q)
    <3> HIDE DEF gone
    <3> QED BY <1>1, <1>5
  <2>2. i \notin S
    <3> HIDE DEF S, gone
    <3> QED BY <1>1, <1>5
  <2>3. ~(F(i) <= n)
    BY <2>1, <2>2 DEF F
  <2>4. F(i) \in Nat
    BY <1>2, <2>1
  <2> QED BY <2>3, <2>4
<1>8. Leaves(q, n, w, gone)
  BY <1>3, <1>5, <1>6, <1>7 DEF Leaves, F
<1> QED BY <1>8 DEF w

(* A trade of n uses up the orders in front; the rest of the first one left *)
(* is what lies beyond n.                                                  *)
LEMMA AfterTradeFacts ==
  ASSUME NEW q \in Seq(Venue!Orders), NEW n \in Nat
  PROVE  LET w == Venue!AfterTrade(q, n)
         IN  \E p : /\ Picks(p, q, w)
                    /\ \A i \in 1..Len(w) : /\ w[i].size <= q[p[i]].size
                                            /\ w[i].size <= Venue!Prefix(q, p[i]) - n
                                            /\ Venue!Prefix(q, p[i]) > n
<1> DEFINE w == Venue!AfterTrade(q, n)
           F(i) == Venue!Prefix(q, i)
<1>1. Len(q) \in Nat
  OBVIOUS
<1>2. \A i \in 0..Len(q) : /\ F(i) \in Nat
                           /\ i # 0 => q[i].size \in Sizes /\ F(i) = F(i - 1) + q[i].size
                           /\ \A k \in 0..Len(q) : i <= k => F(i) <= F(k)
  BY <1>1, PrefixFacts
<1> HIDE DEF w
<1>3. PICK gone : Leaves(q, n, w, gone)
  BY AfterTradeLeaves DEF w
<1>4. gone \in 0..Len(q)
  BY <1>3 DEF Leaves
<1>5. F(gone) <= n
  BY <1>3 DEF Leaves
<1>6. ASSUME NEW i \in (gone + 1)..Len(q) PROVE F(i) > n
  BY <1>3 DEF Leaves
<1>7. w = [i \in 1..(Len(q) - gone) |->
             IF i = 1 THEN [q[gone + 1] EXCEPT !.size = F(gone + 1) - n] ELSE q[gone + i]]
  BY <1>3 DEF Leaves
<1> HIDE DEF F
<1> DEFINE p == [i \in 1..(Len(q) - gone) |-> gone + i]
<1>8. ASSUME NEW i \in 1..(Len(q) - gone)
      PROVE  /\ gone + i \in 1..Len(q) /\ w[i].id = q[gone + i].id
             /\ w[i] \in Venue!Orders
             /\ w[i].size <= q[gone + i].size
             /\ w[i].size <= F(gone + i) - n
             /\ F(gone + i) > n
  <2> DEFINE k == gone + i
  <2>1. k \in 1..Len(q) /\ k \in (gone + 1)..Len(q) /\ k \in 0..Len(q) /\ k # 0
        /\ k - 1 \in 0..Len(q) /\ gone \in 0..Len(q) /\ gone <= k - 1 /\ gone \in Nat /\ i \in Nat
    BY <1>1, <1>4
  <2>2. q[k] \in Venue!Orders
    BY <2>1
  <2>3. q[k].id \in PublicIds /\ q[k].size \in Sizes /\ q[k] = [id |-> q[k].id, size |-> q[k].size]
    BY <2>2 DEF Venue!Orders, Sizes
  <2>4. F(k) > n /\ F(k) \in Nat /\ F(k) = F(k - 1) + q[k].size /\ F(k - 1) \in Nat
        /\ F(gone) <= F(k - 1) /\ F(gone) \in Nat
    BY <1>2, <1>6, <2>1
  <2>5. CASE i = 1
    <3>1. k = gone + 1 /\ k - 1 = gone
      BY <2>1, <2>5
    <3>2. w[i] = [q[k] EXCEPT !.size = F(k) - n]
      BY <1>7, <2>5, <3>1
    <3>3. w[i].id = q[k].id /\ w[i].size = F(k) - n /\ w[i] = [id |-> q[k].id, size |-> F(k) - n]
      BY <2>3, <3>2
    <3>4. F(k) - n <= q[k].size /\ F(k) - n \in Nat \ {0}
      <4> HIDE DEF k
      <4> QED BY <1>5, <2>3, <2>4, <3>1, SizeAssumption, SMTT(30) DEF Sizes
    <3>5. F(k) - n \in Sizes
      <4> HIDE DEF k
      <4> QED BY <2>3, <3>4, SizeAssumption DEF Sizes
    <3>6. w[i] \in Venue!Orders
      BY <2>3, <3>3, <3>5 DEF Venue!Orders, Sizes
    <3>7. F(k) - n <= F(k) - n
      BY <3>4
    <3> QED BY <2>1, <2>4, <3>3, <3>4, <3>6, <3>7
  <2>6. CASE i # 1
    <3>1. w[i] = q[k]
      BY <1>7, <2>6
    <3>2. k - 1 \in (gone + 1)..Len(q)
      BY <2>1, <2>6
    <3>3. F(k - 1) > n
      BY <1>6, <3>2
    <3>4. q[k].size <= F(k) - n /\ q[k].size <= q[k].size
      <4> HIDE DEF k
      <4> QED BY <2>3, <2>4, <3>3, SizeAssumption DEF Sizes
    <3> QED BY <2>1, <2>2, <2>4, <3>1, <3>4
  <2> QED BY <2>5, <2>6
<1>9. w \in Seq(Venue!Orders) /\ Len(w) = Len(q) - gone
  <2>1. Len(q) - gone \in Nat
    BY <1>1, <1>4
  <2>2. DOMAIN w = 1..(Len(q) - gone) /\ w = [i \in 1..(Len(q) - gone) |-> w[i]]
    BY <1>7
  <2> QED BY <1>8, <2>1, <2>2
<1>10. p \in [1..Len(w) -> 1..Len(q)] /\ \A i \in 1..Len(w) : p[i] = gone + i
  BY <1>8, <1>9
<1>11. \A i, k \in 1..Len(w) : i < k => p[i] < p[k]
  <2>1. gone \in Nat
    BY <1>1, <1>4
  <2> HIDE DEF p
  <2> QED BY <1>9, <1>10, <2>1
<1> HIDE DEF p
<1>12. Picks(p, q, w)
  BY <1>8, <1>9, <1>10, <1>11 DEF Picks
<1> QED BY <1>8, <1>9, <1>10, <1>12 DEF F, w

(* Taking an order away closes the gap.                                    *)
LEMMA RemovedShape ==
  ASSUME NEW q \in Seq(Venue!Orders), NEW k \in 1..Len(q)
  PROVE  LET w == Venue!Removed(q, k)
         IN  /\ w \in Seq(Venue!Orders) /\ Len(w) = Len(q) - 1
             /\ \A i \in 1..Len(w) : w[i] = IF i < k THEN q[i] ELSE q[i + 1]
<1> DEFINE w == Venue!Removed(q, k)
           front == SubSeq(q, 1, k - 1)
           back == SubSeq(q, k + 1, Len(q))
<1>1. Len(q) \in Nat /\ k \in Nat /\ k >= 1 /\ k <= Len(q)
  OBVIOUS
<1>2. /\ front \in Seq(Venue!Orders) /\ Len(front) = k - 1
      /\ \A i \in 1..(k - 1) : front[i] = q[i]
  <2>1. 1 \in 1..(Len(q) + 1) /\ k - 1 \in 0..Len(q)
    BY <1>1
  <2> QED BY <1>1, <2>1, SubSeqProperties
<1>3. /\ back \in Seq(Venue!Orders) /\ Len(back) = Len(q) - k
      /\ \A i \in 1..(Len(q) - k) : back[i] = q[k + i]
  <2>1. k + 1 \in 1..(Len(q) + 1) /\ Len(q) \in 0..Len(q)
    BY <1>1
  <2>2. /\ back \in Seq(Venue!Orders)
        /\ Len(back) = IF k + 1 <= Len(q) THEN Len(q) - (k + 1) + 1 ELSE 0
        /\ \A i \in 1..Len(back) : back[i] = q[k + 1 + i - 1]
    BY <2>1, SubSeqProperties
  <2>3. Len(back) = Len(q) - k
    BY <1>1, <2>2
  <2>4. \A i \in 1..(Len(q) - k) : k + 1 + i - 1 = k + i
    BY <1>1
  <2> HIDE DEF back
  <2> QED BY <2>2, <2>3, <2>4
<1>4. w = front \o back
  BY DEF Venue!Removed
<1> HIDE DEF front, back, w
<1>5. /\ w \in Seq(Venue!Orders) /\ Len(w) = Len(q) - 1
      /\ \A i \in 1..Len(w) : w[i] = IF i < k THEN q[i] ELSE q[i + 1]
  <2>1. w \in Seq(Venue!Orders) /\ Len(w) = Len(front) + Len(back)
        /\ \A i \in 1..Len(w) : w[i] = IF i <= Len(front) THEN front[i] ELSE back[i - Len(front)]
    <3>1. /\ front \o back \in Seq(Venue!Orders) /\ Len(front \o back) = Len(front) + Len(back)
          /\ \A i \in 1..(Len(front) + Len(back)) :
                (front \o back)[i] = IF i <= Len(front) THEN front[i] ELSE back[i - Len(front)]
      BY <1>2, <1>3, ConcatProperties
    <3> QED BY <1>4, <3>1
  <2>2. Len(w) = Len(q) - 1
    BY <1>1, <1>2, <1>3, <2>1
  <2>3. ASSUME NEW i \in 1..Len(w) PROVE w[i] = IF i < k THEN q[i] ELSE q[i + 1]
    <3>1. CASE i < k
      <4>1. i <= Len(front) /\ i \in 1..(k - 1)
        BY <1>1, <1>2, <2>2, <3>1
      <4> QED BY <1>2, <2>1, <3>1, <4>1
    <3>2. CASE ~(i < k)
      <4>1. ~(i <= Len(front)) /\ i - Len(front) = i - (k - 1)
        BY <1>1, <1>2, <2>2, <3>2
      <4>2. i - (k - 1) \in 1..(Len(q) - k) /\ k + (i - (k - 1)) = i + 1
        BY <1>1, <2>2, <3>2
      <4> QED BY <1>3, <2>1, <3>2, <4>1, <4>2
    <3> QED BY <3>1, <3>2
  <2> QED BY <2>1, <2>2, <2>3
<1> QED BY <1>5 DEF w

(* Taking an order away keeps the others as they are.                      *)
LEMMA RemovedPicks ==
  ASSUME NEW q \in Seq(Venue!Orders), NEW k \in 1..Len(q)
  PROVE  LET w == Venue!Removed(q, k)
         IN  \E p : Picks(p, q, w) /\ \A i \in 1..Len(w) : w[i] = q[p[i]] /\ p[i] # k
<1> DEFINE w == Venue!Removed(q, k)
           p == [i \in 1..(Len(q) - 1) |-> IF i < k THEN i ELSE i + 1]
<1>1. Len(q) \in Nat /\ k \in Nat /\ k >= 1 /\ k <= Len(q)
  OBVIOUS
<1>5. /\ w \in Seq(Venue!Orders) /\ Len(w) = Len(q) - 1
      /\ \A i \in 1..Len(w) : w[i] = IF i < k THEN q[i] ELSE q[i + 1]
  BY RemovedShape
<1> HIDE DEF w
<1>6. /\ p \in [1..Len(w) -> 1..Len(q)]
      /\ \A i \in 1..Len(w) : p[i] = IF i < k THEN i ELSE i + 1
  BY <1>1, <1>5
<1> HIDE DEF p
<1>7. \A i \in 1..Len(w) : w[i] = q[p[i]] /\ p[i] # k
  BY <1>1, <1>5, <1>6
<1>8. \A i, j \in 1..Len(w) : i < j => p[i] < p[j]
  BY <1>1, <1>5, <1>6
<1>9. Picks(p, q, w)
  BY <1>5, <1>6, <1>7, <1>8 DEF Picks
<1> QED BY <1>7, <1>9 DEF w

\* In w the order at place k of q has size n.
Sized(p, q, w, k, n) ==
  /\ Picks(p, q, w)
  /\ \A i \in 1..Len(w) : p[i] = i /\ w[i].size = IF i = k THEN n ELSE q[i].size

(* An order whose size is set stays in its place.                          *)
LEMMA SizedPicks ==
  ASSUME NEW q \in Seq(Venue!Orders), NEW k \in 1..Len(q), NEW n \in Sizes,
         NEW w, w = [q EXCEPT ![k].size = n]
  PROVE  \E p : Sized(p, q, w, k, n)
<1> DEFINE p == [i \in 1..Len(w) |-> i]
<1>1. \A i \in 1..Len(q) : q[i] \in Venue!Orders
  OBVIOUS
<1>2. q = [i \in 1..Len(q) |-> q[i]] /\ Len(q) \in Nat
  OBVIOUS
<1>3. ASSUME NEW i \in 1..Len(q)
      PROVE  w[i] = IF i = k THEN [q[k] EXCEPT !.size = n] ELSE q[i]
  BY <1>2
<1>4. ASSUME NEW i \in 1..Len(q)
      PROVE  /\ w[i] \in Venue!Orders /\ w[i].id = q[i].id
             /\ w[i].size = IF i = k THEN n ELSE q[i].size
  <2>1. q[i] \in Venue!Orders /\ q[k] \in Venue!Orders
    BY <1>1
  <2>2. /\ q[k] = [id |-> q[k].id, size |-> q[k].size]
        /\ q[k].id \in PublicIds
    BY <2>1 DEF Venue!Orders
  <2>3. /\ [q[k] EXCEPT !.size = n] \in Venue!Orders
        /\ [q[k] EXCEPT !.size = n].id = q[k].id
        /\ [q[k] EXCEPT !.size = n].size = n
    BY <2>2 DEF Venue!Orders, Sizes
  <2> QED BY <1>3, <2>1, <2>3
<1>5. w \in Seq(Venue!Orders) /\ Len(w) = Len(q)
  <2>1. DOMAIN w = 1..Len(q) /\ w = [i \in 1..Len(q) |-> w[i]]
    BY <1>2
  <2> QED BY <1>2, <1>4, <2>1
<1>6. p \in [1..Len(w) -> 1..Len(q)] /\ \A i \in 1..Len(w) : p[i] = i
  BY <1>5
<1> HIDE DEF p
<1>7. Picks(p, q, w)
  BY <1>4, <1>5, <1>6 DEF Picks
<1>8. Sized(p, q, w, k, n)
  BY <1>4, <1>5, <1>6, <1>7 DEF Sized
<1> QED BY <1>8

\* Book c is b with level L thinned to w.
Thinned(b, c, u, L, w) ==
  /\ Thins(b, c) /\ c[L] = w /\ LobOK(c, u)
  /\ \A M \in Levels : M # L => c[M] = b[M]

LEMMA LevelThins ==
  ASSUME NEW b, NEW u, LobOK(b, u), NEW L \in Levels, NEW w, NEW p, Picks(p, b[L], w),
         NEW c, c = [b EXCEPT ![L] = w]
  PROVE  Thinned(b, c, u, L, w)
<1>1. b \in [Levels -> Seq(Venue!Orders)]
  BY DEF LobOK
<1>2. c[L] = w /\ DOMAIN c = Levels /\ \A M \in Levels : M # L => c[M] = b[M]
  BY <1>1
<1>3. c = [M \in Levels |-> c[M]]
  BY <1>1
<1>4. ASSUME NEW M \in Levels
      PROVE  \E r : Picks(r, b[M], c[M])
  <2>1. CASE M = L
    BY <1>2, <2>1
  <2>2. CASE M # L
    <3> DEFINE q == b[M]
               r == [i \in 1..Len(q) |-> i]
    <3>1. q \in Seq(Venue!Orders) /\ Len(q) \in Nat
      BY <1>1
    <3> HIDE DEF q
    <3>2. Picks(r, q, q)
      BY <3>1 DEF Picks
    <3> QED BY <1>2, <2>2, <3>2 DEF q
  <2> QED BY <2>1, <2>2
<1>5. Thins(b, c)
  BY <1>2, <1>3, <1>4 DEF Thins
<1> QED BY <1>2, <1>5, ThinsLobOK DEF Thinned

(***************************************************************************)
(* The engine follows the venue.                                           *)
(***************************************************************************)

\* Order o of level L of the venue is in engine e, at least as large.
Has(e, L, o) ==
  /\ Public(o.id) \in DOMAIN e.orders
  /\ e.orders[Public(o.id)].level = L
  /\ e.orders[Public(o.id)].size >= o.size

\* Every order of book b of the venue is in engine e, in the venue's order.
Follows(e, b) ==
  \A L \in Levels : \A i \in 1..Len(b[L]) :
     /\ Has(e, L, b[L][i])
     /\ \A j \in 1..Len(b[L]) :
           j < i => Before(e.queues[L], Public(b[L][j].id), Public(b[L][i].id))

LEMMA ThinsFollows ==
  ASSUME NEW e, NEW f, NEW b, NEW c, Follows(e, b), Thins(b, c), SameOrder(e, f),
         \A L \in Levels : \A i \in 1..Len(c[L]) : Has(f, L, c[L][i])
  PROVE  Follows(f, c)
<1> SUFFICES ASSUME NEW L \in Levels, NEW i \in 1..Len(c[L]), NEW j \in 1..Len(c[L]), j < i
             PROVE  Before(f.queues[L], Public(c[L][j].id), Public(c[L][i].id))
  BY DEF Follows
<1>1. PICK p : Picks(p, b[L], c[L])
  BY DEF Thins
<1> DEFINE k == p[i]
           m == p[j]
           x == Public(c[L][i].id)
           y == Public(c[L][j].id)
<1>2. /\ k \in 1..Len(b[L]) /\ m \in 1..Len(b[L]) /\ m < k
      /\ c[L][i].id = b[L][k].id /\ c[L][j].id = b[L][m].id
  BY <1>1 DEF Picks
<1> HIDE DEF k, m
<1>3. Before(e.queues[L], Public(b[L][m].id), Public(b[L][k].id))
  BY <1>2 DEF Follows
<1>4. Before(e.queues[L], y, x)
  BY <1>2, <1>3
<1>5. x \in DOMAIN f.orders /\ y \in DOMAIN f.orders
  BY DEF Has
<1> HIDE DEF x, y
<1>6. Before(f.queues[L], y, x)
  BY <1>4, <1>5 DEF SameOrder
<1> QED BY <1>6 DEF x, y

(* An order that joins the venue's level and the engine's queue.           *)
LEMMA JoinsFollows ==
  ASSUME NEW e, NEW f, NEW b, NEW c, NEW u, LobOK(b, u), Follows(e, b), NEW id, NEW L \in Levels,
         NEW n \in Sizes, JoinsLob(b, c, id, L, n), JoinsBack(e, f, Public(id), L, n),
         Public(id) \notin DOMAIN e.orders
  PROVE  Follows(f, c)
<1> DEFINE x == Public(id)
           o == [id |-> id, size |-> n]
<1>1. \A M \in Levels : b[M] \in Seq(Venue!Orders) /\ c[M] = IF M = L THEN Append(b[M], o) ELSE b[M]
  BY DEF LobOK, JoinsLob
<1>2. o.id = id /\ o.size = n /\ n <= n
  BY DEF Sizes
<1> HIDE DEF o
<1>3. ASSUME NEW M \in Levels
      PROVE  /\ Len(b[M]) \in Nat
             /\ \A i \in 1..Len(c[M]) : \/ i \in 1..Len(b[M]) /\ c[M][i] = b[M][i]
                                        \/ M = L /\ i = Len(b[M]) + 1 /\ c[M][i] = o
  <2> DEFINE q == b[M]
             w == c[M]
  <2>1. q \in Seq(Venue!Orders) /\ w = IF M = L THEN Append(q, o) ELSE q
    BY <1>1
  <2> HIDE DEF q, w
  <2>2. CASE M = L
    <3>1. w = Append(q, o)
      BY <2>1, <2>2
    <3>2. Len(w) = Len(q) + 1 /\ Len(q) \in Nat
          /\ w[Len(q) + 1] = o /\ \A i \in 1..Len(q) : w[i] = q[i]
      BY <2>1, <3>1
    <3>3. \A i \in 1..Len(w) : i \in 1..Len(q) \/ i = Len(q) + 1
      BY <3>2
    <3> QED BY <2>2, <3>2, <3>3 DEF q, w
  <2>3. CASE M # L
    BY <2>1, <2>3 DEF q, w
  <2> QED BY <2>2, <2>3
<1>4. ASSUME NEW M \in Levels, NEW i \in 1..Len(b[M])
      PROVE  /\ Public(b[M][i].id) \in Standing(e, M)
             /\ Has(f, M, b[M][i])
  BY DEF Follows, Has, JoinsBack, Standing
<1>5. Has(f, L, o)
  BY <1>2 DEF Has, JoinsBack, x
<1>6. ASSUME NEW M \in Levels, NEW i \in 1..Len(c[M])
      PROVE  Has(f, M, c[M][i])
  BY <1>3, <1>4, <1>5
<1>7. ASSUME NEW M \in Levels, NEW i \in 1..Len(c[M]), NEW j \in 1..Len(c[M]), j < i
      PROVE  Before(f.queues[M], Public(c[M][j].id), Public(c[M][i].id))
  <2>1. j \in 1..Len(b[M]) /\ c[M][j] = b[M][j]
    <3>1. j \in 1..Len(b[M]) \/ j = Len(b[M]) + 1
      BY <1>3
    <3>2. i \in 1..Len(b[M]) \/ i = Len(b[M]) + 1
      BY <1>3
    <3>3. j # Len(b[M]) + 1
      BY <1>3, <1>7, <3>2
    <3> QED BY <1>3, <3>1, <3>3
  <2> DEFINE y == Public(b[M][j].id)
  <2>2. y \in Standing(e, M) /\ y \in DOMAIN e.orders
    BY <1>4, <2>1 DEF Standing
  <2>3. CASE i \in 1..Len(b[M]) /\ c[M][i] = b[M][i]
    <3> DEFINE z == Public(b[M][i].id)
    <3>1. z \in DOMAIN e.orders
      BY <1>4, <2>3 DEF Standing
    <3>2. Before(e.queues[M], y, z)
      BY <1>7, <2>1, <2>3 DEF Follows
    <3> HIDE DEF y, z
    <3>3. Before(f.queues[M], y, z)
      BY <2>2, <3>1, <3>2 DEF JoinsBack
    <3> QED BY <2>1, <2>3, <3>3 DEF y, z
  <2>4. CASE M = L /\ c[M][i] = o
    <3>1. Before(f.queues[L], y, x)
      BY <2>2, <2>4 DEF JoinsBack
    <3> QED BY <1>2, <2>1, <2>4, <3>1
  <2> QED BY <1>3, <2>3, <2>4
<1> QED BY <1>6, <1>7 DEF Follows

(* A strategy order that joins a queue changes nothing of it.              *)
LEMMA OwnJoinsFollows ==
  ASSUME NEW e, NEW f, NEW b, Follows(e, b), NEW id, NEW L \in Levels, NEW n,
         JoinsBack(e, f, Own(id), L, n)
  PROVE  Follows(f, b)
<1> SUFFICES ASSUME NEW M \in Levels, NEW i \in 1..Len(b[M])
             PROVE  /\ Has(f, M, b[M][i])
                    /\ \A j \in 1..Len(b[M]) :
                          j < i => Before(f.queues[M], Public(b[M][j].id), Public(b[M][i].id))
  BY DEF Follows
<1>1. \A j \in 1..Len(b[M]) : Public(b[M][j].id) \in DOMAIN e.orders
  BY DEF Follows, Has
<1>2. Has(f, M, b[M][i])
  BY DEF Follows, Has, JoinsBack
<1>3. ASSUME NEW j \in 1..Len(b[M]), j < i
      PROVE  Before(f.queues[M], Public(b[M][j].id), Public(b[M][i].id))
  <2> DEFINE y == Public(b[M][j].id)
             z == Public(b[M][i].id)
  <2>1. y \in DOMAIN e.orders /\ z \in DOMAIN e.orders
    BY <1>1
  <2>2. Before(e.queues[M], y, z)
    BY <1>3 DEF Follows
  <2> HIDE DEF y, z
  <2>3. Before(f.queues[M], y, z)
    BY <2>1, <2>2 DEF JoinsBack
  <2> QED BY <2>3 DEF y, z
<1> QED BY <1>2, <1>3

(* The engine has as much up to an order as the venue.                     *)
LEMMA PrefixUpTo ==
  ASSUME NEW e, EngineOK(e), Tidy(e), NEW b, NEW u, LobOK(b, u), Follows(e, b),
         NEW L \in Levels, NEW k \in 1..Len(b[L])
  PROVE  Venue!Prefix(b[L], k) <= UpTo(e, Public(b[L][k].id))
<1> DEFINE q == b[L]
           x == Public(q[k].id)
           g == [j \in 1..k |-> q[j].size]
           p == [j \in 1..k |-> Public(q[j].id)]
           h == [j \in 1..k |-> e.orders[p[j]].size]
           R == {p[j] : j \in 1..k}
           F == SizesOf(e, R)
           I == SizesOf(e, InFront(e, x))
<1>1. q \in Seq(Venue!Orders) /\ Len(q) \in Nat /\ k \in Nat /\ k <= Len(q)
  BY DEF LobOK
<1>2. ASSUME NEW j \in 1..k
      PROVE  /\ j \in 1..Len(q) /\ g[j] = q[j].size /\ q[j].size \in Sizes
             /\ p[j] = Public(q[j].id) /\ p[j] \in DOMAIN e.orders
             /\ e.orders[p[j]].level = L /\ e.orders[p[j]].size >= q[j].size
  <2>1. j \in 1..Len(q)
    BY <1>1
  <2>2. q[j] \in Venue!Orders
    BY <1>1, <2>1
  <2>3. Has(e, L, q[j])
    BY <2>1 DEF Follows
  <2> QED BY <2>1, <2>2, <2>3 DEF Has, Venue!Orders, Sizes
<1>3. x \in DOMAIN e.orders /\ e.orders[x].level = L
  BY <1>1, <1>2
<1>4. R \in SUBSET InFront(e, x)
  <2> SUFFICES ASSUME NEW j \in 1..k PROVE p[j] \in InFront(e, x)
    OBVIOUS
  <2>1. p[j] \in Standing(e, L)
    BY <1>2 DEF Standing
  <2>2. CASE j = k
    <3>1. p[j] = x
      BY <1>2, <2>2
    <3> QED BY <1>3, <2>1, <3>1 DEF InFront
  <2>3. CASE j # k
    <3>1. j < k
      BY <1>1, <2>3
    <3>2. Before(e.queues[L], Public(q[j].id), Public(q[k].id))
      BY <1>2, <3>1 DEF Follows
    <3>3. Before(e.queues[L], p[j], x)
      BY <1>2, <3>2
    <3> QED BY <1>3, <2>1, <3>3 DEF InFront
  <2> QED BY <2>2, <2>3
<1>5. /\ InFront(e, x) \in SUBSET Standing(e, L)
  BY <1>3, UpToFacts
<1>6. R \in SUBSET Standing(e, L)
  BY <1>4, <1>5
<1>7. Summable(F) /\ \A y \in R : e.orders[y].size \in Nat
  <2> HIDE DEF R
  <2> QED BY <1>6, StandingFacts
<1>8. Summable(I) /\ \A y \in InFront(e, x) : e.orders[y].size \in Nat
  BY <1>5, StandingFacts
<1>9. /\ DOMAIN F = R /\ DOMAIN I = InFront(e, x)
      /\ \A y \in R : F[y] = e.orders[y].size
      /\ \A y \in InFront(e, x) : I[y] = e.orders[y].size
  BY DEF SizesOf
<1>10. Total(h) = Total(F) /\ Summable(h)
  <2>1. p \in [1..k -> DOMAIN F] /\ \A i \in DOMAIN F : \E j \in 1..k : p[j] = i
    BY <1>9
  <2>2. ASSUME NEW i \in 1..k, NEW j \in 1..k, p[i] = p[j] PROVE i = j
    <3>1. q[i].id = q[j].id /\ i \in 1..Len(q) /\ j \in 1..Len(q)
      BY <1>2, <2>2 DEF Public
    <3> QED BY <3>1 DEF LobOK
  <2>3. DOMAIN h = 1..k /\ \A j \in 1..k : h[j] = F[p[j]]
    BY <1>9
  <2> HIDE DEF p, h, F
  <2> QED BY <1>7, <2>1, <2>2, <2>3, TotalBijection
<1>11. Total(g) <= Total(h)
  <2>1. 1 \in Int /\ k \in Int
    BY <1>1
  <2>2. IsFiniteSet(1..k)
    BY <2>1, FS_Interval
  <2>3. \A j \in 1..k : g[j] \in Nat /\ g[j] <= h[j] /\ h[j] \in Nat
    <3>1. ASSUME NEW j \in 1..k PROVE g[j] \in Nat /\ g[j] <= h[j] /\ h[j] \in Nat
      <4>1. h[j] = e.orders[p[j]].size /\ p[j] \in R
        OBVIOUS
      <4>2. h[j] \in Nat
        BY <1>7, <4>1
      <4>3. g[j] \in Nat /\ h[j] >= g[j]
        BY <1>2, <4>1, SizeAssumption DEF Sizes
      <4> HIDE DEF g, h
      <4> QED BY <4>2, <4>3
    <3> QED BY <3>1
  <2>4. DOMAIN g = 1..k /\ DOMAIN h = 1..k
    OBVIOUS
  <2> HIDE DEF g, h
  <2>5. Summable(g)
    BY <2>2, <2>3, <2>4 DEF Summable
  <2> QED BY <1>10, <2>3, <2>4, <2>5, TotalAtMost
<1>12. Total(F) <= Total(I)
  <2>1. DOMAIN F \subseteq DOMAIN I
    BY <1>4, <1>9
  <2>2. \A y \in DOMAIN I : I[y] \in Nat
    BY <1>8, <1>9
  <2>3. \A y \in DOMAIN F : F[y] = I[y]
    BY <1>4, <1>9
  <2>4. \A y \in DOMAIN F : F[y] <= I[y]
    BY <2>1, <2>2, <2>3
  <2> HIDE DEF F, I
  <2> QED BY <1>7, <1>8, <2>1, <2>2, <2>4, TotalAtMost
<1>13. Venue!Prefix(q, k) = Total(g)
  BY DEF Venue!Prefix, Venue!Total, Total, MapThenSumSet, Venue!MapThenSumSet,
         MapThenFoldSet, Venue!MapThenFoldSet
<1>14. UpTo(e, x) = Total(I)
  BY DEF UpTo
<1>15. Total(g) \in Int /\ Total(h) \in Int /\ Total(I) \in Int
  <2>1. Summable(g)
    <3>1. 1 \in Int /\ k \in Int
      BY <1>1
    <3>2. IsFiniteSet(1..k)
      BY <3>1, FS_Interval
    <3>3. \A j \in 1..k : g[j] \in Int
      BY <1>2 DEF Sizes
    <3> QED BY <3>2, <3>3 DEF Summable
  <2> HIDE DEF g, h, I
  <2> QED BY <1>8, <1>10, <2>1, TotalType
<1> HIDE DEF g, h, F, I, x, q
<1>16. Venue!Prefix(q, k) <= UpTo(e, x)
  BY <1>10, <1>11, <1>12, <1>13, <1>14, <1>15
<1> QED BY <1>16 DEF q, x

(***************************************************************************)
(* The events of the feed.                                                 *)
(***************************************************************************)

\* What an event that the venue's book went from b to c with, and that names
\* order x, leaves true of the engine.
Applied(e, f, x, b, c) ==
  /\ Tidy(f) /\ (Covered(e) => Covered(f))
  /\ DOMAIN f.orders \subseteq DOMAIN e.orders \cup {x}
  /\ Follows(e, b) => Follows(f, c) /\ (Exact(e) => Exact(f))

\* The venue has book c and has given out the ids v once it has reported an event
\* of order id, which took engine e to f.
Reported(e, f, id, c, v) ==
  LobOK(c, v) /\ id \in v /\ used \subseteq v /\ Applied(e, f, Public(id), lob, c)

\* Order x of e was given size n, and nothing else.
Kept(e, f, x, n) ==
  /\ EngineInv(f) /\ EngineOK(f) /\ OnlySize(e, f, x, n) /\ SameOrder(e, f) /\ Tidy(f)
  /\ Covered(e) => Covered(f)
  /\ Exact(e) => Exact(f)
  /\ DOMAIN f.orders \subseteq DOMAIN e.orders

LEMMA ResizeOnly ==
  ASSUME NEW e, EngineInv(e), Tidy(e), NEW x \in DOMAIN e.orders, ~IsOwn(x), NEW n \in Nat,
         NEW f, f = Resize(e, x, n)
  PROVE  Kept(e, f, x, n)
<1>1. EngineInv(f) /\ EngineOK(f) /\ EngineOK(e)
  BY ResizeFacts DEF EngineInv
<1>2. Resized(e, f, x, n)
  BY <1>1, ResizeResizes
<1>3. OnlySize(e, f, x, n) /\ SameOrder(e, f) /\ Tidy(f)
  BY <1>1, <1>2, ResizedOrders
<1>4. Moved(e, f, e.orders[x].level)
  BY <1>1, <1>2, ResizedBook
<1>5. DOMAIN f.orders \subseteq DOMAIN e.orders
  BY <1>3 DEF OnlySize
<1>6. (Covered(e) => Covered(f)) /\ (Exact(e) => Exact(f))
  BY <1>4 DEF Moved
<1> QED BY <1>1, <1>3, <1>5, <1>6 DEF Kept

LEMMA HasResized ==
  ASSUME NEW e, NEW f, NEW id, NEW n \in Nat, OnlySize(e, f, Public(id), n), NEW L, NEW o, Has(e, L, o)
  PROVE  /\ o.id # id => Has(f, L, o)
         /\ \A u : u.id = o.id /\ u.size <= n /\ n # 0 /\ o.id = id => Has(f, L, u)
<1> DEFINE x == Public(id)
           y == Public(o.id)
<1>1. y \in DOMAIN e.orders /\ e.orders[y].level = L /\ e.orders[y].size >= o.size
  BY DEF Has
<1>2. o.id # id => y # x
  BY DEF Public
<1>3. ASSUME o.id # id PROVE Has(f, L, o)
  <2>1. y \in DOMAIN f.orders /\ y # x
    BY <1>1, <1>2, <1>3 DEF OnlySize
  <2>2. f.orders[y].level = e.orders[y].level /\ f.orders[y].size = e.orders[y].size
    BY <2>1 DEF OnlySize
  <2> QED BY <1>1, <2>1, <2>2 DEF Has
<1>4. ASSUME NEW u, u.id = o.id, u.size <= n, n # 0, o.id = id PROVE Has(f, L, u)
  <2>1. y = x /\ Public(u.id) = x /\ x \in DOMAIN f.orders
    BY <1>1, <1>4 DEF OnlySize
  <2>2. f.orders[x].level = L /\ f.orders[x].size = n
    BY <1>1, <2>1 DEF OnlySize
  <2>3. f.orders[x].size >= u.size
    BY <1>4, <2>2
  <2> QED BY <2>1, <2>2, <2>3 DEF Has
<1> QED BY <1>3, <1>4

LEMMA AddEvent ==
  ASSUME LobOK(lob, used), NEW id \in PublicIds, NEW L \in Levels, NEW n \in Sizes,
         Venue!Add(id, L, n), NEW e, EngineInv(e), Tidy(e), Public(id) \notin DOMAIN e.orders,
         NEW f, f = Rest(e, Public(id), L, n)
  PROVE  Reported(e, f, id, lob', used')
<1> DEFINE x == Public(id)
           c == [lob EXCEPT ![L] = Append(@, [id |-> id, size |-> n])]
<1>1. id \notin used /\ lob' = c /\ used' = used \cup {id}
  BY DEF Venue!Add
<1>2. JoinsLob(lob, c, id, L, n)
  <2>1. lob \in [Levels -> Seq(Venue!Orders)]
    BY DEF LobOK
  <2> QED BY <2>1 DEF JoinsLob
<1> HIDE DEF c
<1>3. \A M \in Levels : \A i \in 1..Len(lob[M]) : lob[M][i].id # id
  BY <1>1 DEF LobOK
<1>4. LobOK(c, used \cup {id})
  BY <1>2, <1>3, JoinsLobOK
<1>5. x \in Entries /\ n \in Nat \ {0} /\ EngineOK(e)
  BY EntryFacts DEF Sizes, EngineInv
<1>6. JoinsBack(e, f, x, L, n) /\ Tidy(f) /\ Moved(e, f, L)
  <2> HIDE DEF x
  <2> QED BY <1>5, RestJoins DEF x
<1>7. Follows(e, lob) => Follows(f, c)
  BY <1>2, <1>6, JoinsFollows
<1>8. DOMAIN f.orders \subseteq DOMAIN e.orders \cup {x}
  BY <1>6 DEF JoinsBack
<1> QED BY <1>1, <1>4, <1>6, <1>7, <1>8 DEF Applied, Reported, Moved

LEMMA CancelEvent ==
  ASSUME LobOK(lob, used), NEW id \in PublicIds, NEW L \in Levels, NEW n \in Sizes,
         Venue!Cancel(id, L, n), NEW e, EngineInv(e), Tidy(e),
         NEW ev, ev.id = id, ev.level = L, ev.size = n,
         NEW f, f = CancelPublic(e, ev)
  PROVE  Reported(e, f, id, lob', used')
<1> DEFINE x == Public(id)
           k == Venue!PlaceOf(id)
           q == lob[L]
           w == IF n = q[k].size THEN Venue!Removed(q, k) ELSE [q EXCEPT ![k].size = q[k].size - n]
           s == e.orders[x].size
           r == s - Lesser(s, n)
<1>1. /\ id \in Venue!Live /\ L = Venue!LevelOf(id) /\ n <= Venue!SizeOf(id) /\ used' = used
      /\ lob' = [lob EXCEPT ![L] = IF n = Venue!SizeOf(id) THEN Venue!Removed(@, k)
                                   ELSE [@ EXCEPT ![k].size = Venue!SizeOf(id) - n]]
  BY DEF Venue!Cancel
<1>2. /\ k \in 1..Len(q) /\ q[k].id = id /\ Venue!SizeOf(id) = q[k].size /\ q[k].size \in Sizes
      /\ \A M \in Levels : \A j \in 1..Len(lob[M]) : lob[M][j].id = id => M = L /\ j = k
  BY <1>1, PlaceOfFacts
<1>3. lob \in [Levels -> Seq(Venue!Orders)] /\ q \in Seq(Venue!Orders)
  BY DEF LobOK
<1>4. lob' = [lob EXCEPT ![L] = w]
  BY <1>1, <1>2, <1>3
<1> HIDE DEF w
<1>5. \E p : /\ Picks(p, q, w)
             /\ \A i \in 1..Len(w) :
                   \/ q[p[i]].id # id /\ w[i] = q[p[i]]
                   \/ p[i] = k /\ n < q[k].size /\ w[i].size = q[k].size - n
  <2>1. CASE n = q[k].size
    <3>1. w = Venue!Removed(q, k)
      BY <2>1 DEF w
    <3>2. PICK p : Picks(p, q, w) /\ \A i \in 1..Len(w) : w[i] = q[p[i]] /\ p[i] # k
      BY <1>2, <1>3, <3>1, RemovedPicks
    <3>3. \A i \in 1..Len(w) : p[i] \in 1..Len(q)
      BY <3>2 DEF Picks
    <3>4. \A i \in 1..Len(w) : q[p[i]].id # id
      BY <1>2, <3>2, <3>3
    <3> QED BY <3>2, <3>4
  <2>2. CASE n # q[k].size
    <3> DEFINE m == q[k].size - n
    <3>1. m \in Sizes /\ n < q[k].size
      BY <1>1, <1>2, <2>2, SizeAssumption DEF Sizes
    <3>2. w = [q EXCEPT ![k].size = m]
      <4> QED BY <2>2 DEF w
    <3> HIDE DEF m
    <3>5. PICK p : Sized(p, q, w, k, m)
      <4> HIDE DEF q, k
      <4> QED BY <1>2, <1>3, <3>1, <3>2, SizedPicks
    <3>3. /\ Picks(p, q, w)
          /\ \A i \in 1..Len(w) : /\ p[i] = i
                                  /\ w[i].size = IF i = k THEN m ELSE q[i].size
      BY <3>5 DEF Sized
    <3>4. ASSUME NEW i \in 1..Len(w)
          PROVE  \/ q[p[i]].id # id /\ w[i] = q[p[i]]
                 \/ p[i] = k /\ n < q[k].size /\ w[i].size = q[k].size - n
      <4>1. p[i] = i /\ i \in 1..Len(q) /\ w[i].id = q[i].id
        BY <3>3 DEF Picks
      <4>2. CASE i = k
        BY <3>1, <3>3, <4>1, <4>2 DEF m
      <4>3. CASE i # k
        <5>1. w[i] = q[i]
          <6>1. w[i] \in Venue!Orders /\ q[i] \in Venue!Orders
            BY <1>3, <3>3, <4>1 DEF Picks
          <6>2. w[i].size = q[i].size
            BY <3>3, <4>3
          <6> QED BY <4>1, <6>1, <6>2 DEF Venue!Orders
        <5>2. q[i].id # id
          BY <1>2, <4>1, <4>3
        <5> QED BY <4>1, <5>1, <5>2
      <4> QED BY <4>2, <4>3
    <3> QED BY <3>3, <3>4
  <2> QED BY <2>1, <2>2
<1>6. PICK p : /\ Picks(p, q, w)
               /\ \A i \in 1..Len(w) :
                     \/ q[p[i]].id # id /\ w[i] = q[p[i]]
                     \/ p[i] = k /\ n < q[k].size /\ w[i].size = q[k].size - n
  BY <1>5
<1>7. /\ Thins(lob, lob') /\ LobOK(lob', used) /\ lob'[L] = w
      /\ \A M \in Levels : M # L => lob'[M] = lob[M]
  <2>1. Thinned(lob, lob', used, L, w)
    BY <1>4, <1>6, LevelThins
  <2> QED BY <2>1 DEF Thinned
<1>8. id \in used
  BY <1>2 DEF LobOK
<1>9. Follows(e, lob) => Has(e, L, q[k])
  BY <1>2 DEF Follows
<1>10. CASE x \in DOMAIN e.orders
  <2>1. s \in Nat \ {0} /\ n \in Nat
    <3>1. e.orders \in [DOMAIN e.orders -> Orders]
      BY EngineFields DEF EngineInv
    <3>2. e.orders[x] \in Orders
      BY <1>10, <3>1
    <3> QED BY <3>2 DEF Orders, Sizes
  <2>2. r \in Nat /\ (n < s => r = s - n)
    BY <2>1, LesserFacts DEF Lesser
  <2>3. f = Resize(e, x, r)
    BY <1>10 DEF CancelPublic
  <2> HIDE DEF r
  <2>4. ~IsOwn(x)
    BY DEF IsOwn, Public
  <2>5. /\ EngineInv(f) /\ EngineOK(f) /\ OnlySize(e, f, x, r) /\ SameOrder(e, f) /\ Tidy(f)
        /\ Covered(e) => Covered(f)
        /\ Exact(e) => Exact(f)
        /\ DOMAIN f.orders \subseteq DOMAIN e.orders
    <3>1. Kept(e, f, x, r)
      <4> HIDE DEF x
      <4> QED BY <1>10, <2>2, <2>3, <2>4, ResizeOnly
    <3> QED BY <3>1 DEF Kept
  <2>6. ASSUME Follows(e, lob), NEW M \in Levels, NEW i \in 1..Len(lob'[M])
        PROVE  Has(f, M, lob'[M][i])
    <3>1. CASE M # L
      <4>1. lob'[M] = lob[M] /\ i \in 1..Len(lob[M])
        BY <1>7, <3>1
      <4>2. Has(e, M, lob[M][i]) /\ lob[M][i].id # id
        BY <1>2, <2>6, <3>1, <4>1 DEF Follows
      <4> QED BY <2>2, <2>5, <4>1, <4>2, HasResized
    <3>2. CASE M = L
      <4> DEFINE a == p[i]
      <4>1. lob'[M] = w /\ i \in 1..Len(w) /\ a \in 1..Len(q) /\ w[i].id = q[a].id
        BY <1>6, <1>7, <3>2 DEF Picks
      <4>2. \/ q[a].id # id /\ w[i] = q[a]
            \/ a = k /\ n < q[k].size /\ w[i].size = q[k].size - n
        BY <1>6, <4>1
      <4> HIDE DEF a
      <4>3. Has(e, L, q[a])
        BY <2>6, <4>1 DEF Follows
      <4>4. CASE q[a].id # id /\ w[i] = q[a]
        BY <2>2, <2>5, <3>2, <4>1, <4>3, <4>4, HasResized
      <4>5. CASE a = k /\ n < q[k].size /\ w[i].size = q[k].size - n
        <5>1. s >= q[k].size
          BY <1>2, <1>9, <2>6 DEF Has
        <5>2. q[k].size \in Nat
          BY <1>2 DEF Sizes
        <5>3. w[i].size <= r /\ r # 0
          BY <2>1, <2>2, <4>5, <5>1, <5>2, SMTT(30)
        <5>4. q[a].id = id
          BY <1>2, <4>5
        <5> HIDE DEF x
        <5>5. \A u : u.id = q[a].id /\ u.size <= r /\ r # 0 /\ q[a].id = id => Has(f, L, u)
          BY <2>2, <2>5, <4>3, HasResized DEF x
        <5> QED BY <3>2, <4>1, <5>3, <5>4, <5>5
      <4> QED BY <4>2, <4>4, <4>5
    <3> QED BY <3>1, <3>2
  <2>7. Follows(e, lob) => Follows(f, lob')
    BY <1>7, <2>5, <2>6, ThinsFollows
  <2> QED BY <1>1, <1>7, <1>8, <2>5, <2>7 DEF Applied, Reported
<1>11. CASE x \notin DOMAIN e.orders
  <2>1. f = [e EXCEPT !.book = RemoveFromBook(@, L, n)]
    BY <1>11 DEF CancelPublic
  <2>2. e.book \in [Levels -> Nat] /\ DOMAIN e = Fields
    BY EngineFields DEF EngineInv
  <2>3. f.orders = e.orders /\ f.queues = e.queues /\ f.book = RemoveFromBook(e.book, L, n)
    BY <2>1, <2>2 DEF Fields
  <2>4. Tidy(f) /\ \A M \in Levels : Volume(f, M) = Volume(e, M)
    BY <2>3 DEF Tidy, Volume, Standing, SizesOf
  <2>5. \A M \in Levels : f.book[M] \in Nat /\ e.book[M] \in Nat /\ f.book[M] <= e.book[M]
    <3>1. ASSUME NEW M \in Levels PROVE f.book[M] \in Nat /\ e.book[M] \in Nat /\ f.book[M] <= e.book[M]
      <4>1. e.book[M] \in Nat /\ n \in Nat
        BY <2>2 DEF Sizes
      <4>2. f.book[M] = IF M = L THEN e.book[M] - Lesser(e.book[M], n) ELSE e.book[M]
        BY <2>2, <2>3 DEF RemoveFromBook
      <4> DEFINE d == Lesser(e.book[M], n)
                 z == e.book[M]
      <4>3. d \in Nat /\ d <= z /\ z \in Nat
        BY <4>1, LesserFacts
      <4>4. f.book[M] = z - d \/ f.book[M] = z
        BY <4>2
      <4> HIDE DEF d, z
      <4>5. f.book[M] \in Nat /\ f.book[M] <= z
        BY <4>3, <4>4
      <4> QED BY <4>1, <4>5 DEF z
    <3> QED BY <3>1
  <2>6. Covered(e) => Covered(f)
    <3>1. EngineOK(e)
      BY DEF EngineInv
    <3>2. ASSUME Covered(e), NEW M \in Levels PROVE f.book[M] <= Volume(f, M)
      <4>1. Standing(e, M) \in SUBSET Standing(e, M)
        OBVIOUS
      <4>2. Volume(e, M) \in Nat
        BY <3>1, <4>1, StandingFacts DEF Volume
      <4>3. e.book[M] <= Volume(e, M)
        BY <3>2 DEF Covered
      <4> QED BY <2>4, <2>5, <4>2, <4>3
    <3> QED BY <3>2 DEF Covered
  <2>7. ~Follows(e, lob)
    BY <1>2, <1>9, <1>11 DEF Has
  <2> QED BY <1>1, <1>7, <1>8, <2>3, <2>4, <2>6, <2>7 DEF Applied, Reported
<1> QED BY <1>10, <1>11

\* What the engine does with a modify, whatever the venue did.
LEMMA ModifyKeeps ==
  ASSUME NEW e, EngineInv(e), Tidy(e), NEW id \in PublicIds, NEW L \in Levels, NEW n \in Sizes,
         NEW ev, ev.id = id, ev.level = L, ev.size = n,
         NEW f, f = ModifyPublic(e, ev)
  PROVE  /\ Tidy(f) /\ (Covered(e) => Covered(f)) /\ (Exact(e) => Exact(f))
         /\ DOMAIN f.orders \subseteq DOMAIN e.orders \cup {Public(id)}
<1> DEFINE x == Public(id)
           g == Resize(e, x, 0)
<1>1. x \in Entries /\ n \in Nat \ {0} /\ n \in Nat /\ EngineOK(e) /\ ~IsOwn(x)
  BY EntryFacts DEF Sizes, EngineInv, IsOwn, Public
<1>2. CASE x \notin DOMAIN e.orders
  <2>1. f = Rest(e, x, L, n)
    BY <1>2 DEF ModifyPublic
  <2>2. JoinsBack(e, f, x, L, n) /\ Tidy(f) /\ Moved(e, f, L)
    <3> HIDE DEF x
    <3> QED BY <1>1, <1>2, <2>1, RestJoins
  <2> QED BY <2>2 DEF Moved, JoinsBack
<1>3. CASE x \in DOMAIN e.orders /\ e.orders[x].level = L
  <2>1. f = Resize(e, x, n)
    BY <1>3 DEF ModifyPublic
  <2>2. Kept(e, f, x, n)
    <3> HIDE DEF x
    <3> QED BY <1>1, <1>3, <2>1, ResizeOnly
  <2> QED BY <2>2 DEF Kept
<1>4. CASE x \in DOMAIN e.orders /\ e.orders[x].level # L
  <2>1. f = MovePublic(e, x, L, n)
    BY <1>4 DEF ModifyPublic
  <2>2. f = Rest(g, x, L, n)
    <3> HIDE DEF x
    <3> QED BY <1>1, <1>4, <2>1, MoveIsRest DEF g
  <2>3. /\ EngineInv(g) /\ EngineOK(g) /\ OnlySize(e, g, x, 0) /\ SameOrder(e, g) /\ Tidy(g)
        /\ Covered(e) => Covered(g)
        /\ Exact(e) => Exact(g)
        /\ DOMAIN g.orders \subseteq DOMAIN e.orders
    <3>1. 0 \in Nat /\ g = Resize(e, x, 0)
      OBVIOUS
    <3>2. Kept(e, g, x, 0)
      <4> HIDE DEF x, g
      <4> QED BY <1>1, <1>4, <3>1, ResizeOnly
    <3> QED BY <3>2 DEF Kept
  <2> HIDE DEF g
  <2>4. x \notin DOMAIN g.orders
    BY <2>3 DEF OnlySize
  <2>5. JoinsBack(g, f, x, L, n) /\ Tidy(f) /\ Moved(g, f, L)
    <3> HIDE DEF x
    <3> QED BY <1>1, <2>2, <2>3, <2>4, RestJoins
  <2> QED BY <2>3, <2>5 DEF Moved, JoinsBack
<1> QED BY <1>2, <1>3, <1>4

LEMMA ModifyEvent ==
  ASSUME LobOK(lob, used), NEW id \in PublicIds, NEW L \in Levels, NEW n \in Sizes,
         Venue!Modify(id, L, n), NEW e, EngineInv(e), Tidy(e),
         NEW ev, ev.id = id, ev.level = L, ev.size = n,
         NEW f, f = ModifyPublic(e, ev)
  PROVE  Reported(e, f, id, lob', used')
<1> DEFINE x == Public(id)
           K == Venue!LevelOf(id)
           k == Venue!PlaceOf(id)
           q == lob[K]
<1>1. id \in Venue!Live /\ used' = used
  BY DEF Venue!Modify
<1>2. /\ K \in Levels /\ k \in 1..Len(q) /\ q[k].id = id
      /\ \A M \in Levels : \A j \in 1..Len(lob[M]) : lob[M][j].id = id => M = K /\ j = k
  BY <1>1, PlaceOfFacts
<1>3. \/ L = K /\ lob' = [lob EXCEPT ![L][k].size = n]
      \/ L # K /\ lob' = [lob EXCEPT ![K] = Venue!Removed(@, k),
                                     ![L] = Append(@, [id |-> id, size |-> n])]
  BY DEF Venue!Modify
<1> HIDE DEF K, k
<1>4. lob \in [Levels -> Seq(Venue!Orders)] /\ q \in Seq(Venue!Orders)
  BY <1>2 DEF LobOK
<1>5. id \in used
  BY <1>2 DEF LobOK
<1>6. ASSUME Follows(e, lob)
      PROVE  x \in DOMAIN e.orders /\ e.orders[x].level = K
  BY <1>2, <1>6 DEF Follows, Has
<1>7. ~IsOwn(x) /\ n \in Nat /\ 0 \in Nat /\ n # 0 /\ n <= n /\ EngineOK(e)
  BY DEF IsOwn, Public, Sizes, EngineInv
<1>8. /\ Tidy(f) /\ (Covered(e) => Covered(f)) /\ (Exact(e) => Exact(f))
      /\ DOMAIN f.orders \subseteq DOMAIN e.orders \cup {x}
  BY ModifyKeeps
<1>9. CASE L = K /\ lob' = [lob EXCEPT ![L][k].size = n]
  <2> DEFINE w == [q EXCEPT ![k].size = n]
  <2>1. lob' = [lob EXCEPT ![L] = w]
    BY <1>2, <1>4, <1>9
  <2>5. w = [q EXCEPT ![k].size = n]
    OBVIOUS
  <2> HIDE DEF w
  <2>6. PICK p : Sized(p, q, w, k, n)
    <3> HIDE DEF q
    <3> QED BY <1>2, <1>4, <2>5, SizedPicks
  <2>2. /\ Picks(p, q, w)
        /\ \A i \in 1..Len(w) : /\ p[i] = i
                                /\ w[i].size = IF i = k THEN n ELSE q[i].size
    BY <2>6 DEF Sized
  <2>3. /\ Thins(lob, lob') /\ LobOK(lob', used) /\ lob'[L] = w
        /\ \A M \in Levels : M # L => lob'[M] = lob[M]
    <3>1. Picks(p, lob[L], w)
      BY <1>9, <2>2
    <3>2. Thinned(lob, lob', used, L, w)
      BY <2>1, <3>1, LevelThins
    <3> QED BY <3>2 DEF Thinned
  <2>4. ASSUME Follows(e, lob)
        PROVE  Follows(f, lob')
    <3>1. x \in DOMAIN e.orders /\ e.orders[x].level = L
      BY <1>6, <1>9, <2>4
    <3>2. f = Resize(e, x, n)
      BY <3>1 DEF ModifyPublic
    <3>3. OnlySize(e, f, x, n) /\ SameOrder(e, f)
      <4>1. Kept(e, f, x, n)
        <5> HIDE DEF x
        <5> QED BY <1>7, <3>1, <3>2, ResizeOnly
      <4> QED BY <4>1 DEF Kept
    <3>4. ASSUME NEW M \in Levels, NEW i \in 1..Len(lob'[M])
          PROVE  Has(f, M, lob'[M][i])
      <4>1. CASE M # L
        <5>1. lob'[M] = lob[M] /\ i \in 1..Len(lob[M])
          BY <2>3, <4>1
        <5>2. Has(e, M, lob[M][i]) /\ lob[M][i].id # id
          BY <1>2, <1>9, <2>4, <4>1, <5>1 DEF Follows
        <5> QED BY <1>7, <3>3, <5>1, <5>2, HasResized
      <4>2. CASE M = L
        <5>1. lob'[M] = w /\ i \in 1..Len(w)
          BY <2>3, <4>2
        <5>2. p[i] = i /\ i \in 1..Len(q) /\ w[i].id = q[i].id
              /\ w[i].size = IF i = k THEN n ELSE q[i].size
          BY <2>2, <5>1 DEF Picks
        <5>3. Has(e, L, q[i])
          BY <1>9, <2>4, <5>2 DEF Follows
        <5>4. CASE i = k
          <6>1. w[i].id = q[i].id /\ w[i].size <= n /\ q[i].id = id
            BY <1>2, <1>7, <5>2, <5>4
          <6>2. \A u : u.id = q[i].id /\ u.size <= n /\ n # 0 /\ q[i].id = id => Has(f, L, u)
            BY <1>7, <3>3, <5>3, HasResized
          <6> QED BY <1>7, <4>2, <5>1, <6>1, <6>2
        <5>5. CASE i # k
          <6>1. q[i].id # id
            BY <1>2, <5>2, <5>5
          <6>2. Has(f, L, q[i])
            BY <1>7, <3>3, <5>3, <6>1, HasResized
          <6>3. w[i].size = q[i].size /\ w[i].id = q[i].id
            BY <5>2, <5>5
          <6> QED BY <4>2, <5>1, <6>2, <6>3 DEF Has
        <5> QED BY <5>4, <5>5
      <4> QED BY <4>1, <4>2
    <3> QED BY <2>3, <2>4, <3>3, <3>4, ThinsFollows
  <2> QED BY <1>1, <1>5, <1>8, <2>3, <2>4 DEF Applied, Reported
<1>10. CASE L # K /\ lob' = [lob EXCEPT ![K] = Venue!Removed(@, k),
                                        ![L] = Append(@, [id |-> id, size |-> n])]
  <2> DEFINE w == Venue!Removed(q, k)
             c == [lob EXCEPT ![K] = w]
             g == Resize(e, x, 0)
  <2>1. PICK p : Picks(p, q, w) /\ \A i \in 1..Len(w) : w[i] = q[p[i]] /\ p[i] # k
    BY <1>2, <1>4, RemovedPicks
  <2> HIDE DEF w
  <2>2. /\ Thins(lob, c) /\ LobOK(c, used) /\ c[K] = w
        /\ \A M \in Levels : M # K => c[M] = lob[M]
    <3>1. c = [lob EXCEPT ![K] = w]
      OBVIOUS
    <3>2. Thinned(lob, c, used, K, w)
      <4> HIDE DEF c
      <4> QED BY <1>2, <2>1, <3>1, LevelThins
    <3> QED BY <3>2 DEF Thinned
  <2>3. JoinsLob(c, lob', id, L, n)
    <3>1. lob' = [lob EXCEPT ![K] = w, ![L] = Append(@, [id |-> id, size |-> n])]
      BY <1>2, <1>4, <1>10 DEF w
    <3>2. /\ DOMAIN lob' = Levels /\ lob' = [M \in Levels |-> lob'[M]]
          /\ \A M \in Levels : lob'[M] = IF M = L THEN Append(c[M], [id |-> id, size |-> n]) ELSE c[M]
      BY <1>2, <1>4, <1>10, <3>1
    <3> HIDE DEF c
    <3> QED BY <3>2 DEF JoinsLob
  <2> HIDE DEF c
  <2>4. ASSUME NEW M \in Levels, NEW i \in 1..Len(c[M])
        PROVE  /\ c[M][i].id # id
               /\ Follows(e, lob) => Has(e, M, c[M][i])
    <3>1. CASE M # K
      <4>1. c[M] = lob[M]
        BY <2>2, <3>1
      <4> QED BY <1>2, <3>1, <4>1 DEF Follows
    <3>2. CASE M = K
      <4> DEFINE a == p[i]
      <4>1. c[M] = w /\ i \in 1..Len(w)
        BY <2>2, <3>2
      <4>2. a \in 1..Len(q) /\ w[i] = q[a] /\ a # k
        BY <2>1, <4>1 DEF Picks
      <4> HIDE DEF a
      <4>3. q[a].id # id /\ (Follows(e, lob) => Has(e, K, q[a]))
        BY <1>2, <4>2 DEF Follows
      <4> QED BY <3>2, <4>1, <4>2, <4>3
    <3> QED BY <3>1, <3>2
  <2>5. LobOK(lob', used)
    <3>1. LobOK(lob', used \cup {id})
      BY <2>2, <2>3, <2>4, JoinsLobOK
    <3>2. used \cup {id} = used
      BY <1>5
    <3> QED BY <3>1, <3>2
  <2>6. ASSUME Follows(e, lob)
        PROVE  Follows(f, lob')
    <3>1. x \in DOMAIN e.orders /\ e.orders[x].level # L
      BY <1>6, <1>10, <2>6
    <3>2. f = Rest(g, x, L, n)
      <4>1. f = MovePublic(e, x, L, n)
        BY <3>1 DEF ModifyPublic
      <4> HIDE DEF x
      <4> QED BY <1>7, <3>1, <4>1, MoveIsRest DEF g
    <3>3. EngineOK(g) /\ OnlySize(e, g, x, 0) /\ SameOrder(e, g) /\ Tidy(g)
      <4>1. g = Resize(e, x, 0)
        OBVIOUS
      <4>2. Kept(e, g, x, 0)
        <5> HIDE DEF x, g
        <5> QED BY <1>7, <3>1, <4>1, ResizeOnly
      <4> QED BY <4>2 DEF Kept
    <3> HIDE DEF g
    <3>4. x \notin DOMAIN g.orders
      BY <3>3 DEF OnlySize
    <3>5. JoinsBack(g, f, x, L, n)
      <4>1. x \in Entries /\ n \in Nat \ {0}
        BY EntryFacts DEF Sizes
      <4> HIDE DEF x
      <4> QED BY <3>2, <3>3, <3>4, <4>1, RestJoins
    <3>6. ASSUME NEW M \in Levels, NEW i \in 1..Len(c[M])
          PROVE  Has(g, M, c[M][i])
      <4>1. Has(e, M, c[M][i]) /\ c[M][i].id # id
        BY <2>4, <2>6
      <4> QED BY <1>7, <3>3, <4>1, HasResized
    <3>7. Follows(g, c)
      BY <2>2, <2>6, <3>3, <3>6, ThinsFollows
    <3> QED BY <2>2, <2>3, <3>4, <3>5, <3>7, JoinsFollows
  <2> QED BY <1>1, <1>5, <1>8, <2>5, <2>6 DEF Applied, Reported
<1> QED BY <1>3, <1>9, <1>10

LEMMA UpToVolume ==
  ASSUME NEW e, EngineOK(e), Tidy(e), NEW x \in DOMAIN e.orders
  PROVE  UpTo(e, x) <= Volume(e, e.orders[x].level)
<1> DEFINE L == e.orders[x].level
           I == SizesOf(e, InFront(e, x))
           V == SizesOf(e, Standing(e, L))
<1>1. L \in Levels /\ InFront(e, x) \in SUBSET Standing(e, L) /\ Standing(e, L) \in SUBSET Standing(e, L)
  BY UpToFacts
<1>2. /\ Summable(I) /\ Summable(V)
      /\ \A y \in Standing(e, L) : e.orders[y].size \in Nat
  <2> HIDE DEF L
  <2> QED BY <1>1, StandingFacts
<1>3. /\ DOMAIN I = InFront(e, x) /\ DOMAIN V = Standing(e, L)
      /\ \A y \in InFront(e, x) : I[y] = e.orders[y].size
      /\ \A y \in Standing(e, L) : V[y] = e.orders[y].size
  BY DEF SizesOf
<1>4. UpTo(e, x) = Total(I) /\ Volume(e, L) = Total(V)
  BY DEF UpTo, Volume
<1> HIDE DEF I, V, L
<1>5. DOMAIN I \subseteq DOMAIN V /\ \A y \in DOMAIN V : V[y] \in Nat
  <2>1. DOMAIN I \subseteq DOMAIN V
    BY <1>1, <1>3
  <2>2. \A y \in DOMAIN V : V[y] \in Nat
    <3>1. ASSUME NEW y \in DOMAIN V PROVE V[y] \in Nat
      <4>1. y \in Standing(e, L) /\ V[y] = e.orders[y].size
        BY <1>3
      <4>2. e.orders[y].size \in Nat
        BY <1>2, <4>1
      <4> QED BY <4>1, <4>2
    <3> QED BY <3>1
  <2> QED BY <2>1, <2>2
<1>6. \A y \in DOMAIN I : I[y] = V[y]
  BY <1>1, <1>3
<1>7. \A y \in DOMAIN I : I[y] <= V[y]
  BY <1>5, <1>6
<1>8. Total(I) <= Total(V)
  BY <1>2, <1>5, <1>7, TotalAtMost
<1> QED BY <1>4, <1>8 DEF L

LEMMA TradeEvent ==
  ASSUME LobOK(lob, used), NEW id \in PublicIds, NEW L \in Levels, NEW n \in Sizes,
         Venue!Trade(id, L, n), NEW e, EngineInv(e), Tidy(e), NEW ts \in Nat,
         NEW f, f = ConsumeLevel(e, L, n, ts)
  PROVE  Reported(e, f, id, lob', used')
<1> DEFINE q == lob[L]
           w == Venue!AfterTrade(q, n)
<1>1. /\ q # <<>> /\ id = Head(q).id /\ n <= Venue!Prefix(q, Len(q)) /\ used' = used
      /\ lob' = [lob EXCEPT ![L] = Venue!AfterTrade(@, n)]
  BY DEF Venue!Trade
<1>2. lob \in [Levels -> Seq(Venue!Orders)] /\ q \in Seq(Venue!Orders) /\ n \in Nat /\ EngineOK(e)
  BY DEF LobOK, Sizes, EngineInv
<1>3. 1 \in 1..Len(q) /\ Len(q) \in 1..Len(q) /\ Head(q) = q[1]
  BY <1>1, <1>2
<1>4. id \in used
  BY <1>1, <1>3 DEF LobOK
<1>5. PICK p : /\ Picks(p, q, w)
               /\ \A i \in 1..Len(w) : /\ w[i].size <= q[p[i]].size
                                       /\ w[i].size <= Venue!Prefix(q, p[i]) - n
                                       /\ Venue!Prefix(q, p[i]) > n
  BY <1>2, AfterTradeFacts
<1>6. lob' = [lob EXCEPT ![L] = w]
  BY <1>1, <1>2
<1> HIDE DEF w
<1>7. /\ Thins(lob, lob') /\ LobOK(lob', used) /\ lob'[L] = w
      /\ \A M \in Levels : M # L => lob'[M] = lob[M]
  <2>1. Thinned(lob, lob', used, L, w)
    BY <1>5, <1>6, LevelThins
  <2> QED BY <2>1 DEF Thinned
<1>8. PICK m \in 0..n : Eaten(e, f, L, m)
  BY <1>2, ConsumeLevelEats
<1>9. Tidy(f) /\ (Covered(e) => Covered(f)) /\ DOMAIN f.orders \subseteq DOMAIN e.orders
  BY <1>8 DEF Eaten, Moved
<1>10. ASSUME Follows(e, lob)
       PROVE  Follows(f, lob') /\ (Exact(e) => Exact(f))
  <2>1. n <= Volume(e, L)
    <3> DEFINE x == Public(q[Len(q)].id)
    <3>1. Has(e, L, q[Len(q)])
      BY <1>3, <1>10 DEF Follows
    <3>2. x \in DOMAIN e.orders /\ e.orders[x].level = L
      BY <3>1 DEF Has
    <3>3. Venue!Prefix(q, Len(q)) <= UpTo(e, x)
      BY <1>2, <1>3, <1>10, PrefixUpTo
    <3>4. UpTo(e, x) <= Volume(e, L) /\ UpTo(e, x) \in Nat
      <4> HIDE DEF x
      <4> QED BY <1>2, <3>2, UpToVolume, UpToFacts
    <3>5. Len(q) \in 0..Len(q)
      BY <1>2
    <3>6. Venue!Prefix(q, Len(q)) \in Nat
      BY <1>2, <3>5, PrefixFacts
    <3>7. Volume(e, L) \in Nat
      <4>1. Standing(e, L) \in SUBSET Standing(e, L)
        OBVIOUS
      <4> QED BY <1>2, <4>1, StandingFacts DEF Volume
    <3> HIDE DEF x
    <3> QED BY <1>1, <1>2, <3>3, <3>4, <3>6, <3>7
  <2>2. Eaten(e, f, L, n)
    BY <1>2, <2>1, ConsumeLevelEatsAll
  <2>3. ASSUME NEW M \in Levels, NEW i \in 1..Len(lob'[M])
        PROVE  Has(f, M, lob'[M][i])
    <3>1. CASE M # L
      <4>1. lob'[M] = lob[M] /\ i \in 1..Len(lob[M])
        BY <1>7, <3>1
      <4> DEFINE o == lob[M][i]
                 x == Public(o.id)
      <4>2. x \in DOMAIN e.orders /\ e.orders[x].level = M /\ e.orders[x].size >= o.size
        BY <1>10, <4>1 DEF Follows, Has
      <4> HIDE DEF x
      <4>3. x \in DOMAIN f.orders
        BY <2>2, <3>1, <4>2 DEF Eaten
      <4>4. f.orders[x].level = M /\ f.orders[x].size = e.orders[x].size
        BY <2>2, <3>1, <4>2, <4>3 DEF Eaten
      <4>5. Has(f, M, o)
        BY <4>2, <4>3, <4>4 DEF Has, x
      <4> QED BY <4>1, <4>5
    <3>2. CASE M = L
      <4> DEFINE a == p[i]
                 F == Venue!Prefix(q, a)
      <4>1. lob'[M] = w /\ i \in 1..Len(w)
        BY <1>7, <3>2
      <4>2. /\ a \in 1..Len(q) /\ w[i].id = q[a].id /\ w[i] \in Venue!Orders
            /\ w[i].size <= q[a].size /\ w[i].size <= F - n /\ F > n
        BY <1>5, <4>1 DEF Picks
      <4> HIDE DEF a
      <4> DEFINE x == Public(q[a].id)
      <4>3. x \in DOMAIN e.orders /\ e.orders[x].level = L /\ e.orders[x].size >= q[a].size
        BY <1>10, <4>2 DEF Follows, Has
      <4>4. F <= UpTo(e, x)
        BY <1>2, <1>10, <4>2, PrefixUpTo
      <4>5. a \in 0..Len(q)
        BY <1>2, <4>2
      <4>6. F \in Nat
        BY <1>2, <4>5, PrefixFacts
      <4> HIDE DEF F
      <4>7. w[i].size \in Nat /\ q[a].size \in Nat
        <5>1. q[a] \in Venue!Orders
          BY <1>2, <4>2
        <5> QED BY <4>2, <5>1, SizeAssumption DEF Venue!Orders
      <4>8. UpTo(e, x) \in Nat /\ e.orders[x].size \in Nat
        <5>1. e.orders \in [DOMAIN e.orders -> Orders]
          BY <1>2, EngineFields
        <5>2. e.orders[x] \in Orders
          BY <4>3, <5>1
        <5>3. UpTo(e, x) \in Nat
          <6> HIDE DEF x
          <6> QED BY <1>2, <4>3, UpToFacts
        <5> QED BY <5>2, <5>3 DEF Orders
      <4>9. Public(w[i].id) = x
        BY <4>2
      <4> HIDE DEF x
      <4>10. x \in DOMAIN f.orders
        <5>1. ~(UpTo(e, x) <= n)
          BY <1>2, <4>2, <4>4, <4>6, <4>8
        <5> QED BY <2>2, <4>3, <5>1 DEF Eaten
      <4>11. /\ f.orders[x].level = L
             /\ \/ f.orders[x].size = e.orders[x].size
                \/ f.orders[x].size >= UpTo(f, x)
             /\ UpTo(f, x) = UpTo(e, x) - n
        BY <2>2, <4>3, <4>10 DEF Eaten
      <4>12. f.orders[x].size >= w[i].size
        <5>1. CASE f.orders[x].size = e.orders[x].size
          BY <4>2, <4>3, <4>7, <4>8, <5>1, SMTT(30)
        <5>2. CASE f.orders[x].size >= UpTo(f, x)
          <6>1. f.orders[x].size \in Int
            <7>1. EngineInv(f)
              <8> QED BY <1>2, ConsumeLevelFacts
            <7>2. f.orders \in [DOMAIN f.orders -> Orders]
              BY <7>1, EngineFields DEF EngineInv
            <7>3. f.orders[x] \in Orders
              BY <4>10, <7>2
            <7> QED BY <7>3 DEF Orders
          <6> QED BY <1>2, <4>2, <4>4, <4>6, <4>7, <4>8, <4>11, <5>2, <6>1, SMTT(30)
        <5> QED BY <4>11, <5>1, <5>2
      <4>13. Has(f, L, w[i])
        BY <4>9, <4>10, <4>11, <4>12 DEF Has
      <4> QED BY <3>2, <4>1, <4>13
    <3> QED BY <3>1, <3>2
  <2>4. SameOrder(e, f) /\ Moved(e, f, L)
    BY <2>2 DEF Eaten
  <2>5. Follows(f, lob')
    BY <1>7, <1>10, <2>3, <2>4, ThinsFollows
  <2> QED BY <2>4, <2>5 DEF Moved
<1> QED BY <1>1, <1>4, <1>7, <1>9, <1>10 DEF Applied, Reported

(***************************************************************************)
(* The inductive invariant of the engine on a well-formed feed.            *)
(***************************************************************************)

\* Every order of the feed in engine e has an id the venue has given out.
IdsUsed(e, u) == \A id \in PublicIds : Public(id) \in DOMAIN e.orders => id \in u

FeedInv ==
  /\ IInv /\ AccountInv /\ Tidy(engine) /\ Covered(engine)
  /\ LobOK(lob, used) /\ IdsUsed(engine, used)
  /\ NothingTaken => Exact(engine) /\ Follows(engine, lob)

LEMMA InitFeedInv ==
  Init => FeedInv
<1> SUFFICES ASSUME Init PROVE FeedInv
  OBVIOUS
<1>1. /\ engine = EmptyEngine /\ lob = [L \in Venue!Levels |-> <<>>] /\ used = {}
      /\ Venue!Levels = Levels
  BY DEF Init, Venue!Init, Venue!Levels, Levels, Venue!BookSides, BookSides
<1>2. /\ engine.book = [L \in Levels |-> 0] /\ engine.queues = [L \in Levels |-> <<>>]
      /\ DOMAIN engine.orders = {}
  BY <1>1 DEF EmptyEngine
<1>3. IInv /\ AccountInv /\ EngineOK(engine)
  BY InitIInv, InitAccountInv DEF IInv, EngineInv
<1>4. Tidy(engine)
  BY <1>2 DEF Tidy
<1>5. ASSUME NEW L \in Levels PROVE engine.book[L] = 0 /\ Volume(engine, L) = 0
  <2>1. engine.queues[L] = <<>>
    BY <1>2
  <2> QED BY <1>2, <1>3, <1>4, <2>1, EmptyLevel
<1>6. Covered(engine) /\ Exact(engine)
  BY <1>5 DEF Covered, Exact
<1>7. LobOK(lob, used)
  <2>1. \A L \in Levels : lob[L] = <<>> /\ Len(lob[L]) = 0 /\ 1..Len(lob[L]) = {}
    BY <1>1
  <2>2. lob \in [Levels -> Seq(Venue!Orders)]
    BY <1>1
  <2> QED BY <1>1, <2>1, <2>2 DEF LobOK
<1>8. IdsUsed(engine, used)
  BY <1>2 DEF IdsUsed
<1>9. Follows(engine, lob)
  <2>1. \A L \in Levels : 1..Len(lob[L]) = {}
    BY <1>1
  <2> QED BY <2>1 DEF Follows
<1> QED BY <1>3, <1>4, <1>6, <1>7, <1>8, <1>9 DEF FeedInv

LEMMA SameBookFollows ==
  ASSUME NEW e, NEW f, SameBook(e, f), NEW b, Follows(e, b)
  PROVE  Follows(f, b)
BY DEF SameBook, Follows, Has

\* What an event of the feed does to the engine and the venue.
LEMMA EventApplied ==
  ASSUME FeedInv, WellFormedFeed, NEW ev \in Events, PublicEvent(ev)
  PROVE  /\ LobOK(lob', used') /\ ev.id \in used' /\ used \subseteq used'
         /\ Applied(engine, engine', Public(ev.id), lob, lob')
<1> DEFINE ts == engine.now + 1
           st == Stamp(ev, ts)
           g == [engine EXCEPT !.now = ts]
           x == Public(ev.id)
           L == ev.level
           n == ev.size
<1>1. /\ EngineInv(engine) /\ Tidy(engine) /\ LobOK(lob, used) /\ IdsUsed(engine, used)
      /\ engine.now \in Nat /\ ts \in Nat
  BY EngineFields DEF FeedInv, IInv, EngineInv
<1>2. /\ ev.id \in PublicIds /\ L \in Levels /\ n \in Sizes
      /\ st.action = ev.action /\ st.id = ev.id /\ st.level = L /\ st.size = n /\ st.ts = ts
  BY DEF Events, Stamp
<1>3. Venue!Report(ev) /\ engine' = ApplyEvent(engine, st)
  BY DEF PublicEvent
<1>4. SameBook(engine, g) /\ EngineInv(g)
  <2>1. g = AdvanceTime(engine, ts)
    BY DEF AdvanceTime
  <2>2. EngineInv(g)
    BY <1>1, <2>1, AdvanceTimeFacts
  <2>3. DOMAIN engine = Fields
    BY <1>1, EngineFields DEF EngineInv
  <2>4. SameBook(engine, g)
    BY <2>3 DEF SameBook, Fields
  <2> QED BY <2>2, <2>4
<1>5. ApplyEvent(engine, st) =
         CASE st.action = "add"    -> Rest(g, x, L, n)
           [] st.action = "cancel" -> CancelPublic(g, st)
           [] st.action = "modify" -> ModifyPublic(g, st)
           [] st.action = "trade"  -> ConsumeLevel(g, L, n, ts)
  BY <1>2 DEF ApplyEvent
<1> HIDE DEF g, st, ts
<1>13. ASSUME Reported(g, engine', ev.id, lob', used')
       PROVE  /\ LobOK(lob', used') /\ ev.id \in used' /\ used \subseteq used'
              /\ Applied(g, engine', x, lob, lob')
  BY <1>13 DEF Reported
<1>6. Tidy(g)
  BY <1>1, <1>4, SameBookFacts
<1> DEFINE Done == Reported(g, engine', ev.id, lob', used')
<1>7. ASSUME ev.action = "add", Venue!Add(ev.id, L, n) PROVE Done
  <2>1. engine' = Rest(g, x, L, n)
    BY <1>2, <1>3, <1>5, <1>7
  <2>2. x \notin DOMAIN g.orders
    <3>1. ev.id \notin used
      BY <1>7 DEF Venue!Add
    <3> QED BY <1>1, <1>2, <1>4, <3>1 DEF IdsUsed, SameBook
  <2>3. Done
    BY <1>1, <1>2, <1>4, <1>6, <1>7, <2>1, <2>2, AddEvent
  <2> QED BY <2>3
<1>8. ASSUME ev.action = "cancel", Venue!Cancel(ev.id, L, n) PROVE Done
  <2>1. engine' = CancelPublic(g, st)
    BY <1>2, <1>3, <1>5, <1>8
  <2>2. Done
    BY <1>1, <1>2, <1>4, <1>6, <1>8, <2>1, CancelEvent
  <2> QED BY <2>2
<1>9. ASSUME ev.action = "modify", Venue!Modify(ev.id, L, n) PROVE Done
  <2>1. engine' = ModifyPublic(g, st)
    BY <1>2, <1>3, <1>5, <1>9
  <2>2. Done
    BY <1>1, <1>2, <1>4, <1>6, <1>9, <2>1, ModifyEvent
  <2> QED BY <2>2
<1>10. ASSUME ev.action = "trade", Venue!Trade(ev.id, L, n) PROVE Done
  <2>1. engine' = ConsumeLevel(g, L, n, ts)
    BY <1>2, <1>3, <1>5, <1>10
  <2>2. Done
    BY <1>1, <1>2, <1>4, <1>6, <1>10, <2>1, TradeEvent
  <2> QED BY <2>2
<1>11. Done
  <2>1. \/ ev.action = "add"    /\ Venue!Add(ev.id, L, n)
        \/ ev.action = "cancel" /\ Venue!Cancel(ev.id, L, n)
        \/ ev.action = "modify" /\ Venue!Modify(ev.id, L, n)
        \/ ev.action = "trade"  /\ Venue!Trade(ev.id, L, n)
    BY <1>3 DEF Venue!Report
  <2> HIDE DEF Done
  <2> QED BY <1>7, <1>8, <1>9, <1>10, <2>1
<1>12. Applied(engine, engine', x, lob, lob')
  <2>1. Applied(g, engine', x, lob, lob')
    BY <1>11, <1>13
  <2>2. (Covered(engine) => Covered(g)) /\ (Exact(engine) => Exact(g))
    BY <1>4, SameBookFacts
  <2>3. Follows(engine, lob) => Follows(g, lob)
    BY <1>4, SameBookFollows
  <2>4. DOMAIN g.orders = DOMAIN engine.orders
    BY <1>4 DEF SameBook
  <2> QED BY <2>1, <2>2, <2>3, <2>4 DEF Applied
<1> QED BY <1>11, <1>12, <1>13

\* What a call of place_limit or place_market with result r does.
Returns(side, n, limit, tif, r) ==
  /\ r = Place(engine, side, n, limit, tif) /\ engine' = r.e
  /\ active' = active \o r.fills /\ r.fills \in Seq(Fills)
  /\ lob' = lob /\ used' = used
  /\ Tidy(r.e) /\ Covered(r.e)
  /\ \A i \in 1..Len(r.fills) :
        r.fills[i].side = side /\ Behind(r.e, side, r.fills[i].price)
  /\ \A x \in DOMAIN r.e.orders : x # Own(engine.nextId) => x \in DOMAIN engine.orders
  /\ Own(engine.nextId) \in DOMAIN r.e.orders =>
        /\ r.e.orders[Own(engine.nextId)].level = <<BookSideOf(side), limit>>
        /\ \A p \in Prices : Within(side, p, limit)
              => r.e.book[<<OppositeBookSide(side), p>>] = 0
  /\ r.fills = <<>> =>
        \/ SameBook(engine, r.e)
        \/ \E rem \in Nat \ {0} : \E f :
              /\ SameBook(engine, f) /\ EngineInv(f) /\ limit \in Prices
              /\ r.e = Rest(f, Own(engine.nextId), <<BookSideOf(side), limit>>, rem)

LEMMA PlacedFacts ==
  ASSUME FeedInv, NEW side \in OrderSides, NEW n \in Sizes, NEW limit,
         limit = NoLimit \/ limit \in Prices, NEW tif, tif = "GTC" => limit \in Prices,
         PlaceOrder(side, n, limit, tif)
  PROVE  \E r : Returns(side, n, limit, tif, r)
<1> DEFINE r == Place(engine, side, n, limit, tif)
<1>1. EngineInv(engine) /\ Tidy(engine) /\ Covered(engine) /\ n \in Nat \ {0}
  BY SizeAssumption DEF FeedInv, IInv, Sizes
<1>2. engine' = r.e /\ active' = active \o r.fills /\ lob' = lob /\ used' = used
  BY DEF PlaceOrder
<1>3. r = Place(engine, side, n, limit, tif)
  OBVIOUS
<1> HIDE DEF r
<1>4. Placed(engine, side, n, limit, r)
  BY <1>1, <1>3, PlaceAccounts
<1>5. r.fills \in Seq(Fills) /\ \A x \in DOMAIN r.e.orders : x # Own(engine.nextId) => x \in DOMAIN engine.orders
  BY <1>4 DEF Placed
<1>6. /\ Tidy(r.e) /\ Covered(r.e)
      /\ \A i \in 1..Len(r.fills) :
            r.fills[i].side = side /\ Behind(r.e, side, r.fills[i].price)
      /\ Own(engine.nextId) \in DOMAIN r.e.orders =>
            /\ r.e.orders[Own(engine.nextId)].level = <<BookSideOf(side), limit>>
            /\ \A p \in Prices : Within(side, p, limit)
                  => r.e.book[<<OppositeBookSide(side), p>>] = 0
      /\ r.fills = <<>> =>
            \/ SameBook(engine, r.e)
            \/ \E rem \in Nat \ {0} : \E f :
                  /\ SameBook(engine, f) /\ EngineInv(f) /\ limit \in Prices
                  /\ r.e = Rest(f, Own(engine.nextId), <<BookSideOf(side), limit>>, rem)
  BY <1>1, <1>3, PlaceSweeps
<1>7. Returns(side, n, limit, tif, r)
  BY <1>2, <1>3, <1>5, <1>6 DEF Returns
<1> QED BY <1>7

LEMMA CancelOwnFollows ==
  ASSUME NEW e, NEW f, NEW id, OnlySize(e, f, Own(id), 0), SameOrder(e, f), NEW b, Follows(e, b)
  PROVE  Follows(f, b)
<1>1. ASSUME NEW L \in Levels, NEW i \in 1..Len(b[L])
      PROVE  Has(f, L, b[L][i])
  <2> DEFINE y == Public(b[L][i].id)
  <2>1. y \in DOMAIN e.orders /\ e.orders[y].level = L /\ e.orders[y].size >= b[L][i].size
    BY DEF Follows, Has
  <2>2. y # Own(id)
    BY DEF Public, Own
  <2>3. y \in DOMAIN f.orders
    BY <2>1, <2>2 DEF OnlySize
  <2>4. f.orders[y].level = e.orders[y].level /\ f.orders[y].size = e.orders[y].size
    BY <2>2, <2>3 DEF OnlySize
  <2> QED BY <2>1, <2>3, <2>4 DEF Has
<1>2. ASSUME NEW L \in Levels, NEW i \in 1..Len(b[L]), NEW j \in 1..Len(b[L]), j < i
      PROVE  Before(f.queues[L], Public(b[L][j].id), Public(b[L][i].id))
  <2> DEFINE x == Public(b[L][i].id)
             y == Public(b[L][j].id)
  <2>1. x \in DOMAIN f.orders /\ y \in DOMAIN f.orders
    BY <1>1 DEF Has
  <2>2. Before(e.queues[L], y, x)
    BY <1>2 DEF Follows
  <2> HIDE DEF x, y
  <2>3. Before(f.queues[L], y, x)
    BY <2>1, <2>2 DEF SameOrder
  <2> QED BY <2>3 DEF x, y
<1> QED BY <1>1, <1>2 DEF Follows

LEMMA NextFeedInv ==
  ASSUME WellFormedFeed
  PROVE  FeedInv /\ [Next]_vars => FeedInv'
<1> SUFFICES ASSUME FeedInv, [Next]_vars PROVE FeedInv'
  OBVIOUS
<1>0. /\ IInv /\ EngineInv(engine) /\ EngineOK(engine) /\ Tidy(engine) /\ Covered(engine)
      /\ LobOK(lob, used) /\ IdsUsed(engine, used)
      /\ active = <<>> => Exact(engine) /\ Follows(engine, lob)
  BY DEF FeedInv, IInv, EngineInv, NothingTaken
<1>1. IInv' /\ EngineOK(engine') /\ AccountInv'
  BY <1>0, NextIInv, NextAccountInv DEF FeedInv, IInv, EngineInv
<1>2. ASSUME NEW ev \in Events, PublicEvent(ev)
      PROVE  FeedInv'
  <2>1. /\ LobOK(lob', used') /\ ev.id \in used' /\ used \subseteq used'
        /\ Applied(engine, engine', Public(ev.id), lob, lob')
    BY <1>2, EventApplied
  <2>2. active' = active
    BY <1>2 DEF PublicEvent
  <2>3. IdsUsed(engine', used')
    <3> SUFFICES ASSUME NEW id \in PublicIds, Public(id) \in DOMAIN engine'.orders
                 PROVE  id \in used'
      BY DEF IdsUsed
    <3>1. Public(id) \in DOMAIN engine.orders \/ Public(id) = Public(ev.id)
      BY <2>1 DEF Applied
    <3>2. Public(id) = Public(ev.id) => id = ev.id
      BY DEF Public
    <3> QED BY <1>0, <2>1, <3>1, <3>2 DEF IdsUsed
  <2>4. Tidy(engine') /\ Covered(engine')
    BY <1>0, <2>1 DEF Applied
  <2>5. active' = <<>> => Exact(engine') /\ Follows(engine', lob')
    BY <1>0, <2>1, <2>2 DEF Applied
  <2> QED BY <1>1, <2>1, <2>3, <2>4, <2>5 DEF FeedInv, NothingTaken
<1>3. ASSUME NEW side \in OrderSides, NEW n \in Sizes, NEW limit,
             limit = NoLimit \/ limit \in Prices, NEW tif, tif = "GTC" => limit \in Prices,
             PlaceOrder(side, n, limit, tif)
      PROVE  FeedInv'
  <2> DEFINE x == Own(engine.nextId)
             L == <<BookSideOf(side), limit>>
  <2>0. PICK r : Returns(side, n, limit, tif, r)
    BY <1>3, PlacedFacts
  <2>1. /\ r = Place(engine, side, n, limit, tif) /\ engine' = r.e
        /\ active' = active \o r.fills /\ r.fills \in Seq(Fills)
        /\ lob' = lob /\ used' = used
        /\ Tidy(r.e) /\ Covered(r.e)
        /\ \A y \in DOMAIN r.e.orders : y # x => y \in DOMAIN engine.orders
        /\ r.fills = <<>> =>
              \/ SameBook(engine, r.e)
              \/ \E rem \in Nat \ {0} : \E f :
                    /\ SameBook(engine, f) /\ EngineInv(f) /\ limit \in Prices
                    /\ r.e = Rest(f, x, L, rem)
    BY <2>0 DEF Returns
  <2>2. IdsUsed(engine', used')
    <3> SUFFICES ASSUME NEW id \in PublicIds, Public(id) \in DOMAIN engine'.orders
                 PROVE  id \in used'
      BY DEF IdsUsed
    <3>1. Public(id) # x
      BY DEF Public, Own
    <3>2. Public(id) \in DOMAIN engine.orders
      BY <2>1, <3>1
    <3> QED BY <1>0, <2>1, <3>2 DEF IdsUsed
  <2>3. ASSUME active' = <<>>
        PROVE  Exact(engine') /\ Follows(engine', lob')
    <3>1. active = <<>> /\ r.fills = <<>>
      <4>1. active \in Seq(Fills) /\ r.fills \in Seq(Fills)
        BY <2>1 DEF FeedInv, AccountInv
      <4>2. Len(active \o r.fills) = 0
        BY <2>1, <2>3
      <4>3. Len(active \o r.fills) = Len(active) + Len(r.fills)
        BY <4>1, ConcatProperties
      <4>4. Len(active) = 0 /\ Len(r.fills) = 0
        BY <4>1, <4>2, <4>3
      <4> QED BY <4>1, <4>4
    <3>2. CASE SameBook(engine, r.e)
      BY <1>0, <2>1, <3>1, <3>2, SameBookFacts, SameBookFollows
    <3>3. CASE \E rem \in Nat \ {0} : \E f :
                  /\ SameBook(engine, f) /\ EngineInv(f) /\ limit \in Prices
                  /\ r.e = Rest(f, x, L, rem)
      <4>1. PICK rem \in Nat \ {0} : \E f :
                  /\ SameBook(engine, f) /\ EngineInv(f) /\ limit \in Prices
                  /\ r.e = Rest(f, x, L, rem)
        BY <3>3
      <4>2. PICK f : /\ SameBook(engine, f) /\ EngineInv(f) /\ limit \in Prices
                     /\ r.e = Rest(f, x, L, rem)
        BY <4>1
      <4>3. Tidy(f) /\ Exact(f) /\ Follows(f, lob) /\ EngineOK(f)
        BY <1>0, <3>1, <4>2, SameBookFacts, SameBookFollows DEF EngineInv
      <4>4. x \in Entries /\ x \notin DOMAIN f.orders /\ L \in Levels
        <5>1. x \notin DOMAIN engine.orders
          BY <1>0, FreshFacts
        <5>2. engine.nextId \in Nat
          BY <1>0, EngineFields
        <5>3. x \in Entries
          BY <5>2, EntryFacts
        <5>4. L \in Levels
          BY <4>2 DEF Levels, BookSides, BookSideOf
        <5> QED BY <4>2, <5>1, <5>3, <5>4 DEF SameBook
      <4> HIDE DEF L
      <4>5. JoinsBack(f, r.e, x, L, rem) /\ Moved(f, r.e, L)
        <5> HIDE DEF x
        <5> QED BY <4>2, <4>3, <4>4, RestJoins
      <4>6. Follows(r.e, lob)
        BY <4>3, <4>4, <4>5, OwnJoinsFollows
      <4>7. Exact(r.e)
        BY <4>3, <4>5 DEF Moved
      <4> QED BY <2>1, <4>6, <4>7
    <3> QED BY <2>1, <3>1, <3>2, <3>3
  <2> QED BY <1>0, <1>1, <2>1, <2>2, <2>3 DEF FeedInv, NothingTaken
<1>4. ASSUME NEW id \in DOMAIN placed, Cancel(id)
      PROVE  FeedInv'
  <2> DEFINE x == Own(id)
             f == CancelOwn(engine, id)
  <2>1. engine' = f /\ lob' = lob /\ used' = used /\ active' = active
    BY <1>4 DEF Cancel
  <2>2. CASE x \notin DOMAIN engine.orders
    <3>1. engine' = engine
      BY <2>1, <2>2 DEF CancelOwn
    <3> QED BY <1>0, <1>1, <2>1, <3>1 DEF FeedInv, NothingTaken
  <2>3. CASE x \in DOMAIN engine.orders
    <3>1. Resized(engine, f, x, 0)
      <4> HIDE DEF f
      <4> QED BY <1>0, <2>3, CancelOwnResizes DEF f
    <3> HIDE DEF f
    <3>2. 0 \in Nat /\ EngineOK(f)
      BY <1>1, <2>1
    <3>3. /\ OnlySize(engine, f, x, 0) /\ SameOrder(engine, f) /\ Tidy(f)
          /\ Moved(engine, f, engine.orders[x].level)
      <4> HIDE DEF x
      <4> QED BY <1>0, <2>3, <3>1, <3>2, ResizedOrders, ResizedBook
    <3>4. Covered(f) /\ (Exact(engine) => Exact(f))
      BY <1>0, <3>3 DEF Moved
    <3>5. Follows(engine, lob) => Follows(f, lob)
      BY <3>3, CancelOwnFollows
    <3>6. IdsUsed(f, used)
      BY <1>0, <3>3 DEF IdsUsed, OnlySize
    <3> QED BY <1>0, <1>1, <2>1, <3>3, <3>4, <3>5, <3>6 DEF FeedInv, NothingTaken
  <2> QED BY <2>2, <2>3
<1>5. ASSUME SameBook(engine, engine'), lob' = lob, used' = used, active' = active
      PROVE  FeedInv'
  <2>1. Tidy(engine') /\ Covered(engine') /\ (Exact(engine) => Exact(engine'))
    BY <1>0, <1>5, SameBookFacts
  <2>2. Follows(engine, lob) => Follows(engine', lob)
    BY <1>5, SameBookFollows
  <2>3. IdsUsed(engine', used)
    BY <1>0, <1>5 DEF IdsUsed, SameBook
  <2> QED BY <1>0, <1>1, <1>5, <2>1, <2>2, <2>3 DEF FeedInv, NothingTaken
<1>6. ASSUME NEW ts \in 0..MaxNow, Tick(ts)
      PROVE  FeedInv'
  <2>1. SameBook(engine, engine')
    <3>1. DOMAIN engine = Fields /\ engine' = [engine EXCEPT !.now = ts]
      BY <1>0, <1>6, EngineFields DEF Tick, AdvanceTime
    <3> QED BY <3>1 DEF SameBook, Fields
  <2> QED BY <1>5, <1>6, <2>1 DEF Tick
<1>7. CASE Pop
  <2>1. SameBook(engine, engine')
    <3>1. DOMAIN engine = Fields /\ engine' = [engine EXCEPT !.fills = <<>>]
      BY <1>0, <1>7, EngineFields DEF Pop, PopPassiveFills
    <3> QED BY <3>1 DEF SameBook, Fields
  <2> QED BY <1>5, <1>7, <2>1 DEF Pop
<1>8. CASE UNCHANGED vars
  <2>1. SameBook(engine, engine')
    BY <1>8 DEF vars, SameBook
  <2> QED BY <1>5, <1>8, <2>1 DEF vars
<1>9. ASSUME NEW side \in OrderSides, NEW n \in Sizes, NEW price \in Prices,
             NEW tif \in Tifs, PlaceLimit(side, n, price, tif)
      PROVE  FeedInv'
  BY <1>3, <1>9 DEF PlaceLimit
<1>10. ASSUME NEW side \in OrderSides, NEW n \in Sizes, PlaceMarket(side, n)
       PROVE  FeedInv'
  BY <1>3, <1>10 DEF PlaceMarket
<1> QED BY <1>2, <1>4, <1>6, <1>7, <1>8, <1>9, <1>10 DEF Next, StrategyNext

LEMMA SpecFeedInv ==
  ASSUME WellFormedFeed
  PROVE  Spec => []FeedInv
BY InitFeedInv, NextFeedInv, PTL DEF Spec


\* An order of the queue counts with the size it has among the orders.
LEMMA QueueVolume ==
  ASSUME EngineOK(engine), Tidy(engine), NEW L \in Levels
  PROVE  QueueTotal(L) = Volume(engine, L)
<1> DEFINE q == engine.queues[L]
           S == Standing(engine, L)
           f == SizesOf(engine, S)
           g == [i \in DOMAIN q |-> SizeOf(engine, q[i])]
<1>1. q \in Seq(Entries) /\ DOMAIN q = 1..Len(q)
  BY EngineFields
<1>2. \A i \in DOMAIN q : q[i] \in S /\ q[i] \in DOMAIN engine.orders
  BY <1>1 DEF Tidy, Standing
<1>3. \A i, j \in DOMAIN q : q[i] = q[j] => i = j
  <2> SUFFICES ASSUME NEW i \in DOMAIN q, NEW j \in DOMAIN q, q[i] = q[j] PROVE i = j
    OBVIOUS
  <2>1. engine.orders[q[i]].level = L /\ q[i] \in DOMAIN engine.orders
    BY <1>2 DEF Standing
  <2>2. StandsOnce(q, q[i])
    BY <2>1 DEF Tidy
  <2> QED BY <1>1, <2>2 DEF StandsOnce
<1>4. \A x \in S : \E i \in DOMAIN q : q[i] = x
  BY <1>1 DEF Tidy, Standing, StandsOnce
<1>5. Summable(f) /\ DOMAIN f = S /\ \A x \in S : f[x] = engine.orders[x].size
  BY StandingFacts DEF SizesOf
<1>6. DOMAIN g = DOMAIN q /\ \A i \in DOMAIN q : g[i] = f[q[i]]
  BY <1>2, <1>5 DEF SizeOf
<1>7. q \in [DOMAIN q -> DOMAIN f]
  BY <1>1, <1>2, <1>5
<1> HIDE DEF q, S, f, g
<1>8. Total(g) = Total(f)
  BY <1>3, <1>4, <1>5, <1>6, <1>7, TotalBijection
<1> QED BY <1>8 DEF QueueTotal, Volume, q, S, f, g

(***************************************************************************)
(* Theorems.                                                               *)
(***************************************************************************)

(* As long as the strategy only rests orders, the visible size of every level *)
(* is what the orders of its queue add up to, for every feed a venue can      *)
(* report (matching_engine.py, bids and asks against _queues,                 *)
(* public_orders and _own_orders: every mutation updates them separately).    *)
THEOREM BookIsItsQueues ==
  ASSUME WellFormedFeed
  PROVE  Spec => []LevelSizesMatchQueues
<1>1. FeedInv => LevelSizesMatchQueues
  BY QueueVolume DEF FeedInv, IInv, EngineInv, Exact, LevelSizesMatchQueues
<1> QED BY <1>1, SpecFeedInv, PTL

(* As long as the strategy only rests orders, every order the venue still has *)
(* is in the engine, at its level and at least as large: the feed never       *)
(* reaches the unknown-order branches of apply_event (matching_engine.py,     *)
(* _apply_cancel and _apply_modify).                                          *)
THEOREM VenueOrdersAreKnown ==
  ASSUME WellFormedFeed
  PROVE  Spec => []FeedOrdersKnown
<1>1. FeedInv => FeedOrdersKnown
  <2> SUFFICES ASSUME FeedInv, NothingTaken, NEW L \in Levels, NEW i \in DOMAIN lob[L]
               PROVE  Has(engine, L, lob[L][i])
    BY DEF FeedOrdersKnown, Has
  <2>1. i \in 1..Len(lob[L])
    BY DEF FeedInv, LobOK
  <2> QED BY <2>1 DEF FeedInv, Follows
<1> QED BY <1>1, SpecFeedInv, PTL

\* Without a venue the feed's book stays empty.
LEMMA FeedTyped ==
  Spec => []Venue!TypeOK
<1>1. CASE WellFormedFeed
  <2>1. FeedInv => Venue!TypeOK
    BY DEF FeedInv, LobOK, Venue!TypeOK, Venue!Levels, Levels, Venue!BookSides, BookSides
  <2> QED BY <1>1, <2>1, SpecFeedInv, PTL
<1>2. CASE ~WellFormedFeed
  <2>1. Init => Venue!TypeOK
    BY DEF Init, Venue!Init, Venue!TypeOK
  <2>2. Venue!TypeOK /\ [Next]_vars => Venue!TypeOK'
    <3> SUFFICES ASSUME Venue!TypeOK, [Next]_vars PROVE lob' = lob /\ used' = used
      BY DEF Venue!TypeOK
    <3> USE DEF feedVars
    <3>1. ASSUME NEW ev \in Events, PublicEvent(ev) PROVE lob' = lob /\ used' = used
      BY <1>2, <3>1 DEF PublicEvent
    <3>2. CASE StrategyNext
      BY <3>2 DEF StrategyNext, PlaceLimit, PlaceMarket, PlaceOrder, Cancel
    <3>3. CASE \E ts \in 0..MaxNow : Tick(ts)
      BY <3>3 DEF Tick
    <3>4. CASE Pop
      BY <3>4 DEF Pop
    <3>5. CASE UNCHANGED vars
      BY <3>5 DEF vars
    <3> QED BY <3>1, <3>2, <3>3, <3>4, <3>5 DEF Next
  <2> QED BY <2>1, <2>2, PTL DEF Spec
<1> QED BY <1>1, <1>2

(* Types of the engine, the feed and the histories, on every feed: among them *)
(* no negative level size, no empty order and no order at a price outside the *)
(* book (matching_engine.py, _remove_from_book and _consume_level).           *)
THEOREM StatesAreTyped ==
  Spec => []TypeOK
<1>1. IInv /\ AccountInv /\ Venue!TypeOK => TypeOK
  <2> SUFFICES ASSUME IInv, AccountInv, Venue!TypeOK PROVE TypeOK
    OBVIOUS
  <2>1. EngineOK(engine)
    BY DEF IInv, EngineInv
  <2>2. {active, delivered, popped} \subseteq Seq(Fills)
    BY DEF AccountInv
  <2>3. DOMAIN placed = FirstOwnId..(engine.nextId - 1)
    BY DEF IInv, IdsPlaced
  <2> QED BY <2>1, <2>2, <2>3 DEF TypeOK
<1> QED BY <1>1, FeedTyped, SpecAccounts, PTL

\* Only a call of place_limit or place_market adds to active or rests an order of
\* the strategy.
LEMMA OnlyPlaced ==
  ASSUME WellFormedFeed, FeedInv, [Next]_vars
  PROVE  \/ active' = active /\ OwnOrders(engine') \subseteq OwnOrders(engine)
         \/ \E side \in OrderSides, n \in Sizes, limit \in Prices \cup {NoLimit}, tif \in Tifs :
               /\ tif = "GTC" => limit \in Prices
               /\ PlaceOrder(side, n, limit, tif)
<1> DEFINE Idle == active' = active /\ OwnOrders(engine') \subseteq OwnOrders(engine)
           Call == \E side \in OrderSides, n \in Sizes, limit \in Prices \cup {NoLimit},
                      tif \in Tifs :
                      /\ tif = "GTC" => limit \in Prices
                      /\ PlaceOrder(side, n, limit, tif)
<1> SUFFICES Idle \/ Call
  OBVIOUS
<1>1. EngineInv(engine) /\ DOMAIN engine = Fields /\ DOMAIN engine.orders \subseteq Entries
  BY EngineFields DEF FeedInv, IInv, EngineInv
<1>2. ASSUME active' = active, engine'.orders = engine.orders
      PROVE  Idle
  BY <1>2 DEF OwnOrders
<1>3. ASSUME NEW ev \in Events, PublicEvent(ev)
      PROVE  Idle
  <2>1. DOMAIN engine'.orders \subseteq DOMAIN engine.orders \cup {Public(ev.id)}
    BY <1>3, EventApplied DEF Applied
  <2>2. ~IsOwn(Public(ev.id))
    BY DEF IsOwn, Public
  <2> QED BY <1>3, <2>1, <2>2 DEF OwnOrders, PublicEvent
<1>4. ASSUME NEW id \in DOMAIN placed, Cancel(id)
      PROVE  Idle
  <2>1. DOMAIN engine'.orders \subseteq DOMAIN engine.orders
    BY <1>1, <1>4 DEF Cancel, CancelOwn, Drop, Fields
  <2> QED BY <1>4, <2>1 DEF Cancel, OwnOrders
<1>5. ASSUME NEW ts \in 0..MaxNow, Tick(ts) PROVE Idle
  BY <1>1, <1>2, <1>5 DEF Tick, AdvanceTime, Fields
<1>6. CASE Pop
  BY <1>1, <1>2, <1>6 DEF Pop, PopPassiveFills, Fields
<1>7. CASE UNCHANGED vars
  BY <1>2, <1>7 DEF vars
<1>8. ASSUME NEW side \in OrderSides, NEW n \in Sizes, NEW price \in Prices, NEW tif \in Tifs,
             PlaceLimit(side, n, price, tif)
      PROVE  Call
  BY <1>8 DEF PlaceLimit
<1>9. ASSUME NEW side \in OrderSides, NEW n \in Sizes, PlaceMarket(side, n)
      PROVE  Call
  <2>1. "IOC" \in Tifs /\ ("IOC" = "GTC" => NoLimit \in Prices)
    BY DEF Tifs
  <2> QED BY <1>9, <2>1 DEF PlaceMarket
<1> HIDE DEF Idle, Call
<1> QED BY <1>3, <1>4, <1>5, <1>6, <1>7, <1>8, <1>9 DEF Next, StrategyNext

(* No trade-through: when place_limit or place_market returns fills, no       *)
(* strictly better price on the side it hit is left in the book               *)
(* (matching_engine.py, _match_active_order and _price_levels).               *)
THEOREM NothingTradedThrough ==
  ASSUME WellFormedFeed
  PROVE  Spec => NoTradeThrough
<1> DEFINE Clean == \A i \in (Len(active) + 1)..Len(active') :
                       LET f == active'[i]
                       IN  \A p \in Prices \ {f.price} :
                              AtLeastAsGood(f.side, p, f.price)
                                 => engine'.book[<<OppositeBookSide(f.side), p>>] = 0
<1>1. FeedInv /\ [Next]_vars => Clean
  <2> SUFFICES ASSUME FeedInv, [Next]_vars, NEW i \in (Len(active) + 1)..Len(active')
               PROVE  Behind(engine', active'[i].side, active'[i].price)
    BY DEF Behind
  <2>1. active \in Seq(Fills) /\ Len(active) \in Nat
    BY DEF FeedInv, AccountInv
  <2>2. CASE active' = active
    BY <2>1, <2>2
  <2>3. CASE \E side \in OrderSides, n \in Sizes, limit \in Prices \cup {NoLimit},
                tif \in Tifs :
               /\ tif = "GTC" => limit \in Prices
               /\ PlaceOrder(side, n, limit, tif)
    <3>1. PICK side \in OrderSides, n \in Sizes, limit \in Prices \cup {NoLimit},
               tif \in Tifs :
               /\ tif = "GTC" => limit \in Prices
               /\ PlaceOrder(side, n, limit, tif)
      BY <2>3
    <3>2. PICK r : Returns(side, n, limit, tif, r)
      BY <3>1, PlacedFacts
    <3>4. /\ engine' = r.e /\ active' = active \o r.fills /\ r.fills \in Seq(Fills)
          /\ \A k \in 1..Len(r.fills) :
                r.fills[k].side = side /\ Behind(r.e, side, r.fills[k].price)
      BY <3>2 DEF Returns
    <3> DEFINE j == i - Len(active)
    <3>3. /\ Len(active') = Len(active) + Len(r.fills) /\ Len(r.fills) \in Nat
          /\ j \in 1..Len(r.fills) /\ active'[i] = r.fills[j]
      BY <2>1, <3>4, ConcatProperties
    <3> QED BY <3>3, <3>4
  <2> QED BY <2>2, <2>3, OnlyPlaced
<1> HIDE DEF Clean
<1>2. Spec => [][Clean]_vars
  BY <1>1, InitFeedInv, NextFeedInv, PTL DEF Spec
<1> QED BY <1>2 DEF Clean, NoTradeThrough

(* A remainder rests only when nothing it could have matched is left: the     *)
(* strategy's own order never crosses the book it joins                       *)
(* (matching_engine.py, place_limit: _match_active_order, then                *)
(* _rest_own_order).                                                          *)
THEOREM RemaindersRestUncrossed ==
  ASSUME WellFormedFeed
  PROVE  Spec => RestsUncrossed
<1> DEFINE Uncrossed == \A x \in OwnOrders(engine') \ OwnOrders(engine) :
                           LET L == engine'.orders[x].level
                               side == OrderSideOf(L[1])
                           IN  \A p \in Prices :
                                  AtLeastAsGood(side, p, L[2])
                                     => engine'.book[<<OppositeBookSide(side), p>>] = 0
<1>1. FeedInv /\ [Next]_vars => Uncrossed
  <2> SUFFICES ASSUME FeedInv, [Next]_vars, NEW x \in OwnOrders(engine') \ OwnOrders(engine)
               PROVE  LET L == engine'.orders[x].level
                          side == OrderSideOf(L[1])
                      IN  \A p \in Prices :
                             AtLeastAsGood(side, p, L[2])
                                => engine'.book[<<OppositeBookSide(side), p>>] = 0
    OBVIOUS
  <2>1. PICK side \in OrderSides, n \in Sizes, limit \in Prices \cup {NoLimit}, tif \in Tifs :
               /\ tif = "GTC" => limit \in Prices
               /\ PlaceOrder(side, n, limit, tif)
    BY OnlyPlaced
  <2> DEFINE z == Own(engine.nextId)
             M == <<BookSideOf(side), limit>>
             Rests(e) == /\ \A y \in DOMAIN e.orders : y # z => y \in DOMAIN engine.orders
                         /\ z \in DOMAIN e.orders =>
                               /\ e.orders[z].level = M
                               /\ \A p \in Prices : Within(side, p, limit)
                                     => e.book[<<OppositeBookSide(side), p>>] = 0
  <2>2. Rests(engine')
    <3>1. PICK r : Returns(side, n, limit, tif, r)
      BY <2>1, PlacedFacts
    <3>2. engine' = r.e /\ Rests(r.e)
      BY <3>1 DEF Returns
    <3> HIDE DEF Rests
    <3> QED BY <3>2
  <2>3. x = z /\ x \in DOMAIN engine'.orders
    BY <2>2 DEF OwnOrders
  <2>4. OrderSideOf(BookSideOf(side)) = side
    BY DEF OrderSideOf, BookSideOf, OrderSides
  <2> QED BY <2>2, <2>3, <2>4 DEF Within
<1> HIDE DEF Uncrossed
<1>2. Spec => [][Uncrossed]_vars
  BY <1>1, InitFeedInv, NextFeedInv, PTL DEF Spec
<1> QED BY <1>2 DEF Uncrossed, RestsUncrossed

(***************************************************************************)
(* The engine is the venue as long as no strategy order was placed.        *)
(***************************************************************************)

\* What rests in queue q of the venue.
Weight(q) == Venue!Prefix(q, Len(q))

\* n has come on top of the weight of queue q, in queue w.
Heavier(w, q, n) == Weight(q) \in Int /\ Weight(w) = Weight(q) + n

(* Prefix sums read sizes only.                                            *)
LEMMA PrefixSame ==
  ASSUME NEW q, NEW w, NEW i \in Nat, \A j \in 1..i : w[j].size = q[j].size
  PROVE  Venue!Prefix(w, i) = Venue!Prefix(q, i)
<1>1. [j \in 1..i |-> w[j].size] = [j \in 1..i |-> q[j].size]
  OBVIOUS
<1> QED BY <1>1 DEF Venue!Prefix

LEMMA AppendWeight ==
  ASSUME NEW q \in Seq(Venue!Orders), NEW o \in Venue!Orders
  PROVE  Heavier(Append(q, o), q, o.size)
<1> DEFINE w == Append(q, o)
           n == Len(q)
<1>1. /\ w \in Seq(Venue!Orders) /\ Len(w) = n + 1 /\ n \in Nat /\ w[n + 1] = o
      /\ \A j \in 1..n : w[j] = q[j]
  OBVIOUS
<1> HIDE DEF w, n
<1>2. Venue!Prefix(w, n) = Venue!Prefix(q, n)
  BY <1>1, PrefixSame
<1>3. n + 1 \in 0..Len(w) /\ n + 1 # 0 /\ n + 1 - 1 = n
  BY <1>1
<1>4. Venue!Prefix(w, n + 1) = Venue!Prefix(w, n + 1 - 1) + w[n + 1].size
  BY <1>1, <1>3, PrefixFacts
<1>5. Venue!Prefix(q, n) \in Nat
  BY <1>1, PrefixFacts DEF n
<1>6. Weight(w) = Venue!Prefix(q, n) + o.size
  BY <1>1, <1>2, <1>3, <1>4 DEF Weight
<1> QED BY <1>5, <1>6 DEF Weight, Heavier, w, n

\* The prefix sum of a queue is the total of its sizes.
LEMMA WeightTotal ==
  ASSUME NEW q \in Seq(Venue!Orders)
  PROVE  LET g == [j \in 1..Len(q) |-> q[j].size]
         IN  /\ Weight(q) = Total(g) /\ Summable(g) /\ Weight(q) \in Nat
             /\ \A j \in 1..Len(q) : g[j] \in Sizes /\ g[j] \in Nat
<1> DEFINE g == [j \in 1..Len(q) |-> q[j].size]
<1>1. Weight(q) = Total(g)
  BY DEF Weight, Venue!Prefix, Venue!Total, Total, MapThenSumSet, Venue!MapThenSumSet,
         MapThenFoldSet, Venue!MapThenFoldSet
<1>2. \A j \in 1..Len(q) : g[j] = q[j].size
  OBVIOUS
<1>3. ASSUME NEW j \in 1..Len(q) PROVE g[j] \in Sizes /\ g[j] \in Nat
  <2>1. q[j] \in Venue!Orders
    OBVIOUS
  <2> QED BY <1>2, <2>1, SizeAssumption DEF Venue!Orders, Sizes
<1>4. Summable(g)
  <2>1. 1 \in Int /\ Len(q) \in Int
    OBVIOUS
  <2>2. IsFiniteSet(1..Len(q))
    BY <2>1, FS_Interval
  <2> QED BY <1>3, <2>2 DEF Summable
<1>5. \A j \in DOMAIN g : g[j] \in Nat
  BY <1>3
<1> HIDE DEF g
<1>6. Total(g) \in Nat
  BY <1>4, <1>5, TotalNat
<1> QED BY <1>1, <1>3, <1>4, <1>6 DEF g

LEMMA SizedWeight ==
  ASSUME NEW q \in Seq(Venue!Orders), NEW k \in 1..Len(q), NEW n \in Sizes
  PROVE  Heavier([q EXCEPT ![k].size = n], q, n - q[k].size)
<1> DEFINE w == [q EXCEPT ![k].size = n]
           g == [j \in 1..Len(q) |-> q[j].size]
           h == [j \in 1..Len(w) |-> w[j].size]
<1>1. q[k] \in Venue!Orders /\ n \in Nat
  BY DEF Sizes
<1>2. q[k].size \in Sizes /\ q[k].size \in Nat /\ [q[k] EXCEPT !.size = n] \in Venue!Orders
  BY <1>1 DEF Venue!Orders, Sizes
<1>3. w = [q EXCEPT ![k] = [q[k] EXCEPT !.size = n]]
  OBVIOUS
<1>4. w \in Seq(Venue!Orders) /\ Len(w) = Len(q)
  BY <1>2, <1>3
<1>5. \A j \in 1..Len(q) : w[j].size = IF j = k THEN n ELSE q[j].size
  <2>1. q[k] = [id |-> q[k].id, size |-> q[k].size]
    BY <1>1 DEF Venue!Orders
  <2>2. [q[k] EXCEPT !.size = n].size = n
    BY <2>1
  <2>3. w[k] = [q[k] EXCEPT !.size = n] /\ \A j \in 1..Len(q) : j # k => w[j] = q[j]
    BY <1>3
  <2> HIDE DEF w
  <2> QED BY <2>2, <2>3
<1> HIDE DEF w
<1>6. Weight(q) = Total(g) /\ Summable(g) /\ Weight(q) \in Nat
  BY WeightTotal
<1>7. Weight(w) = Total(h)
  BY <1>4, WeightTotal
<1>8. /\ DOMAIN g = 1..Len(q) /\ DOMAIN h = DOMAIN g /\ k \in DOMAIN g
      /\ g[k] = q[k].size /\ h[k] = n /\ h[k] \in Int
      /\ \A j \in DOMAIN g : j # k => h[j] = g[j]
  BY <1>1, <1>4, <1>5
<1> HIDE DEF g, h
<1>9. Total(h) = Total(g) - g[k] + h[k]
  BY <1>6, <1>8, TotalUpdate
<1>10. Weight(w) = Weight(q) - q[k].size + n
  BY <1>6, <1>7, <1>8, <1>9
<1> DEFINE a == q[k].size
           z == Weight(q)
<1>11. a \in Nat /\ z \in Nat /\ Weight(w) = z - a + n
  BY <1>2, <1>6, <1>10
<1> HIDE DEF a, z
<1>12. z \in Int /\ Weight(w) = z + (n - a)
  BY <1>1, <1>11
<1> QED BY <1>12 DEF Heavier, w, a, z

LEMMA RemovedWeight ==
  ASSUME NEW q \in Seq(Venue!Orders), NEW k \in 1..Len(q)
  PROVE  Heavier(q, Venue!Removed(q, k), q[k].size)
<1> DEFINE w == Venue!Removed(q, k)
           g == [j \in 1..Len(q) |-> q[j].size]
           h == [j \in 1..Len(w) |-> w[j].size]
           S == (1..Len(q)) \ {k}
           r == [j \in S |-> q[j].size]
           p == [i \in 1..Len(w) |-> IF i < k THEN i ELSE i + 1]
<1>1. w \in Seq(Venue!Orders) /\ Len(w) = Len(q) - 1
      /\ \A i \in 1..Len(w) : w[i] = IF i < k THEN q[i] ELSE q[i + 1]
  BY RemovedShape
<1> HIDE DEF w
<1>2. Len(q) \in Nat /\ k \in Nat /\ k >= 1 /\ k <= Len(q)
  OBVIOUS
<1>3. /\ Weight(q) = Total(g) /\ Summable(g) /\ Weight(w) = Total(h) /\ Weight(w) \in Nat
  BY <1>1, WeightTotal
<1>4. Summable(r) /\ Total(g) = Total(r) + g[k]
  <2>1. k \in DOMAIN g /\ DOMAIN r = DOMAIN g \ {k} /\ \A j \in DOMAIN r : r[j] = g[j]
    OBVIOUS
  <2> HIDE DEF g, r
  <2> QED BY <1>3, <2>1, TotalRemove
<1>5. p \in [1..Len(w) -> S] /\ \A i \in 1..Len(w) : p[i] = IF i < k THEN i ELSE i + 1
  BY <1>1, <1>2
<1> HIDE DEF p
<1>6. \A i, j \in 1..Len(w) : p[i] = p[j] => i = j
  BY <1>1, <1>2, <1>5
<1>7. ASSUME NEW j \in S PROVE \E i \in 1..Len(w) : p[i] = j
  <2>1. CASE j < k
    <3>1. j \in 1..Len(w) /\ p[j] = j
      BY <1>1, <1>2, <1>5, <2>1
    <3> QED BY <3>1
  <2>2. CASE ~(j < k)
    <3>1. j - 1 \in 1..Len(w) /\ ~(j - 1 < k) /\ (j - 1) + 1 = j
      BY <1>1, <1>2, <2>2
    <3>2. p[j - 1] = j
      BY <1>5, <3>1
    <3> QED BY <3>1, <3>2
  <2> QED BY <2>1, <2>2
<1>8. \A i \in 1..Len(w) : h[i] = r[p[i]]
  BY <1>1, <1>5
<1>9. DOMAIN r = S /\ DOMAIN h = 1..Len(w) /\ g[k] = q[k].size
  OBVIOUS
<1> HIDE DEF r, h, g, S
<1>10. Total(h) = Total(r)
  <2>1. p \in [1..Len(w) -> DOMAIN r]
    BY <1>5, <1>9
  <2>2. \A j \in DOMAIN r : \E i \in 1..Len(w) : p[i] = j
    BY <1>7, <1>9
  <2> QED BY ONLY <1>4, <1>6, <1>8, <1>9, <2>1, <2>2, TotalBijection
<1> QED BY <1>3, <1>4, <1>9, <1>10 DEF Heavier, w

LEMMA AfterTradeWeight ==
  ASSUME NEW q \in Seq(Venue!Orders), NEW n \in Nat, n <= Weight(q)
  PROVE  Heavier(q, Venue!AfterTrade(q, n), n)
<1> DEFINE w == Venue!AfterTrade(q, n)
           F(i) == Venue!Prefix(q, i)
           G(i) == Venue!Prefix(w, i)
<1>1. w \in Seq(Venue!Orders)
  BY AfterTradeFacts DEF Picks
<1>2. PICK k : Leaves(q, n, w, k)
  BY AfterTradeLeaves
<1>3. /\ k \in 0..Len(q) /\ F(k) <= n
      /\ w = [i \in 1..(Len(q) - k) |->
                IF i = 1 THEN [q[k + 1] EXCEPT !.size = F(k + 1) - n] ELSE q[k + i]]
  BY <1>2 DEF Leaves
<1>4. /\ F(0) = 0
      /\ \A i \in 0..Len(q) : /\ F(i) \in Nat
                              /\ i # 0 => q[i].size \in Nat /\ F(i) = F(i - 1) + q[i].size
  BY PrefixFacts DEF Sizes
<1>5. /\ G(0) = 0
      /\ \A i \in 0..Len(w) : /\ G(i) \in Nat
                              /\ i # 0 => w[i].size \in Nat /\ G(i) = G(i - 1) + w[i].size
  BY <1>1, PrefixFacts DEF Sizes
<1>6. Weight(q) = F(Len(q)) /\ Weight(w) = G(Len(w))
  BY DEF Weight
<1> HIDE DEF w, F, G
<1>7. Len(q) \in Nat /\ k \in Nat /\ k <= Len(q) /\ Len(w) \in Nat /\ Len(w) = Len(q) - k
  <2>1. Len(q) \in Nat /\ k \in Nat /\ k <= Len(q) /\ Len(q) - k \in Nat
    BY <1>3
  <2>2. DOMAIN w = 1..(Len(q) - k)
    BY <1>3
  <2> QED BY <1>1, <2>1, <2>2
<1>8. ASSUME NEW i \in 1..Len(w)
      PROVE  w[i].size = IF i = 1 THEN F(k + 1) - n ELSE q[k + i].size
  <2>1. CASE i = 1
    <3>1. k + 1 \in 1..Len(q) /\ i \in 1..(Len(q) - k)
      BY <1>7, <2>1
    <3>2. q[k + 1] \in Venue!Orders
      BY <3>1
    <3>3. q[k + 1] = [id |-> q[k + 1].id, size |-> q[k + 1].size]
      BY <3>2 DEF Venue!Orders
    <3>4. w[i] = [q[k + 1] EXCEPT !.size = F(k + 1) - n]
      BY <1>3, <2>1, <3>1
    <3> QED BY <2>1, <3>3, <3>4
  <2>2. CASE i # 1
    BY <1>3, <1>7, <2>2
  <2> QED BY <2>1, <2>2
<1> DEFINE S == {i \in Nat : i # 0 /\ i <= Len(w) => G(i) = F(k + i) - n}
<1>9. 0 \in S
  OBVIOUS
<1>10. ASSUME NEW i \in S PROVE i + 1 \in S
  <2>1. i \in Nat /\ i + 1 \in Nat /\ i + 1 # 0 /\ (i # 0 /\ i <= Len(w) => G(i) = F(k + i) - n)
    OBVIOUS
  <2> HIDE DEF S
  <2>2. ASSUME i + 1 <= Len(w) PROVE G(i + 1) = F(k + (i + 1)) - n
    <3>1. /\ i + 1 \in 1..Len(w) /\ i + 1 \in 0..Len(w) /\ i <= Len(w) /\ i \in 0..Len(w)
          /\ (i + 1) - 1 = i /\ k + (i + 1) \in 0..Len(q) /\ k + (i + 1) # 0
          /\ (k + (i + 1)) - 1 = k + i /\ k + i \in 0..Len(q)
      BY <1>7, <2>1, <2>2
    <3>2. G(i + 1) = G(i) + w[i + 1].size
      BY <1>5, <3>1
    <3>3. F(k + (i + 1)) = F(k + i) + q[k + (i + 1)].size /\ F(k + (i + 1)) \in Nat
          /\ q[k + (i + 1)].size \in Nat /\ F(k + i) \in Nat
      BY <1>4, <3>1
    <3>4. CASE i = 0
      <4>1. w[i + 1].size = F(k + (i + 1)) - n
        BY <1>8, <3>1, <3>4
      <4>2. G(i) = 0
        BY <1>5, <3>4
      <4> DEFINE a == F(k + (i + 1))
      <4>3. G(i + 1) = 0 + (a - n) /\ a \in Nat
        BY <3>2, <3>3, <4>1, <4>2
      <4> HIDE DEF a
      <4>4. G(i + 1) = a - n
        BY <4>3
      <4> QED BY <4>4 DEF a
    <3>5. CASE i # 0
      <4>1. w[i + 1].size = q[k + (i + 1)].size
        <5>1. i + 1 # 1
          BY <2>1, <3>5
        <5> QED BY <1>8, <3>1, <5>1
      <4>2. G(i) = F(k + i) - n
        BY <2>1, <3>1, <3>5
      <4> DEFINE a == F(k + i)
                 z == q[k + (i + 1)].size
                 y == F(k + (i + 1))
      <4>3. G(i + 1) = (a - n) + z /\ y = a + z /\ a \in Nat /\ z \in Nat
        BY <3>2, <3>3, <4>1, <4>2
      <4> HIDE DEF a, z, y
      <4>4. G(i + 1) = y - n
        BY <4>3
      <4> QED BY <4>4 DEF y
    <3> QED BY <3>4, <3>5
  <2> QED BY <2>1, <2>2 DEF S
<1>11. S = Nat
  <2>1. S \in SUBSET Nat
    OBVIOUS
  <2> HIDE DEF S
  <2> QED BY <1>9, <1>10, <2>1, SetInduction
<1>12. Weight(q) \in Nat /\ Weight(w) \in Nat
  BY <1>1, WeightTotal
<1>13. CASE Len(w) = 0
  <2>1. k = Len(q)
    BY <1>7, <1>13
  <2>2. Weight(q) <= n /\ Weight(w) = 0
    BY <1>3, <1>5, <1>6, <1>13, <2>1
  <2>3. Weight(q) = 0 + n
    BY <1>12, <2>2
  <2> QED BY <1>12, <2>2, <2>3 DEF Heavier, w
<1>14. CASE Len(w) # 0
  <2>1. Len(w) \in S /\ Len(w) <= Len(w) /\ k + Len(w) = Len(q)
    BY <1>7, <1>11
  <2>2. Weight(w) = Weight(q) - n
    BY <1>6, <1>14, <2>1
  <2>3. Weight(q) = Weight(w) + n
    BY <1>12, <2>2
  <2> QED BY <1>12, <2>3 DEF Heavier, w
<1> QED BY <1>13, <1>14

\* The visible size of every level is what rests there at the venue.
Weighs(e, b) == \A L \in Levels : e.book[L] = Weight(b[L])

\* Order by order, the queue of level L is that of the venue.
SameQueue(e, b, L) ==
  /\ Len(e.queues[L]) = Len(b[L])
  /\ \A i \in 1..Len(b[L]) :
        LET x == Public(b[L][i].id)
        IN  /\ e.queues[L][i] = x /\ x \in DOMAIN e.orders
            /\ e.orders[x].level = L /\ e.orders[x].size = b[L][i].size

\* The orders of level L are those of the venue, with the same sizes.
SameSizes(e, b, L) ==
  /\ \A i \in 1..Len(b[L]) : e.orders[Public(b[L][i].id)].size = b[L][i].size
  /\ \A y \in Standing(e, L) : \E i \in 1..Len(b[L]) : y = Public(b[L][i].id)

(* An engine that has at least what the venue has, and shows no more, has    *)
(* exactly what the venue has.                                             *)
LEMMA WeighsSizes ==
  ASSUME NEW e, EngineOK(e), Tidy(e), NEW b, NEW u, LobOK(b, u), Follows(e, b),
         NEW L \in Levels, Volume(e, L) = Weight(b[L])
  PROVE  SameSizes(e, b, L)
<1> DEFINE q == b[L]
           n == Len(q)
           g == [j \in 1..n |-> q[j].size]
           p == [j \in 1..n |-> Public(q[j].id)]
           h == [j \in 1..n |-> e.orders[p[j]].size]
           R == {p[j] : j \in 1..n}
           F == SizesOf(e, R)
           V == SizesOf(e, Standing(e, L))
<1>1. q \in Seq(Venue!Orders) /\ n \in Nat
  BY DEF LobOK
<1>2. ASSUME NEW j \in 1..n
      PROVE  /\ p[j] = Public(q[j].id) /\ p[j] \in Standing(e, L)
             /\ e.orders[p[j]].size >= q[j].size
  BY DEF Follows, Has, Standing
<1>3. Weight(q) = Total(g) /\ Summable(g) /\ \A j \in 1..n : g[j] \in Nat
  BY <1>1, WeightTotal
<1>4. R \in SUBSET Standing(e, L) /\ Standing(e, L) \in SUBSET Standing(e, L)
  BY <1>2
<1>5. /\ DOMAIN F = R /\ DOMAIN V = Standing(e, L) /\ DOMAIN h = 1..n /\ DOMAIN g = 1..n
      /\ \A y \in R : F[y] = e.orders[y].size
      /\ \A y \in Standing(e, L) : V[y] = e.orders[y].size
      /\ \A j \in 1..n : h[j] = e.orders[p[j]].size /\ g[j] = q[j].size /\ p[j] \in R
  BY DEF SizesOf
<1>6. Volume(e, L) = Total(V)
  BY DEF Volume
<1> HIDE DEF R
<1>7. Summable(F)
  BY <1>4, StandingFacts
<1>8. Summable(V) /\ \A y \in Standing(e, L) : e.orders[y].size \in Nat /\ e.orders[y].size # 0
  <2>1. Summable(V) /\ \A y \in Standing(e, L) : e.orders[y].size \in Nat
    BY <1>4, StandingFacts
  <2>2. e.orders \in [DOMAIN e.orders -> Orders]
    BY EngineFields
  <2>3. \A y \in Standing(e, L) : e.orders[y].size # 0
    BY <2>2 DEF Standing, Orders
  <2> QED BY <2>1, <2>3
<1>9. Total(h) = Total(F) /\ Summable(h)
  <2>1. p \in [1..n -> DOMAIN F] /\ \A i \in DOMAIN F : \E j \in 1..n : p[j] = i
    BY <1>5 DEF R
  <2>2. ASSUME NEW i \in 1..n, NEW j \in 1..n, p[i] = p[j] PROVE i = j
    <3>1. q[i].id = q[j].id
      BY <2>2 DEF Public
    <3> QED BY <3>1 DEF LobOK
  <2>3. \A j \in 1..n : h[j] = F[p[j]]
    BY <1>5
  <2> HIDE DEF p, h, F, q
  <2> QED BY <1>5, <1>7, <2>1, <2>2, <2>3, TotalBijection
<1>10. \A j \in 1..n : g[j] <= h[j] /\ h[j] \in Nat
  <2> SUFFICES ASSUME NEW j \in 1..n PROVE g[j] <= h[j] /\ h[j] \in Nat
    OBVIOUS
  <2>1. h[j] = e.orders[p[j]].size /\ g[j] = q[j].size /\ p[j] \in Standing(e, L)
    BY <1>2, <1>5
  <2>2. h[j] \in Nat /\ g[j] \in Nat
    BY <1>3, <1>8, <2>1
  <2>3. e.orders[p[j]].size >= q[j].size
    BY <1>2
  <2>4. h[j] >= g[j]
    BY <2>1, <2>3
  <2> HIDE DEF g, h
  <2> QED BY <2>2, <2>4
<1>11. \A y \in DOMAIN F : F[y] = V[y] /\ y \in DOMAIN V
  BY <1>4, <1>5
<1>12. \A y \in DOMAIN V : V[y] \in Nat
  BY <1>5, <1>8
<1>13. Total(g) = Total(V)
  BY <1>3, <1>6 DEF q
<1> HIDE DEF g, h, F, V, p, q, n
<1>14. \A y \in DOMAIN F : F[y] <= V[y]
  BY <1>11, <1>12
<1>15. DOMAIN F \subseteq DOMAIN V
  BY <1>11
<1>16. Total(F) <= Total(V)
  BY <1>7, <1>8, <1>12, <1>14, <1>15, TotalAtMost
<1>17. Total(g) <= Total(h)
  BY <1>3, <1>5, <1>9, <1>10, TotalAtMost
<1>18. Total(h) <= Total(g) /\ Total(V) <= Total(F)
  BY <1>9, <1>13, <1>16, <1>17
<1>19. \A j \in 1..n : g[j] = h[j]
  <2>1. DOMAIN g \subseteq DOMAIN h /\ \A j \in DOMAIN g : g[j] <= h[j]
    BY <1>5, <1>10
  <2>2. \A j \in DOMAIN h : h[j] \in Nat
    BY <1>5, <1>10
  <2>3. \A j \in DOMAIN g : g[j] = h[j]
    BY ONLY <1>3, <1>9, <1>18, <2>1, <2>2, TotalSqueezed
  <2> QED BY <1>5, <2>3
<1>20. \A y \in DOMAIN V \ DOMAIN F : V[y] = 0
  BY <1>7, <1>8, <1>12, <1>14, <1>15, <1>18, TotalSqueezed
<1>21. \A y \in Standing(e, L) : y \in R
  BY <1>5, <1>8, <1>20
<1>22. ASSUME NEW i \in 1..Len(b[L]) PROVE e.orders[Public(b[L][i].id)].size = b[L][i].size
  BY <1>2, <1>5, <1>19 DEF n, q
<1>23. ASSUME NEW y \in Standing(e, L) PROVE \E i \in 1..Len(b[L]) : y = Public(b[L][i].id)
  BY <1>2, <1>21 DEF R, n, q
<1> QED BY <1>22, <1>23 DEF SameSizes

LEMMA WeighsMirrors ==
  ASSUME NEW e, EngineOK(e), Tidy(e), Exact(e), NEW b, NEW u, LobOK(b, u), Follows(e, b),
         Weighs(e, b), NEW L \in Levels
  PROVE  SameQueue(e, b, L)
<1> DEFINE q == b[L]
           Q == e.queues[L]
           n == Len(q)
           m == Len(Q)
           x(i) == Public(q[i].id)
           At(i, j) == j \in 1..m /\ Q[j] = x(i)
           p == [i \in 1..n |-> CHOOSE j : At(i, j)]
<1>1. q \in Seq(Venue!Orders) /\ n \in Nat /\ Q \in Seq(Entries) /\ m \in Nat
  BY EngineFields DEF LobOK
<1>2. SameSizes(e, b, L)
  <2>1. Volume(e, L) = Weight(b[L])
    BY DEF Exact, Weighs
  <2> QED BY <2>1, WeighsSizes
<1>3. ASSUME NEW i \in 1..n
      PROVE  /\ x(i) \in DOMAIN e.orders /\ e.orders[x(i)].level = L
             /\ e.orders[x(i)].size = q[i].size /\ StandsOnce(Q, x(i))
  <2>1. x(i) \in DOMAIN e.orders /\ e.orders[x(i)].level = L
    BY DEF Follows, Has
  <2>2. e.orders[x(i)].size = q[i].size
    BY <1>2 DEF SameSizes
  <2> QED BY <2>1, <2>2 DEF Tidy
<1>4. ASSUME NEW i \in 1..n
      PROVE  /\ p[i] \in 1..m /\ Q[p[i]] = x(i)
             /\ \A j \in 1..m : Q[j] = x(i) => j = p[i]
  <2>1. \E j : At(i, j) /\ \A k \in 1..m : Q[k] = x(i) => k = j
    BY <1>3 DEF StandsOnce
  <2>2. p[i] = CHOOSE j : At(i, j)
    OBVIOUS
  <2>3. At(i, p[i])
    <3> HIDE DEF At, p
    <3> QED BY <2>1, <2>2
  <2> HIDE DEF p
  <2> QED BY <2>1, <2>3
<1>5. p \in [1..n -> 1..m]
  BY <1>4
<1> HIDE DEF p
<1>6. ASSUME NEW i \in 1..n, NEW k \in 1..n, i < k PROVE p[i] < p[k]
  <2>1. Before(Q, x(i), x(k))
    BY <1>6 DEF Follows
  <2>2. PICK c \in 1..m : \E d \in 1..m : c < d /\ Q[c] = x(i) /\ Q[d] = x(k)
    BY <2>1 DEF Before
  <2>3. PICK d \in 1..m : c < d /\ Q[c] = x(i) /\ Q[d] = x(k)
    BY <2>2
  <2>4. c = p[i] /\ d = p[k]
    BY <1>4, <2>3
  <2> QED BY <2>3, <2>4
<1>7. ASSUME NEW j \in 1..m PROVE \E i \in 1..n : p[i] = j
  <2>1. Q[j] \in Standing(e, L)
    BY DEF Tidy, Standing
  <2>2. PICK i \in 1..n : Q[j] = x(i)
    BY <1>2, <2>1 DEF SameSizes
  <2> QED BY <1>4, <2>2
<1>8. n = m /\ \A i \in 1..n : p[i] = i
  <2>1. \A i, k \in 1..n : i < k => p[i] < p[k]
    BY <1>6
  <2>2. \A j \in 1..m : \E i \in 1..n : p[i] = j
    BY <1>7
  <2>3. n \in Nat /\ m \in Nat
    BY <1>1
  <2> HIDE DEF n, m, q, Q, x, At
  <2>4. Identity(p, n, m)
    BY ONLY <1>5, <2>1, <2>2, <2>3, IncreasingOnto
  <2> QED BY <2>4 DEF Identity
<1>9. \A i \in 1..n : Q[i] = x(i)
  BY <1>4, <1>8
<1> QED BY <1>3, <1>8, <1>9 DEF SameQueue

(***************************************************************************)
(* What a level shows and what rests at the venue change alike.            *)
(***************************************************************************)

\* f differs from g by d at level L.
Shift(f, g, L, d) == \A M \in Levels : f[M] = IF M = L THEN g[M] + d ELSE g[M]

\* The weights of the levels of book b.
Weights(b) == [L \in Levels |-> Weight(b[L])]

LEMMA WeighsShift ==
  ASSUME NEW e, NEW f, NEW b, NEW c, Weighs(e, b), NEW L \in Levels, NEW d,
         Shift(f.book, e.book, L, d), Shift(Weights(c), Weights(b), L, d)
  PROVE  Weighs(f, c)
BY DEF Weighs, Shift, Weights

LEMMA JoinsWeight ==
  ASSUME NEW b \in [Levels -> Seq(Venue!Orders)], NEW c, NEW id \in PublicIds,
         NEW L \in Levels, NEW n \in Sizes, JoinsLob(b, c, id, L, n)
  PROVE  Shift(Weights(c), Weights(b), L, n)
<1> DEFINE o == [id |-> id, size |-> n]
<1>1. o \in Venue!Orders /\ o.size = n /\ b[L] \in Seq(Venue!Orders)
  BY DEF Venue!Orders, Sizes
<1>2. \A M \in Levels : c[M] = IF M = L THEN Append(b[L], o) ELSE b[M]
  BY DEF JoinsLob
<1> HIDE DEF o
<1>3. Weight(Append(b[L], o)) = Weight(b[L]) + n
  BY <1>1, AppendWeight DEF Heavier
<1> QED BY <1>2, <1>3 DEF Shift, Weights

LEMMA LevelWeight ==
  ASSUME NEW b \in [Levels -> Seq(Venue!Orders)], NEW c, NEW L \in Levels, NEW w,
         c = [b EXCEPT ![L] = w], NEW d, Weight(w) = Weight(b[L]) + d
  PROVE  Shift(Weights(c), Weights(b), L, d)
<1>1. \A M \in Levels : c[M] = IF M = L THEN w ELSE b[M]
  OBVIOUS
<1> QED BY <1>1 DEF Shift, Weights

LEMMA BookShift ==
  ASSUME NEW book \in [Levels -> Nat], NEW L \in Levels, NEW n \in Nat
  PROVE  /\ AddToBook(book, L, n) \in [Levels -> Nat] /\ Shift(AddToBook(book, L, n), book, L, n)
         /\ n <= book[L] => /\ RemoveFromBook(book, L, n) \in [Levels -> Nat]
                            /\ Shift(RemoveFromBook(book, L, n), book, L, -n)
<1> DEFINE z == book[L]
<1>1. z \in Nat
  OBVIOUS
<1>2. AddToBook(book, L, n) = [book EXCEPT ![L] = z + n]
  BY DEF AddToBook
<1>3. RemoveFromBook(book, L, n) = [book EXCEPT ![L] = z - Lesser(z, n)]
  BY DEF RemoveFromBook
<1>4. n <= z => z - Lesser(z, n) = z + (-n) /\ z - Lesser(z, n) \in Nat
  <2> HIDE DEF z
  <2> QED BY <1>1 DEF Lesser
<1>5. z + n \in Nat
  <2> HIDE DEF z
  <2> QED BY <1>1
<1>6. ASSUME NEW y \in Nat
      PROVE  /\ [book EXCEPT ![L] = y] \in [Levels -> Nat]
             /\ \A M \in Levels : [book EXCEPT ![L] = y][M] = IF M = L THEN y ELSE book[M]
  OBVIOUS
<1>7. Shift(AddToBook(book, L, n), book, L, n) /\ AddToBook(book, L, n) \in [Levels -> Nat]
  <2> HIDE DEF z
  <2> QED BY <1>2, <1>5, <1>6 DEF Shift, z
<1>8. ASSUME n <= z
      PROVE  /\ RemoveFromBook(book, L, n) \in [Levels -> Nat]
             /\ Shift(RemoveFromBook(book, L, n), book, L, -n)
  <2> DEFINE y == z - Lesser(z, n)
  <2>1. y \in Nat /\ y = z + (-n)
    BY <1>4, <1>8
  <2> HIDE DEF y
  <2>2. RemoveFromBook(book, L, n) = [book EXCEPT ![L] = y]
    BY <1>3 DEF y
  <2> HIDE DEF z
  <2> QED BY <1>6, <2>1, <2>2 DEF Shift, z
<1> QED BY <1>7, <1>8

\* Engine e shows exactly what the venue has.
Mirroring(e) ==
  /\ EngineInv(e) /\ Tidy(e) /\ Exact(e)
  /\ LobOK(lob, used) /\ Follows(e, lob) /\ Weighs(e, lob)

\* Order x, at place k of level K of the venue, is in engine e with the same size.
StandsAt(e, x, K, k) ==
  /\ K \in Levels /\ k \in 1..Len(lob[K]) /\ lob[K] \in Seq(Venue!Orders)
  /\ x \in DOMAIN e.orders /\ e.orders[x].level = K /\ e.orders[x].size = lob[K][k].size
  /\ lob[K][k].size \in Sizes /\ lob[K][k].size <= e.book[K]

LEMMA LiveStands ==
  ASSUME NEW e, Mirroring(e), NEW id \in Venue!Live
  PROVE  StandsAt(e, Public(id), Venue!LevelOf(id), Venue!PlaceOf(id))
<1> DEFINE K == Venue!LevelOf(id)
           k == Venue!PlaceOf(id)
           q == lob[K]
<1>1. K \in Levels /\ k \in 1..Len(q) /\ q[k].id = id /\ q[k].size \in Sizes
  BY PlaceOfFacts DEF Mirroring
<1> HIDE DEF K, k
<1>2. q \in Seq(Venue!Orders)
  BY <1>1 DEF Mirroring, LobOK
<1>3. SameQueue(e, lob, K)
  BY <1>1, WeighsMirrors DEF Mirroring, EngineInv
<1>4. Public(id) \in DOMAIN e.orders /\ e.orders[Public(id)].level = K
      /\ e.orders[Public(id)].size = q[k].size
  BY <1>1, <1>3 DEF SameQueue
<1>5. e.book[K] = Weight(q)
  BY <1>1 DEF Mirroring, Weighs
<1>6. q[k].size <= Weight(q)
  <2> DEFINE a == Venue!Prefix(q, k - 1)
             c == Venue!Prefix(q, k)
             d == Venue!Prefix(q, Len(q))
             s == q[k].size
  <2>1. k \in 0..Len(q) /\ k # 0 /\ k - 1 \in 0..Len(q) /\ Len(q) \in 0..Len(q) /\ k <= Len(q)
    BY <1>1, <1>2
  <2>2. a \in Nat /\ c \in Nat /\ c = a + s /\ c <= d /\ d \in Nat /\ s \in Nat
    <3>1. a \in Nat /\ d \in Nat
      BY <1>2, <2>1, PrefixFacts
    <3>2. c \in Nat /\ c = a + s /\ c <= d
      BY <1>2, <2>1, PrefixFacts
    <3> QED BY <1>1, <3>1, <3>2 DEF Sizes
  <2>3. Weight(q) = d
    BY DEF Weight
  <2> HIDE DEF a, c, d, s
  <2>4. s <= d
    BY <2>2
  <2> QED BY <2>3, <2>4 DEF s
<1> QED BY <1>1, <1>2, <1>4, <1>5, <1>6 DEF StandsAt, K, k

LEMMA ResizeShift ==
  ASSUME NEW e, EngineOK(e), NEW x \in DOMAIN e.orders, NEW n \in Nat,
         e.orders[x].size <= e.book[e.orders[x].level]
  PROVE  Shift(Resize(e, x, n).book, e.book, e.orders[x].level, n - e.orders[x].size)
<1> DEFINE L == e.orders[x].level
           s == e.orders[x].size
           f == Resize(e, x, n)
<1>1. /\ e.book \in [Levels -> Nat] /\ L \in Levels /\ s \in Nat /\ s <= e.book[L] /\ DOMAIN e = Fields
  <2>1. e.orders \in [DOMAIN e.orders -> Orders] /\ e.book \in [Levels -> Nat] /\ DOMAIN e = Fields
    BY EngineFields
  <2>2. e.orders[x] \in Orders
    BY <2>1
  <2> QED BY <2>1, <2>2 DEF Orders
<1>2. f.book = IF n >= s THEN AddToBook(e.book, L, n - s) ELSE RemoveFromBook(e.book, L, s - n)
  BY <1>1 DEF Resize, Fields
<1> HIDE DEF L, s, f
<1>3. CASE n >= s
  <2>1. n - s \in Nat
    BY <1>1, <1>3
  <2>2. Shift(f.book, e.book, L, n - s)
    BY <1>1, <1>2, <1>3, <2>1, BookShift
  <2> QED BY <2>2 DEF L, s, f
<1>4. CASE ~(n >= s)
  <2> DEFINE z == e.book[L]
             d == s - n
  <2>1. d \in Nat /\ -d = n - s /\ d <= z
    <3>1. z \in Nat /\ s <= z
      BY <1>1
    <3> HIDE DEF z
    <3> QED BY <1>1, <1>4, <3>1
  <2>2. f.book = RemoveFromBook(e.book, L, d)
    BY <1>2, <1>4
  <2> HIDE DEF d
  <2>3. Shift(f.book, e.book, L, -d)
    BY <1>1, <2>1, <2>2, BookShift
  <2>4. Shift(f.book, e.book, L, n - s)
    BY <2>1, <2>3
  <2> QED BY <2>4 DEF L, s, f
<1> QED BY <1>3, <1>4

LEMMA AddWeighs ==
  ASSUME NEW e, Mirroring(e), NEW id \in PublicIds, NEW L \in Levels, NEW n \in Sizes,
         Venue!Add(id, L, n)
  PROVE  Weighs(Rest(e, Public(id), L, n), lob')
<1> DEFINE f == Rest(e, Public(id), L, n)
<1>1. JoinsLob(lob, lob', id, L, n)
  <2>1. lob \in [Levels -> Seq(Venue!Orders)]
    BY DEF Mirroring, LobOK
  <2>2. lob' = [lob EXCEPT ![L] = Append(@, [id |-> id, size |-> n])]
    BY DEF Venue!Add
  <2> QED BY <2>1, <2>2 DEF JoinsLob
<1>2. Shift(Weights(lob'), Weights(lob), L, n)
  BY <1>1, JoinsWeight DEF Mirroring, LobOK
<1>3. e.book \in [Levels -> Nat] /\ DOMAIN e = Fields /\ n \in Nat
  BY EngineFields DEF Mirroring, EngineInv, Sizes
<1>4. f.book = AddToBook(e.book, L, n)
  BY <1>3 DEF Rest, Fields
<1>5. Shift(f.book, e.book, L, n)
  BY <1>3, <1>4, BookShift
<1> QED BY <1>2, <1>5, WeighsShift DEF Mirroring

LEMMA CancelWeighs ==
  ASSUME NEW e, Mirroring(e), NEW id \in PublicIds, NEW L \in Levels, NEW n \in Sizes,
         Venue!Cancel(id, L, n), NEW ev, ev.id = id, ev.level = L, ev.size = n
  PROVE  Weighs(CancelPublic(e, ev), lob')
<1> DEFINE x == Public(id)
           k == Venue!PlaceOf(id)
           q == lob[L]
           s == q[k].size
           w == IF n = s THEN Venue!Removed(q, k) ELSE [q EXCEPT ![k].size = s - n]
           f == CancelPublic(e, ev)
<1>1. /\ id \in Venue!Live /\ L = Venue!LevelOf(id) /\ n <= Venue!SizeOf(id)
      /\ lob' = [lob EXCEPT ![L] = IF n = Venue!SizeOf(id) THEN Venue!Removed(@, k)
                                   ELSE [@ EXCEPT ![k].size = Venue!SizeOf(id) - n]]
  BY DEF Venue!Cancel
<1>2. Venue!SizeOf(id) = s
  BY <1>1, PlaceOfFacts DEF Mirroring
<1>3. StandsAt(e, x, L, k)
  BY <1>1, LiveStands
<1> HIDE DEF x, k
<1>4. /\ k \in 1..Len(q) /\ q \in Seq(Venue!Orders) /\ x \in DOMAIN e.orders
      /\ e.orders[x].level = L /\ e.orders[x].size = s /\ s \in Sizes /\ s <= e.book[L]
  BY <1>3 DEF StandsAt
<1>5. lob' = [lob EXCEPT ![L] = w]
  <2>1. lob \in [Levels -> Seq(Venue!Orders)]
    BY DEF Mirroring, LobOK
  <2> QED BY <1>1, <1>2, <2>1
<1>6. n <= s /\ n \in Nat /\ s \in Nat /\ n # 0
  BY <1>1, <1>2, <1>4 DEF Sizes
<1>7. Weight(w) = Weight(q) + (-n)
  <2> DEFINE z == Weight(q)
  <2>0. z \in Nat
    BY <1>4, WeightTotal
  <2>1. CASE n = s
    <3>1. Heavier(q, w, s)
      BY <1>4, <2>1, RemovedWeight
    <3>2. Weight(w) \in Int /\ z = Weight(w) + s
      BY <3>1 DEF Heavier
    <3> HIDE DEF z, w, q, s
    <3> QED BY <1>6, <2>0, <2>1, <3>2 DEF z
  <2>2. CASE n # s
    <3>1. s - n \in Sizes
      BY <1>4, <1>6, <2>2, SizeAssumption DEF Sizes
    <3>2. w = [q EXCEPT ![k].size = s - n]
      BY <2>2
    <3>3. Heavier(w, q, (s - n) - s)
      <4> HIDE DEF w, s, q
      <4>1. Heavier([q EXCEPT ![k].size = s - n], q, (s - n) - q[k].size)
        BY <1>4, <3>1, SizedWeight DEF q
      <4> QED BY <3>2, <4>1 DEF s
    <3>4. Weight(w) = z + ((s - n) - s)
      BY <3>3 DEF Heavier
    <3> HIDE DEF z, w, s
    <3> QED BY <1>6, <2>0, <3>4 DEF z
  <2> QED BY <2>1, <2>2
<1>8. Shift(Weights(lob'), Weights(lob), L, -n)
  <2> HIDE DEF w
  <2> QED BY <1>5, <1>7, LevelWeight DEF Mirroring, LobOK
<1>9. Shift(f.book, e.book, L, -n)
  <2>1. Lesser(s, n) = n
    <3> HIDE DEF s
    <3> QED BY <1>6 DEF Lesser
  <2>2. f = Resize(e, x, s - n)
    BY <1>4, <2>1 DEF CancelPublic, x
  <2>3. s - n \in Nat
    <3> HIDE DEF s
    <3> QED BY <1>6
  <2>4. (s - n) - s = -n
    <3> HIDE DEF s
    <3> QED BY <1>6
  <2> HIDE DEF s, f
  <2>5. EngineOK(e)
    BY DEF Mirroring, EngineInv
  <2>6. Shift(f.book, e.book, L, (s - n) - s)
    BY <1>4, <2>2, <2>3, <2>5, ResizeShift
  <2> QED BY <2>4, <2>6
<1> HIDE DEF f
<1>10. Weighs(f, lob')
  BY <1>8, <1>9, WeighsShift DEF Mirroring
<1> QED BY <1>10 DEF f

LEMMA RestShift ==
  ASSUME NEW e, EngineOK(e), NEW x, NEW L \in Levels, NEW n \in Nat
  PROVE  Shift(Rest(e, x, L, n).book, e.book, L, n)
<1>1. e.book \in [Levels -> Nat] /\ DOMAIN e = Fields
  BY EngineFields
<1>2. Rest(e, x, L, n).book = AddToBook(e.book, L, n)
  BY <1>1 DEF Rest, Fields
<1> QED BY <1>1, <1>2, BookShift

LEMMA ModifyWeighs ==
  ASSUME NEW e, Mirroring(e), NEW id \in PublicIds, NEW L \in Levels, NEW n \in Sizes,
         Venue!Modify(id, L, n), NEW ev, ev.id = id, ev.level = L, ev.size = n
  PROVE  Weighs(ModifyPublic(e, ev), lob')
<1> DEFINE x == Public(id)
           K == Venue!LevelOf(id)
           k == Venue!PlaceOf(id)
           q == lob[K]
           s == q[k].size
           f == ModifyPublic(e, ev)
<1>1. id \in Venue!Live
  BY DEF Venue!Modify
<1>2. \/ L = K /\ lob' = [lob EXCEPT ![L][k].size = n]
      \/ L # K /\ lob' = [lob EXCEPT ![K] = Venue!Removed(@, k),
                                     ![L] = Append(@, [id |-> id, size |-> n])]
  BY DEF Venue!Modify
<1>3. StandsAt(e, x, K, k)
  BY <1>1, LiveStands
<1>4. f = IF e.orders[x].level = L THEN Resize(e, x, n) ELSE MovePublic(e, x, L, n)
  <2>1. x \in DOMAIN e.orders
    BY <1>3 DEF StandsAt
  <2> QED BY <2>1 DEF ModifyPublic
<1> HIDE DEF x, K, k, f
<1>5. /\ K \in Levels /\ k \in 1..Len(q) /\ q \in Seq(Venue!Orders) /\ x \in DOMAIN e.orders
      /\ e.orders[x].level = K /\ e.orders[x].size = s /\ s \in Sizes /\ s <= e.book[K]
  BY <1>3 DEF StandsAt
<1>6. /\ lob \in [Levels -> Seq(Venue!Orders)] /\ EngineOK(e) /\ Weighs(e, lob)
      /\ n \in Nat /\ s \in Nat /\ 0 \in Nat
  BY <1>5 DEF Mirroring, LobOK, EngineInv, Sizes
<1>7. CASE L = K /\ lob' = [lob EXCEPT ![L][k].size = n]
  <2> DEFINE w == [q EXCEPT ![k].size = n]
  <2>1. lob' = [lob EXCEPT ![K] = w]
    BY <1>5, <1>6, <1>7
  <2>2. Heavier(w, q, n - s)
    <3>1. Heavier([q EXCEPT ![k].size = n], q, n - q[k].size)
      <4> HIDE DEF q
      <4> QED BY <1>5, SizedWeight
    <3> QED BY <3>1
  <2>3. Weight(w) = Weight(lob[K]) + (n - s)
    BY <2>2 DEF Heavier
  <2> HIDE DEF w, s
  <2>4. Shift(Weights(lob'), Weights(lob), K, n - s)
    BY <1>5, <1>6, <2>1, <2>3, LevelWeight
  <2>5. Shift(f.book, e.book, K, n - s)
    BY <1>4, <1>5, <1>6, <1>7, ResizeShift
  <2>6. Weighs(f, lob')
    BY <1>5, <1>6, <2>4, <2>5, WeighsShift
  <2> QED BY <2>6 DEF f
<1>8. CASE L # K /\ lob' = [lob EXCEPT ![K] = Venue!Removed(@, k),
                                       ![L] = Append(@, [id |-> id, size |-> n])]
  <2> DEFINE w == Venue!Removed(q, k)
             c == [lob EXCEPT ![K] = w]
             g == Resize(e, x, 0)
  <2>1. w \in Seq(Venue!Orders)
    BY <1>5, RemovedShape
  <2>2. Heavier(q, w, s)
    BY <1>5, RemovedWeight
  <2>3. JoinsLob(c, lob', id, L, n)
    <3>1. lob' = [lob EXCEPT ![K] = w, ![L] = Append(@, [id |-> id, size |-> n])]
      BY <1>5, <1>6, <1>8
    <3> HIDE DEF w
    <3>2. /\ DOMAIN lob' = Levels /\ lob' = [M \in Levels |-> lob'[M]]
          /\ \A M \in Levels : lob'[M] = IF M = L THEN Append(c[M], [id |-> id, size |-> n]) ELSE c[M]
      BY <1>5, <1>6, <1>8, <3>1
    <3> HIDE DEF c
    <3> QED BY <3>2 DEF JoinsLob
  <2> HIDE DEF w
  <2>4. c \in [Levels -> Seq(Venue!Orders)]
    BY <1>5, <1>6, <2>1
  <2>5. Weight(w) = Weight(lob[K]) + (0 - s)
    <3> DEFINE z == Weight(lob[K])
    <3>1. Weight(w) \in Int /\ z = Weight(w) + s
      BY <2>2 DEF Heavier
    <3> HIDE DEF z, s
    <3>2. Weight(w) = z + (0 - s)
      BY <1>6, <3>1
    <3> QED BY <3>2 DEF z
  <2>6. Shift(Weights(c), Weights(lob), K, 0 - s)
    <3>1. c = [lob EXCEPT ![K] = w]
      OBVIOUS
    <3> HIDE DEF c, s
    <3> QED BY <1>5, <1>6, <2>5, <3>1, LevelWeight
  <2> HIDE DEF c
  <2>7. Shift(g.book, e.book, K, 0 - s)
    <3> HIDE DEF s
    <3> QED BY <1>5, <1>6, ResizeShift
  <2>8. Weighs(g, c)
    <3> HIDE DEF s, g
    <3> QED BY <1>5, <1>6, <2>6, <2>7, WeighsShift
  <2>9. f = Rest(g, x, L, n)
    BY <1>4, <1>5, <1>6, <1>8, MoveIsRest
  <2>10. EngineOK(g)
    <3>1. ~IsOwn(x)
      BY DEF IsOwn, Public, x
    <3>2. g = Resize(e, x, 0)
      OBVIOUS
    <3>3. Kept(e, g, x, 0)
      <4> HIDE DEF g
      <4> QED BY <1>5, <1>6, <3>1, <3>2, ResizeOnly DEF Mirroring
    <3> QED BY <3>3 DEF Kept
  <2> HIDE DEF g
  <2>11. Shift(f.book, g.book, L, n)
    BY <1>6, <2>9, <2>10, RestShift
  <2>12. Shift(Weights(lob'), Weights(c), L, n)
    BY <2>3, <2>4, JoinsWeight
  <2>13. Weighs(f, lob')
    BY <2>8, <2>11, <2>12, WeighsShift
  <2> QED BY <2>13 DEF f
<1> QED BY <1>2, <1>7, <1>8

LEMMA TradeWeighs ==
  ASSUME NEW e, Mirroring(e), NEW id \in PublicIds, NEW L \in Levels, NEW n \in Sizes,
         Venue!Trade(id, L, n), NEW ts \in Nat
  PROVE  Weighs(ConsumeLevel(e, L, n, ts), lob')
<1> DEFINE q == lob[L]
           w == Venue!AfterTrade(q, n)
           f == ConsumeLevel(e, L, n, ts)
           z == Weight(q)
<1>1. /\ lob \in [Levels -> Seq(Venue!Orders)] /\ q \in Seq(Venue!Orders) /\ n \in Nat
      /\ EngineInv(e) /\ EngineOK(e) /\ Tidy(e) /\ Weighs(e, lob)
  BY DEF Mirroring, LobOK, EngineInv, Sizes
<1>2. n <= z /\ lob' = [lob EXCEPT ![L] = w]
  BY <1>1 DEF Venue!Trade, Weight
<1>3. z \in Nat /\ Heavier(q, w, n)
  BY <1>1, <1>2, WeightTotal, AfterTradeWeight
<1>4. e.book[L] = z /\ Volume(e, L) = z
  BY DEF Mirroring, Weighs, Exact
<1>5. Eaten(e, f, L, n)
  BY <1>1, <1>2, <1>4, ConsumeLevelEatsAll
<1>6. f.book[L] = e.book[L] - Lesser(e.book[L], n) /\ \A M \in Levels : M # L => f.book[M] = e.book[M]
  BY <1>5 DEF Eaten, Moved
<1> HIDE DEF w, f
<1>7. Weight(w) = Weight(lob[L]) + (-n)
  <2>1. Weight(w) \in Int /\ z = Weight(w) + n
    BY <1>3 DEF Heavier
  <2> HIDE DEF z
  <2>2. Weight(w) = z + (-n)
    BY <1>1, <1>3, <2>1
  <2> QED BY <2>2 DEF z
<1>8. Shift(Weights(lob'), Weights(lob), L, -n)
  BY <1>1, <1>2, <1>7, LevelWeight
<1>9. Shift(f.book, e.book, L, -n)
  <2>1. f.book[L] = e.book[L] + (-n)
    <3> HIDE DEF z
    <3>1. Lesser(z, n) = n
      BY <1>1, <1>2, <1>3 DEF Lesser
    <3>2. f.book[L] = z - n
      BY <1>4, <1>6, <3>1
    <3> QED BY <1>1, <1>3, <1>4, <3>2
  <2> QED BY <1>6, <2>1 DEF Shift
<1>10. Weighs(f, lob')
  BY <1>1, <1>8, <1>9, WeighsShift
<1> QED BY <1>10 DEF f

LEMMA EventWeighs ==
  ASSUME FeedInv, WellFormedFeed, active = <<>>, Weighs(engine, lob),
         NEW ev \in Events, PublicEvent(ev)
  PROVE  Weighs(engine', lob')
<1> DEFINE ts == engine.now + 1
           st == Stamp(ev, ts)
           g == [engine EXCEPT !.now = ts]
           x == Public(ev.id)
           L == ev.level
           n == ev.size
<1>1. /\ EngineInv(engine) /\ Tidy(engine) /\ Exact(engine) /\ LobOK(lob, used)
      /\ Follows(engine, lob) /\ engine.now \in Nat /\ ts \in Nat
  BY EngineFields DEF FeedInv, IInv, EngineInv, NothingTaken
<1>2. /\ ev.id \in PublicIds /\ L \in Levels /\ n \in Sizes
      /\ st.action = ev.action /\ st.id = ev.id /\ st.level = L /\ st.size = n /\ st.ts = ts
  BY DEF Events, Stamp
<1>3. Venue!Report(ev) /\ engine' = ApplyEvent(engine, st)
  BY DEF PublicEvent
<1>4. SameBook(engine, g) /\ EngineInv(g)
  <2>1. g = AdvanceTime(engine, ts)
    BY DEF AdvanceTime
  <2>2. EngineInv(g)
    BY <1>1, <2>1, AdvanceTimeFacts
  <2>3. DOMAIN engine = Fields
    BY <1>1, EngineFields DEF EngineInv
  <2>4. SameBook(engine, g)
    BY <2>3 DEF SameBook, Fields
  <2> QED BY <2>2, <2>4
<1>5. ApplyEvent(engine, st) =
         CASE st.action = "add"    -> Rest(g, x, L, n)
           [] st.action = "cancel" -> CancelPublic(g, st)
           [] st.action = "modify" -> ModifyPublic(g, st)
           [] st.action = "trade"  -> ConsumeLevel(g, L, n, ts)
  BY <1>2 DEF ApplyEvent
<1> HIDE DEF g, st, ts
<1>6. Mirroring(g)
  <2>1. Tidy(g) /\ Exact(g)
    BY <1>1, <1>4, SameBookFacts
  <2>2. Follows(g, lob)
    BY <1>1, <1>4, SameBookFollows
  <2>3. Weighs(g, lob)
    BY <1>4 DEF Weighs, SameBook
  <2> QED BY <1>1, <1>4, <2>1, <2>2, <2>3 DEF Mirroring
<1> DEFINE Done == Weighs(engine', lob')
<1>7. ASSUME ev.action = "add", Venue!Add(ev.id, L, n) PROVE Done
  <2>1. engine' = Rest(g, x, L, n)
    BY <1>2, <1>3, <1>5, <1>7
  <2> QED BY <1>2, <1>6, <1>7, <2>1, AddWeighs
<1>8. ASSUME ev.action = "cancel", Venue!Cancel(ev.id, L, n) PROVE Done
  <2>1. engine' = CancelPublic(g, st)
    BY <1>2, <1>3, <1>5, <1>8
  <2> QED BY <1>2, <1>6, <1>8, <2>1, CancelWeighs
<1>9. ASSUME ev.action = "modify", Venue!Modify(ev.id, L, n) PROVE Done
  <2>1. engine' = ModifyPublic(g, st)
    BY <1>2, <1>3, <1>5, <1>9
  <2> QED BY <1>2, <1>6, <1>9, <2>1, ModifyWeighs
<1>10. ASSUME ev.action = "trade", Venue!Trade(ev.id, L, n) PROVE Done
  <2>1. engine' = ConsumeLevel(g, L, n, ts)
    BY <1>2, <1>3, <1>5, <1>10
  <2> QED BY <1>1, <1>2, <1>6, <1>10, <2>1, TradeWeighs
<1>11. \/ ev.action = "add"    /\ Venue!Add(ev.id, L, n)
       \/ ev.action = "cancel" /\ Venue!Cancel(ev.id, L, n)
       \/ ev.action = "modify" /\ Venue!Modify(ev.id, L, n)
       \/ ev.action = "trade"  /\ Venue!Trade(ev.id, L, n)
  BY <1>3 DEF Venue!Report
<1> HIDE DEF Done
<1>12. Done
  BY <1>7, <1>8, <1>9, <1>10, <1>11
<1> QED BY <1>12 DEF Done

\* Until the strategy places an order the engine shows what the venue has.
MirrorInv ==
  /\ FeedInv
  /\ DOMAIN placed = {} => active = <<>> /\ Weighs(engine, lob)

LEMMA InitMirrorInv ==
  Init => MirrorInv
<1> SUFFICES ASSUME Init PROVE MirrorInv
  OBVIOUS
<1>1. /\ engine = EmptyEngine /\ lob = [L \in Venue!Levels |-> <<>>] /\ active = <<>>
      /\ Venue!Levels = Levels
  BY DEF Init, Venue!Init, Venue!Levels, Levels, Venue!BookSides, BookSides
<1>2. ASSUME NEW L \in Levels PROVE engine.book[L] = Weight(lob[L])
  <2>1. engine.book[L] = 0 /\ lob[L] = <<>>
    BY <1>1 DEF EmptyEngine
  <2>2. <<>> \in Seq(Venue!Orders) /\ 0 \in 0..Len(<<>>) /\ Len(<<>>) = 0
    OBVIOUS
  <2>3. Venue!Prefix(<<>>, 0) = 0
    BY <2>2, PrefixFacts
  <2> QED BY <2>1, <2>2, <2>3 DEF Weight
<1> QED BY <1>1, <1>2, InitFeedInv DEF MirrorInv, Weighs

LEMMA NextMirrorInv ==
  ASSUME WellFormedFeed
  PROVE  MirrorInv /\ [Next]_vars => MirrorInv'
<1> SUFFICES ASSUME MirrorInv, [Next]_vars, DOMAIN placed' = {}
             PROVE  active' = <<>> /\ Weighs(engine', lob')
  <2>1. ASSUME MirrorInv, [Next]_vars PROVE FeedInv'
    BY <2>1, NextFeedInv DEF MirrorInv
  <2> QED BY <2>1 DEF MirrorInv
<1> DEFINE Done == active' = <<>> /\ Weighs(engine', lob')
<1>1. FeedInv /\ (DOMAIN placed = {} => active = <<>> /\ Weighs(engine, lob))
  BY DEF MirrorInv
<1>2. EngineOK(engine) /\ DOMAIN engine = Fields
  BY <1>1, EngineFields DEF FeedInv, IInv, EngineInv
<1>3. ASSUME NEW ev \in Events, PublicEvent(ev) PROVE Done
  <2>1. placed' = placed /\ active' = active
    BY <1>3 DEF PublicEvent
  <2> QED BY <1>1, <1>3, <2>1, EventWeighs
<1>4. ASSUME NEW side, NEW n, NEW limit, NEW tif, PlaceOrder(side, n, limit, tif) PROVE Done
  <2>1. placed' = Put(placed, Place(engine, side, n, limit, tif).id, n)
    BY <1>4 DEF PlaceOrder
  <2>2. Place(engine, side, n, limit, tif).id \in DOMAIN placed'
    BY <2>1 DEF Put
  <2> QED BY <2>2
<1>5. ASSUME NEW id \in DOMAIN placed, Cancel(id) PROVE Done
  BY <1>5 DEF Cancel
<1>6. ASSUME engine'.book = engine.book, UNCHANGED <<lob, active, placed>> PROVE Done
  BY <1>1, <1>6 DEF Weighs
<1>7. ASSUME NEW ts \in 0..MaxNow, Tick(ts) PROVE Done
  <2>1. engine'.book = engine.book
    BY <1>2, <1>7 DEF Tick, AdvanceTime, Fields
  <2> QED BY <1>6, <1>7, <2>1 DEF Tick
<1>8. ASSUME Pop PROVE Done
  <2>1. engine'.book = engine.book
    BY <1>2, <1>8 DEF Pop, PopPassiveFills, Fields
  <2> QED BY <1>6, <1>8, <2>1 DEF Pop
<1>9. ASSUME UNCHANGED vars PROVE Done
  BY <1>6, <1>9 DEF vars
<1> HIDE DEF Done
<1>10. Done
  BY <1>3, <1>4, <1>5, <1>7, <1>8, <1>9 DEF Next, StrategyNext, PlaceLimit, PlaceMarket
<1> QED BY <1>10 DEF Done

LEMMA SpecMirrorInv ==
  ASSUME WellFormedFeed
  PROVE  Spec => []MirrorInv
BY InitMirrorInv, NextMirrorInv, PTL DEF Spec

\* Without a strategy order in it the engine's book is the venue's, order by
\* order.
BookIsVenues == DOMAIN placed = {} => EngineLob = lob

LEMMA MirrorIsVenue ==
  MirrorInv => BookIsVenues
<1> SUFFICES ASSUME MirrorInv, DOMAIN placed = {} PROVE EngineLob = lob
  BY DEF BookIsVenues
<1>1. /\ EngineOK(engine) /\ Tidy(engine) /\ Exact(engine) /\ LobOK(lob, used)
      /\ Follows(engine, lob) /\ Weighs(engine, lob)
  BY DEF MirrorInv, FeedInv, IInv, EngineInv, NothingTaken
<1>2. lob \in [Levels -> Seq(Venue!Orders)]
  BY <1>1 DEF LobOK
<1>3. ASSUME NEW L \in Levels PROVE EngineLob[L] = lob[L]
  <2> DEFINE q == lob[L]
             Q == engine.queues[L]
             w == [i \in 1..Len(Q) |-> [id |-> Q[i][2], size |-> SizeOf(engine, Q[i])]]
  <2>1. SameQueue(engine, lob, L)
    BY <1>1, WeighsMirrors
  <2>2. EngineLob[L] = w
    BY DEF EngineLob
  <2>3. q \in Seq(Venue!Orders) /\ Len(Q) = Len(q) /\ Len(q) \in Nat
    BY <1>2, <2>1 DEF SameQueue
  <2>4. ASSUME NEW i \in 1..Len(q) PROVE w[i] = q[i]
    <3>1. /\ Q[i] = Public(q[i].id) /\ Q[i] \in DOMAIN engine.orders
          /\ engine.orders[Q[i]].size = q[i].size
      BY <2>1 DEF SameQueue
    <3>2. Q[i][2] = q[i].id /\ SizeOf(engine, Q[i]) = q[i].size
      BY <3>1 DEF Public, SizeOf
    <3>3. q[i] = [id |-> q[i].id, size |-> q[i].size]
      <4>1. q[i] \in Venue!Orders
        BY <2>3
      <4> QED BY <4>1 DEF Venue!Orders
    <3>4. w[i] = [id |-> Q[i][2], size |-> SizeOf(engine, Q[i])]
      BY <2>3
    <3> HIDE DEF w
    <3> QED BY <3>2, <3>3, <3>4
  <2>5. DOMAIN w = 1..Len(q) /\ w = [i \in 1..Len(q) |-> w[i]]
    BY <2>3
  <2>6. DOMAIN q = 1..Len(q) /\ q = [i \in 1..Len(q) |-> q[i]]
    BY <2>3
  <2> HIDE DEF w, q
  <2>7. w = q
    BY <2>4, <2>5, <2>6
  <2> QED BY <2>2, <2>7 DEF q
<1>4. EngineLob = [L \in Levels |-> EngineLob[L]] /\ lob = [L \in Levels |-> lob[L]]
  BY <1>2 DEF EngineLob
<1> QED BY <1>3, <1>4

(* Until the strategy places an order, the queues and orders of the engine  *)
(* are the book of the venue, order by order, after every event.           *)
THEOREM EngineShowsTheVenue ==
  ASSUME WellFormedFeed
  PROVE  Spec => []BookIsVenues
BY SpecMirrorInv, MirrorIsVenue, PTL

\* The venue whose book is the one the engine shows.
Mirror == INSTANCE HistoricalVenue WITH lob <- EngineLob

(* A step of the venue is a step of its image.                             *)
LEMMA VenueStepMirrored ==
  ASSUME EngineLob = lob, EngineLob' = lob', NEW ev, Venue!Report(ev), ev \in Events
  PROVE  Mirror!Next
<1>1. /\ Mirror!Levels = Venue!Levels /\ Venue!Levels = Levels
      /\ Mirror!Live = Venue!Live
  BY DEF Mirror!Levels, Venue!Levels, Mirror!BookSides, Venue!BookSides, Levels, BookSides,
         Mirror!Live, Venue!Live
<1>2. ASSUME NEW id
      PROVE  /\ Mirror!LevelOf(id) = Venue!LevelOf(id) /\ Mirror!PlaceOf(id) = Venue!PlaceOf(id)
             /\ Mirror!SizeOf(id) = Venue!SizeOf(id)
  <2>1. Mirror!LevelOf(id) = Venue!LevelOf(id)
    BY <1>1 DEF Mirror!LevelOf, Venue!LevelOf
  <2>2. Mirror!PlaceOf(id) = Venue!PlaceOf(id)
    BY <2>1 DEF Mirror!PlaceOf, Venue!PlaceOf
  <2> QED BY <2>1, <2>2 DEF Mirror!SizeOf, Venue!SizeOf
<1>3. ASSUME NEW L PROVE Mirror!Crosses(L) <=> Venue!Crosses(L)
  BY DEF Mirror!Crosses, Venue!Crosses
<1>4. ASSUME NEW q, NEW k PROVE Mirror!Removed(q, k) = Venue!Removed(q, k)
  BY DEF Mirror!Removed, Venue!Removed
<1>5. ASSUME NEW q, NEW k PROVE Mirror!Prefix(q, k) = Venue!Prefix(q, k)
  BY DEF Mirror!Prefix, Venue!Prefix, Mirror!Total, Venue!Total, Mirror!MapThenSumSet,
         Venue!MapThenSumSet, Mirror!MapThenFoldSet, Venue!MapThenFoldSet
<1>6. ASSUME NEW q, NEW k PROVE Mirror!AfterTrade(q, k) = Venue!AfterTrade(q, k)
  BY DEF Mirror!AfterTrade, Venue!AfterTrade, Mirror!Cardinality, Venue!Cardinality,
         Mirror!Prefix, Venue!Prefix, Mirror!Total, Venue!Total, Mirror!MapThenSumSet,
         Venue!MapThenSumSet, Mirror!MapThenFoldSet, Venue!MapThenFoldSet
<1> DEFINE id == ev.id
           L == ev.level
           n == ev.size
<1>7. id \in PublicIds /\ L \in Mirror!Levels /\ n \in 1..MaxSize
  BY <1>1 DEF Events, Sizes
<1>8. ASSUME Venue!Add(id, L, n) PROVE Mirror!Add(id, L, n)
  BY <1>3, <1>8 DEF Venue!Add, Mirror!Add
<1>9. ASSUME Venue!Cancel(id, L, n) PROVE Mirror!Cancel(id, L, n)
  BY <1>1, <1>2, <1>4, <1>9 DEF Venue!Cancel, Mirror!Cancel
<1>10. ASSUME Venue!Modify(id, L, n) PROVE Mirror!Modify(id, L, n)
  BY <1>1, <1>2, <1>3, <1>4, <1>10 DEF Venue!Modify, Mirror!Modify
<1>11. ASSUME Venue!Trade(id, L, n) PROVE Mirror!Trade(id, L, n)
  BY <1>5, <1>6, <1>11 DEF Venue!Trade, Mirror!Trade
<1> HIDE DEF id, L, n
<1>12. \/ Venue!Add(id, L, n) \/ Venue!Cancel(id, L, n)
       \/ Venue!Modify(id, L, n) \/ Venue!Trade(id, L, n)
  BY DEF Venue!Report, id, L, n
<1>13. \/ Mirror!Add(id, L, n) \/ Mirror!Cancel(id, L, n)
       \/ Mirror!Modify(id, L, n) \/ Mirror!Trade(id, L, n)
  BY <1>8, <1>9, <1>10, <1>11, <1>12
<1> QED BY <1>7, <1>13 DEF Mirror!Next

(* As long as the strategy places nothing, every step of the engine is a    *)
(* step of the venue or leaves what it shows alone.                         *)
LEMMA StepMirrored ==
  ASSUME WellFormedFeed, BookIsVenues, BookIsVenues', DOMAIN placed = {}, DOMAIN placed' = {},
         [Next]_vars
  PROVE  [Mirror!Next]_(Mirror!vars)
<1>1. EngineLob = lob /\ EngineLob' = lob'
  BY DEF BookIsVenues
<1> DEFINE Done == [Mirror!Next]_(Mirror!vars)
<1>2. ASSUME UNCHANGED <<lob, used>> PROVE Done
  BY <1>1, <1>2 DEF Mirror!vars
<1>3. ASSUME NEW ev \in Events, PublicEvent(ev) PROVE Done
  <2>1. Venue!Report(ev)
    BY <1>3 DEF PublicEvent
  <2> QED BY <1>1, <2>1, VenueStepMirrored
<1>4. ASSUME StrategyNext PROVE Done
  BY <1>2, <1>4 DEF StrategyNext, PlaceLimit, PlaceMarket, PlaceOrder, Cancel
<1>5. ASSUME NEW ts \in 0..MaxNow, Tick(ts) PROVE Done
  BY <1>2, <1>5 DEF Tick
<1>6. ASSUME Pop PROVE Done
  BY <1>2, <1>6 DEF Pop
<1>7. ASSUME UNCHANGED vars PROVE Done
  BY <1>2, <1>7 DEF vars
<1> HIDE DEF Done
<1>8. Done
  BY <1>3, <1>4, <1>5, <1>6, <1>7 DEF Next
<1> QED BY <1>8 DEF Done

LEMMA InitMirrored ==
  Init => Mirror!Init
<1> SUFFICES ASSUME Init PROVE Mirror!Init
  OBVIOUS
<1>1. /\ engine = EmptyEngine /\ used = {} /\ Mirror!Levels = Levels
  BY DEF Init, Venue!Init, Mirror!Levels, Levels, Mirror!BookSides, BookSides
<1>2. EngineLob = [L \in Levels |-> <<>>]
  <2>1. ASSUME NEW L \in Levels PROVE EngineLob[L] = <<>>
    <3>1. engine.queues[L] = <<>>
      BY <1>1 DEF EmptyEngine
    <3> QED BY <3>1 DEF EngineLob
  <2> QED BY <2>1 DEF EngineLob
<1> QED BY <1>1, <1>2 DEF Mirror!Init

\* The strategy has placed no order.
NothingPlaced == DOMAIN placed = {}

(* A run in which the strategy places no order implements the venue: what   *)
(* the engine shows starts as an empty book, and every event changes it as  *)
(* the order book of an exchange in price-time priority would.              *)
THEOREM EngineIsTheVenue ==
  ASSUME WellFormedFeed
  PROVE  Spec /\ []NothingPlaced => Mirror!Spec
<1>1. /\ BookIsVenues /\ BookIsVenues' /\ NothingPlaced /\ NothingPlaced' /\ [Next]_vars
      => [Mirror!Next]_(Mirror!vars)
  BY StepMirrored DEF NothingPlaced
<1>2. Spec => []BookIsVenues
  BY EngineShowsTheVenue
<1> QED BY <1>1, <1>2, InitMirrored, PTL DEF Spec, Mirror!Spec

==============================================================================
