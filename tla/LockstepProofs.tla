---------------------------- MODULE LockstepProofs ----------------------------
(***************************************************************************)
(* The two engines in lockstep, for every price set, order bound, width of *)
(* a C++ size, slices and sequence of calls.                               *)
(*                                                                         *)
(* Image(e) is the C++ engine that stands for the reference engine e: the  *)
(* same engine in other containers.  Lemma by lemma, an operation of the   *)
(* one engine on Image(e) is the Image of what the operation of the other  *)
(* makes of e, as long as every level it goes through is a C++ size        *)
(* (Sound): first the containers, then the operations on them, the loops   *)
(* turn by turn, whole events, batches, strategy orders and queries.       *)
(***************************************************************************)
EXTENDS EnginesInLockstep, EngineOpsProofs

(***************************************************************************)
(* Numbers and maps of the C++ engine.                                     *)
(***************************************************************************)

(* A number in the range of a C++ size stays itself.                       *)
LEMMA WrapFacts ==
  ASSUME NEW n \in Int, -Native!MaxInt <= n, n <= Native!MaxInt
  PROVE  Native!Wrap(n) = n
<1> DEFINE h == Native!Half
<1>1. h \in Nat \ {0} /\ Native!MaxInt = h - 1 /\ Native!Wrap(n) = ((n + h) % (2 * h)) - h
  BY WidthAssumption DEF Native!MaxInt, Native!Wrap
<1> HIDE DEF h
<1> DEFINE k == n + h
           m == 2 * h
<1>2. k \in Nat /\ k < m /\ m \in Nat \ {0} /\ k - h = n
  BY <1>1
<1>3. k % m = k
  <2> HIDE DEF k, m
  <2> QED BY <1>2
<1> QED BY <1>1, <1>2, <1>3

LEMMA MaxIntFacts ==
  Native!MaxInt \in Nat /\ MaxSize \in Nat /\ MaxSize <= Native!MaxInt
<1> DEFINE h == Native!Half
<1>1. h \in Nat \ {0} /\ Native!MaxInt = h - 1
  BY WidthAssumption DEF Native!MaxInt
<1> HIDE DEF h
<1> QED BY <1>1, SizeAssumption, RowsAssumption

LEMMA StdMinFacts ==
  ASSUME NEW m \in Nat, NEW n \in Nat
  PROVE  Native!StdMin(m, n) = Lesser(m, n) /\ Native!StdMin(m, n) = Lesser(n, m)
BY DEF Native!StdMin, Lesser

(* Functions with the same values are the same.                            *)
LEMMA SameMap ==
  ASSUME NEW f, NEW g, f = [k \in DOMAIN f |-> f[k]], g = [k \in DOMAIN g |-> g[k]],
         DOMAIN f = DOMAIN g, \A k \in DOMAIN f : f[k] = g[k]
  PROVE  f = g
OBVIOUS

(***************************************************************************)
(* The C++ engine that stands for a reference engine, component by          *)
(* component: maps instead of total functions, names instead of entries.   *)
(***************************************************************************)

\* One side of the book: the prices that have a size.
Depth(book, side) ==
  [p \in {r \in Prices : book[<<side, r>>] > 0} |-> book[<<side, p>>]]

\* The orders of one owner, by id.
NativeOrder(o) == [side |-> Char(o.level[1]), price |-> o.level[2], size |-> o.size]
OrderMap(orders, owner) ==
  [id \in {i \in PublicIds \cup Nat : <<owner, i>> \in DOMAIN orders}
      |-> NativeOrder(orders[<<owner, id>>])]

\* The queues that hold an entry, by key.
Name(x) == <<IF IsOwn(x) THEN "ownOrders" ELSE "publicOrders", x[2]>>
Named(q) == [i \in 1..Len(q) |-> Name(q[i])]
KeyOf(L) == <<Char(L[1]), L[2]>>
LevelAt(k) == <<IF k[1] = "B" THEN "bid" ELSE "ask", k[2]>>
QueueMap(queues) ==
  [k \in {KeyOf(L) : L \in {M \in Levels : queues[M] # <<>>}} |-> Named(queues[LevelAt(k)])]

CodedFill(f) == [order |-> f.id, side |-> Char(f.side), price |-> f.price,
                 size |-> f.size, ts |-> f.ts]
Coded(fills) == [i \in 1..Len(fills) |-> CodedFill(fills[i])]

Img(book, orders, queues, fills, nextId, now, position) ==
  [bids |-> Depth(book, "bid"), asks |-> Depth(book, "ask"),
   publicOrders |-> OrderMap(orders, "public"), ownOrders |-> OrderMap(orders, "own"),
   queues |-> QueueMap(queues), passiveFills |-> Coded(fills),
   nextOrderId |-> nextId, now |-> now, position |-> position]

Image(e) == Img(e.book, e.orders, e.queues, e.fills, e.nextId, e.now, e.position)

LEMMA CharFacts ==
  /\ Char("bid") = "B" /\ Char("ask") = "A" /\ Char("buy") = "B" /\ Char("sell") = "A"
  /\ \A L \in Levels : LevelAt(KeyOf(L)) = L
  /\ \A side \in OrderSides : /\ Char(BookSideOf(side)) = Char(side)
                              /\ Char(side) = "B" <=> side = "buy"
  /\ \A L \in Levels : Char(OrderSideOf(L[1])) = Char(L[1])
<1>1. \A L \in Levels : LevelAt(KeyOf(L)) = L
  BY DEF Levels, BookSides, LevelAt, KeyOf, Char
<1>2. \A L \in Levels : Char(OrderSideOf(L[1])) = Char(L[1])
  BY DEF Levels, BookSides, OrderSideOf, Char
<1>3. \A side \in OrderSides : /\ Char(BookSideOf(side)) = Char(side)
                               /\ Char(side) = "B" <=> side = "buy"
  BY DEF OrderSides, BookSideOf, Char
<1> QED BY <1>1, <1>2, <1>3 DEF Char

\* A function of levels with one level changed.
Changed(f, L, v) == [f EXCEPT ![L] = v]

(* A level with a new size.                                                *)
LEMMA DepthUpdate ==
  ASSUME NEW book \in [Levels -> Nat], NEW L \in Levels, NEW n \in Nat,
         NEW c, c = Changed(book, L, n)
  PROVE  /\ n = 0 => Depth(c, L[1]) = Native!Erase(Depth(book, L[1]), L[2])
         /\ n # 0 => Depth(c, L[1]) = Native!Insert(Depth(book, L[1]), L[2], n)
         /\ \A side \in BookSides \ {L[1]} : Depth(c, side) = Depth(book, side)
<1> DEFINE s == L[1]
           r == L[2]
           d == Depth(book, s)
           f == Depth(c, s)
           g == IF n = 0 THEN Native!Erase(d, r) ELSE Native!Insert(d, r, n)
<1>1. L = <<s, r>> /\ s \in BookSides /\ r \in Prices
  BY DEF Levels
<1>2. /\ c \in [Levels -> Nat] /\ c[L] = n
      /\ \A M \in Levels : M # L => c[M] = book[M]
  BY DEF Changed
<1>3. \A side \in BookSides : \A p \in Prices : <<side, p>> \in Levels
  BY DEF Levels
<1>4. \A side \in BookSides \ {s} : Depth(c, side) = Depth(book, side)
  <2>1. ASSUME NEW side \in BookSides \ {s} PROVE Depth(c, side) = Depth(book, side)
    <3>1. \A p \in Prices : c[<<side, p>>] = book[<<side, p>>]
      BY <1>1, <1>2, <1>3
    <3> QED BY <3>1 DEF Depth
  <2> QED BY <2>1
<1>5. /\ \A p \in Prices \ {r} : c[<<s, p>>] = book[<<s, p>>]
      /\ c[<<s, r>>] = n
  BY <1>1, <1>2, <1>3
<1>6. /\ f = [k \in DOMAIN f |-> f[k]] /\ DOMAIN f = {p \in Prices : c[<<s, p>>] > 0}
      /\ \A p \in DOMAIN f : f[p] = c[<<s, p>>]
  BY DEF Depth
<1>7. /\ d = [k \in DOMAIN d |-> d[k]] /\ DOMAIN d = {p \in Prices : book[<<s, p>>] > 0}
      /\ \A p \in DOMAIN d : d[p] = book[<<s, p>>]
  BY DEF Depth
<1> HIDE DEF s, r, d, f
<1>8. f = g
  <2>1. CASE n = 0
    <3>1. /\ g = [k \in DOMAIN g |-> g[k]] /\ DOMAIN g = DOMAIN d \ {r}
          /\ \A p \in DOMAIN g : g[p] = d[p]
      <4>1. g = Native!Erase(d, r)
        BY <2>1
      <4> HIDE DEF g
      <4> QED BY ONLY <4>1 DEF Native!Erase
    <3> HIDE DEF g
    <3>2. DOMAIN f = DOMAIN g
      BY <1>5, <1>6, <1>7, <2>1, <3>1
    <3>3. \A p \in DOMAIN f : f[p] = g[p]
      BY <1>5, <1>6, <1>7, <3>1, <3>2
    <3> QED BY <1>6, <3>1, <3>2, <3>3, SameMap
  <2>2. CASE n # 0
    <3>1. /\ g = [k \in DOMAIN g |-> g[k]] /\ DOMAIN g = DOMAIN d \cup {r}
          /\ g[r] = n /\ \A p \in DOMAIN d : p # r => g[p] = d[p]
      <4>1. g = Native!Insert(d, r, n)
        BY <2>2
      <4> HIDE DEF g
      <4> QED BY ONLY <4>1 DEF Native!Insert
    <3> HIDE DEF g
    <3>2. DOMAIN f = DOMAIN g
      <4>1. \A p \in DOMAIN f : p \in DOMAIN g
        BY <1>5, <1>6, <1>7, <3>1
      <4>2. n > 0
        BY <2>2
      <4>3. \A p \in DOMAIN g : p \in DOMAIN f
        BY <1>1, <1>5, <1>6, <1>7, <3>1, <4>2
      <4> QED BY <4>1, <4>3
    <3>3. \A p \in DOMAIN f : f[p] = g[p]
      BY <1>5, <1>6, <1>7, <3>1, <3>2
    <3> QED BY <1>6, <3>1, <3>2, <3>3, SameMap
  <2> QED BY <2>1, <2>2
<1> QED BY <1>4, <1>8 DEF s, r, d, f

\* The member of the C++ engine that holds the orders of an owner.
OrdersOf(owner) == IF owner = "own" THEN "ownOrders" ELSE "publicOrders"

LEMMA NameFacts ==
  ASSUME NEW x \in Entries
  PROVE  /\ x[1] \in {"public", "own"} /\ x[2] \in PublicIds \cup Nat
         /\ x = <<x[1], x[2]>> /\ Name(x) = <<OrdersOf(x[1]), x[2]>>
BY DEF Entries, Name, OrdersOf, IsOwn

LEMMA NamesDiffer ==
  ASSUME NEW x \in Entries, NEW y \in Entries
  PROVE  Name(x) = Name(y) <=> x = y
BY DEF Entries, Name, IsOwn

(* An order given a value.                                                 *)
LEMMA OrderMapPut ==
  ASSUME NEW orders, NEW x \in Entries, NEW o, NEW c, c = Put(orders, x, o)
  PROVE  /\ OrderMap(c, x[1]) = Native!Insert(OrderMap(orders, x[1]), x[2], NativeOrder(o))
         /\ \A owner \in {"public", "own"} \ {x[1]} : OrderMap(c, owner) = OrderMap(orders, owner)
<1> DEFINE s == x[1]
           i == x[2]
           I == PublicIds \cup Nat
           d == OrderMap(orders, s)
           f == OrderMap(c, s)
           g == Native!Insert(d, i, NativeOrder(o))
<1>1. s \in {"public", "own"} /\ i \in I /\ x = <<s, i>>
  BY NameFacts
<1>2. /\ DOMAIN c = DOMAIN orders \cup {x} /\ c[x] = o
      /\ \A y \in DOMAIN orders : y # x => c[y] = orders[y]
  BY DEF Put
<1>3. \A owner \in {"public", "own"} \ {s} : OrderMap(c, owner) = OrderMap(orders, owner)
  <2>1. ASSUME NEW owner \in {"public", "own"} \ {s}
        PROVE  OrderMap(c, owner) = OrderMap(orders, owner)
    <3>1. \A k \in I : <<owner, k>> # x
      BY <1>1
    <3>2. \A k \in I : <<owner, k>> \in DOMAIN c <=> <<owner, k>> \in DOMAIN orders
      BY <1>2, <3>1
    <3>3. \A k \in I : <<owner, k>> \in DOMAIN orders => c[<<owner, k>>] = orders[<<owner, k>>]
      BY <1>2, <3>1
    <3> QED BY <3>2, <3>3 DEF OrderMap
  <2> QED BY <2>1
<1>4. /\ f = [k \in DOMAIN f |-> f[k]] /\ DOMAIN f = {k \in I : <<s, k>> \in DOMAIN c}
      /\ \A k \in DOMAIN f : f[k] = NativeOrder(c[<<s, k>>])
  BY DEF OrderMap
<1>5. /\ d = [k \in DOMAIN d |-> d[k]] /\ DOMAIN d = {k \in I : <<s, k>> \in DOMAIN orders}
      /\ \A k \in DOMAIN d : d[k] = NativeOrder(orders[<<s, k>>])
  BY DEF OrderMap
<1>6. \A k \in I : <<s, k>> = x <=> k = i
  BY <1>1
<1> HIDE DEF s, i, I, d, f
<1>7. /\ g = [k \in DOMAIN g |-> g[k]] /\ DOMAIN g = DOMAIN d \cup {i}
      /\ g[i] = NativeOrder(o) /\ \A k \in DOMAIN d : k # i => g[k] = d[k]
  BY ONLY DEF Native!Insert
<1> HIDE DEF g
<1>8. \A k \in I : <<s, k>> \in DOMAIN c <=> <<s, k>> \in DOMAIN orders \/ k = i
  BY <1>2, <1>6
<1>9. DOMAIN f = DOMAIN g
  BY <1>1, <1>4, <1>5, <1>7, <1>8
<1>10. ASSUME NEW k \in DOMAIN f PROVE f[k] = g[k]
  <2>1. CASE k = i
    BY <1>1, <1>2, <1>4, <1>7, <2>1
  <2>2. CASE k # i
    <3>1. k \in DOMAIN d /\ g[k] = d[k] /\ <<s, k>> # x /\ <<s, k>> \in DOMAIN orders
      BY <1>4, <1>5, <1>6, <1>7, <1>9, <2>2
    <3>2. c[<<s, k>>] = orders[<<s, k>>]
      BY <1>2, <3>1
    <3> QED BY <1>4, <1>5, <3>1, <3>2
  <2> QED BY <2>1, <2>2
<1>11. f = g
  BY <1>4, <1>7, <1>9, <1>10, SameMap
<1> QED BY <1>3, <1>11 DEF s, d, f, g, i

(* An order that leaves.                                                   *)
LEMMA OrderMapDrop ==
  ASSUME NEW orders, NEW x \in Entries, NEW c, c = Drop(orders, x)
  PROVE  /\ OrderMap(c, x[1]) = Native!Erase(OrderMap(orders, x[1]), x[2])
         /\ \A owner \in {"public", "own"} \ {x[1]} : OrderMap(c, owner) = OrderMap(orders, owner)
<1> DEFINE s == x[1]
           i == x[2]
           I == PublicIds \cup Nat
           d == OrderMap(orders, s)
           f == OrderMap(c, s)
           g == Native!Erase(d, i)
<1>1. s \in {"public", "own"} /\ i \in I /\ x = <<s, i>>
  BY NameFacts
<1>2. /\ DOMAIN c = DOMAIN orders \ {x}
      /\ \A y \in DOMAIN c : c[y] = orders[y]
  BY DEF Drop
<1>3. \A owner \in {"public", "own"} \ {s} : OrderMap(c, owner) = OrderMap(orders, owner)
  <2>1. ASSUME NEW owner \in {"public", "own"} \ {s}
        PROVE  OrderMap(c, owner) = OrderMap(orders, owner)
    <3>1. \A k \in I : <<owner, k>> # x
      BY <1>1
    <3>2. \A k \in I : <<owner, k>> \in DOMAIN c <=> <<owner, k>> \in DOMAIN orders
      BY <1>2, <3>1
    <3>3. \A k \in I : <<owner, k>> \in DOMAIN orders => c[<<owner, k>>] = orders[<<owner, k>>]
      BY <1>2, <3>2
    <3> QED BY <3>2, <3>3 DEF OrderMap
  <2> QED BY <2>1
<1>4. /\ f = [k \in DOMAIN f |-> f[k]] /\ DOMAIN f = {k \in I : <<s, k>> \in DOMAIN c}
      /\ \A k \in DOMAIN f : f[k] = NativeOrder(c[<<s, k>>])
  BY DEF OrderMap
<1>5. /\ d = [k \in DOMAIN d |-> d[k]] /\ DOMAIN d = {k \in I : <<s, k>> \in DOMAIN orders}
      /\ \A k \in DOMAIN d : d[k] = NativeOrder(orders[<<s, k>>])
  BY DEF OrderMap
<1>6. \A k \in I : <<s, k>> = x <=> k = i
  BY <1>1
<1> HIDE DEF s, i, I, d, f
<1>7. /\ g = [k \in DOMAIN g |-> g[k]] /\ DOMAIN g = DOMAIN d \ {i}
      /\ \A k \in DOMAIN g : g[k] = d[k]
  BY ONLY DEF Native!Erase
<1> HIDE DEF g
<1>8. \A k \in I : <<s, k>> \in DOMAIN c <=> <<s, k>> \in DOMAIN orders /\ k # i
  BY <1>2, <1>6
<1>9. DOMAIN f = DOMAIN g
  BY <1>1, <1>4, <1>5, <1>7, <1>8
<1>10. ASSUME NEW k \in DOMAIN f PROVE f[k] = g[k]
  <2>1. k \in DOMAIN d /\ g[k] = d[k] /\ <<s, k>> \in DOMAIN c
    BY <1>4, <1>7, <1>9
  <2>2. c[<<s, k>>] = orders[<<s, k>>]
    BY <1>2, <2>1
  <2> QED BY <1>4, <1>5, <2>1, <2>2
<1>11. f = g
  BY <1>4, <1>7, <1>9, <1>10, SameMap
<1> QED BY <1>3, <1>11 DEF s, d, f, g, i

(* The names of a queue.                                                   *)
LEMMA NamedFacts ==
  ASSUME NEW q \in Seq(Entries)
  PROVE  /\ Len(Named(q)) = Len(q) /\ DOMAIN Named(q) = 1..Len(q)
         /\ \A i \in 1..Len(q) : Named(q)[i] = Name(q[i]) /\ q[i] \in Entries
         /\ Named(q) = <<>> <=> q = <<>>
         /\ q # <<>> => Head(Named(q)) = Name(Head(q)) /\ Head(q) \in Entries
<1>1. Len(q) \in Nat /\ \A i \in 1..Len(q) : q[i] \in Entries
  OBVIOUS
<1>2. /\ DOMAIN Named(q) = 1..Len(q) /\ \A i \in 1..Len(q) : Named(q)[i] = Name(q[i])
      /\ Named(q) \in Seq({Name(x) : x \in Entries})
  BY <1>1 DEF Named
<1>3. Len(Named(q)) = Len(q)
  BY <1>1, <1>2
<1> DEFINE w == Named(q)
           T == {Name(x) : x \in Entries}
<1>4. w \in Seq(T) /\ Len(w) = Len(q)
  BY <1>2, <1>3
<1>5. \A i \in 1..Len(q) : w[i] = Name(q[i])
  BY <1>2
<1> HIDE DEF w, T
<1>6. w = <<>> <=> q = <<>>
  BY <1>4
<1>7. ASSUME q # <<>> PROVE Head(w) = Name(Head(q)) /\ Head(q) \in Entries
  <2>1. Len(q) > 0 /\ Head(q) = q[1] /\ 1 \in 1..Len(q)
    BY <1>7
  <2>2. Head(w) = w[1]
    BY <1>4, <1>6, <1>7
  <2> QED BY <1>1, <1>5, <2>1, <2>2
<1> QED BY <1>1, <1>2, <1>3, <1>6, <1>7 DEF w

LEMMA NamedAppend ==
  ASSUME NEW q \in Seq(Entries), NEW x \in Entries
  PROVE  Named(Append(q, x)) = Append(Named(q), Name(x))
<1> DEFINE w == Append(q, x)
           T == {Name(y) : y \in Entries}
<1>1. /\ Len(q) \in Nat /\ w \in Seq(Entries) /\ Len(w) = Len(q) + 1 /\ w[Len(q) + 1] = x
      /\ \A i \in 1..Len(q) : w[i] = q[i]
  OBVIOUS
<1> HIDE DEF w
<1>2. Named(q) \in Seq(T) /\ Named(w) \in Seq(T) /\ Name(x) \in T
  <2>1. \A u \in Seq(Entries) : Named(u) \in Seq(T)
    <3>1. ASSUME NEW u \in Seq(Entries) PROVE Named(u) \in Seq(T)
      <4>1. Len(u) \in Nat /\ \A i \in 1..Len(u) : u[i] \in Entries
        OBVIOUS
      <4> QED BY <4>1 DEF Named
    <3> QED BY <3>1
  <2> QED BY <1>1, <2>1
<1>3. /\ Len(Named(q)) = Len(q) /\ Len(Named(w)) = Len(q) + 1
      /\ \A i \in 1..Len(q) : Named(q)[i] = Name(q[i])
      /\ \A i \in 1..(Len(q) + 1) : Named(w)[i] = Name(w[i])
  BY <1>1, NamedFacts
<1>4. \A i \in 1..Len(q) : Named(w)[i] = Named(q)[i]
  BY <1>1, <1>3
<1>5. Named(w)[Len(q) + 1] = Name(x)
  BY <1>1, <1>3
<1> DEFINE a == Named(q)
           b == Named(w)
           y == Name(x)
           n == Len(q)
<1>6. /\ a \in Seq(T) /\ b \in Seq(T) /\ y \in T /\ n \in Nat /\ Len(a) = n /\ Len(b) = n + 1
      /\ \A i \in 1..n : b[i] = a[i]
      /\ b[n + 1] = y
  BY <1>1, <1>2, <1>3, <1>4, <1>5
<1> HIDE DEF a, b, y, n, T
<1>7. b = Append(a, y)
  <2> DEFINE c == Append(a, y)
  <2>1. /\ c \in Seq(T) /\ Len(c) = n + 1 /\ c[n + 1] = y
        /\ \A i \in 1..n : c[i] = a[i]
    BY <1>6
  <2> HIDE DEF c
  <2>2. \A i \in 1..(n + 1) : c[i] = b[i]
    BY <1>6, <2>1
  <2> QED BY <1>6, <2>1, <2>2 DEF c
<1> QED BY <1>7 DEF a, b, w, y

LEMMA NamedTail ==
  ASSUME NEW q \in Seq(Entries), q # <<>>
  PROVE  Named(Tail(q)) = Tail(Named(q))
<1> DEFINE w == Tail(q)
           T == {Name(y) : y \in Entries}
<1>1. /\ Len(q) \in Nat /\ w \in Seq(Entries) /\ Len(w) = Len(q) - 1 /\ Len(q) > 0
      /\ \A i \in 1..Len(w) : w[i] = q[i + 1]
  OBVIOUS
<1> HIDE DEF w
<1>2. \A u \in Seq(Entries) : Named(u) \in Seq(T)
  <2>1. ASSUME NEW u \in Seq(Entries) PROVE Named(u) \in Seq(T)
    <3>1. Len(u) \in Nat /\ \A i \in 1..Len(u) : u[i] \in Entries
      OBVIOUS
    <3> QED BY <3>1 DEF Named
  <2> QED BY <2>1
<1>3. /\ Len(Named(q)) = Len(q) /\ Len(Named(w)) = Len(w)
      /\ \A i \in 1..Len(q) : Named(q)[i] = Name(q[i])
      /\ \A i \in 1..Len(w) : Named(w)[i] = Name(w[i])
  BY <1>1, NamedFacts
<1>4. \A i \in 1..Len(w) : Named(w)[i] = Named(q)[i + 1]
  BY <1>1, <1>3
<1> DEFINE a == Named(q)
           b == Named(w)
           n == Len(q)
<1>5. /\ a \in Seq(T) /\ b \in Seq(T) /\ n \in Nat /\ n > 0 /\ Len(a) = n /\ Len(b) = n - 1
      /\ \A i \in 1..(n - 1) : b[i] = a[i + 1]
  BY <1>1, <1>2, <1>3, <1>4
<1> HIDE DEF a, b, n, T
<1>6. b = Tail(a)
  <2> DEFINE c == Tail(a)
  <2>1. /\ c \in Seq(T) /\ Len(c) = n - 1
        /\ \A i \in 1..(n - 1) : c[i] = a[i + 1]
    BY <1>5
  <2> HIDE DEF c
  <2>2. \A i \in 1..(n - 1) : c[i] = b[i]
    BY <1>5, <2>1
  <2> QED BY <1>5, <2>1, <2>2 DEF c
<1> QED BY <1>6 DEF a, b, w

LEMMA KeyFacts ==
  ASSUME NEW L \in Levels, NEW M \in Levels
  PROVE  /\ LevelAt(KeyOf(L)) = L /\ (KeyOf(L) = KeyOf(M) <=> L = M)
         /\ KeyOf(L) = <<Char(L[1]), L[2]>>
<1>1. LevelAt(KeyOf(L)) = L /\ LevelAt(KeyOf(M)) = M
  BY CharFacts
<1> QED BY <1>1 DEF KeyOf

\* The keys of the queues that hold an entry.
Keys(queues) == {KeyOf(L) : L \in {M \in Levels : queues[M] # <<>>}}

LEMMA QueueMapFacts ==
  ASSUME NEW queues \in [Levels -> Seq(Entries)], NEW f, f = QueueMap(queues)
  PROVE  /\ f = [k \in DOMAIN f |-> f[k]] /\ DOMAIN f = Keys(queues)
         /\ \A L \in Levels : /\ KeyOf(L) \in DOMAIN f <=> queues[L] # <<>>
                              /\ queues[L] # <<>> => f[KeyOf(L)] = Named(queues[L])
         /\ \A k \in DOMAIN f : \E L \in Levels : k = KeyOf(L) /\ queues[L] # <<>>
<1>1. /\ f = [k \in DOMAIN f |-> f[k]] /\ DOMAIN f = Keys(queues)
      /\ \A k \in DOMAIN f : f[k] = Named(queues[LevelAt(k)])
  BY DEF QueueMap, Keys
<1>2. \A k \in DOMAIN f : \E L \in Levels : k = KeyOf(L) /\ queues[L] # <<>>
  BY <1>1 DEF Keys
<1>3. ASSUME NEW L \in Levels
      PROVE  /\ KeyOf(L) \in DOMAIN f <=> queues[L] # <<>>
             /\ queues[L] # <<>> => f[KeyOf(L)] = Named(queues[L])
  <2>1. queues[L] # <<>> => KeyOf(L) \in DOMAIN f
    BY <1>1 DEF Keys
  <2>2. ASSUME KeyOf(L) \in DOMAIN f PROVE queues[L] # <<>>
    <3>1. PICK M \in Levels : KeyOf(L) = KeyOf(M) /\ queues[M] # <<>>
      BY <1>2, <2>2
    <3> QED BY <3>1, KeyFacts
  <2>3. LevelAt(KeyOf(L)) = L
    BY KeyFacts
  <2> QED BY <1>1, <2>1, <2>2, <2>3
<1> QED BY <1>1, <1>2, <1>3

(* A level with a new queue.                                               *)
LEMMA QueueMapUpdate ==
  ASSUME NEW queues \in [Levels -> Seq(Entries)], NEW L \in Levels, NEW q \in Seq(Entries),
         NEW c, c = Changed(queues, L, q)
  PROVE  /\ Named(q) = <<>> => QueueMap(c) = Native!Erase(QueueMap(queues), KeyOf(L))
         /\ Named(q) # <<>> => QueueMap(c) = Native!Insert(QueueMap(queues), KeyOf(L), Named(q))
<1> DEFINE r == KeyOf(L)
           w == Named(q)
           d == QueueMap(queues)
           f == QueueMap(c)
           g == IF w = <<>> THEN Native!Erase(d, r) ELSE Native!Insert(d, r, w)
<1>1. c \in [Levels -> Seq(Entries)] /\ c[L] = q /\ \A M \in Levels : M # L => c[M] = queues[M]
  BY DEF Changed
<1>2. /\ f = [k \in DOMAIN f |-> f[k]]
      /\ \A M \in Levels : /\ KeyOf(M) \in DOMAIN f <=> c[M] # <<>>
                           /\ c[M] # <<>> => f[KeyOf(M)] = Named(c[M])
      /\ \A k \in DOMAIN f : \E M \in Levels : k = KeyOf(M) /\ c[M] # <<>>
  BY ONLY <1>1, QueueMapFacts
<1>3. /\ d = [k \in DOMAIN d |-> d[k]]
      /\ \A M \in Levels : /\ KeyOf(M) \in DOMAIN d <=> queues[M] # <<>>
                           /\ queues[M] # <<>> => d[KeyOf(M)] = Named(queues[M])
      /\ \A k \in DOMAIN d : \E M \in Levels : k = KeyOf(M) /\ queues[M] # <<>>
  BY QueueMapFacts
<1>4. w = <<>> <=> q = <<>>
  BY NamedFacts
<1>5. \A M \in Levels : KeyOf(M) = r <=> M = L
  BY KeyFacts
<1> HIDE DEF r, w, d, f
<1>6. f = g
  <2>1. CASE w = <<>>
    <3>1. /\ g = [k \in DOMAIN g |-> g[k]] /\ DOMAIN g = DOMAIN d \ {r}
          /\ \A k \in DOMAIN g : g[k] = d[k]
      <4>1. g = Native!Erase(d, r)
        BY <2>1
      <4> HIDE DEF g
      <4> QED BY ONLY <4>1 DEF Native!Erase
    <3> HIDE DEF g
    <3>2. ASSUME NEW k \in DOMAIN f PROVE k \in DOMAIN g /\ f[k] = g[k]
      <4>1. PICK M \in Levels : k = KeyOf(M) /\ c[M] # <<>>
        BY <1>2
      <4>2. M # L
        BY <1>1, <1>4, <2>1, <4>1
      <4> QED BY <1>1, <1>2, <1>3, <1>5, <3>1, <4>1, <4>2
    <3>3. ASSUME NEW k \in DOMAIN g PROVE k \in DOMAIN f
      <4>1. PICK M \in Levels : k = KeyOf(M) /\ queues[M] # <<>>
        BY <1>3, <3>1
      <4>2. M # L
        BY <1>5, <3>1, <4>1
      <4> QED BY <1>1, <1>2, <4>1, <4>2
    <3>4. DOMAIN f = DOMAIN g /\ \A k \in DOMAIN f : f[k] = g[k]
      BY <3>2, <3>3
    <3> QED BY <1>2, <3>1, <3>4, SameMap
  <2>2. CASE w # <<>>
    <3>1. /\ g = [k \in DOMAIN g |-> g[k]] /\ DOMAIN g = DOMAIN d \cup {r}
          /\ g[r] = w /\ \A k \in DOMAIN d : k # r => g[k] = d[k]
      <4>1. g = Native!Insert(d, r, w)
        BY <2>2
      <4> HIDE DEF g
      <4> QED BY ONLY <4>1 DEF Native!Insert
    <3> HIDE DEF g
    <3>2. ASSUME NEW k \in DOMAIN f PROVE k \in DOMAIN g /\ f[k] = g[k]
      <4>1. PICK M \in Levels : k = KeyOf(M) /\ c[M] # <<>>
        BY <1>2
      <4>2. CASE M = L
        <5>1. k = r /\ f[k] = Named(c[M]) /\ c[M] = q
          BY <1>1, <1>2, <1>5, <4>1, <4>2
        <5>2. f[k] = w
          BY <5>1 DEF w
        <5> QED BY <3>1, <5>1, <5>2
      <4>3. CASE M # L
        <5>1. queues[M] # <<>> /\ k # r /\ k \in DOMAIN d
          BY <1>1, <1>3, <1>5, <4>1, <4>3
        <5>2. f[k] = d[k]
          BY <1>1, <1>2, <1>3, <4>1, <4>3, <5>1
        <5> QED BY <3>1, <5>1, <5>2
      <4> QED BY <4>2, <4>3
    <3>3. ASSUME NEW k \in DOMAIN g PROVE k \in DOMAIN f
      <4>1. CASE k = r
        BY <1>1, <1>2, <1>4, <1>5, <2>2, <4>1
      <4>2. CASE k # r
        <5>1. PICK M \in Levels : k = KeyOf(M) /\ queues[M] # <<>>
          BY <1>3, <3>1, <4>2
        <5> QED BY <1>1, <1>2, <1>5, <4>2, <5>1
      <4> QED BY <4>1, <4>2
    <3>4. DOMAIN f = DOMAIN g /\ \A k \in DOMAIN f : f[k] = g[k]
      BY <3>2, <3>3
    <3> QED BY <1>2, <3>1, <3>4, SameMap
  <2> QED BY <2>1, <2>2
<1> QED BY <1>6 DEF r, w, d, f

(***************************************************************************)
(* The primitives of the C++ engine on such an engine.                     *)
(***************************************************************************)

LEMMA SetLevelImage ==
  ASSUME NEW book \in [Levels -> Nat], NEW orders, NEW queues, NEW fills, NEW nextId, NEW now,
         NEW position, NEW L \in Levels, NEW n \in Int
  PROVE  Native!SetLevel(Img(book, orders, queues, fills, nextId, now, position),
                         Char(L[1]), L[2], n)
           = Img(Changed(book, L, IF n <= 0 THEN 0 ELSE n),
                 orders, queues, fills, nextId, now, position)
<1> DEFINE m == IF n <= 0 THEN 0 ELSE n
           c == Changed(book, L, m)
           e == Img(book, orders, queues, fills, nextId, now, position)
           d == Depth(c, L[1])
<1>1. m \in Nat /\ (m = 0 <=> n <= 0) /\ (m # 0 => m = n)
  OBVIOUS
<1> HIDE DEF m
<1>2. /\ m = 0 => d = Native!Erase(Depth(book, L[1]), L[2])
      /\ m # 0 => d = Native!Insert(Depth(book, L[1]), L[2], m)
      /\ \A side \in BookSides \ {L[1]} : Depth(c, side) = Depth(book, side)
  <2>1. c = Changed(book, L, m)
    OBVIOUS
  <2> HIDE DEF c
  <2> QED BY <1>1, <2>1, DepthUpdate
<1> DEFINE s == Native!BookFor(Char(L[1]))
<1>3. /\ L[1] = "bid" => s = "bids"
      /\ L[1] = "ask" => s = "asks"
      /\ L[1] \in {"bid", "ask"} /\ e[s] = Depth(book, L[1])
  <2>1. L[1] \in {"bid", "ask"}
    BY DEF Levels, BookSides
  <2>2. CASE L[1] = "bid"
    <3>1. s = "bids"
      BY <2>2, CharFacts DEF Native!BookFor
    <3> HIDE DEF s
    <3>2. e[s] = Depth(book, L[1])
      BY <2>2, <3>1 DEF Img
    <3> QED BY <2>2, <3>1, <3>2
  <2>3. CASE L[1] = "ask"
    <3>1. s = "asks"
      BY <2>3, CharFacts DEF Native!BookFor
    <3> HIDE DEF s
    <3>2. e[s] = Depth(book, L[1])
      BY <2>3, <3>1 DEF Img
    <3> QED BY <2>3, <3>1, <3>2
  <2> QED BY <2>1, <2>2, <2>3
<1>4. Native!SetLevel(e, Char(L[1]), L[2], n) = [e EXCEPT ![s] = d]
  <2>1. CASE n <= 0
    <3>1. d = Native!Erase(e[s], L[2])
      BY <1>1, <1>2, <1>3, <2>1
    <3> HIDE DEF d, e, s
    <3> QED BY <2>1, <3>1 DEF Native!SetLevel, s
  <2>2. CASE ~(n <= 0)
    <3>1. d = Native!Insert(e[s], L[2], n)
      BY <1>1, <1>2, <1>3, <2>2
    <3> HIDE DEF d, e, s
    <3> QED BY <2>2, <3>1 DEF Native!SetLevel, s
  <2> QED BY <2>1, <2>2
<1>5. CASE L[1] = "bid"
  <2>1. Depth(c, "ask") = Depth(book, "ask") /\ d = Depth(c, "bid") /\ s = "bids"
    BY <1>2, <1>3, <1>5 DEF BookSides
  <2> HIDE DEF c, d, s
  <2>2. [e EXCEPT ![s] = d] = Img(c, orders, queues, fills, nextId, now, position)
    BY <2>1 DEF Img
  <2> QED BY <1>4, <2>2 DEF c, m
<1>6. CASE L[1] = "ask"
  <2>1. Depth(c, "bid") = Depth(book, "bid") /\ d = Depth(c, "ask") /\ s = "asks"
    BY <1>2, <1>3, <1>6 DEF BookSides
  <2> HIDE DEF c, d, s
  <2>2. [e EXCEPT ![s] = d] = Img(c, orders, queues, fills, nextId, now, position)
    BY <2>1 DEF Img
  <2> QED BY <1>4, <2>2 DEF c, m
<1> QED BY <1>3, <1>5, <1>6

(* What an image says of a level.                                          *)
LEMMA DepthOfImage ==
  ASSUME NEW book \in [Levels -> Nat], NEW orders, NEW queues, NEW fills, NEW nextId, NEW now,
         NEW position, NEW L \in Levels, NEW d,
         d = Img(book, orders, queues, fills, nextId, now, position)
               [Native!BookFor(Char(L[1]))]
  PROVE  /\ L[2] \in DOMAIN d <=> book[L] > 0
         /\ book[L] > 0 => d[L[2]] = book[L]
         /\ d = Depth(book, L[1])
<1>1. d = Depth(book, L[1])
  <2> DEFINE e == Img(book, orders, queues, fills, nextId, now, position)
             s == Native!BookFor(Char(L[1]))
  <2>0. d = e[s]
    OBVIOUS
  <2>1. L[1] \in {"bid", "ask"}
    BY DEF Levels, BookSides
  <2>2. CASE L[1] = "bid"
    <3>1. s = "bids"
      BY <2>2, CharFacts DEF Native!BookFor
    <3> HIDE DEF s
    <3> QED BY <2>0, <2>2, <3>1 DEF Img
  <2>3. CASE L[1] = "ask"
    <3>1. s = "asks"
      BY <2>3, CharFacts DEF Native!BookFor
    <3> HIDE DEF s
    <3> QED BY <2>0, <2>3, <3>1 DEF Img
  <2> QED BY <2>1, <2>2, <2>3
<1>2. L = <<L[1], L[2]>> /\ L[2] \in Prices
  BY DEF Levels
<1>3. /\ DOMAIN Depth(book, L[1]) = {p \in Prices : book[<<L[1], p>>] > 0}
      /\ \A p \in DOMAIN Depth(book, L[1]) : Depth(book, L[1])[p] = book[<<L[1], p>>]
  BY DEF Depth
<1> QED BY ONLY <1>1, <1>2, <1>3

LEMMA AddToBookImage ==
  ASSUME NEW book \in [Levels -> Nat], NEW orders, NEW queues, NEW fills, NEW nextId, NEW now,
         NEW position, NEW L \in Levels, NEW n \in Nat, book[L] + n <= Native!MaxInt
  PROVE  Native!AddToBook(Img(book, orders, queues, fills, nextId, now, position),
                          Char(L[1]), L[2], n)
           = Img(AddToBook(book, L, n), orders, queues, fills, nextId, now, position)
<1> DEFINE e == Img(book, orders, queues, fills, nextId, now, position)
           d == e[Native!BookFor(Char(L[1]))]
           b == book[L]
           was == IF L[2] \in DOMAIN d THEN d[L[2]] ELSE 0
<1>1. /\ L[2] \in DOMAIN d <=> book[L] > 0
      /\ book[L] > 0 => d[L[2]] = book[L]
  <2> HIDE DEF d
  <2>1. d = Img(book, orders, queues, fills, nextId, now, position)[Native!BookFor(Char(L[1]))]
    BY DEF d, e
  <2> QED BY ONLY <2>1, DepthOfImage, book \in [Levels -> Nat], L \in Levels
<1>2. b \in Nat /\ Native!MaxInt \in Nat
  BY MaxIntFacts
<1>3. was = b
  BY <1>1, <1>2
<1>4. Native!AddToBook(e, Char(L[1]), L[2], n)
        = Native!SetLevel(e, Char(L[1]), L[2], Native!Wrap(was + n))
  BY DEF Native!AddToBook
<1>5. Native!Wrap(b + n) = b + n
  <2>1. b + n \in Int /\ -Native!MaxInt <= b + n /\ b + n <= Native!MaxInt
    <3> HIDE DEF b
    <3>1. b + n <= Native!MaxInt
      BY DEF b
    <3> QED BY <1>2, <3>1
  <2> HIDE DEF b
  <2> QED BY <2>1, WrapFacts
<1>6. Changed(book, L, IF b + n <= 0 THEN 0 ELSE b + n) = AddToBook(book, L, n)
  <2>1. (IF b + n <= 0 THEN 0 ELSE b + n) = b + n
    <3> HIDE DEF b
    <3> QED BY <1>2
  <2>2. AddToBook(book, L, n) = [book EXCEPT ![L] = b + n]
    BY DEF AddToBook
  <2> QED BY <2>1, <2>2 DEF Changed
<1>7. b + n \in Int
  <2> HIDE DEF b
  <2> QED BY <1>2
<1> HIDE DEF was, d, b
<1>8. Native!SetLevel(e, Char(L[1]), L[2], b + n)
        = Img(Changed(book, L, IF b + n <= 0 THEN 0 ELSE b + n),
              orders, queues, fills, nextId, now, position)
  BY <1>7, SetLevelImage
<1> QED BY <1>3, <1>4, <1>5, <1>6, <1>8

LEMMA RemoveFromBookImage ==
  ASSUME NEW book \in [Levels -> Nat], NEW orders, NEW queues, NEW fills, NEW nextId, NEW now,
         NEW position, NEW L \in Levels, NEW n \in Nat, book[L] <= Native!MaxInt,
         n <= Native!MaxInt
  PROVE  Native!RemoveFromBook(Img(book, orders, queues, fills, nextId, now, position),
                               Char(L[1]), L[2], n)
           = Img(RemoveFromBook(book, L, n), orders, queues, fills, nextId, now, position)
<1> DEFINE e == Img(book, orders, queues, fills, nextId, now, position)
           d == e[Native!BookFor(Char(L[1]))]
           b == book[L]
<1>1. /\ L[2] \in DOMAIN d <=> b > 0
      /\ b > 0 => d[L[2]] = b
  <2> HIDE DEF d
  <2>1. d = Img(book, orders, queues, fills, nextId, now, position)[Native!BookFor(Char(L[1]))]
    BY DEF d, e
  <2> QED BY ONLY <2>1, DepthOfImage, book \in [Levels -> Nat], L \in Levels
<1>2. b \in Nat /\ Native!MaxInt \in Nat /\ b <= Native!MaxInt
  BY MaxIntFacts
<1>3. Native!RemoveFromBook(e, Char(L[1]), L[2], n)
        = IF L[2] \in DOMAIN d
          THEN Native!SetLevel(e, Char(L[1]), L[2], Native!Wrap(d[L[2]] - n)) ELSE e
  BY DEF Native!RemoveFromBook
<1>4. RemoveFromBook(book, L, n) = Changed(book, L, b - Lesser(b, n))
  BY DEF RemoveFromBook, Changed
<1> HIDE DEF d
<1>5. CASE b = 0
  <2>1. b - Lesser(b, n) = b
    <3> HIDE DEF b
    <3>1. Lesser(b, n) \in Nat /\ Lesser(b, n) <= b
      BY <1>2, LesserFacts
    <3> DEFINE k == Lesser(b, n)
    <3> HIDE DEF k
    <3>2. k = 0
      BY <1>5, <3>1 DEF k
    <3> QED BY <1>2, <3>2 DEF k
  <2>2. Changed(book, L, b) = book
    BY DEF Changed
  <2>3. ~(b > 0)
    BY <1>5
  <2> QED BY <1>1, <1>3, <1>4, <2>1, <2>2, <2>3
<1>6. CASE b # 0
  <2>1. b > 0
    <3> HIDE DEF b
    <3> QED BY <1>2, <1>6
  <2>2. Native!Wrap(b - n) = b - n /\ b - n \in Int
    <3> HIDE DEF b
    <3>1. b - n \in Int /\ -Native!MaxInt <= b - n /\ b - n <= Native!MaxInt
      BY <1>2
    <3> QED BY <3>1, WrapFacts
  <2>3. (IF b - n <= 0 THEN 0 ELSE b - n) = b - Lesser(b, n)
    <3> HIDE DEF b
    <3> QED BY <1>2 DEF Lesser
  <2> HIDE DEF b
  <2>4. Native!SetLevel(e, Char(L[1]), L[2], b - n)
          = Img(Changed(book, L, IF b - n <= 0 THEN 0 ELSE b - n),
                orders, queues, fills, nextId, now, position)
    BY <2>2, SetLevelImage
  <2>5. Native!RemoveFromBook(e, Char(L[1]), L[2], n)
          = Native!SetLevel(e, Char(L[1]), L[2], b - n)
    BY <1>1, <1>3, <2>1, <2>2
  <2> QED BY <1>4, <2>3, <2>4, <2>5
<1> QED BY <1>5, <1>6

LEMMA QueueImage ==
  ASSUME NEW book, NEW orders, NEW queues \in [Levels -> Seq(Entries)], NEW fills, NEW nextId,
         NEW now, NEW position, NEW L \in Levels
  PROVE  Native!Queue(Img(book, orders, queues, fills, nextId, now, position), Char(L[1]), L[2])
           = Named(queues[L])
<1> DEFINE e == Img(book, orders, queues, fills, nextId, now, position)
           k == <<Char(L[1]), L[2]>>
           f == QueueMap(queues)
<1>1. e.queues = f
  BY DEF Img
<1>2. /\ KeyOf(L) \in DOMAIN f <=> queues[L] # <<>>
      /\ queues[L] # <<>> => f[KeyOf(L)] = Named(queues[L])
  BY QueueMapFacts
<1>3. k = KeyOf(L)
  BY DEF KeyOf
<1>4. Named(queues[L]) = <<>> <=> queues[L] = <<>>
  BY NamedFacts
<1>5. Native!Queue(e, Char(L[1]), L[2]) = IF k \in DOMAIN f THEN f[k] ELSE <<>>
  <2> HIDE DEF e
  <2> QED BY <1>1 DEF Native!Queue
<1> HIDE DEF f, k, e
<1> QED BY <1>2, <1>3, <1>4, <1>5 DEF e

LEMMA SetQueueImage ==
  ASSUME NEW book, NEW orders, NEW queues \in [Levels -> Seq(Entries)], NEW fills, NEW nextId,
         NEW now, NEW position, NEW L \in Levels, NEW q \in Seq(Entries)
  PROVE  Native!SetQueue(Img(book, orders, queues, fills, nextId, now, position),
                         Char(L[1]), L[2], Named(q))
           = Img(book, orders, Changed(queues, L, q), fills, nextId, now, position)
<1> DEFINE e == Img(book, orders, queues, fills, nextId, now, position)
           k == <<Char(L[1]), L[2]>>
           w == Named(q)
           f == QueueMap(queues)
           c == Changed(queues, L, q)
           g == QueueMap(c)
<1>1. e.queues = f
  BY DEF Img
<1>2. /\ w = <<>> => g = Native!Erase(f, k)
      /\ w # <<>> => g = Native!Insert(f, k, w)
  <2>1. c = Changed(queues, L, q)
    OBVIOUS
  <2>2. k = KeyOf(L)
    BY DEF KeyOf
  <2> HIDE DEF c, k
  <2> QED BY <2>1, <2>2, QueueMapUpdate
<1>3. Native!SetQueue(e, Char(L[1]), L[2], w) = [e EXCEPT !.queues = g]
  <2> HIDE DEF e, g, w, f
  <2> QED BY <1>1, <1>2 DEF Native!SetQueue
<1>4. [e EXCEPT !.queues = g] = Img(book, orders, c, fills, nextId, now, position)
  <2> HIDE DEF c
  <2> QED BY DEF Img
<1> QED BY <1>3, <1>4

LEMMA HasOrderImage ==
  ASSUME NEW book, NEW orders, NEW queues, NEW fills, NEW nextId, NEW now, NEW position,
         NEW x \in Entries, NEW e, e = Img(book, orders, queues, fills, nextId, now, position)
  PROVE  /\ Native!HasOrder(e, Name(x)) <=> x \in DOMAIN orders
         /\ x \in DOMAIN orders => Native!OrderOf(e, Name(x)) = NativeOrder(orders[x])
         /\ e[Name(x)[1]] = OrderMap(orders, x[1])
<1>1. /\ x[1] \in {"public", "own"} /\ x[2] \in PublicIds \cup Nat
      /\ x = <<x[1], x[2]>> /\ Name(x)[1] = OrdersOf(x[1]) /\ Name(x)[2] = x[2]
  BY NameFacts
<1>2. e[OrdersOf(x[1])] = OrderMap(orders, x[1])
  BY <1>1 DEF Img, OrdersOf
<1>3. /\ DOMAIN OrderMap(orders, x[1])
           = {k \in PublicIds \cup Nat : <<x[1], k>> \in DOMAIN orders}
      /\ \A k \in DOMAIN OrderMap(orders, x[1]) :
            OrderMap(orders, x[1])[k] = NativeOrder(orders[<<x[1], k>>])
  BY DEF OrderMap
<1> DEFINE m == OrderMap(orders, x[1])
           i == x[2]
<1>4. i \in DOMAIN m <=> x \in DOMAIN orders
  BY <1>1, <1>3
<1>5. x \in DOMAIN orders => m[i] = NativeOrder(orders[x])
  BY <1>1, <1>3, <1>4
<1> HIDE DEF m
<1> QED BY <1>1, <1>2, <1>4, <1>5 DEF Native!HasOrder, Native!OrderOf, m

(* An order with a new value, and one that leaves.                          *)
LEMMA PutImage ==
  ASSUME NEW book, NEW orders, NEW queues, NEW fills, NEW nextId, NEW now, NEW position,
         NEW x \in Entries, NEW o
  PROVE  [Img(book, orders, queues, fills, nextId, now, position)
             EXCEPT ![Name(x)[1]] = Native!Insert(@, Name(x)[2], NativeOrder(o))]
           = Img(book, Put(orders, x, o), queues, fills, nextId, now, position)
<1> DEFINE e == Img(book, orders, queues, fills, nextId, now, position)
           c == Put(orders, x, o)
           s == Name(x)[1]
           m == Native!Insert(e[s], Name(x)[2], NativeOrder(o))
<1>1. x[1] \in {"public", "own"} /\ s = OrdersOf(x[1]) /\ Name(x)[2] = x[2]
  BY NameFacts
<1>2. e[s] = OrderMap(orders, x[1])
  <2>1. e = Img(book, orders, queues, fills, nextId, now, position)
    OBVIOUS
  <2> HIDE DEF e
  <2> QED BY <2>1, HasOrderImage
<1>3. m = OrderMap(c, x[1])
      /\ \A owner \in {"public", "own"} \ {x[1]} : OrderMap(c, owner) = OrderMap(orders, owner)
  <2>1. c = Put(orders, x, o)
    OBVIOUS
  <2> HIDE DEF c
  <2>2. /\ OrderMap(c, x[1]) = Native!Insert(OrderMap(orders, x[1]), x[2], NativeOrder(o))
        /\ \A owner \in {"public", "own"} \ {x[1]} : OrderMap(c, owner) = OrderMap(orders, owner)
    BY <2>1, OrderMapPut
  <2> QED BY <1>1, <1>2, <2>2
<1>4. [e EXCEPT ![s] = m] = Img(book, c, queues, fills, nextId, now, position)
  <2> HIDE DEF c, m, s
  <2>1. CASE x[1] = "own"
    <3>1. s = "ownOrders" /\ m = OrderMap(c, "own")
          /\ OrderMap(c, "public") = OrderMap(orders, "public")
      BY <1>1, <1>3, <2>1 DEF OrdersOf
    <3> QED BY <3>1 DEF Img
  <2>2. CASE x[1] = "public"
    <3>1. s = "publicOrders" /\ m = OrderMap(c, "public")
          /\ OrderMap(c, "own") = OrderMap(orders, "own")
      BY <1>1, <1>3, <2>2 DEF OrdersOf
    <3> QED BY <3>1 DEF Img
  <2> QED BY <1>1, <2>1, <2>2
<1> QED BY <1>4

LEMMA EraseOrderImage ==
  ASSUME NEW book, NEW orders, NEW queues, NEW fills, NEW nextId, NEW now, NEW position,
         NEW x \in Entries
  PROVE  Native!EraseOrder(Img(book, orders, queues, fills, nextId, now, position), Name(x))
           = Img(book, Drop(orders, x), queues, fills, nextId, now, position)
<1> DEFINE e == Img(book, orders, queues, fills, nextId, now, position)
           c == Drop(orders, x)
           s == Name(x)[1]
           m == Native!Erase(e[s], Name(x)[2])
<1>1. x[1] \in {"public", "own"} /\ s = OrdersOf(x[1]) /\ Name(x)[2] = x[2]
  BY NameFacts
<1>2. e[s] = OrderMap(orders, x[1])
  <2>1. e = Img(book, orders, queues, fills, nextId, now, position)
    OBVIOUS
  <2> HIDE DEF e
  <2> QED BY <2>1, HasOrderImage
<1>3. m = OrderMap(c, x[1])
      /\ \A owner \in {"public", "own"} \ {x[1]} : OrderMap(c, owner) = OrderMap(orders, owner)
  <2>1. c = Drop(orders, x)
    OBVIOUS
  <2> HIDE DEF c
  <2>2. /\ OrderMap(c, x[1]) = Native!Erase(OrderMap(orders, x[1]), x[2])
        /\ \A owner \in {"public", "own"} \ {x[1]} : OrderMap(c, owner) = OrderMap(orders, owner)
    BY <2>1, OrderMapDrop
  <2> QED BY <1>1, <1>2, <2>2
<1>4. [e EXCEPT ![s] = m] = Img(book, c, queues, fills, nextId, now, position)
  <2> HIDE DEF c, m, s
  <2>1. CASE x[1] = "own"
    <3>1. s = "ownOrders" /\ m = OrderMap(c, "own")
          /\ OrderMap(c, "public") = OrderMap(orders, "public")
      BY <1>1, <1>3, <2>1 DEF OrdersOf
    <3> QED BY <3>1 DEF Img
  <2>2. CASE x[1] = "public"
    <3>1. s = "publicOrders" /\ m = OrderMap(c, "public")
          /\ OrderMap(c, "own") = OrderMap(orders, "own")
      BY <1>1, <1>3, <2>2 DEF OrdersOf
    <3> QED BY <3>1 DEF Img
  <2> QED BY <1>1, <2>1, <2>2
<1>5. Native!EraseOrder(e, Name(x)) = [e EXCEPT ![s] = m]
  <2> HIDE DEF e
  <2> QED BY DEF Native!EraseOrder
<1> QED BY <1>4, <1>5

LEMMA SetSizeImage ==
  ASSUME NEW book, NEW orders, NEW queues, NEW fills, NEW nextId, NEW now, NEW position,
         orders \in [DOMAIN orders -> Orders], NEW x \in Entries, x \in DOMAIN orders,
         NEW n \in Nat \ {0}
  PROVE  Native!SetSize(Img(book, orders, queues, fills, nextId, now, position), Name(x), n)
           = Img(book, SetSize(orders, x, n), queues, fills, nextId, now, position)
<1> DEFINE e == Img(book, orders, queues, fills, nextId, now, position)
           o == [level |-> orders[x].level, size |-> n]
           d == Native!OrderOf(e, Name(x))
<1>1. d = NativeOrder(orders[x])
  <2>1. e = Img(book, orders, queues, fills, nextId, now, position)
    OBVIOUS
  <2> HIDE DEF e
  <2> QED BY <2>1, HasOrderImage
<1>2. [d EXCEPT !.size = n] = NativeOrder(o)
  BY <1>1 DEF NativeOrder
<1>3. SetSize(orders, x, n) = Put(orders, x, o)
  BY DEF SetSize
<1>4. Native!SetSize(e, Name(x), n)
        = [e EXCEPT ![Name(x)[1]] = Native!Insert(@, Name(x)[2], [d EXCEPT !.size = n])]
  <2> HIDE DEF e
  <2> QED BY DEF Native!SetSize
<1>5. [e EXCEPT ![Name(x)[1]] = Native!Insert(@, Name(x)[2], NativeOrder(o))]
        = Img(book, Put(orders, x, o), queues, fills, nextId, now, position)
  <2> HIDE DEF o
  <2> QED BY PutImage
<1> HIDE DEF e, o, d
<1>6. Native!SetSize(e, Name(x), n)
        = [e EXCEPT ![Name(x)[1]] = Native!Insert(@, Name(x)[2], NativeOrder(o))]
  BY <1>2, <1>4
<1> QED BY <1>3, <1>5, <1>6 DEF e

(***************************************************************************)
(* Both engines take an entry out of a queue by the same loop.             *)
(***************************************************************************)

LEMMA RemoveIfImage ==
  ASSUME NEW q \in Seq(Entries), NEW x \in Entries
  PROVE  /\ Native!RemoveIf(Named(q), Name(x)) = Named(Without(q, x))
         /\ Without(q, x) \in Seq(Entries)
<1> DEFINE w == Named(q)
           y == Name(x)
<1>1. Native!RemoveIf(w, y) = Without(w, y)
  BY DEF Native!RemoveIf, Without
<1>2. /\ Len(w) = Len(q) /\ Len(q) \in Nat
      /\ \A i \in 1..Len(q) : w[i] = Name(q[i]) /\ q[i] \in Entries
  BY NamedFacts
<1>3. \A i \in 1..Len(q) : w[i] = y <=> q[i] = x
  BY <1>2, NamesDiffer
<1> HIDE DEF w, y
<1>4. PICK f : KeptTurns(f, q, x)
  BY WithoutTurns
<1>5. PICK g : KeptTurns(g, w, y)
  BY WithoutTurns
<1> DEFINE S == {n \in Nat : n <= Len(q) => f[n] \in Seq(Entries) /\ g[n] = Named(f[n])}
<1>6. 0 \in S
  <2>1. f[0] = <<>> /\ g[0] = <<>>
    BY <1>4, <1>5 DEF KeptTurns
  <2>2. <<>> \in Seq(Entries) /\ Named(<<>>) = <<>>
    BY DEF Named
  <2> QED BY <2>1, <2>2
<1>7. ASSUME NEW n \in S PROVE n + 1 \in S
  <2>1. n \in Nat /\ n + 1 \in Nat
    OBVIOUS
  <2>2. ASSUME n + 1 <= Len(q) PROVE f[n + 1] \in Seq(Entries) /\ g[n + 1] = Named(f[n + 1])
    <3>1. n <= Len(q) /\ n + 1 \in 1..Len(q)
      BY <1>2, <2>1, <2>2
    <3>2. f[n] \in Seq(Entries) /\ g[n] = Named(f[n])
      BY <3>1
    <3>3. /\ f[n + 1] = IF q[n + 1] = x THEN f[n] ELSE Append(f[n], q[n + 1])
          /\ g[n + 1] = IF w[n + 1] = y THEN g[n] ELSE Append(g[n], w[n + 1])
      BY <1>4, <1>5, <2>1 DEF KeptTurns
    <3>4. q[n + 1] \in Entries /\ w[n + 1] = Name(q[n + 1]) /\ (w[n + 1] = y <=> q[n + 1] = x)
      BY <1>2, <1>3, <3>1
    <3>5. CASE q[n + 1] = x
      BY <3>2, <3>3, <3>4, <3>5
    <3>6. CASE q[n + 1] # x
      <4> DEFINE a == f[n]
                 v == q[n + 1]
      <4>1. a \in Seq(Entries) /\ v \in Entries /\ f[n + 1] = Append(a, v)
            /\ g[n + 1] = Append(Named(a), Name(v))
        BY <3>2, <3>3, <3>4, <3>6
      <4> HIDE DEF a, v
      <4>2. Append(a, v) \in Seq(Entries) /\ Named(Append(a, v)) = Append(Named(a), Name(v))
        BY <4>1, NamedAppend
      <4> QED BY <4>1, <4>2
    <3> QED BY <3>5, <3>6
  <2> QED BY <2>1, <2>2
<1>8. S = Nat
  <2>1. S \in SUBSET Nat
    OBVIOUS
  <2> HIDE DEF S
  <2> QED BY <1>6, <1>7, <2>1, SetInduction
<1>9. f[Len(q)] \in Seq(Entries) /\ g[Len(q)] = Named(f[Len(q)])
  <2>1. Len(q) \in S /\ Len(q) <= Len(q)
    BY <1>2, <1>8
  <2> QED BY <2>1
<1>10. Without(q, x) = f[Len(q)] /\ Without(w, y) = g[Len(q)]
  BY <1>2, <1>4, <1>5 DEF KeptTurns
<1> QED BY <1>1, <1>9, <1>10 DEF w, y

(***************************************************************************)
(* Fills in the rows of the C++ engine.                                    *)
(***************************************************************************)

CodedFills == {CodedFill(f) : f \in ActiveFills}

LEMMA CodedFacts ==
  ASSUME NEW s \in Seq(ActiveFills)
  PROVE  /\ Coded(s) \in Seq(CodedFills) /\ Len(Coded(s)) = Len(s)
         /\ \A i \in 1..Len(s) : Coded(s)[i] = CodedFill(s[i]) /\ s[i] \in ActiveFills
         /\ Coded(s) = <<>> <=> s = <<>>
<1>1. Len(s) \in Nat /\ \A i \in 1..Len(s) : s[i] \in ActiveFills
  OBVIOUS
<1>2. /\ Coded(s) \in Seq(CodedFills) /\ DOMAIN Coded(s) = 1..Len(s)
      /\ \A i \in 1..Len(s) : Coded(s)[i] = CodedFill(s[i])
  BY <1>1 DEF Coded, CodedFills
<1> DEFINE w == Coded(s)
<1>3. w \in Seq(CodedFills) /\ DOMAIN w = 1..Len(s)
  BY <1>2
<1> HIDE DEF w
<1>4. Len(w) = Len(s)
  BY <1>1, <1>3
<1>5. w = <<>> <=> s = <<>>
  BY <1>3, <1>4
<1> QED BY <1>1, <1>2, <1>4, <1>5 DEF w

LEMMA SameSeq ==
  ASSUME NEW T, NEW u \in Seq(T), NEW w \in Seq(T), Len(u) = Len(w),
         \A i \in 1..Len(u) : u[i] = w[i]
  PROVE  u = w
OBVIOUS

LEMMA CodedAppend ==
  ASSUME NEW s \in Seq(ActiveFills), NEW f \in ActiveFills
  PROVE  Coded(Append(s, f)) = Append(Coded(s), CodedFill(f))
<1> DEFINE w == Append(s, f)
           a == Coded(s)
           b == Coded(w)
           y == CodedFill(f)
           c == Append(a, y)
           n == Len(s)
<1>1. /\ n \in Nat /\ w \in Seq(ActiveFills) /\ Len(w) = n + 1 /\ w[n + 1] = f
      /\ \A i \in 1..n : w[i] = s[i]
  OBVIOUS
<1> HIDE DEF w, n
<1>2. /\ a \in Seq(CodedFills) /\ Len(a) = n /\ \A i \in 1..n : a[i] = CodedFill(s[i])
  BY CodedFacts DEF n
<1>3. /\ b \in Seq(CodedFills) /\ Len(b) = n + 1
      /\ \A i \in 1..(n + 1) : b[i] = CodedFill(w[i])
  BY <1>1, CodedFacts
<1>4. y \in CodedFills
  BY DEF CodedFills
<1>5. b[n + 1] = y /\ \A i \in 1..n : b[i] = a[i]
  BY <1>1, <1>2, <1>3
<1> HIDE DEF a, b, y
<1>6. /\ c \in Seq(CodedFills) /\ Len(c) = n + 1 /\ c[n + 1] = y
      /\ \A i \in 1..n : c[i] = a[i]
  BY <1>1, <1>2, <1>4
<1> HIDE DEF c
<1>7. \A i \in 1..Len(b) : b[i] = c[i]
  BY <1>1, <1>3, <1>5, <1>6
<1>8. b = c
  BY <1>3, <1>6, <1>7, SameSeq
<1> QED BY <1>8 DEF a, b, c, w, y

LEMMA CodedConcat ==
  ASSUME NEW s \in Seq(ActiveFills), NEW t \in Seq(ActiveFills)
  PROVE  Coded(s \o t) = Coded(s) \o Coded(t)
<1> DEFINE w == s \o t
           a == Coded(s)
           b == Coded(t)
           c == Coded(w)
           d == a \o b
           m == Len(s)
           n == Len(t)
<1>1. /\ m \in Nat /\ n \in Nat /\ w \in Seq(ActiveFills) /\ Len(w) = m + n
      /\ \A i \in 1..m : w[i] = s[i]
      /\ \A i \in 1..(m + n) : i > m => w[i] = t[i - m] /\ i - m \in 1..n
  OBVIOUS
<1> HIDE DEF w, m, n
<1>2. /\ a \in Seq(CodedFills) /\ Len(a) = m /\ \A i \in 1..m : a[i] = CodedFill(s[i])
      /\ b \in Seq(CodedFills) /\ Len(b) = n /\ \A i \in 1..n : b[i] = CodedFill(t[i])
  BY CodedFacts DEF m, n
<1>3. /\ c \in Seq(CodedFills) /\ Len(c) = m + n
      /\ \A i \in 1..(m + n) : c[i] = CodedFill(w[i])
  BY <1>1, CodedFacts
<1> HIDE DEF a, b, c
<1>4. /\ d \in Seq(CodedFills) /\ Len(d) = m + n
      /\ \A i \in 1..m : d[i] = a[i]
      /\ \A i \in 1..(m + n) : i > m => d[i] = b[i - m]
  <2>1. a \in Seq(CodedFills) /\ b \in Seq(CodedFills) /\ Len(a) = m /\ Len(b) = n
    BY <1>2
  <2>2. m \in Nat /\ n \in Nat
    BY <1>1
  <2>3. /\ d \in Seq(CodedFills) /\ Len(d) = Len(a) + Len(b)
        /\ \A i \in 1..Len(a) : d[i] = a[i]
        /\ \A i \in 1..(Len(a) + Len(b)) : i > Len(a) => /\ d[i] = b[i - Len(a)]
                                                         /\ i - Len(a) \in 1..Len(b)
    <3>1. a \in Seq(CodedFills) /\ b \in Seq(CodedFills)
      BY <2>1
    <3> QED BY ONLY <3>1
  <2> HIDE DEF d
  <2> QED BY ONLY <2>1, <2>3
<1> HIDE DEF d
<1>5. ASSUME NEW i \in 1..(m + n) PROVE c[i] = d[i]
  <2>1. CASE i > m
    BY <1>1, <1>2, <1>3, <1>4, <2>1
  <2>2. CASE ~(i > m)
    <3>1. i \in 1..m
      BY <1>1, <2>2
    <3> QED BY <1>1, <1>2, <1>3, <1>4, <3>1
  <2> QED BY <2>1, <2>2
<1>6. c = d
  BY <1>3, <1>4, <1>5, SameSeq
<1> QED BY <1>6 DEF a, b, c, d, w

LEMMA CodedSubSeq ==
  ASSUME NEW s \in Seq(ActiveFills), NEW k \in Nat, k <= Len(s)
  PROVE  /\ SubSeq(Coded(s), k + 1, Len(Coded(s))) = Coded(SubSeq(s, k + 1, Len(s)))
         /\ SubSeq(s, k + 1, Len(s)) \in Seq(ActiveFills)
<1> DEFINE w == SubSeq(s, k + 1, Len(s))
           a == Coded(s)
           b == Coded(w)
           c == SubSeq(a, k + 1, Len(a))
           n == Len(s)
<1>1. /\ n \in Nat /\ w \in Seq(ActiveFills) /\ Len(w) = n - k /\ k <= n
      /\ \A i \in 1..(n - k) : w[i] = s[k + i]
  OBVIOUS
<1> HIDE DEF w, n
<1>2. a \in Seq(CodedFills) /\ Len(a) = n /\ \A i \in 1..n : a[i] = CodedFill(s[i])
  BY CodedFacts DEF n
<1>3. b \in Seq(CodedFills) /\ Len(b) = n - k /\ \A i \in 1..(n - k) : b[i] = CodedFill(w[i])
  BY <1>1, CodedFacts
<1> HIDE DEF a, b
<1>4. /\ c \in Seq(CodedFills) /\ Len(c) = n - k
      /\ \A i \in 1..(n - k) : c[i] = a[k + i]
  BY <1>1, <1>2
<1> HIDE DEF c
<1>5. ASSUME NEW i \in 1..Len(b) PROVE b[i] = c[i]
  <2>1. i \in 1..(n - k) /\ k + i \in 1..n
    BY <1>1, <1>3
  <2> QED BY <1>1, <1>2, <1>3, <1>4, <2>1
<1>6. b = c
  BY <1>3, <1>4, <1>5, SameSeq
<1> QED BY <1>1, <1>6 DEF a, b, c, w

(* Read back, they are the fills.                                          *)
LEMMA CodedRows ==
  ASSUME NEW s \in Seq(ActiveFills)
  PROVE  FromRows(Coded(s)) = s
<1> DEFINE a == Coded(s)
           b == FromRows(a)
<1>1. /\ a \in Seq(CodedFills) /\ Len(a) = Len(s)
      /\ \A i \in 1..Len(s) : a[i] = CodedFill(s[i]) /\ s[i] \in ActiveFills
  BY CodedFacts
<1> HIDE DEF a
<1>2. DOMAIN a = 1..Len(s) /\ Len(s) \in Nat
  BY <1>1
<1>3. \A f \in ActiveFills : FillFromRow(CodedFill(f)) = f
  <2>1. ASSUME NEW f \in ActiveFills PROVE FillFromRow(CodedFill(f)) = f
    <3>1. f.side \in {"buy", "sell"}
          /\ f = [id |-> f.id, side |-> f.side, price |-> f.price, size |-> f.size, ts |-> f.ts]
      BY DEF ActiveFills, OrderSides
    <3>2. (IF Char(f.side) = "B" THEN "buy" ELSE "sell") = f.side
      BY <3>1 DEF Char
    <3> QED BY <3>1, <3>2 DEF FillFromRow, CodedFill
  <2> QED BY <2>1
<1>4. b = [i \in 1..Len(s) |-> FillFromRow(a[i])]
  BY <1>2 DEF FromRows
<1>5. \A i \in 1..Len(s) : FillFromRow(a[i]) = s[i]
  BY <1>1, <1>3
<1>6. b = [i \in 1..Len(s) |-> s[i]]
  BY <1>4, <1>5
<1>7. s = [i \in 1..Len(s) |-> s[i]]
  OBVIOUS
<1> QED BY <1>6, <1>7 DEF a

(***************************************************************************)
(* The operations of the C++ engine are those of the reference engine.      *)
(***************************************************************************)

\* Every order is no larger than the largest event or order.
Small(e) == \A x \in DOMAIN e.orders : e.orders[x].size <= MaxSize

\* What the operations need of an engine.
Sound(e) == EngineInv(e) /\ Small(e) /\ Fits(e)

LEMMA SoundFields ==
  ASSUME NEW e, EngineOK(e)
  PROVE  /\ DOMAIN e = Fields /\ e = [k \in DOMAIN e |-> e[k]]
         /\ e.book \in [Levels -> Nat] /\ e.queues \in [Levels -> Seq(Entries)]
         /\ e.orders \in [DOMAIN e.orders -> Orders] /\ DOMAIN e.orders \subseteq Entries
         /\ e.fills \in Seq(Fills) /\ e.fills \in Seq(ActiveFills)
         /\ e.nextId \in Nat /\ e.now \in Nat /\ e.position \in Int
         /\ \A x \in DOMAIN e.orders : /\ e.orders[x].level \in Levels
                                       /\ e.orders[x].size \in Nat \ {0}
         /\ \A L \in Levels : e.book[L] \in Nat /\ e.queues[L] \in Seq(Entries)
<1>1. /\ DOMAIN e = Fields /\ e = [k \in DOMAIN e |-> e[k]]
      /\ e.book \in [Levels -> Nat] /\ e.queues \in [Levels -> Seq(Entries)]
      /\ e.orders \in [DOMAIN e.orders -> Orders] /\ DOMAIN e.orders \subseteq Entries
      /\ e.fills \in Seq(Fills) /\ e.nextId \in Nat /\ e.now \in Nat /\ e.position \in Int
  BY EngineFields
<1>2. e.fills \in Seq(ActiveFills)
  BY <1>1, FillsAreActive
<1>3. \A x \in DOMAIN e.orders : e.orders[x] \in Orders
  BY <1>1
<1>4. \A x \in DOMAIN e.orders : e.orders[x].level \in Levels /\ e.orders[x].size \in Nat \ {0}
  BY <1>3 DEF Orders
<1> QED BY <1>1, <1>2, <1>4

LEMMA RestImage ==
  ASSUME NEW e, EngineOK(e), NEW x \in Entries, NEW L \in Levels, NEW n \in Nat \ {0},
         e.book[L] + n <= Native!MaxInt
  PROVE  Native!Add(Image(e), Name(x), Char(L[1]), L[2], n) = Image(Rest(e, x, L, n))
<1> DEFINE f == Rest(e, x, L, n)
           o == [level |-> L, size |-> n]
           os == Put(e.orders, x, o)
           qs == Enqueue(e.queues, L, x)
           i0 == Image(e)
           i1 == Img(e.book, os, e.queues, e.fills, e.nextId, e.now, e.position)
           i2 == Img(e.book, os, qs, e.fills, e.nextId, e.now, e.position)
           i3 == Img(AddToBook(e.book, L, n), os, qs, e.fills, e.nextId, e.now, e.position)
           q == Append(e.queues[L], x)
<1>1. /\ DOMAIN e = Fields
      /\ e.book \in [Levels -> Nat] /\ e.queues \in [Levels -> Seq(Entries)]
      /\ e.queues[L] \in Seq(Entries)
  BY SoundFields
<1>2. /\ f.book = AddToBook(e.book, L, n)
      /\ f.orders = Put(e.orders, x, o)
      /\ f.queues = Enqueue(e.queues, L, x)
      /\ f.fills = e.fills /\ f.nextId = e.nextId /\ f.now = e.now
      /\ f.position = e.position
  BY <1>1 DEF Rest, Fields
<1>3. Image(f) = i3
  <2> HIDE DEF f, o
  <2> QED BY <1>2 DEF Image
<1>4. i1 = [i0 EXCEPT ![Name(x)[1]] = Native!Insert(@, Name(x)[2], NativeOrder(o))]
  BY PutImage DEF Image
<1>5. NativeOrder(o) = [side |-> Char(L[1]), price |-> L[2], size |-> n]
  BY DEF NativeOrder
<1>6. Native!Queue(i0, Char(L[1]), L[2]) = Named(e.queues[L])
  BY <1>1, QueueImage DEF Image
<1>7. Append(Named(e.queues[L]), Name(x)) = Named(q) /\ q \in Seq(Entries)
  BY <1>1, NamedAppend
<1>8. Enqueue(e.queues, L, x) = Changed(e.queues, L, q)
  BY DEF Enqueue, Changed
<1> HIDE DEF q
<1>9. Native!SetQueue(i1, Char(L[1]), L[2], Named(q)) = i2
  BY <1>1, <1>7, <1>8, SetQueueImage
<1>10. Native!AddToBook(i2, Char(L[1]), L[2], n) = i3
  <2>1. n \in Nat /\ e.book[L] + n <= Native!MaxInt
    OBVIOUS
  <2> HIDE DEF os, qs
  <2> QED BY ONLY <1>1, <2>1, L \in Levels, AddToBookImage
<1> HIDE DEF i0, i1, i2, i3, o, f, os, qs
<1>11. Native!Add(i0, Name(x), Char(L[1]), L[2], n)
         = Native!AddToBook(Native!SetQueue(i1, Char(L[1]), L[2],
                                            Append(Native!Queue(i0, Char(L[1]), L[2]), Name(x))),
                            Char(L[1]), L[2], n)
  BY <1>4, <1>5 DEF Native!Add
<1> QED BY <1>3, <1>6, <1>7, <1>9, <1>10, <1>11 DEF i0, f

LEMMA DequeueImage ==
  ASSUME NEW book, NEW orders, NEW queues \in [Levels -> Seq(Entries)], NEW fills, NEW nextId,
         NEW now, NEW position, NEW L \in Levels, NEW x \in Entries
  PROVE  Native!RemoveFromQueue(Img(book, orders, queues, fills, nextId, now, position),
                                Char(L[1]), L[2], Name(x))
           = Img(book, orders, Dequeue(queues, L, x), fills, nextId, now, position)
<1> DEFINE i == Img(book, orders, queues, fills, nextId, now, position)
           q == queues[L]
           w == Without(q, x)
<1>1. q \in Seq(Entries)
  OBVIOUS
<1>2. Native!Queue(i, Char(L[1]), L[2]) = Named(q)
  BY QueueImage
<1>3. Dequeue(queues, L, x) = Changed(queues, L, w)
  BY DEF Dequeue, Changed
<1> HIDE DEF q
<1>4. Native!RemoveIf(Named(q), Name(x)) = Named(w) /\ w \in Seq(Entries)
  BY <1>1, RemoveIfImage
<1> HIDE DEF w
<1>5. Native!SetQueue(i, Char(L[1]), L[2], Named(w))
        = Img(book, orders, Changed(queues, L, w), fills, nextId, now, position)
  BY <1>4, SetQueueImage
<1> HIDE DEF i
<1>6. Native!RemoveFromQueue(i, Char(L[1]), L[2], Name(x))
        = Native!SetQueue(i, Char(L[1]), L[2],
                          Native!RemoveIf(Native!Queue(i, Char(L[1]), L[2]), Name(x)))
  BY DEF Native!RemoveFromQueue
<1> QED BY <1>2, <1>3, <1>4, <1>5, <1>6 DEF i

(* The order an entry names, in both engines.                              *)
LEMMA OrderImage ==
  ASSUME NEW e, EngineOK(e), NEW x \in Entries, NEW i, i = Image(e)
  PROVE  /\ Native!HasOrder(i, Name(x)) <=> x \in DOMAIN e.orders
         /\ x \in DOMAIN e.orders =>
               /\ Native!OrderOf(i, Name(x)) = NativeOrder(e.orders[x])
               /\ Native!OrderOf(i, Name(x)).side = Char(e.orders[x].level[1])
               /\ Native!OrderOf(i, Name(x)).price = e.orders[x].level[2]
               /\ Native!OrderOf(i, Name(x)).size = e.orders[x].size
<1>1. i = Img(e.book, e.orders, e.queues, e.fills, e.nextId, e.now, e.position)
  BY DEF Image
<1>2. /\ Native!HasOrder(i, Name(x)) <=> x \in DOMAIN e.orders
      /\ x \in DOMAIN e.orders => Native!OrderOf(i, Name(x)) = NativeOrder(e.orders[x])
  BY <1>1, HasOrderImage
<1> QED BY <1>2 DEF NativeOrder

LEMMA ResizeFields ==
  ASSUME NEW e, EngineOK(e), NEW x \in DOMAIN e.orders, NEW n \in Nat,
         NEW o, o = e.orders[x], NEW f, f = Resize(e, x, n)
  PROVE  /\ f.book = IF n >= o.size THEN AddToBook(e.book, o.level, n - o.size)
                                    ELSE RemoveFromBook(e.book, o.level, o.size - n)
         /\ f.orders = SetSize(e.orders, x, n)
         /\ f.queues = IF n = 0 THEN Dequeue(e.queues, o.level, x) ELSE e.queues
         /\ f.fills = e.fills /\ f.nextId = e.nextId /\ f.now = e.now
         /\ f.position = e.position
<1>1. DOMAIN e = Fields
  BY SoundFields
<1> QED BY <1>1 DEF Resize, Fields

LEMMA CancelImage ==
  ASSUME NEW e, Sound(e), NEW ev \in MBOEvents, ev.size <= MaxSize
  PROVE  Native!CancelPublic(Image(e), Name(Public(ev.id)), Char(ev.level[1]), ev.level[2],
                             ev.size)
           = Image(CancelPublic(e, ev))
<1> DEFINE x == Public(ev.id)
           y == Name(x)
           L == ev.level
           n == ev.size
           i == Image(e)
           f == CancelPublic(e, ev)
           c == Native!CancelPublic(i, y, Char(L[1]), L[2], n)
<1>1. x \in Entries /\ L \in Levels /\ n \in Nat \ {0} /\ n <= MaxSize
  BY EntryFacts DEF MBOEvents
<1>2. EngineOK(e) /\ Fits(e) /\ Small(e)
  BY DEF Sound, EngineInv
<1>3. /\ DOMAIN e = Fields
      /\ e.book \in [Levels -> Nat] /\ e.queues \in [Levels -> Seq(Entries)]
      /\ e.orders \in [DOMAIN e.orders -> Orders]
      /\ \A z \in DOMAIN e.orders : e.orders[z].level \in Levels /\ e.orders[z].size \in Nat \ {0}
  BY <1>2, SoundFields
<1>4. Native!MaxInt \in Nat /\ MaxSize \in Nat /\ MaxSize <= Native!MaxInt
  BY MaxIntFacts
<1>5. \A M \in Levels : e.book[M] <= Native!MaxInt
  BY <1>2 DEF Fits
<1>6. /\ Native!HasOrder(i, y) <=> x \in DOMAIN e.orders
      /\ x \in DOMAIN e.orders =>
            /\ Native!OrderOf(i, y).side = Char(e.orders[x].level[1])
            /\ Native!OrderOf(i, y).price = e.orders[x].level[2]
            /\ Native!OrderOf(i, y).size = e.orders[x].size
  <2> HIDE DEF i, x
  <2>1. i = Image(e)
    BY DEF i
  <2> QED BY <1>1, <1>2, <2>1, OrderImage
<1>7. f = IF x \notin DOMAIN e.orders
          THEN [e EXCEPT !.book = RemoveFromBook(@, L, n)]
          ELSE Resize(e, x, e.orders[x].size - Lesser(e.orders[x].size, n))
  BY DEF CancelPublic
<1> HIDE DEF x, y, L, n, f
<1>8. CASE x \notin DOMAIN e.orders
  <2>1. /\ f.book = RemoveFromBook(e.book, L, n) /\ f.orders = e.orders
        /\ f.queues = e.queues /\ f.fills = e.fills /\ f.nextId = e.nextId /\ f.now = e.now
        /\ f.position = e.position
    BY <1>3, <1>7, <1>8 DEF Fields
  <2>2. c = Native!RemoveFromBook(i, Char(L[1]), L[2], n)
    <3> HIDE DEF i
    <3> QED BY <1>6, <1>8 DEF Native!CancelPublic
  <2>3. n \in Nat /\ n <= Native!MaxInt /\ e.book[L] <= Native!MaxInt
    BY <1>1, <1>4, <1>5
  <2>4. Native!RemoveFromBook(i, Char(L[1]), L[2], n)
          = Img(RemoveFromBook(e.book, L, n), e.orders, e.queues, e.fills, e.nextId, e.now,
                e.position)
    BY <1>1, <1>3, <2>3, RemoveFromBookImage DEF Image
  <2> HIDE DEF c, i
  <2>5. c = Image(f)
    BY <2>1, <2>2, <2>4 DEF Image
  <2> QED BY <2>5 DEF c, i, f, x, y, L, n
<1>9. CASE x \in DOMAIN e.orders
  <2> DEFINE M == e.orders[x].level
             s == e.orders[x].size
             k == Lesser(s, n)
             b == RemoveFromBook(e.book, M, k)
             left == Img(b, e.orders, e.queues, e.fills, e.nextId, e.now, e.position)
  <2>1. M \in Levels /\ s \in Nat \ {0}
    BY <1>3, <1>9
  <2>2. k \in Nat /\ k <= s /\ k <= n /\ k > 0
    <3> HIDE DEF s
    <3> QED BY <1>1, <2>1, LesserFacts
  <2>3. /\ f = Resize(e, x, s - k)
    BY <1>7, <1>9
  <2> HIDE DEF s, k, M
  <2>4. s - k \in Nat /\ ~(s - k >= s) /\ s - (s - k) = k
    BY <2>1, <2>2
  <2>5. /\ f.book = b /\ f.orders = SetSize(e.orders, x, s - k)
        /\ f.queues = IF s - k = 0 THEN Dequeue(e.queues, M, x) ELSE e.queues
        /\ f.fills = e.fills /\ f.nextId = e.nextId /\ f.now = e.now
        /\ f.position = e.position
    <3> DEFINE o == e.orders[x]
    <3>1. o = e.orders[x] /\ o.level = M /\ o.size = s
      BY DEF M, s
    <3> HIDE DEF o
    <3>2. /\ f.book = IF s - k >= o.size THEN AddToBook(e.book, o.level, s - k - o.size)
                                         ELSE RemoveFromBook(e.book, o.level, o.size - (s - k))
          /\ f.orders = SetSize(e.orders, x, s - k)
          /\ f.queues = IF s - k = 0 THEN Dequeue(e.queues, o.level, x) ELSE e.queues
          /\ f.fills = e.fills /\ f.nextId = e.nextId /\ f.now = e.now
          /\ f.position = e.position
      BY <1>2, <1>9, <2>3, <2>4, <3>1, ResizeFields
    <3> QED BY <2>4, <3>1, <3>2
  <2>6. Native!RemoveFromBook(i, Char(M[1]), M[2], k) = left
    <3>1. k <= Native!MaxInt /\ e.book[M] <= Native!MaxInt
      BY <1>1, <1>4, <1>5, <2>1, <2>2
    <3>2. i = Img(e.book, e.orders, e.queues, e.fills, e.nextId, e.now, e.position)
      BY DEF Image
    <3> HIDE DEF i
    <3> QED BY ONLY <1>3, <2>1, <2>2, <3>1, <3>2, RemoveFromBookImage
  <2>7. Native!StdMin(s, n) = k
    BY <1>1, <2>1, StdMinFacts DEF k
  <2>8. c = IF k < s THEN Native!SetSize(left, y, s - k)
            ELSE Native!RemoveFromQueue(Native!EraseOrder(left, y), Char(M[1]), M[2], y)
    <3>1. /\ Native!OrderOf(i, y).side = Char(M[1]) /\ Native!OrderOf(i, y).price = M[2]
          /\ Native!OrderOf(i, y).size = s /\ Native!HasOrder(i, y)
      BY <1>6, <1>9 DEF M, s
    <3> HIDE DEF i, left
    <3> QED BY <2>6, <2>7, <3>1 DEF Native!CancelPublic
  <2>9. c = Image(f)
    <3>1. CASE k < s
      <4>1. s - k \in Nat \ {0}
        BY <2>1, <2>2, <3>1
      <4>2. Native!SetSize(left, y, s - k)
              = Img(b, SetSize(e.orders, x, s - k), e.queues, e.fills, e.nextId, e.now, e.position)
        <5> HIDE DEF b
        <5> QED BY <1>1, <1>3, <1>9, <4>1, SetSizeImage DEF y
      <4> HIDE DEF c, b, left
      <4> QED BY <2>5, <2>8, <3>1, <4>1, <4>2 DEF Image
    <3>2. CASE ~(k < s)
      <4>1. s - k = 0
        BY <2>1, <2>2, <3>2
      <4>2. Native!EraseOrder(left, y)
              = Img(b, Drop(e.orders, x), e.queues, e.fills, e.nextId, e.now, e.position)
        <5> HIDE DEF b
        <5> QED BY <1>1, EraseOrderImage DEF y
      <4>3. Native!RemoveFromQueue(
               Img(b, Drop(e.orders, x), e.queues, e.fills, e.nextId, e.now, e.position),
               Char(M[1]), M[2], y)
              = Img(b, Drop(e.orders, x), Dequeue(e.queues, M, x), e.fills, e.nextId, e.now,
                    e.position)
        <5> HIDE DEF b
        <5> QED BY <1>1, <1>3, <2>1, DequeueImage DEF y
      <4>4. SetSize(e.orders, x, s - k) = Drop(e.orders, x)
        BY <4>1 DEF SetSize
      <4> HIDE DEF c, b, left
      <4> QED BY <2>5, <2>8, <3>2, <4>1, <4>2, <4>3, <4>4 DEF Image
    <3> QED BY <3>1, <3>2
  <2> HIDE DEF c, i
  <2> QED BY <2>9 DEF c, i, f, x, y, L, n
<1> QED BY <1>8, <1>9

LEMMA ModifyImage ==
  ASSUME NEW e, Sound(e), NEW ev \in MBOEvents, ev.size <= MaxSize, Fits(ModifyPublic(e, ev))
  PROVE  Native!ModifyPublic(Image(e), Name(Public(ev.id)), Char(ev.level[1]), ev.level[2],
                             ev.size)
           = Image(ModifyPublic(e, ev))
<1> DEFINE x == Public(ev.id)
           y == Name(x)
           L == ev.level
           n == ev.size
           i == Image(e)
           f == ModifyPublic(e, ev)
           c == Native!ModifyPublic(i, y, Char(L[1]), L[2], n)
<1>1. x \in Entries /\ L \in Levels /\ n \in Nat \ {0} /\ n <= MaxSize
  BY EntryFacts DEF MBOEvents
<1>2. EngineOK(e) /\ Fits(e) /\ Small(e)
  BY DEF Sound, EngineInv
<1>3. /\ DOMAIN e = Fields
      /\ e.book \in [Levels -> Nat] /\ e.queues \in [Levels -> Seq(Entries)]
      /\ e.orders \in [DOMAIN e.orders -> Orders]
      /\ \A z \in DOMAIN e.orders : e.orders[z].level \in Levels /\ e.orders[z].size \in Nat \ {0}
      /\ \A M \in Levels : e.book[M] \in Nat
  BY <1>2, SoundFields
<1>4. Native!MaxInt \in Nat /\ MaxSize \in Nat /\ MaxSize <= Native!MaxInt
  BY MaxIntFacts
<1>5. \A M \in Levels : e.book[M] <= Native!MaxInt /\ f.book[M] <= Native!MaxInt
  BY <1>2 DEF Fits
<1>6. /\ Native!HasOrder(i, y) <=> x \in DOMAIN e.orders
      /\ x \in DOMAIN e.orders =>
            /\ Native!OrderOf(i, y).side = Char(e.orders[x].level[1])
            /\ Native!OrderOf(i, y).price = e.orders[x].level[2]
            /\ Native!OrderOf(i, y).size = e.orders[x].size
  <2> HIDE DEF i, x
  <2>1. i = Image(e)
    BY DEF i
  <2> QED BY <1>1, <1>2, <2>1, OrderImage
<1>7. /\ x \notin DOMAIN e.orders => f = Rest(e, x, L, n)
      /\ x \in DOMAIN e.orders /\ e.orders[x].level = L => f = Resize(e, x, n)
      /\ x \in DOMAIN e.orders /\ e.orders[x].level # L => f = MovePublic(e, x, L, n)
  BY DEF ModifyPublic
<1> HIDE DEF x, y, L, n, f
<1>8. CASE x \notin DOMAIN e.orders
  <2>1. c = Native!Add(i, y, Char(L[1]), L[2], n)
    <3> HIDE DEF i
    <3> QED BY <1>6, <1>8 DEF Native!ModifyPublic
  <2>2. e.book[L] + n <= Native!MaxInt
    <3>1. f.book = AddToBook(e.book, L, n)
      BY <1>3, <1>7, <1>8 DEF Rest, Fields
    <3>2. f.book[L] = e.book[L] + n
      BY <1>1, <1>3, <3>1 DEF AddToBook
    <3> QED BY <1>1, <1>5, <3>2
  <2>3. Native!Add(i, y, Char(L[1]), L[2], n) = Image(f)
    BY <1>1, <1>2, <1>7, <1>8, <2>2, RestImage DEF y
  <2> HIDE DEF c
  <2>4. c = Image(f)
    BY <2>1, <2>3
  <2> QED BY <2>4 DEF c, i, f, x, y, L, n
<1>9. CASE x \in DOMAIN e.orders /\ e.orders[x].level = L
  <2> DEFINE s == e.orders[x].size
             b == f.book
             changed == Img(b, e.orders, e.queues, e.fills, e.nextId, e.now, e.position)
  <2>1. s \in Nat \ {0} /\ x \in DOMAIN e.orders
    BY <1>3, <1>9
  <2>2. /\ f.book = IF n >= s THEN AddToBook(e.book, L, n - s)
                              ELSE RemoveFromBook(e.book, L, s - n)
        /\ f.orders = SetSize(e.orders, x, n)
        /\ f.queues = e.queues
        /\ f.fills = e.fills /\ f.nextId = e.nextId /\ f.now = e.now
        /\ f.position = e.position
    <3> DEFINE o == e.orders[x]
    <3>1. o = e.orders[x] /\ o.level = L /\ o.size = s /\ n \in Nat /\ f = Resize(e, x, n)
      BY <1>1, <1>7, <1>9
    <3> HIDE DEF o, s
    <3>2. /\ f.book = IF n >= o.size THEN AddToBook(e.book, o.level, n - o.size)
                                     ELSE RemoveFromBook(e.book, o.level, o.size - n)
          /\ f.orders = SetSize(e.orders, x, n)
          /\ f.queues = IF n = 0 THEN Dequeue(e.queues, o.level, x) ELSE e.queues
          /\ f.fills = e.fills /\ f.nextId = e.nextId /\ f.now = e.now
          /\ f.position = e.position
      BY <1>2, <2>1, <3>1, ResizeFields
    <3> QED BY <1>1, <3>1, <3>2
  <2>3. /\ Native!OrderOf(i, y).side = Char(L[1]) /\ Native!OrderOf(i, y).price = L[2]
        /\ Native!OrderOf(i, y).size = s /\ Native!HasOrder(i, y)
    BY <1>6, <1>9
  <2> DEFINE book == IF n - s > 0 THEN Native!AddToBook(i, Char(L[1]), L[2], n - s)
                     ELSE Native!RemoveFromBook(i, Char(L[1]), L[2], -(n - s))
  <2>4. c = Native!SetSize(book, y, n)
    <3> HIDE DEF i, s
    <3> QED BY <2>3 DEF Native!ModifyPublic
  <2>5. i = Img(e.book, e.orders, e.queues, e.fills, e.nextId, e.now, e.position)
    BY DEF Image
  <2>6. n \in Nat /\ e.book[L] \in Nat /\ e.book[L] <= Native!MaxInt
    BY <1>1, <1>3, <1>5
  <2>7. book = changed
    <3> HIDE DEF i, s, f
    <3>1. CASE n - s > 0
      <4>1. n - s \in Nat /\ n >= s
        BY <2>1, <2>6, <3>1
      <4>2. b = AddToBook(e.book, L, n - s)
        BY <2>2, <4>1
      <4>3. b[L] = e.book[L] + (n - s)
        BY <1>1, <1>3, <4>2 DEF AddToBook
      <4>4. e.book[L] + (n - s) <= Native!MaxInt
        BY <1>1, <1>5, <4>3
      <4>5. Native!AddToBook(i, Char(L[1]), L[2], n - s)
              = Img(AddToBook(e.book, L, n - s), e.orders, e.queues, e.fills, e.nextId, e.now,
                    e.position)
        BY ONLY <1>1, <1>3, <2>5, <4>1, <4>4, AddToBookImage
      <4> QED BY <3>1, <4>2, <4>5
    <3>2. CASE ~(n - s > 0)
      <4>1. s - n \in Nat /\ -(n - s) = s - n /\ s - n <= s
        BY <2>1, <2>6, <3>2
      <4>2. s - n <= Native!MaxInt
        <5>1. s <= MaxSize
          BY <1>2, <2>1 DEF Small, s
        <5> QED BY <1>4, <2>1, <2>6, <4>1, <5>1
      <4>3. b = RemoveFromBook(e.book, L, s - n)
        <5>1. CASE n = s
          <6>1. n - s = 0 /\ s - n = 0 /\ n >= s
            BY <2>1, <2>6, <5>1
          <6>2. b = AddToBook(e.book, L, 0)
            BY <2>2, <6>1
          <6>3. Lesser(e.book[L], 0) = 0
            BY <2>6 DEF Lesser
          <6>4. RemoveFromBook(e.book, L, 0) = [e.book EXCEPT ![L] = e.book[L] - 0]
            BY <6>3 DEF RemoveFromBook
          <6>5. e.book[L] + 0 = e.book[L] - 0
            BY <2>6
          <6>6. AddToBook(e.book, L, 0) = [e.book EXCEPT ![L] = e.book[L] + 0]
            BY DEF AddToBook
          <6> QED BY <6>1, <6>2, <6>4, <6>5, <6>6
        <5>2. CASE n # s
          <6>1. ~(n >= s)
            BY <2>1, <2>6, <3>2, <5>2
          <6> QED BY <2>2, <6>1
        <5> QED BY <5>1, <5>2
      <4>4. Native!RemoveFromBook(i, Char(L[1]), L[2], s - n)
              = Img(RemoveFromBook(e.book, L, s - n), e.orders, e.queues, e.fills, e.nextId,
                    e.now, e.position)
        <5> DEFINE k == s - n
        <5>1. k \in Nat /\ k <= Native!MaxInt
          BY <4>1, <4>2
        <5>2. e.book \in [Levels -> Nat] /\ L \in Levels /\ e.book[L] <= Native!MaxInt
          BY <1>1, <1>3, <2>6
        <5> HIDE DEF k, b, changed, book, c
        <5>3. Native!RemoveFromBook(i, Char(L[1]), L[2], k)
                = Img(RemoveFromBook(e.book, L, k), e.orders, e.queues, e.fills, e.nextId,
                      e.now, e.position)
          BY ONLY <2>5, <5>1, <5>2, RemoveFromBookImage
        <5> QED BY <5>3 DEF k
      <4> QED BY <3>2, <4>1, <4>3, <4>4
    <3> QED BY <3>1, <3>2
  <2>8. Native!SetSize(changed, y, n)
          = Img(b, SetSize(e.orders, x, n), e.queues, e.fills, e.nextId, e.now, e.position)
    <3> HIDE DEF b
    <3> QED BY <1>1, <1>3, <2>1, SetSizeImage DEF y
  <2> HIDE DEF c, book, changed
  <2>9. c = Image(f)
    BY <2>2, <2>4, <2>7, <2>8 DEF Image
  <2> QED BY <2>9 DEF c, i, f, x, y, L, n
<1>10. CASE x \in DOMAIN e.orders /\ e.orders[x].level # L
  <2> DEFINE M == e.orders[x].level
             s == e.orders[x].size
             b == RemoveFromBook(e.book, M, s)
             qs == Dequeue(e.queues, M, x)
             left == [e EXCEPT !.book = RemoveFromBook(@, M, s), !.queues = Dequeue(@, M, x)]
  <2>1. M \in Levels /\ s \in Nat \ {0} /\ s <= MaxSize /\ s \in Nat
    BY <1>2, <1>3, <1>10 DEF Small
  <2>2. f = Rest(left, x, L, n)
    BY <1>7, <1>10 DEF MovePublic
  <2>3. /\ left.book = b /\ left.queues = qs /\ left.orders = e.orders /\ left.fills = e.fills
        /\ left.nextId = e.nextId /\ left.now = e.now /\ left.position = e.position
        /\ DOMAIN left = Fields /\ left = [k \in DOMAIN left |-> left[k]]
    BY <1>3 DEF Fields
  <2>4. EngineOK(left)
    <3>1. b \in [Levels -> Nat] /\ qs \in [Levels -> Seq(Entries)]
      BY <1>3, <2>1, BookFacts, DequeueFacts
    <3>2. /\ e.orders \in [DOMAIN e.orders -> Orders] /\ DOMAIN e.orders \subseteq Entries
          /\ e.fills \in Seq(Fills) /\ e.nextId \in Nat /\ e.now \in Nat /\ e.position \in Int
      BY <1>2, SoundFields
    <3> HIDE DEF left, b, qs
    <3> QED BY <2>3, <3>1, <3>2, EngineFields
  <2> HIDE DEF left
  <2>5. left.book[L] + n <= Native!MaxInt
    <3>1. left.book \in [Levels -> Nat]
      BY <2>4, SoundFields
    <3>2. f.book = AddToBook(left.book, L, n)
      BY <2>2, <2>3 DEF Rest, Fields
    <3>3. f.book[L] = left.book[L] + n
      BY <1>1, <3>1, <3>2 DEF AddToBook
    <3> QED BY <1>1, <1>5, <3>3
  <2>6. Native!Add(Image(left), y, Char(L[1]), L[2], n) = Image(f)
    BY <1>1, <2>2, <2>4, <2>5, RestImage DEF y
  <2>7. Native!RemoveFromBook(i, Char(M[1]), M[2], s)
          = Img(b, e.orders, e.queues, e.fills, e.nextId, e.now, e.position)
    <3>1. s <= Native!MaxInt /\ e.book[M] <= Native!MaxInt
      BY <1>4, <1>5, <2>1
    <3>2. i = Img(e.book, e.orders, e.queues, e.fills, e.nextId, e.now, e.position)
      BY DEF Image
    <3> HIDE DEF i, M, s
    <3> QED BY ONLY <1>3, <2>1, <3>1, <3>2, RemoveFromBookImage
  <2>8. Native!RemoveFromQueue(
           Img(b, e.orders, e.queues, e.fills, e.nextId, e.now, e.position),
           Char(M[1]), M[2], y)
          = Img(b, e.orders, qs, e.fills, e.nextId, e.now, e.position)
    <3> HIDE DEF b, M
    <3> QED BY <1>1, <1>3, <2>1, DequeueImage DEF y
  <2> HIDE DEF b, qs, M, s
  <2>9. Image(left) = Img(b, e.orders, qs, e.fills, e.nextId, e.now, e.position)
    BY <2>3 DEF Image
  <2>10. /\ Native!OrderOf(i, y).side = Char(M[1]) /\ Native!OrderOf(i, y).price = M[2]
         /\ Native!OrderOf(i, y).size = s /\ Native!HasOrder(i, y)
    BY <1>6, <1>10 DEF M, s
  <2>11. ~(Char(M[1]) = Char(L[1]) /\ M[2] = L[2])
    <3>1. M # L
      BY <1>10 DEF M
    <3>2. KeyOf(M) # KeyOf(L)
      BY <1>1, <2>1, <3>1, KeyFacts
    <3> QED BY <3>2 DEF KeyOf
  <2>12. c = Native!Add(Native!RemoveFromQueue(Native!RemoveFromBook(i, Char(M[1]), M[2], s),
                                               Char(M[1]), M[2], y),
                        y, Char(L[1]), L[2], n)
    <3> HIDE DEF i
    <3> QED BY <2>10, <2>11 DEF Native!ModifyPublic
  <2> HIDE DEF c, i
  <2>13. c = Image(f)
    BY <2>6, <2>7, <2>8, <2>9, <2>12
  <2> QED BY <2>13 DEF c, i, f, x, y, L, n
<1> QED BY <1>8, <1>9, <1>10

\* A row of passive fills that moves the position by n.
WithFill(e, row, n) == [e EXCEPT !.passiveFills = Append(@, row), !.position = @ + n]

(* A fill that is told.                                                     *)
LEMMA ToldImage ==
  ASSUME NEW book, NEW orders, NEW queues, NEW fills \in Seq(ActiveFills), NEW nextId, NEW now,
         NEW position, NEW fill \in ActiveFills, NEW n
  PROVE  WithFill(Img(book, orders, queues, fills, nextId, now, position), CodedFill(fill), n)
           = Img(book, orders, queues, Append(fills, fill), nextId, now, position + n)
<1> DEFINE e == Img(book, orders, queues, fills, nextId, now, position)
           new == Append(fills, fill)
           g == Coded(new)
           k == position + n
<1>1. g = Append(Coded(fills), CodedFill(fill))
  BY CodedAppend
<1>2. e.passiveFills = Coded(fills) /\ e.position = position
  BY DEF Img
<1>3. [e EXCEPT !.passiveFills = g, !.position = k]
        = Img(book, orders, queues, new, nextId, now, k)
  <2> DEFINE a == [e EXCEPT !.passiveFills = g]
  <2> HIDE DEF new, k
  <2>1. a = Img(book, orders, queues, new, nextId, now, position)
    BY DEF Img
  <2> HIDE DEF a
  <2>2. [a EXCEPT !.position = k] = Img(book, orders, queues, new, nextId, now, k)
    BY <2>1 DEF Img
  <2>3. [e EXCEPT !.passiveFills = g, !.position = k] = [a EXCEPT !.position = k]
    <3> HIDE DEF e, g
    <3> QED BY Zenon DEF a
  <2> QED BY <2>2, <2>3
<1> HIDE DEF e, new
<1>4. [e EXCEPT !.passiveFills = Append(@, CodedFill(fill)), !.position = @ + n]
        = [e EXCEPT !.passiveFills = g, !.position = k]
  BY <1>1, <1>2
<1> QED BY <1>3, <1>4 DEF e, new, WithFill

LEMMA FillFrontFields ==
  ASSUME NEW e, EngineOK(e), NEW x, NEW L, NEW n, NEW ts, NEW f, f = FillFront(e, x, L, n, ts),
         NEW left, left = e.orders[x].size - n,
         NEW fill, fill = [id |-> x[2], side |-> OrderSideOf(L[1]), price |-> L[2],
                           size |-> n, ts |-> ts]
  PROVE  /\ f.book = RemoveFromBook(e.book, L, n)
         /\ f.orders = SetSize(e.orders, x, left)
         /\ f.queues = IF left = 0 THEN PopFront(e.queues, L) ELSE e.queues
         /\ f.fills = IF IsOwn(x) THEN Append(e.fills, fill) ELSE e.fills
         /\ f.position = IF IsOwn(x) THEN e.position + Signed(fill.side, n) ELSE e.position
         /\ f.nextId = e.nextId /\ f.now = e.now
<1>1. DOMAIN e = Fields
  BY SoundFields
<1> QED BY <1>1 DEF FillFront, Fields

(* consume_front in two parts: the fill told to the strategy, and what is   *)
(* left of the order and of its queue.                                       *)
ToldOf(y, side, price, n, ts, taken) ==
  IF y[1] = "publicOrders" THEN taken
  ELSE [taken EXCEPT
          !.passiveFills = Append(@, [order |-> y[2], side |-> side, price |-> price,
                                      size |-> n, ts |-> ts]),
          !.position = @ + IF side = "B" THEN n ELSE -n]

FrontGone(s, side, price, q, y, o, n, told) ==
  [e |-> IF n < o.size THEN Native!SetSize(told, y, o.size - n)
         ELSE Native!SetQueue(Native!EraseOrder(told, y), side, price, Tail(q)),
   remaining |-> s.remaining - n]

LEMMA ConsumeFrontIs ==
  ASSUME NEW s, NEW side, NEW price, NEW ts
  PROVE  LET q == Native!Queue(s.e, side, price)
             y == Head(q)
             o == Native!OrderOf(s.e, y)
             n == Native!StdMin(o.size, s.remaining)
             taken == Native!RemoveFromBook(s.e, side, price, n)
         IN  Native!ConsumeFront(s, side, price, ts)
               = FrontGone(s, side, price, q, y, o, n, ToldOf(y, side, price, n, ts, taken))
  BY DEF Native!ConsumeFront, FrontGone, ToldOf

LEMMA FillFrontImage ==
  ASSUME NEW e, Sound(e), NEW L \in Levels, NEW ts \in Nat, e.queues[L] # <<>>,
         NEW x, x = Head(e.queues[L]), x \in DOMAIN e.orders,
         NEW rem \in Nat \ {0}, NEW n, n = Lesser(e.orders[x].size, rem)
  PROVE  Native!ConsumeFront([e |-> Image(e), remaining |-> rem], Char(L[1]), L[2], ts)
           = [e |-> Image(FillFront(e, x, L, n, ts)), remaining |-> rem - n]
<1> DEFINE y == Name(x)
           i == Image(e)
           s == [e |-> i, remaining |-> rem]
           size == e.orders[x].size
           left == size - n
           f == FillFront(e, x, L, n, ts)
           fill == [id |-> x[2], side |-> OrderSideOf(L[1]), price |-> L[2],
                    size |-> n, ts |-> ts]
           b == RemoveFromBook(e.book, L, n)
           taken == Img(b, e.orders, e.queues, e.fills, e.nextId, e.now, e.position)
           told == Img(b, e.orders, e.queues, f.fills, e.nextId, e.now, f.position)
           c == Native!ConsumeFront(s, Char(L[1]), L[2], ts)
<1>1. EngineOK(e) /\ Fits(e) /\ Small(e)
  BY DEF Sound, EngineInv
<1>2. /\ DOMAIN e = Fields
      /\ e.book \in [Levels -> Nat] /\ e.queues \in [Levels -> Seq(Entries)]
      /\ e.orders \in [DOMAIN e.orders -> Orders] /\ DOMAIN e.orders \subseteq Entries
      /\ e.fills \in Seq(ActiveFills) /\ e.position \in Int
      /\ size \in Nat \ {0} /\ e.queues[L] \in Seq(Entries)
  BY <1>1, SoundFields
<1>3. Native!MaxInt \in Nat /\ MaxSize \in Nat /\ MaxSize <= Native!MaxInt
  BY MaxIntFacts
<1>4. e.book[L] <= Native!MaxInt /\ size <= Native!MaxInt
  <2>1. e.book[L] <= Native!MaxInt /\ size <= MaxSize
    BY <1>1 DEF Fits, Small
  <2> HIDE DEF size
  <2> QED BY <1>2, <1>3, <2>1
<1>5. x \in Entries
  BY <1>2
<1>6. /\ Native!Queue(i, Char(L[1]), L[2]) = Named(e.queues[L])
      /\ Head(Named(e.queues[L])) = y
      /\ Tail(Named(e.queues[L])) = Named(Tail(e.queues[L]))
      /\ Tail(e.queues[L]) \in Seq(Entries)
  <2>1. Native!Queue(i, Char(L[1]), L[2]) = Named(e.queues[L])
    BY <1>2, QueueImage DEF Image
  <2>2. Head(Named(e.queues[L])) = y
    BY <1>2, NamedFacts
  <2>3. Tail(Named(e.queues[L])) = Named(Tail(e.queues[L])) /\ Tail(e.queues[L]) \in Seq(Entries)
    BY <1>2, NamedTail
  <2> QED BY <2>1, <2>2, <2>3
<1>7. /\ Native!OrderOf(i, y).size = size /\ Native!HasOrder(i, y)
  <2>1. i = Image(e)
    OBVIOUS
  <2> HIDE DEF i
  <2> QED BY <1>1, <1>5, <2>1, OrderImage
<1>8. n \in Nat \ {0} /\ n <= size /\ n <= Native!MaxInt /\ left \in Nat
      /\ Native!StdMin(size, rem) = n
  <2>1. n = Lesser(size, rem)
    OBVIOUS
  <2> HIDE DEF size
  <2>2. n \in Nat \ {0} /\ n <= size
    BY <1>2, <2>1, LesserFacts
  <2>3. n <= Native!MaxInt
    BY <1>2, <1>3, <1>4, <2>2
  <2>4. Native!StdMin(size, rem) = n
    BY <1>2, <2>1, StdMinFacts
  <2>5. left \in Nat
    BY ONLY <1>2, <2>2
  <2> QED BY ONLY <2>2, <2>3, <2>4, <2>5
<1>9. /\ f.book = b
      /\ f.orders = SetSize(e.orders, x, left)
      /\ f.queues = IF left = 0 THEN PopFront(e.queues, L) ELSE e.queues
      /\ f.fills = IF IsOwn(x) THEN Append(e.fills, fill) ELSE e.fills
      /\ f.position = IF IsOwn(x) THEN e.position + Signed(fill.side, n) ELSE e.position
      /\ f.nextId = e.nextId /\ f.now = e.now
  <2>1. f = FillFront(e, x, L, n, ts) /\ left = e.orders[x].size - n
        /\ fill = [id |-> x[2], side |-> OrderSideOf(L[1]), price |-> L[2],
                   size |-> n, ts |-> ts]
    OBVIOUS
  <2> HIDE DEF f, left, fill, b
  <2> QED BY ONLY <1>1, <2>1, FillFrontFields DEF b
<1> HIDE DEF f
<1>10. Native!RemoveFromBook(i, Char(L[1]), L[2], n) = taken
  <2>1. i = Img(e.book, e.orders, e.queues, e.fills, e.nextId, e.now, e.position)
    BY DEF Image
  <2>2. n \in Nat /\ n <= Native!MaxInt /\ e.book[L] <= Native!MaxInt
        /\ e.book \in [Levels -> Nat]
    BY ONLY <1>2, <1>4, <1>8
  <2> HIDE DEF i
  <2> QED BY ONLY <2>1, <2>2, L \in Levels, RemoveFromBookImage
<1>11. y[1] = (IF IsOwn(x) THEN "ownOrders" ELSE "publicOrders") /\ y[2] = x[2]
  BY DEF Name
<1> DEFINE row == [order |-> y[2], side |-> Char(L[1]), price |-> L[2], size |-> n, ts |-> ts]
           grown == [taken EXCEPT !.passiveFills = Append(@, row),
                                  !.position = @ + IF Char(L[1]) = "B" THEN n ELSE -n]
<1>12. (IF y[1] = "publicOrders" THEN taken ELSE grown) = told
  <2>1. CASE IsOwn(x)
    <3>1. fill \in ActiveFills
      <4>1. x[2] \in Nat /\ L[1] \in BookSides /\ L[2] \in Prices
        BY <1>5, <2>1, EntryFacts, LevelFacts
      <4>2. OrderSideOf(L[1]) \in OrderSides
        BY DEF OrderSideOf, OrderSides
      <4> QED BY <1>8, <4>1, <4>2 DEF ActiveFills
    <3>2. row = CodedFill(fill)
      <4>1. Char(OrderSideOf(L[1])) = Char(L[1])
        BY CharFacts
      <4> QED BY <1>11, <4>1 DEF CodedFill
    <3>3. (IF Char(L[1]) = "B" THEN n ELSE -n) = Signed(fill.side, n)
      <4>1. L[1] \in {"bid", "ask"}
        BY DEF Levels, BookSides
      <4> QED BY <4>1 DEF Char, OrderSideOf, Signed
    <3>4. f.fills = Append(e.fills, fill) /\ f.position = e.position + Signed(fill.side, n)
      BY <1>9, <2>1
    <3>5. y[1] # "publicOrders"
      BY <1>11, <2>1
    <3> DEFINE m == Signed(fill.side, n)
    <3>6. grown = WithFill(taken, CodedFill(fill), m)
      <4> HIDE DEF taken, fill, row
      <4> QED BY <3>2, <3>3 DEF WithFill
    <3>7. WithFill(taken, CodedFill(fill), m)
            = Img(b, e.orders, e.queues, Append(e.fills, fill), e.nextId, e.now, e.position + m)
      <4> HIDE DEF fill, m, b
      <4> QED BY <1>2, <3>1, ToldImage
    <3> HIDE DEF fill, taken, grown, b
    <3> QED BY <3>4, <3>5, <3>6, <3>7
  <2>2. CASE ~IsOwn(x)
    <3>1. y[1] = "publicOrders" /\ f.fills = e.fills /\ f.position = e.position
      BY <1>9, <1>11, <2>2
    <3> HIDE DEF grown, b
    <3> QED BY <3>1
  <2> QED BY <2>1, <2>2
<1> DEFINE after == IF n < size THEN Native!SetSize(told, y, size - n)
                    ELSE Native!SetQueue(Native!EraseOrder(told, y), Char(L[1]), L[2],
                                         Named(Tail(e.queues[L])))
<1>13. c = [e |-> after, remaining |-> rem - n]
  <2>1. s.e = i /\ s.remaining = rem
    OBVIOUS
  <2>2. /\ Native!Queue(i, Char(L[1]), L[2]) = Named(e.queues[L])
        /\ Head(Named(e.queues[L])) = y /\ Tail(Named(e.queues[L])) = Named(Tail(e.queues[L]))
    BY <1>6
  <2> DEFINE o == Native!OrderOf(i, y)
             q == Named(e.queues[L])
  <2>3. Native!Queue(s.e, Char(L[1]), L[2]) = q /\ y = Head(q)
        /\ Tail(q) = Named(Tail(e.queues[L]))
    BY ONLY <2>1, <2>2 DEF q
  <2>4. o = Native!OrderOf(s.e, y) /\ o.size = size
    BY ONLY <1>7, <2>1 DEF o
  <2> HIDE DEF s, i, size, o, q, y
  <2>5. n = Native!StdMin(o.size, s.remaining)
    BY ONLY <1>8, <2>1, <2>4
  <2> HIDE DEF taken
  <2>6. taken = Native!RemoveFromBook(s.e, Char(L[1]), L[2], n)
    BY ONLY <1>10, <2>1
  <2>7. told = ToldOf(y, Char(L[1]), L[2], n, ts, taken)
    BY ONLY <1>12 DEF grown, row, ToldOf
  <2> HIDE DEF told, grown, row, after
  <2>8. Native!ConsumeFront(s, Char(L[1]), L[2], ts)
          = FrontGone(s, Char(L[1]), L[2], q, y, o, n, told)
    BY ONLY <2>3, <2>4, <2>5, <2>6, <2>7, ConsumeFrontIs
  <2> QED BY ONLY <2>1, <2>3, <2>4, <2>8 DEF c, after, FrontGone
<1>14. after = Image(f)
  <2> HIDE DEF b, size
  <2>1. CASE n < size
    <3>1. left \in Nat \ {0} /\ left = size - n
      BY ONLY <1>2, <1>8, <2>1
    <3> HIDE DEF left
    <3>2. Native!SetSize(told, y, left)
            = Img(b, SetSize(e.orders, x, left), e.queues, f.fills, e.nextId, e.now, f.position)
      BY <1>2, <1>5, <3>1, SetSizeImage
    <3>3. Image(f) = Img(b, SetSize(e.orders, x, left), e.queues, f.fills, e.nextId, e.now,
                         f.position)
      BY <1>9, <3>1 DEF Image
    <3> HIDE DEF told, y
    <3> QED BY <2>1, <3>1, <3>2, <3>3
  <2>2. CASE ~(n < size)
    <3>1. left = 0
      BY ONLY <1>2, <1>8, <2>2
    <3> HIDE DEF left
    <3> DEFINE os == Drop(e.orders, x)
               q == Tail(e.queues[L])
    <3>2. SetSize(e.orders, x, left) = os
      BY <3>1 DEF SetSize
    <3>3. PopFront(e.queues, L) = Changed(e.queues, L, q)
      BY DEF PopFront, Changed
    <3>4. Native!EraseOrder(told, y)
            = Img(b, os, e.queues, f.fills, e.nextId, e.now, f.position)
      BY <1>5, EraseOrderImage
    <3>5. Native!SetQueue(Img(b, os, e.queues, f.fills, e.nextId, e.now, f.position),
                          Char(L[1]), L[2], Named(q))
            = Img(b, os, Changed(e.queues, L, q), f.fills, e.nextId, e.now, f.position)
      <4> HIDE DEF os, q
      <4>1. q \in Seq(Entries)
        BY <1>6 DEF q
      <4> QED BY <1>2, <4>1, SetQueueImage
    <3>6. Image(f) = Img(b, os, Changed(e.queues, L, q), f.fills, e.nextId, e.now, f.position)
      <4> HIDE DEF os, q
      <4> QED BY <1>9, <3>1, <3>2, <3>3 DEF Image
    <3> HIDE DEF told, y, os
    <3> QED BY <2>2, <3>4, <3>5, <3>6
  <2> QED BY <2>1, <2>2
<1> HIDE DEF after, c
<1>15. c = [e |-> Image(f), remaining |-> rem - n]
  BY <1>13, <1>14
<1> QED BY <1>15 DEF c, s, i, f

(***************************************************************************)
(* Consuming a level, turn by turn.                                        *)
(***************************************************************************)

\* No level and no order has grown, and no order is new.
Shrunk(e, f) ==
  /\ \A M \in Levels : f.book[M] <= e.book[M]
  /\ \A y \in DOMAIN f.orders : y \in DOMAIN e.orders /\ f.orders[y].size <= e.orders[y].size

(* What has only shrunk still fits.                                        *)
LEMMA ShrunkSound ==
  ASSUME NEW e, Sound(e), NEW f, EngineInv(f), Shrunk(e, f)
  PROVE  Sound(f)
<1>1. EngineInv(e) /\ EngineOK(e) /\ EngineOK(f) /\ Fits(e) /\ Small(e)
  BY DEF Sound, EngineInv
<1>2. /\ e.book \in [Levels -> Nat] /\ f.book \in [Levels -> Nat]
      /\ \A y \in DOMAIN e.orders : e.orders[y].size \in Nat
      /\ \A y \in DOMAIN f.orders : f.orders[y].size \in Nat
  BY <1>1, SoundFields
<1>3. Fits(f)
  <2>1. ASSUME NEW M \in Levels PROVE f.book[M] <= Native!MaxInt
    <3> DEFINE a == e.book[M]
               b == f.book[M]
    <3>1. a \in Nat /\ b \in Nat /\ b <= a /\ a <= Native!MaxInt /\ Native!MaxInt \in Nat
      BY <1>1, <1>2, MaxIntFacts DEF Shrunk, Fits
    <3> HIDE DEF a, b
    <3>2. b <= Native!MaxInt
      BY <3>1
    <3> QED BY <3>2 DEF b
  <2> QED BY <2>1 DEF Fits
<1>4. Small(f)
  <2>1. ASSUME NEW y \in DOMAIN f.orders PROVE f.orders[y].size <= MaxSize
    <3> DEFINE a == e.orders[y].size
               b == f.orders[y].size
    <3>1. a \in Nat /\ b \in Nat /\ b <= a /\ a <= MaxSize /\ MaxSize \in Nat
      BY <1>1, <1>2, MaxIntFacts DEF Shrunk, Small
    <3> HIDE DEF a, b
    <3>2. b <= MaxSize
      BY <3>1
    <3> QED BY <3>2 DEF b
  <2> QED BY <2>1 DEF Small
<1> QED BY <1>3, <1>4 DEF Sound

LEMMA RemoveShrinks ==
  ASSUME NEW book \in [Levels -> Nat], NEW L \in Levels, NEW n \in Nat, NEW M \in Levels
  PROVE  RemoveFromBook(book, L, n)[M] <= book[M]
<1> DEFINE a == book[L]
           k == Lesser(a, n)
<1>1. a \in Nat /\ book[M] \in Nat
  OBVIOUS
<1>2. k \in Nat
  <2> HIDE DEF a
  <2> QED BY <1>1, LesserFacts
<1>3. RemoveFromBook(book, L, n) = Changed(book, L, a - k)
  BY DEF RemoveFromBook, Changed
<1> HIDE DEF k
<1>4. CASE M = L
  <2>1. RemoveFromBook(book, L, n)[M] = a - k /\ book[M] = a
    BY <1>3, <1>4 DEF Changed
  <2> HIDE DEF a
  <2> QED BY <1>1, <1>2, <2>1
<1>5. CASE M # L
  BY <1>1, <1>3, <1>5 DEF Changed
<1> QED BY <1>4, <1>5

LEMMA SetSizeShrinks ==
  ASSUME NEW orders, orders \in [DOMAIN orders -> Orders], NEW x \in DOMAIN orders,
         NEW n \in Nat, n <= orders[x].size, NEW f, f = SetSize(orders, x, n)
  PROVE  \A y \in DOMAIN f : y \in DOMAIN orders /\ f[y].size <= orders[y].size
<1>1. \A y \in DOMAIN orders : orders[y].size \in Nat
  BY DEF Orders
<1>2. CASE n = 0
  <2>1. f = Drop(orders, x)
    BY <1>2 DEF SetSize
  <2>2. DOMAIN f = DOMAIN orders \ {x} /\ \A y \in DOMAIN f : f[y] = orders[y]
    BY <2>1 DEF Drop
  <2> QED BY <1>1, <2>2
<1>3. CASE n # 0
  <2> DEFINE v == [level |-> orders[x].level, size |-> n]
  <2>1. f = Put(orders, x, v) /\ v.size = n
    BY <1>3 DEF SetSize
  <2> HIDE DEF v
  <2>2. DOMAIN f = DOMAIN orders /\ f[x] = v /\ \A y \in DOMAIN f : y # x => f[y] = orders[y]
    BY <2>1 DEF Put
  <2> QED BY <1>1, <2>1, <2>2
<1> QED BY <1>2, <1>3

\* The states of the loop, and the state of the C++ loop that stands for one.
SoundStates == {s \in ConsumeStates : Sound(s.e)}
ConsumeImage(s) == [e |-> Image(s.e), remaining |-> s.rem]

(* A turn of the loop.                                                     *)
LEMMA ConsumeTurnImage ==
  ASSUME NEW s \in SoundStates, NEW L \in Levels, NEW ts \in Nat
  PROVE  /\ ConsumeStep(s, L, ts) \in SoundStates
         /\ Native!ConsumeTurn(ConsumeImage(s), Char(L[1]), L[2], ts)
              = ConsumeImage(ConsumeStep(s, L, ts))
<1> DEFINE e == s.e
           t == ConsumeStep(s, L, ts)
           x == Head(e.queues[L])
           c == ConsumeImage(s)
           u == Native!ConsumeTurn(c, Char(L[1]), L[2], ts)
<1>1. s \in ConsumeStates /\ Sound(e) /\ EngineOK(e) /\ s.rem \in Nat
  BY DEF SoundStates, Sound, EngineInv, ConsumeStates
<1>2. /\ DOMAIN e = Fields /\ e.book \in [Levels -> Nat]
      /\ e.queues \in [Levels -> Seq(Entries)] /\ e.queues[L] \in Seq(Entries)
      /\ e.orders \in [DOMAIN e.orders -> Orders]
  BY <1>1, SoundFields
<1>3. t \in ConsumeStates /\ EngineInv(t.e)
  BY <1>1, ConsumeStepFacts DEF ConsumeStates
<1>4. c.e = Image(e) /\ c.remaining = s.rem /\ c = [e |-> Image(e), remaining |-> s.rem]
  BY DEF ConsumeImage
<1>5. /\ Native!Queue(Image(e), Char(L[1]), L[2]) = Named(e.queues[L])
      /\ Named(e.queues[L]) = <<>> <=> e.queues[L] = <<>>
      /\ e.queues[L] # <<>> => Head(Named(e.queues[L])) = Name(x) /\ x \in Entries
      /\ e.queues[L] # <<>> => /\ Named(Tail(e.queues[L])) = Tail(Named(e.queues[L]))
                               /\ Tail(e.queues[L]) \in Seq(Entries)
  <2>1. Native!Queue(Image(e), Char(L[1]), L[2]) = Named(e.queues[L])
    <3>1. e.queues \in [Levels -> Seq(Entries)]
      BY <1>2
    <3> HIDE DEF e
    <3> QED BY ONLY <3>1, L \in Levels, QueueImage DEF Image
  <2> DEFINE q == e.queues[L]
  <2>2. q \in Seq(Entries)
    BY <1>2
  <2>3. x = Head(q)
    OBVIOUS
  <2> HIDE DEF q, x
  <2>4. /\ Named(q) = <<>> <=> q = <<>>
        /\ q # <<>> => Head(Named(q)) = Name(x) /\ x \in Entries
    BY <2>2, <2>3, NamedFacts
  <2>5. ASSUME q # <<>>
        PROVE  Named(Tail(q)) = Tail(Named(q)) /\ Tail(q) \in Seq(Entries)
    <3>1. Named(Tail(q)) = Tail(Named(q))
      BY <2>2, <2>5, NamedTail
    <3> QED BY <2>2, <2>5, <3>1
  <2> QED BY <2>1, <2>4, <2>5 DEF q
<1>6. ASSUME Shrunk(e, t.e) PROVE t \in SoundStates
  BY <1>1, <1>3, <1>6, ShrunkSound DEF SoundStates
<1> DEFINE Done == t \in SoundStates /\ u = ConsumeImage(t)
<1>7. ASSUME s.rem = 0 \/ e.queues[L] = <<>> PROVE Done
  <2>1. t = s
    BY <1>7 DEF ConsumeStep
  <2>2. u = c
    <3> HIDE DEF c, e
    <3> QED BY <1>4, <1>5, <1>7 DEF Native!ConsumeTurn
  <2> QED BY <2>1, <2>2
<1>8. ASSUME s.rem # 0, e.queues[L] # <<>>, x \notin DOMAIN e.orders PROVE Done
  <2> DEFINE q == Tail(e.queues[L])
             f == [e EXCEPT !.queues = PopFront(@, L)]
             w == [e |-> Native!SetQueue(Image(e), Char(L[1]), L[2], Named(q)),
                   remaining |-> s.rem]
  <2>1. t = [e |-> f, rem |-> s.rem]
    BY <1>8 DEF ConsumeStep
  <2>2. /\ f.queues = PopFront(e.queues, L) /\ f.book = e.book /\ f.orders = e.orders
        /\ f.fills = e.fills /\ f.nextId = e.nextId /\ f.now = e.now
        /\ f.position = e.position
    BY <1>2 DEF Fields
  <2>3. t.e = f /\ t.rem = s.rem
    BY <2>1
  <2> HIDE DEF f, t
  <2>4. ~Native!HasOrder(Image(e), Name(x))
    <3> DEFINE i == Image(e)
    <3>1. i = Image(e)
      OBVIOUS
    <3> HIDE DEF i, e, x
    <3>2. ~Native!HasOrder(i, Name(x))
      BY <1>1, <1>5, <1>8, <3>1, OrderImage
    <3> QED BY <3>2 DEF i
  <2>5. u = w
    <3> HIDE DEF c, x, e
    <3> QED BY <1>4, <1>5, <1>8, <2>4 DEF Native!ConsumeTurn
  <2>6. PopFront(e.queues, L) = Changed(e.queues, L, q)
    BY DEF PopFront, Changed
  <2>7. Native!SetQueue(Image(e), Char(L[1]), L[2], Named(q))
          = Img(e.book, e.orders, Changed(e.queues, L, q), e.fills, e.nextId, e.now, e.position)
    <3>1. q \in Seq(Entries)
      BY <1>5, <1>8
    <3> HIDE DEF q, e
    <3> QED BY <1>2, <3>1, SetQueueImage DEF Image
  <2>8. Native!SetQueue(Image(e), Char(L[1]), L[2], Named(q)) = Image(f)
    <3> HIDE DEF q, e
    <3> QED BY <2>2, <2>6, <2>7 DEF Image
  <2>9. u = ConsumeImage(t)
    <3> HIDE DEF u, e, q
    <3> QED BY <2>3, <2>5, <2>8 DEF ConsumeImage
  <2>10. Shrunk(e, f)
    <3>1. /\ \A M \in Levels : e.book[M] \in Nat
          /\ \A y \in DOMAIN e.orders : e.orders[y].size \in Nat
      BY <1>1, SoundFields
    <3> HIDE DEF e
    <3> QED BY <2>2, <3>1 DEF Shrunk
  <2> QED BY <1>6, <2>3, <2>9, <2>10
<1>9. ASSUME s.rem # 0, e.queues[L] # <<>>, x \in DOMAIN e.orders PROVE Done
  <2> DEFINE size == e.orders[x].size
             n == Lesser(size, s.rem)
             f == FillFront(e, x, L, n, ts)
             left == size - n
             fill == [id |-> x[2], side |-> OrderSideOf(L[1]), price |-> L[2],
                      size |-> n, ts |-> ts]
  <2>1. t = [e |-> f, rem |-> s.rem - n]
    BY <1>9 DEF ConsumeStep
  <2>2. t.e = f /\ t.rem = s.rem - n
    BY <2>1
  <2>3. Native!HasOrder(Image(e), Name(x))
    <3> DEFINE i == Image(e)
    <3>1. i = Image(e)
      OBVIOUS
    <3> HIDE DEF i, e, x
    <3>2. Native!HasOrder(i, Name(x))
      BY <1>1, <1>5, <1>9, <3>1, OrderImage
    <3> QED BY <3>2 DEF i
  <2>4. u = Native!ConsumeFront(c, Char(L[1]), L[2], ts)
    <3> HIDE DEF c, x, e
    <3> QED BY <1>4, <1>5, <1>9, <2>3 DEF Native!ConsumeTurn
  <2>5. Native!ConsumeFront([e |-> Image(e), remaining |-> s.rem], Char(L[1]), L[2], ts)
          = [e |-> Image(f), remaining |-> s.rem - n]
    <3> DEFINE m == n
    <3>1. s.rem \in Nat \ {0} /\ x = Head(e.queues[L]) /\ m = Lesser(e.orders[x].size, s.rem)
      BY <1>1, <1>9
    <3> HIDE DEF m, x, e
    <3>2. Native!ConsumeFront([e |-> Image(e), remaining |-> s.rem], Char(L[1]), L[2], ts)
          = [e |-> Image(FillFront(e, x, L, m, ts)), remaining |-> s.rem - m]
      BY <1>1, <1>9, <3>1, FillFrontImage
    <3> QED BY <3>2 DEF m
  <2>6. u = ConsumeImage(t)
    <3> HIDE DEF u, e, f, n, c, t
    <3> QED BY <1>4, <2>2, <2>4, <2>5 DEF ConsumeImage
  <2>7. /\ f.book = RemoveFromBook(e.book, L, n) /\ f.orders = SetSize(e.orders, x, left)
    <3>1. f = FillFront(e, x, L, n, ts) /\ left = e.orders[x].size - n
          /\ fill = [id |-> x[2], side |-> OrderSideOf(L[1]), price |-> L[2],
                     size |-> n, ts |-> ts]
      OBVIOUS
    <3> HIDE DEF f, left, fill, n, x, e
    <3> QED BY ONLY <1>1, <3>1, FillFrontFields
  <2>8. size \in Nat \ {0} /\ n \in Nat /\ left \in Nat /\ left <= size
    <3>1. size \in Nat \ {0}
      BY <1>1, <1>9, SoundFields
    <3> HIDE DEF size
    <3>2. n \in Nat /\ n <= size
      BY <1>1, <3>1, LesserFacts
    <3> HIDE DEF n
    <3> QED BY <3>1, <3>2
  <2>9. Shrunk(e, f)
    <3> HIDE DEF n, left, f
    <3>1. \A M \in Levels : f.book[M] <= e.book[M]
      <4> HIDE DEF e
      <4> QED BY <1>2, <2>7, <2>8, RemoveShrinks
    <3>2. \A y \in DOMAIN f.orders :
             y \in DOMAIN e.orders /\ f.orders[y].size <= e.orders[y].size
      <4> DEFINE os == f.orders
      <4>1. os = SetSize(e.orders, x, left) /\ left <= e.orders[x].size
        BY <2>7, <2>8
      <4> HIDE DEF os, e, x
      <4>2. \A y \in DOMAIN os : y \in DOMAIN e.orders /\ os[y].size <= e.orders[y].size
        BY <1>2, <1>9, <2>8, <4>1, SetSizeShrinks
      <4> QED BY <4>2 DEF os
    <3> QED BY <3>1, <3>2 DEF Shrunk
  <2> QED BY <1>6, <2>2, <2>6, <2>9
<1>10. Done
  <2> HIDE DEF Done, e, x
  <2> QED BY <1>7, <1>8, <1>9
<1> QED BY <1>10

(* The loop turn by turn.                                                  *)
LEMMA NativeConsumeTurns ==
  ASSUME NEW G, NEW s \in G, NEW side, NEW price, NEW ts,
         \A t \in G : Native!ConsumeTurn(t, side, price, ts) \in G
  PROVE  /\ Native!ConsumeLoop(s, side, price, ts)[0] = s
         /\ \A n \in Nat : /\ Native!ConsumeLoop(s, side, price, ts)[n] \in G
                          /\ Native!ConsumeLoop(s, side, price, ts)[n + 1]
                               = Native!ConsumeTurn(Native!ConsumeLoop(s, side, price, ts)[n],
                                                    side, price, ts)
<1> DEFINE step == [p \in G \X Nat |-> Native!ConsumeTurn(p[1], side, price, ts)]
<1>1. step \in [G \X Nat -> G]
  OBVIOUS
<1>2. PICK g : IsLoop(g, G, s, step)
  <2> HIDE DEF step
  <2> QED BY <1>1, LoopExists, Zenon
<1>3. \A n \in Nat : g[n + 1] = Native!ConsumeTurn(g[n], side, price, ts) /\ g[n] \in G
  <2>1. ASSUME NEW n \in Nat
        PROVE  g[n + 1] = Native!ConsumeTurn(g[n], side, price, ts) /\ g[n] \in G
    <3>1. g[n] \in G /\ <<g[n], n + 1>> \in G \X Nat
      BY <1>2 DEF IsLoop
    <3> QED BY <1>2, <3>1 DEF IsLoop
  <2> QED BY <2>1
<1> DEFINE f == CHOOSE h : h = [n \in Nat |-> IF n = 0 THEN s
                                              ELSE Native!ConsumeTurn(h[n - 1], side, price, ts)]
<1>4. g = [n \in Nat |-> IF n = 0 THEN s ELSE Native!ConsumeTurn(g[n - 1], side, price, ts)]
  <2>1. ASSUME NEW n \in Nat
        PROVE  g[n] = IF n = 0 THEN s ELSE Native!ConsumeTurn(g[n - 1], side, price, ts)
    <3>1. CASE n = 0
      BY <1>2, <3>1 DEF IsLoop
    <3>2. CASE n # 0
      <4>1. n - 1 \in Nat /\ (n - 1) + 1 = n
        BY <3>2
      <4>2. g[(n - 1) + 1] = Native!ConsumeTurn(g[n - 1], side, price, ts)
        BY <1>3, <4>1
      <4> QED BY <4>1, <4>2, <3>2
    <3> QED BY <3>1, <3>2
  <2> QED BY <2>1, <1>2 DEF IsLoop
<1>5. f = [n \in Nat |-> IF n = 0 THEN s ELSE Native!ConsumeTurn(f[n - 1], side, price, ts)]
  BY <1>4
<1>6. Native!ConsumeLoop(s, side, price, ts) = f
  BY DEF Native!ConsumeLoop
<1> HIDE DEF f
<1>7. f[0] = s
  BY <1>5
<1>8. ASSUME NEW n \in Nat
      PROVE  f[n + 1] = Native!ConsumeTurn(f[n], side, price, ts)
  <2>1. n + 1 \in Nat /\ n + 1 # 0 /\ (n + 1) - 1 = n
    OBVIOUS
  <2> QED BY <1>5, <2>1
<1> DEFINE S == {n \in Nat : f[n] \in G}
<1>9. S = Nat
  <2>1. ASSUME NEW n \in S PROVE n + 1 \in S
    BY <1>8, <2>1
  <2>2. S \in SUBSET Nat /\ 0 \in S
    BY <1>7
  <2> HIDE DEF S
  <2> QED BY <2>1, <2>2, SetInduction
<1>10. \A n \in Nat : f[n] \in G
  BY <1>9
<1> QED BY <1>6, <1>7, <1>8, <1>10

(* consume_level.                                                          *)
LEMMA ConsumeLevelImage ==
  ASSUME NEW e, Sound(e), NEW L \in Levels, NEW n \in Nat, NEW ts \in Nat
  PROVE  /\ Sound(ConsumeLevel(e, L, n, ts))
         /\ Native!ConsumeLevel(Image(e), Char(L[1]), L[2], n, ts)
              = Image(ConsumeLevel(e, L, n, ts))
<1> DEFINE s == [e |-> e, rem |-> n]
           c == [e |-> Image(e), remaining |-> n]
           f == ConsumeLoop(s, L, ts)
           g == Native!ConsumeLoop(c, Char(L[1]), L[2], ts)
           k == Len(e.queues[L])
           G == {ConsumeImage(t) : t \in SoundStates}
<1>1. s \in SoundStates
  <2>1. EngineInv(e) /\ EngineOK(e)
    BY DEF Sound, EngineInv
  <2>2. e \in Engines
    BY <2>1, EnginesFacts
  <2> QED BY <2>1, <2>2 DEF SoundStates, ConsumeStates
<1>2. c = ConsumeImage(s) /\ s.e = e
  BY DEF ConsumeImage
<1>3. e.queues \in [Levels -> Seq(Entries)] /\ e.queues[L] \in Seq(Entries)
  BY SoundFields DEF Sound, EngineInv
<1>4. k \in Nat /\ Len(Native!Queue(Image(e), Char(L[1]), L[2])) = k
  <2>1. Native!Queue(Image(e), Char(L[1]), L[2]) = Named(e.queues[L])
    BY ONLY <1>3, L \in Levels, QueueImage DEF Image
  <2>2. Len(Named(e.queues[L])) = k
    BY <1>3, NamedFacts
  <2>3. k \in Nat
    BY <1>3
  <2> QED BY <2>1, <2>2, <2>3
<1>5. /\ ConsumeLevel(e, L, n, ts) = f[k].e
      /\ Native!ConsumeLevel(Image(e), Char(L[1]), L[2], n, ts) = g[k].e
  <2>1. ConsumeLevel(e, L, n, ts) = f[k].e
    BY DEF ConsumeLevel
  <2>2. Native!ConsumeLevel(Image(e), Char(L[1]), L[2], n, ts) = g[k].e
    <3> HIDE DEF k
    <3> QED BY <1>4 DEF Native!ConsumeLevel
  <2> QED BY <2>1, <2>2
<1> HIDE DEF s, c, k
<1>6. /\ f[0] = s
      /\ \A m \in Nat : f[m] \in SoundStates /\ f[m + 1] = ConsumeStep(f[m], L, ts)
  <2>1. \A t \in SoundStates : ConsumeStep(t, L, ts) \in SoundStates
    BY ConsumeTurnImage
  <2> QED BY <1>1, <2>1, ConsumeLoopTurns
<1>7. /\ g[0] = c
      /\ \A m \in Nat : g[m + 1] = Native!ConsumeTurn(g[m], Char(L[1]), L[2], ts)
  <2>1. c \in G
    BY <1>1, <1>2
  <2>2. \A t \in G : Native!ConsumeTurn(t, Char(L[1]), L[2], ts) \in G
    <3>1. ASSUME NEW t \in SoundStates
          PROVE  Native!ConsumeTurn(ConsumeImage(t), Char(L[1]), L[2], ts) \in G
      BY ConsumeTurnImage
    <3> QED BY <3>1
  <2> HIDE DEF G
  <2> QED BY <2>1, <2>2, NativeConsumeTurns
<1> HIDE DEF f, g
<1> DEFINE S == {m \in Nat : g[m] = ConsumeImage(f[m])}
<1>8. S = Nat
  <2>1. 0 \in S
    BY <1>2, <1>6, <1>7
  <2>2. ASSUME NEW m \in S PROVE m + 1 \in S
    BY <1>6, <1>7, ConsumeTurnImage
  <2>3. S \in SUBSET Nat
    OBVIOUS
  <2> HIDE DEF S
  <2> QED BY <2>1, <2>2, <2>3, SetInduction
<1>9. g[k] = ConsumeImage(f[k]) /\ f[k] \in SoundStates
  BY <1>4, <1>6, <1>8
<1>10. g[k].e = Image(f[k].e)
  BY <1>9 DEF ConsumeImage
<1> QED BY <1>5, <1>9, <1>10 DEF SoundStates

(***************************************************************************)
(* Feed events.                                                            *)
(***************************************************************************)

(* advance_time, and the start of every event.                             *)
LEMMA AdvanceTimeImage ==
  ASSUME NEW e, Sound(e), NEW ts \in Nat
  PROVE  /\ Sound(AdvanceTime(e, ts))
         /\ Native!AdvanceTime(Image(e), ts) = Image(AdvanceTime(e, ts))
         /\ AdvanceTime(e, ts).fills = e.fills
<1> DEFINE f == AdvanceTime(e, ts)
<1>1. EngineInv(e) /\ EngineOK(e) /\ DOMAIN e = Fields
  BY SoundFields DEF Sound, EngineInv
<1>2. /\ f.book = e.book /\ f.orders = e.orders /\ f.queues = e.queues
      /\ f.fills = e.fills /\ f.nextId = e.nextId /\ f.now = ts
      /\ f.position = e.position
  BY <1>1 DEF AdvanceTime, Fields
<1>3. EngineInv(f)
  BY <1>1, AdvanceTimeFacts
<1> HIDE DEF f
<1>4. Sound(f)
  BY <1>2, <1>3 DEF Sound, Small, Fits
<1>5. Native!AdvanceTime(Image(e), ts)
        = Img(e.book, e.orders, e.queues, e.fills, e.nextId, ts, e.position)
  BY DEF Native!AdvanceTime, Image, Img
<1>6. Image(f) = Img(e.book, e.orders, e.queues, e.fills, e.nextId, ts, e.position)
  BY <1>2 DEF Image
<1> QED BY <1>2, <1>4, <1>5, <1>6 DEF f

LEMMA PutSmall ==
  ASSUME NEW orders, \A y \in DOMAIN orders : orders[y].size <= MaxSize,
         NEW x, NEW o, o.size <= MaxSize, NEW f, f = Put(orders, x, o)
  PROVE  \A y \in DOMAIN f : f[y].size <= MaxSize
<1>1. DOMAIN f = DOMAIN orders \cup {x} /\ f[x] = o
      /\ \A y \in DOMAIN orders : y # x => f[y] = orders[y]
  BY DEF Put
<1> QED BY <1>1

LEMMA SetSizeSmall ==
  ASSUME NEW orders, \A y \in DOMAIN orders : orders[y].size <= MaxSize,
         NEW x, NEW n, n <= MaxSize, NEW f, f = SetSize(orders, x, n)
  PROVE  \A y \in DOMAIN f : f[y].size <= MaxSize
<1>1. CASE n = 0
  <2>1. f = Drop(orders, x)
    BY <1>1 DEF SetSize
  <2> QED BY <2>1 DEF Drop
<1>2. CASE n # 0
  <2> DEFINE v == [level |-> orders[x].level, size |-> n]
  <2>1. f = Put(orders, x, v) /\ v.size <= MaxSize
    BY <1>2 DEF SetSize
  <2> HIDE DEF v
  <2> QED BY <2>1, PutSmall
<1> QED BY <1>1, <1>2

\* The events of the columns.
RowEvents == {ev \in MBOEvents : ev.size <= MaxSize}

LEMMA RestOrders ==
  ASSUME NEW e, EngineOK(e), NEW x, NEW L, NEW n, NEW f, f = Rest(e, x, L, n)
  PROVE  /\ f.orders = Put(e.orders, x, [level |-> L, size |-> n])
         /\ f.book = AddToBook(e.book, L, n)
<1>1. DOMAIN e = Fields
  BY SoundFields
<1> QED BY <1>1 DEF Rest, Fields

(* An order has at most the size of its last event.                        *)
LEMMA EventKeepsSmall ==
  ASSUME NEW e, Sound(e), NEW ev \in RowEvents, NEW f,
         \/ f = Rest(e, Public(ev.id), ev.level, ev.size)
         \/ f = CancelPublic(e, ev)
         \/ f = ModifyPublic(e, ev)
  PROVE  Small(f)
<1> DEFINE x == Public(ev.id)
           o == [level |-> ev.level, size |-> ev.size]
           os == f.orders
<1>1. /\ EngineOK(e) /\ \A y \in DOMAIN e.orders : e.orders[y].size <= MaxSize
      /\ DOMAIN e = Fields /\ \A y \in DOMAIN e.orders : e.orders[y].size \in Nat
  BY SoundFields DEF Sound, EngineInv, Small
<1>2. ev.size \in Nat /\ ev.size <= MaxSize /\ o.size <= MaxSize /\ MaxSize \in Nat
  BY MaxIntFacts DEF RowEvents, MBOEvents
<1>3. SUFFICES \A y \in DOMAIN os : os[y].size <= MaxSize
  BY DEF Small
<1>4. ASSUME os = Put(e.orders, x, o) PROVE \A y \in DOMAIN os : os[y].size <= MaxSize
  <2> HIDE DEF x, o, os
  <2> QED BY <1>1, <1>2, <1>4, PutSmall
<1>5. ASSUME NEW n \in Nat, n <= MaxSize, os = SetSize(e.orders, x, n)
      PROVE  \A y \in DOMAIN os : os[y].size <= MaxSize
  <2> HIDE DEF x, os
  <2> QED BY <1>1, <1>5, SetSizeSmall
<1>6. CASE f = Rest(e, x, ev.level, ev.size)
  <2>1. os = Put(e.orders, x, o)
    BY <1>1, <1>6, RestOrders
  <2> QED BY <1>4, <2>1
<1>7. CASE f = CancelPublic(e, ev)
  <2>1. CASE x \notin DOMAIN e.orders
    <3>1. os = e.orders
      BY <1>1, <1>7, <2>1 DEF CancelPublic, Fields
    <3> QED BY <1>1, <3>1
  <2>2. CASE x \in DOMAIN e.orders
    <3> DEFINE size == e.orders[x].size
               n == size - Lesser(size, ev.size)
    <3>1. f = Resize(e, x, n)
      BY <1>7, <2>2 DEF CancelPublic
    <3>2. size \in Nat /\ size <= MaxSize
      BY <1>1, <2>2
    <3>3. n \in Nat /\ n <= MaxSize
      <4> HIDE DEF size
      <4>1. Lesser(size, ev.size) \in Nat /\ Lesser(size, ev.size) <= size
        BY <1>2, <3>2, LesserFacts
      <4> QED BY <1>2, <3>2, <4>1
    <3> HIDE DEF n
    <3>4. os = SetSize(e.orders, x, n)
      <4> DEFINE p == e.orders[x]
      <4>1. p = e.orders[x]
        OBVIOUS
      <4> HIDE DEF x, p
      <4> QED BY <1>1, <2>2, <3>1, <3>3, <4>1, ResizeFields
    <3> HIDE DEF os, x
    <3> QED BY <1>5, <3>3, <3>4
  <2> QED BY <2>1, <2>2
<1>8. CASE f = ModifyPublic(e, ev)
  <2>1. CASE x \notin DOMAIN e.orders
    <3>1. f = Rest(e, x, ev.level, ev.size)
      BY <1>8, <2>1 DEF ModifyPublic
    <3> QED BY <1>6, <3>1
  <2>2. CASE x \in DOMAIN e.orders /\ e.orders[x].level = ev.level
    <3>1. f = Resize(e, x, ev.size)
      BY <1>8, <2>2 DEF ModifyPublic
    <3>2. os = SetSize(e.orders, x, ev.size)
      <4> DEFINE p == e.orders[x]
      <4>1. p = e.orders[x]
        OBVIOUS
      <4> HIDE DEF x, p
      <4> QED BY <1>1, <1>2, <2>2, <3>1, <4>1, ResizeFields
    <3> HIDE DEF os, x
    <3> QED BY <1>2, <1>5, <3>2
  <2>3. CASE x \in DOMAIN e.orders /\ e.orders[x].level # ev.level
    <3> DEFINE p == e.orders[x]
               left == [e EXCEPT !.book = RemoveFromBook(@, p.level, p.size),
                                 !.queues = Dequeue(@, p.level, x)]
    <3>1. f = Rest(left, x, ev.level, ev.size)
      BY <1>8, <2>3 DEF ModifyPublic, MovePublic
    <3>2. left.orders = e.orders /\ DOMAIN left = Fields
      BY <1>1 DEF Fields
    <3> HIDE DEF left
    <3>3. os = Put(e.orders, x, o)
      BY <3>1, <3>2 DEF Rest, Fields
    <3> QED BY <1>4, <3>3
  <2> QED BY <2>1, <2>2, <2>3
<1> QED BY <1>6, <1>7, <1>8

LEMMA RowFacts ==
  ASSUME NEW ev \in RowEvents, NEW r, r = Row(ev)
  PROVE  /\ r.ts = ev.ts /\ r.side = Char(ev.level[1]) /\ r.price = ev.level[2]
         /\ r.size = ev.size /\ <<"publicOrders", r.id>> = Name(Public(ev.id))
         /\ r.action = Code[ev.action]
BY DEF Row, Name, Public, IsOwn

(* apply_event: the same state and the same fills.                         *)
LEMMA ApplyEventImage ==
  ASSUME NEW e, Sound(e), NEW ev \in RowEvents, NEW f, f = ApplyEvent(e, ev), Fits(f)
  PROVE  Sound(f) /\ Native!ApplyEventCode(Image(e), Row(ev)) = Image(f)
<1> DEFINE now == AdvanceTime(e, ev.ts)
           x == Public(ev.id)
           r == Row(ev)
           i == Image(now)
           c == Native!ApplyEventCode(Image(e), r)
<1>1. /\ ev \in MBOEvents /\ ev.ts \in Nat /\ ev.level \in Levels /\ ev.size \in Nat \ {0}
      /\ ev.size <= MaxSize /\ ev.size \in Nat /\ ev.id \in PublicIds
      /\ ev.action \in {"add", "cancel", "modify", "trade"}
  BY DEF RowEvents, MBOEvents
<1>2. /\ r.ts = ev.ts /\ r.side = Char(ev.level[1]) /\ r.price = ev.level[2]
      /\ r.size = ev.size /\ <<"publicOrders", r.id>> = Name(x)
      /\ r.action = Code[ev.action]
  BY RowFacts
<1>3. Sound(now) /\ Native!AdvanceTime(Image(e), ev.ts) = i /\ EngineOK(now)
  BY <1>1, AdvanceTimeImage DEF Sound, EngineInv
<1>4. x \in Entries
  BY <1>1, EntryFacts
<1>5. EngineInv(f)
  BY <1>1, ApplyEventFacts DEF Sound
<1>6. /\ Code["add"] = "A" /\ Code["cancel"] = "C" /\ Code["modify"] = "M"
      /\ Code["trade"] = "T"
  BY DEF Code
<1> DEFINE Done == Sound(f) /\ c = Image(f)
<1> HIDE DEF r
<1>7. /\ r.action = "A" => c = Native!Add(i, Name(x), Char(ev.level[1]), ev.level[2], ev.size)
      /\ r.action = "C" => c = Native!CancelPublic(i, Name(x), Char(ev.level[1]), ev.level[2],
                                                   ev.size)
      /\ r.action = "M" => c = Native!ModifyPublic(i, Name(x), Char(ev.level[1]), ev.level[2],
                                                   ev.size)
      /\ r.action = "T" => c = Native!ConsumeLevel(i, Char(ev.level[1]), ev.level[2], ev.size,
                                                   ev.ts)
  <2> DEFINE j == Image(e)
  <2>1. [j EXCEPT !.now = r.ts] = i
    BY <1>2, <1>3 DEF Native!AdvanceTime
  <2> HIDE DEF i, j, x
  <2> QED BY <1>2, <2>1 DEF Native!ApplyEventCode, j
<1> HIDE DEF c
<1>8. ASSUME ev.action = "add" PROVE Done
  <2>1. f = Rest(now, x, ev.level, ev.size)
    BY <1>8 DEF ApplyEvent, AdvanceTime
  <2>2. Small(f)
    <3> HIDE DEF now
    <3> QED BY <1>3, <2>1, EventKeepsSmall
  <2>3. now.book[ev.level] + ev.size <= Native!MaxInt
    <3> DEFINE b == now.book
               a == b[ev.level]
    <3>1. b \in [Levels -> Nat]
      BY <1>3, SoundFields
    <3>2. f.book = AddToBook(b, ev.level, ev.size)
      <4> HIDE DEF now, x
      <4>1. f.book = AddToBook(now.book, ev.level, ev.size)
        <5>1. DOMAIN now = Fields
          BY <1>3, SoundFields
        <5> QED BY ONLY <2>1, <5>1 DEF Rest, Fields
      <4> QED BY <4>1
    <3>3. f.book[ev.level] <= Native!MaxInt
      BY <1>1 DEF Fits
    <3> HIDE DEF b
    <3>4. f.book[ev.level] = a + ev.size
      BY <1>1, <3>1, <3>2 DEF AddToBook
    <3> HIDE DEF now, a
    <3>5. a + ev.size <= Native!MaxInt
      BY <3>3, <3>4
    <3> QED BY <3>5 DEF a, b
  <2>4. c = Native!Add(i, Name(x), Char(ev.level[1]), ev.level[2], ev.size)
    BY <1>2, <1>6, <1>7, <1>8
  <2>5. Native!Add(i, Name(x), Char(ev.level[1]), ev.level[2], ev.size)
          = Image(Rest(now, x, ev.level, ev.size))
    <3> HIDE DEF now, x
    <3> QED BY <1>1, <1>3, <1>4, <2>3, RestImage
  <2> HIDE DEF now, x
  <2> QED BY <1>5, <2>1, <2>2, <2>4, <2>5 DEF Sound
<1>9. ASSUME ev.action = "cancel" PROVE Done
  <2>1. f = CancelPublic(now, ev)
    BY <1>9 DEF ApplyEvent, AdvanceTime
  <2>2. Small(f)
    <3> HIDE DEF now
    <3> QED BY <1>3, <2>1, EventKeepsSmall
  <2>3. c = Native!CancelPublic(i, Name(x), Char(ev.level[1]), ev.level[2], ev.size)
    BY <1>2, <1>6, <1>7, <1>9
  <2>4. Native!CancelPublic(i, Name(x), Char(ev.level[1]), ev.level[2], ev.size)
          = Image(CancelPublic(now, ev))
    <3> HIDE DEF now
    <3> QED BY <1>1, <1>3, CancelImage
  <2> HIDE DEF now, x
  <2> QED BY <1>5, <2>1, <2>2, <2>3, <2>4 DEF Sound
<1>10. ASSUME ev.action = "modify" PROVE Done
  <2>1. f = ModifyPublic(now, ev)
    BY <1>10 DEF ApplyEvent, AdvanceTime
  <2>2. Small(f)
    <3> HIDE DEF now
    <3> QED BY <1>3, <2>1, EventKeepsSmall
  <2>3. c = Native!ModifyPublic(i, Name(x), Char(ev.level[1]), ev.level[2], ev.size)
    BY <1>2, <1>6, <1>7, <1>10
  <2>4. Native!ModifyPublic(i, Name(x), Char(ev.level[1]), ev.level[2], ev.size)
          = Image(ModifyPublic(now, ev))
    <3> HIDE DEF now
    <3> QED BY <1>1, <1>3, <2>1, ModifyImage
  <2> HIDE DEF now, x
  <2> QED BY <1>5, <2>1, <2>2, <2>3, <2>4 DEF Sound
<1>11. ASSUME ev.action = "trade" PROVE Done
  <2>1. f = ConsumeLevel(now, ev.level, ev.size, ev.ts)
    BY <1>11 DEF ApplyEvent, AdvanceTime
  <2>2. c = Native!ConsumeLevel(i, Char(ev.level[1]), ev.level[2], ev.size, ev.ts)
    BY <1>2, <1>6, <1>7, <1>11
  <2>3. /\ Sound(ConsumeLevel(now, ev.level, ev.size, ev.ts))
        /\ Native!ConsumeLevel(i, Char(ev.level[1]), ev.level[2], ev.size, ev.ts)
             = Image(ConsumeLevel(now, ev.level, ev.size, ev.ts))
    <3> HIDE DEF now
    <3> QED BY <1>1, <1>3, ConsumeLevelImage
  <2> HIDE DEF now
  <2> QED BY <2>1, <2>2, <2>3
<1>12. Done
  <2> HIDE DEF Done
  <2> QED BY <1>1, <1>8, <1>9, <1>10, <1>11
<1> QED BY <1>12 DEF c, r

(* What a call appended to the fills, coded.                               *)
LEMMA FillsSinceImage ==
  ASSUME NEW e, EngineOK(e), NEW f, EngineOK(f), Len(e.fills) <= Len(f.fills)
  PROVE  /\ Native!FillsSince(Image(e), Image(f)) = Coded(NewFills(e, f))
         /\ FromRows(Native!FillsSince(Image(e), Image(f))) = NewFills(e, f)
         /\ NewFills(e, f) \in Seq(ActiveFills)
<1> DEFINE u == e.fills
           v == f.fills
           w == SubSeq(v, Len(u) + 1, Len(v))
           p == Image(e).passiveFills
           q == Image(f).passiveFills
<1>1. u \in Seq(ActiveFills) /\ v \in Seq(ActiveFills)
  BY SoundFields
<1>2. p = Coded(u) /\ q = Coded(v)
  BY DEF Image, Img
<1>3. Native!FillsSince(Image(e), Image(f)) = SubSeq(q, Len(p) + 1, Len(q))
  BY DEF Native!FillsSince
<1>4. NewFills(e, f) = w
  BY DEF NewFills
<1>5. Len(u) \in Nat /\ Len(u) <= Len(v)
  BY <1>1
<1> HIDE DEF u, v, p, q
<1>6. Len(p) = Len(u)
  BY <1>1, <1>2, CodedFacts
<1>7. SubSeq(q, Len(u) + 1, Len(q)) = Coded(w) /\ w \in Seq(ActiveFills)
  BY <1>1, <1>2, <1>5, CodedSubSeq
<1> HIDE DEF w
<1>8. FromRows(Coded(w)) = w
  BY <1>7, CodedRows
<1> QED BY <1>3, <1>4, <1>6, <1>7, <1>8

(***************************************************************************)
(* Valuation marks.                                                        *)
(***************************************************************************)

(* The two ends of the book.                                               *)
LEMMA BookTopImage ==
  ASSUME NEW e, EngineOK(e), NEW top, top = Native!BookTop(Image(e))
  PROVE  /\ TwoSided(e) <=> ~(top[1] < 0 \/ top[2] < 0)
         /\ TwoSided(e) => top[1] + top[2] = DoubleMid(e)
<1> DEFINE B == Quoted(e, "bid")
           A == Quoted(e, "ask")
           i == Image(e)
           bid == IF B = {} THEN -1 ELSE Max(B)
           ask == IF A = {} THEN -1 ELSE Min(A)
<1>1. DOMAIN i.bids = B /\ DOMAIN i.asks = A
  BY DEF Image, Img, Depth, Quoted
<1>2. B \in SUBSET Prices /\ A \in SUBSET Prices /\ Prices \subseteq Nat
  BY PricesAssumption DEF Quoted
<1> HIDE DEF i
<1> DEFINE D == DOMAIN i.bids
           E == DOMAIN i.asks
<1>3. top = <<IF D = {} THEN -1 ELSE Native!Max(D), IF E = {} THEN -1 ELSE Native!Min(E)>>
  BY DEF Native!BookTop, Native!MissingPrice, i
<1> HIDE DEF D, E
<1>4. Native!Max(D) = Max(B) /\ Native!Min(E) = Min(A)
  BY <1>1 DEF D, E, Native!Max, Max, Native!Min, Min
<1>5. TwoSided(e) <=> B # {} /\ A # {}
  BY DEF TwoSided
<1>6. DoubleMid(e) = Max(B) + Min(A)
  BY DEF DoubleMid
<1> HIDE DEF B, A
<1>7. D = B /\ E = A
  BY <1>1 DEF D, E
<1>8. top = <<bid, ask>>
  BY <1>3, <1>4, <1>7
<1>9. /\ B # {} => Max(B) \in Nat
      /\ A # {} => Min(A) \in Nat
  <2>1. ASSUME B # {} PROVE Max(B) \in Nat
    <3>1. Best("bid", B) \in B
      BY <1>2, <2>1, BestFacts
    <3> QED BY <1>2, <3>1 DEF Best
  <2>2. ASSUME A # {} PROVE Min(A) \in Nat
    <3>1. Best("ask", A) \in A
      BY <1>2, <2>2, BestFacts
    <3> QED BY <1>2, <3>1 DEF Best
  <2> QED BY <2>1, <2>2
<1>10. top[1] = bid /\ top[2] = ask
  <2> HIDE DEF bid, ask
  <2> QED BY <1>8
<1> DEFINE m == Max(B)
           n == Min(A)
<1>11. /\ B # {} => bid = m /\ m \in Nat
       /\ A # {} => ask = n /\ n \in Nat
       /\ B = {} => bid = -1
       /\ A = {} => ask = -1
       /\ DoubleMid(e) = m + n
  BY <1>6, <1>9
<1> HIDE DEF m, n, bid, ask
<1> QED BY <1>5, <1>10, <1>11

\* The states of a replay's loop, and the state of the C++ batch that stands for one.
SoundReplays == {r \in ReplayStates : Sound(r.engine)}
BatchImage(r) == [e |-> Image(r.engine), fills |-> Coded(r.fills), marks |-> r.marks]

(* One event of a batch.                                                   *)
LEMMA BatchTurnImage ==
  ASSUME NEW r \in SoundReplays, NEW ev \in RowEvents, Fits(ApplyEvent(r.engine, ev))
  PROVE  /\ ReplayStep(r, ev) \in SoundReplays
         /\ Native!BatchTurn(BatchImage(r), Row(ev)) = BatchImage(ReplayStep(r, ev))
<1> DEFINE e == r.engine
           f == ApplyEvent(e, ev)
           t == ReplayStep(r, ev)
           b == BatchImage(r)
           row == Row(ev)
           c == Native!ApplyEventCode(Image(e), row)
           new == Native!FillsSince(Image(e), c)
           top == Native!BookTop(c)
           mark == [ts |-> row.ts, mid2 |-> top[1] + top[2]]
           u == Native!BatchTurn(b, row)
<1>1. r \in ReplayStates /\ Sound(e) /\ EngineOK(e) /\ ev \in MBOEvents /\ EngineInv(e)
  BY DEF SoundReplays, Sound, EngineInv, RowEvents
<1>2. t \in ReplayStates
  BY <1>1, ReplayStepFacts
<1>3. /\ t.engine = f /\ t.fills = r.fills \o NewFills(e, f) /\ t.marks = Marked(r.marks, f, ev.ts)
  BY DEF ReplayStep
<1>4. b.e = Image(e) /\ b.fills = Coded(r.fills) /\ b.marks = r.marks
  BY DEF BatchImage
<1>5. /\ u.e = c /\ u.fills = b.fills \o new
      /\ u.marks = IF top[1] < 0 \/ top[2] < 0 THEN b.marks ELSE Append(b.marks, mark)
      /\ u = [e |-> u.e, fills |-> u.fills, marks |-> u.marks]
  <2> HIDE DEF b, row
  <2>1. c = Native!ApplyEventCode(b.e, row) /\ new = Native!FillsSince(b.e, c)
    BY <1>4
  <2> HIDE DEF c, new
  <2> QED BY <2>1 DEF Native!BatchTurn
<1> HIDE DEF u
<1>6. Sound(f) /\ c = Image(f) /\ EngineOK(f)
  <2>1. f = ApplyEvent(e, ev) /\ Fits(f)
    OBVIOUS
  <2> HIDE DEF f, e
  <2> QED BY <1>1, <2>1, ApplyEventImage DEF Sound, EngineInv
<1>7. Len(e.fills) <= Len(f.fills)
  <2> HIDE DEF e
  <2> QED BY <1>1, ApplyEventFacts DEF FillsGrow
<1>8. new = Coded(NewFills(e, f)) /\ NewFills(e, f) \in Seq(ActiveFills)
  <2> HIDE DEF e, f, c
  <2> QED BY <1>1, <1>6, <1>7, FillsSinceImage
<1>9. u.fills = Coded(t.fills)
  <2> DEFINE p == r.fills
             q == NewFills(e, f)
  <2>1. p \in Seq(ActiveFills)
    BY <1>1, FillsAreActive DEF ReplayStates
  <2>2. u.fills = Coded(p) \o Coded(q) /\ t.fills = p \o q /\ q \in Seq(ActiveFills)
    BY <1>3, <1>4, <1>5, <1>8
  <2> HIDE DEF p, q, t
  <2> QED BY <2>1, <2>2, CodedConcat
<1>10. row.ts = ev.ts
  BY RowFacts
<1>11. u.marks = t.marks
  <2>1. /\ TwoSided(f) <=> ~(top[1] < 0 \/ top[2] < 0)
        /\ TwoSided(f) => top[1] + top[2] = DoubleMid(f)
    <3> HIDE DEF f, c
    <3>1. top = Native!BookTop(Image(f))
      BY <1>6
    <3> HIDE DEF top
    <3> QED BY <1>6, <3>1, BookTopImage
  <2>2. TwoSided(f) => mark = [ts |-> ev.ts, mid2 |-> DoubleMid(f)]
    <3> HIDE DEF top, f, row
    <3> QED BY <1>10, <2>1
  <2> HIDE DEF top, mark, f, t, b
  <2> QED BY <1>3, <1>4, <1>5, <2>1, <2>2 DEF Marked
<1>12. u = BatchImage(t)
  <2> HIDE DEF t, c, f
  <2> QED BY <1>3, <1>5, <1>6, <1>9, <1>11 DEF BatchImage
<1>13. t \in SoundReplays
  <2> HIDE DEF t, f
  <2> QED BY <1>2, <1>3, <1>6 DEF SoundReplays
<1> QED BY <1>12, <1>13 DEF u

(***************************************************************************)
(* Slices of events.                                                       *)
(***************************************************************************)

(* The rows of a slice.                                                    *)
LEMMA RowsFacts ==
  ASSUME NEW evs \in Seq(RowEvents), NEW rows, rows = Rows(evs)
  PROVE  Len(rows) = Len(evs) /\ \A i \in 1..Len(evs) : rows[i] = Row(evs[i])
<1>1. DOMAIN evs = 1..Len(evs) /\ Len(evs) \in Nat /\ \A i \in 1..Len(evs) : evs[i] \in RowEvents
  OBVIOUS
<1>2. rows = [i \in 1..Len(evs) |-> Row(evs[i])]
  BY <1>1 DEF Rows
<1> DEFINE T == {Row(ev) : ev \in RowEvents}
<1>3. rows \in Seq(T) /\ Len(rows) = Len(evs)
  <2>1. \A i \in 1..Len(evs) : Row(evs[i]) \in T
    BY <1>1
  <2> HIDE DEF T
  <2> QED BY <1>1, <1>2, <2>1
<1> QED BY <1>2, <1>3

(* What takes the turns of the batch is what the batch computes.           *)
TakesTheTurns(g, e, rows, N) ==
  /\ N \in Nat /\ Len(rows) = N
  /\ g = [i \in 0..N |-> g[i]]
  /\ g[0] = [e |-> e, fills |-> <<>>, marks |-> <<>>]
  /\ \A i \in 1..N : g[i] = Native!BatchTurn(g[i - 1], rows[i])

LEMMA BatchIs ==
  ASSUME NEW e, NEW rows, NEW N, NEW g, TakesTheTurns(g, e, rows, N)
  PROVE  Native!ApplyEventsBatchWithMarks(e, rows) = g[N]
<1>0. /\ N \in Nat /\ Len(rows) = N
      /\ g[0] = [e |-> e, fills |-> <<>>, marks |-> <<>>]
      /\ \A i \in 1..N : g[i] = Native!BatchTurn(g[i - 1], rows[i])
  BY DEF TakesTheTurns
<1>6. g = [i \in 0..N |-> g[i]]
  BY DEF TakesTheTurns
<1> DEFINE s == [e |-> e, fills |-> <<>>, marks |-> <<>>]
           f == CHOOSE h : h = [i \in 0..N |-> IF i = 0 THEN s
                                               ELSE Native!BatchTurn(h[i - 1], rows[i])]
<1>1. g = [i \in 0..N |-> IF i = 0 THEN s ELSE Native!BatchTurn(g[i - 1], rows[i])]
  <2>1. ASSUME NEW i \in 0..N
        PROVE  g[i] = IF i = 0 THEN s ELSE Native!BatchTurn(g[i - 1], rows[i])
    <3>1. CASE i = 0
      <4>1. g[0] = s
        BY ONLY <1>0 DEF s
      <4> QED BY ONLY <3>1, <4>1
    <3>2. CASE i # 0
      <4>1. i \in 1..N
        BY <1>0, <3>2
      <4>2. g[i] = Native!BatchTurn(g[i - 1], rows[i])
        BY ONLY <1>0, <4>1
      <4> QED BY ONLY <3>2, <4>2
    <3> QED BY <3>1, <3>2
  <2> DEFINE v(i) == IF i = 0 THEN s ELSE Native!BatchTurn(g[i - 1], rows[i])
  <2>2. \A i \in 0..N : g[i] = v(i)
    BY <2>1
  <2> HIDE DEF v
  <2>3. [i \in 0..N |-> g[i]] = [i \in 0..N |-> v(i)]
    BY <2>2
  <2>4. g = [i \in 0..N |-> v(i)]
    BY <1>6, <2>3
  <2> QED BY <2>4 DEF v
<1>2. f = [i \in 0..N |-> IF i = 0 THEN s ELSE Native!BatchTurn(f[i - 1], rows[i])]
  <2>1. \E h : h = [i \in 0..N |-> IF i = 0 THEN s ELSE Native!BatchTurn(h[i - 1], rows[i])]
    BY ONLY <1>1
  <2> QED BY ONLY <2>1
<1>3. Native!ApplyEventsBatchWithMarks(e, rows) = f[N]
  BY <1>0 DEF Native!ApplyEventsBatchWithMarks
<1> HIDE DEF f
<1> DEFINE S == {i \in Nat : i \in 0..N => f[i] = g[i]}
<1>4. S = Nat
  <2>1. f[0] = s /\ g[0] = s
    BY <1>0, <1>2
  <2>2. ASSUME NEW i \in S PROVE i + 1 \in S
    <3>1. SUFFICES ASSUME i + 1 \in 0..N PROVE f[i + 1] = g[i + 1]
      OBVIOUS
    <3>2. i \in Nat /\ i \in 0..N /\ i + 1 \in 1..N /\ (i + 1) - 1 = i /\ i + 1 # 0
      BY <1>0, <3>1
    <3>3. f[i] = g[i]
      BY <3>2
    <3>4. f[i + 1] = Native!BatchTurn(f[(i + 1) - 1], rows[i + 1])
      BY <1>0, <1>2, <3>1, <3>2
    <3>5. g[i + 1] = Native!BatchTurn(g[(i + 1) - 1], rows[i + 1])
      BY <1>0, <3>2
    <3> QED BY <3>2, <3>3, <3>4, <3>5
  <2>3. S \in SUBSET Nat /\ 0 \in S
    BY <2>1
  <2> HIDE DEF S
  <2> QED BY <2>2, <2>3, SetInduction
<1>5. f[N] = g[N]
  <2>1. N \in Nat /\ N \in 0..N
    BY ONLY <1>0
  <2>2. N \in S
    <3> HIDE DEF S
    <3> QED BY ONLY <1>4, <2>1
  <2> QED BY <2>1, <2>2
<1> QED BY <1>3, <1>5

(* The loop of a replay from e, and its states.                            *)
Run(e, evs) == ReplayLoop([engine |-> e, fills |-> <<>>, marks |-> <<>>], evs, 0)

LEMMA RunTurns ==
  ASSUME NEW e, EngineInv(e), NEW evs \in Seq(RowEvents), NEW R, R = Run(e, evs)
  PROVE  /\ R[0] = [engine |-> e, fills |-> <<>>, marks |-> <<>>]
         /\ \A i \in 1..Len(evs) : R[i] = ReplayStep(R[i - 1], evs[i])
         /\ \A i \in 0..Len(evs) : R[i] \in ReplayStates
<1> DEFINE r == [engine |-> e, fills |-> <<>>, marks |-> <<>>]
           N == Len(evs)
<1>1. r \in ReplayStates /\ r.engine = e
  <2>1. e \in Engines
    BY EnginesFacts DEF EngineInv
  <2> QED BY <2>1 DEF ReplayStates
<1>2. N \in Nat /\ evs \in Seq(MBOEvents) /\ 0 \in 0..N /\ \A i \in 1..N : evs[i] \in MBOEvents
  <2>1. RowEvents \subseteq MBOEvents
    BY DEF RowEvents
  <2> QED BY <2>1
<1>3. R = ReplayLoop(r, evs, 0)
  BY ONLY R = Run(e, evs) DEF Run
<1> HIDE DEF r
<1>4. /\ R[0] = r
      /\ \A n \in Nat : n + 1 \in 1..(N - 0) =>
            R[n + 1] = ReplayStep(R[n], evs[0 + (n + 1)])
  <2> DEFINE c == 0
  <2>1. c \in 0..Len(evs)
    BY <1>2
  <2> HIDE DEF c
  <2>2. /\ ReplayLoop(r, evs, c)[0] = r
        /\ \A n \in Nat : n + 1 \in 1..(Len(evs) - c) =>
              ReplayLoop(r, evs, c)[n + 1]
                = ReplayStep(ReplayLoop(r, evs, c)[n], evs[c + (n + 1)])
    BY <1>1, <1>2, <2>1, ReplayLoopTurns
  <2>3. c = 0
    BY DEF c
  <2> QED BY <1>3, <2>2, <2>3
<1>5. ASSUME NEW i \in 1..N PROVE R[i] = ReplayStep(R[i - 1], evs[i])
  <2> DEFINE n == i - 1
  <2>1. n \in Nat /\ n + 1 = i /\ n + 1 \in 1..(N - 0) /\ 0 + (n + 1) = i
    BY <1>2
  <2> HIDE DEF n
  <2>2. R[n + 1] = ReplayStep(R[n], evs[0 + (n + 1)])
    BY <1>4, <2>1
  <2> QED BY <2>1, <2>2 DEF n
<1> DEFINE S == {i \in Nat : i \in 0..N => R[i] \in ReplayStates}
<1>6. S = Nat
  <2>1. 0 \in S
    BY <1>1, <1>4
  <2>2. ASSUME NEW i \in S PROVE i + 1 \in S
    <3>1. SUFFICES ASSUME i + 1 \in 0..N PROVE R[i + 1] \in ReplayStates
      OBVIOUS
    <3>2. i \in 0..N /\ i + 1 \in 1..N /\ (i + 1) - 1 = i
      BY <1>2, <3>1
    <3>3. R[i] \in ReplayStates /\ R[i + 1] = ReplayStep(R[i], evs[i + 1])
      BY <1>5, <3>2
    <3> QED BY <1>2, <3>2, <3>3, ReplayStepFacts
  <2>3. S \in SUBSET Nat
    OBVIOUS
  <2> HIDE DEF S
  <2> QED BY <2>1, <2>2, <2>3, SetInduction
<1>7. \A i \in 0..N : R[i] \in ReplayStates
  <2>1. \A i \in 0..N : i \in S
    BY <1>2, <1>6
  <2> QED BY <2>1
<1> QED BY <1>4, <1>5, <1>7 DEF r

(* apply_events_batch_with_marks: the loop of the reference engine.        *)
LEMMA BatchFollowsLoop ==
  ASSUME NEW e, Sound(e), NEW evs \in Seq(RowEvents), NEW R, R = Run(e, evs),
         \A i \in 1..Len(evs) : Fits(R[i].engine)
  PROVE  /\ R[Len(evs)] \in SoundReplays
         /\ Native!ApplyEventsBatchWithMarks(Image(e), Rows(evs)) = BatchImage(R[Len(evs)])
<1> DEFINE N == Len(evs)
           rows == Rows(evs)
           g == [i \in 0..N |-> BatchImage(R[i])]
<1>1. N \in Nat /\ Len(rows) = N /\ \A i \in 1..N : rows[i] = Row(evs[i]) /\ evs[i] \in RowEvents
  BY RowsFacts
<1>2. EngineInv(e)
  BY DEF Sound
<1>3. /\ R[0] = [engine |-> e, fills |-> <<>>, marks |-> <<>>]
      /\ \A i \in 1..N : R[i] = ReplayStep(R[i - 1], evs[i])
      /\ \A i \in 0..N : R[i] \in ReplayStates
  BY <1>2, RunTurns
<1> HIDE DEF N, rows
<1>4. \A i \in 1..N : R[i].engine = ApplyEvent(R[i - 1].engine, evs[i])
  <2>1. ASSUME NEW i \in 1..N PROVE R[i].engine = ApplyEvent(R[i - 1].engine, evs[i])
    <3>1. R[i] = ReplayStep(R[i - 1], evs[i])
      BY <1>3
    <3> QED BY ONLY <3>1 DEF ReplayStep
  <2> QED BY <2>1
<1>5. \A i \in 1..N : Fits(R[i].engine)
  BY DEF N
<1> DEFINE S == {i \in Nat : i \in 0..N => R[i] \in SoundReplays}
<1>6. S = Nat
  <2>1. 0 \in S
    <3>1. R[0].engine = e /\ 0 \in 0..N
      BY <1>1, <1>3
    <3> QED BY <1>3, <3>1 DEF SoundReplays
  <2>2. ASSUME NEW i \in S PROVE i + 1 \in S
    <3>1. SUFFICES ASSUME i + 1 \in 0..N PROVE R[i + 1] \in SoundReplays
      OBVIOUS
    <3>2. i \in 0..N /\ i + 1 \in 1..N /\ (i + 1) - 1 = i
      BY <1>1, <3>1
    <3>3. R[i] \in SoundReplays /\ evs[i + 1] \in RowEvents
          /\ R[i + 1] = ReplayStep(R[i], evs[i + 1])
          /\ Fits(ApplyEvent(R[i].engine, evs[i + 1]))
      BY <1>1, <1>3, <1>4, <1>5, <3>2
    <3> QED BY <3>3, BatchTurnImage
  <2>3. S \in SUBSET Nat
    OBVIOUS
  <2> HIDE DEF S
  <2> QED BY <2>1, <2>2, <2>3, SetInduction
<1>7. \A i \in 0..N : R[i] \in SoundReplays
  <2>1. \A i \in 0..N : i \in S
    BY <1>1, <1>6
  <2> QED BY <2>1
<1>8. ASSUME NEW i \in 1..N PROVE g[i] = Native!BatchTurn(g[i - 1], rows[i])
  <2>1. i - 1 \in 0..N /\ i \in 0..N
    BY <1>1
  <2>2. g[i] = BatchImage(R[i]) /\ g[i - 1] = BatchImage(R[i - 1])
    BY <2>1
  <2>3. R[i - 1] \in SoundReplays /\ evs[i] \in RowEvents
        /\ R[i] = ReplayStep(R[i - 1], evs[i])
        /\ Fits(ApplyEvent(R[i - 1].engine, evs[i]))
    BY <1>1, <1>3, <1>4, <1>5, <1>7, <2>1
  <2> HIDE DEF g
  <2>4. Native!BatchTurn(BatchImage(R[i - 1]), Row(evs[i]))
          = BatchImage(ReplayStep(R[i - 1], evs[i]))
    BY <2>3, BatchTurnImage
  <2> QED BY <1>1, <2>2, <2>3, <2>4
<1>9. g[0] = [e |-> Image(e), fills |-> <<>>, marks |-> <<>>]
  <2>1. g[0] = BatchImage(R[0])
    BY <1>1
  <2>2. Coded(<<>>) = <<>>
    <3>1. <<>> \in Seq(ActiveFills)
      OBVIOUS
    <3> QED BY <3>1, CodedFacts
  <2> QED BY <1>3, <2>1, <2>2 DEF BatchImage
<1> DEFINE T == {BatchImage(R[i]) : i \in 0..N}
<1>10. g \in [0..N -> T] /\ g[N] = BatchImage(R[N])
  BY <1>1
<1> DEFINE i == Image(e)
<1> HIDE DEF g, i, T
<1>11. Native!ApplyEventsBatchWithMarks(i, rows) = g[N]
  <2>1. g[0] = [e |-> i, fills |-> <<>>, marks |-> <<>>]
    BY <1>9 DEF i
  <2>2. N \in Nat /\ Len(rows) = N
    BY <1>1
  <2>3. g = [k \in 0..N |-> g[k]]
    BY <1>10
  <2>4. \A k \in 1..N : g[k] = Native!BatchTurn(g[k - 1], rows[k])
    BY ONLY <1>8
  <2>5. TakesTheTurns(g, i, rows, N)
    BY ONLY <2>1, <2>2, <2>3, <2>4 DEF TakesTheTurns
  <2> QED BY ONLY <2>5, BatchIs
<1> QED BY <1>1, <1>7, <1>10, <1>11 DEF i, N, rows

\* One event of the fallback of advance_until_fill_boundary.
UntilStep(r, ev, n) ==
  LET f == ApplyEvent(r.engine, ev)
  IN  IF r.fills # <<>> THEN r
      ELSE [engine |-> f, fills |-> NewFills(r.engine, f), consumed |-> n]

UntilStates ==
  {r \in [engine : Engines, fills : Seq(Fills), consumed : Nat] : EngineInv(r.engine)}

LEMMA UntilStepFacts ==
  ASSUME NEW r \in UntilStates, NEW ev \in RowEvents, NEW n \in Nat
  PROVE  UntilStep(r, ev, n) \in UntilStates
<1> DEFINE f == ApplyEvent(r.engine, ev)
<1>1. EngineInv(r.engine) /\ ev \in MBOEvents
  BY DEF UntilStates, RowEvents
<1>2. EngineInv(f) /\ FillsGrow(r.engine.fills, f.fills, ev.ts, r.engine.nextId)
  BY <1>1, ApplyEventFacts
<1>3. f \in Engines /\ f.fills \in Seq(Fills) /\ r.engine.fills \in Seq(Fills)
  <2> HIDE DEF f
  <2>1. EngineOK(f) /\ EngineOK(r.engine)
    BY <1>1, <1>2 DEF EngineInv
  <2> QED BY <2>1, EnginesFacts, SoundFields
<1>4. NewFills(r.engine, f) \in Seq(Fills)
  <2> HIDE DEF f
  <2> QED BY <1>2, <1>3, NewFillsAppended
<1>5. UntilStep(r, ev, n) = IF r.fills # <<>> THEN r
                            ELSE [engine |-> f, fills |-> NewFills(r.engine, f), consumed |-> n]
  BY DEF UntilStep
<1> HIDE DEF f
<1> QED BY <1>2, <1>3, <1>4, <1>5 DEF UntilStates

(* The fallback event by event.                                            *)
LEMMA UntilTurns ==
  ASSUME NEW e, EngineInv(e), NEW evs \in Seq(RowEvents), NEW N, N = Len(evs)
  PROVE  \E A \in [0..N -> UntilStates] :
            /\ A[0] = [engine |-> e, fills |-> <<>>, consumed |-> 0]
            /\ \A i \in 1..N : A[i] = UntilStep(A[i - 1], evs[i], i)
            /\ UntilFill(e, evs) = A[N]
<1> DEFINE s == [engine |-> e, fills |-> <<>>, consumed |-> 0]
           step == [p \in UntilStates \X Nat |->
                       IF p[2] \in 1..N THEN UntilStep(p[1], evs[p[2]], p[2]) ELSE p[1]]
           f == CHOOSE h : h = [n \in 0..N |->
                    IF n = 0 THEN s
                    ELSE LET r == h[n - 1]
                             w == ApplyEvent(r.engine, evs[n])
                         IN  IF r.fills # <<>> THEN r
                             ELSE [engine |-> w, fills |-> NewFills(r.engine, w), consumed |-> n]]
<1>1. N \in Nat /\ \A i \in 1..N : evs[i] \in RowEvents
  OBVIOUS
<1>2. s \in UntilStates
  <2>1. e \in Engines
    BY EnginesFacts DEF EngineInv
  <2> QED BY <2>1 DEF UntilStates
<1>3. step \in [UntilStates \X Nat -> UntilStates]
  <2>1. \A p \in UntilStates \X Nat : p[2] \in 1..N =>
           UntilStep(p[1], evs[p[2]], p[2]) \in UntilStates
    BY <1>1, UntilStepFacts
  <2> QED BY <2>1
<1> HIDE DEF s
<1>4. PICK g : IsLoop(g, UntilStates, s, step)
  <2> HIDE DEF step
  <2> QED BY <1>2, <1>3, LoopExists, Zenon
<1>5. ASSUME NEW n \in Nat, n + 1 \in 1..N
      PROVE  g[n + 1] = UntilStep(g[n], evs[n + 1], n + 1)
  <2>1. <<g[n], n + 1>> \in UntilStates \X Nat
    BY <1>4 DEF IsLoop
  <2> QED BY <1>4, <1>5, <2>1 DEF IsLoop
<1>6. g \in [Nat -> UntilStates] /\ g[0] = s
  BY <1>4 DEF IsLoop
<1> HIDE DEF step
<1> DEFINE h == [n \in 0..N |-> g[n]]
<1>7. h = [n \in 0..N |-> IF n = 0 THEN s ELSE UntilStep(h[n - 1], evs[n], n)]
  <2>1. ASSUME NEW n \in 0..N
        PROVE  h[n] = IF n = 0 THEN s ELSE UntilStep(h[n - 1], evs[n], n)
    <3>1. CASE n = 0
      BY <1>1, <1>6, <3>1
    <3>2. CASE n # 0
      <4>1. n - 1 \in Nat /\ (n - 1) + 1 = n /\ n \in 1..N /\ n - 1 \in 0..N
        BY <1>1, <3>2
      <4>2. g[(n - 1) + 1] = UntilStep(g[n - 1], evs[(n - 1) + 1], (n - 1) + 1)
        BY <1>5, <4>1
      <4> QED BY <4>1, <4>2, <3>2
    <3> QED BY <3>1, <3>2
  <2> QED BY <2>1
<1> HIDE DEF h
<1>8. f = [n \in 0..N |-> IF n = 0 THEN s ELSE UntilStep(f[n - 1], evs[n], n)]
  BY <1>7 DEF UntilStep
<1>9. UntilFill(e, evs) = f[N]
  BY DEF UntilFill, s
<1> HIDE DEF f
<1>10. f[0] = s /\ \A i \in 1..N : f[i] = UntilStep(f[i - 1], evs[i], i)
  BY <1>1, <1>8
<1> DEFINE S == {n \in Nat : n \in 0..N => f[n] \in UntilStates}
<1>11. S = Nat
  <2>1. 0 \in S
    BY <1>2, <1>10
  <2>2. ASSUME NEW n \in S PROVE n + 1 \in S
    <3>1. SUFFICES ASSUME n + 1 \in 0..N PROVE f[n + 1] \in UntilStates
      OBVIOUS
    <3>2. n \in 0..N /\ n + 1 \in 1..N /\ (n + 1) - 1 = n /\ n + 1 \in Nat
      BY <1>1, <3>1
    <3>3. f[n] \in UntilStates /\ evs[n + 1] \in RowEvents
          /\ f[n + 1] = UntilStep(f[n], evs[n + 1], n + 1)
      BY <1>1, <1>10, <3>2
    <3> QED BY <3>2, <3>3, UntilStepFacts
  <2>3. S \in SUBSET Nat
    OBVIOUS
  <2> HIDE DEF S
  <2> QED BY <2>1, <2>2, <2>3, SetInduction
<1>12. \A n \in 0..N : f[n] \in UntilStates
  <2>1. \A n \in 0..N : n \in S
    BY <1>1, <1>11
  <2> QED BY <2>1
<1>13. f \in [0..N -> UntilStates]
  BY <1>8, <1>12
<1> QED BY <1>9, <1>10, <1>13 DEF s

\* g takes the turns of the C++ loop.
UntilRun(g, e, rows, N) ==
  /\ g[0] = [e |-> e, fills |-> <<>>, applied |-> 0]
  /\ \A i \in 1..N : g[i] = Native!UntilFillTurn(g[i - 1], rows[i])

(* What takes the turns of the C++ loop is what it computes.               *)
LEMMA NativeUntilIs ==
  ASSUME NEW e, NEW rows, NEW N \in Nat, Len(rows) = N,
         NEW T, NEW g \in [0..N -> T], UntilRun(g, e, rows, N)
  PROVE  Native!ApplyEventsUntilFill(e, rows) = g[N]
<1> DEFINE s == [e |-> e, fills |-> <<>>, applied |-> 0]
           f == CHOOSE h : h = [i \in 0..N |-> IF i = 0 THEN s
                                               ELSE Native!UntilFillTurn(h[i - 1], rows[i])]
<1>0. g[0] = s /\ \A i \in 1..N : g[i] = Native!UntilFillTurn(g[i - 1], rows[i])
  BY DEF UntilRun
<1>1. g = [i \in 0..N |-> IF i = 0 THEN s ELSE Native!UntilFillTurn(g[i - 1], rows[i])]
  <2> DEFINE v(i) == IF i = 0 THEN s ELSE Native!UntilFillTurn(g[i - 1], rows[i])
  <2>1. ASSUME NEW i \in 0..N PROVE g[i] = v(i)
    <3>1. CASE i = 0
      BY <1>0, <3>1
    <3>2. CASE i # 0
      BY <1>0, <3>2
    <3> QED BY <3>1, <3>2
  <2> HIDE DEF v
  <2>2. [i \in 0..N |-> g[i]] = [i \in 0..N |-> v(i)]
    BY <2>1
  <2>3. g = [i \in 0..N |-> v(i)]
    BY <2>2
  <2> QED BY <2>3 DEF v
<1>2. f = [i \in 0..N |-> IF i = 0 THEN s ELSE Native!UntilFillTurn(f[i - 1], rows[i])]
  <2>1. \E h : h = [i \in 0..N |-> IF i = 0 THEN s
                                   ELSE Native!UntilFillTurn(h[i - 1], rows[i])]
    BY ONLY <1>1
  <2> QED BY ONLY <2>1
<1>3. Native!ApplyEventsUntilFill(e, rows) = f[N]
  BY DEF Native!ApplyEventsUntilFill
<1> HIDE DEF f
<1> DEFINE S == {i \in Nat : i \in 0..N => f[i] = g[i]}
<1>4. S = Nat
  <2>1. f[0] = s /\ g[0] = s
    BY <1>0, <1>2
  <2>2. ASSUME NEW i \in S PROVE i + 1 \in S
    <3>1. SUFFICES ASSUME i + 1 \in 0..N PROVE f[i + 1] = g[i + 1]
      OBVIOUS
    <3>2. i \in Nat /\ i \in 0..N /\ i + 1 \in 1..N /\ (i + 1) - 1 = i /\ i + 1 # 0
      BY <3>1
    <3>3. f[i] = g[i]
      BY <3>2
    <3>4. f[i + 1] = Native!UntilFillTurn(f[(i + 1) - 1], rows[i + 1])
      BY <1>2, <3>1, <3>2
    <3>5. g[i + 1] = Native!UntilFillTurn(g[(i + 1) - 1], rows[i + 1])
      BY <1>0, <3>2
    <3> QED BY <3>2, <3>3, <3>4, <3>5
  <2>3. S \in SUBSET Nat /\ 0 \in S
    BY <2>1
  <2> HIDE DEF S
  <2> QED BY <2>2, <2>3, SetInduction
<1>5. f[N] = g[N]
  <2>1. N \in S /\ N \in 0..N
    BY <1>4
  <2> QED BY <2>1
<1> QED BY <1>3, <1>5

UntilImage(r) ==
  [e |-> Image(r.engine), fills |-> Coded(r.fills), applied |-> r.consumed]

(* One event, if it fits.                                                  *)
LEMMA UntilTurnImage ==
  ASSUME NEW r \in UntilStates, Sound(r.engine), NEW ev \in RowEvents, NEW n \in Nat,
         r.fills = <<>> => r.consumed + 1 = n /\ Fits(ApplyEvent(r.engine, ev))
  PROVE  /\ Sound(UntilStep(r, ev, n).engine)
         /\ Native!UntilFillTurn(UntilImage(r), Row(ev)) = UntilImage(UntilStep(r, ev, n))
<1> DEFINE e == r.engine
           f == ApplyEvent(e, ev)
           t == UntilStep(r, ev, n)
           b == UntilImage(r)
           row == Row(ev)
           c == Native!ApplyEventCode(Image(e), row)
           new == Native!FillsSince(Image(e), c)
           u == Native!UntilFillTurn(b, row)
<1>1. EngineOK(e) /\ EngineInv(e) /\ ev \in MBOEvents /\ r.fills \in Seq(ActiveFills)
  <2>1. r.fills \in Seq(Fills)
    BY DEF UntilStates
  <2> QED BY <2>1, FillsAreActive DEF UntilStates, EngineInv, RowEvents
<1>2. b.e = Image(e) /\ b.fills = Coded(r.fills) /\ b.applied = r.consumed
  BY DEF UntilImage
<1>3. b.fills # <<>> <=> r.fills # <<>>
  <2> HIDE DEF b
  <2> QED BY <1>1, <1>2, CodedFacts
<1>4. u = IF b.fills # <<>> THEN b ELSE [e |-> c, fills |-> new, applied |-> b.applied + 1]
  <2> HIDE DEF b, row
  <2>1. c = Native!ApplyEventCode(b.e, row) /\ new = Native!FillsSince(b.e, c)
    BY <1>2
  <2> HIDE DEF c, new
  <2> QED BY <2>1 DEF Native!UntilFillTurn
<1>5. t = IF r.fills # <<>> THEN r
          ELSE [engine |-> f, fills |-> NewFills(e, f), consumed |-> n]
  BY DEF UntilStep
<1> HIDE DEF u, t
<1> DEFINE Done == Sound(t.engine) /\ u = UntilImage(t)
<1>6. ASSUME r.fills # <<>> PROVE Done
  BY <1>3, <1>4, <1>5, <1>6
<1>7. ASSUME r.fills = <<>> PROVE Done
  <2>1. Sound(f) /\ c = Image(f) /\ EngineOK(f)
    <3>1. f = ApplyEvent(e, ev) /\ Fits(f)
      BY <1>7
    <3> HIDE DEF f, e
    <3>2. Sound(e)
      BY DEF e
    <3> QED BY <3>1, <3>2, ApplyEventImage DEF Sound, EngineInv
  <2>2. Len(e.fills) <= Len(f.fills)
    <3> HIDE DEF e
    <3> QED BY <1>1, ApplyEventFacts DEF FillsGrow
  <2>3. new = Coded(NewFills(e, f))
    <3> HIDE DEF e, f, c
    <3> QED BY <1>1, <2>1, <2>2, FillsSinceImage
  <2>4. u = [e |-> Image(f), fills |-> Coded(NewFills(e, f)), applied |-> n]
    <3>1. ~(b.fills # <<>>) /\ b.applied + 1 = n
      BY <1>2, <1>3, <1>7
    <3> HIDE DEF b, c, new, f, e
    <3> QED BY <1>4, <2>1, <2>3, <3>1
  <2>5. t.engine = f /\ t.fills = NewFills(e, f) /\ t.consumed = n
    <3> HIDE DEF f, e
    <3> QED BY <1>5, <1>7
  <2> HIDE DEF f, e
  <2> QED BY <2>1, <2>4, <2>5 DEF UntilImage
<1>8. Done
  <2> HIDE DEF Done
  <2> QED BY <1>6, <1>7
<1> QED BY <1>8 DEF u, t

(* advance_until_fill_boundary: the same stop, state and fills.            *)
LEMMA UntilFollowsLoop ==
  ASSUME NEW e, Sound(e), NEW evs \in Seq(RowEvents), NEW R, R = Run(e, evs),
         NEW r, r = UntilFill(e, evs),
         \A i \in 1..r.consumed : Fits(R[i].engine)
  PROVE  /\ r \in UntilStates /\ Sound(r.engine)
         /\ Native!ApplyEventsUntilFill(Image(e), Rows(evs)) = UntilImage(r)
<1> DEFINE N == Len(evs)
           rows == Rows(evs)
<1>1. N \in Nat /\ Len(rows) = N /\ \A i \in 1..N : rows[i] = Row(evs[i]) /\ evs[i] \in RowEvents
  BY RowsFacts
<1>2. EngineInv(e)
  BY DEF Sound
<1>3. /\ R[0] = [engine |-> e, fills |-> <<>>, marks |-> <<>>]
      /\ \A i \in 1..N : R[i] = ReplayStep(R[i - 1], evs[i])
  BY <1>2, RunTurns
<1> HIDE DEF rows
<1>4. PICK A \in [0..N -> UntilStates] :
            /\ A[0] = [engine |-> e, fills |-> <<>>, consumed |-> 0]
            /\ \A i \in 1..N : A[i] = UntilStep(A[i - 1], evs[i], i)
            /\ r = A[N]
  <2>1. N = Len(evs)
    OBVIOUS
  <2> HIDE DEF N
  <2>2. \E A \in [0..N -> UntilStates] :
            /\ A[0] = [engine |-> e, fills |-> <<>>, consumed |-> 0]
            /\ \A i \in 1..N : A[i] = UntilStep(A[i - 1], evs[i], i)
            /\ UntilFill(e, evs) = A[N]
    BY <1>2, <2>1, UntilTurns
  <2> QED BY <2>2
<1> HIDE DEF N
<1>5. \A i \in 1..N : R[i].engine = ApplyEvent(R[i - 1].engine, evs[i])
  <2>1. ASSUME NEW i \in 1..N PROVE R[i].engine = ApplyEvent(R[i - 1].engine, evs[i])
    <3>1. R[i] = ReplayStep(R[i - 1], evs[i])
      BY <1>3
    <3> QED BY ONLY <3>1 DEF ReplayStep
  <2> QED BY <2>1
<1>6. ASSUME NEW i \in 1..N
      PROVE  /\ A[i - 1].fills # <<>> => A[i] = A[i - 1]
             /\ A[i - 1].fills = <<>> => /\ A[i].consumed = i
                                         /\ A[i].engine = ApplyEvent(A[i - 1].engine, evs[i])
  <2>1. A[i] = UntilStep(A[i - 1], evs[i], i)
    BY <1>4
  <2> DEFINE a == A[i - 1]
             d == A[i]
             v == evs[i]
  <2>2. d = UntilStep(a, v, i)
    BY <2>1
  <2> HIDE DEF a, d, v
  <2>3. a.fills # <<>> => d = a
    BY ONLY <2>2 DEF UntilStep
  <2>4. a.fills = <<>> => d.consumed = i /\ d.engine = ApplyEvent(a.engine, v)
    BY ONLY <2>2 DEF UntilStep
  <2> QED BY <2>3, <2>4 DEF a, d, v
<1> DEFINE P(j) == /\ A[j].consumed \in 0..j
                   /\ A[j].engine = R[A[j].consumed].engine
                   /\ A[j].fills = <<>> => A[j].consumed = j
                   /\ \A i \in 0..j : A[i].consumed <= A[j].consumed
           S == {j \in Nat : j \in 0..N => P(j)}
<1>7. S = Nat
  <2>1. 0 \in S
    <3>1. A[0].consumed = 0 /\ A[0].engine = e
      BY <1>4
    <3>2. R[0].engine = e
      BY <1>3
    <3> QED BY <3>1, <3>2
  <2>2. ASSUME NEW j \in S PROVE j + 1 \in S
    <3>1. SUFFICES ASSUME j + 1 \in 0..N PROVE P(j + 1)
      OBVIOUS
    <3>2. j \in Nat /\ j \in 0..N /\ j + 1 \in 1..N /\ (j + 1) - 1 = j
      <4>1. j \in Nat
        OBVIOUS
      <4> QED BY ONLY <1>1, <3>1, <4>1
    <3>3. P(j)
      <4> HIDE DEF P
      <4> QED BY <3>2
    <3>4. /\ A[j].fills # <<>> => A[j + 1] = A[j]
          /\ A[j].fills = <<>> => /\ A[j + 1].consumed = j + 1
                                  /\ A[j + 1].engine = ApplyEvent(A[j].engine, evs[j + 1])
      BY <1>6, <3>2
    <3>5. CASE A[j].fills # <<>>
      <4>1. A[j + 1] = A[j]
        BY <3>4, <3>5
      <4>2. \A i \in 0..(j + 1) : i \in 0..j \/ i = j + 1
        BY <3>2
      <4>3. A[j].consumed \in 0..(j + 1) /\ A[j].consumed <= A[j].consumed
        BY <3>2, <3>3
      <4> QED BY <3>3, <3>5, <4>1, <4>2, <4>3
    <3>6. CASE A[j].fills = <<>>
      <4>1. A[j + 1].consumed = j + 1 /\ A[j].consumed = j
            /\ A[j + 1].engine = ApplyEvent(A[j].engine, evs[j + 1])
        BY <3>3, <3>4, <3>6
      <4>2. A[j + 1].engine = R[j + 1].engine
        BY <1>5, <3>2, <3>3, <4>1
      <4>3. ASSUME NEW i \in 0..(j + 1) PROVE A[i].consumed <= A[j + 1].consumed
        <5>1. CASE i = j + 1
          BY <3>2, <4>1, <5>1
        <5>2. CASE i # j + 1
          <6>1. i \in 0..j
            BY <3>2, <5>2
          <6>2. A[i].consumed <= j /\ A[i].consumed \in Nat
            <7>1. A[i] \in UntilStates
              BY <1>1, <1>4, <3>2, <6>1
            <7> QED BY <3>3, <4>1, <6>1, <7>1 DEF UntilStates
          <6> QED BY <3>2, <4>1, <6>2
        <5> QED BY <5>1, <5>2
      <4> QED BY <3>2, <4>1, <4>2, <4>3
    <3> QED BY <3>5, <3>6
  <2>3. S \in SUBSET Nat
    OBVIOUS
  <2> HIDE DEF S
  <2> QED BY <2>1, <2>2, <2>3, SetInduction
<1>8. \A j \in 0..N : P(j)
  <2>1. \A j \in 0..N : j \in S
    BY <1>1, <1>7
  <2> HIDE DEF P
  <2> QED BY <2>1
<1>9. ASSUME NEW i \in 1..N, A[i - 1].fills = <<>>
      PROVE  A[i - 1].consumed + 1 = i /\ Fits(ApplyEvent(A[i - 1].engine, evs[i]))
  <2>1. i - 1 \in 0..N /\ i \in 0..N /\ N \in 0..N
    BY <1>1
  <2>2. A[i - 1].consumed = i - 1 /\ A[i].consumed = i
        /\ A[i].engine = ApplyEvent(A[i - 1].engine, evs[i])
        /\ A[i].engine = R[i].engine
    BY <1>6, <1>8, <1>9, <2>1
  <2>3. A[i].consumed <= A[N].consumed /\ A[N].consumed \in 0..N
    BY <1>8, <2>1
  <2>4. i \in 1..r.consumed
    BY <1>1, <1>4, <2>2, <2>3
  <2> QED BY <2>2, <2>4
<1> HIDE DEF P
<1> DEFINE V == {j \in Nat : j \in 0..N => Sound(A[j].engine)}
<1>10. ASSUME NEW i \in 1..N, Sound(A[i - 1].engine)
       PROVE  /\ Sound(A[i].engine)
              /\ Native!UntilFillTurn(UntilImage(A[i - 1]), rows[i]) = UntilImage(A[i])
  <2> DEFINE a == A[i - 1]
             v == evs[i]
  <2>1. a \in UntilStates /\ v \in RowEvents /\ i \in Nat /\ Sound(a.engine)
    BY <1>1, <1>4, <1>10
  <2>2. a.fills = <<>> => a.consumed + 1 = i /\ Fits(ApplyEvent(a.engine, v))
    BY <1>9
  <2>3. A[i] = UntilStep(a, v, i) /\ rows[i] = Row(v)
    BY <1>1, <1>4
  <2> HIDE DEF a, v
  <2>4. /\ Sound(UntilStep(a, v, i).engine)
        /\ Native!UntilFillTurn(UntilImage(a), Row(v)) = UntilImage(UntilStep(a, v, i))
    BY ONLY <2>1, <2>2, UntilTurnImage
  <2> QED BY <2>3, <2>4 DEF a
<1>11. V = Nat
  <2>1. 0 \in V
    BY <1>4
  <2>2. ASSUME NEW j \in V PROVE j + 1 \in V
    <3>1. SUFFICES ASSUME j + 1 \in 0..N PROVE Sound(A[j + 1].engine)
      OBVIOUS
    <3>2. j \in 0..N /\ j + 1 \in 1..N /\ (j + 1) - 1 = j
      BY <1>1, <3>1
    <3> QED BY <1>10, <3>2
  <2>3. V \in SUBSET Nat
    OBVIOUS
  <2> HIDE DEF V
  <2> QED BY <2>1, <2>2, <2>3, SetInduction
<1>12. \A j \in 0..N : Sound(A[j].engine)
  <2>1. \A j \in 0..N : j \in V
    BY <1>1, <1>11
  <2> QED BY <2>1
<1> DEFINE g == [i \in 0..N |-> UntilImage(A[i])]
           T == {UntilImage(A[i]) : i \in 0..N}
           w == Image(e)
<1>13. g \in [0..N -> T] /\ g[N] = UntilImage(A[N])
  BY <1>1
<1>14. g[0] = [e |-> w, fills |-> <<>>, applied |-> 0]
  <2>1. g[0] = UntilImage(A[0])
    BY <1>1
  <2>2. Coded(<<>>) = <<>>
    <3>1. <<>> \in Seq(ActiveFills)
      OBVIOUS
    <3> QED BY <3>1, CodedFacts
  <2> QED BY <1>4, <2>1, <2>2 DEF UntilImage
<1>15. \A i \in 1..N : g[i] = Native!UntilFillTurn(g[i - 1], rows[i])
  <2>1. ASSUME NEW i \in 1..N PROVE g[i] = Native!UntilFillTurn(g[i - 1], rows[i])
    <3>1. i - 1 \in 0..N /\ i \in 0..N
      BY <1>1
    <3>2. g[i] = UntilImage(A[i]) /\ g[i - 1] = UntilImage(A[i - 1])
      BY <3>1
    <3> HIDE DEF g
    <3> QED BY <1>10, <1>12, <3>1, <3>2
  <2> QED BY <2>1
<1> HIDE DEF g, T, w
<1>16. Native!ApplyEventsUntilFill(w, rows) = g[N]
  <2>1. N \in Nat /\ Len(rows) = N
    BY <1>1
  <2>2. g \in [0..N -> T]
    BY <1>13
  <2>3. UntilRun(g, w, rows, N)
    BY ONLY <1>14, <1>15 DEF UntilRun
  <2> QED BY ONLY <2>1, <2>2, <2>3, NativeUntilIs
<1>17. r = A[N] /\ A[N] \in UntilStates /\ Sound(A[N].engine)
  <2>1. N \in 0..N
    BY <1>1
  <2> QED BY <1>4, <1>12, <2>1
<1> QED BY <1>13, <1>16, <1>17 DEF w, rows

(***************************************************************************)
(* Strategy orders.                                                        *)
(***************************************************************************)

(* Consuming a level leaves the size of every other level.                 *)
LEMMA ConsumeElsewhere ==
  ASSUME NEW e, EngineInv(e), NEW L \in Levels, NEW n \in Nat, NEW ts \in Nat,
         NEW M \in Levels, M # L
  PROVE  ConsumeLevel(e, L, n, ts).book[M] = e.book[M]
<1> DEFINE s == [e |-> e, rem |-> n]
           k == Len(e.queues[L])
           G == {t \in ConsumeStates : t.e.book[M] = e.book[M]}
<1>1. s \in G
  <2>1. e \in Engines
    BY EnginesFacts DEF EngineInv
  <2> QED BY <2>1 DEF ConsumeStates
<1>2. k \in Nat
  <2>1. e.queues[L] \in Seq(Entries)
    BY SoundFields DEF EngineInv
  <2> QED BY <2>1
<1>3. ASSUME NEW t \in G PROVE ConsumeStep(t, L, ts) \in G
  <2> DEFINE u == ConsumeStep(t, L, ts)
             d == t.e
             x == Head(d.queues[L])
  <2>1. t \in ConsumeStates /\ d.book[M] = e.book[M] /\ EngineOK(d) /\ t.rem \in Nat
    BY DEF ConsumeStates, EngineInv
  <2>2. u \in ConsumeStates
    BY <2>1, ConsumeStepFacts
  <2>3. DOMAIN d = Fields /\ d.book \in [Levels -> Nat]
        /\ \A y \in DOMAIN d.orders : d.orders[y].size \in Nat
    BY <2>1, SoundFields
  <2>4. u.e.book[M] = d.book[M]
    <3>1. CASE t.rem = 0 \/ d.queues[L] = <<>>
      BY <3>1 DEF ConsumeStep
    <3>2. CASE ~(t.rem = 0 \/ d.queues[L] = <<>>) /\ x \notin DOMAIN d.orders
      <4> DEFINE f == [d EXCEPT !.queues = PopFront(@, L)]
      <4>1. u = [e |-> f, rem |-> t.rem]
        BY <3>2 DEF ConsumeStep
      <4>2. f.book = d.book
        BY <2>3 DEF Fields
      <4>3. u.e = f
        BY <4>1
      <4> HIDE DEF f, u
      <4> QED BY <4>2, <4>3
    <3>3. CASE ~(t.rem = 0 \/ d.queues[L] = <<>>) /\ x \in DOMAIN d.orders
      <4> DEFINE size == d.orders[x].size
                 m == Lesser(size, t.rem)
                 f == FillFront(d, x, L, m, ts)
      <4>1. u = [e |-> f, rem |-> t.rem - m]
        BY <3>3 DEF ConsumeStep
      <4>2. m \in Nat
        <5>1. size \in Nat
          BY <2>3, <3>3
        <5> HIDE DEF size
        <5> QED BY <2>1, <5>1, LesserFacts
      <4> HIDE DEF m, x
      <4>3. f.book = RemoveFromBook(d.book, L, m)
        BY <2>3 DEF FillFront, Fields
      <4>4. RemoveFromBook(d.book, L, m)[M] = d.book[M]
        <5> DEFINE b == d.book
        <5>1. b \in [Levels -> Nat]
          BY <2>3
        <5> HIDE DEF b
        <5>2. RemoveFromBook(b, L, m)[M] = b[M]
          BY <4>2, <5>1, BookFacts
        <5> QED BY <5>2 DEF b
      <4>5. u.e = f
        BY <4>1
      <4> HIDE DEF f, u
      <4> QED BY <4>3, <4>4, <4>5
    <3> QED BY <3>1, <3>2, <3>3
  <2> HIDE DEF u
  <2> QED BY <2>1, <2>2, <2>4 DEF u
<1>4. ConsumeLevel(e, L, n, ts) = ConsumeLoop(s, L, ts)[k].e
  BY DEF ConsumeLevel
<1> HIDE DEF s, G, k
<1>5. ConsumeLoop(s, L, ts)[k] \in G
  BY <1>1, <1>2, <1>3, ConsumeLoopInduction
<1> QED BY <1>4, <1>5 DEF G

(* position_ changed by n.                                                 *)
LEMMA PositionImage ==
  ASSUME NEW e, Sound(e), NEW n \in Int
  PROVE  /\ Sound([e EXCEPT !.position = @ + n])
         /\ [Image(e) EXCEPT !.position = @ + n] = Image([e EXCEPT !.position = @ + n])
         /\ [e EXCEPT !.position = @ + n].book = e.book
<1> DEFINE f == [e EXCEPT !.position = @ + n]
           i == Image(e)
           p == e.position + n
<1>1. /\ DOMAIN e = Fields /\ e = [k \in DOMAIN e |-> e[k]]
      /\ e.book \in [Levels -> Nat] /\ e.queues \in [Levels -> Seq(Entries)]
      /\ e.orders \in [DOMAIN e.orders -> Orders] /\ DOMAIN e.orders \subseteq Entries
      /\ e.fills \in Seq(Fills) /\ e.nextId \in Nat /\ e.now \in Nat /\ e.position \in Int
  BY EngineFields DEF Sound, EngineInv
<1>2. /\ f.book = e.book /\ f.orders = e.orders /\ f.queues = e.queues
      /\ f.fills = e.fills /\ f.nextId = e.nextId /\ f.now = e.now
      /\ f.position = p
      /\ DOMAIN f = Fields /\ f = [k \in DOMAIN f |-> f[k]]
  BY <1>1 DEF Fields
<1>3. p \in Int
  BY <1>1
<1> HIDE DEF f, p
<1>4. EngineInv(f)
  <2>1. EngineOK(f)
    BY <1>1, <1>2, <1>3, EngineFields
  <2> QED BY <1>2, <2>1 DEF Sound, EngineInv, OwnQueued, OwnIdsGivenOut, OwnOrders
<1>5. Sound(f)
  BY <1>2, <1>4 DEF Sound, Small, Fits
<1>6. i = Img(e.book, e.orders, e.queues, e.fills, e.nextId, e.now, e.position)
      /\ i.position = e.position
  BY DEF Image, Img
<1>7. [i EXCEPT !.position = p] = Img(e.book, e.orders, e.queues, e.fills, e.nextId, e.now, p)
  BY <1>6 DEF Img
<1>8. [i EXCEPT !.position = @ + n] = [i EXCEPT !.position = p]
  <2> HIDE DEF i
  <2> QED BY <1>6 DEF p
<1>9. Image(f) = Img(e.book, e.orders, e.queues, e.fills, e.nextId, e.now, p)
  BY <1>2 DEF Image
<1> HIDE DEF i
<1>10. [i EXCEPT !.position = @ + n] = Image(f)
  BY <1>7, <1>8, <1>9
<1> QED BY <1>2, <1>5, <1>10 DEF f, i

\* The states of the loop of a strategy order: the prices to come have a size.
SoundMatches(side) ==
  {m \in MatchStates : /\ Sound(m.e) /\ m.rem <= MaxSize
                       /\ \A p \in m.todo : m.e.book[<<OppositeBookSide(side), p>>] > 0}
MatchImage(m) ==
  [e |-> Image(m.e), fills |-> Coded(m.fills), remaining |-> m.rem, todo |-> m.todo]

(* The loop turn by turn.                                                  *)
LEMMA NativeMatchTurns ==
  ASSUME NEW G, NEW s \in G, NEW id, NEW side,
         \A t \in G : Native!MatchTurn(t, id, side) \in G
  PROVE  /\ Native!MatchLoop(s, id, side)[0] = s
         /\ \A n \in Nat : /\ Native!MatchLoop(s, id, side)[n] \in G
                          /\ Native!MatchLoop(s, id, side)[n + 1]
                               = Native!MatchTurn(Native!MatchLoop(s, id, side)[n], id, side)
<1> DEFINE step == [p \in G \X Nat |-> Native!MatchTurn(p[1], id, side)]
<1>1. step \in [G \X Nat -> G]
  OBVIOUS
<1>2. PICK g : IsLoop(g, G, s, step)
  <2> HIDE DEF step
  <2> QED BY <1>1, LoopExists, Zenon
<1>3. \A n \in Nat : g[n + 1] = Native!MatchTurn(g[n], id, side) /\ g[n] \in G
  <2>1. ASSUME NEW n \in Nat
        PROVE  g[n + 1] = Native!MatchTurn(g[n], id, side) /\ g[n] \in G
    <3>1. g[n] \in G /\ <<g[n], n + 1>> \in G \X Nat
      BY <1>2 DEF IsLoop
    <3> QED BY <1>2, <3>1 DEF IsLoop
  <2> QED BY <2>1
<1> DEFINE f == CHOOSE h : h = [n \in Nat |-> IF n = 0 THEN s
                                              ELSE Native!MatchTurn(h[n - 1], id, side)]
<1>4. g = [n \in Nat |-> IF n = 0 THEN s ELSE Native!MatchTurn(g[n - 1], id, side)]
  <2>1. ASSUME NEW n \in Nat
        PROVE  g[n] = IF n = 0 THEN s ELSE Native!MatchTurn(g[n - 1], id, side)
    <3>1. CASE n = 0
      BY <1>2, <3>1 DEF IsLoop
    <3>2. CASE n # 0
      <4>1. n - 1 \in Nat /\ (n - 1) + 1 = n
        BY <3>2
      <4>2. g[(n - 1) + 1] = Native!MatchTurn(g[n - 1], id, side)
        BY <1>3, <4>1
      <4> QED BY <4>1, <4>2, <3>2
    <3> QED BY <3>1, <3>2
  <2> QED BY <2>1, <1>2 DEF IsLoop
<1>5. f = [n \in Nat |-> IF n = 0 THEN s ELSE Native!MatchTurn(f[n - 1], id, side)]
  BY <1>4
<1>6. Native!MatchLoop(s, id, side) = f
  BY DEF Native!MatchLoop
<1> HIDE DEF f
<1>7. f[0] = s
  BY <1>5
<1>8. ASSUME NEW n \in Nat
      PROVE  f[n + 1] = Native!MatchTurn(f[n], id, side)
  <2>1. n + 1 \in Nat /\ n + 1 # 0 /\ (n + 1) - 1 = n
    OBVIOUS
  <2> QED BY <1>5, <2>1
<1> DEFINE S == {n \in Nat : f[n] \in G}
<1>9. S = Nat
  <2>1. ASSUME NEW n \in S PROVE n + 1 \in S
    BY <1>8, <2>1
  <2>2. S \in SUBSET Nat /\ 0 \in S
    BY <1>7
  <2> HIDE DEF S
  <2> QED BY <2>1, <2>2, SetInduction
<1>10. \A n \in Nat : f[n] \in G
  BY <1>9
<1> QED BY <1>6, <1>7, <1>8, <1>10


LEMMA OppositeFacts ==
  ASSUME NEW side \in OrderSides
  PROVE  /\ OppositeBookSide(side) \in BookSides
         /\ Char(OppositeBookSide(side)) = IF Char(side) = "B" THEN "A" ELSE "B"
         /\ Char(OppositeBookSide(side)) = "A" <=> OppositeBookSide(side) = "ask"
         /\ OppositeBookSide(side) # "ask" <=> OppositeBookSide(side) = "bid"
BY DEF OrderSides, OppositeBookSide, BookSides, Char

(* The price a turn takes.                                                 *)
LEMMA BestImage ==
  ASSUME NEW S, NEW side \in OrderSides
  PROVE  Best(OppositeBookSide(side), S)
           = IF Char(OppositeBookSide(side)) = "A" THEN Native!Min(S) ELSE Native!Max(S)
<1>1. Max(S) = Native!Max(S) /\ Min(S) = Native!Min(S)
  BY DEF Max, Min, Native!Max, Native!Min
<1> QED BY <1>1, OppositeFacts DEF Best

\* A turn of match_active_order that takes n at price p on this side of the book.
NativeHit(hit, m, id, char, n, p) ==
  [e |-> [hit EXCEPT !.position = @ + IF char = "B" THEN n ELSE -n],
   fills |-> Append(m.fills, [order |-> id, side |-> char, price |-> p,
                              size |-> n, ts |-> m.e.now]),
   remaining |-> m.remaining - n, todo |-> m.todo \ {p}]
ReferenceHit(hit, m, id, side, n, p) ==
  [e |-> [hit EXCEPT !.position = @ + Signed(side, n)],
   rem |-> m.rem - n, todo |-> m.todo \ {p},
   fills |-> Append(m.fills, [id |-> id, side |-> side, price |-> p,
                              size |-> n, ts |-> m.e.now])]

LEMMA MatchTurnImage ==
  ASSUME NEW side \in OrderSides, NEW m \in SoundMatches(side), NEW id \in Nat
  PROVE  /\ MatchStep(m, id, side) \in SoundMatches(side)
         /\ Native!MatchTurn(MatchImage(m), id, Char(side)) = MatchImage(MatchStep(m, id, side))
<1> DEFINE e == m.e
           opposite == OppositeBookSide(side)
           p == Best(opposite, m.todo)
           L == <<opposite, p>>
           n == Lesser(m.rem, e.book[L])
           hit == ConsumeLevel(e, L, n, e.now)
           t == MatchStep(m, id, side)
           w == MatchImage(m)
           c == Char(opposite)
<1>1. /\ m \in MatchStates /\ Sound(e) /\ EngineInv(e) /\ EngineOK(e)
      /\ m.rem \in Nat /\ m.rem <= MaxSize /\ m.todo \in SUBSET Prices
      /\ m.fills \in Seq(ActiveFills)
      /\ \A r \in m.todo : e.book[<<opposite, r>>] > 0
  BY DEF SoundMatches, MatchStates, Sound, EngineInv
<1>2. t \in MatchStates
  BY <1>1, MatchStepFacts
<1>3. w.e = Image(e) /\ w.fills = Coded(m.fills) /\ w.remaining = m.rem /\ w.todo = m.todo
  BY DEF MatchImage
<1>4. CASE m.rem = 0 \/ m.todo = {}
  <2>1. t = m
    BY <1>4 DEF MatchStep
  <2>2. Native!MatchTurn(w, id, Char(side)) = w
    <3> HIDE DEF w
    <3> QED BY <1>3, <1>4 DEF Native!MatchTurn
  <2> QED BY <2>1, <2>2
<1>5. CASE ~(m.rem = 0 \/ m.todo = {})
  <2>1. p \in m.todo /\ p \in Prices
    BY <1>1, <1>5, BestFacts
  <2>2. opposite \in BookSides /\ L \in Levels /\ L[1] = opposite /\ L[2] = p
    BY <2>1, OppositeFacts DEF Levels
  <2>3. e.book \in [Levels -> Nat] /\ e.now \in Nat
    BY <1>1, SoundFields
  <2>4. n \in Nat /\ n <= m.rem /\ e.book[L] \in Nat /\ e.book[L] > 0
    <3>1. e.book[L] \in Nat
      BY <2>2, <2>3
    <3>2. e.book[L] > 0
      BY <1>1, <2>1
    <3> QED BY <1>1, <3>1, <3>2, LesserFacts
  <2>5. /\ Sound(hit)
        /\ Native!ConsumeLevel(Image(e), c, p, n, e.now) = Image(hit)
    <3> HIDE DEF e, n, L, p
    <3> QED BY <1>1, <2>2, <2>3, <2>4, ConsumeLevelImage
  <2>6. t = ReferenceHit(hit, m, id, side, n, p)
    BY <1>5 DEF MatchStep, ReferenceHit
  <2> DEFINE k == Signed(side, n)
             f == [hit EXCEPT !.position = @ + k]
  <2>7. k \in Int /\ k = IF Char(side) = "B" THEN n ELSE -n
    <3>1. -n \in Int
      BY <2>4
    <3> HIDE DEF n
    <3> QED BY <2>4, <3>1, CharFacts DEF Signed
  <2>8. /\ Sound(f) /\ [Image(hit) EXCEPT !.position = @ + k] = Image(f)
        /\ f.book = hit.book
    <3> HIDE DEF hit, k
    <3> QED BY <2>5, <2>7, PositionImage
  <2>9. /\ t.e = f /\ t.rem = m.rem - n /\ t.todo = m.todo \ {p}
    <3> HIDE DEF t, hit, n, p
    <3> QED BY <2>6 DEF ReferenceHit
  <2>10. t \in SoundMatches(side)
    <3>1. t.rem <= MaxSize
      <4>1. m.rem - n <= MaxSize
        <5> HIDE DEF n
        <5> QED BY <1>1, <2>4, MaxIntFacts
      <4> HIDE DEF n, p, t, f
      <4> QED BY <2>9, <4>1
    <3>2. ASSUME NEW r \in t.todo PROVE t.e.book[<<opposite, r>>] > 0
      <4>1. r \in m.todo /\ r # p
        <5> HIDE DEF t, f, n, p
        <5> QED BY <2>9, <3>2
      <4>2. <<opposite, r>> \in Levels /\ <<opposite, r>> # L
        BY <1>1, <2>2, <4>1 DEF Levels
      <4>3. hit.book[<<opposite, r>>] = e.book[<<opposite, r>>]
        <5> DEFINE M == <<opposite, r>>
        <5> HIDE DEF M, L, n, e
        <5>1. hit.book[M] = e.book[M]
          BY <1>1, <2>2, <2>3, <2>4, <4>2, ConsumeElsewhere DEF M
        <5> QED BY <5>1 DEF M
      <4>4. t.e.book = hit.book
        <5> HIDE DEF t, f, hit
        <5> QED BY <2>8, <2>9
      <4> HIDE DEF t, hit
      <4> QED BY <1>1, <4>1, <4>3, <4>4
    <3>3. Sound(t.e)
      <4> HIDE DEF t, f
      <4> QED BY <2>8, <2>9
    <3> HIDE DEF t
    <3> QED BY <1>2, <3>1, <3>2, <3>3 DEF SoundMatches
  <2>11. Native!MatchTurn(w, id, Char(side)) = NativeHit(Image(hit), w, id, Char(side), n, p)
    <3>1. c = IF Char(side) = "B" THEN "A" ELSE "B"
      BY OppositeFacts
    <3>2. p = IF c = "A" THEN Native!Min(w.todo) ELSE Native!Max(w.todo)
      <4> HIDE DEF w
      <4> QED BY <1>3, BestImage
    <3>3. w.e[Native!BookFor(c)][p] = e.book[L]
      <4>1. w.e = Img(e.book, e.orders, e.queues, e.fills, e.nextId, e.now, e.position)
        BY <1>3 DEF Image
      <4> DEFINE d == w.e[Native!BookFor(Char(L[1]))]
      <4>2. d = Img(e.book, e.orders, e.queues, e.fills, e.nextId, e.now, e.position)
                   [Native!BookFor(Char(L[1]))]
        <5> HIDE DEF w
        <5> QED BY <4>1
      <4>3. d[L[2]] = e.book[L]
        <5> HIDE DEF d, w, e, L
        <5> QED BY <2>2, <2>3, <2>4, <4>2, DepthOfImage
      <4> HIDE DEF w
      <4> QED BY <2>2, <4>3
    <3>4. n = Native!StdMin(w.remaining, w.e[Native!BookFor(c)][p])
      <4>1. n = Native!StdMin(m.rem, e.book[L])
        BY <1>1, <2>4, StdMinFacts
      <4> HIDE DEF w, n
      <4> QED BY <1>3, <3>3, <4>1
    <3>5. w.e.now = e.now
      <4> HIDE DEF w
      <4> QED BY <1>3 DEF Image, Img
    <3>6. Image(hit) = Native!ConsumeLevel(w.e, c, p, n, w.e.now)
      <4> HIDE DEF w, hit, n, p, c
      <4> QED BY <1>3, <2>5, <3>5
    <3>7. ~(w.remaining = 0 \/ w.todo = {})
      <4> HIDE DEF w
      <4> QED BY <1>3, <1>5
    <3> DEFINE ih == Image(hit)
    <3> HIDE DEF w, hit, n, p, c, ih
    <3> QED BY <3>1, <3>2, <3>4, <3>6, <3>7 DEF Native!MatchTurn, NativeHit, ih
  <2>12. NativeHit(Image(hit), w, id, Char(side), n, p) = MatchImage(t)
    <3> DEFINE row == [order |-> id, side |-> Char(side), price |-> p, size |-> n, ts |-> e.now]
               fill == [id |-> id, side |-> side, price |-> p, size |-> n, ts |-> e.now]
    <3>1. fill \in ActiveFills
      <4> HIDE DEF n, p, e
      <4> QED BY <2>1, <2>3, <2>4 DEF ActiveFills
    <3>2. CodedFill(fill) = row
      <4> HIDE DEF n, p, e
      <4> QED BY DEF CodedFill
    <3>3. Coded(Append(m.fills, fill)) = Append(Coded(m.fills), row)
      <4> HIDE DEF fill, row
      <4> QED BY <1>1, <3>1, <3>2, CodedAppend
    <3>4. t.fills = Append(m.fills, fill)
      <4> HIDE DEF t, hit, n, p
      <4> QED BY <2>6 DEF ReferenceHit
    <3>5. w.e.now = e.now
      <4> HIDE DEF w
      <4> QED BY <1>3 DEF Image, Img
    <3>6. [Image(hit) EXCEPT !.position = @ + IF Char(side) = "B" THEN n ELSE -n] = Image(f)
      <4> HIDE DEF hit, n, k, f
      <4> QED BY <2>7, <2>8
    <3>7. MatchImage(t) = [e |-> Image(f), fills |-> Append(Coded(m.fills), row),
                           remaining |-> m.rem - n, todo |-> m.todo \ {p}]
      <4> HIDE DEF t, f, n, p, row, fill
      <4> QED BY <2>9, <3>3, <3>4 DEF MatchImage
    <3> HIDE DEF t, f, n, p, w, hit
    <3>8. NativeHit(Image(hit), w, id, Char(side), n, p)
            = [e |-> Image(f), fills |-> Append(Coded(m.fills), row),
               remaining |-> m.rem - n, todo |-> m.todo \ {p}]
      BY <1>3, <3>5, <3>6 DEF NativeHit
    <3> QED BY <3>7, <3>8
  <2> HIDE DEF t, w, hit, n, p
  <2> QED BY <2>10, <2>11, <2>12 DEF t, w
<1> HIDE DEF t, w
<1> QED BY <1>4, <1>5

LEMMA MatchLoopImage ==
  ASSUME NEW side \in OrderSides, NEW m \in SoundMatches(side), NEW id \in Nat, NEW k \in Nat
  PROVE  /\ MatchLoop(m, id, side)[k] \in SoundMatches(side)
         /\ Native!MatchLoop(MatchImage(m), id, Char(side))[k]
              = MatchImage(MatchLoop(m, id, side)[k])
<1> DEFINE c == MatchImage(m)
           char == Char(side)
           f == MatchLoop(m, id, side)
           g == Native!MatchLoop(c, id, char)
           G == {MatchImage(t) : t \in SoundMatches(side)}
<1>1. /\ f[0] = m
      /\ \A n \in Nat : f[n] \in SoundMatches(side) /\ f[n + 1] = MatchStep(f[n], id, side)
  <2> DEFINE H == SoundMatches(side)
  <2>1. \A t \in H : MatchStep(t, id, side) \in H
    BY MatchTurnImage
  <2>2. m \in H
    OBVIOUS
  <2> HIDE DEF H
  <2>3. /\ MatchLoop(m, id, side)[0] = m
        /\ \A n \in Nat : /\ MatchLoop(m, id, side)[n] \in H
                         /\ MatchLoop(m, id, side)[n + 1]
                              = MatchStep(MatchLoop(m, id, side)[n], id, side)
    BY <2>1, <2>2, MatchLoopTurns
  <2> QED BY <2>3 DEF H
<1>2. /\ g[0] = c
      /\ \A n \in Nat : g[n + 1] = Native!MatchTurn(g[n], id, char)
  <2>1. c \in G
    OBVIOUS
  <2>2. \A t \in G : Native!MatchTurn(t, id, char) \in G
    <3>1. ASSUME NEW t \in SoundMatches(side)
          PROVE  Native!MatchTurn(MatchImage(t), id, char) \in G
      BY MatchTurnImage
    <3> QED BY <3>1
  <2> HIDE DEF G, c, char
  <2> QED BY <2>1, <2>2, NativeMatchTurns
<1> HIDE DEF f, g
<1> DEFINE S == {n \in Nat : g[n] = MatchImage(f[n])}
<1>3. S = Nat
  <2>1. 0 \in S
    BY <1>1, <1>2
  <2>2. ASSUME NEW n \in S PROVE n + 1 \in S
    <3>1. n \in Nat /\ n + 1 \in Nat /\ g[n] = MatchImage(f[n])
      OBVIOUS
    <3>2. f[n] \in SoundMatches(side) /\ f[n + 1] = MatchStep(f[n], id, side)
      BY <1>1, <3>1
    <3>3. Native!MatchTurn(MatchImage(f[n]), id, char) = MatchImage(MatchStep(f[n], id, side))
      BY <3>2, MatchTurnImage
    <3>4. g[n + 1] = Native!MatchTurn(MatchImage(f[n]), id, char)
      BY <1>2, <3>1
    <3> HIDE DEF c, char
    <3>5. g[n + 1] = MatchImage(f[n + 1])
      BY <3>2, <3>3, <3>4
    <3> QED BY <3>1, <3>5
  <2>3. S \in SUBSET Nat
    OBVIOUS
  <2> HIDE DEF S
  <2> QED BY <2>1, <2>2, <2>3, SetInduction
<1> QED BY <1>1, <1>3 DEF f, g

(* The id of a new order.                                                  *)
LEMMA NextIdImage ==
  ASSUME NEW e, Sound(e), NEW given, given = [e EXCEPT !.nextId = @ + 1]
  PROVE  /\ Sound(given) /\ given.nextId = e.nextId + 1 /\ given.book = e.book
         /\ given.orders = e.orders
         /\ [Image(e) EXCEPT !.nextOrderId = @ + 1] = Image(given)
<1>1. /\ EngineInv(given)
      /\ given.book = e.book /\ given.orders = e.orders /\ given.queues = e.queues
      /\ given.fills = e.fills /\ given.nextId = e.nextId + 1 /\ given.now = e.now
      /\ given.position = e.position
  BY NextIdFacts DEF Sound
<1>2. Sound(given)
  BY <1>1 DEF Sound, Small, Fits
<1> DEFINE i == Image(e)
           k == e.nextId + 1
<1>3. i = Img(e.book, e.orders, e.queues, e.fills, e.nextId, e.now, e.position)
      /\ i.nextOrderId = e.nextId
  BY DEF Image, Img
<1> HIDE DEF k
<1>4. [i EXCEPT !.nextOrderId = k] = Img(e.book, e.orders, e.queues, e.fills, k, e.now, e.position)
  BY <1>3 DEF Img
<1>5. [i EXCEPT !.nextOrderId = @ + 1] = [i EXCEPT !.nextOrderId = k]
  <2> HIDE DEF i
  <2> QED BY <1>3 DEF k
<1>6. Image(given) = Img(e.book, e.orders, e.queues, e.fills, k, e.now, e.position)
  BY <1>1 DEF Image, k
<1> QED BY <1>1, <1>2, <1>4, <1>5, <1>6

(* match_active_order; price is the limit if there is one.                 *)
LEMMA MatchActiveImage ==
  ASSUME NEW e, Sound(e), NEW side \in OrderSides, NEW n \in Sizes, NEW id \in Nat,
         NEW limit, NEW price, NEW hasLimit \in BOOLEAN,
         hasLimit => limit \in Prices /\ price = limit,
         ~hasLimit => limit = NoLimit
  PROVE  /\ MatchActive(e, id, side, n, limit) \in SoundMatches(side)
         /\ Native!MatchActiveOrder(Image(e), id, Char(side), n, price, hasLimit)
              = MatchImage(MatchActive(e, id, side, n, limit))
<1> DEFINE opposite == OppositeBookSide(side)
           c == Char(opposite)
           todo == Matchable(e, opposite, limit)
           found == Native!MatchablePrices(Image(e), c, price, hasLimit)
           m == [e |-> e, rem |-> n, todo |-> todo, fills |-> <<>>]
           k == Cardinality(todo)
           w == Image(e)
<1>1. EngineInv(e) /\ EngineOK(e) /\ e.book \in [Levels -> Nat]
  BY SoundFields DEF Sound, EngineInv
<1>2. todo \in SUBSET Prices /\ k \in Nat
  <2>1. todo \in SUBSET Prices
    BY DEF Matchable
  <2> HIDE DEF todo
  <2> QED BY <2>1, PricesAssumption, FS_Subset, FS_CardinalityType
<1>3. m \in SoundMatches(side)
  <2>1. e \in Engines
    BY <1>1, EnginesFacts
  <2>2. n \in Nat /\ n <= MaxSize
    BY SizeAssumption DEF Sizes
  <2>3. \A p \in todo : e.book[<<opposite, p>>] > 0
    BY DEF Matchable
  <2> HIDE DEF todo, opposite
  <2> QED BY <1>1, <1>2, <2>1, <2>2, <2>3 DEF SoundMatches, MatchStates, opposite
<1>4. found = todo
  <2>1. opposite \in BookSides /\ (c = "A" <=> opposite = "ask")
        /\ (opposite # "ask" <=> opposite = "bid")
    BY OppositeFacts
  <2>2. w[Native!BookFor(c)] = Depth(e.book, opposite)
    <3>1. (c = "B" /\ opposite = "bid") \/ (c = "A" /\ opposite = "ask")
      BY <2>1, OppositeFacts
    <3>2. w.bids = Depth(e.book, "bid") /\ w.asks = Depth(e.book, "ask")
      BY DEF Image, Img
    <3> HIDE DEF w, c, opposite
    <3> QED BY <3>1, <3>2 DEF Native!BookFor
  <2>3. found = {p \in DOMAIN Depth(e.book, opposite) :
                   hasLimit => IF c = "A" THEN p <= price ELSE p >= price}
    <3> HIDE DEF w, c
    <3>1. Native!MatchablePrices(w, c, price, hasLimit)
            = {p \in DOMAIN w[Native!BookFor(c)] :
                  hasLimit => IF c = "A" THEN p <= price ELSE p >= price}
      BY DEF Native!MatchablePrices
    <3> QED BY <2>2, <3>1 DEF w
  <2>4. DOMAIN Depth(e.book, opposite) = {p \in Prices : e.book[<<opposite, p>>] > 0}
    BY DEF Depth
  <2>5. NoLimit \notin Prices
    BY PricesAssumption DEF NoLimit
  <2>6. ASSUME NEW p \in Prices
        PROVE  (hasLimit => IF c = "A" THEN p <= price ELSE p >= price)
                 <=> \/ limit = NoLimit
                     \/ opposite = "ask" /\ p <= limit
                     \/ opposite = "bid" /\ p >= limit
    <3> HIDE DEF c, opposite
    <3>1. CASE hasLimit
      BY <2>1, <2>5, <3>1
    <3>2. CASE ~hasLimit
      BY <3>2
    <3> QED BY <3>1, <3>2
  <2> HIDE DEF found, c, opposite
  <2>7. todo = {p \in Prices : /\ e.book[<<opposite, p>>] > 0
                               /\ \/ limit = NoLimit
                                  \/ opposite = "ask" /\ p <= limit
                                  \/ opposite = "bid" /\ p >= limit}
    BY DEF Matchable
  <2> HIDE DEF todo
  <2> QED BY <2>3, <2>4, <2>6, <2>7
<1>5. MatchActive(e, id, side, n, limit) = MatchLoop(m, id, side)[k]
  BY DEF MatchActive
<1>6. MatchImage(m) = [e |-> w, fills |-> <<>>, remaining |-> n, todo |-> todo]
  <2>1. Coded(<<>>) = <<>>
    <3>1. <<>> \in Seq(ActiveFills)
      OBVIOUS
    <3> QED BY <3>1, CodedFacts
  <2> QED BY <2>1 DEF MatchImage
<1>7. Native!Cardinality(todo) = k
  BY DEF Native!Cardinality, Cardinality
<1>8. Native!MatchActiveOrder(w, id, Char(side), n, price, hasLimit)
        = Native!MatchLoop(MatchImage(m), id, Char(side))[k]
  <2>1. c = IF Char(side) = "B" THEN "A" ELSE "B"
    BY OppositeFacts
  <2>2. Native!MatchablePrices(w, IF Char(side) = "B" THEN "A" ELSE "B", price, hasLimit) = todo
    <3> HIDE DEF c, todo
    <3> QED BY <1>4, <2>1
  <2> HIDE DEF w, todo, m, k
  <2> QED BY <1>6, <1>7, <2>2 DEF Native!MatchActiveOrder
<1>9. /\ MatchLoop(m, id, side)[k] \in SoundMatches(side)
      /\ Native!MatchLoop(MatchImage(m), id, Char(side))[k] = MatchImage(MatchLoop(m, id, side)[k])
  <2> HIDE DEF m, k
  <2> QED BY <1>2, <1>3, MatchLoopImage
<1> HIDE DEF m, k, w
<1> QED BY <1>5, <1>8, <1>9 DEF w

\* The answer of place_limit.
Answer(f, order, fills) == [e |-> f, order |-> order, fills |-> fills]

LEMMA PlaceImage ==
  ASSUME NEW e, Sound(e), NEW side \in OrderSides, NEW n \in Sizes, NEW tif \in Tifs,
         NEW limit, limit \in Prices \/ (limit = NoLimit /\ tif = "IOC"),
         NEW r, r = Place(e, side, n, limit, tif), Fits(r.e)
  PROVE  /\ Sound(r.e) /\ r.fills \in Seq(ActiveFills)
         /\ r.rests <=> Own(e.nextId) \in DOMAIN r.e.orders
         /\ limit \in Prices =>
               Native!PlaceLimit(Image(e), Char(side), limit, n, tif)
                 = Answer(Image(r.e), IF r.rests THEN e.nextId ELSE Native!NoOrder,
                          Coded(r.fills))
         /\ limit = NoLimit =>
               /\ ~r.rests
               /\ Native!PlaceMarket(Image(e), Char(side), n)
                    = Answer(Image(r.e), Native!NoOrder, Coded(r.fills))
<1> DEFINE id == e.nextId
           given == [e EXCEPT !.nextId = @ + 1]
           m == MatchActive(given, id, side, n, limit)
           L == <<BookSideOf(side), limit>>
           rests == m.rem > 0 /\ tif = "GTC"
           i0 == Image(e)
           i1 == [i0 EXCEPT !.nextOrderId = @ + 1]
           hasLimit == limit \in Prices
           w == MatchImage(m)
           char == Char(side)
<1>1. EngineInv(e) /\ id \in Nat /\ n \in Nat \ {0} /\ e.now \in Nat
  <2>1. EngineInv(e)
    BY DEF Sound
  <2> QED BY <2>1, SoundFields, SizeAssumption DEF EngineInv, Sizes
<1>2. /\ Sound(given) /\ given.nextId = id + 1 /\ given.orders = e.orders
      /\ i1 = Image(given) /\ i0.nextOrderId = id
  <2>1. i0.nextOrderId = id
    BY DEF Image, Img
  <2> HIDE DEF i0
  <2> QED BY <2>1, NextIdImage DEF i0
<1>3. NoLimit \notin Prices
  BY PricesAssumption DEF NoLimit
<1>4. /\ m \in SoundMatches(side)
      /\ hasLimit => Native!MatchActiveOrder(Image(given), id, char, n, limit, TRUE) = w
      /\ ~hasLimit => Native!MatchActiveOrder(Image(given), id, char, n, 0, FALSE) = w
  <2>1. ASSUME NEW price, NEW h \in BOOLEAN, h => limit \in Prices /\ price = limit,
               ~h => limit = NoLimit
        PROVE  /\ m \in SoundMatches(side)
               /\ Native!MatchActiveOrder(Image(given), id, char, n, price, h) = w
    <3> HIDE DEF given, id
    <3> QED BY <1>1, <1>2, <2>1, MatchActiveImage
  <2> HIDE DEF given, id, m, char, w, hasLimit
  <2>2. ASSUME hasLimit
        PROVE  /\ m \in SoundMatches(side)
               /\ Native!MatchActiveOrder(Image(given), id, char, n, limit, TRUE) = w
    BY <2>1, <2>2 DEF hasLimit
  <2>3. ASSUME ~hasLimit
        PROVE  /\ m \in SoundMatches(side)
               /\ Native!MatchActiveOrder(Image(given), id, char, n, 0, FALSE) = w
    <3>1. limit = NoLimit
      BY <2>3 DEF hasLimit
    <3> QED BY ONLY <2>1, <3>1
  <2> QED BY <2>2, <2>3
<1>5. Own(id) \notin DOMAIN m.e.orders
  <2> DEFINE todo == Matchable(given, OppositeBookSide(side), limit)
             m0 == [e |-> given, rem |-> n, todo |-> todo, fills |-> <<>>]
             k == Cardinality(todo)
  <2>1. m = MatchLoop(m0, id, side)[k] /\ m0.e = given
    BY DEF MatchActive
  <2>2. todo \in SUBSET Prices /\ k \in Nat
    <3>1. todo \in SUBSET Prices
      BY DEF Matchable
    <3> HIDE DEF todo
    <3> QED BY <3>1, PricesAssumption, FS_Subset, FS_CardinalityType
  <2>3. given \in Engines /\ EngineInv(given)
    BY <1>2, EnginesFacts DEF Sound, EngineInv
  <2>4. m0 \in MatchStates
    <3> HIDE DEF given, todo
    <3> QED BY <1>1, <2>2, <2>3 DEF MatchStates
  <2>5. Consumed(given, m.e, given.now)
    <3> HIDE DEF m0, id, k, given, m
    <3> QED BY <1>1, <2>1, <2>2, <2>4, MatchLoopFacts
  <2>6. DOMAIN m.e.orders \subseteq DOMAIN e.orders
    <3> HIDE DEF m, given
    <3> QED BY <1>2, <2>5 DEF Consumed
  <2>7. Own(id) \notin DOMAIN e.orders
    <3>1. /\ IsOwn(Own(id)) /\ Own(id)[2] = id
      BY <1>1, EntryFacts
    <3>2. SUFFICES ASSUME Own(id) \in DOMAIN e.orders PROVE FALSE
      OBVIOUS
    <3>3. Own(id) \in OwnOrders(e)
      BY <3>1, <3>2 DEF OwnOrders
    <3>4. id \in FirstOwnId..(e.nextId - 1)
      BY <1>1, <3>1, <3>3 DEF OwnIdsGivenOut, EngineInv
    <3> QED BY <1>1, <3>4, FirstOwnIdAssumption
  <2> HIDE DEF m, id
  <2> QED BY <2>6, <2>7
<1>6. /\ r.e = IF rests THEN Rest(m.e, Own(id), L, m.rem) ELSE m.e
      /\ r.fills = m.fills /\ r.rests = rests
  <2> HIDE DEF m
  <2> QED BY DEF Place, MatchActive, m
<1> HIDE DEF m
<1>7. /\ Sound(m.e) /\ EngineOK(m.e) /\ m.rem \in Nat /\ m.rem <= MaxSize
      /\ m.fills \in Seq(ActiveFills)
  BY <1>4 DEF SoundMatches, MatchStates, Sound, EngineInv
<1>8. /\ EngineInv(r.e) /\ r.fills \in Seq(ActiveFills)
  <2>1. tif = "GTC" => limit \in Prices
    OBVIOUS
  <2> QED BY <1>1, <2>1, PlaceFacts
<1>9. w.e = Image(m.e) /\ w.fills = Coded(m.fills) /\ w.remaining = m.rem
  BY DEF MatchImage
<1> HIDE DEF w
<1>10. /\ Sound(r.e)
       /\ r.rests <=> Own(id) \in DOMAIN r.e.orders
       /\ rests => Native!Add(w.e, <<"ownOrders", id>>, char, limit, m.rem) = Image(r.e)
  <2>1. CASE rests
    <3>1. L \in Levels /\ m.rem \in Nat \ {0} /\ L[1] = BookSideOf(side) /\ L[2] = limit
      BY <1>3, <1>7, <2>1 DEF Levels, BookSides, BookSideOf
    <3>2. /\ Own(id) \in Entries /\ IsOwn(Own(id)) /\ Own(id)[2] = id
      BY <1>1, EntryFacts
    <3>3. r.e = Rest(m.e, Own(id), L, m.rem)
      BY <1>6, <2>1
    <3>4. /\ DOMAIN m.e = Fields /\ m.e.book \in [Levels -> Nat]
      BY <1>7, SoundFields
    <3> DEFINE x == Own(id)
               d == m.e
               o == [level |-> L, size |-> m.rem]
    <3>5. /\ r.e.book = AddToBook(d.book, L, m.rem)
          /\ r.e.orders = Put(d.orders, x, o)
      <4> HIDE DEF L
      <4>1. /\ r.e.orders = Put(m.e.orders, Own(id), [level |-> L, size |-> m.rem])
            /\ r.e.book = AddToBook(m.e.book, L, m.rem)
        BY <1>7, <3>3, RestOrders
      <4> QED BY <4>1
    <3>6. d.book[L] + m.rem <= Native!MaxInt
      <4>1. r.e.book[L] = d.book[L] + m.rem
        <5>1. d.book \in [Levels -> Nat]
          BY <3>4
        <5> HIDE DEF L, d, o, x
        <5> QED BY <3>1, <3>5, <5>1 DEF AddToBook
      <4>2. r.e.book[L] <= Native!MaxInt
        BY <3>1 DEF Fits
      <4> QED BY <4>1, <4>2
    <3>7. Sound(r.e)
      <4>1. \A y \in DOMAIN d.orders : d.orders[y].size <= MaxSize
        BY <1>7 DEF Sound, Small
      <4>2. o.size <= MaxSize
        BY <1>7
      <4> HIDE DEF d, o, x
      <4>3. \A y \in DOMAIN r.e.orders : r.e.orders[y].size <= MaxSize
        BY <3>5, <4>1, <4>2, PutSmall
      <4> QED BY <1>8, <4>3 DEF Sound, Small
    <3>8. x \in DOMAIN r.e.orders
      <4> HIDE DEF d, o, x
      <4> QED BY <3>5 DEF Put
    <3>9. Name(x) = <<"ownOrders", id>>
      <4> HIDE DEF x
      <4>1. IsOwn(x) /\ x[2] = id
        BY <3>2 DEF x
      <4> QED BY <4>1 DEF Name
    <3>10. Native!Add(Image(d), Name(x), Char(L[1]), L[2], m.rem) = Image(Rest(d, x, L, m.rem))
      <4> HIDE DEF d, x, L
      <4> QED BY <1>7, <3>1, <3>2, <3>6, RestImage DEF d, x
    <3>11. Char(L[1]) = char
      BY <3>1, CharFacts
    <3> HIDE DEF L, x, id, char
    <3> QED BY <1>6, <1>9, <2>1, <3>1, <3>3, <3>7, <3>8, <3>9, <3>10, <3>11 DEF x
  <2>2. CASE ~rests
    <3>1. r.e = m.e
      BY <1>6, <2>2
    <3> HIDE DEF rests, id
    <3> QED BY <1>5, <1>6, <1>7, <2>2, <3>1
  <2> QED BY <2>1, <2>2
<1> HIDE DEF i1, i0, given, char
<1>11. ASSUME limit \in Prices
       PROVE  Native!PlaceLimit(i0, char, limit, n, tif)
                = Answer(Image(r.e), IF r.rests THEN id ELSE Native!NoOrder, Coded(r.fills))
  <2>1. Native!MatchActiveOrder(i1, id, char, n, limit, TRUE) = w
    <3>1. hasLimit
      BY <1>11
    <3> HIDE DEF hasLimit
    <3> QED BY <1>2, <1>4, <3>1
  <2>2. rests <=> w.remaining > 0 /\ tif = "GTC"
    BY <1>9
  <2>3. Native!PlaceLimit(i0, char, limit, n, tif)
          = Answer(IF rests THEN Native!Add(w.e, <<"ownOrders", id>>, char, limit, w.remaining)
                   ELSE w.e,
                   IF rests THEN id ELSE Native!NoOrder, w.fills)
    <3> HIDE DEF rests, id
    <3> QED BY <1>2, <2>1, <2>2 DEF Native!PlaceLimit, Answer, i1
  <2>4. rests = r.rests
    BY <1>6
  <2> HIDE DEF rests, id
  <2> QED BY <1>6, <1>9, <1>10, <2>3, <2>4
<1>12. ASSUME limit = NoLimit
       PROVE  /\ ~r.rests
              /\ Native!PlaceMarket(i0, char, n)
                   = Answer(Image(r.e), Native!NoOrder, Coded(r.fills))
  <2>1. ~rests /\ ~hasLimit
    BY <1>3, <1>12
  <2>2. Native!MatchActiveOrder(i1, id, char, n, 0, FALSE) = w
    <3> HIDE DEF hasLimit
    <3> QED BY <1>2, <1>4, <2>1
  <2>3. Native!PlaceMarket(i0, char, n) = Answer(w.e, Native!NoOrder, w.fills)
    <3> HIDE DEF id
    <3> QED BY <1>2, <2>2 DEF Native!PlaceMarket, Answer, i1
  <2> HIDE DEF rests
  <2> QED BY <1>6, <1>9, <2>1, <2>3
<1> QED BY <1>8, <1>10, <1>11, <1>12 DEF i0, char

LEMMA CancelOwnImage ==
  ASSUME NEW e, Sound(e), NEW id \in Nat, NEW f, f = CancelOwn(e, id)
  PROVE  /\ Sound(f) /\ Native!Cancel(Image(e), id) = Image(f)
         /\ id \in DOMAIN Image(e).ownOrders <=> Own(id) \in DOMAIN e.orders
<1> DEFINE x == Own(id)
           y == <<"ownOrders", id>>
           o == e.orders[x]
           L == o.level
           i0 == Image(e)
           i1 == Img(e.book, Drop(e.orders, x), e.queues, e.fills, e.nextId, e.now, e.position)
           b == RemoveFromBook(e.book, L, o.size)
           i2 == Img(b, Drop(e.orders, x), e.queues, e.fills, e.nextId, e.now, e.position)
           i3 == Img(b, Drop(e.orders, x), Dequeue(e.queues, L, x), e.fills, e.nextId, e.now,
                     e.position)
<1>1. EngineInv(e) /\ EngineOK(e) /\ EngineInv(f)
  BY CancelOwnFacts DEF Sound, EngineInv
<1>2. /\ DOMAIN e = Fields
      /\ e.book \in [Levels -> Nat] /\ e.queues \in [Levels -> Seq(Entries)]
      /\ DOMAIN e.orders \subseteq Entries
      /\ e.orders \in [DOMAIN e.orders -> Orders]
      /\ \A z \in DOMAIN e.orders : /\ e.orders[z].level \in Levels
                                    /\ e.orders[z].size \in Nat \ {0}
  BY <1>1, SoundFields
<1>3. x \in Entries /\ IsOwn(x) /\ x[2] = id /\ Name(x) = y
  <2>1. x \in Entries /\ IsOwn(x) /\ x[2] = id
    BY EntryFacts
  <2> HIDE DEF x
  <2> QED BY <2>1 DEF Name
<1> HIDE DEF x
<1>4. /\ Native!HasOrder(i0, y) <=> x \in DOMAIN e.orders
      /\ x \in DOMAIN e.orders =>
            /\ Native!OrderOf(i0, y).side = Char(L[1])
            /\ Native!OrderOf(i0, y).price = L[2]
            /\ Native!OrderOf(i0, y).size = o.size
  <2>1. /\ Native!HasOrder(i0, Name(x)) <=> x \in DOMAIN e.orders
        /\ x \in DOMAIN e.orders =>
              /\ Native!OrderOf(i0, Name(x)).side = Char(L[1])
              /\ Native!OrderOf(i0, Name(x)).price = L[2]
              /\ Native!OrderOf(i0, Name(x)).size = o.size
    <3> HIDE DEF i0
    <3> QED BY <1>1, <1>3, OrderImage DEF i0
  <2> HIDE DEF i0, y
  <2> QED BY <1>3, <2>1
<1>5. id \in DOMAIN i0.ownOrders <=> x \in DOMAIN e.orders
  <2> HIDE DEF i0
  <2> QED BY <1>4 DEF Native!HasOrder
<1>6. CASE x \notin DOMAIN e.orders
  <2>1. f = e
    BY <1>6 DEF CancelOwn, x
  <2>2. Native!Cancel(i0, id) = i0
    <3> HIDE DEF i0
    <3> QED BY <1>4, <1>6 DEF Native!Cancel
  <2> QED BY <1>5, <2>1, <2>2 DEF x
<1>7. CASE x \in DOMAIN e.orders
  <2>1. L \in Levels /\ o.size \in Nat /\ o.size <= Native!MaxInt /\ e.book[L] <= Native!MaxInt
    <3>1. L \in Levels /\ o.size \in Nat
      BY <1>2, <1>7
    <3>2. o.size <= MaxSize /\ e.book[L] <= Native!MaxInt
      BY <1>7, <3>1 DEF Sound, Small, Fits
    <3> HIDE DEF o
    <3> QED BY <3>1, <3>2, MaxIntFacts
  <2>2. f = [e EXCEPT !.orders = Drop(@, x), !.book = RemoveFromBook(@, L, o.size),
                      !.queues = Dequeue(@, L, x)]
    BY <1>7 DEF CancelOwn, x
  <2> HIDE DEF L, o
  <2>3. /\ f.book = b
        /\ f.orders = Drop(e.orders, x)
        /\ f.queues = Dequeue(e.queues, L, x)
        /\ f.fills = e.fills /\ f.nextId = e.nextId /\ f.now = e.now
        /\ f.position = e.position
    BY <1>2, <2>2 DEF Fields
  <2>4. Image(f) = i3
    <3> HIDE DEF b
    <3> QED BY <2>3 DEF Image
  <2>5. Native!EraseOrder(i0, y) = i1
    <3> HIDE DEF y
    <3> QED BY <1>3, EraseOrderImage DEF Image
  <2>6. Native!RemoveFromBook(i1, Char(L[1]), L[2], o.size) = i2
    <3> DEFINE os == Drop(e.orders, x)
               n == o.size
    <3>0. n \in Nat /\ n <= Native!MaxInt /\ e.book \in [Levels -> Nat]
      BY <1>2, <2>1
    <3> HIDE DEF os, n
    <3>1. Native!RemoveFromBook(Img(e.book, os, e.queues, e.fills, e.nextId, e.now, e.position),
                                Char(L[1]), L[2], n)
            = Img(RemoveFromBook(e.book, L, n), os, e.queues, e.fills, e.nextId, e.now, e.position)
      BY <2>1, <3>0, RemoveFromBookImage
    <3>2. i1 = Img(e.book, os, e.queues, e.fills, e.nextId, e.now, e.position)
      BY DEF os
    <3>3. i2 = Img(RemoveFromBook(e.book, L, n), os, e.queues, e.fills, e.nextId, e.now,
                   e.position)
      BY DEF os, n
    <3> HIDE DEF i1, i2
    <3>4. Native!RemoveFromBook(i1, Char(L[1]), L[2], n) = i2
      BY <3>1, <3>2, <3>3
    <3> QED BY <3>4 DEF n
  <2>7. Native!RemoveFromQueue(i2, Char(L[1]), L[2], y) = i3
    <3> DEFINE os == Drop(e.orders, x)
    <3> HIDE DEF os, b, y
    <3>1. Native!RemoveFromQueue(Img(b, os, e.queues, e.fills, e.nextId, e.now, e.position),
                                Char(L[1]), L[2], Name(x))
            = Img(b, os, Dequeue(e.queues, L, x), e.fills, e.nextId, e.now, e.position)
      BY <1>2, <1>3, <2>1, DequeueImage
    <3>2. i2 = Img(b, os, e.queues, e.fills, e.nextId, e.now, e.position)
      BY DEF os
    <3>3. i3 = Img(b, os, Dequeue(e.queues, L, x), e.fills, e.nextId, e.now, e.position)
      BY DEF os
    <3> HIDE DEF i2, i3
    <3> QED BY <1>3, <3>1, <3>2, <3>3
  <2>8. Native!Cancel(i0, id) = i3
    <3>1. Native!Cancel(i0, id)
            = Native!RemoveFromQueue(
                  Native!RemoveFromBook(Native!EraseOrder(i0, y), Char(L[1]), L[2], o.size),
                  Char(L[1]), L[2], y)
      <4> HIDE DEF i0
      <4> QED BY <1>4, <1>7 DEF Native!Cancel
    <3> HIDE DEF i0, i1, i2, i3, y
    <3> QED BY <2>5, <2>6, <2>7, <3>1
  <2>9. Sound(f)
    <3>1. \A M \in Levels : f.book[M] <= e.book[M]
      <4> DEFINE n == o.size
      <4> HIDE DEF n
      <4>1. \A M \in Levels : RemoveFromBook(e.book, L, n)[M] <= e.book[M]
        BY <1>2, <2>1, RemoveShrinks DEF n
      <4> QED BY <2>3, <4>1 DEF n
    <3>2. \A z \in DOMAIN f.orders : z \in DOMAIN e.orders /\ f.orders[z] = e.orders[z]
      <4> HIDE DEF b
      <4> QED BY <2>3 DEF Drop
    <3>3. \A z \in DOMAIN f.orders : f.orders[z].size <= e.orders[z].size
      <4>1. ASSUME NEW z \in DOMAIN f.orders PROVE f.orders[z].size <= e.orders[z].size
        <5>1. z \in DOMAIN e.orders /\ f.orders[z] = e.orders[z]
          BY <3>2
        <5>2. e.orders[z].size \in Nat
          BY <1>2, <5>1
        <5> QED BY <5>1, <5>2
      <4> QED BY <4>1
    <3> QED BY <1>1, <3>1, <3>2, <3>3, ShrunkSound DEF Shrunk
  <2> QED BY <1>5, <1>7, <2>4, <2>8, <2>9 DEF x
<1> QED BY <1>6, <1>7

(***************************************************************************)
(* Queries.                                                                *)
(***************************************************************************)

LEMMA NativeTotal ==
  ASSUME NEW f
  PROVE  Native!Total(f) = Total(f)
BY DEF Native!Total, Total, Native!MapThenSumSet, MapThenSumSet, Native!MapThenFoldSet,
       MapThenFoldSet

(* queue_ahead: the entries without an order count nothing.                *)
LEMMA AheadImage ==
  ASSUME NEW e, Sound(e), NEW id \in Nat, NEW x, x = Own(id), x \in DOMAIN e.orders
  PROVE  /\ Native!QueueAhead(Image(e), id) = Native!Wrap(QueueAhead(e, x))
         /\ QueueAhead(e, x) \in Nat
<1> DEFINE o == e.orders[x]
           L == o.level
           q == e.queues[L]
           w == Named(q)
           i == Image(e)
           y == <<"ownOrders", id>>
           places == {k \in DOMAIN w : w[k] = y}
           mine == Native!Min(places)
           counted == {k \in 1..(mine - 1) : Native!HasOrder(i, w[k])}
           f == [k \in counted |-> Native!OrderOf(i, w[k]).size]
           g == [k \in PlacesAhead(e, x) |-> SizeOf(e, q[k])]
<1>1. EngineInv(e) /\ EngineOK(e)
  BY DEF Sound, EngineInv
<1>2. /\ e.queues \in [Levels -> Seq(Entries)] /\ DOMAIN e.orders \subseteq Entries
      /\ \A z \in DOMAIN e.orders : /\ e.orders[z].level \in Levels
                                    /\ e.orders[z].size \in Nat \ {0}
  BY <1>1, SoundFields
<1>3. L \in Levels /\ q \in Seq(Entries)
  BY <1>2
<1>4. x \in Entries /\ IsOwn(x) /\ x[2] = id /\ Name(x) = y
  <2>1. x \in Entries /\ IsOwn(x) /\ x[2] = id
    BY EntryFacts
  <2> QED BY <2>1 DEF Name
<1>5. i.ownOrders[id].side = Char(L[1]) /\ i.ownOrders[id].price = L[2]
  <2>1. /\ Native!OrderOf(i, Name(x)).side = Char(L[1])
        /\ Native!OrderOf(i, Name(x)).price = L[2]
    <3> HIDE DEF i
    <3> QED BY <1>1, <1>4, OrderImage DEF i
  <2>2. Native!OrderOf(i, y) = i.ownOrders[id]
    BY DEF Native!OrderOf
  <2> HIDE DEF i, y
  <2> QED BY <1>4, <2>1, <2>2
<1>6. Native!Queue(i, Char(L[1]), L[2]) = w
  <2> HIDE DEF L
  <2> QED BY <1>2, <1>3, QueueImage DEF Image
<1>7. /\ Len(q) \in Nat /\ DOMAIN w = 1..Len(q)
      /\ \A k \in 1..Len(q) : q[k] \in Entries /\ w[k] = Name(q[k])
  BY <1>3, NamedFacts
<1>8. places = Places(e, L, x)
  <2>1. \A k \in 1..Len(q) : w[k] = y <=> q[k] = x
    <3> HIDE DEF q, w, y
    <3> QED BY <1>4, <1>7, NamesDiffer
  <2> HIDE DEF w, y
  <2> QED BY <1>7, <2>1 DEF Places
<1>9. PlacesAhead(e, x) = 1..(mine - 1)
  <2>1. Native!Min(places) = Min(places)
    BY DEF Native!Min, Min
  <2> HIDE DEF places
  <2> QED BY <1>8, <2>1 DEF PlacesAhead
<1>10. mine \in 1..Len(q)
  <2>1. x \in OwnOrders(e)
    BY <1>4 DEF OwnOrders
  <2>2. StandsOnce(q, x)
    BY <1>1, <2>1 DEF EngineInv, OwnQueued
  <2>3. Places(e, L, x) # {} /\ Places(e, L, x) \subseteq 1..Len(q)
    <3>1. PICK k \in 1..Len(q) : q[k] = x
      BY <2>2 DEF StandsOnce
    <3> QED BY <3>1 DEF Places
  <2>4. Min(places) \in places
    <3>1. places # {} /\ places \in SUBSET Nat
      <4> HIDE DEF places, L, q
      <4> QED BY <1>7, <1>8, <2>3
    <3> HIDE DEF places
    <3> QED BY <3>1, MinFacts
  <2>5. Native!Min(places) = Min(places)
    BY DEF Native!Min, Min
  <2> HIDE DEF places, q, L
  <2> QED BY <1>8, <2>3, <2>4, <2>5
<1> HIDE DEF mine, places
<1>11. \A k \in 1..(mine - 1) :
          /\ k \in 1..Len(q) /\ q[k] \in Entries /\ w[k] = Name(q[k])
          /\ Native!HasOrder(i, w[k]) <=> q[k] \in DOMAIN e.orders
          /\ q[k] \in DOMAIN e.orders => Native!OrderOf(i, w[k]).size = e.orders[q[k]].size
  <2>1. ASSUME NEW k \in 1..(mine - 1)
        PROVE  /\ k \in 1..Len(q) /\ q[k] \in Entries /\ w[k] = Name(q[k])
               /\ Native!HasOrder(i, w[k]) <=> q[k] \in DOMAIN e.orders
               /\ q[k] \in DOMAIN e.orders => Native!OrderOf(i, w[k]).size = e.orders[q[k]].size
    <3> DEFINE z == q[k]
    <3>1. k \in 1..Len(q)
      <4> HIDE DEF q
      <4> QED BY <1>7, <1>10
    <3>2. z \in Entries /\ w[k] = Name(z)
      BY <1>7, <3>1
    <3>3. /\ Native!HasOrder(i, Name(z)) <=> z \in DOMAIN e.orders
          /\ z \in DOMAIN e.orders => Native!OrderOf(i, Name(z)).size = e.orders[z].size
      <4> HIDE DEF z, i
      <4> QED BY <1>1, <3>2, OrderImage DEF i
    <3> HIDE DEF w, i
    <3> QED BY <3>1, <3>2, <3>3
  <2> QED BY <2>1
<1>12. /\ counted \subseteq 1..(mine - 1)
       /\ \A k \in counted : f[k] = g[k] /\ f[k] \in Int
       /\ \A k \in (1..(mine - 1)) \ counted : g[k] = 0
       /\ DOMAIN f = counted /\ DOMAIN g = 1..(mine - 1)
       /\ \A k \in 1..(mine - 1) : g[k] \in Int /\ g[k] \in Nat
  <2>1. \A k \in 1..(mine - 1) : k \in counted <=> q[k] \in DOMAIN e.orders
    <3> HIDE DEF q, i, w
    <3> QED BY <1>11
  <2>2. DOMAIN g = 1..(mine - 1) /\ \A k \in 1..(mine - 1) : g[k] = SizeOf(e, q[k])
    BY <1>9
  <2>3. DOMAIN f = counted /\ \A k \in counted : f[k] = Native!OrderOf(i, w[k]).size
    OBVIOUS
  <2>4. counted \subseteq 1..(mine - 1)
    OBVIOUS
  <2> HIDE DEF f, g, counted, q, w, i
  <2>5. \A k \in counted : f[k] = g[k] /\ f[k] \in Int
    BY <1>2, <1>11, <2>1, <2>2, <2>3, <2>4 DEF SizeOf
  <2>6. \A k \in (1..(mine - 1)) \ counted : g[k] = 0
    BY <2>1, <2>2 DEF SizeOf
  <2>7. \A k \in 1..(mine - 1) : g[k] \in Int
    BY <2>4, <2>5, <2>6
  <2>8. \A k \in 1..(mine - 1) : g[k] \in Nat
    BY <1>2, <2>2 DEF SizeOf
  <2> QED BY <2>2, <2>3, <2>4, <2>5, <2>6, <2>7, <2>8
<1>13. IsFiniteSet(1..(mine - 1)) /\ IsFiniteSet(counted)
  <2>1. mine - 1 \in Int
    <3> HIDE DEF q
    <3> QED BY <1>7, <1>10
  <2>2. IsFiniteSet(1..(mine - 1))
    <3> DEFINE n == mine - 1
    <3> HIDE DEF n
    <3>1. IsFiniteSet(1..n)
      BY <2>1, FS_Interval DEF n
    <3> QED BY <3>1 DEF n
  <2>3. counted \subseteq 1..(mine - 1)
    OBVIOUS
  <2> HIDE DEF counted
  <2> QED BY <2>2, <2>3, FS_Subset
<1>14. Native!QueueAhead(i, id) = Native!Wrap(Native!Total(f))
  <2> HIDE DEF i, w, L
  <2> QED BY <1>5, <1>6 DEF Native!QueueAhead, mine, places
<1>15. QueueAhead(e, x) = Total(g)
  BY DEF QueueAhead
<1> HIDE DEF f, g, counted
<1>16. Summable(f) /\ Summable(g)
  BY <1>12, <1>13 DEF Summable
<1>17. Total(f) = Total(g)
  BY <1>12, <1>16, TotalWithoutZeros
<1>18. Native!Total(f) = Total(f)
  BY NativeTotal
<1>19. Total(g) \in Nat
  BY <1>12, <1>16, TotalNat
<1> HIDE DEF i
<1> QED BY <1>14, <1>15, <1>17, <1>18, <1>19 DEF i

\* What the C++ engine reads for the own orders of engine e: sizes ahead wrap.
WrappedRows(e) ==
  [id \in {x[2] : x \in OwnOrders(e)} |->
     LET x == Own(id)
         order == e.orders[x]
     IN  [side |-> Char(order.level[1]), price |-> order.level[2], size |-> order.size,
          ahead |-> Native!Wrap(QueueAhead(e, x))]]

LEMMA RowsImage ==
  ASSUME NEW e, Sound(e)
  PROVE  Native!OwnOrderRows(Image(e)) = WrappedRows(e)
<1> DEFINE i == Image(e)
           D == DOMAIN i.ownOrders
           f == Native!OwnOrderRows(i)
           g == WrappedRows(e)
<1>1. DOMAIN e.orders \subseteq Entries /\ EngineOK(e)
  BY SoundFields DEF Sound, EngineInv
<1>2. i.ownOrders = OrderMap(e.orders, "own")
  BY DEF Image, Img
<1>3. D = {id \in PublicIds \cup Nat : <<"own", id>> \in DOMAIN e.orders}
  BY <1>2 DEF OrderMap
<1>4. /\ D = {x[2] : x \in OwnOrders(e)}
      /\ \A id \in D : id \in Nat /\ Own(id) \in DOMAIN e.orders
  <2>1. ASSUME NEW id \in D PROVE id \in Nat /\ Own(id) \in DOMAIN e.orders
    <3>1. <<"own", id>> \in DOMAIN e.orders
      BY <1>3
    <3>2. <<"own", id>> \in Entries
      BY <1>1, <3>1
    <3>3. id \in Nat
      BY <3>2 DEF Entries
    <3> QED BY <3>1, <3>3 DEF Own
  <2>2. ASSUME NEW id \in D PROVE id \in {x[2] : x \in OwnOrders(e)}
    <3>1. Own(id) \in OwnOrders(e) /\ Own(id)[2] = id
      BY <2>1, EntryFacts DEF OwnOrders
    <3> QED BY <3>1
  <2>3. ASSUME NEW x \in OwnOrders(e) PROVE x[2] \in D
    <3>1. x \in DOMAIN e.orders /\ x \in Entries /\ x[1] = "own"
      BY <1>1 DEF OwnOrders, IsOwn
    <3>2. x = <<"own", x[2]>> /\ x[2] \in Nat
      BY <3>1 DEF Entries
    <3> QED BY <1>3, <3>1, <3>2
  <2> HIDE DEF D
  <2> QED BY <2>1, <2>2, <2>3
<1>5. \A id \in D : i.ownOrders[id] = NativeOrder(e.orders[Own(id)])
  BY <1>2, <1>3 DEF OrderMap, Own
<1> HIDE DEF i, D
<1>6. f = [id \in D |-> [side |-> i.ownOrders[id].side, price |-> i.ownOrders[id].price,
                         size |-> i.ownOrders[id].size, ahead |-> Native!QueueAhead(i, id)]]
  BY DEF Native!OwnOrderRows, D
<1>7. \A id \in D : [side |-> i.ownOrders[id].side, price |-> i.ownOrders[id].price,
                     size |-> i.ownOrders[id].size, ahead |-> Native!QueueAhead(i, id)]
                      = LET x == Own(id)
                            order == e.orders[x]
                        IN  [side |-> Char(order.level[1]), price |-> order.level[2],
                             size |-> order.size, ahead |-> Native!Wrap(QueueAhead(e, x))]
  <2>1. ASSUME NEW id \in D
        PROVE  [side |-> i.ownOrders[id].side, price |-> i.ownOrders[id].price,
                size |-> i.ownOrders[id].size, ahead |-> Native!QueueAhead(i, id)]
                 = LET x == Own(id)
                       order == e.orders[x]
                   IN  [side |-> Char(order.level[1]), price |-> order.level[2],
                        size |-> order.size, ahead |-> Native!Wrap(QueueAhead(e, x))]
    <3>1. Native!QueueAhead(i, id) = Native!Wrap(QueueAhead(e, Own(id)))
      BY <1>4, AheadImage DEF i
    <3>2. i.ownOrders[id] = NativeOrder(e.orders[Own(id)])
      BY <1>5
    <3> QED BY <3>1, <3>2 DEF NativeOrder
  <2> QED BY <2>1
<1>8. g = [id \in D |-> LET x == Own(id)
                            order == e.orders[x]
                        IN  [side |-> Char(order.level[1]), price |-> order.level[2],
                             size |-> order.size, ahead |-> Native!Wrap(QueueAhead(e, x))]]
  BY <1>4 DEF WrappedRows
<1> HIDE DEF f, g
<1>9. f = g
  BY ONLY <1>6, <1>7, <1>8
<1> QED BY <1>9 DEF f, g, i

\* ReferenceRows of engine e.
Unwrapped(e) ==
  [id \in {x[2] : x \in OwnOrders(e)} |->
     LET x == Own(id)
         order == e.orders[x]
     IN  [side |-> Char(order.level[1]), price |-> order.level[2], size |-> order.size,
          ahead |-> QueueAhead(e, x)]]

(* Wrapping leaves a size ahead that is a C++ size as it is.               *)
LEMMA WrappedRowsAreSame ==
  ASSUME NEW e, Sound(e)
  PROVE  SameRows(WrappedRows(e), Unwrapped(e))
<1> DEFINE ids == {x[2] : x \in OwnOrders(e)}
<1>1. DOMAIN WrappedRows(e) = ids /\ DOMAIN Unwrapped(e) = ids
  BY DEF WrappedRows, Unwrapped
<1>2. ASSUME NEW id \in ids PROVE SameRow(WrappedRows(e)[id], Unwrapped(e)[id])
  <2> DEFINE order == e.orders[Own(id)]
             n == QueueAhead(e, Own(id))
  <2>1. id \in Nat /\ Own(id) \in DOMAIN e.orders
    <3>1. DOMAIN e.orders \subseteq Entries
      BY SoundFields DEF Sound, EngineInv
    <3>2. PICK x \in OwnOrders(e) : id = x[2]
      OBVIOUS
    <3>3. x \in DOMAIN e.orders /\ x \in Entries /\ x[1] = "own"
      BY <3>1, <3>2 DEF OwnOrders, IsOwn
    <3>4. x = <<"own", x[2]>> /\ x[2] \in Nat
      BY <3>3 DEF Entries
    <3> QED BY <3>2, <3>3, <3>4 DEF Own
  <2>2. n \in Nat
    BY <2>1, AheadImage
  <2>3. n <= Native!MaxInt => Native!Wrap(n) = n
    <3> DEFINE m == Native!MaxInt
    <3>1. m \in Nat
      BY WidthAssumption DEF Native!MaxInt
    <3> HIDE DEF n, m
    <3>2. n \in Int /\ -m <= n
      BY <2>2, <3>1
    <3>3. ASSUME n <= m PROVE Native!Wrap(n) = n
      BY <3>2, <3>3, WrapFacts DEF m
    <3> QED BY <3>3 DEF m
  <2>4. WrappedRows(e)[id] = [side |-> Char(order.level[1]), price |-> order.level[2],
                              size |-> order.size, ahead |-> Native!Wrap(n)]
    BY DEF WrappedRows
  <2>5. Unwrapped(e)[id] = [side |-> Char(order.level[1]), price |-> order.level[2],
                            size |-> order.size, ahead |-> n]
    BY DEF Unwrapped
  <2> HIDE DEF order, n
  <2> QED BY <2>3, <2>4, <2>5 DEF SameRow
<1> HIDE DEF ids
<1> QED BY <1>1, <1>2 DEF SameRows

(***************************************************************************)
(* Calls of both engines.                                                  *)
(***************************************************************************)

\* As long as everything fits, the C++ engine is the image of the reference one.
InLockstep == agree /\ Sound(engine) /\ native = Image(engine)

BothIInv ==
  /\ EngineInv(engine)
  /\ active \in Seq(ActiveFills)
  /\ DOMAIN placed \subseteq Nat
  /\ fits => InLockstep

(* A new engine is the image of a new engine.                              *)
LEMMA EmptyImage ==
  Native!New = Image(EmptyEngine) /\ Sound(EmptyEngine)
<1> DEFINE e == EmptyEngine
<1>1. /\ e.book = [L \in Levels |-> 0] /\ e.orders = [x \in {} |-> 0]
      /\ e.queues = [L \in Levels |-> <<>>] /\ e.fills = <<>>
      /\ e.nextId = FirstOwnId /\ e.now = 0 /\ e.position = 0
  BY DEF EmptyEngine
<1>2. EngineInv(e)
  BY EmptyEngineFacts
<1> HIDE DEF e
<1>3. Sound(e)
  <2>1. \A L \in Levels : e.book[L] <= Native!MaxInt
    BY <1>1, MaxIntFacts
  <2> QED BY <1>1, <1>2, <2>1 DEF Sound, Small, Fits
<1>4. \A side \in BookSides : Depth(e.book, side) = [k \in {} |-> 0]
  <2>1. ASSUME NEW side \in BookSides PROVE Depth(e.book, side) = [k \in {} |-> 0]
    <3>1. {p \in Prices : e.book[<<side, p>>] > 0} = {}
      BY <1>1 DEF Levels
    <3> QED BY <3>1 DEF Depth
  <2> QED BY <2>1
<1>5. \A owner \in {"public", "own"} : OrderMap(e.orders, owner) = [k \in {} |-> 0]
  <2>1. ASSUME NEW owner \in {"public", "own"} PROVE OrderMap(e.orders, owner) = [k \in {} |-> 0]
    <3>1. {i \in PublicIds \cup Nat : <<owner, i>> \in DOMAIN e.orders} = {}
      BY <1>1
    <3> QED BY <3>1 DEF OrderMap
  <2> QED BY <2>1
<1>6. QueueMap(e.queues) = [k \in {} |-> 0]
  <2>1. {KeyOf(L) : L \in {M \in Levels : e.queues[M] # <<>>}} = {}
    BY <1>1
  <2> QED BY <2>1 DEF QueueMap
<1>7. Coded(e.fills) = <<>>
  <2>1. <<>> \in Seq(ActiveFills)
    OBVIOUS
  <2> QED BY <1>1, <2>1, CodedFacts
<1>8. Image(e) = [bids |-> [k \in {} |-> 0], asks |-> [k \in {} |-> 0],
                  publicOrders |-> [k \in {} |-> 0], ownOrders |-> [k \in {} |-> 0],
                  queues |-> [k \in {} |-> 0], passiveFills |-> <<>>,
                  nextOrderId |-> FirstOwnId, now |-> 0, position |-> 0]
  <2>1. "bid" \in BookSides /\ "ask" \in BookSides
    BY DEF BookSides
  <2> QED BY <1>1, <1>4, <1>5, <1>6, <1>7, <2>1 DEF Image, Img
<1>9. Native!New = Image(e)
  BY <1>8 DEF Native!New, Native!EmptyMap
<1> QED BY <1>3, <1>9 DEF e

(* A call both answered alike, if the reference engine went through states *)
(* that fit.                                                               *)
LEMMA AnswerKeeps ==
  ASSUME BothIInv, NEW g, NEW same, NEW between, AnsweredAfter(g, same, between),
         NEW f, engine' = f, EngineInv(f), active' \in Seq(ActiveFills),
         DOMAIN placed' \subseteq Nat,
         InLockstep /\ Fits(f) /\ (\A d \in between : Fits(d))
            => same /\ Sound(f) /\ g = Image(f)
  PROVE  BothIInv'
<1>1. EngineInv(engine')
  OBVIOUS
<1>2. fits' => InLockstep'
  <2>1. SUFFICES ASSUME fits' PROVE agree' /\ Sound(engine') /\ native' = Image(engine')
    BY DEF InLockstep
  <2>2. fits /\ Fits(f) /\ \A d \in between : Fits(d)
    BY <2>1 DEF AnsweredAfter
  <2>3. InLockstep
    BY <2>2 DEF BothIInv
  <2>4. same /\ Sound(f) /\ g = Image(f)
    BY <2>2, <2>3
  <2>5. agree'
    BY <2>3, <2>4 DEF AnsweredAfter, InLockstep
  <2> QED BY <2>4, <2>5 DEF AnsweredAfter
<1> QED BY <1>1, <1>2 DEF BothIInv

LEMMA InvFields ==
  ASSUME BothIInv
  PROVE  /\ EngineInv(engine) /\ EngineOK(engine) /\ engine.now \in Nat /\ engine.nextId \in Nat
         /\ engine.fills \in Seq(Fills) /\ engine \in Engines
<1>1. EngineInv(engine) /\ EngineOK(engine)
  BY DEF BothIInv, EngineInv
<1> QED BY <1>1, SoundFields, EnginesFacts

LEMMA EventIsRow ==
  ASSUME NEW ev \in Events, NEW ts \in Nat
  PROVE  Stamp(ev, ts) \in RowEvents
<1>1. /\ ev.action \in {"add", "cancel", "modify", "trade"} /\ ev.id \in PublicIds
      /\ ev.level \in Levels /\ ev.size \in Sizes
  BY FeedAssumption DEF Events
<1>2. ev.size \in Nat \ {0} /\ ev.size <= MaxSize
  BY <1>1, SizeAssumption DEF Sizes
<1> QED BY <1>1, <1>2 DEF MBOEvents, Stamp, RowEvents

LEMMA StampedRows ==
  ASSUME BothIInv, NEW slice \in Slices
  PROVE  Stamped(slice) \in Seq(RowEvents) /\ Len(Stamped(slice)) = Len(slice)
<1> DEFINE evs == Stamped(slice)
           N == Len(slice)
<1>1. slice \in Seq(Events) /\ N \in Nat /\ DOMAIN slice = 1..N
  BY SlicesAssumption
<1>2. \A i \in 1..N : Stamp(slice[i], engine.now + i) \in RowEvents
  <2>1. ASSUME NEW i \in 1..N PROVE Stamp(slice[i], engine.now + i) \in RowEvents
    <3>1. slice[i] \in Events /\ engine.now + i \in Nat
      BY <1>1, InvFields
    <3> DEFINE ts == engine.now + i
    <3> HIDE DEF ts
    <3>2. Stamp(slice[i], ts) \in RowEvents
      BY <3>1, EventIsRow DEF ts
    <3> QED BY <3>2 DEF ts
  <2> QED BY <2>1
<1>3. evs = [i \in 1..N |-> Stamp(slice[i], engine.now + i)]
  BY <1>1 DEF Stamped
<1> HIDE DEF evs, N
<1>4. evs \in [1..N -> RowEvents]
  BY <1>2, <1>3
<1>5. evs \in Seq(RowEvents) /\ Len(evs) = N
  BY ONLY <1>1, <1>4
<1> QED BY <1>5 DEF evs, N

LEMMA BothApplyEventKeeps ==
  ASSUME BothIInv, NEW ev \in Events, BothApplyEvent(ev)
  PROVE  BothIInv'
<1> DEFINE s == Stamp(ev, engine.now + 1)
           f == ApplyEvent(engine, s)
           g == Native!ApplyEventCode(native, Row(s))
           same == FromRows(Native!FillsSince(native, g)) = NewFills(engine, f)
<1>1. engine' = f /\ active' = active /\ placed' = placed
  BY DEF BothApplyEvent, PublicEvent
<1>2. s \in RowEvents /\ s \in MBOEvents
  <2> DEFINE ts == engine.now + 1
  <2>1. ts \in Nat
    BY InvFields
  <2> HIDE DEF ts
  <2>2. Stamp(ev, ts) \in RowEvents
    BY <2>1, EventIsRow
  <2> QED BY <2>2 DEF ts, RowEvents
<1>3. AnsweredAfter(g, same, {})
  <2>1. PICK c \in {Native!ApplyEventCode(native, Row(Stamp(ev, engine.now + 1)))} :
           Answered(c, FromRows(Native!FillsSince(native, c)) = NewFills(engine, engine'))
    BY DEF BothApplyEvent
  <2>2. c = g
    BY <2>1
  <2> HIDE DEF g, f
  <2>3. Answered(g, FromRows(Native!FillsSince(native, g)) = NewFills(engine, f))
    BY <1>1, <2>1, <2>2
  <2> QED BY <2>3 DEF Answered
<1> HIDE DEF s
<1>4. EngineInv(f) /\ Len(engine.fills) <= Len(f.fills) /\ EngineOK(f)
  BY <1>2, InvFields, ApplyEventFacts DEF FillsGrow, EngineInv
<1>5. ASSUME InLockstep, Fits(f) PROVE same /\ Sound(f) /\ g = Image(f)
  <2> DEFINE e == engine
  <2>1. Sound(e) /\ native = Image(e) /\ EngineOK(e) /\ Len(e.fills) <= Len(f.fills)
        /\ f = ApplyEvent(e, s)
    BY <1>4, <1>5, InvFields DEF InLockstep
  <2> HIDE DEF e, f
  <2>2. Sound(f) /\ Native!ApplyEventCode(Image(e), Row(s)) = Image(f)
    BY <1>2, <1>5, <2>1, ApplyEventImage
  <2>3. FromRows(Native!FillsSince(Image(e), Image(f))) = NewFills(e, f)
    BY <1>4, <2>1, FillsSinceImage
  <2>4. g = Image(f)
    BY <2>1, <2>2 DEF e
  <2> HIDE DEF g
  <2>5. same
    BY <2>1, <2>3, <2>4 DEF e
  <2> HIDE DEF same
  <2> QED BY <2>2, <2>4, <2>5
<1>6. active' \in Seq(ActiveFills) /\ DOMAIN placed' \subseteq Nat
  BY <1>1 DEF BothIInv
<1> HIDE DEF f, g, same
<1> QED BY <1>1, <1>3, <1>4, <1>5, <1>6, AnswerKeeps

LEMMA BothAdvanceKeeps ==
  ASSUME BothIInv, NEW slice \in Slices, BothAdvance(slice)
  PROVE  BothIInv'
<1> DEFINE evs == Stamped(slice)
           N == Len(evs)
           R == Replayed(evs)
           r == R[N]
           b == Native!ApplyEventsBatchWithMarks(native, Rows(evs))
           same == FromRows(b.fills) = r.fills /\ b.marks = r.marks
           between == {R[i].engine : i \in 1..N}
           f == r.engine
<1>1. engine' = f /\ active' = active /\ placed' = placed
      /\ AnsweredAfter(b.e, same, between)
  <2>1. Advanced(evs, f, r.fills) /\ AnsweredAfter(b.e, same, between)
    BY DEF BothAdvance
  <2> HIDE DEF evs, r, b, same, between, f
  <2> QED BY <2>1 DEF Advanced
<1>2. evs \in Seq(RowEvents) /\ N \in Nat
  <2>1. evs \in Seq(RowEvents)
    BY StampedRows
  <2> HIDE DEF evs
  <2> QED BY <2>1
<1> HIDE DEF evs, b, r
<1>3. R = Run(engine, evs)
  BY DEF Replayed, Run
<1> HIDE DEF R
<1>4. /\ \A i \in 0..N : R[i] \in ReplayStates
      /\ r \in ReplayStates
  <2>1. \A i \in 0..N : R[i] \in ReplayStates
    BY <1>2, <1>3, InvFields, RunTurns
  <2>2. N \in 0..N
    BY <1>2
  <2> QED BY <2>1, <2>2 DEF r
<1>5. EngineInv(f) /\ r.fills \in Seq(ActiveFills)
  BY <1>4, FillsAreActive DEF ReplayStates
<1>6. ASSUME InLockstep, \A d \in between : Fits(d) PROVE same /\ Sound(f) /\ b.e = Image(f)
  <2> DEFINE e == engine
  <2>1. Sound(e) /\ native = Image(e) /\ R = Run(e, evs)
    BY <1>3, <1>6 DEF InLockstep
  <2>2. \A i \in 1..N : Fits(R[i].engine)
    BY <1>6
  <2> HIDE DEF e
  <2>3. R[N] \in SoundReplays
        /\ Native!ApplyEventsBatchWithMarks(Image(e), Rows(evs)) = BatchImage(R[N])
    BY <1>2, <2>1, <2>2, BatchFollowsLoop
  <2>4. b = BatchImage(r) /\ Sound(f)
    <3>1. b = Native!ApplyEventsBatchWithMarks(Image(e), Rows(evs))
      BY <2>1 DEF b
    <3> QED BY <2>3, <3>1 DEF r, SoundReplays
  <2>5. b.e = Image(f) /\ b.fills = Coded(r.fills) /\ b.marks = r.marks
    BY <2>4 DEF BatchImage
  <2>6. FromRows(b.fills) = r.fills
    BY <1>5, <2>5, CodedRows
  <2> QED BY <2>4, <2>5, <2>6
<1>7. active' \in Seq(ActiveFills) /\ DOMAIN placed' \subseteq Nat
  BY <1>1 DEF BothIInv
<1> HIDE DEF f, same, between
<1>8. InLockstep /\ Fits(f) /\ (\A d \in between : Fits(d)) => same /\ Sound(f) /\ b.e = Image(f)
  BY <1>6
<1> DEFINE g == b.e
<1> HIDE DEF g
<1>9. /\ AnsweredAfter(g, same, between)
      /\ InLockstep /\ Fits(f) /\ (\A d \in between : Fits(d)) => same /\ Sound(f) /\ g = Image(f)
  BY <1>1, <1>8 DEF g
<1> QED BY <1>1, <1>5, <1>7, <1>9, AnswerKeeps

LEMMA BothAdvanceUntilFillKeeps ==
  ASSUME BothIInv, NEW slice \in Slices, BothAdvanceUntilFill(slice)
  PROVE  BothIInv'
<1> DEFINE evs == Stamped(slice)
           R == Replayed(evs)
           r == UntilFill(engine, evs)
           b == Native!ApplyEventsUntilFill(native, Rows(evs))
           same == FromRows(b.fills) = r.fills /\ b.applied = r.consumed
           between == {R[i].engine : i \in 1..r.consumed}
           f == r.engine
<1>1. engine' = f /\ active' = active /\ placed' = placed
      /\ AnsweredAfter(b.e, same, between)
  <2>1. Advanced(evs, f, r.fills) /\ AnsweredAfter(b.e, same, between)
    BY DEF BothAdvanceUntilFill
  <2> HIDE DEF evs, r, b, same, between, f
  <2> QED BY <2>1 DEF Advanced
<1>2. evs \in Seq(RowEvents) /\ Len(evs) \in Nat
  <2>1. evs \in Seq(RowEvents)
    BY StampedRows
  <2> HIDE DEF evs
  <2> QED BY <2>1
<1> HIDE DEF evs, b
<1>3. R = Run(engine, evs)
  BY DEF Replayed, Run
<1> HIDE DEF R
<1>4. r \in UntilStates
  <2> DEFINE N == Len(evs)
             e == engine
  <2>1. N \in Nat /\ EngineInv(e)
    BY <1>2, InvFields
  <2> HIDE DEF e, N
  <2>2. PICK A \in [0..N -> UntilStates] :
            /\ A[0] = [engine |-> e, fills |-> <<>>, consumed |-> 0]
            /\ \A i \in 1..N : A[i] = UntilStep(A[i - 1], evs[i], i)
            /\ UntilFill(e, evs) = A[N]
    BY <1>2, <2>1, UntilTurns DEF N
  <2>3. N \in 0..N
    BY <2>1
  <2> QED BY <2>2, <2>3 DEF e
<1> HIDE DEF r
<1>5. EngineInv(f) /\ r.fills \in Seq(ActiveFills)
  BY <1>4, FillsAreActive DEF UntilStates
<1>6. ASSUME InLockstep, \A d \in between : Fits(d) PROVE same /\ Sound(f) /\ b.e = Image(f)
  <2> DEFINE e == engine
  <2>1. Sound(e) /\ native = Image(e) /\ R = Run(e, evs) /\ r = UntilFill(e, evs)
    BY <1>3, <1>6 DEF InLockstep, r
  <2>2. \A i \in 1..r.consumed : Fits(R[i].engine)
    BY <1>6
  <2> HIDE DEF e
  <2>3. Sound(r.engine) /\ Native!ApplyEventsUntilFill(Image(e), Rows(evs)) = UntilImage(r)
    BY <1>2, <2>1, <2>2, UntilFollowsLoop
  <2>4. b = UntilImage(r)
    BY <2>1, <2>3 DEF b
  <2>5. b.e = Image(f) /\ b.fills = Coded(r.fills) /\ b.applied = r.consumed
    BY <2>4 DEF UntilImage
  <2>6. FromRows(b.fills) = r.fills
    BY <1>5, <2>5, CodedRows
  <2> QED BY <2>3, <2>5, <2>6
<1>7. active' \in Seq(ActiveFills) /\ DOMAIN placed' \subseteq Nat
  BY <1>1 DEF BothIInv
<1> HIDE DEF f, same, between
<1>8. InLockstep /\ Fits(f) /\ (\A d \in between : Fits(d)) => same /\ Sound(f) /\ b.e = Image(f)
  BY <1>6
<1> DEFINE g == b.e
<1> HIDE DEF g
<1>9. /\ AnsweredAfter(g, same, between)
      /\ InLockstep /\ Fits(f) /\ (\A d \in between : Fits(d)) => same /\ Sound(f) /\ g = Image(f)
  BY <1>1, <1>8 DEF g
<1> QED BY <1>1, <1>5, <1>7, <1>9, AnswerKeeps

(* What a concatenation adds.                                              *)
LEMMA AddedBack ==
  ASSUME NEW T, NEW s \in Seq(T), NEW t \in Seq(T)
  PROVE  /\ s \o t \in Seq(T)
         /\ SubSeq(s \o t, Len(s) + 1, Len(s \o t)) = t
OBVIOUS

\* place_limit if there is a limit, place_market if there is none.
NativePlace(e, side, n, limit, tif) ==
  IF limit = NoLimit THEN Native!PlaceMarket(e, Char(side), n)
                     ELSE Native!PlaceLimit(e, Char(side), limit, n, tif)

LEMMA PlaceKeeps ==
  ASSUME BothIInv, NEW side \in OrderSides, NEW n \in Sizes, NEW tif \in Tifs,
         NEW limit, limit \in Prices \/ (limit = NoLimit /\ tif = "IOC"),
         PlaceOrder(side, n, limit, tif),
         BothPlace(NativePlace(native, side, n, limit, tif), engine.nextId, Returned)
  PROVE  BothIInv'
<1> DEFINE r == Place(engine, side, n, limit, tif)
           f == r.e
           id == engine.nextId
           a == NativePlace(native, side, n, limit, tif)
           order == IF Own(id) \in DOMAIN f.orders THEN id ELSE Native!NoOrder
           same == FromRows(a.fills) = r.fills /\ a.order = order
<1>1. /\ engine' = f /\ active' = active \o r.fills /\ placed' = Put(placed, r.id, n)
  BY DEF PlaceOrder
<1>2. /\ EngineInv(f) /\ r.fills \in Seq(ActiveFills) /\ r.id = id /\ id \in Nat
  <2>1. n \in Nat \ {0} /\ (tif = "GTC" => limit \in Prices)
    BY SizeAssumption DEF Sizes
  <2>2. EngineInv(engine) /\ id \in Nat
    BY InvFields
  <2> DEFINE e == engine
  <2> HIDE DEF e
  <2>3. EngineInv(e)
    BY <2>2 DEF e
  <2>4. /\ EngineInv(Place(e, side, n, limit, tif).e)
        /\ Place(e, side, n, limit, tif).fills \in Seq(ActiveFills)
        /\ Place(e, side, n, limit, tif).id = e.nextId
    BY <2>1, <2>3, PlaceFacts
  <2> QED BY <2>2, <2>4 DEF e
<1> HIDE DEF r, a
<1>3. active' \in Seq(ActiveFills) /\ Returned = r.fills
  <2> DEFINE s == active
             t == r.fills
  <2>1. s \in Seq(ActiveFills) /\ t \in Seq(ActiveFills)
    BY <1>2 DEF BothIInv
  <2> HIDE DEF s, t
  <2>2. /\ s \o t \in Seq(ActiveFills)
        /\ SubSeq(s \o t, Len(s) + 1, Len(s \o t)) = t
    BY <2>1, AddedBack
  <2> QED BY <1>1, <2>2 DEF Returned, s, t
<1>4. DOMAIN placed' \subseteq Nat
  BY <1>1, <1>2 DEF Put, BothIInv
<1>5. AnsweredAfter(a.e, same, {})
  <2>1. BothPlace(a, id, Returned)
    BY DEF a
  <2>2. BothPlace(a, id, r.fills)
    BY <1>3, <2>1
  <2>3. Answered(a.e, /\ FromRows(a.fills) = r.fills
                      /\ a.order = IF Own(id) \in DOMAIN engine'.orders THEN id
                                   ELSE Native!NoOrder)
    BY <2>2 DEF BothPlace
  <2> HIDE DEF id, f
  <2>4. Answered(a.e, same)
    BY <1>1, <2>3
  <2> HIDE DEF same
  <2> QED BY <2>4 DEF Answered
<1>6. ASSUME InLockstep, Fits(f) PROVE same /\ Sound(f) /\ a.e = Image(f)
  <2> DEFINE e == engine
             char == Char(side)
  <2>1. Sound(e) /\ native = Image(e) /\ id = e.nextId /\ r = Place(e, side, n, limit, tif)
        /\ Fits(r.e) /\ a = NativePlace(Image(e), side, n, limit, tif)
    BY <1>6 DEF InLockstep, r, a
  <2> HIDE DEF e, id
  <2>2. /\ Sound(r.e)
        /\ r.rests <=> Own(e.nextId) \in DOMAIN r.e.orders
        /\ limit \in Prices =>
              Native!PlaceLimit(Image(e), char, limit, n, tif)
                = Answer(Image(r.e), IF r.rests THEN e.nextId ELSE Native!NoOrder,
                         Coded(r.fills))
        /\ limit = NoLimit =>
              /\ ~r.rests
              /\ Native!PlaceMarket(Image(e), char, n)
                   = Answer(Image(r.e), Native!NoOrder, Coded(r.fills))
    BY <2>1, PlaceImage
  <2>3. limit \in Prices => limit # NoLimit
    BY PricesAssumption DEF NoLimit
  <2> HIDE DEF char
  <2>4. a = Answer(Image(f), order, Coded(r.fills))
    <3>1. CASE limit \in Prices
      <4>1. a = Native!PlaceLimit(Image(e), char, limit, n, tif)
        BY <2>1, <2>3, <3>1 DEF NativePlace, char
      <4> QED BY <2>1, <2>2, <3>1, <4>1
    <3>2. CASE limit = NoLimit
      <4>1. a = Native!PlaceMarket(Image(e), char, n)
        BY <2>1, <3>2 DEF NativePlace, char
      <4> QED BY <2>1, <2>2, <3>2, <4>1
    <3> QED BY <3>1, <3>2
  <2> HIDE DEF order, f
  <2>5. a.e = Image(f) /\ a.order = order /\ a.fills = Coded(r.fills)
    BY <2>4 DEF Answer
  <2>6. FromRows(a.fills) = r.fills
    BY <1>2, <2>5, CodedRows
  <2> QED BY <2>2, <2>5, <2>6 DEF f
<1> HIDE DEF same, f
<1> DEFINE g == a.e
<1> HIDE DEF g
<1>7. /\ AnsweredAfter(g, same, {})
      /\ InLockstep /\ Fits(f) => same /\ Sound(f) /\ g = Image(f)
  BY <1>5, <1>6 DEF g
<1> QED BY <1>1, <1>2, <1>3, <1>4, <1>7, AnswerKeeps

LEMMA BothPlaceKeeps ==
  ASSUME BothIInv, NEW side \in OrderSides, NEW n \in Sizes,
         \/ \E price \in Prices, tif \in Tifs : BothPlaceLimit(side, n, price, tif)
         \/ BothPlaceMarket(side, n)
  PROVE  BothIInv'
<1>1. ASSUME NEW price \in Prices, NEW tif \in Tifs, BothPlaceLimit(side, n, price, tif)
      PROVE  BothIInv'
  <2>1. price # NoLimit
    BY PricesAssumption DEF NoLimit
  <2>2. /\ PlaceOrder(side, n, price, tif)
        /\ BothPlace(Native!PlaceLimit(native, Char(side), price, n, tif), engine.nextId, Returned)
    BY <1>1 DEF BothPlaceLimit, PlaceLimit
  <2>3. Native!PlaceLimit(native, Char(side), price, n, tif)
          = NativePlace(native, side, n, price, tif)
    BY <2>1 DEF NativePlace
  <2> QED BY <2>2, <2>3, PlaceKeeps
<1>2. ASSUME BothPlaceMarket(side, n) PROVE BothIInv'
  <2>1. /\ PlaceOrder(side, n, NoLimit, "IOC")
        /\ BothPlace(Native!PlaceMarket(native, Char(side), n), engine.nextId, Returned)
    BY <1>2 DEF BothPlaceMarket, PlaceMarket
  <2>2. Native!PlaceMarket(native, Char(side), n) = NativePlace(native, side, n, NoLimit, "IOC")
    BY DEF NativePlace
  <2>3. "IOC" \in Tifs
    BY DEF Tifs
  <2> QED BY <2>1, <2>2, <2>3, PlaceKeeps
<1> QED BY <1>1, <1>2

LEMMA BothCancelKeeps ==
  ASSUME BothIInv, NEW id \in DOMAIN placed, BothCancel(id)
  PROVE  BothIInv'
<1> DEFINE f == CancelOwn(engine, id)
           g == Native!Cancel(native, id)
           same == id \in DOMAIN native.ownOrders <=> Own(id) \in DOMAIN engine.orders
<1>1. engine' = f /\ active' = active /\ placed' = placed /\ AnsweredAfter(g, same, {})
  <2>1. Cancel(id) /\ Answered(g, same)
    BY DEF BothCancel
  <2> HIDE DEF g, same
  <2> QED BY <2>1 DEF Cancel, Answered
<1>2. id \in Nat
  BY DEF BothIInv
<1>3. EngineInv(f)
  BY <1>2, InvFields, CancelOwnFacts
<1>4. ASSUME InLockstep PROVE same /\ Sound(f) /\ g = Image(f)
  BY <1>2, <1>4, CancelOwnImage DEF InLockstep
<1>5. active' \in Seq(ActiveFills) /\ DOMAIN placed' \subseteq Nat
  BY <1>1 DEF BothIInv
<1> HIDE DEF f, g, same
<1> QED BY <1>1, <1>3, <1>4, <1>5, AnswerKeeps

LEMMA BothTickKeeps ==
  ASSUME BothIInv, NEW ts \in 0..MaxNow, BothTick(ts)
  PROVE  BothIInv'
<1> DEFINE f == AdvanceTime(engine, ts)
           g == Native!AdvanceTime(native, ts)
<1>1. engine' = f /\ active' = active /\ placed' = placed /\ AnsweredAfter(g, TRUE, {})
  <2>1. Tick(ts) /\ Answered(g, TRUE)
    BY DEF BothTick
  <2> HIDE DEF g
  <2> QED BY <2>1 DEF Tick, Answered
<1>2. ts \in Nat
  BY BoundAssumption
<1>3. EngineInv(f)
  BY <1>2, InvFields, AdvanceTimeFacts
<1>4. ASSUME InLockstep PROVE Sound(f) /\ g = Image(f)
  BY <1>2, <1>4, AdvanceTimeImage DEF InLockstep
<1>5. active' \in Seq(ActiveFills) /\ DOMAIN placed' \subseteq Nat
  BY <1>1 DEF BothIInv
<1> HIDE DEF f, g
<1> QED BY <1>1, <1>3, <1>4, <1>5, AnswerKeeps

LEMMA BothInitIInv ==
  BothInit => BothIInv
<1> SUFFICES ASSUME BothInit PROVE BothIInv
  OBVIOUS
<1>1. /\ engine = EmptyEngine /\ active = <<>> /\ DOMAIN placed = {}
      /\ native = Native!New /\ agree = TRUE
  BY DEF BothInit, Init
<1> QED BY <1>1, EmptyImage, EmptyEngineFacts DEF BothIInv, InLockstep

LEMMA BothNextIInv ==
  BothIInv /\ [BothNext]_lockstepVars => BothIInv'
<1> SUFFICES ASSUME BothIInv, [BothNext]_lockstepVars PROVE BothIInv'
  OBVIOUS
<1>1. ASSUME NEW ev \in Events, BothApplyEvent(ev) PROVE BothIInv'
  BY <1>1, BothApplyEventKeeps
<1>2. ASSUME NEW slice \in Slices, BothAdvance(slice) PROVE BothIInv'
  BY <1>2, BothAdvanceKeeps
<1>3. ASSUME NEW slice \in Slices, BothAdvanceUntilFill(slice) PROVE BothIInv'
  BY <1>3, BothAdvanceUntilFillKeeps
<1>4. ASSUME NEW side \in OrderSides, NEW n \in Sizes,
             \/ \E price \in Prices, tif \in Tifs : BothPlaceLimit(side, n, price, tif)
             \/ BothPlaceMarket(side, n)
      PROVE  BothIInv'
  BY <1>4, BothPlaceKeeps
<1>5. ASSUME NEW id \in DOMAIN placed, BothCancel(id) PROVE BothIInv'
  BY <1>5, BothCancelKeeps
<1>6. ASSUME NEW ts \in 0..MaxNow, BothTick(ts) PROVE BothIInv'
  BY <1>6, BothTickKeeps
<1>7. CASE UNCHANGED lockstepVars
  BY <1>7 DEF lockstepVars, vars, BothIInv, InLockstep
<1> QED BY <1>1, <1>2, <1>3, <1>4, <1>5, <1>6, <1>7 DEF BothNext

(* What EnginesAgree says follows from the image.                          *)
LEMMA ImageAgrees ==
  BothIInv => EnginesAgree
<1> SUFFICES ASSUME BothIInv, fits
             PROVE  /\ agree
                    /\ native.bids = ReferenceDepth("bid")
                    /\ native.asks = ReferenceDepth("ask")
                    /\ native.position = engine.position
                    /\ SameRows(Native!OwnOrderRows(native), ReferenceRows)
  BY DEF EnginesAgree
<1>1. agree /\ Sound(engine) /\ native = Image(engine)
  BY DEF BothIInv, InLockstep
<1>2. /\ native.bids = Depth(engine.book, "bid") /\ native.asks = Depth(engine.book, "ask")
      /\ native.position = engine.position
  BY <1>1 DEF Image, Img
<1>3. /\ Depth(engine.book, "bid") = ReferenceDepth("bid")
      /\ Depth(engine.book, "ask") = ReferenceDepth("ask")
  BY DEF Depth, ReferenceDepth
<1>4. /\ Native!OwnOrderRows(native) = WrappedRows(engine)
      /\ SameRows(WrappedRows(engine), Unwrapped(engine))
  <2> DEFINE e == engine
  <2>1. Sound(e) /\ native = Image(e)
    BY <1>1
  <2> HIDE DEF e
  <2> QED BY <2>1, RowsImage, WrappedRowsAreSame DEF e
<1>5. Unwrapped(engine) = ReferenceRows
  BY DEF Unwrapped, ReferenceRows
<1> QED BY <1>1, <1>2, <1>3, <1>4, <1>5

(* Through every sequence of calls to both engines the reference engine is *)
(* well-formed and, as long as sizes fit, the C++ engine is its image and  *)
(* has answered like it.                                                   *)
THEOREM LockstepInvariant == BothSpec => []BothIInv
<1>1. BothInit => BothIInv
  BY BothInitIInv
<1>2. BothIInv /\ [BothNext]_lockstepVars => BothIInv'
  BY BothNextIInv
<1> QED BY <1>1, <1>2, PTL DEF BothSpec

(* As long as every level the engines go through is a C++ size, every call *)
(* to both, batches included, returns the same, and depth, position and    *)
(* own orders read the same in both; so does the size ahead of each order  *)
(* that is a C++ size itself, which a level in range does not ensure.      *)
THEOREM EnginesAlwaysAgree == BothSpec => []EnginesAgree
<1>1. BothIInv => EnginesAgree
  BY ImageAgrees
<1> QED BY <1>1, LockstepInvariant, PTL

===============================================================================
