------------------------- MODULE ReplayGatewayProofs -------------------------
(***************************************************************************)
(* A replay run never looks ahead, for every feed, strategy, latency and    *)
(* bound; its fills, its log and its valuation marks are in time order, no  *)
(* fill precedes the arrival of its order, the last mark values the book    *)
(* the strategy sees, and the equity curve is the account marked to market. *)
(* The inductive invariant is IInv: every call leaves applied exactly the   *)
(* events up to its time, so that what an advance adds is never older than  *)
(* what it is added to.                                                     *)
(***************************************************************************)
EXTENDS ReplayGateway, EngineOpsProofs

(***************************************************************************)
(* The stream of a run: sorted(events, key=...).                           *)
(***************************************************************************)

(* Places of d, by time and then by place, are in a total order.           *)
LEMMA PrecedesFacts ==
  ASSUME NEW T, \A x \in T : x.ts \in Nat, NEW d \in Seq(T)
  PROVE  /\ \A i \in 1..Len(d) : Precedes(d, i, i)
         /\ \A i, j \in 1..Len(d) : Precedes(d, i, j) \/ Precedes(d, j, i)
         /\ \A i, j \in 1..Len(d) : Precedes(d, i, j) /\ Precedes(d, j, i) => i = j
         /\ \A i, j, k \in 1..Len(d) :
               Precedes(d, i, j) /\ Precedes(d, j, k) => Precedes(d, i, k)
<1>1. \A i \in 1..Len(d) : d[i].ts \in Nat
  OBVIOUS
<1> QED BY <1>1 DEF Precedes

(* The sorted sequence takes every place of d once, in that order: it is a  *)
(* stable sort by time.                                                    *)
LEMMA SortedByTimeSorts ==
  ASSUME NEW T, \A x \in T : x.ts \in Nat, NEW d \in Seq(T)
  PROVE  \E p \in Bijection(1..Len(d), 1..Len(d)) :
            /\ SortedByTime(d) = [k \in 1..Len(d) |-> d[p[k]]]
            /\ \A k, l \in 1..Len(d) : k <= l => Precedes(d, p[k], p[l])
<1> DEFINE D == 1..Len(d)
           before(i) == {j \in D : Precedes(d, j, i)}
           rank == [i \in D |-> Cardinality(before(i))]
           p == [k \in D |-> CHOOSE i \in D : rank[i] = k]
<1>1. Len(d) \in Nat /\ DOMAIN d = D /\ D \subseteq Nat
  OBVIOUS
<1>2. IsFiniteSet(D) /\ Cardinality(D) = Len(d)
  <2>1. Cardinality(1..Len(d)) = IF 1 > Len(d) THEN 0 ELSE Len(d) - 1 + 1
    BY <1>1, FS_Interval
  <2>2. IsFiniteSet(D)
    BY <1>1, FS_Interval
  <2> QED BY <1>1, <2>1, <2>2
<1>3. /\ \A i \in D : Precedes(d, i, i)
      /\ \A i, j \in D : Precedes(d, i, j) \/ Precedes(d, j, i)
      /\ \A i, j \in D : Precedes(d, i, j) /\ Precedes(d, j, i) => i = j
      /\ \A i, j, k \in D : Precedes(d, i, j) /\ Precedes(d, j, k) => Precedes(d, i, k)
  BY PrecedesFacts
<1>4. \A i \in D : rank[i] = Cardinality(before(i)) /\ before(i) \in SUBSET D
  OBVIOUS
<1>5. SortedByTime(d) = [k \in D |-> d[p[k]]]
  BY <1>1 DEF SortedByTime
<1> HIDE DEF D, rank
<1>6. ASSUME NEW i \in D PROVE IsFiniteSet(before(i)) /\ rank[i] \in D
  <2>1. /\ IsFiniteSet(before(i)) /\ Cardinality(before(i)) <= Len(d)
    BY <1>2, <1>4, FS_Subset
  <2>2. Cardinality(before(i)) \in Nat /\ i \in before(i)
    BY <1>3, <2>1, FS_CardinalityType
  <2>3. Cardinality(before(i)) # 0
    BY <2>1, <2>2, FS_EmptySet
  <2> HIDE DEF before
  <2> QED BY <1>1, <1>4, <2>1, <2>2, <2>3 DEF D
<1>7. ASSUME NEW i \in D, NEW j \in D, i # j, Precedes(d, i, j)
      PROVE  rank[i] < rank[j]
  <2>1. before(i) \in SUBSET before(j) /\ j \in before(j) /\ j \notin before(i)
    BY <1>3, <1>7
  <2>2. IsFiniteSet(before(j)) /\ rank[i] = Cardinality(before(i)) /\ rank[j] = Cardinality(before(j))
    BY <1>4, <1>6
  <2>3. Cardinality(before(i)) <= Cardinality(before(j)) /\ Cardinality(before(j)) # Cardinality(before(i))
    <3> HIDE DEF before
    <3> QED BY <2>1, <2>2, FS_Subset
  <2>4. rank[i] \in Nat /\ rank[j] \in Nat
    <3> HIDE DEF before
    <3> QED BY <1>1, <1>6
  <2> QED BY <2>2, <2>3, <2>4
<1>8. \A i, j \in D : rank[i] = rank[j] => i = j
  <2>1. \A i \in D : rank[i] \in Nat
    <3> HIDE DEF before
    <3> QED BY <1>1, <1>6
  <2> QED BY <1>3, <1>7, <2>1
<1>9. rank \in Surjection(D, D)
  <2>1. rank \in Injection(D, D)
    <3>1. rank \in [D -> D]
      BY <1>6 DEF rank
    <3> QED BY <1>8, <3>1 DEF Injection, IsInjective
  <2> QED BY <1>2, <2>1, FS_Injection
<1>10. \A k \in D : p[k] \in D /\ rank[p[k]] = k
  <2>1. \A k \in D : \E i \in D : rank[i] = k
    BY <1>9 DEF Surjection
  <2> QED BY <2>1
<1>11. p \in Bijection(D, D)
  <2>1. p \in [D -> D] /\ \A k, l \in D : p[k] = p[l] => k = l
    BY <1>10
  <2>2. \A i \in D : p[rank[i]] = i
    BY <1>6, <1>8, <1>10
  <2> HIDE DEF p
  <2>3. \A i \in D : \E k \in D : p[k] = i
    BY <1>6, <2>2
  <2> QED BY <2>1, <2>3 DEF Bijection, Injection, Surjection, IsInjective
<1>12. ASSUME NEW k \in D, NEW l \in D, k <= l
       PROVE  Precedes(d, p[k], p[l])
  <2>1. p[k] \in D /\ p[l] \in D /\ rank[p[k]] = k /\ rank[p[l]] = l /\ k \in Nat /\ l \in Nat
    BY <1>1, <1>10 DEF D
  <2> HIDE DEF p
  <2>2. ~Precedes(d, p[k], p[l]) => p[k] # p[l] /\ Precedes(d, p[l], p[k])
    BY <1>3, <2>1
  <2>3. p[k] # p[l] /\ Precedes(d, p[l], p[k]) => rank[p[l]] < rank[p[k]]
    BY <1>7, <2>1
  <2> QED BY <1>12, <2>1, <2>2, <2>3
<1> HIDE DEF p
<1> QED BY <1>5, <1>11, <1>12 DEF D

(* The stream of a run is a feed in time order.                            *)
LEMMA StreamFacts ==
  ASSUME NEW d \in Seq(MBOEvents)
  PROVE  SortedByTime(d) \in Seq(MBOEvents) /\ InTimeOrder(SortedByTime(d))
<1> DEFINE s == SortedByTime(d)
<1>1. \A x \in MBOEvents : x.ts \in Nat
  BY DEF MBOEvents
<1>2. PICK p \in Bijection(1..Len(d), 1..Len(d)) :
         /\ s = [k \in 1..Len(d) |-> d[p[k]]]
         /\ \A k, l \in 1..Len(d) : k <= l => Precedes(d, p[k], p[l])
  BY <1>1, SortedByTimeSorts
<1> HIDE DEF s
<1>3. p \in [1..Len(d) -> 1..Len(d)]
  BY DEF Bijection, Injection
<1>4. s \in Seq(MBOEvents) /\ Len(s) = Len(d)
  BY <1>2, <1>3
<1>5. \A k \in 1..Len(d) : s[k] = d[p[k]] /\ d[p[k]].ts \in Nat /\ p[k] \in 1..Len(d)
  BY <1>1, <1>2, <1>3
<1>6. InTimeOrder(s)
  BY <1>2, <1>4, <1>5 DEF InTimeOrder, Precedes
<1> QED BY <1>4, <1>6 DEF s

(* bisect_right on a stream in time order finds the place between the events *)
(* at or before ts and those after it.                                     *)
LEMMA BisectRightFacts ==
  ASSUME NEW evs \in Seq(MBOEvents), InTimeOrder(evs),
         NEW c \in 0..Len(evs), NEW ts \in Nat
  PROVE  /\ BisectRight(evs, ts, c) \in c..Len(evs)
         /\ \A i \in (c + 1)..BisectRight(evs, ts, c) : evs[i].ts <= ts
         /\ \A i \in (BisectRight(evs, ts, c) + 1)..Len(evs) : evs[i].ts > ts
<1> DEFINE n == Len(evs)
           Parts(k) == /\ \A i \in (c + 1)..k : evs[i].ts <= ts
                       /\ \A i \in (k + 1)..n : evs[i].ts > ts
           late == {j \in (c + 1)..n : evs[j].ts > ts}
<1>1. n \in Nat /\ c \in Nat /\ c <= n /\ \A i \in 1..n : evs[i].ts \in Nat
  <2>1. n \in Nat /\ \A i \in 1..n : evs[i] \in MBOEvents
    OBVIOUS
  <2>2. c \in Nat /\ c <= n
    BY <2>1
  <2> QED BY <2>1, <2>2 DEF MBOEvents
<1>2. \E k \in c..n : Parts(k)
  <2>1. CASE late = {}
    <3>1. n \in c..n /\ Parts(n)
      BY <1>1, <2>1
    <3> QED BY <3>1
  <2>2. CASE late # {}
    <3>1. late \subseteq Nat
      BY <1>1
    <3>2. PICK x \in late : \A y \in late : ~(<<y, x>> \in OpToRel(<, Nat))
      <4> HIDE DEF late
      <4> QED BY <2>2, <3>1, NatLessThanWellFounded, WFMin
    <3>3. \A y \in late : ~(y < x)
      BY <3>1, <3>2 DEF OpToRel
    <3>4. x - 1 \in c..n /\ x \in 1..n
      BY <1>1
    <3>5. ASSUME NEW i \in (c + 1)..(x - 1) PROVE evs[i].ts <= ts
      <4>1. i \in 1..n /\ i < x /\ i \in (c + 1)..n
        BY <1>1, <3>4
      <4>2. i \notin late
        BY <3>3, <4>1
      <4> QED BY <1>1, <4>1, <4>2
    <3>6. ASSUME NEW i \in ((x - 1) + 1)..n PROVE evs[i].ts > ts
      <4>1. i \in 1..n /\ x <= i /\ evs[x].ts > ts
        BY <1>1, <3>4
      <4>2. evs[x].ts <= evs[i].ts /\ evs[x].ts \in Nat /\ evs[i].ts \in Nat
        BY <1>1, <3>4, <4>1 DEF InTimeOrder
      <4> QED BY <4>1, <4>2
    <3>7. Parts(x - 1)
      BY <3>5, <3>6
    <3> HIDE DEF Parts
    <3> QED BY <3>4, <3>7
  <2> QED BY <2>1, <2>2
<1>3. BisectRight(evs, ts, c) = CHOOSE k \in c..n : Parts(k)
  BY DEF BisectRight
<1> DEFINE stop == CHOOSE k \in c..n : Parts(k)
<1>4. stop \in c..n /\ Parts(stop)
  <2> HIDE DEF Parts
  <2> QED BY <1>2
<1> HIDE DEF stop
<1> QED BY <1>3, <1>4 DEF stop

(***************************************************************************)
(* The gateway.                                                            *)
(***************************************************************************)

\* Nothing that is due is left in the stream.
Caught(g, evs) == \A i \in (g.cursor + 1)..Len(evs) : evs[i].ts > g.now

GatewayInv(g, evs) ==
  /\ g = [engine |-> g.engine, cursor |-> g.cursor, now |-> g.now,
          fills |-> g.fills, marks |-> g.marks]
  /\ EngineInv(g.engine) /\ g.engine.now = g.now
  /\ g.cursor \in 0..Len(evs) /\ g.now \in Nat
  /\ g.fills \in Seq(ActiveFills) /\ InTime(g.fills, 0, g.now)
  /\ g.marks \in Seq(Marks) /\ InTime(g.marks, 0, g.now)
  /\ Valued(g.engine, g.marks)
  /\ \A i \in 1..g.cursor : evs[i].ts <= g.now
  /\ \A i \in (g.cursor + 1)..Len(evs) : g.now <= evs[i].ts

LEMMA TimesFacts ==
  /\ \A x \in Fills : x.ts \in Nat /\ x \in ActiveFills
  /\ \A x \in ActiveFills : x.ts \in Nat
  /\ \A x \in Marks : x.ts \in Nat
  BY DEF Fills, ActiveFills, Marks

(* advance_to applies exactly the events up to ts; the fills it returns are *)
(* from the time since the gateway's, and are of orders already placed.     *)
LEMMA AdvanceFacts ==
  ASSUME NEW evs \in Seq(MBOEvents), InTimeOrder(evs), NEW g, GatewayInv(g, evs),
         NEW ts \in Nat, g.now <= ts
  PROVE  LET a == Advance(g, evs, ts)
         IN  /\ GatewayInv(a.gw, evs) /\ Caught(a.gw, evs)
             /\ a.gw.now = ts /\ a.gw.engine.nextId = g.engine.nextId
             /\ a.gw.fills = g.fills \o a.fills
             /\ a.fills \in Seq(Fills) /\ InTime(a.fills, g.now, ts)
             /\ GivenOut(a.fills, g.engine.nextId)
<1> DEFINE a == Advance(g, evs, ts)
           stop == BisectRight(evs, ts, g.cursor)
           r0 == [engine |-> g.engine, fills |-> <<>>, marks |-> g.marks]
           r == ReplayLoop(r0, evs, g.cursor)[stop - g.cursor]
           next == g.engine.nextId
           lo == g.now
<1>1. /\ EngineInv(g.engine) /\ lo \in Nat /\ g.cursor \in 0..Len(evs)
      /\ g.fills \in Seq(ActiveFills) /\ InTime(g.fills, 0, lo)
      /\ g.marks \in Seq(Marks) /\ InTime(g.marks, 0, lo) /\ Valued(g.engine, g.marks)
      /\ \A i \in 1..g.cursor : evs[i].ts <= lo
      /\ \A i \in (g.cursor + 1)..Len(evs) : lo <= evs[i].ts
      /\ lo <= ts
  BY DEF GatewayInv
<1>2. next \in Nat /\ g.engine \in Engines
  BY <1>1, EngineFields, EnginesFacts DEF EngineInv
<1>3. /\ stop \in g.cursor..Len(evs)
      /\ \A i \in (g.cursor + 1)..stop : evs[i].ts <= ts
      /\ \A i \in (stop + 1)..Len(evs) : evs[i].ts > ts
  BY <1>1, BisectRightFacts
<1>4. /\ a.gw = [engine |-> AdvanceTime(r.engine, ts), cursor |-> stop, now |-> ts,
                 fills |-> g.fills \o r.fills, marks |-> r.marks]
      /\ a.fills = r.fills
  BY DEF Advance
<1>5. Progress(r0, next, lo, lo)
  <2>1. r0 \in ReplayStates /\ r0.engine = g.engine /\ r0.fills = <<>> /\ r0.marks = g.marks
    BY <1>1, <1>2 DEF ReplayStates
  <2>2. InTime(<<>>, lo, lo) /\ GivenOut(<<>>, next)
    BY DEF InTime, GivenOut
  <2> HIDE DEF r0
  <2> QED BY <1>1, <2>1, <2>2 DEF Progress
<1> HIDE DEF r0, stop
<1>6. /\ stop - g.cursor \in 0..(Len(evs) - g.cursor)
      /\ g.cursor + (stop - g.cursor) = stop
      /\ g.cursor \in Nat /\ stop \in Nat /\ Len(evs) \in Nat
  <2>1. Len(evs) \in Nat
    OBVIOUS
  <2> HIDE DEF a, r
  <2> QED BY <1>1, <1>3, <2>1
<1>7. Progress(r, next, lo, ts)
  <2> HIDE DEF lo, next, a
  <2> QED BY <1>1, <1>2, <1>3, <1>5, <1>6, ReplayLoopFacts
<1> HIDE DEF r, a, next, lo
<1>8. /\ EngineInv(r.engine) /\ r.engine.nextId = next
      /\ r.fills \in Seq(Fills) /\ InTime(r.fills, lo, ts) /\ GivenOut(r.fills, next)
      /\ r.marks \in Seq(Marks) /\ InTime(r.marks, 0, ts) /\ Valued(r.engine, r.marks)
  BY <1>7 DEF Progress, ReplayStates
<1>9. /\ a.gw.engine = AdvanceTime(r.engine, ts) /\ a.gw.cursor = stop /\ a.gw.now = ts
      /\ a.gw.fills = g.fills \o r.fills /\ a.gw.marks = r.marks
      /\ a.gw = [engine |-> a.gw.engine, cursor |-> a.gw.cursor, now |-> a.gw.now,
                 fills |-> a.gw.fills, marks |-> a.gw.marks]
  <2> DEFINE e == AdvanceTime(r.engine, ts)
             fs == g.fills \o r.fills
             h == a.gw
  <2>1. h = [engine |-> e, cursor |-> stop, now |-> ts, fills |-> fs, marks |-> r.marks]
    BY <1>4
  <2> HIDE DEF e, fs, h
  <2>2. /\ h.engine = e /\ h.cursor = stop /\ h.now = ts /\ h.fills = fs /\ h.marks = r.marks
        /\ h = [engine |-> h.engine, cursor |-> h.cursor, now |-> h.now,
                fills |-> h.fills, marks |-> h.marks]
    BY <2>1
  <2> QED BY <2>2 DEF e, fs, h
<1>10. /\ EngineInv(a.gw.engine) /\ a.gw.engine.nextId = next /\ a.gw.engine.now = ts
       /\ a.gw.engine.book = r.engine.book
  <2> DEFINE e == r.engine
             f == AdvanceTime(e, ts)
  <2>1. EngineInv(e) /\ e.nextId = next /\ a.gw.engine = f
    BY <1>8, <1>9
  <2> HIDE DEF e
  <2>2. EngineInv(f) /\ f.nextId = e.nextId /\ f.now = ts /\ f.book = e.book
    BY <2>1, AdvanceTimeFacts
  <2> HIDE DEF f
  <2> QED BY <2>1, <2>2 DEF e
<1>11. Valued(a.gw.engine, r.marks)
  BY <1>8, <1>10 DEF Valued, TwoSided, DoubleMid, Quoted
<1>12. r.fills \in Seq(ActiveFills)
  <2>1. Fills \subseteq ActiveFills
    BY TimesFacts
  <2> QED BY <1>8, <2>1
<1>13. g.fills \o r.fills \in Seq(ActiveFills) /\ InTime(g.fills \o r.fills, 0, ts)
  <2>1. g.fills \o r.fills \in Seq(ActiveFills)
    BY <1>1, <1>12
  <2>2. 0 \in Nat /\ 0 <= lo
    BY <1>1
  <2>3. InTime(g.fills \o r.fills, 0, ts)
    BY <1>1, <1>8, <1>12, <2>2, TimesFacts, InTimeConcat
  <2> QED BY <2>1, <2>3
<1>14. \A i \in 1..stop : evs[i].ts <= ts
  <2>1. SUFFICES ASSUME NEW i \in 1..stop PROVE evs[i].ts <= ts
    OBVIOUS
  <2>2. CASE i \in 1..g.cursor
    <3>1. evs[i].ts <= lo /\ i \in 1..Len(evs)
      BY <1>1, <1>3, <1>6, <2>2
    <3>2. evs[i] \in MBOEvents
      BY <3>1
    <3>3. evs[i].ts \in Nat
      BY <3>2 DEF MBOEvents
    <3> QED BY <1>1, <3>1, <3>3
  <2>3. CASE i \notin 1..g.cursor
    BY <1>3, <1>6, <2>3
  <2> QED BY <2>2, <2>3
<1>15. \A i \in (stop + 1)..Len(evs) : ts <= evs[i].ts
  <2>1. SUFFICES ASSUME NEW i \in (stop + 1)..Len(evs) PROVE ts <= evs[i].ts
    OBVIOUS
  <2>2. evs[i] \in MBOEvents
    BY <1>6
  <2>3. evs[i].ts \in Nat /\ evs[i].ts > ts
    BY <1>3, <2>2 DEF MBOEvents
  <2> QED BY <2>3
<1>16. stop \in 0..Len(evs)
  BY <1>3, <1>6
<1>17. GatewayInv(a.gw, evs)
  BY <1>8, <1>9, <1>10, <1>11, <1>13, <1>14, <1>15, <1>16 DEF GatewayInv
<1>18. Caught(a.gw, evs)
  BY <1>3, <1>9 DEF Caught
<1> QED BY <1>4, <1>8, <1>9, <1>10, <1>17, <1>18 DEF a, next, lo

(* What an advance adds to the fills tells what own orders lost and what    *)
(* the position gained.  No event is due a second time.                    *)
LEMMA AdvanceSettles ==
  ASSUME NEW evs \in Seq(MBOEvents), InTimeOrder(evs), NEW g, GatewayInv(g, evs),
         NEW ts \in Nat, g.now <= ts, NEW a, a = Advance(g, evs, ts)
  PROVE  /\ a.gw.engine.position - Net(a.fills) = g.engine.position
         /\ \A j \in Nat : SizeOf(a.gw.engine, Own(j)) + FilledOf(j, a.fills)
                              = SizeOf(g.engine, Own(j))
         /\ \A x \in DOMAIN a.gw.engine.orders : IsOwn(x) => x \in DOMAIN g.engine.orders
         /\ Caught(g, evs) /\ ts = g.now => a.fills = <<>>
<1> DEFINE stop == BisectRight(evs, ts, g.cursor)
           none == <<>>
           r0 == [engine |-> g.engine, fills |-> none, marks |-> g.marks]
           r == ReplayLoop(r0, evs, g.cursor)[stop - g.cursor]
<1>1. /\ EngineInv(g.engine) /\ g.engine \in Engines /\ g.cursor \in 0..Len(evs)
      /\ g.marks \in Seq(Marks) /\ Len(evs) \in Nat
      /\ g.engine.position \in Int /\ g.engine.orders \in [DOMAIN g.engine.orders -> Orders]
  BY EngineFields, EnginesFacts DEF GatewayInv, EngineInv
<1>2. /\ stop \in g.cursor..Len(evs)
      /\ \A i \in (g.cursor + 1)..stop : evs[i].ts <= ts
  BY <1>1, BisectRightFacts
<1>3. /\ a.gw.engine = AdvanceTime(r.engine, ts) /\ a.fills = r.fills
  <2> DEFINE e == AdvanceTime(r.engine, ts)
             fs == g.fills \o r.fills
             ms == r.marks
             rf == r.fills
  <2>1. a = [gw |-> [engine |-> e, cursor |-> stop, now |-> ts, fills |-> fs, marks |-> ms],
             fills |-> rf]
    BY DEF Advance
  <2> HIDE DEF e, fs, ms, rf, stop
  <2>2. a.gw.engine = e /\ a.fills = rf
    BY <2>1
  <2> QED BY <2>2 DEF e, rf
<1>4. none \in Seq(Fills) /\ Net(none) = 0 /\ \A j \in Nat : FilledOf(j, none) = 0
  <2>1. none \in Seq(Fills) /\ none \in Seq(ActiveFills) /\ \A j : \A i \in 1..Len(none) : none[i].id # j
    OBVIOUS
  <2>2. Net(none) = 0
    BY <2>1, NetFacts
  <2> HIDE DEF none
  <2> QED BY <2>1, <2>2, FilledFacts
<1> HIDE DEF none
<1>5. /\ r0 \in ReplayStates /\ r0.engine = g.engine /\ r0.fills = none
  BY <1>1, <1>4 DEF ReplayStates
<1>6. stop - g.cursor \in 0..(Len(evs) - g.cursor) /\ stop \in Nat /\ g.cursor \in Nat
  <2> HIDE DEF stop
  <2> QED BY <1>1, <1>2
<1> HIDE DEF r0, stop
<1>7. r \in ReplayStates /\ Settles(r0, r)
  BY <1>1, <1>5, <1>6, ReplayLoopSettles
<1>8. Caught(g, evs) /\ ts = g.now => r = r0
  <2>1. SUFFICES ASSUME Caught(g, evs), ts = g.now PROVE stop = g.cursor
    <3>1. ReplayLoop(r0, evs, g.cursor)[0] = r0
      BY <1>1, <1>5, ReplayLoopTurns
    <3>2. stop = g.cursor => stop - g.cursor = 0
      BY <1>6
    <3> QED BY <2>1, <3>1, <3>2
  <2>2. CASE stop # g.cursor
    <3>1. g.cursor + 1 \in (g.cursor + 1)..stop /\ g.cursor + 1 \in (g.cursor + 1)..Len(evs)
          /\ g.cursor + 1 \in 1..Len(evs)
      BY <1>1, <1>2, <1>6, <2>2
    <3>2. evs[g.cursor + 1].ts <= ts /\ evs[g.cursor + 1].ts > ts
      BY <1>2, <2>1, <3>1 DEF Caught
    <3>3. evs[g.cursor + 1] \in MBOEvents
      BY <3>1
    <3>4. evs[g.cursor + 1].ts \in Nat
      BY <3>3 DEF MBOEvents
    <3> QED BY <3>2, <3>4
  <2> QED BY <2>2
<1> HIDE DEF r
<1>9. /\ a.gw.engine.position = r.engine.position /\ a.gw.engine.orders = r.engine.orders
      /\ Net(r.fills) \in Int /\ r.engine.position \in Int
      /\ \A j \in Nat : /\ FilledOf(j, r.fills) \in Nat
                        /\ SizeOf(r.engine, Own(j)) \in Nat
                        /\ SizeOf(g.engine, Own(j)) \in Nat
  <2>1. EngineInv(r.engine) /\ r.fills \in Seq(ActiveFills)
    BY <1>7, FillsAreActive DEF ReplayStates
  <2>2. /\ DOMAIN r.engine = Fields /\ r.engine.position \in Int
        /\ r.engine.orders \in [DOMAIN r.engine.orders -> Orders]
    BY <2>1, EngineFields DEF EngineInv
  <2>3. Net(r.fills) \in Int /\ \A j \in Nat : FilledOf(j, r.fills) \in Nat
    BY <2>1, NetFacts, FilledFacts
  <2>4. \A j \in Nat : SizeOf(r.engine, Own(j)) \in Nat /\ SizeOf(g.engine, Own(j)) \in Nat
    BY <1>1, <2>2 DEF SizeOf, Orders
  <2> QED BY <1>3, <2>2, <2>3, <2>4 DEF AdvanceTime, Fields
<1>10. a.gw.engine.position - Net(a.fills) = g.engine.position
  <2>1. r.engine.position - Net(r.fills) = g.engine.position - 0
    BY <1>4, <1>5, <1>7 DEF Settles
  <2>2. a.gw.engine.position - Net(a.fills) = r.engine.position - Net(r.fills)
    BY <1>3, <1>9
  <2>3. g.engine.position - 0 = g.engine.position
    BY <1>1
  <2> QED BY <2>1, <2>2, <2>3
<1>11. ASSUME NEW j \in Nat
       PROVE  SizeOf(a.gw.engine, Own(j)) + FilledOf(j, a.fills) = SizeOf(g.engine, Own(j))
  <2>1. SizeOf(a.gw.engine, Own(j)) = SizeOf(r.engine, Own(j))
    BY <1>9 DEF SizeOf
  <2>2. SizeOf(r.engine, Own(j)) + FilledOf(j, r.fills) = SizeOf(g.engine, Own(j)) + 0
    BY <1>4, <1>5, <1>7 DEF Settles
  <2> QED BY <1>3, <1>9, <2>1, <2>2
<1>12. \A x \in DOMAIN a.gw.engine.orders : IsOwn(x) => x \in DOMAIN g.engine.orders
  BY <1>5, <1>7, <1>9 DEF Settles
<1>13. Caught(g, evs) /\ ts = g.now => a.fills = <<>>
  BY <1>3, <1>5, <1>8 DEF none
<1> QED BY <1>10, <1>11, <1>12, <1>13

(* A strategy call at the gateway's time: its fills are the newest and the   *)
(* mark it records values the book it leaves.                              *)
LEMMA ExecutedFacts ==
  ASSUME NEW evs \in Seq(MBOEvents), NEW g, GatewayInv(g, evs), Caught(g, evs),
         NEW e, EngineInv(e), e.now = g.now,
         NEW fills \in Seq(ActiveFills), InTime(fills, g.now, g.now)
  PROVE  /\ GatewayInv(Executed(g, e, fills), evs) /\ Caught(Executed(g, e, fills), evs)
         /\ Executed(g, e, fills).now = g.now /\ Executed(g, e, fills).engine = e
         /\ Executed(g, e, fills).fills = g.fills \o fills
<1> DEFINE h == Executed(g, e, fills)
           marks == Marked(g.marks, e, g.now)
<1>0. g = [engine |-> g.engine, cursor |-> g.cursor, now |-> g.now,
           fills |-> g.fills, marks |-> g.marks]
  BY DEF GatewayInv
<1>1. /\ g.cursor \in 0..Len(evs) /\ g.now \in Nat /\ 0 <= g.now /\ g.now <= g.now
      /\ g.fills \in Seq(ActiveFills) /\ InTime(g.fills, 0, g.now)
      /\ g.marks \in Seq(Marks) /\ InTime(g.marks, 0, g.now)
      /\ \A i \in 1..g.cursor : evs[i].ts <= g.now
      /\ \A i \in (g.cursor + 1)..Len(evs) : g.now <= evs[i].ts
  BY DEF GatewayInv
<1>2. h = [engine |-> e, cursor |-> g.cursor, now |-> g.now,
           fills |-> g.fills \o fills, marks |-> marks]
  <2> DEFINE ge == g.engine
             gc == g.cursor
             gn == g.now
             gf == g.fills
             gm == g.marks
  <2>1. g = [engine |-> ge, cursor |-> gc, now |-> gn, fills |-> gf, marks |-> gm]
    BY <1>0
  <2>2. h = [g EXCEPT !.engine = e, !.fills = gf \o fills, !.marks = marks]
    BY DEF Executed
  <2> HIDE DEF ge, gc, gn, gf, gm, marks, h
  <2>3. h = [engine |-> e, cursor |-> gc, now |-> gn, fills |-> gf \o fills, marks |-> marks]
    BY <2>1, <2>2
  <2> QED BY <2>3 DEF gc, gn, gf
<1>3. marks \in Seq(Marks) /\ InTime(marks, 0, g.now) /\ Valued(e, marks)
  <2> DEFINE gn == g.now
             gm == g.marks
  <2>1. gn \in Nat /\ gn <= gn /\ gm \in Seq(Marks) /\ InTime(gm, 0, gn)
        /\ marks = Marked(gm, e, gn)
    BY <1>1
  <2> HIDE DEF gn, gm, marks
  <2>2. marks \in Seq(Marks) /\ InTime(marks, 0, gn) /\ Valued(e, marks)
    BY <2>1, MarkedFacts
  <2> QED BY <2>2 DEF gn
<1>4. g.fills \o fills \in Seq(ActiveFills) /\ InTime(g.fills \o fills, 0, g.now)
  <2> DEFINE gn == g.now
             gf == g.fills
  <2>1. /\ 0 \in Nat /\ gn \in Nat /\ 0 <= gn /\ gn <= gn
        /\ gf \in Seq(ActiveFills) /\ InTime(gf, 0, gn) /\ InTime(fills, gn, gn)
    BY <1>1
  <2> HIDE DEF gn, gf
  <2>2. gf \o fills \in Seq(ActiveFills)
    BY <2>1
  <2>3. InTime(gf \o fills, 0, gn)
    BY <2>1, TimesFacts, InTimeConcat
  <2> QED BY <2>2, <2>3 DEF gn, gf
<1> HIDE DEF marks, h
<1>5. /\ h.engine = e /\ h.cursor = g.cursor /\ h.now = g.now
      /\ h.fills = g.fills \o fills /\ h.marks = marks
      /\ h = [engine |-> h.engine, cursor |-> h.cursor, now |-> h.now,
              fills |-> h.fills, marks |-> h.marks]
  BY <1>2
<1>6. GatewayInv(h, evs)
  BY <1>1, <1>3, <1>4, <1>5 DEF GatewayInv
<1>7. Caught(h, evs)
  BY <1>5 DEF Caught
<1> QED BY <1>5, <1>6, <1>7 DEF h

(***************************************************************************)
(* The log and the arrivals.                                               *)
(***************************************************************************)

LogRows == [kind : {"fill", "fill_passive"}, ts : Nat, fill : ActiveFills]
             \cup [kind : {"place_limit", "place_market"}, ts : Nat, id : Int]
             \cup [kind : {"cancel"}, ts : Nat, id : Nat, accepted : BOOLEAN]

LEMMA LogRowsFacts ==
  \A x \in LogRows : x.ts \in Nat
  BY DEF LogRows

LEMMA RowsFacts ==
  ASSUME NEW kind \in {"fill", "fill_passive"}, NEW fills \in Seq(ActiveFills),
         NEW lo, NEW hi, InTime(fills, lo, hi)
  PROVE  Rows(kind, fills) \in Seq(LogRows) /\ InTime(Rows(kind, fills), lo, hi)
<1> DEFINE rows == Rows(kind, fills)
<1>1. \A i \in 1..Len(fills) : fills[i] \in ActiveFills /\ fills[i].ts \in Nat
  BY TimesFacts
<1>2. \A f \in ActiveFills : FillRow(kind, f) \in LogRows /\ FillRow(kind, f).ts = f.ts
  BY TimesFacts DEF FillRow, LogRows
<1>3. rows = [i \in 1..Len(fills) |-> FillRow(kind, fills[i])] /\ Len(fills) \in Nat
  BY DEF Rows
<1> HIDE DEF rows
<1>4. \A i \in 1..Len(fills) : rows[i] \in LogRows /\ rows[i].ts = fills[i].ts
  BY <1>1, <1>2, <1>3
<1>5. rows \in Seq(LogRows) /\ Len(rows) = Len(fills)
  BY <1>3, <1>4
<1> QED BY <1>4, <1>5 DEF InTime, rows

(* One row written at ts.                                                  *)
LEMMA OneRowFacts ==
  ASSUME NEW row \in LogRows
  PROVE  <<row>> \in Seq(LogRows) /\ InTime(<<row>>, row.ts, row.ts)
<1>1. row.ts \in Nat
  BY LogRowsFacts
<1>2. <<row>> \in Seq(LogRows) /\ Len(<<row>>) = 1 /\ \A i \in 1..1 : <<row>>[i] = row
  OBVIOUS
<1> QED BY <1>1, <1>2 DEF InTime

LEMMA PlaceRowFacts ==
  ASSUME NEW kind \in {"place_limit", "place_market"}, NEW ts \in Nat, NEW r, r.id \in Nat
  PROVE  PlaceRow(kind, ts, r) \in LogRows /\ PlaceRow(kind, ts, r).ts = ts
<1>1. (IF r.rests THEN r.id ELSE NoId) \in Int
  BY DEF NoId
<1> QED BY <1>1 DEF PlaceRow, LogRows

LEMMA CancelRowFacts ==
  ASSUME NEW ts \in Nat, NEW id \in Nat, NEW accepted \in BOOLEAN
  PROVE  CancelRow(ts, id, accepted) \in LogRows /\ CancelRow(ts, id, accepted).ts = ts
  BY DEF CancelRow, LogRows

(* Every fill is of an order that has arrived by then.                     *)
Arrived(fills, arr) ==
  \A i \in 1..Len(fills) : fills[i].id \in DOMAIN arr /\ arr[fills[i].id] <= fills[i].ts

\* arr has the arrivals, none after now, of the orders with an id below next.
Arrivals(arr, next, now) ==
  /\ DOMAIN arr = FirstOwnId..(next - 1)
  /\ \A id \in DOMAIN arr : arr[id] \in Nat /\ arr[id] <= now

LEMMA ArrivedConcat ==
  ASSUME NEW s \in Seq(ActiveFills), NEW t \in Seq(ActiveFills), NEW arr,
         Arrived(s, arr), Arrived(t, arr)
  PROVE  Arrived(s \o t, arr)
<1>1. /\ Len(s) \in Nat /\ Len(t) \in Nat /\ Len(s \o t) = Len(s) + Len(t)
      /\ \A i \in 1..Len(s) : (s \o t)[i] = s[i]
      /\ \A i \in (Len(s) + 1)..(Len(s) + Len(t)) :
            (s \o t)[i] = t[i - Len(s)] /\ i - Len(s) \in 1..Len(t)
      /\ \A i \in 1..(Len(s) + Len(t)) :
            i \in 1..Len(s) \/ i \in (Len(s) + 1)..(Len(s) + Len(t))
  OBVIOUS
<1> QED BY <1>1 DEF Arrived

(* Fills of placed orders from now on come after the orders' arrivals.     *)
LEMMA LateFillsArrived ==
  ASSUME NEW fills \in Seq(ActiveFills), NEW now \in Nat, NEW hi, NEW next, NEW arr,
         InTime(fills, now, hi), GivenOut(fills, next), Arrivals(arr, next, now)
  PROVE  Arrived(fills, arr)
<1>1. \A i \in 1..Len(fills) : fills[i].ts \in Nat
  BY TimesFacts
<1>2. \A i \in 1..Len(fills) : now <= fills[i].ts /\ fills[i].id \in DOMAIN arr
  BY DEF InTime, GivenOut, Arrivals
<1>3. \A i \in 1..Len(fills) : arr[fills[i].id] \in Nat /\ arr[fills[i].id] <= now
  BY <1>2 DEF Arrivals
<1> QED BY <1>1, <1>2, <1>3 DEF Arrived

(***************************************************************************)
(* What the log tells of fills.                                            *)
(***************************************************************************)

(* h[n] are the fills among the first n rows.                              *)
Tells(h, rows) ==
  /\ h \in [0..Len(rows) -> Seq(ActiveFills)]
  /\ h[0] = <<>>
  /\ \A n \in 1..Len(rows) :
        h[n] = IF IsFillRow(rows[n]) THEN Append(h[n - 1], rows[n].fill) ELSE h[n - 1]

LEMMA FillRowFacts ==
  /\ \A row \in LogRows : IsFillRow(row) => row.fill \in ActiveFills
  /\ \A kind \in {"fill", "fill_passive"} : \A f :
        IsFillRow(FillRow(kind, f)) /\ FillRow(kind, f).fill = f
  BY DEF LogRows, IsFillRow, FillRow

LEMMA FillsOfTells ==
  ASSUME NEW rows \in Seq(LogRows)
  PROVE  \E h : Tells(h, rows) /\ FillsOf(rows) = h[Len(rows)]
<1> DEFINE m == Len(rows)
           T == Seq(ActiveFills)
           Turn(x, n) == IF IsFillRow(rows[n]) THEN Append(x, rows[n].fill) ELSE x
           step == [p \in T \X Nat |-> IF p[2] \in 1..m THEN Turn(p[1], p[2]) ELSE p[1]]
           f == CHOOSE h : h = [n \in 0..m |-> IF n = 0 THEN <<>> ELSE Turn(h[n - 1], n)]
<1>1. m \in Nat /\ \A n \in 1..m : rows[n] \in LogRows
  OBVIOUS
<1>2. ASSUME NEW x \in T, NEW n \in 1..m PROVE Turn(x, n) \in T
  BY <1>1, FillRowFacts
<1>3. f = CHOOSE h : h = [n \in 0..m |-> IF n = 0 THEN <<>>
                            ELSE IF IsFillRow(rows[n]) THEN Append(h[n - 1], rows[n].fill)
                            ELSE h[n - 1]]
  OBVIOUS
<1>4. FillsOf(rows) = f[m]
  BY <1>3 DEF FillsOf
<1> HIDE DEF Turn
<1>5. step \in [T \X Nat -> T] /\ <<>> \in T
  <2>1. \A p \in T \X Nat : p[2] \in 1..m => Turn(p[1], p[2]) \in T
    BY <1>2
  <2>2. <<>> \in T
    OBVIOUS
  <2> HIDE DEF T, m
  <2> QED BY <2>1, <2>2
<1>6. PICK g : IsLoop(g, T, <<>>, step)
  <2> HIDE DEF step, T
  <2> QED BY <1>5, LoopExists, Zenon
<1> HIDE DEF T, m
<1>7. /\ g \in [Nat -> T] /\ g[0] = <<>>
      /\ \A n \in Nat : n + 1 \in 1..m => g[n + 1] = Turn(g[n], n + 1)
  <2>1. ASSUME NEW n \in Nat, n + 1 \in 1..m PROVE g[n + 1] = Turn(g[n], n + 1)
    <3>1. <<g[n], n + 1>> \in T \X Nat
      BY <1>6 DEF IsLoop
    <3> QED BY <1>6, <2>1, <3>1 DEF IsLoop
  <2> HIDE DEF step
  <2> QED BY <1>6, <2>1 DEF IsLoop
<1> HIDE DEF step
<1> DEFINE k == [n \in 0..m |-> g[n]]
<1>8. ASSUME NEW n \in 0..m, n # 0
      PROVE  n - 1 \in Nat /\ (n - 1) + 1 = n /\ n \in 1..m /\ n - 1 \in 0..m
  BY <1>1, <1>8
<1>9. k = [n \in 0..m |-> IF n = 0 THEN <<>> ELSE Turn(k[n - 1], n)]
  <2>1. ASSUME NEW n \in 0..m
        PROVE  k[n] = IF n = 0 THEN <<>> ELSE Turn(k[n - 1], n)
    <3>1. CASE n = 0
      BY <1>1, <1>7, <3>1
    <3>2. CASE n # 0
      <4>1. g[(n - 1) + 1] = Turn(g[n - 1], (n - 1) + 1)
        BY <1>7, <1>8, <3>2
      <4> QED BY <1>8, <4>1, <3>2
    <3> QED BY <3>1, <3>2
  <2> QED BY <2>1
<1> HIDE DEF k
<1>10. f = [n \in 0..m |-> IF n = 0 THEN <<>> ELSE Turn(f[n - 1], n)]
  BY <1>9
<1> HIDE DEF f
<1> DEFINE S == {n \in Nat : n \in 0..m => f[n] = g[n]}
<1>11. S = Nat
  <2>1. 0 \in S
    BY <1>1, <1>7, <1>10
  <2>2. ASSUME NEW n \in S PROVE n + 1 \in S
    <3>1. SUFFICES ASSUME n + 1 \in 0..m PROVE f[n + 1] = g[n + 1]
      OBVIOUS
    <3>2. n \in Nat /\ n \in 0..m /\ n + 1 \in 1..m /\ n + 1 # 0 /\ (n + 1) - 1 = n
      BY <1>1, <3>1
    <3>3. f[n] = g[n] /\ g[n + 1] = Turn(g[n], n + 1)
      BY <1>7, <3>2
    <3>4. f[n + 1] = Turn(f[(n + 1) - 1], n + 1)
      BY <1>10, <3>1, <3>2
    <3> QED BY <3>2, <3>3, <3>4
  <2>3. S \in SUBSET Nat
    OBVIOUS
  <2> HIDE DEF S
  <2> QED BY <2>1, <2>2, <2>3, SetInduction
<1>12. f \in [0..m -> T]
  <2>1. ASSUME NEW n \in 0..m PROVE f[n] \in T
    <3>1. n \in Nat
      BY <1>1
    <3> QED BY <1>7, <1>11, <3>1
  <2> QED BY <1>10, <2>1
<1>13. f[0] = <<>> /\ \A n \in 1..m : f[n] = Turn(f[n - 1], n)
  <2>1. 0 \in 0..m /\ \A n \in 1..m : n \in 0..m /\ n # 0
    BY <1>1
  <2> QED BY <1>10, <2>1
<1> QED BY <1>4, <1>12, <1>13 DEF Tells, Turn, T, m

(* A log tells first what its beginning tells.                             *)
LEMMA FillsOfPrefix ==
  ASSUME NEW s \in Seq(LogRows), NEW u \in Seq(LogRows), Len(s) <= Len(u),
         \A i \in 1..Len(s) : u[i] = s[i]
  PROVE  \E h : /\ Tells(h, u) /\ FillsOf(u) = h[Len(u)]
                /\ h[Len(s)] = FillsOf(s) /\ FillsOf(s) \in Seq(ActiveFills)
<1>1. PICK f : Tells(f, s) /\ FillsOf(s) = f[Len(s)]
  BY FillsOfTells
<1>2. PICK h : Tells(h, u) /\ FillsOf(u) = h[Len(u)]
  BY FillsOfTells
<1> DEFINE m == Len(s)
           k == Len(u)
           S == {n \in Nat : n \in 0..m => h[n] = f[n]}
<1>3. m \in Nat /\ k \in Nat /\ m <= k /\ \A i \in 1..m : u[i] = s[i]
  OBVIOUS
<1>4. /\ f \in [0..m -> Seq(ActiveFills)] /\ f[0] = <<>> /\ h[0] = <<>>
      /\ \A n \in 1..m :
            f[n] = IF IsFillRow(s[n]) THEN Append(f[n - 1], s[n].fill) ELSE f[n - 1]
      /\ \A n \in 1..k :
            h[n] = IF IsFillRow(u[n]) THEN Append(h[n - 1], u[n].fill) ELSE h[n - 1]
  BY <1>1, <1>2 DEF Tells
<1> HIDE DEF m, k
<1>5. S = Nat
  <2>1. 0 \in S
    BY <1>4
  <2>2. ASSUME NEW n \in S PROVE n + 1 \in S
    <3>1. SUFFICES ASSUME n + 1 \in 0..m PROVE h[n + 1] = f[n + 1]
      OBVIOUS
    <3>2. n \in 0..m /\ n + 1 \in 1..m /\ n + 1 \in 1..k /\ (n + 1) - 1 = n
      BY <1>3, <3>1
    <3>3. h[n] = f[n] /\ u[n + 1] = s[n + 1]
      BY <1>3, <3>2
    <3> QED BY <1>4, <3>2, <3>3
  <2>3. S \in SUBSET Nat
    OBVIOUS
  <2> HIDE DEF S
  <2> QED BY <2>1, <2>2, <2>3, SetInduction
<1>6. h[m] = f[m] /\ f[m] \in Seq(ActiveFills)
  <2>1. m \in S /\ m \in 0..m
    BY <1>3, <1>5
  <2> QED BY <1>4, <2>1
<1> QED BY <1>1, <1>2, <1>6 DEF m

(* One more element of a sequence, behind another one.                     *)
LEMMA PrefixGrows ==
  ASSUME NEW T, NEW x \in Seq(T), NEW v \in Seq(T), NEW k \in Nat, k + 1 \in 1..Len(v)
  PROVE  Append(x \o SubSeq(v, 1, k), v[k + 1]) = x \o SubSeq(v, 1, k + 1)
<1> DEFINE a == SubSeq(v, 1, k)
           y == v[k + 1]
           last == <<y>>
<1>1. a \in Seq(T) /\ y \in T /\ last \in Seq(T) /\ x \o a \in Seq(T)
  <2>1. y \in T /\ a \in Seq(T)
    OBVIOUS
  <2> QED BY <2>1
<1>2. SubSeq(v, 1, k + 1) = a \o last
  <2>1. 1 \in 1..Len(v) /\ (k + 1) - 1 = k
    OBVIOUS
  <2> QED BY <2>1, SubSeqRecursiveSecond
<1> HIDE DEF a, y
<1>3. Append(x \o a, y) = (x \o a) \o last
  BY <1>1, AppendIsConcat
<1> HIDE DEF last
<1>4. (x \o a) \o last = x \o (a \o last)
  BY <1>1, ConcatAssociative, SMTT(30)
<1> QED BY <1>2, <1>3, <1>4 DEF a, y

(* The rows of fills tell them.                                            *)
LEMMA FillsOfRows ==
  ASSUME NEW s \in Seq(LogRows), NEW kind \in {"fill", "fill_passive"},
         NEW fills \in Seq(ActiveFills)
  PROVE  FillsOf(s \o Rows(kind, fills)) = FillsOf(s) \o fills
<1> DEFINE rows == Rows(kind, fills)
           u == s \o rows
           m == Len(s)
           k == Len(fills)
           x == FillsOf(s)
<1>1. /\ m \in Nat /\ k \in Nat /\ rows \in Seq(LogRows) /\ Len(rows) = k
      /\ \A i \in 1..k : rows[i] = FillRow(kind, fills[i])
  <2>1. rows = [i \in 1..k |-> FillRow(kind, fills[i])]
    BY DEF Rows
  <2>2. \A i \in 1..k : fills[i] \in ActiveFills
    OBVIOUS
  <2>3. \A f \in ActiveFills : FillRow(kind, f) \in LogRows
    BY TimesFacts DEF FillRow, LogRows
  <2> HIDE DEF rows
  <2>4. rows \in [1..k -> LogRows] /\ k \in Nat
    BY <2>1, <2>2, <2>3
  <2>5. rows \in Seq(LogRows) /\ Len(rows) = k
    BY <2>4
  <2> QED BY <2>1, <2>5
<1> HIDE DEF rows
<1>2. /\ u \in Seq(LogRows) /\ Len(u) = m + k /\ m <= Len(u)
      /\ \A i \in 1..m : u[i] = s[i]
      /\ \A i \in 1..k : u[m + i] = FillRow(kind, fills[i])
  <2>1. u \in Seq(LogRows) /\ Len(u) = m + k /\ \A i \in 1..m : u[i] = s[i]
    BY <1>1, SMTT(30)
  <2>2. \A i \in 1..k : u[m + i] = rows[i]
    BY <1>1
  <2> QED BY <1>1, <2>1, <2>2
<1> HIDE DEF u
<1>3. PICK h : /\ Tells(h, u) /\ FillsOf(u) = h[Len(u)]
               /\ h[m] = x /\ x \in Seq(ActiveFills)
  BY <1>2, FillsOfPrefix
<1> DEFINE S == {n \in Nat : n \in 0..k => h[m + n] = x \o SubSeq(fills, 1, n)}
<1>4. \A n \in 1..(m + k) :
         h[n] = IF IsFillRow(u[n]) THEN Append(h[n - 1], u[n].fill) ELSE h[n - 1]
  BY <1>2, <1>3 DEF Tells
<1> HIDE DEF x
<1>5. S = Nat
  <2>1. 0 \in S
    <3>1. x \o SubSeq(fills, 1, 0) = x /\ m + 0 = m
      BY <1>1, <1>3
    <3> QED BY <1>3, <3>1
  <2>2. ASSUME NEW n \in S PROVE n + 1 \in S
    <3>1. SUFFICES ASSUME n + 1 \in 0..k PROVE h[m + (n + 1)] = x \o SubSeq(fills, 1, n + 1)
      OBVIOUS
    <3>2. n \in Nat /\ n \in 0..k /\ n + 1 \in 1..k /\ m + (n + 1) \in 1..(m + k)
          /\ (m + (n + 1)) - 1 = m + n
      BY <1>1, <3>1
    <3>3. h[m + n] = x \o SubSeq(fills, 1, n)
      BY <3>2
    <3>4. u[m + (n + 1)] = FillRow(kind, fills[n + 1])
      BY <1>2, <3>2
    <3>5. h[m + (n + 1)] = Append(h[m + n], fills[n + 1])
      <4> DEFINE z == m + (n + 1)
                 y == fills[n + 1]
                 w == m + n
      <4>1. z \in 1..(m + k) /\ z - 1 = w /\ u[z] = FillRow(kind, y)
        BY <3>2, <3>4
      <4> HIDE DEF z, y, w
      <4>2. h[z] = IF IsFillRow(u[z]) THEN Append(h[z - 1], u[z].fill) ELSE h[z - 1]
        BY <1>4, <4>1
      <4>3. IsFillRow(u[z]) /\ u[z].fill = y
        BY <4>1, FillRowFacts
      <4>4. h[z] = Append(h[w], y)
        BY <4>1, <4>2, <4>3
      <4> QED BY <4>4 DEF z, y, w
    <3>6. Append(x \o SubSeq(fills, 1, n), fills[n + 1]) = x \o SubSeq(fills, 1, n + 1)
      BY <1>3, <3>2, PrefixGrows
    <3> QED BY <3>3, <3>5, <3>6
  <2>3. S \in SUBSET Nat
    OBVIOUS
  <2> HIDE DEF S
  <2> QED BY <2>1, <2>2, <2>3, SetInduction
<1>6. h[m + k] = x \o SubSeq(fills, 1, k)
  <2>1. k \in Nat /\ k \in 0..k
    BY <1>1
  <2>2. k \in S
    <3> HIDE DEF S
    <3> QED BY <1>5, <2>1
  <2> QED BY <2>1, <2>2
<1>7. SubSeq(fills, 1, k) = fills
  OBVIOUS
<1> QED BY <1>2, <1>3, <1>6, <1>7 DEF u, x, rows

(* A row of another kind tells no fill.                                    *)
LEMMA FillsOfOtherRow ==
  ASSUME NEW s \in Seq(LogRows), NEW row \in LogRows, ~IsFillRow(row)
  PROVE  FillsOf(s \o <<row>>) = FillsOf(s)
<1> DEFINE u == s \o <<row>>
           m == Len(s)
<1>1. /\ u \in Seq(LogRows) /\ Len(u) = m + 1 /\ m <= Len(u) /\ m \in Nat
      /\ u[m + 1] = row
      /\ \A i \in 1..m : u[i] = s[i]
  OBVIOUS
<1> HIDE DEF u
<1>2. PICK h : /\ Tells(h, u) /\ FillsOf(u) = h[Len(u)]
               /\ h[m] = FillsOf(s)
  BY <1>1, FillsOfPrefix
<1>3. m + 1 \in 1..Len(u) /\ (m + 1) - 1 = m
  BY <1>1
<1>4. h[m + 1] = h[m]
  BY <1>1, <1>2, <1>3 DEF Tells
<1> QED BY <1>1, <1>2, <1>4 DEF u

(***************************************************************************)
(* Cancelled orders.                                                       *)
(***************************************************************************)

\* Order id was placed and is no longer in the book.
Dead(e, id) == id \in Nat /\ id < e.nextId /\ Own(id) \notin DOMAIN e.orders

AcceptedCancel(row) == row.kind = "cancel" /\ row.accepted

(* An order whose cancel was accepted is dead, and no fill of it follows.  *)
Buried(rows, e) ==
  \A i \in 1..Len(rows) :
     AcceptedCancel(rows[i])
        => /\ Dead(e, rows[i].id)
           /\ \A j \in (i + 1)..Len(rows) :
                 IsFillRow(rows[j]) => rows[j].fill.id # rows[i].id

LEMMA BuriedConcat ==
  ASSUME NEW s \in Seq(LogRows), NEW t \in Seq(LogRows), NEW e, NEW f,
         Buried(s, e), Buried(t, f), \A id : Dead(e, id) => Dead(f, id),
         \A i \in 1..Len(t) : IsFillRow(t[i]) => ~Dead(e, t[i].fill.id)
  PROVE  Buried(s \o t, f)
<1> DEFINE u == s \o t
           m == Len(s)
           k == Len(t)
<1>1. /\ m \in Nat /\ k \in Nat /\ Len(u) = m + k
      /\ \A i \in 1..m : u[i] = s[i]
      /\ \A i \in (m + 1)..(m + k) : u[i] = t[i - m]
  OBVIOUS
<1>2. /\ \A i \in 1..m : AcceptedCancel(s[i]) =>
            /\ Dead(e, s[i].id)
            /\ \A j \in (i + 1)..m : IsFillRow(s[j]) => s[j].fill.id # s[i].id
      /\ \A i \in 1..k : AcceptedCancel(t[i]) =>
            /\ Dead(f, t[i].id)
            /\ \A j \in (i + 1)..k : IsFillRow(t[j]) => t[j].fill.id # t[i].id
      /\ \A i \in 1..k : IsFillRow(t[i]) => ~Dead(e, t[i].fill.id)
  BY DEF Buried
<1> HIDE DEF u, m, k
<1>3. ASSUME NEW i \in 1..(m + k), AcceptedCancel(u[i])
      PROVE  /\ Dead(f, u[i].id)
             /\ \A j \in (i + 1)..(m + k) : IsFillRow(u[j]) => u[j].fill.id # u[i].id
  <2>1. CASE i <= m
    <3>1. i \in 1..m /\ u[i] = s[i]
      BY <1>1, <2>1
    <3>2. Dead(e, s[i].id) /\ \A j \in (i + 1)..m : IsFillRow(s[j]) => s[j].fill.id # s[i].id
      BY <1>2, <1>3, <3>1
    <3>3. ASSUME NEW j \in (i + 1)..(m + k), IsFillRow(u[j]) PROVE u[j].fill.id # s[i].id
      <4>1. CASE j <= m
        <5>1. j \in (i + 1)..m /\ j \in 1..m
          BY <1>1, <3>1, <4>1
        <5> QED BY <1>1, <3>2, <3>3, <5>1
      <4>2. CASE j > m
        <5>1. j \in (m + 1)..(m + k) /\ j - m \in 1..k
          BY <1>1, <3>1, <4>2
        <5>2. u[j] = t[j - m] /\ ~Dead(e, t[j - m].fill.id)
          BY <1>1, <1>2, <3>3, <5>1
        <5> QED BY <3>2, <5>2
      <4>3. j <= m \/ j > m
        BY <1>1
      <4> QED BY <4>1, <4>2, <4>3
    <3> QED BY <3>1, <3>2, <3>3
  <2>2. CASE i > m
    <3>1. i \in (m + 1)..(m + k) /\ i - m \in 1..k
      BY <1>1, <2>2
    <3>2. u[i] = t[i - m]
      BY <1>1, <3>1
    <3>3. Dead(f, t[i - m].id)
          /\ \A j \in ((i - m) + 1)..k : IsFillRow(t[j]) => t[j].fill.id # t[i - m].id
      BY <1>2, <1>3, <3>1, <3>2
    <3>4. ASSUME NEW j \in (i + 1)..(m + k), IsFillRow(u[j]) PROVE u[j].fill.id # t[i - m].id
      <4>1. j \in (m + 1)..(m + k) /\ j - m \in ((i - m) + 1)..k
        BY <1>1, <2>2
      <4>2. u[j] = t[j - m]
        BY <1>1, <4>1
      <4> QED BY <3>3, <3>4, <4>1, <4>2
    <3> QED BY <3>2, <3>3, <3>4
  <2>3. i <= m \/ i > m
    BY <1>1
  <2> QED BY <2>1, <2>2, <2>3
<1> QED BY <1>1, <1>3 DEF Buried, u

(* Rows without an accepted cancel bury nobody.                            *)
LEMMA NobodyBuried ==
  ASSUME NEW rows, NEW e, \A i \in 1..Len(rows) : ~AcceptedCancel(rows[i])
  PROVE  Buried(rows, e)
  BY DEF Buried

(* The rows of fills, of orders that were alive, bury nobody.              *)
LEMMA BuriedRows ==
  ASSUME NEW s \in Seq(LogRows), NEW kind \in {"fill", "fill_passive"},
         NEW fills \in Seq(ActiveFills), NEW e, NEW f, Buried(s, e),
         \A id : Dead(e, id) => Dead(f, id),
         \A i \in 1..Len(fills) : ~Dead(e, fills[i].id)
  PROVE  Buried(s \o Rows(kind, fills), f)
<1> DEFINE rows == Rows(kind, fills)
<1>1. /\ rows \in Seq(LogRows) /\ Len(rows) = Len(fills)
      /\ \A i \in 1..Len(rows) : rows[i] = FillRow(kind, fills[i])
  <2>1. rows = [i \in 1..Len(fills) |-> FillRow(kind, fills[i])] /\ Len(fills) \in Nat
    BY DEF Rows
  <2>2. \A i \in 1..Len(fills) : fills[i] \in ActiveFills
    OBVIOUS
  <2>3. \A x \in ActiveFills : FillRow(kind, x) \in LogRows
    BY TimesFacts DEF FillRow, LogRows
  <2> HIDE DEF rows
  <2>4. rows \in [1..Len(fills) -> LogRows]
    BY <2>1, <2>2, <2>3
  <2>5. rows \in Seq(LogRows) /\ Len(rows) = Len(fills)
    BY <2>1, <2>4
  <2> QED BY <2>1, <2>5
<1> HIDE DEF rows
<1>2. \A i \in 1..Len(rows) : ~AcceptedCancel(rows[i])
  <2>1. \A x : ~AcceptedCancel(FillRow(kind, x))
    BY DEF AcceptedCancel, FillRow
  <2> QED BY <1>1, <2>1
<1>3. \A i \in 1..Len(rows) : IsFillRow(rows[i]) => ~Dead(e, rows[i].fill.id)
  BY <1>1, FillRowFacts
<1>4. Buried(rows, f)
  BY <1>2, NobodyBuried
<1> QED BY <1>1, <1>3, <1>4, BuriedConcat DEF rows

(* Fills that leave dead orders without any are of orders alive.           *)
LEMMA NoFillsNoId ==
  ASSUME NEW s \in Seq(Fills), NEW id, FilledOf(id, s) = 0
  PROVE  \A i \in 1..Len(s) : s[i].id # id
<1> DEFINE v == [i \in DOMAIN s |-> IF s[i].id = id THEN s[i].size ELSE 0]
<1>1. DOMAIN s = 1..Len(s) /\ Len(s) \in Nat /\ \A i \in 1..Len(s) : s[i] \in Fills
  OBVIOUS
<1>2. \A i \in 1..Len(s) : s[i].size \in Nat \ {0}
  BY <1>1 DEF Fills
<1>3. Summable(v) /\ \A i \in DOMAIN v : v[i] \in Nat
  <2>1. IsFiniteSet(1..Len(s))
    BY <1>1, FS_Interval
  <2> QED BY <1>1, <1>2, <2>1 DEF Summable
<1>4. Total(v) = 0
  BY DEF FilledOf
<1>5. ASSUME NEW i \in 1..Len(s), s[i].id = id PROVE FALSE
  <2>1. v[i] = s[i].size /\ i \in DOMAIN v
    BY <1>1, <1>5
  <2>2. v[i] <= 0
    <3> HIDE DEF v
    <3> QED BY <1>3, <1>4, <2>1, TotalNat
  <2> QED BY <1>2, <2>1, <2>2
<1> QED BY <1>5

(***************************************************************************)
(* The inductive invariant.                                                *)
(***************************************************************************)

StreamInv == events \in Seq(MBOEvents) /\ InTimeOrder(events)
CallsInv == calls \in Nat /\ (calls > 0 => Caught(gw, events))
LogInv == log \in Seq(LogRows) /\ InTime(log, 0, gw.now)
ArrivalInv == /\ Arrivals(arrival, gw.engine.nextId, gw.now)
              /\ Arrived(gw.fills, arrival)

IInv == StreamInv /\ GatewayInv(gw, events) /\ CallsInv /\ LogInv /\ ArrivalInv

LEMMA InitIInv ==
  Init => IInv
<1> SUFFICES ASSUME Init PROVE IInv
  OBVIOUS
<1>1. PICK d \in Feeds : events = SortedByTime(d)
  BY DEF Init
<1>2. StreamInv
  BY <1>1, FeedsAssumption, StreamFacts DEF StreamInv
<1>3. /\ gw = [engine |-> EmptyEngine, cursor |-> 0, now |-> 0, fills |-> <<>>, marks |-> <<>>]
      /\ log = <<>> /\ calls = 0 /\ arrival = [id \in {} |-> 0]
  BY DEF Init
<1>4. /\ gw.engine = EmptyEngine /\ gw.cursor = 0 /\ gw.now = 0 /\ gw.fills = <<>>
      /\ gw.marks = <<>>
      /\ gw = [engine |-> gw.engine, cursor |-> gw.cursor, now |-> gw.now,
               fills |-> gw.fills, marks |-> gw.marks]
  <2> DEFINE e == EmptyEngine
  <2>1. gw = [engine |-> e, cursor |-> 0, now |-> 0, fills |-> <<>>, marks |-> <<>>]
    BY <1>3
  <2> HIDE DEF e
  <2>2. gw.engine = e /\ gw.cursor = 0 /\ gw.now = 0 /\ gw.fills = <<>> /\ gw.marks = <<>>
        /\ gw = [engine |-> gw.engine, cursor |-> gw.cursor, now |-> gw.now,
                 fills |-> gw.fills, marks |-> gw.marks]
    BY <2>1
  <2> QED BY <2>2 DEF e
<1>5. Len(events) \in Nat /\ \A i \in 1..Len(events) : events[i].ts \in Nat
  <2>1. Len(events) \in Nat /\ \A i \in 1..Len(events) : events[i] \in MBOEvents
    BY <1>2 DEF StreamInv
  <2> QED BY <2>1 DEF MBOEvents
<1>6. /\ EngineInv(gw.engine) /\ gw.engine.nextId = FirstOwnId /\ gw.engine.now = 0
      /\ ~TwoSided(gw.engine)
  <2>1. EngineInv(EmptyEngine) /\ EmptyEngine.nextId = FirstOwnId
    BY EmptyEngineFacts
  <2>2. EmptyEngine.now = 0 /\ EmptyEngine.book = [L \in Levels |-> 0]
    BY DEF EmptyEngine
  <2>3. Quoted(EmptyEngine, "bid") = {}
    <3>1. \A p \in Prices : <<"bid", p>> \in Levels
      BY DEF Levels, BookSides
    <3> QED BY <2>2, <3>1 DEF Quoted
  <2>4. ~TwoSided(EmptyEngine)
    BY <2>3 DEF TwoSided
  <2> QED BY <1>4, <2>1, <2>2, <2>4
<1>7. GatewayInv(gw, events)
  <2>1. gw.fills \in Seq(ActiveFills) /\ InTime(gw.fills, 0, gw.now)
        /\ gw.marks \in Seq(Marks) /\ InTime(gw.marks, 0, gw.now)
    BY <1>4, InTimeEmpty
  <2>2. gw.cursor \in 0..Len(events) /\ gw.now \in Nat
    BY <1>4, <1>5
  <2>3. Valued(gw.engine, gw.marks)
    BY <1>6 DEF Valued
  <2>4. /\ \A i \in 1..gw.cursor : events[i].ts <= gw.now
        /\ \A i \in (gw.cursor + 1)..Len(events) : gw.now <= events[i].ts
    BY <1>4, <1>5
  <2> QED BY <1>4, <1>6, <2>1, <2>2, <2>3, <2>4 DEF GatewayInv
<1>8. CallsInv
  BY <1>3 DEF CallsInv
<1>9. LogInv
  BY <1>3, InTimeEmpty DEF LogInv
<1>10. ArrivalInv
  <2>1. DOMAIN arrival = {} /\ FirstOwnId..(gw.engine.nextId - 1) = {}
    BY <1>3, <1>6, FirstOwnIdAssumption
  <2>2. Arrived(gw.fills, arrival)
    BY <1>4 DEF Arrived
  <2> QED BY <2>1, <2>2 DEF ArrivalInv, Arrivals
<1> QED BY <1>2, <1>7, <1>8, <1>9, <1>10 DEF IInv

(* What every call has in common: the advance to its time.                 *)
LEMMA CallAdvanceFacts ==
  ASSUME IInv, NEW ts \in Nat, gw.now <= ts
  PROVE  LET a == Advance(gw, events, ts)
         IN  /\ GatewayInv(a.gw, events) /\ Caught(a.gw, events)
             /\ a.gw.now = ts /\ a.gw.engine.nextId = gw.engine.nextId
             /\ a.gw.fills \in Seq(ActiveFills) /\ Arrived(a.gw.fills, arrival)
             /\ Arrivals(arrival, gw.engine.nextId, ts)
             /\ log \o Rows("fill_passive", a.fills) \in Seq(LogRows)
             /\ InTime(log \o Rows("fill_passive", a.fills), 0, ts)
<1> DEFINE a == Advance(gw, events, ts)
           now == gw.now
           next == gw.engine.nextId
           rows == Rows("fill_passive", a.fills)
<1>1. /\ events \in Seq(MBOEvents) /\ InTimeOrder(events) /\ GatewayInv(gw, events)
      /\ log \in Seq(LogRows) /\ InTime(log, 0, now) /\ now \in Nat
      /\ gw.fills \in Seq(ActiveFills)
      /\ Arrivals(arrival, next, now) /\ Arrived(gw.fills, arrival)
  BY DEF IInv, StreamInv, LogInv, ArrivalInv, GatewayInv
<1>2. /\ GatewayInv(a.gw, events) /\ Caught(a.gw, events)
      /\ a.gw.now = ts /\ a.gw.engine.nextId = next
      /\ a.gw.fills = gw.fills \o a.fills
      /\ a.fills \in Seq(Fills) /\ InTime(a.fills, now, ts) /\ GivenOut(a.fills, next)
  BY <1>1, AdvanceFacts
<1> HIDE DEF a, now, next
<1>3. a.fills \in Seq(ActiveFills)
  <2>1. Fills \subseteq ActiveFills
    BY TimesFacts
  <2> QED BY <1>2, <2>1
<1>4. Arrived(a.gw.fills, arrival) /\ a.gw.fills \in Seq(ActiveFills)
  <2>1. Arrived(a.fills, arrival)
    BY <1>1, <1>2, <1>3, LateFillsArrived
  <2>2. a.gw.fills \in Seq(ActiveFills)
    BY <1>2 DEF GatewayInv
  <2> QED BY <1>1, <1>2, <1>3, <2>1, <2>2, ArrivedConcat
<1>5. now <= ts /\ 0 <= now /\ 0 \in Nat
  BY <1>1 DEF now
<1>6. Arrivals(arrival, next, ts)
  BY <1>1, <1>5 DEF Arrivals
<1>7. rows \in Seq(LogRows) /\ InTime(rows, now, ts)
  BY <1>2, <1>3, RowsFacts
<1> HIDE DEF rows
<1>8. log \o rows \in Seq(LogRows)
  BY <1>1, <1>7
<1>9. InTime(log \o rows, 0, ts)
  BY <1>1, <1>5, <1>7, LogRowsFacts, InTimeConcat
<1> QED BY <1>2, <1>4, <1>6, <1>8, <1>9 DEF a, rows, now, next

LEMMA PlaceOrderIInv ==
  ASSUME IInv, NEW kind \in {"place_limit", "place_market"}, NEW side \in OrderSides,
         NEW n \in Nat \ {0}, NEW limit, NEW tif, tif = "GTC" => limit \in Prices,
         NEW entry \in Nat, PlaceOrder(kind, side, n, limit, tif, entry)
  PROVE  IInv'
<1> DEFINE ts == gw.now + entry
           a == Advance(gw, events, ts)
           next == gw.engine.nextId
           r == Place(a.gw.engine, side, n, limit, tif)
           row == PlaceRow(kind, a.gw.now, r)
           passive == log \o Rows("fill_passive", a.fills)
           active == Rows("fill", r.fills)
<1>1. /\ gw.now \in Nat /\ ts \in Nat /\ gw.now <= ts /\ ts <= ts /\ 0 <= ts /\ 0 \in Nat
      /\ StreamInv /\ calls \in Nat
  BY DEF IInv, GatewayInv, CallsInv
<1>2. /\ GatewayInv(a.gw, events) /\ Caught(a.gw, events)
      /\ a.gw.now = ts /\ a.gw.engine.nextId = next
      /\ a.gw.fills \in Seq(ActiveFills) /\ Arrived(a.gw.fills, arrival)
      /\ Arrivals(arrival, next, ts)
      /\ passive \in Seq(LogRows) /\ InTime(passive, 0, ts)
  <2> HIDE DEF ts
  <2> QED BY <1>1, CallAdvanceFacts
<1>3. /\ gw' = Executed(a.gw, r.e, r.fills)
      /\ log' = passive \o <<row>> \o active
      /\ arrival' = Put(arrival, r.id, ts)
      /\ events' = events /\ calls' = calls + 1
  BY DEF PlaceOrder, AtReceipt, CallReceived, Call
<1> HIDE DEF ts, a, next
<1>4. EngineInv(a.gw.engine) /\ a.gw.engine.now = ts /\ next \in Nat /\ next >= FirstOwnId
  BY <1>2, EngineFields DEF GatewayInv, EngineInv, OwnIdsGivenOut
<1>5. /\ EngineInv(r.e) /\ r.e.nextId = next + 1 /\ r.e.now = ts /\ r.id = next
      /\ r.fills \in Seq(ActiveFills) /\ Told(r.fills, next, ts)
  <2> DEFINE e == a.gw.engine
             q == Place(e, side, n, limit, tif)
  <2>1. r = q /\ EngineInv(e) /\ e.now = ts /\ e.nextId = next
    BY <1>2, <1>4
  <2> HIDE DEF e, r
  <2>2. /\ EngineInv(q.e) /\ q.e.nextId = e.nextId + 1 /\ q.e.now = e.now /\ q.id = e.nextId
        /\ q.fills \in Seq(ActiveFills) /\ Told(q.fills, e.nextId, e.now)
    BY <2>1, PlaceFacts
  <2> HIDE DEF q
  <2> QED BY <2>1, <2>2
<1> HIDE DEF r
<1>6. InTime(r.fills, ts, ts)
  BY <1>1, <1>5 DEF InTime, Told
<1>7. /\ GatewayInv(gw', events) /\ Caught(gw', events)
      /\ gw'.now = ts /\ gw'.engine = r.e /\ gw'.fills = a.gw.fills \o r.fills
  <2> DEFINE g == a.gw
             e == r.e
             fs == r.fills
             h == Executed(g, e, fs)
  <2>1. /\ events \in Seq(MBOEvents) /\ GatewayInv(g, events) /\ Caught(g, events)
        /\ g.now = ts /\ EngineInv(e) /\ e.now = g.now
        /\ fs \in Seq(ActiveFills) /\ InTime(fs, g.now, g.now)
    BY <1>1, <1>2, <1>5, <1>6 DEF StreamInv
  <2>2. gw' = h
    BY <1>3
  <2> HIDE DEF g, e, fs
  <2>3. /\ GatewayInv(h, events) /\ Caught(h, events)
        /\ h.now = g.now /\ h.engine = e /\ h.fills = g.fills \o fs
    BY <2>1, ExecutedFacts
  <2> HIDE DEF h
  <2> QED BY <2>1, <2>2, <2>3 DEF g, e, fs
<1>8. LogInv'
  <2>1. row \in LogRows /\ row.ts = ts
    BY <1>1, <1>2, <1>4, <1>5, PlaceRowFacts
  <2>2. active \in Seq(LogRows) /\ InTime(active, ts, ts)
    BY <1>5, <1>6, RowsFacts
  <2>3. <<row>> \in Seq(LogRows) /\ InTime(<<row>>, ts, ts)
    BY <2>1, OneRowFacts
  <2> DEFINE one == <<row>>
             upToRow == passive \o one
  <2>4. log' = upToRow \o active
    BY <1>3
  <2> HIDE DEF row, passive, active
  <2>5. upToRow \in Seq(LogRows)
    BY <1>2, <2>3
  <2>6. one \in Seq(LogRows) /\ InTime(one, ts, ts)
    BY <2>3
  <2> HIDE DEF one
  <2>7. InTime(upToRow, 0, ts)
    BY <1>1, <1>2, <2>6, LogRowsFacts, InTimeConcat
  <2> HIDE DEF upToRow
  <2>8. upToRow \o active \in Seq(LogRows)
    BY <2>2, <2>5
  <2>9. InTime(upToRow \o active, 0, ts)
    BY <1>1, <2>2, <2>5, <2>7, LogRowsFacts, InTimeConcat
  <2> QED BY <1>7, <2>4, <2>8, <2>9 DEF LogInv
<1>9. ArrivalInv'
  <2>1. /\ DOMAIN arrival = FirstOwnId..(next - 1)
        /\ \A id \in DOMAIN arrival : arrival[id] \in Nat /\ arrival[id] <= ts
    BY <1>2 DEF Arrivals
  <2>2. /\ DOMAIN arrival' = DOMAIN arrival \cup {next}
        /\ arrival'[next] = ts
        /\ \A id \in DOMAIN arrival : arrival'[id] = arrival[id]
    <3>1. next \notin DOMAIN arrival
      BY <1>4, <2>1, FirstOwnIdAssumption
    <3> QED BY <1>3, <1>5, <3>1 DEF Put
  <2>3. DOMAIN arrival' = FirstOwnId..((next + 1) - 1)
    BY <1>4, <2>1, <2>2, FirstOwnIdAssumption
  <2>4. \A id \in DOMAIN arrival' : arrival'[id] \in Nat /\ arrival'[id] <= ts
    BY <1>1, <2>1, <2>2
  <2>5. Arrived(a.gw.fills, arrival')
    BY <1>2, <2>2 DEF Arrived
  <2>6. Arrived(r.fills, arrival')
    BY <1>1, <1>5, <2>2 DEF Arrived, Told
  <2>7. Arrived(a.gw.fills \o r.fills, arrival')
    BY <1>2, <1>5, <2>5, <2>6, ArrivedConcat
  <2> QED BY <1>5, <1>7, <2>3, <2>4, <2>7 DEF ArrivalInv, Arrivals
<1> QED BY <1>1, <1>3, <1>7, <1>8, <1>9 DEF IInv, StreamInv, CallsInv

LEMMA CancelIInv ==
  ASSUME IInv, NEW id \in Nat, NEW entry \in Nat, Cancel(id, entry)
  PROVE  IInv'
<1> DEFINE ts == gw.now + entry
           a == Advance(gw, events, ts)
           next == gw.engine.nextId
           e == CancelOwn(a.gw.engine, id)
           row == CancelRow(a.gw.now, id, Own(id) \in DOMAIN a.gw.engine.orders)
           passive == log \o Rows("fill_passive", a.fills)
<1>1. /\ gw.now \in Nat /\ ts \in Nat /\ gw.now <= ts /\ ts <= ts /\ 0 <= ts /\ 0 \in Nat
      /\ StreamInv /\ calls \in Nat
  BY DEF IInv, GatewayInv, CallsInv
<1>2. /\ GatewayInv(a.gw, events) /\ Caught(a.gw, events)
      /\ a.gw.now = ts /\ a.gw.engine.nextId = next
      /\ a.gw.fills \in Seq(ActiveFills) /\ Arrived(a.gw.fills, arrival)
      /\ Arrivals(arrival, next, ts)
      /\ passive \in Seq(LogRows) /\ InTime(passive, 0, ts)
  <2> HIDE DEF ts
  <2> QED BY <1>1, CallAdvanceFacts
<1>3. /\ gw' = Executed(a.gw, e, <<>>)
      /\ log' = passive \o <<row>>
      /\ arrival' = arrival /\ events' = events /\ calls' = calls + 1
  BY DEF Cancel, AtReceipt, CallReceived, Call
<1> HIDE DEF ts, a, next
<1>4. EngineInv(a.gw.engine) /\ a.gw.engine.now = ts
  BY <1>2 DEF GatewayInv
<1>5. EngineInv(e) /\ e.nextId = next /\ e.now = ts
  BY <1>2, <1>4, CancelOwnFacts
<1> HIDE DEF e
<1>6. <<>> \in Seq(ActiveFills) /\ InTime(<<>>, ts, ts)
  BY InTimeEmpty
<1>7. /\ GatewayInv(gw', events) /\ Caught(gw', events)
      /\ gw'.now = ts /\ gw'.engine = e /\ gw'.fills = a.gw.fills \o <<>>
  <2> DEFINE g == a.gw
             fs == <<>>
             h == Executed(g, e, fs)
  <2>1. /\ events \in Seq(MBOEvents) /\ GatewayInv(g, events) /\ Caught(g, events)
        /\ g.now = ts /\ EngineInv(e) /\ e.now = g.now
        /\ fs \in Seq(ActiveFills) /\ InTime(fs, g.now, g.now)
    BY <1>1, <1>2, <1>5, <1>6 DEF StreamInv
  <2>2. gw' = h
    BY <1>3
  <2> HIDE DEF g, fs
  <2>3. /\ GatewayInv(h, events) /\ Caught(h, events)
        /\ h.now = g.now /\ h.engine = e /\ h.fills = g.fills \o fs
    BY <2>1, ExecutedFacts
  <2> HIDE DEF h
  <2> QED BY <2>1, <2>2, <2>3 DEF g, fs
<1>8. LogInv'
  <2>1. row \in LogRows /\ row.ts = ts
    <3> DEFINE accepted == Own(id) \in DOMAIN a.gw.engine.orders
    <3>1. accepted \in BOOLEAN /\ row = CancelRow(ts, id, accepted)
      BY <1>2
    <3> HIDE DEF accepted, row
    <3> QED BY <1>1, <3>1, CancelRowFacts
  <2> HIDE DEF row
  <2>2. <<row>> \in Seq(LogRows) /\ InTime(<<row>>, ts, ts)
    BY <2>1, OneRowFacts
  <2> DEFINE one == <<row>>
  <2>3. log' = passive \o one /\ one \in Seq(LogRows) /\ InTime(one, ts, ts)
    BY <1>3, <2>2
  <2> HIDE DEF one, passive
  <2>4. passive \o one \in Seq(LogRows)
    BY <1>2, <2>3
  <2>5. InTime(passive \o one, 0, ts)
    BY <1>1, <1>2, <2>3, LogRowsFacts, InTimeConcat
  <2> QED BY <1>7, <2>3, <2>4, <2>5 DEF LogInv
<1>9. ArrivalInv'
  <2>1. gw'.fills = a.gw.fills
    BY <1>2, <1>7
  <2> QED BY <1>2, <1>3, <1>5, <1>7, <2>1 DEF ArrivalInv
<1> QED BY <1>1, <1>3, <1>7, <1>8, <1>9 DEF IInv, StreamInv, CallsInv

LEMMA AdvanceToIInv ==
  ASSUME IInv, NEW ts \in Nat, AdvanceTo(ts)
  PROVE  IInv'
<1> DEFINE a == Advance(gw, events, ts)
<1>1. gw.now <= ts /\ StreamInv /\ calls \in Nat
  BY DEF IInv, GatewayInv, CallsInv, AdvanceTo
<1>2. /\ gw' = a.gw /\ log' = log \o Rows("fill_passive", a.fills)
      /\ arrival' = arrival /\ events' = events /\ calls' = calls + 1
  BY DEF AdvanceTo, Call
<1> HIDE DEF a
<1>3. /\ GatewayInv(a.gw, events) /\ Caught(a.gw, events)
      /\ a.gw.now = ts /\ a.gw.engine.nextId = gw.engine.nextId
      /\ Arrived(a.gw.fills, arrival) /\ Arrivals(arrival, gw.engine.nextId, ts)
      /\ log' \in Seq(LogRows) /\ InTime(log', 0, ts)
  BY <1>1, <1>2, CallAdvanceFacts DEF a
<1> QED BY <1>1, <1>2, <1>3 DEF IInv, StreamInv, CallsInv, LogInv, ArrivalInv

\* The rejected order's advance leaves no row, so the log only grows older.
LEMMA PlaceInvalidIInv ==
  ASSUME IInv, NEW entry \in Nat, PlaceInvalid(entry)
  PROVE  IInv'
<1> DEFINE ts == gw.now + entry
           a == Advance(gw, events, ts)
<1>1. /\ gw.now \in Nat /\ ts \in Nat /\ gw.now <= ts /\ StreamInv /\ calls \in Nat
      /\ log \in Seq(LogRows) /\ InTime(log, 0, gw.now) /\ 0 \in Nat
  BY DEF IInv, GatewayInv, CallsInv, LogInv
<1>2. gw' = a.gw /\ log' = log /\ arrival' = arrival /\ events' = events /\ calls' = calls + 1
  BY DEF PlaceInvalid, AtReceipt, CallReceived, Call
<1> HIDE DEF ts, a
<1>3. /\ GatewayInv(a.gw, events) /\ Caught(a.gw, events)
      /\ a.gw.now = ts /\ a.gw.engine.nextId = gw.engine.nextId
      /\ Arrived(a.gw.fills, arrival) /\ Arrivals(arrival, gw.engine.nextId, ts)
  BY <1>1, CallAdvanceFacts DEF a
<1>4. InTime(log, 0, ts)
  BY <1>1, LogRowsFacts, InTimeLater
<1> QED BY <1>1, <1>2, <1>3, <1>4 DEF IInv, StreamInv, CallsInv, LogInv, ArrivalInv

LEMMA NextIInv ==
  IInv /\ [Next]_vars => IInv'
<1> SUFFICES ASSUME IInv, [Next]_vars PROVE IInv'
  OBVIOUS
<1>1. EntryLatencies \subseteq Nat /\ 1..MaxSize \subseteq Nat \ {0} /\ 0..MaxTime \subseteq Nat
  BY LatencyAssumption, GatewayBounds
<1>2. DOMAIN arrival \subseteq Nat
  BY FirstOwnIdAssumption DEF IInv, ArrivalInv, Arrivals
<1>3. ASSUME NEW ts \in 0..MaxTime, AdvanceTo(ts) PROVE IInv'
  BY <1>1, <1>3, AdvanceToIInv
<1>4. ASSUME NEW entry \in EntryLatencies, NEW side \in OrderSides, NEW n \in 1..MaxSize,
             NEW price \in Prices, NEW tif \in Tifs, PlaceLimit(side, n, price, tif, entry)
      PROVE  IInv'
  <2>1. entry \in Nat /\ n \in Nat \ {0} /\ (tif = "GTC" => price \in Prices)
    BY <1>1
  <2>2. PlaceOrder("place_limit", side, n, price, tif, entry)
    BY <1>4 DEF PlaceLimit
  <2> QED BY <2>1, <2>2, PlaceOrderIInv
<1>5. ASSUME NEW entry \in EntryLatencies, NEW side \in OrderSides, NEW n \in 1..MaxSize,
             PlaceMarket(side, n, entry)
      PROVE  IInv'
  <2>1. entry \in Nat /\ n \in Nat \ {0} /\ ("IOC" = "GTC" => NoLimit \in Prices)
    BY <1>1
  <2>2. PlaceOrder("place_market", side, n, NoLimit, "IOC", entry)
    BY <1>5 DEF PlaceMarket
  <2> QED BY <2>1, <2>2, PlaceOrderIInv
<1>6. ASSUME NEW entry \in EntryLatencies, PlaceInvalid(entry) PROVE IInv'
  BY <1>1, <1>6, PlaceInvalidIInv
<1>7. ASSUME NEW entry \in EntryLatencies, NEW id \in DOMAIN arrival, Cancel(id, entry)
      PROVE  IInv'
  BY <1>1, <1>2, <1>7, CancelIInv
<1>8. CASE UNCHANGED vars
  BY <1>8 DEF vars, IInv, StreamInv, CallsInv, LogInv, ArrivalInv
<1> QED BY <1>3, <1>4, <1>5, <1>6, <1>7, <1>8 DEF Next

LEMMA SpecIInv ==
  Spec => []IInv
BY InitIInv, NextIInv, PTL DEF Spec

(* After any call the book has exactly the events at or before the replay   *)
(* time: no lookahead and none skipped, whatever the feed's order, its       *)
(* equal times, the latencies and the calls (simulator.py, advance_to).     *)
THEOREM NeverLooksAhead ==
  Spec => []NoLookahead
<1>1. IInv => NoLookahead
  BY DEF IInv, GatewayInv, CallsInv, Caught, NoLookahead
<1> QED BY <1>1, SpecIInv, PTL

(* The audit log is in time order, although one call writes passive fills   *)
(* from before the receipt, an order row and active fills (recording.py).   *)
THEOREM LogAlwaysInTimeOrder ==
  Spec => []LogInTimeOrder
<1>1. IInv => LogInTimeOrder
  BY DEF IInv, LogInv, InTime, LogInTimeOrder
<1> QED BY <1>1, SpecIInv, PTL

(* No fill, active or passive, is earlier than its order's arrival at the   *)
(* venue (simulator.py, place_limit and place_market after the entry leg).  *)
THEOREM NoFillEverBeforeArrival ==
  Spec => []NoFillBeforeArrival
<1>1. IInv => NoFillBeforeArrival
  <2>1. SUFFICES ASSUME IInv, NEW i \in DOMAIN gw.fills
                 PROVE  gw.fills[i].ts >= arrival[gw.fills[i].id]
    BY DEF NoFillBeforeArrival
  <2>1a. GatewayInv(gw, events) /\ ArrivalInv
    BY <2>1 DEF IInv
  <2>2. gw.fills \in Seq(ActiveFills) /\ Arrived(gw.fills, arrival)
        /\ Arrivals(arrival, gw.engine.nextId, gw.now)
    BY <2>1a DEF GatewayInv, ArrivalInv
  <2>3. i \in 1..Len(gw.fills) /\ gw.fills[i] \in ActiveFills
    BY <2>2
  <2>4. gw.fills[i].ts \in Nat
    BY <2>3, TimesFacts
  <2>5. /\ gw.fills[i].id \in DOMAIN arrival
        /\ arrival[gw.fills[i].id] <= gw.fills[i].ts
    BY <2>2, <2>3 DEF Arrived
  <2>6. arrival[gw.fills[i].id] \in Nat
    BY <2>2, <2>5 DEF Arrivals
  <2> QED BY <2>4, <2>5, <2>6
<1> QED BY <1>1, SpecIInv, PTL

(* The last valuation mark is the midpoint of the book the strategy sees,   *)
(* and marks are in time order: the equity curve never values a position at *)
(* an old book (simulator.py, _record_valuation_mark).                      *)
THEOREM MarksAlwaysFollowBook ==
  Spec => []MarksFollowBook
<1>1. IInv => MarksFollowBook
  BY DEF IInv, GatewayInv, InTime, Valued, MarksFollowBook
<1> QED BY <1>1, SpecIInv, PTL

(***************************************************************************)
(* The account of a run: who was told what, and what it adds up to.        *)
(***************************************************************************)

(* Without a self-trade the fills add up to the position; without latency   *)
(* the strategy was handed them all; without a rejection the log has them   *)
(* all; and orders whose cancel was accepted are dead.                     *)
AccountInv ==
  /\ gw.fills \in Seq(Fills) /\ handed \in Seq(Fills)
  /\ calls \in 0..MaxCalls /\ met \subseteq Troubles
  /\ calls = 0 => gw.engine.nextId = FirstOwnId
  /\ "self_trade" \notin met => gw.engine.position = Net(gw.fills)
  /\ "latency" \notin met => handed = gw.fills
  /\ "rejection" \notin met => FillsOf(log) = gw.fills
  /\ Buried(log, gw.engine)

LEMMA InitAccountInv ==
  Init => AccountInv
<1> SUFFICES ASSUME Init PROVE AccountInv
  OBVIOUS
<1> DEFINE none == <<>>
<1>1. /\ gw = [engine |-> EmptyEngine, cursor |-> 0, now |-> 0, fills |-> none, marks |-> none]
      /\ log = none /\ calls = 0 /\ handed = none /\ met = {}
  BY DEF Init
<1>2. /\ none \in Seq(Fills) /\ none \in Seq(ActiveFills) /\ Len(none) = 0
      /\ none \in Seq(LogRows)
  OBVIOUS
<1>3. Net(none) = 0
  BY <1>2, NetFacts
<1>4. FillsOf(none) = none
  <2>1. PICK h : Tells(h, none) /\ FillsOf(none) = h[Len(none)]
    <3> HIDE DEF none
    <3> QED BY <1>2, FillsOfTells
  <2> QED BY <1>2, <2>1 DEF Tells
<1>5. EmptyEngine.nextId = FirstOwnId /\ EmptyEngine.position = 0
  BY DEF EmptyEngine
<1>6. gw.engine = EmptyEngine /\ gw.fills = none
  <2> DEFINE e == EmptyEngine
  <2>1. gw = [engine |-> e, cursor |-> 0, now |-> 0, fills |-> none, marks |-> none]
    BY <1>1
  <2> HIDE DEF e, none
  <2>2. gw.engine = e /\ gw.fills = none
    BY <2>1
  <2> QED BY <2>2 DEF e
<1>7. Buried(none, EmptyEngine)
  BY <1>2 DEF Buried
<1>8. calls \in 0..MaxCalls /\ met \subseteq Troubles
  BY <1>1, GatewayBounds
<1> HIDE DEF none
<1> QED BY <1>1, <1>2, <1>3, <1>4, <1>5, <1>6, <1>7, <1>8 DEF AccountInv

(* What every call has in common.  Its fills are of orders alive before; a  *)
(* call without latency has none, nothing being due at the same time again. *)
LEMMA CallAdvances ==
  ASSUME events \in Seq(MBOEvents), InTimeOrder(events), GatewayInv(gw, events),
         NEW ts \in Nat, gw.now <= ts, NEW b, b = Advance(gw, events, ts)
  PROVE  /\ GatewayInv(b.gw, events) /\ b.gw.engine.nextId = gw.engine.nextId
         /\ b.gw.fills = gw.fills \o b.fills
         /\ b.fills \in Seq(Fills) /\ GivenOut(b.fills, gw.engine.nextId)
<1> DEFINE a == Advance(gw, events, ts)
<1>1. /\ GatewayInv(a.gw, events) /\ Caught(a.gw, events)
      /\ a.gw.now = ts /\ a.gw.engine.nextId = gw.engine.nextId
      /\ a.gw.fills = gw.fills \o a.fills
      /\ a.fills \in Seq(Fills) /\ InTime(a.fills, gw.now, ts)
      /\ GivenOut(a.fills, gw.engine.nextId)
  BY AdvanceFacts
<1> HIDE DEF a
<1> QED BY <1>1 DEF a

LEMMA CallAccounts ==
  ASSUME IInv, AccountInv, NEW ts \in Nat, gw.now <= ts,
         NEW a, a = Advance(gw, events, ts)
  PROVE  /\ EngineInv(a.gw.engine) /\ a.gw.engine.nextId = gw.engine.nextId
         /\ a.fills \in Seq(Fills)
         /\ a.gw.fills = gw.fills \o a.fills /\ a.gw.fills \in Seq(Fills)
         /\ "self_trade" \notin met => a.gw.engine.position = Net(a.gw.fills)
         /\ ts = gw.now => a.fills = <<>> /\ a.gw.fills = gw.fills
         /\ log \o Rows("fill_passive", a.fills) \in Seq(LogRows)
         /\ "rejection" \notin met
               => FillsOf(log \o Rows("fill_passive", a.fills)) = a.gw.fills
         /\ Buried(log \o Rows("fill_passive", a.fills), a.gw.engine)
         /\ Buried(log, a.gw.engine)
<1> DEFINE e == gw.engine
           f == a.gw.engine
           old == gw.fills
           new == a.fills
           next == e.nextId
<1>1. /\ events \in Seq(MBOEvents) /\ InTimeOrder(events) /\ GatewayInv(gw, events)
      /\ log \in Seq(LogRows) /\ EngineInv(e)
      /\ old \in Seq(Fills) /\ old \in Seq(ActiveFills)
      /\ calls \in Nat /\ (calls > 0 => Caught(gw, events))
      /\ (calls = 0 => next = FirstOwnId)
      /\ Buried(log, e)
  BY FillsAreActive DEF IInv, StreamInv, LogInv, CallsInv, GatewayInv, AccountInv
<1>2. /\ EngineInv(f) /\ f.nextId = next /\ a.gw.fills = old \o new
      /\ new \in Seq(Fills) /\ GivenOut(new, next)
      /\ a.gw.fills \in Seq(Fills)
  <2> DEFINE b == Advance(gw, events, ts)
  <2>0. a = b
    OBVIOUS
  <2>1. /\ GatewayInv(a.gw, events) /\ f.nextId = next /\ a.gw.fills = old \o new
        /\ new \in Seq(Fills) /\ GivenOut(new, next)
    <3>1. /\ GatewayInv(b.gw, events) /\ b.gw.engine.nextId = gw.engine.nextId
          /\ b.gw.fills = gw.fills \o b.fills
          /\ b.fills \in Seq(Fills) /\ GivenOut(b.fills, gw.engine.nextId)
      <4> HIDE DEF f, e, old, new, next
      <4> QED BY <1>1, CallAdvances
    <3> HIDE DEF b
    <3> QED BY <2>0, <3>1
  <2>2. EngineInv(f)
    BY <2>1 DEF GatewayInv
  <2>3. old \o new \in Seq(Fills)
    BY <1>1, <2>1
  <2> QED BY <2>1, <2>2, <2>3
<1>3. /\ f.position - Net(new) = e.position
      /\ \A j \in Nat : SizeOf(f, Own(j)) + FilledOf(j, new) = SizeOf(e, Own(j))
      /\ \A x \in DOMAIN f.orders : IsOwn(x) => x \in DOMAIN e.orders
      /\ Caught(gw, events) /\ ts = gw.now => new = <<>>
  BY <1>1, AdvanceSettles
<1>4. /\ new \in Seq(ActiveFills)
      /\ e.position \in Int /\ f.position \in Int /\ next \in Nat
      /\ e.orders \in [DOMAIN e.orders -> Orders] /\ f.orders \in [DOMAIN f.orders -> Orders]
  <2>1. new \in Seq(ActiveFills)
    BY <1>2, FillsAreActive
  <2>2. /\ e.position \in Int /\ next \in Nat /\ e.orders \in [DOMAIN e.orders -> Orders]
    BY <1>1, EngineFields DEF EngineInv
  <2>3. /\ f.position \in Int /\ f.orders \in [DOMAIN f.orders -> Orders]
    BY <1>2, EngineFields DEF EngineInv
  <2> QED BY <2>1, <2>2, <2>3
<1>5. "self_trade" \notin met => f.position = Net(a.gw.fills)
  <2>1. SUFFICES ASSUME "self_trade" \notin met PROVE f.position = Net(a.gw.fills)
    OBVIOUS
  <2>2. e.position = Net(old)
    BY <2>1 DEF AccountInv
  <2>3. Net(old \o new) = Net(old) + Net(new) /\ Net(old) \in Int /\ Net(new) \in Int
    BY <1>1, <1>4, NetFacts
  <2> DEFINE p == f.position
             q == Net(old)
             n == Net(new)
             t == Net(a.gw.fills)
  <2>4. p \in Int /\ q \in Int /\ n \in Int /\ p - n = q /\ t = q + n
    BY <1>2, <1>3, <1>4, <2>2, <2>3
  <2> HIDE DEF p, q, n, t
  <2>5. p = t
    BY <2>4
  <2> QED BY <2>5 DEF p, t
<1>6. ts = gw.now => new = <<>> /\ a.gw.fills = old
  <2>1. SUFFICES ASSUME ts = gw.now PROVE new = <<>>
    <3>1. old \o <<>> = old
      BY <1>1, ConcatEmptySeq
    <3> QED BY <1>2, <2>1, <3>1
  <2>2. CASE calls > 0
    BY <1>1, <1>3, <2>1, <2>2
  <2>3. CASE calls = 0
    <3>1. next = FirstOwnId
      BY <1>1, <2>3
    <3>2. FirstOwnId..(next - 1) = {}
      BY <3>1, FirstOwnIdAssumption
    <3>3. \A i \in 1..Len(new) : FALSE
      BY <1>2, <3>2 DEF GivenOut
    <3> HIDE DEF new
    <3>4. Len(new) \in Nat
      BY <1>2
    <3>5. Len(new) = 0
      <4>1. Len(new) # 0 => 1 \in 1..Len(new)
        BY <3>4
      <4> QED BY <3>3, <4>1
    <3> QED BY <1>2, <3>5, EmptySeq
  <2> QED BY <1>1, <2>2, <2>3
<1>7. ASSUME NEW id, Dead(e, id)
      PROVE  Dead(f, id) /\ \A i \in 1..Len(new) : new[i].id # id
  <2>1. id \in Nat /\ id < next /\ Own(id) \notin DOMAIN e.orders
    BY <1>7 DEF Dead
  <2>2. IsOwn(Own(id))
    BY <2>1, EntryFacts
  <2>3. Own(id) \notin DOMAIN f.orders
    BY <1>3, <2>1, <2>2
  <2>4. FilledOf(id, new) \in Nat
    BY <1>4, FilledFacts
  <2>5. SizeOf(e, Own(id)) = 0 /\ SizeOf(f, Own(id)) = 0
    BY <2>1, <2>3 DEF SizeOf
  <2>6. SizeOf(f, Own(id)) + FilledOf(id, new) = SizeOf(e, Own(id))
    BY <1>3, <2>1
  <2>7. FilledOf(id, new) = 0
    BY <2>4, <2>5, <2>6
  <2>8. \A i \in 1..Len(new) : new[i].id # id
    <3> HIDE DEF new
    <3> QED BY <1>2, <2>7, NoFillsNoId
  <2>9. Dead(f, id)
    BY <1>2, <2>1, <2>3 DEF Dead
  <2> QED BY <2>8, <2>9
<1>8. log \o Rows("fill_passive", new) \in Seq(LogRows)
  BY <1>1, CallAdvanceFacts
<1>9. "rejection" \notin met => FillsOf(log \o Rows("fill_passive", new)) = a.gw.fills
  <2>1. SUFFICES ASSUME "rejection" \notin met
                 PROVE  FillsOf(log \o Rows("fill_passive", new)) = a.gw.fills
    OBVIOUS
  <2>2. FillsOf(log) = old
    BY <2>1 DEF AccountInv
  <2> HIDE DEF new
  <2>3. FillsOf(log \o Rows("fill_passive", new)) = FillsOf(log) \o new
    BY <1>1, <1>4, FillsOfRows
  <2> QED BY <1>2, <2>2, <2>3
<1>10. Buried(log \o Rows("fill_passive", new), f)
  <2>1. \A id : Dead(e, id) => Dead(f, id)
    BY <1>7
  <2>2. \A i \in 1..Len(new) : ~Dead(e, new[i].id)
    BY <1>7
  <2> HIDE DEF e, f, new
  <2> QED BY <1>1, <1>4, <2>1, <2>2, BuriedRows
<1>11. Buried(log, f)
  <2>1. \A id : Dead(e, id) => Dead(f, id)
    BY <1>7
  <2> HIDE DEF e, f
  <2> QED BY <1>1, <2>1 DEF Buried
<1> QED BY <1>2, <1>5, <1>6, <1>8, <1>9, <1>10, <1>11

LEMMA PlaceOrderAccounts ==
  ASSUME IInv, AccountInv, NEW kind \in {"place_limit", "place_market"},
         NEW side \in OrderSides, NEW n \in Nat \ {0},
         NEW limit, NEW tif, tif = "GTC" => limit \in Prices,
         NEW entry \in Nat, PlaceOrder(kind, side, n, limit, tif, entry)
  PROVE  AccountInv'
<1> DEFINE ts == gw.now + entry
           a == Advance(gw, events, ts)
           e == a.gw.engine
           r == Place(e, side, n, limit, tif)
           row == PlaceRow(kind, a.gw.now, r)
           one == <<row>>
           passive == log \o Rows("fill_passive", a.fills)
           opposite == OppositeBookSide(side)
<1>1. gw.now \in Nat /\ ts \in Nat /\ gw.now <= ts /\ (entry = 0 => ts = gw.now)
  BY DEF IInv, GatewayInv
<1>2. /\ gw' = Executed(a.gw, r.e, r.fills)
      /\ log' = passive \o one \o Rows("fill", r.fills)
      /\ handed' = handed \o r.fills
      /\ calls' = calls + 1 /\ calls < MaxCalls
      /\ met' = met \cup Delayed(entry)
                    \cup (IF MatchesOwn(e, side, limit) THEN {"self_trade"} ELSE {})
  BY DEF PlaceOrder, AtReceipt, CallReceived, Call
<1>3. a.gw.now = ts
  BY <1>1, CallAdvanceFacts
<1>4. /\ EngineInv(e) /\ a.fills \in Seq(Fills)
      /\ a.gw.fills = gw.fills \o a.fills /\ a.gw.fills \in Seq(Fills)
      /\ "self_trade" \notin met => e.position = Net(a.gw.fills)
      /\ ts = gw.now => a.gw.fills = gw.fills
      /\ passive \in Seq(LogRows)
      /\ "rejection" \notin met => FillsOf(passive) = a.gw.fills
      /\ Buried(passive, e)
  BY <1>1, CallAccounts
<1>5. /\ gw'.engine = r.e /\ gw'.fills = a.gw.fills \o r.fills
  <2> DEFINE g == a.gw
             re == r.e
             fs == r.fills
  <2>1. GatewayInv(g, events)
    BY <1>1, CallAdvanceFacts
  <2>2. g = [engine |-> g.engine, cursor |-> g.cursor, now |-> g.now,
             fills |-> g.fills, marks |-> g.marks]
    BY <2>1 DEF GatewayInv
  <2>3. gw' = Executed(g, re, fs)
    BY <1>2
  <2> HIDE DEF g, re, fs
  <2>4. DOMAIN g = {"engine", "cursor", "now", "fills", "marks"}
    BY <2>2
  <2>5. gw'.engine = re /\ gw'.fills = g.fills \o fs
    BY <2>3, <2>4 DEF Executed
  <2> QED BY <2>5 DEF g, re, fs
<1> HIDE DEF ts, a
<1> DEFINE next == e.nextId
<1>6. /\ r.fills \in Seq(Fills)
      /\ r.e.position - Net(r.e.fills) - Net(r.fills) = e.position - Net(e.fills)
      /\ NoneAt(e, {opposite} \X Matchable(e, opposite, limit)) => r.e.fills = e.fills
      /\ \A x \in DOMAIN r.e.orders : x # Own(next) => x \in DOMAIN e.orders
  <2> HIDE DEF e, r
  <2>1. EngineInv(e) /\ r = Place(e, side, n, limit, tif)
    BY <1>4 DEF r
  <2>2. /\ r.fills \in Seq(Fills)
        /\ r.e.position - Net(r.e.fills) - Net(r.fills) = e.position - Net(e.fills)
        /\ NoneAt(e, {opposite} \X Matchable(e, opposite, limit)) => r.e.fills = e.fills
        /\ \A x \in DOMAIN r.e.orders : x # Own(next) => x \in DOMAIN e.orders
    <3>1. Placed(e, side, n, limit, r)
      BY <2>1, PlaceAccounts
    <3> QED BY <3>1 DEF Placed
  <2> QED BY <2>2
<1>7. /\ EngineInv(r.e) /\ r.e.nextId = next + 1 /\ r.id = next
      /\ Told(r.fills, next, e.now)
  <2> HIDE DEF e
  <2> QED BY <1>4, PlaceFacts
<1>8. /\ e.position \in Int /\ next \in Nat /\ e.fills \in Seq(ActiveFills)
      /\ r.e.position \in Int /\ r.fills \in Seq(ActiveFills)
      /\ a.gw.fills \in Seq(ActiveFills)
  <2>1. e.position \in Int /\ next \in Nat /\ e.fills \in Seq(Fills)
    BY <1>4, EngineFields DEF EngineInv
  <2>2. r.e.position \in Int
    BY <1>7, EngineFields DEF EngineInv
  <2> QED BY <1>4, <1>6, <2>1, <2>2, FillsAreActive
<1> HIDE DEF r, e
<1>9. gw'.fills \in Seq(Fills) /\ handed' \in Seq(Fills)
  <2>1. handed \in Seq(Fills)
    BY DEF AccountInv
  <2> QED BY <1>2, <1>4, <1>5, <1>6, <2>1
<1>10. calls' \in 0..MaxCalls /\ met' \subseteq Troubles /\ calls' # 0
  <2>1. calls \in 0..MaxCalls /\ met \subseteq Troubles
    BY DEF AccountInv
  <2>2. Delayed(entry) \subseteq Troubles
    BY DEF Delayed, Troubles
  <2>3. MaxCalls \in Nat
    BY GatewayBounds
  <2>4. calls' \in 0..MaxCalls /\ calls' # 0
    BY <1>2, <2>1, <2>3
  <2>5. met' \subseteq Troubles
    BY <1>2, <2>1, <2>2 DEF Troubles
  <2> QED BY <2>4, <2>5
<1>11. "self_trade" \notin met' => gw'.engine.position = Net(gw'.fills)
  <2>1. SUFFICES ASSUME "self_trade" \notin met' PROVE r.e.position = Net(gw'.fills)
    BY <1>5
  <2>2. "self_trade" \notin met /\ ~MatchesOwn(e, side, limit)
    BY <1>2, <2>1
  <2>3. NoneAt(e, {opposite} \X Matchable(e, opposite, limit))
    BY <2>2 DEF MatchesOwn, NoneAt
  <2>4. Net(a.gw.fills \o r.fills) = Net(a.gw.fills) + Net(r.fills)
        /\ Net(a.gw.fills) \in Int /\ Net(r.fills) \in Int /\ Net(e.fills) \in Int
    BY <1>8, NetFacts
  <2> DEFINE p == r.e.position
             q == Net(a.gw.fills)
             k == Net(r.fills)
             t == Net(gw'.fills)
             o == Net(e.fills)
  <2>5. /\ p \in Int /\ q \in Int /\ k \in Int /\ o \in Int
        /\ p - o - k = q - o /\ t = q + k
    BY <1>4, <1>5, <1>6, <1>8, <2>2, <2>3, <2>4
  <2> HIDE DEF p, q, k, t, o
  <2>6. p = t
    BY <2>5
  <2> QED BY <2>6 DEF p, t
<1>12. "latency" \notin met' => handed' = gw'.fills
  <2>1. SUFFICES ASSUME "latency" \notin met' PROVE handed' = gw'.fills
    OBVIOUS
  <2>2. "latency" \notin met /\ "latency" \notin Delayed(entry)
    BY <1>2, <2>1
  <2>3. entry = 0
    BY <2>2 DEF Delayed
  <2> QED BY <1>1, <1>2, <1>4, <1>5, <2>2, <2>3 DEF AccountInv
<1>13. row \in LogRows /\ ~IsFillRow(row) /\ ~AcceptedCancel(row)
  <2>1. r.id \in Nat /\ a.gw.now \in Nat
    BY <1>1, <1>3, <1>7, <1>8
  <2>2. row \in LogRows
    BY <2>1, PlaceRowFacts
  <2> QED BY <2>2 DEF PlaceRow, IsFillRow, AcceptedCancel
<1> HIDE DEF row, passive
<1>14. one \in Seq(LogRows) /\ passive \o one \in Seq(LogRows) /\ Len(one) = 1 /\ one[1] = row
  BY <1>4, <1>13
<1>15. "rejection" \notin met' => FillsOf(log') = gw'.fills
  <2>1. SUFFICES ASSUME "rejection" \notin met' PROVE FillsOf(log') = gw'.fills
    OBVIOUS
  <2>2. "rejection" \notin met
    BY <1>2, <2>1
  <2>3. FillsOf(passive \o one) = a.gw.fills
    BY <1>4, <1>13, <2>2, FillsOfOtherRow
  <2> HIDE DEF one
  <2>4. FillsOf(passive \o one \o Rows("fill", r.fills)) = FillsOf(passive \o one) \o r.fills
    BY <1>8, <1>14, FillsOfRows
  <2> QED BY <1>2, <1>5, <2>3, <2>4
<1>16. Buried(passive \o one, e)
  <2>1. Buried(one, e)
    BY <1>13, <1>14, NobodyBuried
  <2>2. \A i \in 1..Len(one) : IsFillRow(one[i]) => ~Dead(e, one[i].fill.id)
    BY <1>13, <1>14
  <2> HIDE DEF one
  <2> QED BY <1>4, <1>14, <2>1, <2>2, BuriedConcat
<1>17. Buried(log', gw'.engine)
  <2>1. ASSUME NEW id, Dead(e, id) PROVE Dead(r.e, id)
    <3>1. id \in Nat /\ id < next /\ Own(id) \notin DOMAIN e.orders
      BY <2>1 DEF Dead
    <3>2. Own(id) # Own(next)
      BY <1>8, <3>1, EntryFacts DEF Own
    <3>3. Own(id) \notin DOMAIN r.e.orders
      BY <1>6, <3>1, <3>2
    <3> QED BY <1>7, <1>8, <3>1, <3>3 DEF Dead
  <2>2. \A i \in 1..Len(r.fills) : ~Dead(e, r.fills[i].id)
    <3>1. ~Dead(e, next)
      BY <1>8 DEF Dead
    <3> QED BY <1>7, <3>1 DEF Told
  <2> DEFINE s == passive \o one
             fs == r.fills
             f == r.e
  <2>3. /\ s \in Seq(LogRows) /\ fs \in Seq(ActiveFills) /\ Buried(s, e)
        /\ (\A id : Dead(e, id) => Dead(f, id))
        /\ \A i \in 1..Len(fs) : ~Dead(e, fs[i].id)
        /\ log' = s \o Rows("fill", fs) /\ gw'.engine = f
    BY <1>2, <1>5, <1>8, <1>14, <1>16, <2>1, <2>2
  <2> HIDE DEF s, fs, f
  <2>4. Buried(s \o Rows("fill", fs), f)
    BY <2>3, BuriedRows
  <2> QED BY <2>3, <2>4
<1> QED BY <1>9, <1>10, <1>11, <1>12, <1>15, <1>17 DEF AccountInv

LEMMA CancelAccounts ==
  ASSUME IInv, AccountInv, NEW id \in Nat, NEW entry \in Nat, Cancel(id, entry)
  PROVE  AccountInv'
<1> DEFINE ts == gw.now + entry
           a == Advance(gw, events, ts)
           e == a.gw.engine
           f == CancelOwn(e, id)
           accepted == Own(id) \in DOMAIN e.orders
           row == CancelRow(a.gw.now, id, accepted)
           one == <<row>>
           passive == log \o Rows("fill_passive", a.fills)
<1>1. gw.now \in Nat /\ ts \in Nat /\ gw.now <= ts /\ (entry = 0 => ts = gw.now)
  BY DEF IInv, GatewayInv
<1>2. /\ gw' = Executed(a.gw, f, <<>>)
      /\ log' = passive \o one
      /\ handed' = handed
      /\ calls' = calls + 1 /\ calls < MaxCalls
      /\ met' = met \cup Delayed(entry)
  BY DEF Cancel, AtReceipt, CallReceived, Call
<1>3. a.gw.now = ts
  BY <1>1, CallAdvanceFacts
<1>4. /\ EngineInv(e)
      /\ a.gw.fills \in Seq(Fills)
      /\ "self_trade" \notin met => e.position = Net(a.gw.fills)
      /\ ts = gw.now => a.gw.fills = gw.fills
      /\ passive \in Seq(LogRows)
      /\ "rejection" \notin met => FillsOf(passive) = a.gw.fills
      /\ Buried(passive, e)
  BY <1>1, CallAccounts
<1>5. gw'.engine = f /\ gw'.fills = a.gw.fills
  <2> DEFINE g == a.gw
  <2>1. GatewayInv(g, events)
    BY <1>1, CallAdvanceFacts
  <2>2. g = [engine |-> g.engine, cursor |-> g.cursor, now |-> g.now,
             fills |-> g.fills, marks |-> g.marks]
    BY <2>1 DEF GatewayInv
  <2>3. gw' = Executed(g, f, <<>>) /\ g.fills \in Seq(Fills)
    BY <1>2, <1>4
  <2> HIDE DEF g, f
  <2>4. DOMAIN g = {"engine", "cursor", "now", "fills", "marks"}
    BY <2>2
  <2>5. gw'.engine = f /\ gw'.fills = g.fills \o <<>>
    BY <2>3, <2>4 DEF Executed
  <2>6. g.fills \o <<>> = g.fills
    BY <2>3, ConcatEmptySeq
  <2> QED BY <2>5, <2>6 DEF g
<1> HIDE DEF ts, a, e
<1>6. /\ f.position = e.position /\ f.nextId = e.nextId
      /\ \A j \in Nat : Own(j) \in DOMAIN f.orders => Own(j) \in DOMAIN e.orders
      /\ Own(id) \notin DOMAIN f.orders
  BY <1>4, CancelOwnAccounts, CancelOwnFacts
<1>7. calls' \in 0..MaxCalls /\ met' \subseteq Troubles /\ calls' # 0
  <2>1. calls \in 0..MaxCalls /\ met \subseteq Troubles
    BY DEF AccountInv
  <2>2. Delayed(entry) \subseteq Troubles
    BY DEF Delayed, Troubles
  <2> QED BY <1>2, <2>1, <2>2, GatewayBounds
<1>8. "latency" \notin met' => handed' = gw'.fills
  <2>1. SUFFICES ASSUME "latency" \notin met' PROVE handed' = gw'.fills
    OBVIOUS
  <2>2. "latency" \notin met /\ "latency" \notin Delayed(entry)
    BY <1>2, <2>1
  <2>3. entry = 0
    BY <2>2 DEF Delayed
  <2> QED BY <1>1, <1>2, <1>4, <1>5, <2>2, <2>3 DEF AccountInv
<1>9. /\ row \in LogRows /\ ~IsFillRow(row)
      /\ AcceptedCancel(row) => row.id = id /\ Own(id) \in DOMAIN e.orders
  <2>1. accepted \in BOOLEAN /\ a.gw.now \in Nat
    BY <1>1, <1>3
  <2>2. AcceptedCancel(row) => accepted
    <3> HIDE DEF accepted
    <3> QED BY DEF AcceptedCancel, CancelRow
  <2>3. row.id = id /\ ~IsFillRow(row)
    BY DEF CancelRow, IsFillRow
  <2>4. row \in LogRows
    <3> HIDE DEF accepted
    <3> QED BY <2>1, CancelRowFacts
  <2> QED BY <2>2, <2>3, <2>4
<1> HIDE DEF row, passive, f
<1>10. one \in Seq(LogRows) /\ Len(one) = 1 /\ one[1] = row
  BY <1>9
<1>11. "rejection" \notin met' => FillsOf(log') = gw'.fills
  <2>1. SUFFICES ASSUME "rejection" \notin met' PROVE FillsOf(log') = gw'.fills
    OBVIOUS
  <2>2. "rejection" \notin met
    BY <1>2, <2>1
  <2>3. FillsOf(passive \o one) = FillsOf(passive)
    BY <1>4, <1>9, FillsOfOtherRow
  <2> QED BY <1>2, <1>4, <1>5, <2>2, <2>3
<1>12. Buried(log', f)
  <2>1. ASSUME NEW j, Dead(e, j) PROVE Dead(f, j)
    BY <1>6, <2>1 DEF Dead
  <2>2. Buried(one, f)
    <3>1. AcceptedCancel(row) => Dead(f, row.id)
      <4>1. Own(id) \in DOMAIN e.orders => id < e.nextId
        <5>1. SUFFICES ASSUME Own(id) \in DOMAIN e.orders PROVE id < e.nextId
          OBVIOUS
        <5>2. Own(id) \in OwnOrders(e) /\ Own(id)[2] = id
          BY <5>1, EntryFacts DEF OwnOrders, Own
        <5>3. id \in FirstOwnId..(e.nextId - 1)
          BY <1>4, <5>2 DEF EngineInv, OwnIdsGivenOut
        <5>4. e.nextId \in Nat
          BY <1>4, EngineFields DEF EngineInv
        <5> QED BY <5>3, <5>4, FirstOwnIdAssumption
      <4> QED BY <1>6, <1>9, <4>1 DEF Dead
    <3> QED BY <1>10, <3>1 DEF Buried
  <2>3. \A i \in 1..Len(one) : IsFillRow(one[i]) => ~Dead(e, one[i].fill.id)
    BY <1>9, <1>10
  <2> HIDE DEF one
  <2>4. Buried(passive \o one, f)
    BY <1>4, <1>10, <2>1, <2>2, <2>3, BuriedConcat
  <2> QED BY <1>2, <2>4
<1>13. "self_trade" \notin met' => gw'.engine.position = Net(gw'.fills)
  <2>1. "self_trade" \notin met' => "self_trade" \notin met
    BY <1>2
  <2> QED BY <1>4, <1>5, <1>6, <2>1
<1>14. gw'.fills \in Seq(Fills) /\ handed' \in Seq(Fills)
  BY <1>2, <1>4, <1>5 DEF AccountInv
<1> QED BY <1>5, <1>7, <1>8, <1>11, <1>12, <1>13, <1>14 DEF AccountInv

LEMMA AdvanceToAccounts ==
  ASSUME IInv, AccountInv, NEW ts \in Nat, AdvanceTo(ts)
  PROVE  AccountInv'
<1> DEFINE a == Advance(gw, events, ts)
<1>1. gw.now <= ts
  BY DEF IInv, GatewayInv, AdvanceTo
<1>2. /\ gw' = a.gw /\ log' = log \o Rows("fill_passive", a.fills)
      /\ handed' = handed \o a.fills /\ met' = met
      /\ calls' = calls + 1 /\ calls < MaxCalls
  BY DEF AdvanceTo, Call
<1> HIDE DEF a
<1>3. /\ a.fills \in Seq(Fills)
      /\ a.gw.fills = gw.fills \o a.fills /\ a.gw.fills \in Seq(Fills)
      /\ "self_trade" \notin met => a.gw.engine.position = Net(a.gw.fills)
      /\ "rejection" \notin met
            => FillsOf(log \o Rows("fill_passive", a.fills)) = a.gw.fills
      /\ Buried(log \o Rows("fill_passive", a.fills), a.gw.engine)
  BY <1>1, CallAccounts DEF a
<1>4. /\ handed \in Seq(Fills) /\ calls \in 0..MaxCalls /\ met \subseteq Troubles
      /\ ("latency" \notin met => handed = gw.fills)
  BY DEF AccountInv
<1>5. handed' \in Seq(Fills)
  BY <1>2, <1>3, <1>4
<1>6. calls' \in 0..MaxCalls /\ calls' # 0
  BY <1>2, <1>4, GatewayBounds
<1> QED BY <1>2, <1>3, <1>4, <1>5, <1>6 DEF AccountInv

LEMMA PlaceInvalidAccounts ==
  ASSUME IInv, AccountInv, NEW entry \in Nat, PlaceInvalid(entry)
  PROVE  AccountInv'
<1> DEFINE ts == gw.now + entry
           a == Advance(gw, events, ts)
<1>1. gw.now \in Nat /\ ts \in Nat /\ gw.now <= ts /\ (entry = 0 => ts = gw.now)
  BY DEF IInv, GatewayInv
<1>2. /\ gw' = a.gw /\ log' = log /\ handed' = handed
      /\ met' = met \cup Delayed(entry) \cup {"rejection"}
      /\ calls' = calls + 1 /\ calls < MaxCalls
  BY DEF PlaceInvalid, AtReceipt, CallReceived, Call
<1> HIDE DEF ts, a
<1>3. /\ a.gw.fills \in Seq(Fills)
      /\ "self_trade" \notin met => a.gw.engine.position = Net(a.gw.fills)
      /\ ts = gw.now => a.gw.fills = gw.fills
      /\ Buried(log, a.gw.engine)
  BY <1>1, CallAccounts DEF a
<1>4. /\ handed \in Seq(Fills) /\ calls \in 0..MaxCalls /\ met \subseteq Troubles
      /\ ("latency" \notin met => handed = gw.fills)
  BY DEF AccountInv
<1>5. calls' \in 0..MaxCalls /\ calls' # 0
  BY <1>2, <1>4, GatewayBounds
<1>6. met' \subseteq Troubles /\ "rejection" \in met'
  BY <1>2, <1>4 DEF Delayed, Troubles
<1>7. "latency" \notin met' => handed' = gw'.fills
  <2>1. SUFFICES ASSUME "latency" \notin met' PROVE handed' = gw'.fills
    OBVIOUS
  <2>2. "latency" \notin met /\ "latency" \notin Delayed(entry)
    BY <1>2, <2>1
  <2>3. entry = 0
    BY <2>2 DEF Delayed
  <2> QED BY <1>1, <1>2, <1>3, <1>4, <2>2, <2>3
<1>8. "self_trade" \notin met' => "self_trade" \notin met
  BY <1>2
<1> QED BY <1>2, <1>3, <1>4, <1>5, <1>6, <1>7, <1>8 DEF AccountInv

LEMMA NextAccountInv ==
  IInv /\ AccountInv /\ [Next]_vars => AccountInv'
<1> SUFFICES ASSUME IInv, AccountInv, [Next]_vars PROVE AccountInv'
  OBVIOUS
<1>1. EntryLatencies \subseteq Nat /\ 1..MaxSize \subseteq Nat \ {0} /\ 0..MaxTime \subseteq Nat
  BY LatencyAssumption, GatewayBounds
<1>2. DOMAIN arrival \subseteq Nat
  BY FirstOwnIdAssumption DEF IInv, ArrivalInv, Arrivals
<1>3. ASSUME NEW ts \in 0..MaxTime, AdvanceTo(ts) PROVE AccountInv'
  BY <1>1, <1>3, AdvanceToAccounts
<1>4. ASSUME NEW entry \in EntryLatencies, NEW side \in OrderSides, NEW n \in 1..MaxSize,
             NEW price \in Prices, NEW tif \in Tifs, PlaceLimit(side, n, price, tif, entry)
      PROVE  AccountInv'
  <2>1. entry \in Nat /\ n \in Nat \ {0} /\ (tif = "GTC" => price \in Prices)
    BY <1>1
  <2>2. PlaceOrder("place_limit", side, n, price, tif, entry)
    BY <1>4 DEF PlaceLimit
  <2> QED BY <2>1, <2>2, PlaceOrderAccounts
<1>5. ASSUME NEW entry \in EntryLatencies, NEW side \in OrderSides, NEW n \in 1..MaxSize,
             PlaceMarket(side, n, entry)
      PROVE  AccountInv'
  <2>1. entry \in Nat /\ n \in Nat \ {0} /\ ("IOC" = "GTC" => NoLimit \in Prices)
    BY <1>1
  <2>2. PlaceOrder("place_market", side, n, NoLimit, "IOC", entry)
    BY <1>5 DEF PlaceMarket
  <2> QED BY <2>1, <2>2, PlaceOrderAccounts
<1>6. ASSUME NEW entry \in EntryLatencies, PlaceInvalid(entry) PROVE AccountInv'
  BY <1>1, <1>6, PlaceInvalidAccounts
<1>7. ASSUME NEW entry \in EntryLatencies, NEW id \in DOMAIN arrival, Cancel(id, entry)
      PROVE  AccountInv'
  BY <1>1, <1>2, <1>7, CancelAccounts
<1>8. CASE UNCHANGED vars
  BY <1>8 DEF vars, AccountInv
<1> QED BY <1>3, <1>4, <1>5, <1>6, <1>7, <1>8 DEF Next

LEMMA SpecAccountInv ==
  Spec => [](IInv /\ AccountInv)
<1>1. Init => IInv /\ AccountInv
  BY InitIInv, InitAccountInv
<1>2. IInv /\ AccountInv /\ [Next]_vars => (IInv /\ AccountInv)'
  BY NextIInv, NextAccountInv
<1> QED BY <1>1, <1>2, PTL DEF Spec

(* The gateway and its histories keep their types; order ids are given out  *)
(* one after the other, each with its arrival.                             *)
THEOREM GatewayAlwaysTyped ==
  Spec => []TypeOK
<1>1. IInv /\ AccountInv => TypeOK
  <2> SUFFICES ASSUME IInv, AccountInv PROVE TypeOK
    OBVIOUS
  <2>1. EngineOK(gw.engine) /\ gw.cursor \in 0..Len(events) /\ gw.now \in Nat
    BY DEF IInv, GatewayInv, EngineInv
  <2>2. \A i \in DOMAIN log : log[i].ts \in Nat
    <3>1. log \in Seq(LogRows)
      BY DEF IInv, LogInv
    <3> QED BY <3>1, LogRowsFacts
  <2>3. DOMAIN arrival = FirstOwnId..(gw.engine.nextId - 1)
    BY DEF IInv, ArrivalInv, Arrivals
  <2> QED BY <2>1, <2>2, <2>3 DEF TypeOK, AccountInv
<1> QED BY <1>1, SpecAccountInv, PTL

(* position() is the net of the fills the run reports, as long as the       *)
(* strategy never matches an order of its own (simulator.py: the fills of    *)
(* advances and of calls are all the fills there are).                     *)
THEOREM PositionAlwaysNetOfFills ==
  Spec => []PositionIsNetWithoutSelfTrade
<1>1. AccountInv => PositionIsNetWithoutSelfTrade
  BY DEF AccountInv, PositionIsNetWithoutSelfTrade, PositionIsNetOfFills
<1> QED BY <1>1, SpecAccountInv, PTL

(* The strategy is handed every fill once and in order as long as no call   *)
(* takes time to reach the venue: an advance to the present applies nothing *)
(* twice and finds nothing that was left behind.                           *)
THEOREM StrategyToldEveryFill ==
  Spec => []StrategySeesEveryFillWithoutLatency
<1>1. AccountInv => StrategySeesEveryFillWithoutLatency
  BY DEF AccountInv, StrategySeesEveryFillWithoutLatency, StrategySeesEveryFill
<1> QED BY <1>1, SpecAccountInv, PTL

(* The audit log tells every fill of the run once and in order, passive or  *)
(* active, as long as the engine rejects no order (recording.py).           *)
THEOREM LogAlwaysTellsFills ==
  Spec => []LogTellsEveryFillOfValidCalls
<1>1. AccountInv => LogTellsEveryFillOfValidCalls
  BY DEF AccountInv, LogTellsEveryFillOfValidCalls, LogTellsEveryFill
<1> QED BY <1>1, SpecAccountInv, PTL

(* Once a cancel is logged as accepted no fill of that order follows in the *)
(* log, whatever the feed trades afterwards.                               *)
THEOREM CancelsAreFinal ==
  Spec => []NoFillAfterCancel
<1>1. AccountInv => NoFillAfterCancel
  BY DEF AccountInv, Buried, AcceptedCancel, NoFillAfterCancel
<1> QED BY <1>1, SpecAccountInv, PTL

(***************************************************************************)
(* The ledger of the run (economics.py).                                   *)
(***************************************************************************)

Lots == [side : OrderSides, price : Nat, size : Nat \ {0}]
PositionOf == [lot \in Lots |-> LotPosition(lot)]
CostOf == [lot \in Lots |-> LotPosition(lot) * lot.price]
Held(lots) == Worth(PositionOf, lots)
Cost(lots) == Worth(CostOf, lots)

\* What n contracts at a price earn on this side.
Earned(side, price, n) == IF side = "sell" THEN price * n ELSE -(price * n)

LedgerOK(l) ==
  /\ l \in [lots : Seq(Lots), realized : Int, commission : Int]
  /\ \A i, j \in 1..Len(l.lots) : l.lots[i].side = l.lots[j].side

\* What has become of ledger l once n contracts of a fill are accounted for.
Booked(l, m, side, price, n) ==
  /\ LedgerOK(m)
  /\ Held(m.lots) = Held(l.lots) + Signed(side, n)
  /\ m.realized - Cost(m.lots) = l.realized - Cost(l.lots) + Earned(side, price, n)

LEMMA LotFacts ==
  /\ PositionOf \in [Lots -> Int] /\ CostOf \in [Lots -> Int]
  /\ \A lot \in Lots : PositionOf[lot] = LotPosition(lot) /\ CostOf[lot] = LotPosition(lot) * lot.price
<1>1. ASSUME NEW lot \in Lots PROVE LotPosition(lot) \in Int /\ LotPosition(lot) * lot.price \in Int
  <2>1. lot.size \in Int /\ lot.price \in Int
    BY DEF Lots
  <2>2. LotPosition(lot) \in Int
    BY <2>1 DEF LotPosition
  <2> QED BY <2>1, <2>2
<1> QED BY <1>1 DEF PositionOf, CostOf

LEMMA LotSums ==
  ASSUME NEW lots \in Seq(Lots)
  PROVE  /\ Held(lots) \in Int /\ Cost(lots) \in Int
         /\ SumOver(lots, LotPosition) = Held(lots)
         /\ SumOver(lots, LAMBDA lot : LotPosition(lot) * lot.price) = Cost(lots)
<1>1. \A i \in DOMAIN lots : lots[i] \in Lots
  OBVIOUS
<1>2. /\ [i \in DOMAIN lots |-> LotPosition(lots[i])] = [i \in DOMAIN lots |-> PositionOf[lots[i]]]
      /\ [i \in DOMAIN lots |-> LotPosition(lots[i]) * lots[i].price]
            = [i \in DOMAIN lots |-> CostOf[lots[i]]]
  BY <1>1, LotFacts
<1>3. Held(lots) \in Int /\ Cost(lots) \in Int
  BY LotFacts, WorthFacts DEF Held, Cost
<1>4. SumOver(lots, LotPosition) = Total([i \in DOMAIN lots |-> LotPosition(lots[i])])
  BY DEF SumOver
<1>5. SumOver(lots, LAMBDA lot : LotPosition(lot) * lot.price)
         = Total([i \in DOMAIN lots |-> LotPosition(lots[i]) * lots[i].price])
  BY DEF SumOver
<1> QED BY <1>2, <1>3, <1>4, <1>5 DEF Held, Cost, Worth

\* Closing n of the z contracts of a lot bought or sold (s) at p.
Close(side, s, p, z, price, n, left, pnl, held, worth, cost, earned) ==
  /\ left = (IF s = "buy" THEN z - n ELSE -(z - n))
  /\ pnl = ClosedLotPnl(s, p, price, n)
  /\ held = (IF s = "buy" THEN z ELSE -z)
  /\ worth = left * p /\ cost = held * p
  /\ earned = Earned(side, price, n)

LEMMA CloseArithmetic ==
  ASSUME NEW side \in OrderSides, NEW s \in OrderSides, s # side, NEW p \in Nat, NEW z \in Nat,
         NEW price \in Nat, NEW n \in Nat, NEW left, NEW pnl, NEW held, NEW worth, NEW cost,
         NEW earned, Close(side, s, p, z, price, n, left, pnl, held, worth, cost, earned)
  PROVE  /\ pnl \in Int /\ left \in Int /\ worth \in Int /\ held \in Int /\ cost \in Int
         /\ left = held + Signed(side, n) /\ Signed(side, n) \in Int
         /\ pnl - worth = earned - cost /\ earned \in Int
         /\ (n = z => left = 0 /\ worth = 0)
<1> DEFINE k == z - n
<1>0. /\ left = (IF s = "buy" THEN k ELSE -k)
      /\ pnl = ClosedLotPnl(s, p, price, n)
      /\ held = (IF s = "buy" THEN z ELSE -z)
      /\ worth = left * p /\ cost = held * p
      /\ earned = Earned(side, price, n)
  BY DEF Close
<1>1. p \in Int /\ z \in Int /\ price \in Int /\ n \in Int /\ k \in Int /\ k = z - n
  OBVIOUS
<1> HIDE DEF k
<1>2. /\ (price - p) * n = price * n - p * n /\ (p - price) * n = p * n - price * n
      /\ (-z) * p = -(z * p)
      /\ price * n \in Int /\ p * n \in Int /\ z * p \in Int
  BY <1>1
<1>6. k * p = z * p - p * n /\ (-k) * p = p * n - z * p /\ -k = -z + n
  BY <1>1, <1>2
<1>7. n = z => k = 0 /\ -k = 0 /\ k * p = 0 /\ (-k) * p = 0
  <2>1. n = z => k <= 0 /\ 0 <= k
    BY <1>1
  <2>2. \A a, b \in Int : a = 0 => a * b = 0
    OBVIOUS
  <2>3. k \in Int /\ -k \in Int /\ p \in Int
    BY <1>1
  <2>4. n = z => k = 0
    BY <2>1, <2>3
  <2>5. n = z => -k = 0
    BY <2>1, <2>3
  <2> QED BY <2>2, <2>3, <2>4, <2>5
<1>3. \/ s = "buy" /\ side = "sell"
      \/ s = "sell" /\ side = "buy"
  BY DEF OrderSides
<1>4. CASE s = "buy" /\ side = "sell"
  BY <1>0, <1>1, <1>2, <1>4, <1>6 DEF ClosedLotPnl, Signed, Earned
<1>5. CASE s = "sell" /\ side = "buy"
  BY <1>0, <1>1, <1>2, <1>5, <1>6 DEF ClosedLotPnl, Signed, Earned
<1>8. n = z => left = 0 /\ worth = 0
  BY <1>0, <1>7
<1> QED BY <1>3, <1>4, <1>5, <1>8

\* What one more look at the loop does to t: it closes contracts of the oldest
\* lot and is done, or goes on with one lot less, or nothing is left to do.
Stopped(t, side) == t.remaining = 0 \/ t.l.lots = <<>> \/ Head(t.l.lots).side = side
Closed(t, u, side, price) ==
  /\ u.remaining \in Nat /\ u.remaining <= t.remaining
  /\ Booked(t.l, u.l, side, price, t.remaining - u.remaining)
  /\ u.l.commission = t.l.commission
  /\ \/ u = t /\ Stopped(t, side)
     \/ u.remaining = 0
     \/ Len(u.l.lots) = Len(t.l.lots) - 1

LEMMA CloseOldestFacts ==
  ASSUME NEW l, LedgerOK(l), l.lots # <<>>, NEW r \in Nat \ {0}, NEW fill \in Fills,
         Head(l.lots).side # fill.side,
         NEW c, c = Min({r, Head(l.lots).size}), NEW m, m = CloseOldest(l, r, fill)
  PROVE  /\ c \in Nat /\ c <= r
         /\ Booked(l, m, fill.side, Money(fill.price), c)
         /\ m.commission = l.commission
         /\ c = r \/ Len(m.lots) = Len(l.lots) - 1
<1> DEFINE lots == l.lots
           lot == Head(lots)
           price == Money(fill.price)
           pnl == ClosedLotPnl(lot.side, lot.price, price, c)
           k == lot.size - c
           left == IF lot.side = "buy" THEN k ELSE -k
           worth == left * lot.price
           earned == Earned(fill.side, price, c)
           x == [side |-> lot.side, price |-> lot.price, size |-> k]
           w == IF c = lot.size THEN Tail(lots) ELSE [lots EXCEPT ![1] = x]
<1>1. /\ lots \in Seq(Lots) /\ lots # <<>> /\ l.realized \in Int /\ l.commission \in Int
      /\ \A i, j \in 1..Len(lots) : lots[i].side = lots[j].side
      /\ l = [lots |-> lots, realized |-> l.realized, commission |-> l.commission]
  BY DEF LedgerOK
<1>2. /\ lot \in Lots /\ lot.size \in Nat \ {0} /\ lot.side \in OrderSides /\ lot.price \in Nat
      /\ Tail(lots) \in Seq(Lots) /\ Len(Tail(lots)) = Len(lots) - 1 /\ lots[1] = lot
      /\ Len(lots) \in Nat \ {0}
      /\ \A i \in 1..Len(Tail(lots)) : Tail(lots)[i] = lots[i + 1]
  <2>1. /\ lot \in Lots /\ Tail(lots) \in Seq(Lots) /\ Len(Tail(lots)) = Len(lots) - 1
        /\ lots[1] = lot /\ Len(lots) \in Nat \ {0}
        /\ \A i \in 1..Len(Tail(lots)) : Tail(lots)[i] = lots[i + 1]
    <3> HIDE DEF lots, lot
    <3>1. lots \in Seq(Lots) /\ lots # <<>>
      BY <1>1
    <3>2. /\ Head(lots) \in Lots /\ Tail(lots) \in Seq(Lots)
          /\ Len(Tail(lots)) = Len(lots) - 1
          /\ Len(lots) \in Nat \ {0} /\ lots[1] = Head(lots)
          /\ \A i \in 1..Len(Tail(lots)) : Tail(lots)[i] = lots[i + 1]
      BY <3>1, HeadTailFacts
    <3> QED BY <3>2 DEF lot
  <2> QED BY <2>1 DEF Lots
<1>3. c \in Nat /\ c <= r /\ c <= lot.size /\ c # 0 /\ (c = r \/ c = lot.size)
  <2>1. {r, lot.size} \in SUBSET Nat /\ {r, lot.size} # {}
    BY <1>2
  <2>2. Min({r, lot.size}) \in {r, lot.size} /\ \A y \in {r, lot.size} : Min({r, lot.size}) <= y
    BY <2>1, MinFacts
  <2> QED BY <1>2, <2>2
<1>4. fill.side \in OrderSides /\ price \in Nat
  <2>1. fill.price \in Nat
    BY PricesAssumption DEF Fills
  <2> QED BY <2>1 DEF Fills, Money
<1> HIDE DEF lot, price
<1>5. k \in Nat /\ lot.side # fill.side
  BY <1>2, <1>3 DEF lot
<1> DEFINE held == LotPosition(lot)
           cost == held * lot.price
<1>12. /\ pnl \in Int /\ left \in Int /\ worth \in Int /\ held \in Int /\ cost \in Int
       /\ left = held + Signed(fill.side, c) /\ Signed(fill.side, c) \in Int
       /\ pnl - worth = earned - cost /\ earned \in Int
       /\ (c = lot.size => left = 0 /\ worth = 0)
  <2>1. Close(fill.side, lot.side, lot.price, lot.size, price, c, left, pnl, held, worth, cost,
              earned)
    BY DEF LotPosition, Close
  <2>2. lot.size \in Nat
    BY <1>2
  <2> HIDE DEF k, left, pnl, held, worth, cost, earned
  <2> QED BY ONLY <1>2, <1>3, <1>4, <1>5, <2>1, <2>2, CloseArithmetic, SMTT(40)
<1> HIDE DEF worth, earned, cost
<1>6. m.lots = w /\ m.realized = l.realized + pnl /\ m.commission = l.commission
      /\ m = [lots |-> m.lots, realized |-> m.realized, commission |-> m.commission]
  <2>1. [lots EXCEPT ![1].size = lot.size - c] = [lots EXCEPT ![1] = x]
    <3>1. [lots[1] EXCEPT !.size = lot.size - c] = x
      BY <1>2 DEF Lots
    <3> QED BY <3>1
  <2>2. m = [l EXCEPT !.lots = IF c = lot.size THEN Tail(lots)
                               ELSE [lots EXCEPT ![1].size = lot.size - c],
                      !.realized = l.realized + pnl]
    BY DEF CloseOldest, lot, price
  <2>3. m = [l EXCEPT !.lots = w, !.realized = l.realized + pnl]
    BY <2>1, <2>2
  <2> HIDE DEF w, pnl, lots
  <2> QED BY <1>1, <2>3
<1> HIDE DEF k
<1>7. k # 0 => x \in Lots /\ LotPosition(x) = left /\ x.side = lot.side /\ x.price = lot.price
  BY <1>2, <1>5 DEF Lots, LotPosition
<1>8. c = lot.size <=> k = 0
  BY <1>2, <1>3 DEF k
<1> HIDE DEF x, pnl
<1>9. /\ Held(lots) = held + Held(Tail(lots)) /\ Cost(lots) = cost + Cost(Tail(lots))
      /\ Held(Tail(lots)) \in Int /\ Cost(Tail(lots)) \in Int
  <2>1. /\ Worth(PositionOf, lots) = PositionOf[Head(lots)] + Worth(PositionOf, Tail(lots))
        /\ Worth(PositionOf, Tail(lots)) \in Int
    BY <1>1, LotFacts, WorthFront
  <2>2. /\ Worth(CostOf, lots) = CostOf[Head(lots)] + Worth(CostOf, Tail(lots))
        /\ Worth(CostOf, Tail(lots)) \in Int
    BY <1>1, LotFacts, WorthFront
  <2>3. PositionOf[lot] = held /\ CostOf[lot] = cost
    BY <1>2, LotFacts DEF cost
  <2> QED BY <2>1, <2>2, <2>3 DEF Held, Cost, lot
<1> HIDE DEF held
<1>10. w \in Seq(Lots) /\ \A i, j \in 1..Len(w) : w[i].side = w[j].side
  <2>1. CASE k = 0
    <3>1. w = Tail(lots)
      BY <1>8, <2>1
    <3> HIDE DEF w, lots
    <3>2. w \in Seq(Lots) /\ Len(w) = Len(lots) - 1
          /\ \A i \in 1..Len(w) : w[i] = lots[i + 1]
      BY <1>2, <3>1
    <3>3. \A i \in 1..Len(w) : i + 1 \in 1..Len(lots)
      BY <1>2, <3>2
    <3>4. ASSUME NEW i \in 1..Len(w), NEW j \in 1..Len(w) PROVE w[i].side = w[j].side
      <4>1. i + 1 \in 1..Len(lots) /\ j + 1 \in 1..Len(lots)
        BY <3>3
      <4>2. w[i] = lots[i + 1] /\ w[j] = lots[j + 1]
        BY <3>2
      <4> QED BY <1>1, <4>1, <4>2
    <3> QED BY <3>2, <3>4
  <2>2. CASE k # 0
    <3>1. w = [lots EXCEPT ![1] = x] /\ x \in Lots /\ x.side = lot.side
      BY <1>7, <1>8, <2>2
    <3> HIDE DEF w
    <3>2. /\ w \in Seq(Lots) /\ Len(w) = Len(lots)
          /\ \A i \in 1..Len(lots) : w[i] = IF i = 1 THEN x ELSE lots[i]
      BY <1>1, <1>2, <3>1
    <3>3. \A i \in 1..Len(lots) : w[i].side = lot.side
      BY <1>1, <1>2, <3>1, <3>2
    <3> QED BY <3>2, <3>3
  <2> QED BY <2>1, <2>2
<1>11. Held(w) = left + Held(Tail(lots)) /\ Cost(w) = worth + Cost(Tail(lots))
  <2>3. CASE k = 0
    <3>1. left = 0 /\ worth = 0
      BY <1>8, <1>12, <2>3
    <3>2. w = Tail(lots)
      BY <1>8, <2>3
    <3> HIDE DEF left, w, lots
    <3> QED BY <1>9, <3>1, <3>2
  <2>4. CASE k # 0
    <3>1. w = [lots EXCEPT ![1] = x] /\ x \in Lots /\ LotPosition(x) = left /\ x.price = lot.price
      BY <1>7, <1>8, <2>4
    <3> HIDE DEF w, left, lots
    <3>5. /\ lots \in Seq(Lots) /\ lots # <<>> /\ w = [lots EXCEPT ![1] = x] /\ x \in Lots
          /\ PositionOf \in [Lots -> Int] /\ CostOf \in [Lots -> Int]
      BY <1>1, <3>1, LotFacts
    <3>0. /\ lots \in Seq(Lots) /\ lots # <<>>
          /\ PositionOf \in [Lots -> Int] /\ CostOf \in [Lots -> Int]
      BY <3>5
    <3>6. \A y \in Lots : Worth(PositionOf, [lots EXCEPT ![1] = y])
                             = PositionOf[y] + Worth(PositionOf, Tail(lots))
      BY ONLY <3>0, WorthFront, ZenonT(30)
    <3>7. \A y \in Lots : Worth(CostOf, [lots EXCEPT ![1] = y])
                             = CostOf[y] + Worth(CostOf, Tail(lots))
      BY ONLY <3>0, WorthFront, ZenonT(30)
    <3>2. Worth(PositionOf, w) = PositionOf[x] + Worth(PositionOf, Tail(lots))
      BY ONLY <3>5, <3>6
    <3>4. Worth(CostOf, w) = CostOf[x] + Worth(CostOf, Tail(lots))
      BY ONLY <3>5, <3>7
    <3>3. PositionOf[x] = left /\ CostOf[x] = worth
      BY <3>1, LotFacts DEF worth
    <3> QED BY <3>2, <3>3, <3>4 DEF Held, Cost
  <2> QED BY <2>3, <2>4
<1> HIDE DEF left
<1>17. Held(w) = Held(lots) + Signed(fill.side, c)
  BY <1>9, <1>11, <1>12
<1>18. (l.realized + pnl) - Cost(w) = l.realized - Cost(lots) + earned
  <2> HIDE DEF lots, w
  <2>1. /\ pnl \in Int /\ worth \in Int /\ earned \in Int /\ cost \in Int
        /\ pnl - worth = earned - cost
    BY <1>12
  <2>2. Cost(Tail(lots)) \in Int /\ l.realized \in Int
    BY <1>1, <1>9
  <2>3. Cost(w) = worth + Cost(Tail(lots)) /\ Cost(lots) = cost + Cost(Tail(lots))
    BY <1>9, <1>11
  <2> QED BY <2>1, <2>2, <2>3
<1>13. c = r \/ Len(w) = Len(lots) - 1
  <2>1. CASE c = lot.size
    BY <1>2, <2>1
  <2> QED BY <1>3, <2>1
<1> HIDE DEF w
<1>14. LedgerOK(m)
  <2> DEFINE mlots == m.lots
  <2>1. mlots = w /\ m.realized = l.realized + pnl /\ m.commission = l.commission
        /\ m = [lots |-> mlots, realized |-> m.realized, commission |-> m.commission]
    BY <1>6
  <2>2. m.realized \in Int /\ m.commission \in Int
    BY <1>1, <1>12, <2>1
  <2>3. mlots \in Seq(Lots) /\ \A i, j \in 1..Len(mlots) : mlots[i].side = mlots[j].side
    BY <1>10, <2>1
  <2>4. m \in [lots : Seq(Lots), realized : Int, commission : Int]
    <3> HIDE DEF mlots
    <3> QED BY <2>1, <2>2, <2>3
  <2> QED BY <2>3, <2>4 DEF LedgerOK
<1>15. Booked(l, m, fill.side, price, c)
  BY <1>6, <1>14, <1>17, <1>18 DEF Booked, lots, earned
<1> QED BY <1>3, <1>6, <1>13, <1>15 DEF price, lots

CloseStates == {t \in [l : [lots : Seq(Lots), realized : Int, commission : Int], remaining : Nat] :
                   LedgerOK(t.l)}

(* Nothing is booked for no contract, and bookings add up.                 *)
LEMMA BookedTwice ==
  ASSUME NEW side \in OrderSides, NEW price \in Nat
  PROVE  /\ \A n \in Nat : n <= 0 => Signed(side, n) = 0 /\ Earned(side, price, n) = 0
         /\ \A n \in Nat : Signed(side, n) \in Int /\ Earned(side, price, n) \in Int
         /\ \A m, n \in Nat : /\ Signed(side, m + n) = Signed(side, m) + Signed(side, n)
                              /\ Earned(side, price, m + n)
                                   = Earned(side, price, m) + Earned(side, price, n)
<1>1. ASSUME NEW n \in Nat, n <= 0 PROVE Signed(side, n) = 0 /\ Earned(side, price, n) = 0
  <2>1. n = 0
    BY <1>1
  <2>2. -n = 0
    BY <1>1
  <2>3. price * n = 0
    BY <2>1
  <2>4. -(price * n) = 0
    <3>1. price * n \in Int /\ price * n <= 0 /\ 0 <= price * n
      BY <2>3
    <3> DEFINE q == price * n
    <3> HIDE DEF q
    <3>2. q \in Int /\ q <= 0 /\ 0 <= q => -q = 0
      OBVIOUS
    <3> QED BY <3>1, <3>2 DEF q
  <2> QED BY <2>1, <2>2, <2>3, <2>4, Zenon DEF Signed, Earned
<1>2. ASSUME NEW n \in Nat PROVE Signed(side, n) \in Int /\ Earned(side, price, n) \in Int
  <2>1. price * n \in Int
    OBVIOUS
  <2> QED BY <2>1 DEF Signed, Earned
<1>3. ASSUME NEW m \in Nat, NEW n \in Nat
      PROVE  /\ Signed(side, m + n) = Signed(side, m) + Signed(side, n)
             /\ Earned(side, price, m + n) = Earned(side, price, m) + Earned(side, price, n)
  <2>1. /\ price * (m + n) = price * m + price * n
        /\ price * m \in Int /\ price * n \in Int
    OBVIOUS
  <2>2. -(price * (m + n)) = -(price * m) + -(price * n) /\ -(m + n) = -m + -n
    BY <2>1
  <2> QED BY <2>1, <2>2 DEF Signed, Earned
<1> QED BY <1>1, <1>2, <1>3

LEMMA BookedOn ==
  ASSUME NEW side \in OrderSides, NEW price \in Nat, NEW a, NEW b, NEW c, NEW m \in Nat,
         NEW n \in Nat, LedgerOK(a), Booked(a, b, side, price, m), Booked(b, c, side, price, n)
  PROVE  Booked(a, c, side, price, m + n)
<1>1. LedgerOK(b) /\ LedgerOK(c)
  BY DEF Booked
<1>2. ASSUME NEW l, LedgerOK(l) PROVE Held(l.lots) \in Int /\ l.realized \in Int /\ Cost(l.lots) \in Int
  <2>1. l.lots \in Seq(Lots) /\ l.realized \in Int
    BY <1>2 DEF LedgerOK
  <2> QED BY <2>1, LotSums
<1>3. /\ Held(a.lots) \in Int /\ a.realized \in Int /\ Cost(a.lots) \in Int
      /\ Held(b.lots) \in Int /\ b.realized \in Int /\ Cost(b.lots) \in Int
      /\ Held(c.lots) \in Int /\ c.realized \in Int /\ Cost(c.lots) \in Int
  BY <1>1, <1>2
<1>4. /\ Signed(side, m + n) = Signed(side, m) + Signed(side, n)
      /\ Earned(side, price, m + n) = Earned(side, price, m) + Earned(side, price, n)
      /\ Signed(side, m) \in Int /\ Signed(side, n) \in Int
      /\ Earned(side, price, m) \in Int /\ Earned(side, price, n) \in Int
  BY BookedTwice
<1>5. /\ Held(b.lots) = Held(a.lots) + Signed(side, m)
      /\ Held(c.lots) = Held(b.lots) + Signed(side, n)
      /\ b.realized - Cost(b.lots) = a.realized - Cost(a.lots) + Earned(side, price, m)
      /\ c.realized - Cost(c.lots) = b.realized - Cost(b.lots) + Earned(side, price, n)
  BY DEF Booked
<1>6. /\ Held(c.lots) = Held(a.lots) + Signed(side, m + n)
      /\ c.realized - Cost(c.lots) = a.realized - Cost(a.lots) + Earned(side, price, m + n)
  <2> DEFINE ha == Held(a.lots)
             hb == Held(b.lots)
             hc == Held(c.lots)
             va == a.realized - Cost(a.lots)
             vb == b.realized - Cost(b.lots)
             vc == c.realized - Cost(c.lots)
             sm == Signed(side, m)
             sn == Signed(side, n)
             em == Earned(side, price, m)
             en == Earned(side, price, n)
  <2>1. /\ hb = ha + sm /\ hc = hb + sn /\ vb = va + em /\ vc = vb + en
        /\ Signed(side, m + n) = sm + sn /\ Earned(side, price, m + n) = em + en
    BY <1>4, <1>5
  <2>2. /\ ha \in Int /\ va \in Int /\ sm \in Int /\ sn \in Int /\ em \in Int /\ en \in Int
    BY <1>3, <1>4
  <2> HIDE DEF ha, hb, hc, va, vb, vc, sm, sn, em, en
  <2>3. hc = ha + (sm + sn) /\ vc = va + (em + en)
    BY <2>1, <2>2
  <2> QED BY <2>1, <2>3 DEF ha, hc, va, vc
<1> DEFINE k == m + n
<1>7. LedgerOK(c) /\ Held(c.lots) = Held(a.lots) + Signed(side, k)
      /\ c.realized - Cost(c.lots) = a.realized - Cost(a.lots) + Earned(side, price, k)
  BY <1>1, <1>6
<1> HIDE DEF k
<1>8. Booked(a, c, side, price, k)
  BY ONLY <1>7, Zenon DEF Booked
<1> QED BY <1>8 DEF k

LEMMA BookedNothing ==
  ASSUME NEW side \in OrderSides, NEW price \in Nat, NEW l, LedgerOK(l), NEW n \in Nat, n <= 0
  PROVE  Booked(l, l, side, price, n)
<1>1. l.lots \in Seq(Lots) /\ l.realized \in Int
  BY DEF LedgerOK
<1> DEFINE lots == l.lots
           held == Held(lots)
           cost == Cost(lots)
           value == l.realized - cost
<1>2. held \in Int /\ cost \in Int
  <2>1. lots \in Seq(Lots)
    BY <1>1
  <2> HIDE DEF lots
  <2> QED BY <2>1, LotSums
<1> HIDE DEF held, cost
<1>3. value \in Int
  BY <1>1, <1>2
<1>4. Signed(side, n) = 0 /\ Earned(side, price, n) = 0
  BY BookedTwice
<1> HIDE DEF value
<1>5. held = held + Signed(side, n) /\ value = value + Earned(side, price, n)
  BY <1>2, <1>3, <1>4
<1> QED BY <1>5, Zenon DEF Booked, value, held, cost

LEMMA CloseStepFacts ==
  ASSUME NEW t \in CloseStates, NEW fill \in Fills, NEW u, u = CloseStep(t, fill)
  PROVE  u \in CloseStates /\ Closed(t, u, fill.side, Money(fill.price))
<1> DEFINE price == Money(fill.price)
<1>1. fill.side \in OrderSides /\ price \in Nat /\ LedgerOK(t.l) /\ t.remaining \in Nat
  <2>1. fill.price \in Nat
    BY PricesAssumption DEF Fills
  <2> QED BY <2>1 DEF Fills, Money, CloseStates
<1>2. CASE Stopped(t, fill.side)
  <2>1. u = t
    BY <1>2 DEF CloseStep, Stopped
  <2>2. t.remaining - t.remaining \in Nat /\ t.remaining - t.remaining <= 0
    BY <1>1
  <2>3. Booked(t.l, t.l, fill.side, price, t.remaining - t.remaining)
    <3> HIDE DEF price
    <3> QED BY <1>1, <2>2, BookedNothing
  <2> QED BY <1>1, <1>2, <2>1, <2>3 DEF Closed
<1>3. CASE ~ Stopped(t, fill.side)
  <2> DEFINE l == t.l
             r == t.remaining
             c == Min({r, Head(l.lots).size})
             m == CloseOldest(l, r, fill)
  <2>1. l.lots # <<>> /\ r \in Nat \ {0} /\ Head(l.lots).side # fill.side
    BY <1>1, <1>3 DEF Stopped
  <2>2. u = [l |-> m, remaining |-> r - c]
    BY <2>1 DEF CloseStep
  <2>3. /\ c \in Nat /\ c <= r /\ Booked(l, m, fill.side, price, c)
        /\ m.commission = l.commission
        /\ \/ c = r
           \/ Len(m.lots) = Len(l.lots) - 1
    <3>1. c = Min({r, Head(l.lots).size}) /\ m = CloseOldest(l, r, fill) /\ LedgerOK(l)
      BY <1>1
    <3> HIDE DEF c, m, l, r
    <3> QED BY <2>1, <3>1, CloseOldestFacts
  <2> HIDE DEF c, m, price
  <2>4. u.l = m /\ u.remaining = r - c /\ r - (r - c) = c /\ r - c \in Nat /\ r - c <= r
    BY <1>1, <2>2, <2>3
  <2>5. LedgerOK(m) /\ m \in [lots : Seq(Lots), realized : Int, commission : Int]
    BY <2>3 DEF Booked, LedgerOK
  <2>6. u \in CloseStates
    BY <2>2, <2>4, <2>5 DEF CloseStates
  <2>7. u.remaining = 0 \/ Len(u.l.lots) = Len(t.l.lots) - 1
    BY <1>1, <2>3, <2>4
  <2>8. Booked(t.l, u.l, fill.side, price, t.remaining - u.remaining)
    BY <2>3, <2>4
  <2> QED BY <2>3, <2>4, <2>6, <2>7, <2>8 DEF Closed, price
<1> QED BY <1>2, <1>3

\* The while loop of ApplyFill after k turns.
CloseLoop(l, fill) ==
  LET turn[k \in Nat] == IF k = 0 THEN [l |-> l, remaining |-> fill.size]
                         ELSE CloseStep(turn[k - 1], fill)
  IN  turn

LEMMA CloseLoopTurns ==
  ASSUME NEW l, LedgerOK(l), NEW fill \in Fills
  PROVE  /\ CloseLoop(l, fill)[0] = [l |-> l, remaining |-> fill.size]
         /\ \A n \in Nat : /\ CloseLoop(l, fill)[n] \in CloseStates
                          /\ CloseLoop(l, fill)[n + 1] = CloseStep(CloseLoop(l, fill)[n], fill)
<1> DEFINE G == CloseStates
           s == [l |-> l, remaining |-> fill.size]
           step == [p \in G \X Nat |-> CloseStep(p[1], fill)]
<1>1. \A t \in G : CloseStep(t, fill) \in G
  BY CloseStepFacts
<1>2. s \in G
  <2>1. fill.size \in Nat /\ l \in [lots : Seq(Lots), realized : Int, commission : Int]
    BY DEF Fills, LedgerOK
  <2> QED BY <2>1 DEF CloseStates
<1> HIDE DEF G, s
<1>3. step \in [G \X Nat -> G]
  BY <1>1
<1>4. PICK g : IsLoop(g, G, s, step)
  <2> HIDE DEF step
  <2> QED BY <1>2, <1>3, LoopExists, Zenon
<1>5. \A n \in Nat : g[n + 1] = CloseStep(g[n], fill) /\ g[n] \in G
  <2>1. ASSUME NEW n \in Nat PROVE g[n + 1] = CloseStep(g[n], fill) /\ g[n] \in G
    <3>1. g[n] \in G /\ <<g[n], n + 1>> \in G \X Nat
      BY <1>4 DEF IsLoop
    <3> QED BY <1>4, <3>1 DEF IsLoop
  <2> QED BY <2>1
<1> DEFINE f == CHOOSE h : h = [n \in Nat |-> IF n = 0 THEN s ELSE CloseStep(h[n - 1], fill)]
<1>6. g = [n \in Nat |-> IF n = 0 THEN s ELSE CloseStep(g[n - 1], fill)]
  <2>1. ASSUME NEW n \in Nat PROVE g[n] = IF n = 0 THEN s ELSE CloseStep(g[n - 1], fill)
    <3>1. CASE n = 0
      BY <1>4, <3>1 DEF IsLoop
    <3>2. CASE n # 0
      <4>1. n - 1 \in Nat /\ (n - 1) + 1 = n
        BY <3>2
      <4>2. g[(n - 1) + 1] = CloseStep(g[n - 1], fill)
        BY <1>5, <4>1
      <4> QED BY <4>1, <4>2, <3>2
    <3> QED BY <3>1, <3>2
  <2> QED BY <2>1, <1>4 DEF IsLoop
<1>7. f = [n \in Nat |-> IF n = 0 THEN s ELSE CloseStep(f[n - 1], fill)]
  BY <1>6
<1>8. CloseLoop(l, fill) = f
  BY DEF CloseLoop, s
<1> HIDE DEF f
<1>9. f[0] = s
  BY <1>7
<1>10. ASSUME NEW n \in Nat PROVE f[n + 1] = CloseStep(f[n], fill)
  <2>1. n + 1 \in Nat /\ n + 1 # 0 /\ (n + 1) - 1 = n
    OBVIOUS
  <2> QED BY <1>7, <2>1
<1> DEFINE S == {n \in Nat : f[n] \in G}
<1>11. S = Nat
  <2>1. ASSUME NEW n \in S PROVE n + 1 \in S
    BY <1>1, <1>10, <2>1
  <2>2. S \in SUBSET Nat /\ 0 \in S
    BY <1>2, <1>9
  <2> HIDE DEF S
  <2> QED BY <2>1, <2>2, SetInduction
<1>12. \A n \in Nat : f[n] \in G
  BY <1>11
<1> QED BY <1>8, <1>9, <1>10, <1>12 DEF s, G

\* After k turns: what was taken off the fill is booked, and the loop is over or
\* has taken k lots.
Upto(l, t, fill, k) ==
  /\ t.remaining \in Nat /\ t.remaining <= fill.size
  /\ Booked(l, t.l, fill.side, Money(fill.price), fill.size - t.remaining)
  /\ t.l.commission = l.commission
  /\ Stopped(t, fill.side) \/ Len(t.l.lots) = Len(l.lots) - k

LEMMA CloseLoopUpto ==
  ASSUME NEW l, LedgerOK(l), NEW fill \in Fills, NEW k \in Nat
  PROVE  Upto(l, CloseLoop(l, fill)[k], fill, k)
<1> DEFINE f == CloseLoop(l, fill)
           S == {n \in Nat : Upto(l, f[n], fill, n)}
           price == Money(fill.price)
<1>1. /\ f[0] = [l |-> l, remaining |-> fill.size]
      /\ \A n \in Nat : f[n] \in CloseStates /\ f[n + 1] = CloseStep(f[n], fill)
  BY CloseLoopTurns
<1>2. fill.side \in OrderSides /\ price \in Nat /\ fill.size \in Nat /\ Len(l.lots) \in Nat
  <2>1. fill.price \in Nat
    BY PricesAssumption DEF Fills
  <2>2. l.lots \in Seq(Lots)
    BY DEF LedgerOK
  <2> QED BY <2>1, <2>2 DEF Fills, Money
<1> HIDE DEF f
<1>3. Upto(l, f[0], fill, 0)
  <2>1. fill.size - fill.size \in Nat /\ fill.size - fill.size <= 0
    BY <1>2
  <2>2. Booked(l, l, fill.side, price, fill.size - fill.size)
    <3> HIDE DEF price
    <3> QED BY <1>2, <2>1, BookedNothing
  <2> QED BY <1>1, <1>2, <2>2 DEF Upto
<1>4. ASSUME NEW n \in S PROVE n + 1 \in S
  <2> DEFINE t == f[n]
             u == f[n + 1]
  <2>1. n \in Nat /\ t \in CloseStates /\ u = CloseStep(t, fill) /\ Upto(l, t, fill, n)
    BY <1>1, <1>4
  <2> HIDE DEF t, u
  <2>2. u \in CloseStates /\ Closed(t, u, fill.side, price)
    BY <2>1, CloseStepFacts
  <2>3. LedgerOK(t.l) /\ LedgerOK(u.l) /\ t.remaining \in Nat /\ u.remaining \in Nat
    BY <2>1, <2>2 DEF CloseStates
  <2>4. /\ u.remaining <= t.remaining /\ t.remaining <= fill.size
        /\ Booked(l, t.l, fill.side, price, fill.size - t.remaining)
        /\ Booked(t.l, u.l, fill.side, price, t.remaining - u.remaining)
    BY <2>1, <2>2 DEF Upto, Closed
  <2>5. /\ fill.size - t.remaining \in Nat /\ t.remaining - u.remaining \in Nat
        /\ (fill.size - t.remaining) + (t.remaining - u.remaining) = fill.size - u.remaining
        /\ u.remaining <= fill.size
    BY <1>2, <2>3, <2>4
  <2>6. Booked(l, u.l, fill.side, price, fill.size - u.remaining)
    <3>1. Booked(l, u.l, fill.side, price,
                 (fill.size - t.remaining) + (t.remaining - u.remaining))
      <4> DEFINE a == fill.size - t.remaining
                 b == t.remaining - u.remaining
      <4>1. /\ a \in Nat /\ b \in Nat /\ Booked(l, t.l, fill.side, price, a)
            /\ Booked(t.l, u.l, fill.side, price, b)
        BY <2>4, <2>5
      <4> HIDE DEF a, b, price
      <4>2. Booked(l, u.l, fill.side, price, a + b)
        BY <1>2, <4>1, BookedOn
      <4> QED BY <4>2 DEF a, b
    <3> QED BY <2>5, <3>1
  <2>7. u.l.commission = l.commission
    BY <2>1, <2>2 DEF Upto, Closed
  <2>8. Stopped(u, fill.side) \/ Len(u.l.lots) = Len(l.lots) - (n + 1)
    <3>1. CASE Stopped(t, fill.side)
      <4>1. u = t
        BY <2>1, <3>1 DEF CloseStep, Stopped
      <4> QED BY <3>1, <4>1
    <3>2. CASE ~ Stopped(t, fill.side)
      <4>1. Len(t.l.lots) = Len(l.lots) - n
        BY <2>1, <3>2 DEF Upto
      <4>2. u.remaining = 0 \/ Len(u.l.lots) = Len(t.l.lots) - 1
        BY <2>2, <3>2 DEF Closed
      <4> QED BY <1>2, <2>1, <4>1, <4>2 DEF Stopped
    <3> QED BY <3>1, <3>2
  <2>9. Upto(l, u, fill, n + 1)
    BY <2>3, <2>5, <2>6, <2>7, <2>8 DEF Upto
  <2> QED BY <2>1, <2>9 DEF u
<1>5. S = Nat
  <2>1. S \in SUBSET Nat /\ 0 \in S
    BY <1>3
  <2> HIDE DEF S
  <2> QED BY <1>4, <2>1, SetInduction
<1> QED BY <1>5 DEF f

(* A fill books all its contracts: the oldest lots of the other side are    *)
(* closed and what is left opens a lot.                                    *)
LEMMA ApplyFillFacts ==
  ASSUME NEW l, LedgerOK(l), NEW fill \in Fills, NEW a, a = ApplyFill(l, fill)
  PROVE  /\ Booked(l, a, fill.side, Money(fill.price), fill.size)
         /\ a.commission = l.commission + Commission * fill.size
<1> DEFINE price == Money(fill.price)
           side == fill.side
           end == CloseLoop(l, fill)[Len(l.lots)]
           m == end.l
           r == end.remaining
           x == [side |-> side, price |-> price, size |-> r]
           lots == m.lots
           w == IF r = 0 THEN lots ELSE Append(lots, x)
           charge == m.commission + Commission * fill.size
<1>1. side \in OrderSides /\ price \in Nat /\ fill.size \in Nat /\ Len(l.lots) \in Nat
  <2>1. fill.price \in Nat
    BY PricesAssumption DEF Fills
  <2>2. l.lots \in Seq(Lots)
    BY DEF LedgerOK
  <2> QED BY <2>1, <2>2 DEF Fills, Money
<1>2. a = [m EXCEPT !.lots = w, !.commission = charge]
  BY DEF ApplyFill, CloseLoop
<1>3. end \in CloseStates /\ Upto(l, end, fill, Len(l.lots))
  BY <1>1, CloseLoopTurns, CloseLoopUpto
<1> HIDE DEF end
<1>4. /\ LedgerOK(m) /\ m \in [lots : Seq(Lots), realized : Int, commission : Int]
      /\ r \in Nat /\ r <= fill.size /\ lots \in Seq(Lots) /\ m.realized \in Int
      /\ Booked(l, m, side, price, fill.size - r)
  BY <1>3 DEF CloseStates, Upto, LedgerOK
<1>5. r = 0 \/ lots = <<>> \/ Head(lots).side = side
  <2>1. Stopped(end, side) \/ Len(lots) = Len(l.lots) - Len(l.lots)
    BY <1>3 DEF Upto
  <2>2. Len(lots) = Len(l.lots) - Len(l.lots) => lots = <<>>
    BY <1>1, <1>4
  <2> QED BY <2>1, <2>2 DEF Stopped
<1>6. charge \in Int
  <2>1. Commission * fill.size \in Int /\ m.commission \in Int
    BY <1>1, <1>4, CommissionAssumption
  <2> QED BY <2>1
<1>7. \A i, j \in 1..Len(lots) : lots[i].side = lots[j].side
  BY <1>4 DEF LedgerOK
<1>0. charge = l.commission + Commission * fill.size
  BY <1>3 DEF Upto
<1> HIDE DEF charge, price, m, r
<1>8. a = [lots |-> w, realized |-> m.realized, commission |-> charge]
  <2> HIDE DEF w, lots
  <2> QED BY <1>2, <1>4
<1>9. Booked(m, a, side, price, r)
  <2>1. CASE r = 0
    <3>1. w = lots
      BY <2>1
    <3>2. a.lots = m.lots /\ a.realized = m.realized
      BY <1>8, <3>1
    <3>3. LedgerOK(a)
      BY <1>4, <1>6, <1>7, <1>8, <3>1 DEF LedgerOK
    <3>4. Booked(m, m, side, price, r)
      BY <1>1, <1>4, <2>1, BookedNothing
    <3> QED BY <3>2, <3>3, <3>4 DEF Booked
  <2>2. CASE r # 0
    <3>1. w = Append(lots, x) /\ x \in Lots /\ x.side = side /\ x.price = price
      BY <1>1, <1>4, <2>2 DEF Lots
    <3>2. LotPosition(x) = Signed(side, r)
      BY DEF LotPosition, Signed
    <3> HIDE DEF x, w
    <3>3. w \in Seq(Lots) /\ Len(w) = Len(lots) + 1 /\ Len(lots) \in Nat
          /\ \A i \in 1..Len(w) : w[i] = IF i = Len(w) THEN x ELSE lots[i]
      BY <1>4, <3>1
    <3>4. \A i \in 1..Len(w) : w[i].side = side
      <4>1. \A i \in 1..Len(lots) : lots[i].side = side
        <5>1. CASE lots = <<>>
          BY <5>1
        <5>2. CASE lots # <<>>
          <6>1. lots[1] = Head(lots) /\ 1 \in 1..Len(lots)
            BY <1>4, <5>2
          <6> QED BY <1>5, <1>7, <2>2, <5>2, <6>1
        <5> QED BY <5>1, <5>2
      <4> QED BY <3>1, <3>3, <4>1
    <3>5. LedgerOK(a)
      BY <1>4, <1>6, <1>8, <3>3, <3>4 DEF LedgerOK
    <3>6. /\ Held(w) = Held(lots) + PositionOf[x] /\ Cost(w) = Cost(lots) + CostOf[x]
          /\ Held(lots) \in Int /\ Cost(lots) \in Int
      <4> HIDE DEF lots
      <4>0. lots \in Seq(Lots) /\ x \in Lots /\ PositionOf \in [Lots -> Int] /\ CostOf \in [Lots -> Int]
        BY <1>4, <3>1, LotFacts DEF lots
      <4>1. /\ Worth(PositionOf, Append(lots, x)) = Worth(PositionOf, lots) + PositionOf[x]
            /\ Worth(PositionOf, lots) \in Int
        BY ONLY <4>0, WorthFacts
      <4>2. /\ Worth(CostOf, Append(lots, x)) = Worth(CostOf, lots) + CostOf[x]
            /\ Worth(CostOf, lots) \in Int
        BY ONLY <4>0, WorthFacts
      <4> QED BY <3>1, <4>1, <4>2 DEF Held, Cost
    <3>7. PositionOf[x] = Signed(side, r) /\ CostOf[x] = Signed(side, r) * price
      BY <3>1, <3>2, LotFacts
    <3>8. Signed(side, r) * price \in Int /\ Earned(side, price, r) = -(Signed(side, r) * price)
      <4>1. /\ r \in Int /\ price \in Int /\ r * price = price * r
            /\ (-r) * price = -(price * r) /\ price * r \in Int
        BY <1>1, <1>4
      <4>2. side = "buy" \/ side = "sell"
        BY <1>1 DEF OrderSides
      <4> QED BY <4>1, <4>2 DEF Signed, Earned
    <3>9. m.realized - Cost(w) = m.realized - Cost(lots) + Earned(side, price, r)
      <4> DEFINE q == Signed(side, r) * price
                 z == Cost(lots)
      <4>1. q \in Int /\ z \in Int /\ Cost(w) = z + q /\ Earned(side, price, r) = -q
            /\ m.realized \in Int
        BY <1>4, <3>6, <3>7, <3>8
      <4> HIDE DEF q, z
      <4>2. m.realized - (z + q) = m.realized - z + -q
        BY <4>1
      <4> QED BY <4>1, <4>2 DEF z
    <3>10. a.lots = w /\ a.realized = m.realized
      BY <1>8
    <3> QED BY <3>5, <3>6, <3>7, <3>9, <3>10 DEF Booked
  <2> QED BY <2>1, <2>2
<1>10. Booked(l, a, side, price, (fill.size - r) + r)
  <2> DEFINE b == fill.size - r
  <2>1. b \in Nat /\ Booked(l, m, side, price, b)
    BY <1>1, <1>4
  <2> HIDE DEF b, side
  <2>2. Booked(l, a, side, price, b + r)
    BY <1>1, <1>4, <1>9, <2>1, BookedOn
  <2> QED BY <2>2 DEF b
<1>11. (fill.size - r) + r = fill.size
  BY <1>1, <1>4
<1>12. a.commission = charge
  BY <1>8
<1> QED BY <1>0, <1>10, <1>11, <1>12 DEF price

\* What a fill does to the position, what it earns, and what it is charged.
SignedOf == [f \in Fills |-> Signed(f.side, f.size)]
EarnedOf == [f \in Fills |-> Earned(f.side, Money(f.price), f.size)]
ChargeOf == [f \in Fills |-> Commission * f.size]

LEMMA FillSums ==
  /\ SignedOf \in [Fills -> Int] /\ EarnedOf \in [Fills -> Int] /\ ChargeOf \in [Fills -> Int]
  /\ \A f \in Fills : /\ SignedOf[f] = Signed(f.side, f.size)
                      /\ EarnedOf[f] = Earned(f.side, Money(f.price), f.size)
                      /\ ChargeOf[f] = Commission * f.size
<1>1. ASSUME NEW f \in Fills
      PROVE  Signed(f.side, f.size) \in Int /\ Earned(f.side, Money(f.price), f.size) \in Int
  <2>1. f.price \in Nat /\ f.size \in Nat /\ f.side \in OrderSides
    BY PricesAssumption DEF Fills
  <2>2. Money(f.price) \in Nat
    BY <2>1 DEF Money
  <2> QED BY <2>1, <2>2, BookedTwice
<1>2. \A f \in Fills : Commission * f.size \in Int
  BY CommissionAssumption DEF Fills
<1> QED BY <1>1, <1>2 DEF SignedOf, EarnedOf, ChargeOf

\* Ledger l is what the list of fills makes of the empty one.
KeepsBooks(l, fills) ==
  /\ LedgerOK(l)
  /\ Held(l.lots) = Worth(SignedOf, fills)
  /\ l.realized - Cost(l.lots) = Worth(EarnedOf, fills)
  /\ l.commission = Worth(ChargeOf, fills)

LEMMA BalancedOneMore ==
  ASSUME NEW l, NEW fills \in Seq(Fills), KeepsBooks(l, fills), NEW f \in Fills,
         NEW a, a = ApplyFill(l, f)
  PROVE  KeepsBooks(a, Append(fills, f))
<1>1. LedgerOK(l)
  BY DEF KeepsBooks
<1>2. /\ Booked(l, a, f.side, Money(f.price), f.size)
      /\ a.commission = l.commission + Commission * f.size
  BY <1>1, ApplyFillFacts
<1>3. /\ LedgerOK(a) /\ Held(a.lots) = Held(l.lots) + SignedOf[f]
      /\ a.realized - Cost(a.lots) = l.realized - Cost(l.lots) + EarnedOf[f]
      /\ a.commission = l.commission + ChargeOf[f]
  BY <1>2, FillSums, Zenon DEF Booked
<1>4. /\ Worth(SignedOf, Append(fills, f)) = Worth(SignedOf, fills) + SignedOf[f]
      /\ Worth(EarnedOf, Append(fills, f)) = Worth(EarnedOf, fills) + EarnedOf[f]
      /\ Worth(ChargeOf, Append(fills, f)) = Worth(ChargeOf, fills) + ChargeOf[f]
  BY FillSums, WorthFacts
<1>5. /\ Held(l.lots) = Worth(SignedOf, fills)
      /\ l.realized - Cost(l.lots) = Worth(EarnedOf, fills)
      /\ l.commission = Worth(ChargeOf, fills)
  BY DEF KeepsBooks
<1> QED BY <1>3, <1>4, <1>5, Zenon DEF KeepsBooks

LEMMA EmptyLedgerBalances ==
  ASSUME NEW e, e = <<>>
  PROVE  KeepsBooks(EmptyLedger, e)
<1> DEFINE s == EmptyLedger
<1>1. e \in Seq(Lots) /\ e \in Seq(Fills) /\ Len(e) = 0
  OBVIOUS
<1>2. /\ s.lots = e /\ s.realized = 0 /\ s.commission = 0
      /\ s \in [lots : Seq(Lots), realized : Int, commission : Int]
  BY DEF EmptyLedger
<1> HIDE DEF s
<1>3. ASSUME NEW F, NEW v \in [F -> Int], e \in Seq(F) PROVE Worth(v, e) = 0
  <2>1. \A i \in 1..Len(e) : v[e[i]] = 0
    BY <1>1
  <2> QED BY <1>3, <2>1, WorthFacts
<1>4. Worth(PositionOf, e) = 0 /\ Worth(CostOf, e) = 0
  BY <1>1, <1>3, LotFacts
<1>5. Worth(SignedOf, e) = 0 /\ Worth(EarnedOf, e) = 0 /\ Worth(ChargeOf, e) = 0
  BY <1>1, <1>3, FillSums
<1>6. LedgerOK(s)
  BY <1>1, <1>2 DEF LedgerOK
<1>7. s.realized - Cost(e) = 0
  BY <1>2, <1>4 DEF Cost
<1> QED BY <1>2, <1>4, <1>5, <1>6, <1>7 DEF KeepsBooks, Held, s

\* g[n] is the ledger after the first n fills, and what ApplyFills makes of an
\* earlier one.
Books(g, fills) ==
  /\ g[0] = EmptyLedger
  /\ \A n \in 0..Len(fills) : KeepsBooks(g[n], SubSeq(fills, 1, n))
  /\ \A from \in 0..Len(fills) : \A upTo \in from..Len(fills) :
        ApplyFills(g[from], fills, from, upTo) = g[upTo]

LEMMA BooksExist ==
  ASSUME NEW fills \in Seq(Fills)
  PROVE  \E g : Books(g, fills)
<1> DEFINE N == Len(fills)
           G == {l \in [lots : Seq(Lots), realized : Int, commission : Int] : LedgerOK(l)}
           next(l, n) == IF n \in 1..N THEN ApplyFill(l, fills[n]) ELSE l
           step == [p \in G \X Nat |-> next(p[1], p[2])]
           s == EmptyLedger
<1>1. N \in Nat /\ \A n \in 1..N : fills[n] \in Fills
  OBVIOUS
<1>2. \A l \in G : \A n \in Nat : next(l, n) \in G
  <2>1. ASSUME NEW l \in G, NEW n \in 1..N PROVE ApplyFill(l, fills[n]) \in G
    <3>1. LedgerOK(ApplyFill(l, fills[n]))
      BY <1>1, ApplyFillFacts DEF Booked
    <3> QED BY <3>1 DEF LedgerOK
  <2> QED BY <2>1
<1>3. KeepsBooks(s, SubSeq(fills, 1, 0))
  <2> DEFINE e == SubSeq(fills, 1, 0)
  <2>1. e = <<>>
    OBVIOUS
  <2> HIDE DEF e
  <2>2. KeepsBooks(s, e)
    BY <2>1, EmptyLedgerBalances
  <2> QED BY <2>2 DEF e
<1>4. s \in G
  BY <1>3 DEF KeepsBooks, LedgerOK
<1> HIDE DEF G, s, next
<1>5. step \in [G \X Nat -> G]
  BY <1>2
<1>6. PICK g : IsLoop(g, G, s, step)
  <2> HIDE DEF step
  <2> QED BY <1>4, <1>5, LoopExists, Zenon
<1>7. g[0] = s /\ \A n \in Nat : g[n + 1] = next(g[n], n + 1) /\ g[n] \in G
  <2>1. ASSUME NEW n \in Nat PROVE g[n + 1] = next(g[n], n + 1) /\ g[n] \in G
    <3>1. g[n] \in G /\ <<g[n], n + 1>> \in G \X Nat
      BY <1>6 DEF IsLoop
    <3> QED BY <1>6, <3>1 DEF IsLoop
  <2> QED BY <1>6, <2>1 DEF IsLoop
<1>8. \A n \in Nat : n + 1 <= N => g[n + 1] = ApplyFill(g[n], fills[n + 1])
  <2>1. ASSUME NEW n \in Nat, n + 1 <= N PROVE g[n + 1] = ApplyFill(g[n], fills[n + 1])
    <3>1. n + 1 \in 1..N /\ g[n + 1] = next(g[n], n + 1)
      BY <1>1, <1>7, <2>1
    <3> QED BY <3>1 DEF next
  <2> QED BY <2>1
<1> DEFINE S == {n \in Nat : n <= N => KeepsBooks(g[n], SubSeq(fills, 1, n))}
<1>9. ASSUME NEW n \in S PROVE n + 1 \in S
  <2>1. SUFFICES ASSUME n + 1 <= N PROVE KeepsBooks(g[n + 1], SubSeq(fills, 1, n + 1))
    OBVIOUS
  <2>2. n \in Nat /\ n <= N /\ n + 1 \in 1..N
    BY <1>1, <2>1
  <2>3. KeepsBooks(g[n], SubSeq(fills, 1, n))
    BY <1>9, <2>2
  <2>4. /\ SubSeq(fills, 1, n) \in Seq(Fills)
        /\ SubSeq(fills, 1, n + 1) = Append(SubSeq(fills, 1, n), fills[n + 1])
    BY <2>2
  <2>5. g[n + 1] = ApplyFill(g[n], fills[n + 1]) /\ fills[n + 1] \in Fills
    BY <1>1, <1>8, <2>1, <2>2
  <2> DEFINE u == SubSeq(fills, 1, n)
             x == fills[n + 1]
             y == g[n + 1]
             z == g[n]
  <2>6. u \in Seq(Fills) /\ x \in Fills /\ y = ApplyFill(z, x) /\ KeepsBooks(z, u)
    BY <2>3, <2>4, <2>5
  <2> HIDE DEF u, x, y, z
  <2>7. KeepsBooks(y, Append(u, x))
    BY <2>6, BalancedOneMore
  <2> QED BY <2>4, <2>7 DEF u, x, y
<1>10. S = Nat
  <2>1. S \in SUBSET Nat /\ 0 \in S
    BY <1>3, <1>7
  <2> HIDE DEF S
  <2> QED BY <1>9, <2>1, SetInduction
<1>11. \A n \in 0..N : KeepsBooks(g[n], SubSeq(fills, 1, n))
  BY <1>1, <1>10
<1>12. ASSUME NEW from \in 0..N, NEW upTo \in from..N
       PROVE  ApplyFills(g[from], fills, from, upTo) = g[upTo]
  <2> DEFINE K == upTo - from
             body(h) == [n \in 0..K |-> IF n = 0 THEN g[from]
                                        ELSE ApplyFill(h[n - 1], fills[from + n])]
             f == CHOOSE h : h = body(h)
             h0 == [n \in 0..K |-> g[from + n]]
  <2>1. from \in Nat /\ upTo \in Nat /\ K \in Nat /\ from + K = upTo /\ upTo <= N
    BY <1>1
  <2>2. ApplyFills(g[from], fills, from, upTo) = f[K]
    BY DEF ApplyFills
  <2> HIDE DEF K
  <2>3. ASSUME NEW n \in 0..K, n # 0
        PROVE  /\ n - 1 \in 0..K /\ n - 1 \in Nat
               /\ g[from + n] = ApplyFill(g[from + (n - 1)], fills[from + n])
    <3>1. /\ n - 1 \in 0..K /\ n - 1 \in Nat /\ from + (n - 1) \in Nat
          /\ (from + (n - 1)) + 1 = from + n /\ from + n <= N
      BY <1>1, <2>1, <2>3
    <3>2. g[(from + (n - 1)) + 1] = ApplyFill(g[from + (n - 1)], fills[(from + (n - 1)) + 1])
      BY <1>8, <3>1
    <3> QED BY <3>1, <3>2
  <2>4. h0 = body(h0)
    <3>1. ASSUME NEW n \in 0..K
          PROVE  g[from + n] = IF n = 0 THEN g[from] ELSE ApplyFill(h0[n - 1], fills[from + n])
      <4>1. CASE n = 0
        <5>1. from + n = from
          BY <2>1, <4>1
        <5> QED BY <4>1, <5>1
      <4>2. CASE n # 0
        <5>1. h0[n - 1] = g[from + (n - 1)]
          BY <2>3, <4>2
        <5> QED BY <2>3, <4>2, <5>1
      <4> QED BY <4>1, <4>2
    <3> QED BY <3>1
  <2>5. f = body(f)
    <3> HIDE DEF body, h0
    <3> QED BY <2>4
  <2> HIDE DEF f
  <2> DEFINE R == {n \in Nat : n <= K => f[n] = g[from + n]}
  <2>6. 0 \in R
    <3>1. 0 \in 0..K /\ from + 0 = from
      BY <2>1
    <3> QED BY <2>5, <3>1
  <2>7. ASSUME NEW n \in R PROVE n + 1 \in R
    <3>1. SUFFICES ASSUME n + 1 <= K PROVE f[n + 1] = g[from + (n + 1)]
      OBVIOUS
    <3>2. n + 1 \in 0..K /\ n + 1 # 0 /\ (n + 1) - 1 = n /\ n <= K
      BY <2>1, <3>1
    <3>3. f[n + 1] = ApplyFill(f[n], fills[from + (n + 1)])
      BY <2>5, <3>2
    <3>4. f[n] = g[from + n]
      BY <2>7, <3>2
    <3> QED BY <2>3, <3>2, <3>3, <3>4
  <2>8. R = Nat
    <3>1. R \in SUBSET Nat
      OBVIOUS
    <3> HIDE DEF R
    <3> QED BY <2>6, <2>7, <3>1, SetInduction
  <2>9. f[K] = g[from + K]
    BY <2>1, <2>8
  <2> QED BY <2>1, <2>2, <2>9
<1> QED BY <1>7, <1>11, <1>12 DEF Books, s

LEMMA ApplyFillsBalance ==
  ASSUME NEW fills \in Seq(Fills)
  PROVE  KeepsBooks(ApplyFills(EmptyLedger, fills, 0, Len(fills)), fills)
<1>1. PICK g : Books(g, fills)
  BY BooksExist
<1>2. Len(fills) \in 0..Len(fills) /\ 0 \in 0..Len(fills)
  OBVIOUS
<1>3. ApplyFills(g[0], fills, 0, Len(fills)) = g[Len(fills)] /\ g[0] = EmptyLedger
  BY <1>1, <1>2 DEF Books
<1>4. KeepsBooks(g[Len(fills)], SubSeq(fills, 1, Len(fills)))
  BY <1>1, <1>2 DEF Books
<1>5. SubSeq(fills, 1, Len(fills)) = fills
  OBVIOUS
<1> QED BY <1>3, <1>4, <1>5

\* What the open lots cost.
OpenCost(lots) == SumOver(lots, LAMBDA lot : LotPosition(lot) * lot.price)

(* The open lots are the net of the fills, all on one side; what the fills  *)
(* earned is the realized profit less what the open lots cost.             *)
LEMMA SummaryBalances ==
  ASSUME NEW fills \in Seq(Fills), NEW s, s = SummarizeFills(fills)
  PROVE  /\ s.finalPosition = Net(fills)
         /\ \A i, j \in DOMAIN s.openLots : s.openLots[i].side = s.openLots[j].side
         /\ s.signedNotional = s.realizedPnl - OpenCost(s.openLots)
<1> DEFINE l == ApplyFills(EmptyLedger, fills, 0, Len(fills))
           lots == l.lots
<1>1. KeepsBooks(l, fills)
  BY ApplyFillsBalance
<1>2. /\ s.finalPosition = SumOver(lots, LotPosition)
      /\ s.openLots = lots /\ s.realizedPnl = l.realized
      /\ s.signedNotional = SumOver(fills, LAMBDA f : IF f.side = "sell" THEN Money(f.price) * f.size
                                                                         ELSE -(Money(f.price) * f.size))
  <2> HIDE DEF l
  <2> QED BY DEF SummarizeFills, l
<1> HIDE DEF l
<1>3. lots \in Seq(Lots) /\ \A i, j \in 1..Len(lots) : lots[i].side = lots[j].side
  BY <1>1 DEF KeepsBooks, LedgerOK
<1> DEFINE open == s.openLots
<1>4. /\ s.finalPosition = Held(lots)
      /\ SumOver(open, LAMBDA lot : LotPosition(lot) * lot.price) = Cost(lots)
  <2>1. open = lots /\ open \in Seq(Lots)
    BY <1>2, <1>3
  <2>2. SumOver(lots, LotPosition) = Held(lots)
    BY <1>3, LotSums
  <2> HIDE DEF open
  <2>3. SumOver(open, LAMBDA lot : LotPosition(lot) * lot.price) = Cost(open)
    BY <2>1, LotSums
  <2> QED BY <1>2, <2>1, <2>2, <2>3
<1>5. Held(lots) = Net(fills)
  <2>1. \A i \in DOMAIN fills : fills[i] \in Fills
    OBVIOUS
  <2>2. [i \in DOMAIN fills |-> SignedOf[fills[i]]]
           = [i \in DOMAIN fills |-> Signed(fills[i].side, fills[i].size)]
    BY <2>1, FillSums
  <2> QED BY <1>1, <2>2 DEF KeepsBooks, Net, Worth
<1>6. s.signedNotional = Worth(EarnedOf, fills)
  <2>1. \A i \in DOMAIN fills : fills[i] \in Fills
    OBVIOUS
  <2> DEFINE earned == [i \in DOMAIN fills |-> EarnedOf[fills[i]]]
             signed == [i \in DOMAIN fills |-> IF fills[i].side = "sell"
                                               THEN Money(fills[i].price) * fills[i].size
                                               ELSE -(Money(fills[i].price) * fills[i].size)]
  <2>2. earned = signed
    BY <2>1, FillSums DEF Earned
  <2>3. s.signedNotional = Total(signed)
    BY <1>2, Zenon DEF SumOver
  <2>4. Worth(EarnedOf, fills) = Total(earned)
    BY DEF Worth
  <2> HIDE DEF earned, signed
  <2> QED BY <2>2, <2>3, <2>4
<1> DEFINE value == SumOver(open, LAMBDA lot : LotPosition(lot) * lot.price)
<1>7. s.finalPosition = Net(fills) /\ \A i, j \in DOMAIN open : open[i].side = open[j].side
  <2>3. open = lots /\ lots \in Seq(Lots)
    BY <1>2, <1>3
  <2> HIDE DEF open, lots
  <2>1. open = lots /\ DOMAIN lots = 1..Len(lots)
    BY <2>3
  <2>2. \A i, j \in DOMAIN open : open[i].side = open[j].side
    BY <1>3, <2>1
  <2> QED BY <1>4, <1>5, <2>2
<1>8. s.signedNotional = s.realizedPnl - Cost(lots)
  BY <1>1, <1>2, <1>6 DEF KeepsBooks
<1>9. value = Cost(lots)
  BY <1>4
<1> HIDE DEF value
<1>10. s.signedNotional = s.realizedPnl - value
  BY <1>8, <1>9
<1>11. s.signedNotional = s.realizedPnl - OpenCost(open)
  BY ONLY <1>10, Zenon DEF value, OpenCost
<1> QED BY <1>7, <1>11

(* The execution summary balances, whatever the order of opens, closes and  *)
(* flips: FIFO closing neither makes nor loses contracts or money           *)
(* (economics.py, summarize_fills and _apply_fill_to_lots).                *)
THEOREM LedgerAlwaysBalances ==
  Spec => []LedgerBalances
<1>1. AccountInv => LedgerBalances
  <2>1. SUFFICES ASSUME AccountInv PROVE LedgerBalances
    OBVIOUS
  <2> DEFINE s == SummarizeFills(gw.fills)
  <2>2. /\ s.finalPosition = Net(gw.fills)
        /\ \A i, j \in DOMAIN s.openLots : s.openLots[i].side = s.openLots[j].side
        /\ s.signedNotional =
              s.realizedPnl - SumOver(s.openLots, LAMBDA lot : LotPosition(lot) * lot.price)
    <3> DEFINE fills == gw.fills
    <3>1. fills \in Seq(Fills) /\ s = SummarizeFills(fills)
      BY <2>1 DEF AccountInv
    <3> HIDE DEF fills, s
    <3>2. /\ s.finalPosition = Net(fills)
          /\ \A i, j \in DOMAIN s.openLots : s.openLots[i].side = s.openLots[j].side
          /\ s.signedNotional = s.realizedPnl - OpenCost(s.openLots)
      BY ONLY <3>1, SummaryBalances
    <3> QED BY <3>2, Zenon DEF fills, OpenCost
  <2> HIDE DEF s
  <2> QED BY <2>2 DEF LedgerBalances, s
<1> QED BY <1>1, SpecAccountInv, PTL

(***************************************************************************)
(* The equity curve of the run.                                            *)
(***************************************************************************)

(* A member that none exceeds is the maximum.                              *)
LEMMA MaxIs ==
  ASSUME NEW S \in SUBSET Int, NEW m \in S, \A y \in S : y <= m
  PROVE  Max(S) = m
<1> DEFINE x == CHOOSE x \in S : \A y \in S : x >= y
<1>1. \E z \in S : \A y \in S : z >= y
  OBVIOUS
<1>2. x \in S /\ \A y \in S : x >= y
  BY <1>1
<1>3. Max(S) = x
  BY DEF Max
<1> HIDE DEF x
<1>4. x >= m /\ x <= m /\ x \in Int /\ m \in Int
  BY <1>2
<1> QED BY <1>3, <1>4

(* The larger of two numbers is their maximum.                             *)
LEMMA MaxOfTwo ==
  ASSUME NEW a \in Int, NEW b \in Int
  PROVE  Max({a, b}) = IF a <= b THEN b ELSE a
<1>1. CASE a <= b
  <2>1. {a, b} \in SUBSET Int /\ b \in {a, b} /\ \A y \in {a, b} : y <= b
    BY <1>1
  <2>2. Max({a, b}) = b
    BY ONLY <2>1, MaxIs
  <2> QED BY <1>1, <2>2
<1>2. CASE ~(a <= b)
  <2>1. {a, b} \in SUBSET Int /\ a \in {a, b} /\ \A y \in {a, b} : y <= a
    BY <1>2
  <2>2. Max({a, b}) = a
    BY ONLY <2>1, MaxIs
  <2> QED BY <1>2, <2>2
<1> QED BY <1>1, <1>2

(* What is in time order already stays as it is: the sort is stable.       *)
LEMMA SortedStays ==
  ASSUME NEW T, \A x \in T : x.ts \in Nat, NEW d \in Seq(T),
         \A i, j \in 1..Len(d) : i < j => d[i].ts <= d[j].ts
  PROVE  SortedByTime(d) = d
<1> DEFINE n == Len(d)
<1>1. n \in Nat /\ d = [k \in 1..n |-> d[k]] /\ \A i \in 1..n : d[i].ts \in Nat
  OBVIOUS
<1>2. PICK p \in Bijection(1..n, 1..n) :
         /\ SortedByTime(d) = [k \in 1..n |-> d[p[k]]]
         /\ \A k, l \in 1..n : k <= l => Precedes(d, p[k], p[l])
  BY SortedByTimeSorts
<1>3. /\ p \in [1..n -> 1..n] /\ \A k, l \in 1..n : p[k] = p[l] => k = l
      /\ \A j \in 1..n : \E i \in 1..n : p[i] = j
  BY DEF Bijection, Injection, Surjection, IsInjective
<1> HIDE DEF n
<1>4. \A i, j \in 1..n : j < i => ~Precedes(d, i, j)
  <2>1. ASSUME NEW i \in 1..n, NEW j \in 1..n, j < i PROVE ~Precedes(d, i, j)
    <3>1. d[j].ts <= d[i].ts /\ d[i].ts \in Nat /\ d[j].ts \in Nat /\ i \in Nat /\ j \in Nat
      BY <1>1, <2>1 DEF n
    <3> QED BY <2>1, <3>1 DEF Precedes
  <2> QED BY <2>1
<1>5. \A k, l \in 1..n : k < l => p[k] < p[l]
  <2>1. ASSUME NEW k \in 1..n, NEW l \in 1..n, k < l PROVE p[k] < p[l]
    <3>1. p[k] \in 1..n /\ p[l] \in 1..n /\ k <= l /\ k # l
      BY <1>1, <1>3, <2>1
    <3>2. Precedes(d, p[k], p[l]) /\ p[k] # p[l]
      BY <1>2, <1>3, <2>1, <3>1
    <3>3. ~(p[l] < p[k])
      BY <1>4, <3>1, <3>2
    <3> QED BY <1>1, <3>1, <3>2, <3>3
  <2> QED BY <2>1
<1>6. Identity(p, n, n)
  BY <1>1, <1>3, <1>5, IncreasingOnto
<1>7. \A i \in 1..n : p[i] = i
  BY <1>6 DEF Identity
<1> QED BY <1>1, <1>2, <1>7

(* In a list in time order the fills at or before ts are its first ones.   *)
LEMMA FillsDueFacts ==
  ASSUME NEW T, \A x \in T : x.ts \in Nat, NEW fills \in Seq(T),
         \A i, j \in 1..Len(fills) : i < j => fills[i].ts <= fills[j].ts, NEW ts \in Nat
  PROVE  /\ FillsDue(fills, ts) \in 0..Len(fills)
         /\ {i \in DOMAIN fills : fills[i].ts <= ts} = 1..FillsDue(fills, ts)
<1> DEFINE n == Len(fills)
           due == {i \in DOMAIN fills : fills[i].ts <= ts}
           late == {i \in 1..n : fills[i].ts > ts}
<1>1. n \in Nat /\ DOMAIN fills = 1..n /\ \A i \in 1..n : fills[i].ts \in Nat
  OBVIOUS
<1>2. \E k \in 0..n : due = 1..k
  <2>1. CASE late = {}
    <3>1. due = 1..n /\ n \in 0..n
      BY <1>1, <2>1
    <3> QED BY <3>1
  <2>2. CASE late # {}
    <3>1. late \subseteq Nat
      BY <1>1
    <3> DEFINE x == Min(late)
    <3>2. x \in late /\ \A y \in late : x <= y
      <4> HIDE DEF late
      <4> QED BY <2>2, <3>1, MinFacts
    <3> HIDE DEF x
    <3>3. x \in 1..n /\ x - 1 \in 0..n /\ fills[x].ts > ts
      BY <1>1, <3>2
    <3>4. ASSUME NEW i \in 1..n PROVE fills[i].ts <= ts <=> i \in 1..(x - 1)
      <4>1. CASE i < x
        <5>1. i \notin late
          BY <1>1, <3>2, <3>3, <4>1
        <5> QED BY <1>1, <3>3, <4>1, <5>1
      <4>2. CASE ~(i < x)
        <5>1. fills[x].ts <= fills[i].ts
          <6>1. x = i \/ x < i
            BY <1>1, <3>3, <4>2
          <6> QED BY <1>1, <3>3, <6>1
        <5> QED BY <1>1, <3>3, <4>2, <5>1
      <4> QED BY <4>1, <4>2
    <3>5. due = 1..(x - 1)
      BY <1>1, <3>3, <3>4
    <3> QED BY <3>3, <3>5
  <2> QED BY <2>1, <2>2
<1>3. PICK k \in 0..n : due = 1..k
  BY <1>2
<1>4. Cardinality(1..k) = k
  <2>1. Cardinality(1..k) = IF 1 > k THEN 0 ELSE k - 1 + 1
    BY <1>1, FS_Interval
  <2> QED BY <1>1, <2>1
<1>5. FillsDue(fills, ts) = Cardinality(due)
  BY DEF FillsDue
<1> HIDE DEF due
<1>6. FillsDue(fills, ts) = k
  BY <1>3, <1>4, <1>5
<1> QED BY <1>3, <1>6 DEF due

\* The value of u is c times that of v less that of w.
Combined(u, v, w, F, c) ==
  /\ u \in [F -> Int] /\ v \in [F -> Int] /\ w \in [F -> Int] /\ c \in Int
  /\ \A x \in F : u[x] = v[x] * c - w[x]

(* So is the worth of a sequence.                                          *)
LEMMA WorthCombined ==
  ASSUME NEW F, NEW u, NEW v, NEW w, NEW c, Combined(u, v, w, F, c), NEW s \in Seq(F)
  PROVE  Worth(u, s) = Worth(v, s) * c - Worth(w, s)
<1>0. u \in [F -> Int] /\ v \in [F -> Int] /\ w \in [F -> Int] /\ c \in Int
  BY DEF Combined
<1> DEFINE S == {n \in Nat : \A t \in Seq(F) :
                    Len(t) = n => Worth(u, t) = Worth(v, t) * c - Worth(w, t)}
<1>1. 0 \in S
  <2>1. ASSUME NEW t \in Seq(F), Len(t) = 0
        PROVE  Worth(u, t) = Worth(v, t) * c - Worth(w, t)
    <3>1. Worth(u, t) = 0 /\ Worth(v, t) = 0 /\ Worth(w, t) = 0
      <4>1. /\ \A i \in 1..Len(t) : u[t[i]] = 0
            /\ \A i \in 1..Len(t) : v[t[i]] = 0
            /\ \A i \in 1..Len(t) : w[t[i]] = 0
        BY <2>1
      <4> QED BY <1>0, <4>1, WorthFacts
    <3>2. 0 * c - 0 = 0
      BY <1>0
    <3> QED BY <3>1, <3>2
  <2> QED BY <2>1
<1>2. ASSUME NEW n \in S PROVE n + 1 \in S
  <2>1. ASSUME NEW t \in Seq(F), Len(t) = n + 1
        PROVE  Worth(u, t) = Worth(v, t) * c - Worth(w, t)
    <3> DEFINE r == SubSeq(t, 1, n)
               x == t[n + 1]
    <3>1. n \in Nat
      OBVIOUS
    <3> HIDE DEF S
    <3>2. r \in Seq(F) /\ Len(r) = n /\ x \in F /\ t = Append(r, x)
      BY <2>1, <3>1
    <3> HIDE DEF r, x
    <3>3. Worth(u, r) = Worth(v, r) * c - Worth(w, r)
      BY <1>2, <3>2 DEF S
    <3>4. /\ Worth(u, Append(r, x)) = Worth(u, r) + u[x]
          /\ Worth(v, Append(r, x)) = Worth(v, r) + v[x]
          /\ Worth(w, Append(r, x)) = Worth(w, r) + w[x]
          /\ Worth(u, r) \in Int /\ Worth(v, r) \in Int /\ Worth(w, r) \in Int
      <4>1. ASSUME NEW m \in [F -> Int]
            PROVE  Worth(m, r) \in Int /\ Worth(m, Append(r, x)) = Worth(m, r) + m[x]
        <5>1. r \in Seq(F) /\ x \in F
          BY <3>2
        <5> QED BY ONLY <5>1, m \in [F -> Int], WorthFacts
      <4> QED BY ONLY <1>0, <4>1
    <3>5. u[x] = v[x] * c - w[x] /\ v[x] \in Int /\ w[x] \in Int
      BY <1>0, <3>2 DEF Combined
    <3> DEFINE a == Worth(v, r)
               b == v[x]
               d == Worth(w, r)
               e == w[x]
    <3>6. (a * c - d) + (b * c - e) = (a + b) * c - (d + e)
      <4>1. a \in Int /\ b \in Int /\ d \in Int /\ e \in Int
        BY <1>0, <3>4, <3>5
      <4> HIDE DEF a, b, d, e
      <4>2. (a + b) * c = a * c + b * c /\ a * c \in Int /\ b * c \in Int
        BY <1>0, <4>1
      <4> QED BY <4>1, <4>2
    <3> QED BY <3>2, <3>3, <3>4, <3>5, <3>6
  <2> QED BY <2>1
<1>3. S = Nat
  <2>1. S \in SUBSET Nat
    OBVIOUS
  <2> HIDE DEF S
  <2> QED BY <1>1, <1>2, <2>1, SetInduction
<1>4. Len(s) \in S
  BY <1>3
<1> QED BY <1>4

(* Open lots are worth their position at the mark less what they cost.     *)
LEMMA UnrealizedFacts ==
  ASSUME NEW lots \in Seq(Lots), NEW mark \in Nat
  PROVE  Unrealized(lots, mark) = Held(lots) * mark - Cost(lots)
<1> DEFINE u == [lot \in Lots |-> ClosedLotPnl(lot.side, lot.price, mark, lot.size)]
<1>1. ASSUME NEW lot \in Lots
      PROVE  u[lot] = PositionOf[lot] * mark - CostOf[lot] /\ u[lot] \in Int
  <2> DEFINE p == lot.price
             z == lot.size
  <2>1. p \in Int /\ z \in Int /\ mark \in Int /\ lot.side \in OrderSides
    BY DEF Lots
  <2>2. /\ PositionOf[lot] = (IF lot.side = "buy" THEN z ELSE -z)
        /\ CostOf[lot] = PositionOf[lot] * p
        /\ u[lot] = (IF lot.side = "buy" THEN (mark - p) * z ELSE (p - mark) * z)
    BY LotFacts DEF LotPosition, ClosedLotPnl
  <2> HIDE DEF p, z, u
  <2>3. /\ (mark - p) * z = z * mark - z * p /\ (p - mark) * z = (-z) * mark - (-z) * p
        /\ (mark - p) * z \in Int /\ (p - mark) * z \in Int
    BY <2>1
  <2> QED BY <2>2, <2>3
<1>2. Combined(u, PositionOf, CostOf, Lots, mark)
  <2>1. PositionOf \in [Lots -> Int] /\ CostOf \in [Lots -> Int]
    BY LotFacts
  <2>2. u \in [Lots -> Int] /\ mark \in Int
    BY <1>1
  <2> HIDE DEF u
  <2> QED BY ONLY <1>1, <2>1, <2>2 DEF Combined
<1>3. Unrealized(lots, mark) = Total([i \in DOMAIN lots |->
                                ClosedLotPnl(lots[i].side, lots[i].price, mark, lots[i].size)])
  BY DEF Unrealized, SumOver
<1>4. [i \in DOMAIN lots |-> ClosedLotPnl(lots[i].side, lots[i].price, mark, lots[i].size)]
         = [i \in DOMAIN lots |-> u[lots[i]]]
  <2>1. \A i \in DOMAIN lots : lots[i] \in Lots
    OBVIOUS
  <2> QED BY <2>1
<1> HIDE DEF u
<1>5. Unrealized(lots, mark) = Worth(u, lots)
  BY <1>3, <1>4 DEF Worth
<1>6. Worth(u, lots) = Worth(PositionOf, lots) * mark - Worth(CostOf, lots)
  BY ONLY <1>2, lots \in Seq(Lots), WorthCombined
<1> QED BY <1>5, <1>6 DEF Held, Cost

\* The highest equity of the first k members of a list of them, or 0.
Highest(gain, k) == Max({0} \cup {gain[j] : j \in 1..k})

LEMMA HighestFacts ==
  ASSUME NEW M \in Nat, NEW gain, \A j \in 1..M : gain[j] \in Int
  PROVE  /\ Highest(gain, 0) = 0
         /\ \A k \in 0..M : Highest(gain, k) \in Int
         /\ \A k \in 1..M : Highest(gain, k) = Max({Highest(gain, k - 1), gain[k]})
<1> DEFINE all(k) == {0} \cup {gain[j] : j \in 1..k}
           Top(k, m) == m \in all(k) /\ \A y \in all(k) : y <= m
           S == {k \in Nat : k <= M => \E m \in Int : Top(k, m)}
<1>1. \A k \in 0..M : all(k) \in SUBSET Int /\ 0 \in all(k)
  <2>1. ASSUME NEW k \in 0..M PROVE all(k) \in SUBSET Int
    <3>1. \A j \in 1..k : j \in 1..M
      OBVIOUS
    <3> QED BY <3>1
  <2> QED BY <2>1
<1>2. \A k \in 1..M : /\ k - 1 \in 0..M /\ all(k) = all(k - 1) \cup {gain[k]}
  <2>1. ASSUME NEW k \in 1..M PROVE k - 1 \in 0..M /\ all(k) = all(k - 1) \cup {gain[k]}
    <3>1. k - 1 \in 0..M /\ 1..k = (1..(k - 1)) \cup {k}
      OBVIOUS
    <3> QED BY <3>1
  <2> QED BY <2>1
<1>3. Top(0, 0)
  OBVIOUS
<1>4. ASSUME NEW k \in 1..M, NEW m \in Int, Top(k - 1, m), NEW t \in Int,
             t = Max({m, gain[k]})
      PROVE  Top(k, t)
  <2>1. gain[k] \in Int /\ all(k) = all(k - 1) \cup {gain[k]} /\ all(k - 1) \in SUBSET Int
    BY <1>1, <1>2
  <2>2. m \in all(k - 1) /\ \A y \in all(k - 1) : y <= m
    BY <1>4
  <2> HIDE DEF all
  <2>3. t = IF m <= gain[k] THEN gain[k] ELSE m
    BY <1>4, <2>1, MaxOfTwo
  <2> QED BY <2>1, <2>2, <2>3
<1>5. \A k \in 1..M : \A m \in Int : Max({m, gain[k]}) \in Int
  BY MaxOfTwo
<1> HIDE DEF Top
<1>6. 0 \in S
  BY <1>3
<1>7. ASSUME NEW k \in S PROVE k + 1 \in S
  <2>1. SUFFICES ASSUME k + 1 <= M PROVE \E m \in Int : Top(k + 1, m)
    OBVIOUS
  <2>2. k \in Nat /\ k + 1 \in 1..M /\ (k + 1) - 1 = k /\ k <= M
    BY <2>1
  <2>3. PICK m \in Int : Top(k, m)
    BY <1>7, <2>2
  <2>4. Top(k + 1, Max({m, gain[k + 1]})) /\ Max({m, gain[k + 1]}) \in Int
    BY <1>4, <1>5, <2>2, <2>3
  <2> QED BY <2>4
<1>8. S = Nat
  <2>1. S \in SUBSET Nat
    OBVIOUS
  <2> HIDE DEF S
  <2> QED BY <1>6, <1>7, <2>1, SetInduction
<1>9. \A k \in 0..M : \E m \in Int : Top(k, m)
  BY <1>8
<1>10. ASSUME NEW k \in 0..M, NEW m \in Int, Top(k, m) PROVE Highest(gain, k) = m
  <2> DEFINE A == all(k)
  <2>1. A \in SUBSET Int /\ m \in A /\ \A y \in A : y <= m
    BY <1>1, <1>10 DEF Top
  <2>2. Highest(gain, k) = Max(A)
    BY DEF Highest
  <2> HIDE DEF A
  <2> QED BY <2>1, <2>2, MaxIs
<1>11. \A k \in 0..M : Highest(gain, k) \in Int /\ Top(k, Highest(gain, k))
  BY <1>9, <1>10
<1>12. ASSUME NEW k \in 1..M PROVE Highest(gain, k) = Max({Highest(gain, k - 1), gain[k]})
  <2> DEFINE m == Highest(gain, k - 1)
             t == Max({m, gain[k]})
  <2>1. m \in Int /\ Top(k - 1, m)
    BY <1>2, <1>11
  <2> HIDE DEF m
  <2>2. t \in Int
    BY <1>5, <2>1
  <2>3. Top(k, t)
    BY <1>4, <2>1, <2>2
  <2> HIDE DEF t
  <2>4. Highest(gain, k) = t
    BY <1>10, <2>2, <2>3
  <2> QED BY <2>4 DEF t, m
<1>13. Highest(gain, 0) = 0
  BY <1>3, <1>10
<1> QED BY <1>11, <1>12, <1>13

\* The account at a mark, when its ledger is l.
Valuation(l, mark) == l.realized + Unrealized(l.lots, mark.mid2) - l.commission

\* What the points of a curve say of the ledgers of g.
Valuations(curve, fills, marks, g) ==
  \A k \in 1..Len(marks) :
     /\ curve[k].ts = marks[k].ts /\ curve[k].mark = marks[k].mid2
     /\ curve[k].realized = g[FillsDue(fills, marks[k].ts)].realized
     /\ curve[k].commission = g[FillsDue(fills, marks[k].ts)].commission
     /\ curve[k].equity = Valuation(g[FillsDue(fills, marks[k].ts)], marks[k])
     /\ curve[k].equity \in Int
     /\ curve[k].equity + curve[k].drawdown = Max({0} \cup {curve[j].equity : j \in 1..k})

InOrder(s) == \A i, j \in 1..Len(s) : i < j => s[i].ts <= s[j].ts

(* The merge of fills into marks, for fills and marks in time order.       *)
LEMMA CurvePoints ==
  ASSUME NEW fills \in Seq(Fills), InOrder(fills), NEW marks \in Seq(Marks), InOrder(marks),
         NEW g, Books(g, fills), NEW curve, curve = BuildEquityCurve(fills, marks)
  PROVE  Valuations(curve, fills, marks, g)
<1> DEFINE N == Len(fills)
           M == Len(marks)
           due == [k \in 0..M |-> IF k = 0 THEN 0 ELSE FillsDue(fills, marks[k].ts)]
           gain == [k \in 1..M |-> Valuation(g[due[k]], marks[k])]
           high == [k \in 0..M |-> Highest(gain, k)]
           point == [k \in 1..M |->
                       [ts |-> marks[k].ts, mark |-> marks[k].mid2,
                        realized |-> g[due[k]].realized,
                        unrealized |-> Unrealized(g[due[k]].lots, marks[k].mid2),
                        commission |-> g[due[k]].commission,
                        equity |-> gain[k], drawdown |-> high[k] - gain[k]]]
           first(k) == [j \in 1..k |-> point[j]]
           state == [k \in 0..M |-> [ledger |-> g[due[k]], applied |-> due[k],
                                    high |-> high[k], points |-> first(k)]]
<1>1. /\ N \in Nat /\ M \in Nat
      /\ \A x \in Fills : x.ts \in Nat
      /\ \A x \in Marks : x.ts \in Nat
      /\ \A k \in 1..M : marks[k] \in Marks /\ marks[k].ts \in Nat /\ marks[k].mid2 \in Nat
  <2>1. \A x \in Marks : x.ts \in Nat /\ x.mid2 \in Nat
    BY DEF Marks
  <2>2. \A x \in Fills : x.ts \in Nat
    BY DEF Fills
  <2>3. N \in Nat /\ M \in Nat /\ \A k \in 1..M : marks[k] \in Marks
    OBVIOUS
  <2> HIDE DEF N, M
  <2> QED BY ONLY <2>1, <2>2, <2>3
<1>2. \A k \in 1..M : /\ FillsDue(fills, marks[k].ts) \in 0..N
                      /\ {i \in DOMAIN fills : fills[i].ts <= marks[k].ts}
                            = 1..FillsDue(fills, marks[k].ts)
  <2>1. ASSUME NEW ts \in Nat
        PROVE  /\ FillsDue(fills, ts) \in 0..N
               /\ {i \in DOMAIN fills : fills[i].ts <= ts} = 1..FillsDue(fills, ts)
    BY <1>1, FillsDueFacts DEF InOrder
  <2> QED BY <1>1, <2>1
<1>3. /\ due[0] = 0 /\ \A k \in 0..M : due[k] \in 0..N
      /\ \A k \in 1..M : due[k] = FillsDue(fills, marks[k].ts)
  BY <1>1, <1>2
<1> HIDE DEF due
<1>4. \A k \in 1..M : k - 1 \in 0..M /\ due[k] \in due[k - 1]..N
  <2>1. ASSUME NEW k \in 1..M PROVE k - 1 \in 0..M /\ due[k - 1] <= due[k]
    <3>1. k - 1 \in 0..M /\ due[k - 1] \in 0..N /\ due[k] \in 0..N
      BY <1>1, <1>3
    <3>2. CASE k - 1 = 0
      <4>1. due[k - 1] = 0
        BY <1>3, <3>2
      <4> QED BY <3>1, <4>1
    <3>3. CASE k - 1 # 0
      <4>1. k - 1 \in 1..M /\ marks[k - 1].ts <= marks[k].ts
        BY <1>1, <3>3 DEF InOrder
      <4>2. 1..due[k - 1] \subseteq 1..due[k]
        <5>1. ASSUME NEW i \in 1..due[k - 1] PROVE i \in 1..due[k]
          <6>1. i \in DOMAIN fills /\ fills[i].ts <= marks[k - 1].ts
            BY <1>2, <1>3, <4>1, <5>1
          <6>2. fills[i].ts \in Nat
            BY <1>1, <6>1
          <6>3. fills[i].ts <= marks[k].ts
            BY <1>1, <4>1, <6>1, <6>2
          <6> QED BY <1>2, <1>3, <6>1, <6>3
        <5> QED BY <5>1
      <4>3. due[k - 1] # 0 => due[k - 1] \in 1..due[k - 1]
        BY <3>1
      <4> QED BY <3>1, <4>2, <4>3
    <3> QED BY <3>1, <3>2, <3>3
  <2> QED BY <1>1, <1>3, <2>1
<1>5. \A n \in 0..N : LedgerOK(g[n])
  BY DEF Books, KeepsBooks
<1>6. \A k \in 1..M : gain[k] \in Int
  <2>1. ASSUME NEW k \in 1..M PROVE Valuation(g[due[k]], marks[k]) \in Int
    <3> DEFINE l == g[due[k]]
               mark == marks[k].mid2
    <3>1. LedgerOK(l) /\ mark \in Nat
      BY <1>1, <1>3, <1>5
    <3> HIDE DEF l, mark
    <3>2. l.lots \in Seq(Lots) /\ l.realized \in Int /\ l.commission \in Int
      BY <3>1 DEF LedgerOK
    <3>3. Unrealized(l.lots, mark) = Held(l.lots) * mark - Cost(l.lots)
          /\ Held(l.lots) \in Int /\ Cost(l.lots) \in Int
      BY <3>1, <3>2, UnrealizedFacts, LotSums
    <3>4. Unrealized(l.lots, mark) \in Int
      BY <3>1, <3>3
    <3> QED BY <3>2, <3>4 DEF Valuation, l, mark
  <2> QED BY <2>1
<1>7. /\ Highest(gain, 0) = 0
      /\ \A k \in 0..M : Highest(gain, k) \in Int
      /\ \A k \in 1..M : Highest(gain, k) = Max({Highest(gain, k - 1), gain[k]})
  <2> HIDE DEF gain
  <2> QED BY <1>1, <1>6, HighestFacts
<1>8. /\ high[0] = 0 /\ \A k \in 0..M : high[k] = Highest(gain, k) /\ high[k] \in Int
      /\ \A k \in 1..M : high[k] = Max({high[k - 1], gain[k]})
  <2> HIDE DEF gain
  <2>1. 0 \in 0..M /\ \A k \in 1..M : k \in 0..M /\ k - 1 \in 0..M
    BY <1>1
  <2> QED BY <1>7, <2>1
<1>9. \A k \in 1..M : gain[k] = Valuation(g[due[k]], marks[k])
  OBVIOUS
<1> HIDE DEF high, gain
<1>10. ASSUME NEW k \in 1..M PROVE first(k) = Append(first(k - 1), point[k])
  <2> DEFINE P == {point[j] : j \in 1..M}
             r == first(k - 1)
  <2>1. k - 1 \in Nat /\ \A j \in 1..(k - 1) : j \in 1..M
    BY <1>1
  <2> HIDE DEF point
  <2>2. r \in Seq(P) /\ Len(r) = k - 1 /\ point[k] \in P
    BY <2>1
  <2>3. \A j \in 1..(k - 1) : r[j] = point[j]
    OBVIOUS
  <2> HIDE DEF r, P
  <2>4. Append(r, point[k])
          = [j \in 1..((k - 1) + 1) |-> IF j = (k - 1) + 1 THEN point[k] ELSE r[j]]
    BY <2>1, <2>2
  <2>5. (k - 1) + 1 = k
    OBVIOUS
  <2>6. \A j \in 1..k : j # k => j \in 1..(k - 1)
    OBVIOUS
  <2>7. Append(r, point[k]) = [j \in 1..k |-> point[j]]
    BY <2>3, <2>4, <2>5, <2>6
  <2> QED BY <2>7 DEF r
<1>11. ASSUME NEW k \in 1..M PROVE MarkStep(state[k - 1], fills, marks[k]) = state[k]
  <2> DEFINE q == state[k - 1]
             l == g[due[k]]
             un == Unrealized(l.lots, marks[k].mid2)
             pt == point[k]
             before == first(k - 1)
             after == first(k)
  <2>1. k - 1 \in 0..M /\ k \in 0..M /\ due[k - 1] \in 0..N /\ due[k] \in due[k - 1]..N
    BY <1>1, <1>3, <1>4
  <2>2. /\ q.ledger = g[due[k - 1]] /\ q.applied = due[k - 1] /\ q.high = high[k - 1]
        /\ q.points = before
    <3> HIDE DEF before, point
    <3> QED BY <2>1 DEF before
  <2>3. after = Append(before, pt)
    <3> HIDE DEF first, point
    <3> QED BY <1>10
  <2>4. pt = [ts |-> marks[k].ts, mark |-> marks[k].mid2, realized |-> l.realized,
              unrealized |-> un, commission |-> l.commission, equity |-> gain[k],
              drawdown |-> high[k] - gain[k]]
    OBVIOUS
  <2>5. state[k] = [ledger |-> l, applied |-> due[k], high |-> high[k], points |-> after]
    <3> HIDE DEF after, point
    <3> QED BY <2>1 DEF after
  <2> HIDE DEF q, pt, before, after, state, first, point
  <2>6. ApplyFills(q.ledger, fills, q.applied, FillsDue(fills, marks[k].ts)) = l
        /\ FillsDue(fills, marks[k].ts) = due[k]
    <3>1. FillsDue(fills, marks[k].ts) = due[k]
      BY <1>3
    <3>2. ApplyFills(g[due[k - 1]], fills, due[k - 1], due[k]) = g[due[k]]
      BY <2>1 DEF Books
    <3> QED BY <2>2, <3>1, <3>2
  <2>7. gain[k] = l.realized + un - l.commission /\ high[k] = Max({q.high, gain[k]})
    BY <1>8, <1>9, <2>2 DEF Valuation
  <2> HIDE DEF l, un
  <2>8. MarkStep(q, fills, marks[k])
          = [ledger |-> l, applied |-> due[k], high |-> high[k], points |-> Append(q.points, pt)]
    BY ONLY <2>4, <2>6, <2>7, Zenon DEF MarkStep, un
  <2>9. MarkStep(q, fills, marks[k]) = state[k]
    BY ONLY <2>2, <2>3, <2>5, <2>8
  <2> QED BY <2>9 DEF q
<1>12. state[0] = [ledger |-> EmptyLedger, applied |-> 0, high |-> 0, points |-> <<>>]
  <2>1. g[0] = EmptyLedger
    BY DEF Books
  <2>2. first(0) = <<>> /\ 0 \in 0..M
    BY <1>1
  <2> HIDE DEF first
  <2> QED BY <1>3, <1>8, <2>1, <2>2
<1>13. DOMAIN state = 0..M /\ \A k \in 0..M : state[k] = state[k]
  OBVIOUS
<1>14. M \in 0..M /\ state[M].points = first(M)
  <2> HIDE DEF first
  <2> QED BY <1>1
<1> HIDE DEF state, first
<1> DEFINE z == [ledger |-> EmptyLedger, applied |-> 0, high |-> 0, points |-> <<>>]
           body(h) == [k \in 0..M |-> IF k = 0 THEN z ELSE MarkStep(h[k - 1], fills, marks[k])]
           h0 == [k \in 0..M |-> state[k]]
           f == CHOOSE h : h = body(h)
<1>15. SortedByTime(fills) = fills /\ SortedByTime(marks) = marks
  BY <1>1, SortedStays DEF InOrder
<1>16. curve = f[M].points
  BY <1>15 DEF BuildEquityCurve
<1> HIDE DEF z
<1>17. h0 = body(h0)
  <2>1. ASSUME NEW k \in 0..M
        PROVE  state[k] = IF k = 0 THEN z ELSE MarkStep(h0[k - 1], fills, marks[k])
    <3>1. CASE k = 0
      BY <1>12, <3>1 DEF z
    <3>2. CASE k # 0
      <4>1. k \in 1..M /\ k - 1 \in 0..M
        BY <1>1, <3>2
      <4> QED BY <1>11, <3>2, <4>1
    <3> QED BY <3>1, <3>2
  <2> QED BY <2>1
<1>18. f = body(f)
  <2> HIDE DEF body, h0
  <2> QED BY <1>17
<1> HIDE DEF f
<1> DEFINE R == {k \in Nat : k <= M => f[k] = state[k]}
<1>19. 0 \in R
  <2>1. 0 \in 0..M
    BY <1>1
  <2> QED BY <1>12, <1>18, <2>1 DEF z
<1>20. ASSUME NEW k \in R PROVE k + 1 \in R
  <2>1. SUFFICES ASSUME k + 1 <= M PROVE f[k + 1] = state[k + 1]
    OBVIOUS
  <2>2. k + 1 \in 1..M /\ k + 1 \in 0..M /\ k + 1 # 0 /\ (k + 1) - 1 = k /\ k <= M
    BY <1>1, <2>1
  <2>3. f[k + 1] = MarkStep(f[k], fills, marks[k + 1])
    BY <1>18, <2>2
  <2>4. f[k] = state[k]
    BY <1>20, <2>2
  <2> QED BY <1>11, <2>2, <2>3, <2>4
<1>21. R = Nat
  <2>1. R \in SUBSET Nat
    OBVIOUS
  <2> HIDE DEF R
  <2> QED BY <1>19, <1>20, <2>1, SetInduction
<1>22. f[M] = state[M]
  BY <1>1, <1>21
<1>23. curve = first(M)
  BY <1>14, <1>16, <1>22
<1>24. \A k \in 1..M : curve[k] = point[k]
  <2> HIDE DEF point
  <2> QED BY <1>23 DEF first
<1>25. \A k \in 1..M : /\ curve[k].ts = marks[k].ts /\ curve[k].mark = marks[k].mid2
                       /\ curve[k].realized = g[due[k]].realized
                       /\ curve[k].commission = g[due[k]].commission
                       /\ curve[k].equity = gain[k]
                       /\ curve[k].drawdown = high[k] - gain[k]
  <2>1. \A k \in 1..M : point[k] = [ts |-> marks[k].ts, mark |-> marks[k].mid2,
                                    realized |-> g[due[k]].realized,
                                    unrealized |-> Unrealized(g[due[k]].lots, marks[k].mid2),
                                    commission |-> g[due[k]].commission,
                                    equity |-> gain[k], drawdown |-> high[k] - gain[k]]
    OBVIOUS
  <2> HIDE DEF point
  <2>2. ASSUME NEW k \in 1..M
        PROVE  /\ curve[k].ts = marks[k].ts /\ curve[k].mark = marks[k].mid2
               /\ curve[k].realized = g[due[k]].realized
               /\ curve[k].commission = g[due[k]].commission
               /\ curve[k].equity = gain[k]
               /\ curve[k].drawdown = high[k] - gain[k]
    <3> DEFINE p == point[k]
    <3>1. p = [ts |-> marks[k].ts, mark |-> marks[k].mid2, realized |-> g[due[k]].realized,
               unrealized |-> Unrealized(g[due[k]].lots, marks[k].mid2),
               commission |-> g[due[k]].commission,
               equity |-> gain[k], drawdown |-> high[k] - gain[k]]
      BY <2>1
    <3>2. curve[k] = p
      BY <1>24
    <3> HIDE DEF p
    <3> QED BY ONLY <3>1, <3>2
  <2> QED BY <2>2
<1> HIDE DEF point
<1>26. ASSUME NEW k \in 1..M
       PROVE  curve[k].equity + curve[k].drawdown = Max({0} \cup {curve[j].equity : j \in 1..k})
  <2>1. {curve[j].equity : j \in 1..k} = {gain[j] : j \in 1..k}
    <3>1. \A j \in 1..k : j \in 1..M
      BY <1>1
    <3> QED BY <1>25, <3>1
  <2>2. high[k] = Max({0} \cup {curve[j].equity : j \in 1..k}) /\ high[k] \in Int /\ gain[k] \in Int
    <3>1. k \in 0..M
      BY <1>1
    <3> QED BY <1>6, <1>8, <2>1, <3>1 DEF Highest
  <2>3. gain[k] + (high[k] - gain[k]) = high[k]
    BY <2>2
  <2> QED BY <1>25, <2>2, <2>3
<1> QED BY <1>3, <1>6, <1>9, <1>25, <1>26 DEF Valuations

\* What a fill does to cash.
CashOf == [f \in Fills |-> -Signed(f.side, f.size) * Money(f.price) - Commission * f.size]

(* The ledger after the first n fills is worth their cash and position.    *)
LEMMA ValuationFacts ==
  ASSUME NEW fills \in Seq(Fills), NEW g, Books(g, fills), NEW n \in 0..Len(fills),
         NEW mark, mark.mid2 \in Nat
  PROVE  Valuation(g[n], mark)
           = Worth(CashOf, SubSeq(fills, 1, n)) + Worth(SignedOf, SubSeq(fills, 1, n)) * mark.mid2
<1> DEFINE l == g[n]
           s == SubSeq(fills, 1, n)
           p == mark.mid2
           lots == l.lots
<1>1. KeepsBooks(l, s) /\ s \in Seq(Fills) /\ p \in Nat
  BY DEF Books
<1> HIDE DEF l, s, p
<1>2. /\ lots \in Seq(Lots) /\ l.realized \in Int /\ l.commission \in Int
      /\ Held(lots) = Worth(SignedOf, s)
      /\ l.realized - Cost(lots) = Worth(EarnedOf, s)
      /\ l.commission = Worth(ChargeOf, s)
  BY <1>1 DEF KeepsBooks, LedgerOK
<1>3. ASSUME NEW f \in Fills
      PROVE  CashOf[f] = EarnedOf[f] * 1 - ChargeOf[f] /\ CashOf[f] \in Int
  <2> DEFINE m == Money(f.price)
             z == f.size
             w == m * z
             c == ChargeOf[f]
             e == EarnedOf[f]
  <2>1. m \in Nat /\ z \in Nat /\ f.side \in OrderSides /\ c \in Int /\ e \in Int
    <3>1. f.price \in Nat /\ z \in Nat /\ f.side \in OrderSides
      BY PricesAssumption DEF Fills
    <3>2. m \in Nat
      BY <3>1 DEF Money
    <3>3. c \in Int /\ e \in Int
      BY FillSums
    <3> QED BY ONLY <3>1, <3>2, <3>3
  <2>2. /\ CashOf[f] = -Signed(f.side, z) * m - c
        /\ e = Earned(f.side, m, z)
    BY FillSums DEF CashOf
  <2> HIDE DEF m, z, c, e
  <2>3. z * m = w /\ -z * m = -w /\ -(-z) * m = w /\ w \in Int
    <3>1. m \in Int /\ z \in Int /\ -z \in Int /\ -(-z) = z
      BY <2>1
    <3>2. z * m = m * z /\ m * z \in Int /\ (-z) * m = -(m * z) /\ -(-(m * z)) = m * z
      BY <3>1
    <3> QED BY <3>1, <3>2
  <2> HIDE DEF w
  <2>4. e = -Signed(f.side, z) * m
    <3>1. Earned(f.side, m, z) = IF f.side = "sell" THEN w ELSE -w
      BY DEF Earned, w
    <3>2. f.side = "buy" \/ f.side = "sell"
      BY <2>1 DEF OrderSides
    <3> QED BY <2>2, <2>3, <3>1, <3>2 DEF Signed
  <2>5. e * 1 = e /\ e - c \in Int
    BY <2>1
  <2> QED BY <2>2, <2>4, <2>5 DEF c, e
<1>4. CashOf \in [Fills -> Int] /\ Combined(CashOf, EarnedOf, ChargeOf, Fills, 1)
  <2>1. CashOf = [f \in Fills |-> CashOf[f]]
    BY DEF CashOf
  <2>2. EarnedOf \in [Fills -> Int] /\ ChargeOf \in [Fills -> Int]
    BY FillSums
  <2> QED BY ONLY <1>3, <2>1, <2>2 DEF Combined
<1>5. Worth(CashOf, s) = Worth(EarnedOf, s) * 1 - Worth(ChargeOf, s)
  <2> DEFINE one == 1
  <2>1. Combined(CashOf, EarnedOf, ChargeOf, Fills, one)
    BY <1>4
  <2> HIDE DEF one
  <2>2. Worth(CashOf, s) = Worth(EarnedOf, s) * one - Worth(ChargeOf, s)
    BY ONLY <1>1, <2>1, WorthCombined
  <2> QED BY ONLY <2>2 DEF one
<1>6. Unrealized(lots, p) = Held(lots) * p - Cost(lots) /\ Held(lots) \in Int /\ Cost(lots) \in Int
  BY <1>1, <1>2, UnrealizedFacts, LotSums
<1>7. Valuation(l, mark) = l.realized + Unrealized(lots, p) - l.commission
  BY DEF Valuation, p
<1> DEFINE un == Held(lots) * p
           co == Cost(lots)
           re == l.realized
           ch == l.commission
<1>8. un \in Int /\ co \in Int /\ re \in Int /\ ch \in Int
  BY <1>1, <1>2, <1>6
<1>9. re + (un - co) - ch = ((re - co) * 1 - ch) + un
  <2> HIDE DEF un, co, re, ch
  <2> QED BY <1>8
<1> QED BY <1>2, <1>5, <1>6, <1>7, <1>9 DEF l, s, p

(* The equity curve of the run, built by merging fills into marks with     *)
(* FIFO lots, is the account's value at each mark: the cash of the fills   *)
(* up to its time and the position at its price (economics.py,             *)
(* build_equity_curve).                                                    *)
THEOREM CurveAlwaysMarkToMarket ==
  Spec => []CurveIsMarkToMarket
<1>1. IInv /\ AccountInv => CurveIsMarkToMarket
  <2>1. SUFFICES ASSUME IInv, AccountInv PROVE CurveIsMarkToMarket
    OBVIOUS
  <2> DEFINE fills == gw.fills
             marks == gw.marks
             curve == BuildEquityCurve(fills, marks)
             s == SummarizeFills(fills)
             due(k) == FillsDue(fills, marks[k].ts)
  <2>2. /\ fills \in Seq(Fills) /\ InOrder(fills) /\ marks \in Seq(Marks) /\ InOrder(marks)
    BY <2>1 DEF IInv, GatewayInv, AccountInv, InTime, InOrder
  <2>3. PICK g : Books(g, fills)
    BY <2>2, BooksExist
  <2>4. Valuations(curve, fills, marks, g)
    <3> DEFINE c == curve
    <3>1. c = BuildEquityCurve(fills, marks)
      OBVIOUS
    <3> HIDE DEF c, fills, marks
    <3> QED BY <2>2, <2>3, <3>1, CurvePoints
  <2>5. /\ CashAt(curve[1].ts) = CashAt(curve[1].ts)
        /\ \A ts : /\ CashAt(ts) = Total([i \in PlacesUpTo(ts) |->
                                -Signed(fills[i].side, fills[i].size) * Money(fills[i].price)
                                  - Commission * fills[i].size])
                   /\ PositionAt(ts) = Total([i \in PlacesUpTo(ts) |->
                                          Signed(fills[i].side, fills[i].size)])
                   /\ PlacesUpTo(ts) = {i \in DOMAIN fills : fills[i].ts <= ts}
    BY DEF CashAt, PositionAt, PlacesUpTo
  <2>6. SummarizeFills(fills).netRealizedPnl = g[Len(fills)].realized - g[Len(fills)].commission
    <3>1. Len(fills) \in 0..Len(fills) /\ 0 \in 0..Len(fills) /\ Len(fills) \in Nat
      BY <2>2
    <3> HIDE DEF fills
    <3>2. ApplyFills(g[0], fills, 0, Len(fills)) = g[Len(fills)] /\ g[0] = EmptyLedger
      BY <2>3, <3>1 DEF Books
    <3> DEFINE l == ApplyFills(EmptyLedger, fills, 0, Len(fills))
    <3>3. l = g[Len(fills)]
      BY <3>2
    <3>4. SummarizeFills(fills).netRealizedPnl = l.realized - l.commission
      BY DEF SummarizeFills
    <3> HIDE DEF l
    <3> QED BY ONLY <3>3, <3>4
  <2>7. /\ \A x \in Fills : x.ts \in Nat
        /\ \A k \in 1..Len(marks) : marks[k].ts \in Nat /\ marks[k].mid2 \in Nat
    <3>1. \A x \in Marks : x.ts \in Nat /\ x.mid2 \in Nat
      BY DEF Marks
    <3>2. \A k \in 1..Len(marks) : marks[k] \in Marks
      <4> HIDE DEF marks
      <4> QED BY <2>2
    <3> HIDE DEF marks
    <3> QED BY <3>1, <3>2 DEF Fills
  <2> HIDE DEF fills, marks, curve, s
  <2>8. ASSUME NEW k \in 1..Len(marks)
        PROVE  /\ due(k) \in 0..Len(fills)
               /\ {i \in DOMAIN fills : fills[i].ts <= marks[k].ts} = 1..due(k)
    BY <2>2, <2>7, FillsDueFacts DEF InOrder
  <2>9. ASSUME NEW k \in 1..Len(marks)
        PROVE  curve[k].equity = CashAt(curve[k].ts) + PositionAt(curve[k].ts) * curve[k].mark
    <3> DEFINE n == due(k)
               u == SubSeq(fills, 1, n)
    <3>1. n \in 0..Len(fills) /\ {i \in DOMAIN fills : fills[i].ts <= marks[k].ts} = 1..n
      BY <2>8
    <3>2. /\ curve[k].ts = marks[k].ts /\ curve[k].mark = marks[k].mid2
          /\ curve[k].equity = Valuation(g[n], marks[k])
      BY <2>4 DEF Valuations
    <3> HIDE DEF n
    <3>3. Valuation(g[n], marks[k]) = Worth(CashOf, u) + Worth(SignedOf, u) * marks[k].mid2
      BY <2>2, <2>3, <2>7, <3>1, ValuationFacts
    <3>4. PlacesUpTo(curve[k].ts) = 1..n
      BY <2>5, <3>1, <3>2
    <3>5. /\ DOMAIN u = 1..n /\ \A i \in 1..n : u[i] = fills[i] /\ fills[i] \in Fills
      BY <2>2, <3>1
    <3> HIDE DEF u
    <3>6. CashAt(curve[k].ts) = Worth(CashOf, u)
      <4>1. CashAt(curve[k].ts) = Total([i \in 1..n |->
                                -Signed(fills[i].side, fills[i].size) * Money(fills[i].price)
                                  - Commission * fills[i].size])
        BY <2>5, <3>4
      <4>2. \A i \in 1..n : CashOf[u[i]]
                = -Signed(fills[i].side, fills[i].size) * Money(fills[i].price)
                     - Commission * fills[i].size
        BY <3>5 DEF CashOf
      <4>3. [i \in 1..n |-> -Signed(fills[i].side, fills[i].size) * Money(fills[i].price)
                              - Commission * fills[i].size]
              = [i \in DOMAIN u |-> CashOf[u[i]]]
        BY <3>5, <4>2
      <4> QED BY <4>1, <4>3 DEF Worth
    <3>7. PositionAt(curve[k].ts) = Worth(SignedOf, u)
      <4>1. PositionAt(curve[k].ts) = Total([i \in 1..n |-> Signed(fills[i].side, fills[i].size)])
        BY <2>5, <3>4
      <4>2. \A i \in 1..n : SignedOf[u[i]] = Signed(fills[i].side, fills[i].size)
        BY <3>5 DEF SignedOf
      <4>3. [i \in 1..n |-> Signed(fills[i].side, fills[i].size)]
              = [i \in DOMAIN u |-> SignedOf[u[i]]]
        BY <3>5, <4>2
      <4> QED BY <4>1, <4>3 DEF Worth
    <3> QED BY <3>2, <3>3, <3>6, <3>7
  <2>10. ASSUME NEW k \in 1..Len(marks)
         PROVE  curve[k].equity + curve[k].drawdown = Max({0} \cup {curve[j].equity : j \in 1..k})
    BY <2>4 DEF Valuations
  <2>11. ASSUME marks # <<>>, \A i \in DOMAIN fills : fills[i].ts <= curve[Len(marks)].ts
         PROVE  curve[Len(marks)].realized - curve[Len(marks)].commission = s.netRealizedPnl
    <3> DEFINE k == Len(marks)
    <3>1. k \in 1..Len(marks) /\ Len(fills) \in Nat
      BY <2>2, <2>11
    <3> HIDE DEF k
    <3>2. /\ curve[k].ts = marks[k].ts /\ curve[k].realized = g[due(k)].realized
          /\ curve[k].commission = g[due(k)].commission
      BY <2>4, <3>1 DEF Valuations
    <3>3. due(k) = Len(fills)
      <4> DEFINE n == due(k)
      <4>1. n \in 0..Len(fills) /\ {i \in DOMAIN fills : fills[i].ts <= marks[k].ts} = 1..n
        BY <2>8, <3>1
      <4>2. \A i \in DOMAIN fills : fills[i].ts <= marks[k].ts
        BY <2>11, <3>2 DEF k
      <4> HIDE DEF n
      <4>3. 1..Len(fills) = 1..n
        BY <2>2, <4>1, <4>2
      <4>4. Len(fills) # 0 => Len(fills) \in 1..n
        <5>1. Len(fills) # 0 => Len(fills) \in 1..Len(fills)
          BY ONLY <3>1
        <5> QED BY ONLY <4>3, <5>1
      <4>5. n = Len(fills)
        BY <3>1, <4>1, <4>4
      <4> QED BY <4>5 DEF n
    <3> QED BY <2>6, <3>2, <3>3 DEF k, s
  <2> QED BY <2>9, <2>10, <2>11 DEF CurveIsMarkToMarket, fills, marks, curve, s
<1> QED BY <1>1, SpecAccountInv, PTL

==============================================================================
