---------------------------- MODULE RawTradesProofs ----------------------------
(***************************************************************************)
(* What the raw-trade recorder promises, for every window, number of       *)
(* trades and number of faults, and for every overlap, delay and staleness *)
(* of the answers.  The inductive invariant is IInv: every row of the log  *)
(* is behind the cursor or pending, and the ids the log or a failed write  *)
(* tells of are, from the first one up to the cursor, all of them.         *)
(***************************************************************************)
EXTENDS RawTrades, NumberFacts, SequenceTheorems

LogRows == {[kind |-> k, from |-> a, to |-> b] : k \in {"trade", "gap"}, a \in Ids, b \in Ids}

\* The cursor of an exchange that has given out n ids.
CursorOK(c, n) ==
    /\ c.expected \in 0..(n + 1)
    /\ c.greatest \in 0..n
    /\ c.pending \subseteq (c.expected + 1)..c.greatest
    /\ c.expected = None => c.pending = {}

\* Every row is behind the cursor, or its trade is pending.
Behind(rows, c) ==
    \A i \in 1..Len(rows) :
        /\ rows[i].kind = "trade" =>
              /\ rows[i].to = rows[i].from
              /\ rows[i].from < c.expected \/ rows[i].from \in c.pending
        /\ rows[i].kind = "gap" => rows[i].from <= rows[i].to /\ rows[i].to < c.expected

\* Of told, nothing is missing between its first id m and the cursor.
Covers(told, c, m) ==
    /\ m \in told /\ m < c.expected
    /\ \A id \in told : m <= id
    /\ m..(c.expected - 1) \subseteq told
    /\ c.pending \subseteq told

Covered(told, c, n) ==
    /\ told \subseteq 1..n
    /\ c.expected = None => told = {}
    /\ c.expected # None => \E m \in told : Covers(told, c, m)

Once(rows) ==
    \A i, j \in 1..Len(rows) : rows[i].kind = "trade" /\ rows[i] = rows[j] => i = j

Final(rows) ==
    \A i, j \in 1..Len(rows) :
        /\ rows[i].kind = "gap" /\ i < j => Tells(rows[i]) \cap Tells(rows[j]) = {}
        /\ rows[i].kind = "gap" /\ rows[j].kind = "trade" => rows[i].from # rows[j].from

Recorded(c, rows, missed, n) ==
    /\ rows \in Seq(LogRows)
    /\ missed \subseteq 1..n
    /\ CursorOK(c, n)
    /\ Behind(rows, c)
    /\ Covered(ToldBy(rows) \cup missed, c, n)
    /\ Once(rows)
    /\ Final(rows)

IInv ==
    /\ last \in 0..MaxId
    /\ late \subseteq 1..last
    /\ task \in {"polling", "cancelled", "failed"}
    /\ faults \in 0..MaxFaults
    /\ Recorded(cursor, log, lost, last)

(***************************************************************************)
(* RawTradeCursor.select.                                                  *)
(***************************************************************************)

(* A set of fewer than l + 1 ids leaves one of m..(m + l) out.             *)
LEMMA NextFacts ==
  ASSUME NEW n \in Nat, NEW m \in 1..(n + 1), NEW all \in SUBSET (m..n)
  PROVE  LET next == Min((m..(m + Cardinality(all))) \ all)
         IN  next \in m..(n + 1) /\ next \notin all /\ m..(next - 1) \subseteq all
<1> DEFINE l == Cardinality(all)
           free == (m..(m + l)) \ all
           next == Min(free)
<1>1. IsFiniteSet(m..n) /\ m \in Int /\ n \in Int
  BY FS_Interval
<1>2. IsFiniteSet(all)
  BY <1>1, FS_Subset
<1>3. l \in Nat
  BY <1>2, FS_CardinalityType
<1> HIDE DEF l
<1>4. free # {}
  <2>1. SUFFICES ASSUME free = {} PROVE FALSE
    OBVIOUS
  <2>2. m..(m + l) \in SUBSET all
    BY <2>1
  <2>3. Cardinality(m..(m + l)) <= l
    BY <1>2, <2>2, FS_Subset DEF l
  <2>4. m \in Int /\ m + l \in Int /\ ~(m > m + l) /\ (m + l) - m + 1 = l + 1
    BY <1>3
  <2>5. Cardinality(m..(m + l)) = l + 1
    BY <2>4, FS_Interval
  <2> QED BY <1>3, <2>3, <2>5
<1>5. free \in SUBSET Nat
  BY <1>3
<1>6. next \in free /\ \A y \in free : next <= y
  <2> HIDE DEF free
  <2> QED BY <1>4, <1>5, MinFacts
<1> HIDE DEF next
<1>7. next \in Nat /\ next >= m /\ next <= m + l /\ next \notin all
  BY <1>3, <1>6
<1>8. ASSUME NEW id \in m..(next - 1) PROVE id \in all
  <2>1. id \in m..(m + l) /\ ~(next <= id)
    BY <1>3, <1>7
  <2>2. id \notin free
    BY <1>6, <2>1
  <2> QED BY <2>1, <2>2
<1>9. next <= n + 1
  <2>1. SUFFICES ASSUME next > n + 1 PROVE FALSE
    BY <1>7
  <2>2. n + 1 \in m..(next - 1)
    BY <1>7, <2>1
  <2>3. n + 1 \in m..n
    BY <1>8, <2>2
  <2> QED BY <2>3
<1>10. next \in m..(n + 1) /\ next \notin all
  BY <1>7, <1>9
<1>11. m..(next - 1) \subseteq all
  BY <1>8
<1> QED BY <1>10, <1>11, Zenon DEF l, next

(* What select does with an answer: a is the id it waits for, m the one it  *)
(* resumes at, all the ids from m on that it has or takes.                  *)
LEMMA SelectFacts ==
  ASSUME NEW n \in Nat, NEW c, CursorOK(c, n),
         NEW ids \in SUBSET (1..n), ids # {}
  PROVE  \E a, m \in 1..(n + 1), all \in SUBSET (1..n) :
            /\ c.expected # None => a = c.expected
            /\ c.expected = None => m = a /\ a \in all
            /\ a <= m
            /\ Select(c, ids).gap = IF a < m THEN <<GapRow(a, m)>> ELSE <<>>
            /\ Select(c, ids).trades \subseteq m..n
            /\ Select(c, ids).trades \cap c.pending = {}
            /\ all = Select(c, ids).trades \cup {id \in c.pending : id >= m}
            /\ Select(c, ids).cursor.expected \in m..(n + 1)
            /\ Select(c, ids).cursor.expected \notin all
            /\ m..(Select(c, ids).cursor.expected - 1) \subseteq all
            /\ Select(c, ids).cursor.greatest \in 0..n
            /\ Select(c, ids).cursor.pending = all \ (m..Select(c, ids).cursor.expected)
            /\ Select(c, ids).cursor.pending \subseteq
                  (Select(c, ids).cursor.expected + 1)..Select(c, ids).cursor.greatest
<1> DEFINE first == Min(ids)
           a == IF c.expected = None THEN first ELSE c.expected
           m == Resumes(a, first)
           ahead == Reachable(c.pending, m)
           new == Unseen(ids, m, ahead)
           all == new \cup ahead
           next == Min((m..(m + Cardinality(all))) \ all)
           top == Max(new \cup {c.greatest})
<1>1. first \in ids /\ first \in 1..n /\ \A id \in ids : first <= id
  <2>1. ids \in SUBSET Nat
    OBVIOUS
  <2> QED BY <2>1, MinFacts
<1> HIDE DEF first
<1>2. c.expected \in 0..(n + 1) /\ c.greatest \in 0..n /\ c.pending \subseteq (c.expected + 1)..c.greatest
      /\ (c.expected = None => c.pending = {})
  BY DEF CursorOK
<1>3. a \in 1..(n + 1)
  BY <1>1, <1>2 DEF None
<1>4. c.expected = None => a = first
  OBVIOUS
<1>5. c.expected # None => a = c.expected
  OBVIOUS
<1> HIDE DEF a
<1>6. m \in 1..(n + 1) /\ m \in {a, first} /\ a <= m /\ first <= m
  <2>1. {a, first} \in SUBSET (0..(n + 1)) /\ {a, first} # {} /\ n + 1 \in Nat
    BY <1>1, <1>3
  <2>2. Max({a, first}) \in {a, first} /\ \A y \in {a, first} : y <= Max({a, first})
    BY <2>1, MaxFacts
  <2> QED BY <1>1, <1>3, <2>2 DEF Resumes
<1> HIDE DEF m
<1>7. ahead = {id \in c.pending : id >= m} /\ new = {id \in ids : id >= m /\ id \notin ahead}
  BY DEF Reachable, Unseen
<1> HIDE DEF ahead, new
<1>8. all \in SUBSET (m..n)
  <2>1. new \subseteq m..n
    <3>1. SUFFICES ASSUME NEW id \in new PROVE id \in m..n
      OBVIOUS
    <3>2. id \in 1..n /\ id >= m
      BY <1>7
    <3> QED BY <1>6, <3>2
  <2>2. ahead \subseteq m..n
    BY <1>2, <1>6, <1>7
  <2> QED BY <2>1, <2>2
<1>9. next \in m..(n + 1) /\ next \notin all /\ m..(next - 1) \subseteq all
  <2> HIDE DEF all
  <2> QED BY <1>6, <1>8, NextFacts
<1> HIDE DEF next
<1>10. top \in 0..n /\ c.greatest <= top /\ \A id \in new : id <= top
  <2> DEFINE T == new \cup {c.greatest}
  <2>1. T \in SUBSET (0..n) /\ T # {}
    BY <1>2, <1>6, <1>8
  <2>2. Max(T) \in T /\ \A y \in T : y <= Max(T)
    <3> HIDE DEF T
    <3> QED BY <2>1, MaxFacts
  <2>3. Max(T) \in 0..n
    BY <2>1, <2>2
  <2> QED BY <2>2, <2>3
<1> HIDE DEF top
<1>11. Select(c, ids) = [ cursor |-> [expected |-> next, greatest |-> top,
                                      pending |-> all \ (m..next)],
                          trades |-> new, gap |-> Gap(a, first) ]
  BY Zenon DEF Select, first, a, m, ahead, new, next, top
<1>12. Gap(a, first) = IF a < m THEN <<GapRow(a, m)>> ELSE <<>>
  <2>1. a < m => m = first
    BY <1>3, <1>6
  <2>2. first > a <=> a < m
    BY <1>1, <1>3, <1>6
  <2> QED BY <2>1, <2>2 DEF Gap
<1>13. new \cap c.pending = {}
  BY <1>7
<1>14. c.expected = None => m = a /\ a \in all
  <2>1. SUFFICES ASSUME c.expected = None PROVE m = a /\ a \in all
    OBVIOUS
  <2>2. m = first /\ a = first /\ first \notin ahead /\ first >= m
    BY <1>1, <1>2, <1>4, <1>6, <1>7, <2>1
  <2> QED BY <1>1, <1>7, <2>2
<1>15. all \ (m..next) \subseteq (next + 1)..top
  <2>1. SUFFICES ASSUME NEW id \in all, id \notin m..next PROVE id \in (next + 1)..top
    OBVIOUS
  <2>2. id \in m..n
    BY <1>8
  <2>3. id <= top
    <3>1. CASE id \in new
      BY <1>10, <3>1
    <3>2. CASE id \in ahead
      <4>1. id <= c.greatest /\ id \in Nat
        BY <1>2, <1>7, <2>2, <3>2
      <4> QED BY <1>2, <1>10, <4>1
    <3> QED BY <3>1, <3>2
  <2>4. ~(id <= next)
    BY <1>6, <1>9, <2>1, <2>2
  <2> HIDE DEF all
  <2> QED BY <1>6, <1>9, <1>10, <2>2, <2>3, <2>4
<1>16. new \subseteq m..n /\ all \in SUBSET (1..n)
  BY <1>6, <1>8
<1>17. all = new \cup {id \in c.pending : id >= m}
  BY <1>7
<1> HIDE DEF all
<1>18. /\ Select(c, ids).gap = IF a < m THEN <<GapRow(a, m)>> ELSE <<>>
       /\ Select(c, ids).trades = new
       /\ Select(c, ids).cursor.expected = next
       /\ Select(c, ids).cursor.greatest = top
       /\ Select(c, ids).cursor.pending = all \ (m..next)
  BY <1>11, <1>12
<1> QED BY <1>3, <1>5, <1>6, <1>9, <1>10, <1>13, <1>14, <1>15, <1>16, <1>17, <1>18

(***************************************************************************)
(* _record_batch.                                                          *)
(***************************************************************************)

(* Nth numbers the ids of an answer, each of them once.                    *)
LEMMA NthFacts ==
  ASSUME NEW n \in Nat, NEW ids \in SUBSET (1..n)
  PROVE  /\ Cardinality(ids) \in Nat
         /\ \A i \in 1..Cardinality(ids) : Nth(ids, i) \in ids
         /\ \A i, j \in 1..Cardinality(ids) : Nth(ids, i) = Nth(ids, j) => i = j
         /\ \A id \in ids : \E i \in 1..Cardinality(ids) : Nth(ids, i) = id
<1> DEFINE D == 1..Cardinality(ids)
           rank(x) == Cardinality({y \in ids : y <= x})
<1>1. /\ Cardinality(ids) \in 0..n
      /\ \A i \in D : \E x \in ids : rank(x) = i
      /\ \A x \in ids : rank(x) \in D
      /\ \A x, z \in ids : rank(x) = rank(z) => x = z
  BY RankFacts
<1>2. \A i : Nth(ids, i) = CHOOSE x \in ids : rank(x) = i
  BY DEF Nth
<1>3. Cardinality(ids) \in Nat
  BY <1>1
<1> HIDE DEF D, rank
<1>4. \A i \in D : Nth(ids, i) \in ids /\ rank(Nth(ids, i)) = i
  BY <1>1, <1>2
<1>5. \A i, j \in D : Nth(ids, i) = Nth(ids, j) => i = j
  BY <1>4
<1>6. \A id \in ids : rank(id) \in D /\ Nth(ids, rank(id)) = id
  BY <1>1, <1>4
<1> QED BY <1>3, <1>4, <1>5, <1>6 DEF D

RowsOf(a, m, new) == (IF a < m THEN <<GapRow(a, m)>> ELSE <<>>) \o TradeRows(new)

(* The rows of a selection: the gap in front of m if there is one, then each *)
(* new trade once.                                                         *)
LEMMA RowsFacts ==
  ASSUME NEW n \in 0..MaxId, NEW a \in 1..(n + 1), NEW m \in 1..(n + 1), a <= m,
         NEW new \in SUBSET (m..n)
  PROVE  LET rows == RowsOf(a, m, new)
         IN  /\ rows \in Seq(LogRows)
             /\ \A i \in 1..Len(rows) :
                   \/ /\ rows[i].kind = "gap" /\ i = 1 /\ a < m
                      /\ rows[i].from = a /\ rows[i].to = m - 1
                   \/ /\ rows[i].kind = "trade" /\ rows[i].from \in new
                      /\ rows[i].to = rows[i].from
             /\ Once(rows)
             /\ \A id \in (a..(m - 1)) \cup new :
                   \E i \in 1..Len(rows) : id \in Tells(rows[i])
<1> DEFINE gap == IF a < m THEN <<GapRow(a, m)>> ELSE <<>>
           trades == TradeRows(new)
           rows == gap \o trades
           g == Len(gap)
           k == Cardinality(new)
<1>0. MaxId \in Nat /\ n \in Nat
  BY RawTradesAssumption
<1>1. new \in SUBSET (1..n) /\ \A id \in new : id \in Ids /\ id \in Nat
  BY <1>0 DEF Ids
<1>2. /\ k \in Nat
      /\ \A i \in 1..k : Nth(new, i) \in new
      /\ \A i, j \in 1..k : Nth(new, i) = Nth(new, j) => i = j
      /\ \A id \in new : \E i \in 1..k : Nth(new, i) = id
  BY <1>0, <1>1, NthFacts
<1> HIDE DEF k
<1>3. /\ \A i \in 1..k : trades[i] = TradeRow(Nth(new, i)) /\ trades[i] \in LogRows
      /\ trades \in Seq(LogRows) /\ Len(trades) = k
  <2>1. trades = [i \in 1..k |-> TradeRow(Nth(new, i))]
    BY DEF TradeRows, k
  <2>2. \A id \in new : TradeRow(id) \in LogRows
    BY <1>1 DEF TradeRow, LogRows
  <2> HIDE DEF trades
  <2>3. \A i \in 1..k : trades[i] = TradeRow(Nth(new, i)) /\ trades[i] \in LogRows
    BY <1>2, <2>1, <2>2
  <2> QED BY <1>2, <2>1, <2>2, <2>3
<1>4. a < m => GapRow(a, m) \in LogRows
  BY <1>0 DEF GapRow, LogRows, Ids
<1>5. /\ gap \in Seq(LogRows) /\ g \in 0..1 /\ (g = 1 <=> a < m)
      /\ g = 1 => gap[1] = GapRow(a, m)
  BY <1>4
<1> HIDE DEF trades, gap
<1>6. /\ rows \in Seq(LogRows) /\ Len(rows) = g + k
      /\ \A i \in 1..g : rows[i] = gap[i]
      /\ \A i \in (g + 1)..(g + k) : rows[i] = trades[i - g]
  BY <1>2, <1>3, <1>5
<1> HIDE DEF rows, g
<1>7. \A i \in 1..Len(rows) : i \in 1..g \/ (i \in (g + 1)..(g + k) /\ i - g \in 1..k)
  BY <1>2, <1>5, <1>6
<1>8. \A i \in 1..g : i = 1 /\ a < m /\ rows[i] = GapRow(a, m)
  BY <1>5, <1>6
<1>9. \A i \in (g + 1)..(g + k) : i - g \in 1..k /\ rows[i] = TradeRow(Nth(new, i - g))
  BY <1>2, <1>3, <1>5, <1>6
<1>10. ASSUME NEW i \in 1..Len(rows)
       PROVE  \/ /\ rows[i].kind = "gap" /\ i = 1 /\ a < m
                 /\ rows[i].from = a /\ rows[i].to = m - 1
              \/ /\ rows[i].kind = "trade" /\ rows[i].from \in new
                 /\ rows[i].to = rows[i].from
  <2>1. CASE i \in 1..g
    BY <1>8, <2>1 DEF GapRow
  <2>2. CASE i \in (g + 1)..(g + k)
    <3>1. PICK id \in new : rows[i] = TradeRow(id)
      BY <1>2, <1>9, <2>2
    <3> QED BY <3>1 DEF TradeRow
  <2> QED BY <1>7, <2>1, <2>2
<1>11. ASSUME NEW i \in 1..Len(rows), NEW j \in 1..Len(rows),
              rows[i].kind = "trade", rows[i] = rows[j]
       PROVE  i = j
  <2>1. i \notin 1..g /\ j \notin 1..g
    <3>1. \A x \in 1..g : rows[x].kind = "gap"
      BY <1>8 DEF GapRow
    <3> QED BY <1>11, <3>1
  <2>2. /\ i - g \in 1..k /\ rows[i] = TradeRow(Nth(new, i - g))
        /\ j - g \in 1..k /\ rows[j] = TradeRow(Nth(new, j - g))
    BY <1>7, <1>9, <2>1
  <2>3. \A x, y : TradeRow(x) = TradeRow(y) => x = y
    BY DEF TradeRow
  <2>4. i - g = j - g
    BY <1>2, <1>11, <2>2, <2>3
  <2> QED BY <1>5, <1>6, <2>4
<1>12. ASSUME NEW id \in (a..(m - 1)) \cup new
       PROVE  \E i \in 1..Len(rows) : id \in Tells(rows[i])
  <2>1. CASE id \in new
    <3>1. PICK i \in 1..k : Nth(new, i) = id
      BY <1>2, <2>1
    <3>2. g + i \in (g + 1)..(g + k) /\ (g + i) - g = i /\ g + i \in 1..Len(rows)
      BY <1>2, <1>5, <1>6, <3>1
    <3>3. rows[g + i] = TradeRow(id) /\ id \in Nat
      BY <1>1, <1>9, <2>1, <3>1, <3>2
    <3> QED BY <3>2, <3>3 DEF Tells, TradeRow
  <2>2. CASE id \in a..(m - 1)
    <3>1. a < m
      BY <2>2
    <3>2. 1 \in 1..Len(rows) /\ rows[1] = GapRow(a, m)
      BY <1>2, <1>5, <1>6, <1>8, <3>1
    <3> QED BY <2>2, <3>2 DEF Tells, GapRow
  <2> QED BY <2>1, <2>2
<1>13. Once(rows)
  BY <1>11 DEF Once
<1>14. rows = RowsOf(a, m, new)
  BY Zenon DEF rows, gap, trades, RowsOf
<1> HIDE DEF Once, RowsOf
<1> QED BY <1>6, <1>10, <1>12, <1>13, <1>14

LEMMA ToldByFacts ==
  ASSUME NEW T, NEW rows \in Seq(T)
  PROVE  \A id : id \in ToldBy(rows) <=> \E i \in 1..Len(rows) : id \in Tells(rows[i])
BY DEF ToldBy, ToSet

(* Where select has put the cursor, and what it has taken.                 *)
Selected(c, n, a, m, all, new, d) ==
    /\ c.expected # None => a = c.expected
    /\ c.expected = None => m = a /\ a \in all
    /\ a <= m
    /\ new \subseteq m..n
    /\ new \cap c.pending = {}
    /\ all = new \cup {id \in c.pending : id >= m}
    /\ d.expected \in m..(n + 1)
    /\ d.expected \notin all
    /\ m..(d.expected - 1) \subseteq all
    /\ d.greatest \in 0..n
    /\ d.pending = all \ (m..d.expected)
    /\ d.pending \subseteq (d.expected + 1)..d.greatest

(* However many of the rows are written, the log and the cursor fit again.  *)
LEMMA BatchFacts ==
  ASSUME NEW n \in 0..MaxId, NEW c, NEW rows, NEW missed, Recorded(c, rows, missed, n),
         NEW a \in 1..(n + 1), NEW m \in 1..(n + 1), NEW all \in SUBSET (1..n),
         NEW new, NEW d, Selected(c, n, a, m, all, new, d),
         NEW k \in 0..Len(RowsOf(a, m, new))
  PROVE  Recorded(d, rows \o SubSeq(RowsOf(a, m, new), 1, k),
                  missed \cup ToldBy(SubSeq(RowsOf(a, m, new), k + 1, Len(RowsOf(a, m, new)))), n)
<1> DEFINE r == RowsOf(a, m, new)
           head == SubSeq(r, 1, k)
           tail == SubSeq(r, k + 1, Len(r))
           log2 == rows \o head
           l == Len(rows)
           unwritten == ToldBy(tail)
<1>0. /\ MaxId \in Nat /\ n \in Nat /\ a \in Nat /\ m \in Nat /\ a <= m
      /\ new \in SUBSET (m..n) /\ \A id \in new : id \in Nat /\ m <= id
  <2>1. MaxId \in Nat /\ n \in Nat /\ a <= m /\ new \in SUBSET (m..n)
    BY RawTradesAssumption DEF Selected
  <2> QED BY <2>1
<1>1. /\ r \in Seq(LogRows)
      /\ \A i \in 1..Len(r) :
            \/ /\ r[i].kind = "gap" /\ i = 1 /\ a < m
               /\ r[i].from = a /\ r[i].to = m - 1
            \/ /\ r[i].kind = "trade" /\ r[i].from \in new
               /\ r[i].to = r[i].from
      /\ Once(r)
      /\ \A id \in (a..(m - 1)) \cup new :
            \E i \in 1..Len(r) : id \in Tells(r[i])
  BY <1>0, RowsFacts
<1>2. /\ rows \in Seq(LogRows) /\ missed \subseteq 1..n /\ CursorOK(c, n)
      /\ Behind(rows, c) /\ Covered(ToldBy(rows) \cup missed, c, n)
      /\ Once(rows) /\ Final(rows)
  BY DEF Recorded
<1>3. k \in 0..Len(r)
  OBVIOUS
<1> HIDE DEF r
<1>4. /\ head \in Seq(LogRows) /\ Len(head) = k /\ \A i \in 1..k : head[i] = r[i]
      /\ tail \in Seq(LogRows) /\ Len(tail) = Len(r) - k
      /\ \A i \in 1..(Len(r) - k) : tail[i] = r[k + i]
  BY <1>1, <1>3
<1> HIDE DEF head, tail
<1>5. /\ l \in Nat /\ log2 \in Seq(LogRows) /\ Len(log2) = l + k
      /\ \A i \in 1..l : log2[i] = rows[i]
      /\ \A i \in (l + 1)..(l + k) : log2[i] = head[i - l]
  <2>1. rows \in Seq(LogRows) /\ head \in Seq(LogRows) /\ Len(head) = k /\ k \in Nat
    BY <1>1, <1>2, <1>3, <1>4
  <2>2. l \in Nat /\ log2 \in Seq(LogRows) /\ Len(log2) = l + k
    BY <2>1
  <2>3. \A i \in 1..l : log2[i] = rows[i]
    BY <2>1
  <2>4. \A i \in (l + 1)..(l + k) : log2[i] = head[i - l]
    BY <2>1
  <2> QED BY <2>2, <2>3, <2>4
<1> HIDE DEF log2, l
<1>6. \A i \in 1..Len(log2) :
         \/ i \in 1..l /\ log2[i] = rows[i]
         \/ i \in (l + 1)..(l + k) /\ i - l \in 1..k /\ i - l \in 1..Len(r) /\ log2[i] = r[i - l]
  BY <1>3, <1>4, <1>5
<1>7. CursorOK(d, n)
  <2>1. m <= d.expected /\ d.expected \in 1..(n + 1)
    BY <1>0 DEF Selected
  <2> QED BY <2>1 DEF CursorOK, Selected, None
<1>8. Behind(log2, d)
  <2>1. \A id \in all : id < d.expected \/ id \in d.pending
    <3>1. SUFFICES ASSUME NEW id \in all PROVE id < d.expected \/ id \in d.pending
      OBVIOUS
    <3>2. id \in Nat /\ id >= m /\ id # d.expected /\ d.expected \in Nat
      BY <1>0 DEF Selected
    <3>3. id \notin m..d.expected => id > d.expected \/ id < m
      BY <1>0, <3>2
    <3> QED BY <1>0, <3>2 DEF Selected
  <2>2. \A id \in c.pending : id < m \/ id \in all
    BY <1>0, <1>2 DEF Selected, CursorOK
  <2>3. c.expected \in Nat /\ c.expected <= m /\ m <= d.expected /\ d.expected \in Nat
    BY <1>0, <1>2 DEF Selected, CursorOK, None
  <2>4. ASSUME NEW i \in 1..Len(log2)
        PROVE  /\ log2[i].kind = "trade" =>
                     /\ log2[i].to = log2[i].from
                     /\ log2[i].from < d.expected \/ log2[i].from \in d.pending
               /\ log2[i].kind = "gap" =>
                     log2[i].from <= log2[i].to /\ log2[i].to < d.expected
    <3>1. CASE i \in 1..l /\ log2[i] = rows[i]
      <4>1. i \in 1..Len(rows) /\ rows[i] \in LogRows
        BY <1>2, <3>1 DEF l
      <4>2. rows[i].from \in Nat /\ rows[i].to \in Nat
        BY <4>1 DEF LogRows, Ids
      <4>3. /\ rows[i].kind = "trade" =>
                  /\ rows[i].to = rows[i].from
                  /\ rows[i].from < c.expected \/ rows[i].from \in c.pending
            /\ rows[i].kind = "gap" => rows[i].from <= rows[i].to /\ rows[i].to < c.expected
        BY <1>2, <4>1 DEF Behind
      <4>4. \/ ~(rows[i].from < c.expected \/ rows[i].from \in c.pending)
            \/ rows[i].from < d.expected \/ rows[i].from \in d.pending
        BY <1>0, <2>1, <2>2, <2>3, <4>2, SMTT(30)
      <4> QED BY <2>3, <3>1, <4>2, <4>3, <4>4, <1>0
    <3>2. CASE i - l \in 1..Len(r) /\ log2[i] = r[i - l]
      <4>1. \A id \in new : id \in all
        BY DEF Selected
      <4> DEFINE x == r[i - l]
      <4>2. \/ /\ x.kind = "gap" /\ a < m
               /\ x.from = a /\ x.to = m - 1
            \/ /\ x.kind = "trade" /\ x.from \in new
               /\ x.to = x.from
        BY <1>1, <3>2
      <4>3. log2[i] = x
        BY <3>2
      <4> HIDE DEF x
      <4>4. x.kind = "gap" => x.from <= x.to /\ x.to < d.expected
        BY <1>0, <2>3, <4>2
      <4> QED BY <2>1, <4>1, <4>2, <4>3, <4>4
    <3> QED BY <1>6, <3>1, <3>2
  <2> QED BY <2>4 DEF Behind
<1>9. Covered(ToldBy(log2) \cup (missed \cup unwritten), d, n)
  <2> DEFINE told == ToldBy(rows) \cup missed
             told2 == ToldBy(log2) \cup (missed \cup unwritten)
             added == (a..(m - 1)) \cup new
  <2>1. told2 = told \cup added
    <3>1. \A id : id \in ToldBy(rows) <=> \E i \in 1..l : id \in Tells(rows[i])
      BY <1>2, ToldByFacts DEF l
    <3>2. \A id : id \in ToldBy(log2) <=> \E i \in 1..Len(log2) : id \in Tells(log2[i])
      BY <1>5, ToldByFacts
    <3>3. \A id : id \in unwritten <=> \E i \in 1..(Len(r) - k) : id \in Tells(r[k + i])
      <4>1. \A id : id \in unwritten <=> \E i \in 1..Len(tail) : id \in Tells(tail[i])
        BY <1>4, ToldByFacts
      <4> QED BY <1>4, <4>1
    <3>4. \A id : id \in added <=> \E i \in 1..Len(r) : id \in Tells(r[i])
      <4>1. SUFFICES ASSUME NEW i \in 1..Len(r), NEW id \in Tells(r[i]) PROVE id \in added
        BY <1>1
      <4> DEFINE x == r[i]
      <4>2. \/ x.from = a /\ x.to = m - 1
            \/ x.from \in new /\ x.to = x.from
        BY <1>1
      <4>3. id \in x.from..x.to
        BY <4>1 DEF Tells
      <4> HIDE DEF x
      <4>4. CASE x.from = a /\ x.to = m - 1
        BY <4>3, <4>4
      <4>5. CASE x.from \in new /\ x.to = x.from
        <5>1. x.from \in Nat
          BY <1>0, <4>5
        <5>2. id = x.from
          BY <4>3, <4>5, <5>1
        <5> QED BY <4>5, <5>2
      <4> QED BY <4>2, <4>4, <4>5
    <3> HIDE DEF unwritten, added
    <3>5. ASSUME NEW id \in told2 PROVE id \in told \cup added
      <4>1. CASE id \in ToldBy(log2)
        <5>1. PICK i \in 1..Len(log2) : id \in Tells(log2[i])
          BY <3>2, <4>1
        <5> QED BY <1>6, <3>1, <3>4, <5>1
      <4>2. CASE id \in unwritten
        <5>1. PICK i \in 1..(Len(r) - k) : id \in Tells(r[k + i])
          BY <3>3, <4>2
        <5>2. k + i \in 1..Len(r)
          BY <1>1, <1>3
        <5> QED BY <3>4, <5>1, <5>2
      <4> QED BY <4>1, <4>2
    <3>6. ASSUME NEW id \in told \cup added PROVE id \in told2
      <4>1. CASE id \in ToldBy(rows)
        <5>1. PICK i \in 1..l : id \in Tells(rows[i])
          BY <3>1, <4>1
        <5>2. i \in 1..Len(log2) /\ log2[i] = rows[i]
          BY <1>3, <1>5
        <5> QED BY <3>2, <5>1, <5>2
      <4>2. CASE id \in added
        <5>1. PICK i \in 1..Len(r) : id \in Tells(r[i])
          BY <3>4, <4>2
        <5>2. CASE i <= k
          <6>1. /\ l + i \in 1..Len(log2) /\ l + i \in (l + 1)..(l + k)
                /\ (l + i) - l = i /\ i \in 1..k
            BY <1>1, <1>3, <1>5, <5>2
          <6>2. log2[l + i] = r[i]
            BY <1>4, <1>5, <6>1
          <6> QED BY <3>2, <5>1, <6>1, <6>2
        <5>3. CASE i > k
          <6>1. i - k \in 1..(Len(r) - k) /\ k + (i - k) = i
            BY <1>1, <1>3, <5>3
          <6> QED BY <3>3, <5>1, <6>1
        <5> QED BY <1>1, <1>3, <5>2, <5>3
      <4> QED BY <4>1, <4>2
    <3> QED BY <3>5, <3>6
  <2>2. told \subseteq 1..n /\ (c.expected = None => told = {})
        /\ (c.expected # None => \E z \in told : Covers(told, c, z))
    BY <1>2 DEF Covered
  <2> HIDE DEF told, told2
  <2>3. added \subseteq 1..n
    <3>1. \A id \in a..(m - 1) : id \in 1..n
      BY <1>0
    <3>2. \A id \in new : id \in 1..n
      BY <1>0
    <3> QED BY <3>1, <3>2
  <2>4. \E z \in told2 : Covers(told2, d, z)
    <3>1. /\ d.expected \in Nat /\ m <= d.expected /\ d.expected \notin all
          /\ m..(d.expected - 1) \subseteq all /\ d.pending \subseteq all
          /\ all = new \cup {id \in c.pending : id >= m}
      BY <1>0 DEF Selected
    <3>2. CASE c.expected = None
      <4>1. m = a /\ a \in all /\ c.pending = {} /\ told = {}
        BY <1>2, <2>2, <3>2 DEF Selected, CursorOK
      <4>2. all = new /\ told2 = new
        BY <1>0, <2>1, <3>1, <4>1
      <4>3. m < d.expected
        BY <1>0, <3>1, <4>1
      <4>4. Covers(told2, d, m)
        BY <1>0, <3>1, <4>1, <4>2, <4>3 DEF Covers
      <4> QED BY <4>4 DEF Covers
    <3>3. CASE c.expected # None
      <4>1. a = c.expected /\ c.expected \in Nat /\ c.pending \subseteq told
        BY <1>2, <2>2, <3>3 DEF Selected, CursorOK, Covers
      <4>2. PICK z \in told : Covers(told, c, z)
        BY <2>2, <3>3
      <4>3. /\ z \in told2 /\ z \in Nat /\ z < c.expected
            /\ \A id \in told : z <= id
            /\ z..(c.expected - 1) \subseteq told
        BY <2>1, <2>2, <4>2 DEF Covers
      <4>4. all \subseteq told2
        BY <2>1, <3>1, <4>1
      <4>5. ASSUME NEW id \in told2 PROVE z <= id
        <5>1. \A x \in added : x \in Nat /\ a <= x
          BY <1>0
        <5> HIDE DEF added
        <5>2. CASE id \in told
          BY <4>3, <5>2
        <5>3. CASE id \in added
          BY <4>1, <4>3, <5>1, <5>3
        <5> QED BY <2>1, <5>2, <5>3
      <4>6. ASSUME NEW id \in z..(d.expected - 1) PROVE id \in told2
        <5>1. id \in Nat /\ z <= id /\ id <= d.expected - 1
          BY <3>1, <4>3
        <5>2. CASE id < a
          <6>1. id \in z..(c.expected - 1)
            BY <4>1, <4>3, <5>1, <5>2
          <6> QED BY <2>1, <4>3, <6>1
        <5>3. CASE a <= id /\ id < m
          BY <1>0, <2>1, <5>1, <5>3
        <5>4. CASE m <= id
          <6>1. id \in m..(d.expected - 1)
            BY <1>0, <3>1, <5>1, <5>4
          <6> QED BY <3>1, <4>4, <6>1
        <5> QED BY <1>0, <5>1, <5>2, <5>3, <5>4
      <4>7. z < d.expected
        BY <1>0, <3>1, <4>1, <4>3
      <4> HIDE DEF added
      <4>8. Covers(told2, d, z)
        BY <3>1, <4>3, <4>4, <4>5, <4>6, <4>7 DEF Covers
      <4> QED BY <4>3, <4>8
    <3> QED BY <3>2, <3>3
  <2>5. d.expected # None
    BY <1>0 DEF Selected, None
  <2> QED BY <2>1, <2>2, <2>3, <2>4, <2>5 DEF Covered, told2
<1>10. Once(log2)
  <2>1. \A i \in 1..l : rows[i].kind = "trade" =>
           rows[i].from \notin new /\ rows[i].kind = "trade"
    <3>1. SUFFICES ASSUME NEW i \in 1..l, rows[i].kind = "trade" PROVE rows[i].from \notin new
      OBVIOUS
    <3>2. i \in 1..Len(rows) /\ rows[i] \in LogRows
      BY <1>2 DEF l
    <3>3. rows[i].from \in Nat
      BY <3>2 DEF LogRows, Ids
    <3>4. rows[i].from < c.expected \/ rows[i].from \in c.pending
      BY <1>2, <3>1, <3>2 DEF Behind
    <3>5. c.expected \in Nat /\ c.expected <= m
      BY <1>0, <1>2 DEF Selected, CursorOK, None
    <3>6. rows[i].from < c.expected => rows[i].from \notin new
      BY <1>0, <3>3, <3>5
    <3> QED BY <3>4, <3>6 DEF Selected
  <2>2. ASSUME NEW i \in 1..Len(log2), NEW j \in 1..Len(log2),
               log2[i].kind = "trade", log2[i] = log2[j]
        PROVE  i = j
    <3>1. \A x \in 1..Len(r) : r[x].kind = "trade" => r[x].from \in new
      BY <1>1
    <3>2. CASE i \in 1..l /\ log2[i] = rows[i] /\ j \in 1..l /\ log2[j] = rows[j]
      BY <1>2, <2>2, <3>2 DEF Once, l
    <3>3. CASE /\ i - l \in 1..Len(r) /\ log2[i] = r[i - l]
               /\ j - l \in 1..Len(r) /\ log2[j] = r[j - l]
      <4>1. i - l = j - l
        BY <1>1, <2>2, <3>3 DEF Once
      <4> QED BY <1>3, <1>5, <4>1
    <3>4. CASE i \in 1..l /\ log2[i] = rows[i] /\ j - l \in 1..Len(r) /\ log2[j] = r[j - l]
      BY <2>1, <2>2, <3>1, <3>4
    <3>5. CASE j \in 1..l /\ log2[j] = rows[j] /\ i - l \in 1..Len(r) /\ log2[i] = r[i - l]
      BY <2>1, <2>2, <3>1, <3>5
    <3> QED BY <1>6, <3>2, <3>3, <3>4, <3>5
  <2> QED BY <2>2 DEF Once
<1>11. Final(log2)
  <2>1. \A x \in LogRows : x.from \in Nat /\ x.from > 0 /\ x.to \in Nat
    BY DEF LogRows, Ids
  <2>2. /\ c.expected \in Nat /\ c.expected <= m
        /\ c.expected # None => a = c.expected
        /\ c.expected = None => m = a
        /\ \A id \in c.pending : id \in Nat /\ id > c.expected
    BY <1>0, <1>2, SMTT(30) DEF Selected, CursorOK, None
  <2>3. ASSUME NEW i \in 1..Len(log2), NEW j \in 1..Len(log2), log2[i].kind = "gap"
        PROVE  /\ i < j => Tells(log2[i]) \cap Tells(log2[j]) = {}
               /\ log2[j].kind = "trade" => log2[i].from # log2[j].from
    <3>1. CASE i \in 1..l /\ log2[i] = rows[i] /\ j \in 1..l /\ log2[j] = rows[j]
      BY <1>2, <2>3, <3>1 DEF Final, l
    <3>2. CASE i \in 1..l /\ log2[i] = rows[i] /\ j - l \in 1..Len(r) /\ log2[j] = r[j - l]
      <4> DEFINE x == rows[i]
                 y == r[j - l]
      <4>1. i \in 1..Len(rows) /\ x \in LogRows
        BY <1>2, <3>2 DEF l
      <4>2. x.from <= x.to /\ x.to < c.expected
        BY <1>2, <2>3, <3>2, <4>1 DEF Behind
      <4>3. \/ y.from = a /\ y.to = m - 1
            \/ y.from \in new /\ y.to = y.from
        BY <1>1, <3>2
      <4>4. x.from \in Nat /\ x.from > 0 /\ x.to \in Nat
        BY <2>1, <4>1
      <4>5. log2[i] = x /\ log2[j] = y
        BY <3>2
      <4> HIDE DEF x, y
      <4>6. x.to < a /\ y.from \in Nat /\ a <= y.from
        <5>1. a = c.expected
          BY <2>2, <4>2, <4>4 DEF None
        <5>2. y.from \in new => y.from \in Nat /\ m <= y.from
          BY <1>0
        <5>3. y.from \in Nat /\ a <= y.from
          BY <1>0, <4>3, <5>2
        <5> QED BY <1>0, <2>2, <4>2, <4>4, <5>1, <5>3
      <4>7. Tells(x) \cap Tells(y) = {}
        <5>1. \A id \in Tells(x) : id \in Int /\ id <= x.to
          BY <4>4 DEF Tells
        <5>2. \A id \in Tells(y) : id \in Int /\ y.from <= id
          BY <4>6 DEF Tells
        <5> QED BY <1>0, <4>4, <4>6, <5>1, <5>2
      <4>8. x.from # y.from
        BY <1>0, <4>2, <4>4, <4>6
      <4> QED BY <4>5, <4>7, <4>8
    <3>3. CASE /\ i - l \in 1..Len(r) /\ log2[i] = r[i - l]
               /\ j - l \in 1..Len(r) /\ log2[j] = r[j - l]
      <4> DEFINE x == r[i - l]
                 y == r[j - l]
      <4>1. x.kind = "gap" /\ log2[i] = x /\ log2[j] = y
        BY <2>3, <3>3
      <4>2. i - l = 1 /\ x.from = a /\ x.to = m - 1 /\ a < m
        BY <1>1, <3>3, <4>1
      <4>3. \/ j - l = 1 /\ y.kind = "gap"
            \/ y.kind = "trade" /\ y.from \in new /\ y.to = y.from
        BY <1>1, <3>3
      <4> HIDE DEF x, y
      <4>4. j - l = 1 => j = i
        BY <1>3, <1>5, <4>2
      <4>5. CASE y.kind = "trade" /\ y.from \in new /\ y.to = y.from
        <5>1. y.from \in Nat /\ m <= y.from
          BY <1>0, <4>5
        <5>2. \A id \in Tells(x) : id \in Int /\ id <= m - 1
          BY <1>0, <4>2 DEF Tells
        <5>3. \A id \in Tells(y) : id \in Int /\ m <= id
          BY <1>0, <4>5, <5>1 DEF Tells
        <5>4. Tells(x) \cap Tells(y) = {}
          BY <1>0, <5>2, <5>3
        <5>5. x.from # y.from
          BY <1>0, <4>2, <5>1
        <5> QED BY <4>1, <5>4, <5>5
      <4>6. CASE j = i /\ y.kind = "gap"
        BY <4>1, <4>6
      <4> QED BY <4>3, <4>4, <4>5, <4>6
    <3>4. CASE i - l \in 1..Len(r) /\ log2[i] = r[i - l] /\ j \in 1..l /\ log2[j] = rows[j]
      <4> DEFINE x == r[i - l]
                 y == rows[j]
      <4>1. x.kind = "gap" /\ log2[i] = x /\ log2[j] = y
        BY <2>3, <3>4
      <4>2. x.from = a /\ a < m
        BY <1>1, <3>4, <4>1
      <4>3. j \in 1..Len(rows) /\ y \in LogRows
        BY <1>2, <3>4 DEF l
      <4>4. y.kind = "trade" => y.from < c.expected \/ y.from \in c.pending
        BY <1>2, <4>3 DEF Behind
      <4>5. y.from \in Nat
        BY <2>1, <4>3
      <4>6. ~(i < j)
        BY <1>3, <1>5, <3>4
      <4> HIDE DEF x, y
      <4>7. a = c.expected
        BY <1>0, <2>2, <4>2
      <4>8. y.kind = "trade" => x.from # y.from
        BY <1>0, <2>2, <4>2, <4>4, <4>5, <4>7
      <4> QED BY <4>1, <4>6, <4>8
    <3> QED BY <1>6, <3>1, <3>2, <3>3, <3>4
  <2> QED BY <2>3 DEF Final
<1>12. missed \cup unwritten \subseteq 1..n
  BY <1>9 DEF Covered
<1>13. Recorded(d, log2, missed \cup unwritten, n)
  BY <1>5, <1>7, <1>8, <1>9, <1>10, <1>11, <1>12 DEF Recorded
<1> QED BY <1>13, Zenon DEF log2, unwritten, head, tail, r

(* So a poll that writes k of the rows of its batch keeps the invariant.   *)
LEMMA PollFacts ==
  ASSUME NEW n \in 0..MaxId, NEW c, NEW rows, NEW missed, Recorded(c, rows, missed, n),
         NEW ids \in SUBSET (1..n), NEW k \in 0..Len(Rows(Select(c, ids)))
  PROVE  LET r == Rows(Select(c, ids))
         IN  /\ r \in Seq(LogRows)
             /\ Recorded(Select(c, ids).cursor, rows \o SubSeq(r, 1, k),
                         missed \cup ToldBy(SubSeq(r, k + 1, Len(r))), n)
<1> DEFINE r == Rows(Select(c, ids))
<1>0. n \in Nat /\ CursorOK(c, n) /\ rows \in Seq(LogRows)
  BY RawTradesAssumption DEF Recorded
<1>1. CASE ids = {}
  <2>1. Select(c, ids) = [cursor |-> c, trades |-> {}, gap |-> <<>>]
    BY <1>1, Zenon DEF Select
  <2>2. Cardinality({}) = 0
    BY FS_EmptySet
  <2>3. TradeRows({}) = <<>>
    BY <2>2 DEF TradeRows
  <2>4. r = <<>> /\ Select(c, ids).cursor = c
    BY <2>1, <2>3 DEF Rows
  <2> HIDE DEF r
  <2>5. k = 0
    BY <2>4 DEF r
  <2>6. /\ rows \o SubSeq(r, 1, k) = rows
        /\ SubSeq(r, k + 1, Len(r)) = <<>> /\ r \in Seq(LogRows)
    BY <1>0, <2>4, <2>5
  <2>7. ToldBy(<<>>) = {}
    BY DEF ToldBy, ToSet
  <2>8. missed \cup ToldBy(SubSeq(r, k + 1, Len(r))) = missed
    BY <2>6, <2>7
  <2>9. Recorded(Select(c, ids).cursor, rows \o SubSeq(r, 1, k),
                 missed \cup ToldBy(SubSeq(r, k + 1, Len(r))), n)
    BY <2>4, <2>6, <2>8
  <2> QED BY <2>6, <2>9 DEF r
<1>2. CASE ids # {}
  <2> DEFINE s == Select(c, ids)
             d == s.cursor
             new == s.trades
  <2>1. PICK a, m \in 1..(n + 1), all \in SUBSET (1..n) :
            /\ Selected(c, n, a, m, all, new, d)
            /\ s.gap = IF a < m THEN <<GapRow(a, m)>> ELSE <<>>
    BY <1>0, <1>2, SelectFacts, ZenonT(30) DEF Selected
  <2>2. r = RowsOf(a, m, new)
    BY <2>1 DEF Rows, RowsOf
  <2>3. a <= m /\ new \in SUBSET (m..n) /\ k \in 0..Len(r)
    BY <2>1 DEF Selected
  <2> HIDE DEF s, d, new, r
  <2>4. r \in Seq(LogRows)
    BY <2>2, <2>3, RowsFacts
  <2>5. Recorded(d, rows \o SubSeq(r, 1, k),
                 missed \cup ToldBy(SubSeq(r, k + 1, Len(r))), n)
    <3>1. k \in 0..Len(RowsOf(a, m, new))
      BY <2>2, <2>3
    <3> HIDE DEF RowsOf
    <3> QED BY <2>1, <2>2, <3>1, BatchFacts
  <2> QED BY <2>4, <2>5, Zenon DEF s, d, r
<1> QED BY <1>1, <1>2

(***************************************************************************)
(* The poll task.                                                          *)
(***************************************************************************)

LEMMA InitIInv ==
  Init => IInv
<1> SUFFICES ASSUME Init PROVE IInv
  OBVIOUS
<1>1. MaxId \in Nat /\ MaxFaults \in Nat
  BY RawTradesAssumption
<1>2. ToldBy(<<>>) = {}
  BY DEF ToldBy, ToSet
<1>3. Recorded(NewCursor, <<>>, {}, 0)
  <2>1. CursorOK(NewCursor, 0)
    BY DEF CursorOK, NewCursor, None
  <2>2. Covered(ToldBy(<<>>) \cup {}, NewCursor, 0)
    BY <1>2 DEF Covered, NewCursor
  <2> QED BY <2>1, <2>2 DEF Recorded, Behind, Once, Final
<1> QED BY <1>1, <1>3 DEF Init, IInv

(* Nothing the recorder has depends on how many trades the exchange has     *)
(* given out since.                                                        *)
LEMMA RecordedLater ==
  ASSUME NEW n \in Nat, NEW c, NEW rows, NEW missed, Recorded(c, rows, missed, n)
  PROVE  Recorded(c, rows, missed, n + 1)
<1>1. 1..n \subseteq 1..(n + 1) /\ 0..n \subseteq 0..(n + 1) /\ 0..(n + 1) \subseteq 0..(n + 1 + 1)
  OBVIOUS
<1>2. CursorOK(c, n + 1)
  BY <1>1 DEF Recorded, CursorOK
<1>3. Covered(ToldBy(rows) \cup missed, c, n + 1)
  BY <1>1 DEF Recorded, Covered
<1> QED BY <1>1, <1>2, <1>3 DEF Recorded

LEMMA NextIInv ==
  IInv /\ [Next]_vars => IInv'
<1> SUFFICES ASSUME IInv, [Next]_vars PROVE IInv'
  OBVIOUS
<1>0. /\ last \in 0..MaxId /\ last \in Nat /\ MaxId \in Nat /\ late \subseteq 1..last
      /\ task \in {"polling", "cancelled", "failed"}
      /\ faults \in 0..MaxFaults /\ MaxFaults \in Nat
      /\ Recorded(cursor, log, lost, last)
  BY RawTradesAssumption DEF IInv
<1>1. ASSUME NEW delayed \in BOOLEAN, NewTrade(delayed) PROVE IInv'
  <2>1. Recorded(cursor, log, lost, last + 1)
    BY <1>0, RecordedLater
  <2>2. last' = last + 1 /\ last' \in 0..MaxId
    BY <1>0, <1>1 DEF NewTrade
  <2>3. late' \subseteq 1..last'
    BY <1>0, <1>1, <2>2 DEF NewTrade
  <2>4. Recorded(cursor', log', lost', last')
    BY <1>1, <2>1, <2>2 DEF NewTrade
  <2> QED BY <1>0, <1>1, <2>2, <2>3, <2>4 DEF NewTrade, IInv
<1>2. ASSUME NEW id \in late, Appear(id) PROVE IInv'
  BY <1>0, <1>2 DEF Appear, IInv
<1>3. \A answer \in Answers : answer \in SUBSET (1..last)
  <2>1. SUFFICES ASSUME NEW h \in 0..last PROVE Newest(h) \in SUBSET (1..last)
    BY DEF Answers
  <2>2. 1..h \subseteq 1..last
    BY <1>0
  <2> QED BY <2>2 DEF Newest
<1>4. ASSUME NEW answer \in Answers, Poll(Select(cursor, answer)) PROVE IInv'
  <2> DEFINE r == Rows(Select(cursor, answer))
  <2>1. answer \in SUBSET (1..last)
    BY <1>3
  <2>2. /\ r \in Seq(LogRows)
        /\ \A k \in 0..Len(r) : Recorded(Select(cursor, answer).cursor, log \o SubSeq(r, 1, k),
                                        lost \cup ToldBy(SubSeq(r, k + 1, Len(r))), last)
    <3>1. 0 \in 0..Len(r)
      OBVIOUS
    <3> QED BY <1>0, <2>1, <3>1, PollFacts
  <2>3. Len(r) \in 0..Len(r) /\ SubSeq(r, 1, Len(r)) = r /\ SubSeq(r, Len(r) + 1, Len(r)) = <<>>
    <3> HIDE DEF r
    <3> QED BY <2>2
  <2>4. ToldBy(<<>>) = {}
    BY DEF ToldBy, ToSet
  <2>5. Recorded(Select(cursor, answer).cursor, log \o r, lost, last)
    <3> HIDE DEF r
    <3> DEFINE none == SubSeq(r, Len(r) + 1, Len(r))
    <3>1. Recorded(Select(cursor, answer).cursor, log \o SubSeq(r, 1, Len(r)), lost \cup ToldBy(none), last)
      BY <2>2, <2>3
    <3>2. lost \cup ToldBy(none) = lost
      BY <2>3, <2>4
    <3> HIDE DEF none
    <3> QED BY <2>3, <3>1, <3>2
  <2>6. cursor' = Select(cursor, answer).cursor /\ log' = log \o r
    BY <1>4 DEF Poll
  <2>7. last' = last /\ lost' = lost /\ late' = late /\ task' = task /\ faults' = faults
    BY <1>4 DEF Poll
  <2> HIDE DEF r
  <2>8. Recorded(cursor', log', lost', last')
    BY <2>5, <2>6, <2>7
  <2> QED BY <1>0, <2>7, <2>8 DEF IInv
<1>5. ASSUME NEW answer \in Answers, NEW k \in 0..Window,
             PollLosingRows(Select(cursor, answer), k)
      PROVE  IInv'
  <2> DEFINE r == Rows(Select(cursor, answer))
  <2>1. answer \in SUBSET (1..last)
    BY <1>3
  <2>2. /\ k = 0 \/ k < Len(r)
        /\ cursor' = Select(cursor, answer).cursor
        /\ log' = log \o SubSeq(r, 1, k)
        /\ lost' = lost \cup ToldBy(SubSeq(r, k + 1, Len(r)))
    BY <1>5 DEF PollLosingRows
  <2>3. last' = last /\ late' = late /\ task' = task /\ faults' \in 0..MaxFaults
    BY <1>0, <1>5 DEF PollLosingRows
  <2>4. r \in Seq(LogRows)
    <3>1. 0 \in 0..Len(r)
      OBVIOUS
    <3> QED BY <1>0, <2>1, <3>1, PollFacts
  <2>5. k \in 0..Len(r)
    <3>1. k \in Nat
      BY RawTradesAssumption
    <3>2. Len(r) \in Nat
      <4> HIDE DEF r
      <4> QED BY <2>4
    <3> HIDE DEF r
    <3> QED BY <2>2, <3>1, <3>2
  <2>6. Recorded(Select(cursor, answer).cursor, log \o SubSeq(r, 1, k),
                 lost \cup ToldBy(SubSeq(r, k + 1, Len(r))), last)
    BY <1>0, <2>1, <2>5, PollFacts
  <2> HIDE DEF r
  <2>7. Recorded(cursor', log', lost', last')
    BY <2>2, <2>3, <2>6
  <2> QED BY <1>0, <2>3, <2>7 DEF IInv
<1>6. CASE TaskFails
  BY <1>0, <1>6 DEF TaskFails, IInv
<1>7. CASE Cancel
  BY <1>0, <1>7 DEF Cancel, IInv
<1>8. CASE UNCHANGED vars
  BY <1>0, <1>8 DEF vars, IInv
<1> QED BY <1>1, <1>2, <1>4, <1>5, <1>6, <1>7, <1>8 DEF Next

LEMMA SpecIInv ==
  Spec => []IInv
<1> QED BY InitIInv, NextIInv, PTL DEF Spec

(* The recorder's state is well-typed: the cursor is behind no trade it      *)
(* holds as pending and never ahead of the exchange (RawTradeCursor).        *)
THEOREM RecorderAlwaysTyped ==
  Spec => []TypeOK
<1>1. IInv => TypeOK
  <2>1. SUFFICES ASSUME IInv PROVE TypeOK
    OBVIOUS
  <2>2. log \in Seq(LogRows) /\ CursorOK(cursor, last) /\ lost \subseteq 1..last
    BY <2>1 DEF IInv, Recorded
  <2>3. ToSet(log) \subseteq LogRows
    BY <2>2 DEF ToSet
  <2> QED BY <2>1, <2>2, <2>3 DEF TypeOK, IInv, CursorOK, LogRows
<1> QED BY <1>1, SpecIInv, PTL

(* No trade is stored twice, however answers overlap, go back in time or     *)
(* bring late trades (RawTradeCursor.select).                                *)
THEOREM TradesStoredOnce ==
  Spec => []StoredOnce
<1>1. IInv => StoredOnce
  BY DEF IInv, Recorded, Once, StoredOnce
<1> QED BY <1>1, SpecIInv, PTL

(* A trade once reported missing is neither stored nor reported missing      *)
(* later, and no gap starts at a stored trade (_unrecoverable_gap).          *)
THEOREM ReportedGapsAreFinal ==
  Spec => []GapsAreFinal
<1>1. IInv => GapsAreFinal
  BY DEF IInv, Recorded, Final, GapsAreFinal
<1> QED BY <1>1, SpecIInv, PTL

(* Between the first trade the log tells of and the cursor, there is none    *)
(* that the log or a failed write does not tell of: the recorder skips       *)
(* nothing silently (_record_batch, select).                                 *)
THEOREM NothingSkippedSilently ==
  Spec => []NoSilentGap
<1>1. IInv => NoSilentGap
  <2>1. SUFFICES ASSUME IInv PROVE NoSilentGap
    OBVIOUS
  <2> DEFINE told == Told \cup lost
  <2>2. Covered(told, cursor, last) /\ last \in Nat
    BY <2>1, RawTradesAssumption DEF IInv, Recorded, Told
  <2> HIDE DEF told
  <2>3. ASSUME told # {}
        PROVE  (Min(told)..(cursor.expected - 1)) \subseteq told /\ cursor.pending \subseteq told
    <3>1. PICK m \in told : Covers(told, cursor, m)
      BY <2>2, <2>3 DEF Covered
    <3>2. told \in SUBSET Nat
      BY <2>2 DEF Covered
    <3>3. Min(told) \in told /\ \A y \in told : Min(told) <= y
      BY <2>3, <3>2, MinFacts
    <3>4. Min(told) = m
      <4>1. m <= Min(told) /\ Min(told) <= m /\ m \in Nat /\ Min(told) \in Nat
        BY <3>1, <3>2, <3>3 DEF Covers
      <4> QED BY <4>1
    <3> QED BY <3>1, <3>4 DEF Covers
  <2> QED BY <2>3 DEF NoSilentGap, told
<1> QED BY <1>1, SpecIInv, PTL
==============================================================================
