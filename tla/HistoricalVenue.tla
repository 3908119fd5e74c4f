--------------------------- MODULE HistoricalVenue ---------------------------
(***************************************************************************)
(* The exchange whose history is replayed: a limit order book in           *)
(* price-time priority that reports every change as a market-by-order      *)
(* event (docs/schema.md, MBOEvent).  It is not part of ordersim.  It has  *)
(* two uses here: it generates the well-formed feeds the engine is run on, *)
(* and it is the abstract specification the engine implements when no      *)
(* strategy trades.                                                        *)
(*                                                                         *)
(* The trade of a level is written over prefix sums, and not as the loop   *)
(* the engine uses.                                                        *)
(***************************************************************************)
EXTENDS Integers, Sequences, FiniteSets, FiniteSetsExt, Sums

CONSTANTS Prices, PublicIds, MaxSize

VARIABLES lob,    \* per level, the resting orders in priority order
          used    \* ids the venue has given out; it never gives one out twice

vars == <<lob, used>>

BookSides == {"bid", "ask"}
Levels == BookSides \X Prices

Orders == [id : PublicIds, size : 1..MaxSize]

TypeOK == /\ lob \in [Levels -> Seq(Orders)]
          /\ used \subseteq PublicIds

Init == /\ lob = [L \in Levels |-> <<>>]
        /\ used = {}

Live == {id \in PublicIds :
            \E L \in Levels : \E i \in 1..Len(lob[L]) : lob[L][i].id = id}

LevelOf(id) == CHOOSE L \in Levels : \E i \in 1..Len(lob[L]) : lob[L][i].id = id
PlaceOf(id) == CHOOSE i \in 1..Len(lob[LevelOf(id)]) : lob[LevelOf(id)][i].id = id
SizeOf(id) == lob[LevelOf(id)][PlaceOf(id)].size

\* An order resting at level L would trade at once with the other side.
Crosses(L) ==
    \E p \in Prices :
        IF L[1] = "bid" THEN lob[<<"ask", p>>] # <<>> /\ p <= L[2]
                        ELSE lob[<<"bid", p>>] # <<>> /\ p >= L[2]

Removed(q, i) == SubSeq(q, 1, i - 1) \o SubSeq(q, i + 1, Len(q))

\* The quantity resting at or in front of place i of q.
Prefix(q, i) == Total([j \in 1..i |-> q[j].size])

\* What is left of q when n is traded from its front.
AfterTrade(q, n) ==
    LET gone == Cardinality({i \in 1..Len(q) : Prefix(q, i) <= n})
    IN  [i \in 1..(Len(q) - gone) |->
            IF i = 1 THEN [q[gone + 1] EXCEPT !.size = Prefix(q, gone + 1) - n]
                     ELSE q[gone + i]]

Add(id, L, n) ==
    /\ id \notin used
    /\ ~Crosses(L)
    /\ lob' = [lob EXCEPT ![L] = Append(@, [id |-> id, size |-> n])]
    /\ used' = used \cup {id}

\* The owner takes n off its order, or all of it.
Cancel(id, L, n) ==
    /\ id \in Live
    /\ L = LevelOf(id)
    /\ n <= SizeOf(id)
    /\ lob' = [lob EXCEPT ![L] = IF n = SizeOf(id) THEN Removed(@, PlaceOf(id))
                                 ELSE [@ EXCEPT ![PlaceOf(id)].size = SizeOf(id) - n]]
    /\ UNCHANGED used

\* A modify at the same level keeps the order's place, any other loses it.
Modify(id, L, n) ==
    /\ id \in Live
    /\ IF L = LevelOf(id)
       THEN lob' = [lob EXCEPT ![L][PlaceOf(id)].size = n]
       ELSE /\ ~Crosses(L)
            /\ lob' = [lob EXCEPT ![LevelOf(id)] = Removed(@, PlaceOf(id)),
                                  ![L] = Append(@, [id |-> id, size |-> n])]
    /\ UNCHANGED used

\* An incoming order trades n with the front of level L; the event names the
\* first order it hit.
Trade(id, L, n) ==
    /\ lob[L] # <<>>
    /\ id = Head(lob[L]).id
    /\ n <= Prefix(lob[L], Len(lob[L]))
    /\ lob' = [lob EXCEPT ![L] = AfterTrade(@, n)]
    /\ UNCHANGED used

\* The step the venue reports as event ev.
Report(ev) ==
    \/ ev.action = "add"    /\ Add(ev.id, ev.level, ev.size)
    \/ ev.action = "cancel" /\ Cancel(ev.id, ev.level, ev.size)
    \/ ev.action = "modify" /\ Modify(ev.id, ev.level, ev.size)
    \/ ev.action = "trade"  /\ Trade(ev.id, ev.level, ev.size)

Next ==
    \E id \in PublicIds, L \in Levels, n \in 1..MaxSize :
        \/ Add(id, L, n)
        \/ Cancel(id, L, n)
        \/ Modify(id, L, n)
        \/ Trade(id, L, n)

Spec == Init /\ [][Next]_vars
==============================================================================
