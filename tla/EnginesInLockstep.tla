-------------------------- MODULE EnginesInLockstep --------------------------
(***************************************************************************)
(* The reference engine and the C++ engine given the same calls, the way   *)
(* testing/equivalence.py runs one replay through both and compares what   *)
(* it returns.  Each call of the ExecutionEngine protocol (sim/execution.py)*)
(* is made to both; pop_passive_fills is not in it and not in the C++.     *)
(***************************************************************************)
EXTENDS MatchingEngine, ReplayOps

CONSTANTS Width,     \* bits of a C++ size
          Slices     \* the sequences of events a replay advances through at once

ASSUME SlicesAssumption == Slices \subseteq Seq(Events)

VARIABLES native,    \* the C++ engine
          agree,     \* history: every call so far returned the same from both
          fits       \* history: no level ever passed the range of a C++ size

lockstepVars == <<vars, native, agree, fits>>

Native == INSTANCE NativeEngine WITH FirstOrderId <- FirstOwnId

\* CompiledEventColumns refuses an event whose size is no C++ size.
ASSUME WidthAssumption == Width \in Nat \ {0} /\ Native!Half \in Nat \ {0}
ASSUME RowsAssumption == MaxSize <= Native!MaxInt

\* _book_side_char and _order_side_char.
Char(side) == IF side \in {"bid", "buy"} THEN "B" ELSE "A"

\* CompiledEventColumns.from_events: the row of an event.
Code == [add |-> "A", cancel |-> "C", modify |-> "M", trade |-> "T"]
Row(ev) == [ts |-> ev.ts, action |-> Code[ev.action], side |-> Char(ev.level[1]),
            price |-> ev.level[2], size |-> ev.size, id |-> ev.id]
Rows(evs) == [i \in DOMAIN evs |-> Row(evs[i])]

\* _fill_from_row.
FillFromRow(row) ==
    [id |-> row.order, side |-> IF row.side = "B" THEN "buy" ELSE "sell",
     price |-> row.price, size |-> row.size, ts |-> row.ts]
FromRows(rows) == [i \in DOMAIN rows |-> FillFromRow(rows[i])]

\* No level of the reference book leaves the range of a C++ size.
Fits(e) == \A L \in Levels : e.book[L] <= Native!MaxInt

\* Both engines answered, the C++ engine is now f, and the reference engine has
\* gone through the states in between.
AnsweredAfter(f, same, between) ==
    /\ native' = f
    /\ agree' = (agree /\ same)
    /\ fits' = (fits /\ Fits(engine') /\ \A e \in between : Fits(e))

Answered(f, same) == AnsweredAfter(f, same, {})

BothInit == Init /\ native = Native!New /\ agree = TRUE /\ fits = TRUE

BothApplyEvent(ev) ==
    /\ PublicEvent(ev)
    /\ \E f \in {Native!ApplyEventCode(native, Row(Stamp(ev, engine.now + 1)))} :
          Answered(f, FromRows(Native!FillsSince(native, f)) = NewFills(engine, engine'))

\* A slice is on the next ticks of the feed.
Stamped(evs) == [i \in DOMAIN evs |-> Stamp(evs[i], engine.now + i)]
Advanced(evs, f, fills) ==
    /\ ~WellFormedFeed
    /\ engine.now + Len(evs) <= MaxNow
    /\ engine' = f
    /\ delivered' = delivered \o fills
    /\ UNCHANGED <<lob, used, active, popped, placed>>

\* The replay's loop over a slice.
Replayed(evs) == ReplayLoop([engine |-> engine, fills |-> <<>>, marks |-> <<>>], evs, 0)

\* _advance_events of ReplayGateway, which takes the batch of the C++ engine and
\* the loop of the reference engine.
BothAdvance(slice) ==
    LET evs == Stamped(slice)
        r == Replayed(evs)[Len(evs)]
        b == Native!ApplyEventsBatchWithMarks(native, Rows(evs))
    IN  /\ Advanced(evs, r.engine, r.fills)
        /\ AnsweredAfter(b.e, FromRows(b.fills) = r.fills /\ b.marks = r.marks,
                         {Replayed(evs)[i].engine : i \in 1..Len(evs)})

\* advance_until_fill_boundary.
BothAdvanceUntilFill(slice) ==
    LET evs == Stamped(slice)
        r == UntilFill(engine, evs)
        b == Native!ApplyEventsUntilFill(native, Rows(evs))
    IN  /\ Advanced(evs, r.engine, r.fills)
        /\ AnsweredAfter(b.e, FromRows(b.fills) = r.fills /\ b.applied = r.consumed,
                         {Replayed(evs)[i].engine : i \in 1..r.consumed})

BothPlace(r, id, fills) ==
    Answered(r.e, /\ FromRows(r.fills) = fills
                  /\ r.order = IF Own(id) \in DOMAIN engine'.orders THEN id ELSE Native!NoOrder)

Returned == SubSeq(active', Len(active) + 1, Len(active'))

BothPlaceLimit(side, n, price, tif) ==
    /\ PlaceLimit(side, n, price, tif)
    /\ BothPlace(Native!PlaceLimit(native, Char(side), price, n, tif), engine.nextId, Returned)

BothPlaceMarket(side, n) ==
    /\ PlaceMarket(side, n)
    /\ BothPlace(Native!PlaceMarket(native, Char(side), n), engine.nextId, Returned)

BothCancel(id) ==
    /\ Cancel(id)
    /\ Answered(Native!Cancel(native, id),
                id \in DOMAIN native.ownOrders <=> Own(id) \in DOMAIN engine.orders)

BothTick(ts) == Tick(ts) /\ Answered(Native!AdvanceTime(native, ts), TRUE)

BothNext ==
    \/ \E ev \in Events : BothApplyEvent(ev)
    \/ \E slice \in Slices : BothAdvance(slice) \/ BothAdvanceUntilFill(slice)
    \/ \E side \in OrderSides, n \in Sizes :
          \/ \E price \in Prices, tif \in Tifs : BothPlaceLimit(side, n, price, tif)
          \/ BothPlaceMarket(side, n)
    \/ \E id \in DOMAIN placed : BothCancel(id)
    \/ \E ts \in 0..MaxNow : BothTick(ts)

BothSpec == BothInit /\ [][BothNext]_lockstepVars

----------------------------------------------------------------------------

ReferenceDepth(side) ==
    [p \in {q \in Prices : engine.book[<<side, q>>] > 0} |-> engine.book[<<side, p>>]]
ReferenceRows ==
    [id \in {x[2] : x \in OwnOrders(engine)} |->
        LET x == Own(id)
            order == engine.orders[x]
        IN  [side |-> Char(order.level[1]), price |-> order.level[2], size |-> order.size,
             ahead |-> QueueAhead(engine, x)]]

\* A row of the C++ engine reads like that of the reference engine; the size
\* ahead does where it is a C++ size.
SameRow(row, reference) ==
    /\ row.side = reference.side
    /\ row.price = reference.price
    /\ row.size = reference.size
    /\ reference.ahead <= Native!MaxInt => row.ahead = reference.ahead

SameRows(rows, references) ==
    /\ DOMAIN rows = DOMAIN references
    /\ \A id \in DOMAIN rows : SameRow(rows[id], references[id])

\* The C++ engine is the reference engine: after any calls, valid for a venue or
\* not, both have returned the same fills, ids and cancel results, and both
\* answer book_depth, own_orders and position alike ("preserve the same public
\* replay behavior", docs/execution-engines.md:57), as long as no level passes the
\* range of a C++ size.  Only a size ahead that itself passes it may read otherwise:
\* a queue may hold more than its level shows, after an unknown-order cancel.
EnginesAgree ==
    fits => /\ agree
            /\ native.bids = ReferenceDepth("bid")
            /\ native.asks = ReferenceDepth("ask")
            /\ native.position = engine.position
            /\ SameRows(Native!OwnOrderRows(native), ReferenceRows)

==============================================================================
