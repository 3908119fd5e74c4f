---------------------------- MODULE ReplayGateway ----------------------------
(***************************************************************************)
(* One replay run: ReplayGateway (replay/simulator.py) driving the         *)
(* matching engine through a fixed stream of events, and the               *)
(* RecordingGateway (recording.py) the strategy calls it through.          *)
(*                                                                         *)
(* A gateway state is a record: engine, cursor, now, fills and marks are   *)
(* _engine, _cursor, _now_ns, _fills and _valuation_marks.  The recorder   *)
(* adds the log.  Every strategy call is one action: the latency advance,  *)
(* the engine call and the rows the recorder appends are one call stack.   *)
(* Replay.run summarises gw.fills and gw.marks with the Economics module   *)
(* when the strategy returns, which it may do after any call.              *)
(***************************************************************************)
EXTENDS ReplayOps, Economics

CONSTANTS Feeds,            \* the event sequences a run may be given, unsorted
          EntryLatencies,   \* the entry legs the latency model may sample
          MaxSize,          \* largest order size
          Tifs,             \* the times in force of its limit orders
          MaxTime,          \* bound on the replay time a call asks for or arrives at
          MaxCalls          \* bound on the strategy's calls

ASSUME LatencyAssumption == EntryLatencies \subseteq Nat
ASSUME TifsAssumption == Tifs \subseteq {"GTC", "IOC"}
ASSUME GatewayBounds == MaxSize \in Nat \ {0} /\ {MaxTime, MaxCalls} \subseteq Nat

ASSUME FeedsAssumption == Feeds \subseteq Seq(MBOEvents)

VARIABLES events,    \* the event tuple of the run, sorted by time
          gw,        \* the ReplayGateway
          log,       \* the RecordingGateway's sink
          calls,     \* number of calls made, for the bound
          handed,    \* history: fills returned to the strategy
          arrival,   \* history: own order id -> time it reached the venue
          met        \* history: which of Troubles this run has met

vars == <<events, gw, log, calls, handed, arrival, met>>

\* An entry leg above 0, an order the engine rejected, an order that matched
\* one of the strategy's own.
Troubles == {"latency", "rejection", "self_trade"}

----------------------------------------------------------------------------
(* ReplayGateway.                                                          *)

\* Mutant of BisectRight: bisect_left, which stops in front of events at ts.
BisectLeft(evs, ts, c) ==
    CHOOSE k \in c..Len(evs) : /\ \A i \in (c + 1)..k : evs[i].ts < ts
                               /\ \A i \in (k + 1)..Len(evs) : evs[i].ts >= ts

\* bisect_right on the times, from place c: everything up to it is at or before
\* ts, everything behind it after ts.
BisectRight(evs, ts, c) ==
    CHOOSE k \in c..Len(evs) : /\ \A i \in (c + 1)..k : evs[i].ts <= ts
                               /\ \A i \in (k + 1)..Len(evs) : evs[i].ts > ts

\* Mutant of Advance: the passive fills are returned and not kept.
AdvanceForgetting(g, evs, ts) ==
    LET stop == BisectRight(evs, ts, g.cursor)
        r == ReplayLoop([engine |-> g.engine, fills |-> <<>>, marks |-> g.marks],
                        evs, g.cursor)[stop - g.cursor]
    IN  [gw |-> [engine |-> AdvanceTime(r.engine, ts), cursor |-> stop, now |-> ts,
                 fills |-> g.fills, marks |-> r.marks],
         fills |-> r.fills]

\* What advance_to does and what it returns.
Advance(g, evs, ts) ==
    LET stop == BisectRight(evs, ts, g.cursor)
        r == ReplayLoop([engine |-> g.engine, fills |-> <<>>, marks |-> g.marks],
                        evs, g.cursor)[stop - g.cursor]
    IN  [gw |-> [engine |-> AdvanceTime(r.engine, ts), cursor |-> stop, now |-> ts,
                 fills |-> g.fills \o r.fills, marks |-> r.marks],
         fills |-> r.fills]

\* Mutants of Executed: the active fills are not kept; the book is not marked.
ExecutedForgetting(g, e, fills) ==
    [g EXCEPT !.engine = e, !.marks = Marked(@, e, g.now)]
ExecutedUnmarked(g, e, fills) == [g EXCEPT !.engine = e, !.fills = @ \o fills]

\* The engine call of place_limit, place_market and cancel, at the venue's time:
\* the engine becomes e, the fills it returned are kept and the book is marked.
Executed(g, e, fills) ==
    [g EXCEPT !.engine = e,
              !.fills = @ \o fills,
              !.marks = Marked(@, e, g.now)]

----------------------------------------------------------------------------
(* RecordingGateway.                                                       *)

FillRow(kind, f) == [kind |-> kind, ts |-> f.ts, fill |-> f]
CancelRow(ts, id, accepted) ==
    [kind |-> "cancel", ts |-> ts, id |-> id, accepted |-> accepted]

\* A limit order's row has the id only if the order rests, a market order's never.
NoId == -1
PlaceRow(kind, ts, r) ==
    [kind |-> kind, ts |-> ts, id |-> IF r.rests THEN r.id ELSE NoId]

\* Mutant of Rows: the newest fill is recorded first.
RowsNewestFirst(kind, fills) ==
    [i \in 1..Len(fills) |-> FillRow(kind, fills[Len(fills) + 1 - i])]

Rows(kind, fills) == [i \in 1..Len(fills) |-> FillRow(kind, fills[i])]

----------------------------------------------------------------------------
(* The strategy's calls.                                                   *)

Init ==
    /\ events \in {SortedByTime(d) : d \in Feeds}
    /\ gw = [engine |-> EmptyEngine, cursor |-> 0, now |-> 0,
             fills |-> <<>>, marks |-> <<>>]
    /\ log = <<>>
    /\ calls = 0
    /\ handed = <<>>
    /\ arrival = [id \in {} |-> 0]
    /\ met = {}

Call == calls < MaxCalls /\ calls' = calls + 1 /\ UNCHANGED events
CallReceived(entry) == Call /\ gw.now + entry <= MaxTime

\* advance_to; the code raises when ts < now, and nothing changes.
AdvanceTo(ts) ==
    LET a == Advance(gw, events, ts)
    IN  /\ Call
        /\ ts >= gw.now
        /\ gw' = a.gw
        /\ log' = log \o Rows("fill_passive", a.fills)
        /\ handed' = handed \o a.fills
        /\ UNCHANGED <<arrival, met>>

\* Mutant of AtReceipt: the order is executed when it is sent.
AtSending(entry) == Advance(gw, events, gw.now)

\* The gateway when an order sent now reaches the venue.
AtReceipt(entry) == Advance(gw, events, gw.now + entry)

Delayed(entry) == IF entry > 0 THEN {"latency"} ELSE {}

MatchesOwn(e, side, limit) ==
    LET opposite == OppositeBookSide(side)
    IN  \E x \in OwnOrders(e) :
           e.orders[x].level \in {opposite} \X Matchable(e, opposite, limit)

\* place_limit and place_market of a valid order; kind is the name of the call.
PlaceOrder(kind, side, n, limit, tif, entry) ==
    LET a == AtReceipt(entry)
        r == Place(a.gw.engine, side, n, limit, tif)
        row == PlaceRow(kind, a.gw.now, r)
    IN  /\ CallReceived(entry)
        /\ gw' = Executed(a.gw, r.e, r.fills)
        /\ log' = log \o Rows("fill_passive", a.fills) \o <<row>>
                      \o Rows("fill", r.fills)
        /\ handed' = handed \o r.fills
        /\ arrival' = Put(arrival, r.id, gw.now + entry)
        /\ met' = met \cup Delayed(entry)
                      \cup (IF MatchesOwn(a.gw.engine, side, limit) THEN {"self_trade"}
                                                                    ELSE {})

PlaceLimit(side, n, price, tif, entry) ==
    PlaceOrder("place_limit", side, n, price, tif, entry)

PlaceMarket(side, n, entry) ==
    PlaceOrder("place_market", side, n, NoLimit, "IOC", entry)

\* An order of size 0: the gateway advances to the receipt, then the engine's
\* _validate_order raises through both gateways.
PlaceInvalid(entry) ==
    /\ CallReceived(entry)
    /\ gw' = AtReceipt(entry).gw
    /\ met' = met \cup Delayed(entry) \cup {"rejection"}
    /\ UNCHANGED <<log, handed, arrival>>

Cancel(id, entry) ==
    LET a == AtReceipt(entry)
        accepted == Own(id) \in DOMAIN a.gw.engine.orders
    IN  /\ CallReceived(entry)
        /\ gw' = Executed(a.gw, CancelOwn(a.gw.engine, id), <<>>)
        /\ log' = log \o Rows("fill_passive", a.fills)
                      \o <<CancelRow(a.gw.now, id, accepted)>>
        /\ met' = met \cup Delayed(entry)
        /\ UNCHANGED <<handed, arrival>>

Next ==
    \/ \E ts \in 0..MaxTime : AdvanceTo(ts)
    \/ \E entry \in EntryLatencies :
          \/ \E side \in OrderSides, n \in 1..MaxSize :
                \/ \E price \in Prices, tif \in Tifs :
                      PlaceLimit(side, n, price, tif, entry)
                \/ PlaceMarket(side, n, entry)
          \/ PlaceInvalid(entry)
          \/ \E id \in DOMAIN arrival : Cancel(id, entry)

Spec == Init /\ [][Next]_vars

----------------------------------------------------------------------------
(* Types.                                                                  *)

TypeOK ==
    /\ EngineOK(gw.engine)
    /\ gw.cursor \in 0..Len(events) /\ gw.now \in Nat
    /\ gw.fills \in Seq(Fills) /\ handed \in Seq(Fills)
    /\ \A i \in DOMAIN log : log[i].ts \in Nat
    /\ calls \in 0..MaxCalls
    /\ DOMAIN arrival = FirstOwnId..(gw.engine.nextId - 1)
    /\ met \subseteq Troubles

----------------------------------------------------------------------------
(* Properties.                                                             *)

\* No lookahead and no event skipped: the book the strategy sees and trades on
\* has exactly the events at or before the replay time (before the first call
\* nothing is applied, not even an event at time 0).
NoLookahead ==
    /\ \A i \in 1..gw.cursor : events[i].ts <= gw.now
    /\ calls > 0 => \A i \in (gw.cursor + 1)..Len(events) : events[i].ts > gw.now

\* The audit log is in time order, although one call may append passive fills
\* from before the venue receipt, an order row and active fills.
LogInTimeOrder == \A i, j \in 1..Len(log) : i < j => log[i].ts <= log[j].ts

IsFillRow(row) == row.kind \in {"fill", "fill_passive"}
\* The fills of the rows, in their order.
FillsOf(rows) ==
    LET told[n \in 0..Len(rows)] ==
            IF n = 0 THEN <<>>
            ELSE IF IsFillRow(rows[n]) THEN Append(told[n - 1], rows[n].fill)
                                       ELSE told[n - 1]
    IN  told[Len(rows)]

\* The log tells the fills of the run, each once and in the order they happened
\* ("Every side-effecting gateway call appends a flat, typed event row",
\* recording.py).
LogTellsEveryFill == FillsOf(log) = gw.fills

\* It does as long as the engine rejects no order.
LogTellsEveryFillOfValidCalls == "rejection" \notin met => LogTellsEveryFill

\* No fill of an order is earlier than the order's arrival at the venue, after
\* its entry latency.
NoFillBeforeArrival ==
    \A i \in DOMAIN gw.fills : gw.fills[i].ts >= arrival[gw.fills[i].id]

\* position() (and with it ReplayResult.final_position) is the net of the fills
\* the run reports and the execution summary is built from ("All active and
\* passive fills observed by this gateway", ReplayGateway.fills).
PositionIsNetOfFills == gw.engine.position = Net(gw.fills)

\* It is as long as the strategy never matches an order of its own.
PositionIsNetWithoutSelfTrade == "self_trade" \notin met => PositionIsNetOfFills

\* The strategy is told of every fill, each once and in order, by advance_to
\* ("return passive fills since the last call") or by the call that sent the
\* order.
StrategySeesEveryFill == handed = gw.fills

\* It is as long as no order or cancel takes time to reach the venue.
StrategySeesEveryFillWithoutLatency == "latency" \notin met => StrategySeesEveryFill

\* Once a cancel is logged as accepted, no fill of that order follows in the log.
NoFillAfterCancel ==
    \A i \in 1..Len(log) :
        (log[i].kind = "cancel" /\ log[i].accepted)
            => \A j \in (i + 1)..Len(log) :
                  IsFillRow(log[j]) => log[j].fill.id # log[i].id

\* The last valuation mark is the midpoint the strategy sees, and marks are in
\* time order: the equity curve never values a position at an old book.
MarksFollowBook ==
    /\ \A i, j \in 1..Len(gw.marks) : i < j => gw.marks[i].ts <= gw.marks[j].ts
    /\ TwoSided(gw.engine) => /\ gw.marks # <<>>
                              /\ gw.marks[Len(gw.marks)].mid2 = DoubleMid(gw.engine)

\* The execution summary of the run.  Whatever the order of opens, closes and
\* flips, FIFO closing keeps the books: open lots are all on one side and are
\* the net of the fills, and what the fills paid and earned is the realized
\* profit less what the open lots cost (summarize_fills).
LedgerBalances ==
    LET s == SummarizeFills(gw.fills)
    IN  /\ s.finalPosition = Net(gw.fills)
        /\ \A i, j \in DOMAIN s.openLots : s.openLots[i].side = s.openLots[j].side
        /\ s.signedNotional =
              s.realizedPnl - SumOver(s.openLots, LAMBDA lot : LotPosition(lot) * lot.price)

\* What the fills at or before ts paid, earned and were charged, and the position
\* they make.
PlacesUpTo(ts) == {i \in DOMAIN gw.fills : gw.fills[i].ts <= ts}
CashAt(ts) ==
    Total([i \in PlacesUpTo(ts) |->
              LET f == gw.fills[i]
              IN  -Signed(f.side, f.size) * Money(f.price) - Commission * f.size])
PositionAt(ts) ==
    Total([i \in PlacesUpTo(ts) |-> Signed(gw.fills[i].side, gw.fills[i].size)])

\* The equity curve of the run, built by merging fills into marks with FIFO
\* lots, is the account's value at each mark: the cash of every fill up to the
\* mark's time and the position at the mark's price; drawdown is measured from
\* the highest equity so far.  When no fill follows the last mark, the last point
\* agrees with the summary, which takes the fills in the order of the list.
CurveIsMarkToMarket ==
    LET curve == BuildEquityCurve(gw.fills, gw.marks)
        s == SummarizeFills(gw.fills)
        last == curve[Len(gw.marks)]
    IN  /\ \A k \in 1..Len(gw.marks) :
              /\ curve[k].equity =
                    CashAt(curve[k].ts) + PositionAt(curve[k].ts) * curve[k].mark
              /\ curve[k].equity + curve[k].drawdown =
                    Max({0} \cup {curve[j].equity : j \in 1..k})
        /\ (gw.marks # <<>> /\ \A i \in DOMAIN gw.fills : gw.fills[i].ts <= last.ts)
              => last.realized - last.commission = s.netRealizedPnl

==============================================================================
