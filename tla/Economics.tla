------------------------------ MODULE Economics ------------------------------
(***************************************************************************)
(* What a run's fills are worth: the FIFO ledger, the execution summary    *)
(* and the mark-to-market equity curve (economics.py, valuation.py).       *)
(*                                                                         *)
(* Money is counted in half ticks of one contract, in which midpoints are  *)
(* integers as in CompiledValuationMarks; point_value only scales it.      *)
(* Prices of fills are ticks, so a fill's price in money is Money(price).  *)
(***************************************************************************)
EXTENDS Integers, Sequences, FiniteSets, FiniteSetsExt, Sums

CONSTANT Commission     \* commission_per_contract, in half ticks

ASSUME CommissionAssumption == Commission \in Nat

Money(price) == 2 * price

\* sorted(..., key=ts_ns): stable, so equal times keep the input order.
Precedes(d, i, j) == d[i].ts < d[j].ts \/ (d[i].ts = d[j].ts /\ i <= j)
SortedByTime(d) ==
    LET rank == [i \in DOMAIN d |-> Cardinality({j \in DOMAIN d : Precedes(d, j, i)})]
    IN  [k \in DOMAIN d |-> d[CHOOSE i \in DOMAIN d : rank[i] = k]]

----------------------------------------------------------------------------
(* The FIFO ledger: the open lots, oldest first, and what closing them      *)
(* earned.                                                                 *)

EmptyLedger == [lots |-> <<>>, realized |-> 0, commission |-> 0]

ClosedLotPnl(side, open, close, n) ==
    IF side = "buy" THEN (close - open) * n ELSE (open - close) * n

\* Mutant of CloseOldest: a lot closed in part keeps its size.
CloseOldestWhole(l, remaining, fill) ==
    LET lot == Head(l.lots)
        closed == Min({remaining, lot.size})
    IN  [l EXCEPT
            !.lots = IF closed = lot.size THEN Tail(@) ELSE @,
            !.realized = @ + ClosedLotPnl(lot.side, lot.price, Money(fill.price), closed)]

\* One turn of the while loop of _apply_fill_to_lots.
CloseOldest(l, remaining, fill) ==
    LET lot == Head(l.lots)
        closed == Min({remaining, lot.size})
    IN  [l EXCEPT
            !.lots = IF closed = lot.size THEN Tail(@) ELSE [@ EXCEPT ![1].size = lot.size - closed],
            !.realized = @ + ClosedLotPnl(lot.side, lot.price, Money(fill.price), closed)]

\* One look at the loop's condition; nothing changes once it is false.
CloseStep(t, fill) ==
    IF t.remaining = 0 \/ t.l.lots = <<>> \/ Head(t.l.lots).side = fill.side
    THEN t
    ELSE [l |-> CloseOldest(t.l, t.remaining, fill),
          remaining |-> t.remaining - Min({t.remaining, Head(t.l.lots).size})]

\* The fill closes the oldest lots of the other side and opens a lot with what
\* is left; its commission is charged whole.  No loop takes more turns than
\* there are lots.
ApplyFill(l, fill) ==
    LET turn[k \in Nat] == IF k = 0 THEN [l |-> l, remaining |-> fill.size]
                           ELSE CloseStep(turn[k - 1], fill)
        end == turn[Len(l.lots)]
    IN  [end.l EXCEPT
            !.lots = IF end.remaining = 0 THEN @
                     ELSE Append(@, [side |-> fill.side, price |-> Money(fill.price),
                                     size |-> end.remaining]),
            !.commission = @ + Commission * fill.size]

\* The ledger l after the fills at places from + 1 to upTo.
ApplyFills(l, fills, from, upTo) ==
    LET after[n \in 0..(upTo - from)] ==
            IF n = 0 THEN l ELSE ApplyFill(after[n - 1], fills[from + n])
    IN  after[upTo - from]

SumOver(seq, Value(_)) == Total([i \in DOMAIN seq |-> Value(seq[i])])
LotPosition(lot) == IF lot.side = "buy" THEN lot.size ELSE -lot.size
Unrealized(lots, mark) ==
    SumOver(lots, LAMBDA lot : ClosedLotPnl(lot.side, lot.price, mark, lot.size))

\* summarize_fills, which takes the fills in the order of the list.
SummarizeFills(fills) ==
    LET l == ApplyFills(EmptyLedger, fills, 0, Len(fills))
        Notional(f) == Money(f.price) * f.size
    IN  [contractVolume |-> SumOver(fills, LAMBDA f : f.size),
         grossNotional |-> SumOver(fills, Notional),
         signedNotional |-> SumOver(fills, LAMBDA f : IF f.side = "sell" THEN Notional(f)
                                                                         ELSE -Notional(f)),
         commission |-> l.commission,
         realizedPnl |-> l.realized,
         netRealizedPnl |-> l.realized - l.commission,
         finalPosition |-> SumOver(l.lots, LotPosition),
         openLots |-> l.lots]

----------------------------------------------------------------------------
(* The equity curve.                                                       *)

\* Mutant of FillsDue: a fill at the time of a mark is left to the next mark.
FillsDueBefore(fills, ts) == Cardinality({i \in DOMAIN fills : fills[i].ts < ts})

\* Where the inner while loop stops: fills are in time order.
FillsDue(fills, ts) == Cardinality({i \in DOMAIN fills : fills[i].ts <= ts})

\* One turn of the loop over the marks; r has the ledger, the number of fills in
\* it, the high-water mark and the points so far.
MarkStep(r, fills, mark) ==
    LET due == FillsDue(fills, mark.ts)
        l == ApplyFills(r.ledger, fills, r.applied, due)
        unrealized == Unrealized(l.lots, mark.mid2)
        equity == l.realized + unrealized - l.commission
        high == Max({r.high, equity})
    IN  [ledger |-> l, applied |-> due, high |-> high,
         points |-> Append(r.points,
                       [ts |-> mark.ts, mark |-> mark.mid2, realized |-> l.realized,
                        unrealized |-> unrealized, commission |-> l.commission,
                        equity |-> equity, drawdown |-> high - equity])]

\* build_equity_curve; compiled marks are merged by the same loop.
BuildEquityCurve(fills, marks) ==
    LET sortedFills == SortedByTime(fills)
        sortedMarks == SortedByTime(marks)
        turn[k \in 0..Len(marks)] ==
            IF k = 0 THEN [ledger |-> EmptyLedger, applied |-> 0, high |-> 0, points |-> <<>>]
            ELSE MarkStep(turn[k - 1], sortedFills, sortedMarks[k])
    IN  turn[Len(marks)].points
==============================================================================
