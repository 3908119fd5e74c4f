------------------------------ MODULE ReplayOps ------------------------------
(***************************************************************************)
(* The event loop of a replay on the reference engine, with its valuation  *)
(* marks (replay/simulator.py), and its fill boundary (replay/boundary.py),*)
(* as functions on engine states.                                          *)
(***************************************************************************)
EXTENDS EngineOps

\* _record_valuation_mark: the midpoint, doubled, of a two-sided book.
Quoted(e, side) == {p \in Prices : e.book[<<side, p>>] > 0}
TwoSided(e) == Quoted(e, "bid") # {} /\ Quoted(e, "ask") # {}
DoubleMid(e) == Max(Quoted(e, "bid")) + Min(Quoted(e, "ask"))
Marked(marks, e, ts) ==
    IF TwoSided(e) THEN Append(marks, [ts |-> ts, mid2 |-> DoubleMid(e)]) ELSE marks

\* One event of the loop of _advance_events; r.fills are the fills so far.
ReplayStep(r, ev) ==
    LET f == ApplyEvent(r.engine, ev)
    IN  [engine |-> f,
         fills |-> r.fills \o NewFills(r.engine, f),
         marks |-> Marked(r.marks, f, ev.ts)]

\* The loop state after the n events that follow place c of stream evs.
ReplayLoop(r, evs, c) ==
    LET turn[n \in 0..(Len(evs) - c)] ==
            IF n = 0 THEN r ELSE ReplayStep(turn[n - 1], evs[c + n])
    IN  turn

\* The fallback of advance_until_fill_boundary: one event after the other up to
\* the first that gives fills.
UntilFill(e, evs) ==
    LET after[n \in 0..Len(evs)] ==
            IF n = 0 THEN [engine |-> e, fills |-> <<>>, consumed |-> 0]
            ELSE LET r == after[n - 1]
                     f == ApplyEvent(r.engine, evs[n])
                 IN  IF r.fills # <<>> THEN r
                     ELSE [engine |-> f, fills |-> NewFills(r.engine, f), consumed |-> n]
    IN  after[Len(evs)]
==============================================================================
