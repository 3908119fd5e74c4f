---------------------------- MODULE Reconstruction ----------------------------
(***************************************************************************)
(* The Binance reconstruction (connectors/binance/reconstruction.py): a    *)
(* snapshot, absolute depth updates and individual trades become virtual   *)
(* market-by-order events, under two policies.                             *)
(*                                                                         *)
(* Three reconstructors read the same data: one per policy, and one with   *)
(* emit_events=False (which computes the flow and keeps no queues).  The   *)
(* events of the first two are replayed, in time, through a matching       *)
(* engine each, in which the strategy rests the same orders.               *)
(*                                                                         *)
(* A reconstructor r is a record: queues, units, best, nextId, symbol,     *)
(* time are _queues, _level_units (0: no such key), _best_bid/_best_ask    *)
(* (0: None), _next_order_id, _symbol is set, and                          *)
(* _previous_transaction_time_ns (-1: None).  events, added and cancelled  *)
(* are what the current call has produced, raised says that one of its     *)
(* internal assertions has failed.  Quantities are in quantity steps.      *)
(***************************************************************************)
EXTENDS ReplayOps, SequencesExt

CONSTANTS Snapshots,    \* what the snapshot may say: level -> quantity
          Depths,       \* what an update may say: level -> quantity
          TradeLevels,  \* where trades happen
          MaxTrade,     \* largest trade
          MaxTrades,    \* bound on the trades of one update
          MaxUpdates,   \* bound on the calls of apply_update
          MaxTime,      \* bound on exchange time
          MaxOwn        \* bound on the strategy's orders

ASSUME TradesAssumption == TradeLevels \subseteq Levels /\ MaxTrade \in Nat
ASSUME ObservationsAssumption ==
    \A f \in Snapshots \cup Depths : DOMAIN f \subseteq Levels /\ f \in [DOMAIN f -> Nat]
ASSUME ReconstructionBounds == {MaxTrades, MaxUpdates, MaxOwn} \subseteq Nat /\ MaxTime \in Nat \ {0}
ASSUME IdsAssumption == PublicIds = Nat

VARIABLES recon,    \* per model, the reconstructor
          feed,     \* per policy, the events not yet replayed
          engine,   \* per policy, the engine replaying them
          clock,    \* replay time of both engines
          updates,  \* number of updates so far, for the bound
          depth,    \* history: the quantity last observed at each level
          own       \* history: level of the strategy's i-th order

vars == <<recon, feed, engine, clock, updates, depth, own>>

Policies == {"conservative", "optimistic"}
Models == Policies \cup {"metrics"}

None == 0
Unset == -1

\* Mutant of NewReconstructor: the policies are mixed up.
NewSwapped(model) ==
    [ emits |-> model # "metrics", newestFirst |-> model = "optimistic",
      queues |-> [L \in Levels |-> <<>>], units |-> [L \in Levels |-> 0],
      best |-> [side \in BookSides |-> None], nextId |-> 1,
      symbol |-> FALSE, time |-> Unset,
      events |-> <<>>, added |-> 0, cancelled |-> 0, raised |-> FALSE ]

NewReconstructor(model) ==
    [ emits |-> model # "metrics", newestFirst |-> model # "optimistic",
      queues |-> [L \in Levels |-> <<>>], units |-> [L \in Levels |-> 0],
      best |-> [side \in BookSides |-> None], nextId |-> 1,
      symbol |-> FALSE, time |-> Unset,
      events |-> <<>>, added |-> 0, cancelled |-> 0, raised |-> FALSE ]

----------------------------------------------------------------------------
(* Virtual orders.                                                         *)

MBOEventAt(action, L, n, id, ts) ==
    [action |-> action, level |-> L, size |-> n, id |-> id, ts |-> ts]

BetterPrice(side, p, r) == IF side = "bid" THEN p > r ELSE p < r

\* max(0, n - m).
Shortfall(n, m) == IF m < n THEN n - m ELSE 0

\* _append_public and _record_add: new liquidity joins the back of the level.
AppendPublic(r, L, n, ts) ==
    [r EXCEPT
        !.queues[L] = IF r.emits THEN Append(@, [id |-> r.nextId, size |-> n]) ELSE @,
        !.nextId = IF r.emits THEN @ + 1 ELSE @,
        !.events = IF r.emits THEN Append(@, MBOEventAt("add", L, n, r.nextId, ts))
                              ELSE @,
        !.units[L] = @ + n,
        !.best[L[1]] = IF @ = None \/ BetterPrice(L[1], L[2], @) THEN L[2] ELSE @,
        !.added = @ + n]

\* The addition when it is not 0.
AppendIfAny(r, L, n, ts) == IF n = 0 THEN r ELSE AppendPublic(r, L, n, ts)

\* Mutant of DropEmptyLevel: the best price stays.
DropKeepingBest(r, L) ==
    IF r.units[L] # 0 THEN r ELSE [r EXCEPT !.queues[L] = <<>>]

\* _drop_empty_level: a level without units goes, the best price is looked up.
DropEmptyLevel(r, L) ==
    LET side == L[1]
        left == {p \in Prices : r.units[<<side, p>>] > 0}
    IN  IF r.units[L] # 0 THEN r
        ELSE [r EXCEPT
                !.queues[L] = <<>>,
                !.best[side] = IF @ # L[2] THEN @
                               ELSE IF left = {} THEN None
                               ELSE Best(side, left)]

\* Mutant of Drain: an order reduced to nothing stays.
DrainKeepingEmpty(q, n, newest) ==
    [q |-> IF q = <<>> THEN q
           ELSE [q EXCEPT ![IF newest THEN Len(q) ELSE 1].size = @ - Lesser(@, n)],
     left |-> 0, taken |-> <<>>]

\* One turn of the while loop of _consume_public and _cancel_public, at the back
\* (newest) or at the front of queue s.q; s.left is still to be taken, s.taken are
\* the parts of orders taken so far.  Once the loop has ended, nothing changes.
DrainTurn(s, newest) ==
    LET i == IF newest THEN Len(s.q) ELSE 1
        x == s.q[i]
        m == Lesser(x.size, s.left)
    IN  IF s.left = 0 \/ s.q = <<>> THEN s
        ELSE [q |-> IF m < x.size THEN [s.q EXCEPT ![i].size = @ - m]
                    ELSE IF newest THEN Front(s.q) ELSE Tail(s.q),
              left |-> s.left - m,
              taken |-> Append(s.taken, [id |-> x.id, size |-> m])]

\* Take n from queue q: every turn but the last empties an order.
Drain(q, n, newest) ==
    LET turn[k \in 0..Len(q)] ==
            IF k = 0 THEN [q |-> q, left |-> n, taken |-> <<>>]
            ELSE DrainTurn(turn[k - 1], newest)
    IN  turn[Len(q)]

\* What both do to the reconstructor; without queues the units are checked first.
Removed(r, L, n, newest) ==
    LET d == Drain(r.queues[L], n, newest)
        missing == IF r.emits THEN d.left ELSE IF r.units[L] < n THEN n ELSE 0
        taken == [r EXCEPT !.queues[L] = d.q,
                           !.units[L] = @ - (n - missing),
                           !.raised = @ \/ missing > 0]
    IN  IF missing > 0 THEN taken ELSE DropEmptyLevel(taken, L)

ConsumePublic(r, t) ==
    LET s == Removed(r, t.level, t.size, FALSE)
    IN  [s EXCEPT !.events =
            IF r.emits THEN Append(@, MBOEventAt("trade", t.level, t.size, t.id, t.ts))
                       ELSE @]

\* Mutant of CancelPublicAt: the events name the oldest orders.
CancelNamingOldest(r, L, n, ts) ==
    LET d == Drain(r.queues[L], n, FALSE)
        cancels == [i \in 1..Len(d.taken) |->
                      MBOEventAt("cancel", L, d.taken[i].size, d.taken[i].id, ts)]
        s == Removed(r, L, n, r.newestFirst)
    IN  [s EXCEPT !.events = IF r.emits THEN @ \o cancels ELSE @,
                  !.cancelled = @ + n]

\* _cancel_public: one cancel event per virtual order it takes from.
CancelPublicAt(r, L, n, ts) ==
    LET d == Drain(r.queues[L], n, r.newestFirst)
        cancels == [i \in 1..Len(d.taken) |->
                      MBOEventAt("cancel", L, d.taken[i].size, d.taken[i].id, ts)]
        s == Removed(r, L, n, r.newestFirst)
    IN  [s EXCEPT !.events = IF r.emits THEN @ \o cancels ELSE @,
                  !.cancelled = @ + n]

----------------------------------------------------------------------------
(* Depth endpoints and trades.                                             *)

\* Bids from the best price down, then asks from the best price up.
LevelBefore(K, L) ==
    \/ K[1] = "bid" /\ L[1] = "ask"
    \/ K[1] = L[1] /\ BetterPrice(K[1], K[2], L[2])

SortedLevels(S) ==
    [k \in 1..Cardinality(S) |->
        CHOOSE L \in S : Cardinality({K \in S : LevelBefore(K, L)}) = k - 1]

\* Bring level L to quantity goal.
ReachTarget(s, L, goal, ts) ==
    CASE s.units[L] < goal -> AppendPublic(s, L, goal - s.units[L], ts)
      [] s.units[L] > goal -> CancelPublicAt(s, L, s.units[L] - goal, ts)
      [] OTHER -> s

\* _apply_endpoint: bring every level named by targets to its quantity.
ApplyEndpoint(r, targets, ts) ==
    LET levels == SortedLevels(DOMAIN targets)
        after[k \in 0..Len(levels)] ==
            IF k = 0 THEN r
            ELSE ReachTarget(after[k - 1], levels[k], targets[levels[k]], ts)
    IN  after[Len(levels)]

\* Trades in the order of the code's sort key.
TradeBefore(t, u) == \/ t.ts < u.ts
                     \/ t.ts = u.ts /\ t.id < u.id

SortedTrades(trades) ==
    [k \in 1..Cardinality(trades) |->
        CHOOSE t \in trades : Cardinality({u \in trades : TradeBefore(u, t)}) = k - 1]

UnitsAt(trades, L) == Total([t \in {u \in trades : u.level = L} |-> t.size])

\* Mutant of Targets: a level the update does not name loses what was traded.
TargetsLosingTrades(r, observed, trades) ==
    [L \in DOMAIN observed \cup {t.level : t \in trades} |->
        IF L \in DOMAIN observed THEN observed[L]
        ELSE r.units[L] - Lesser(r.units[L], UnitsAt(trades, L))]

\* The endpoint of the interval: what the update says, and for a level that was
\* only traded the quantity it had before.
Targets(r, observed, trades) ==
    [L \in DOMAIN observed \cup {t.level : t \in trades} |->
        IF L \in DOMAIN observed THEN observed[L] ELSE r.units[L]]

\* Mutants of MinimumAdd: trades do not count; what is there does not count.
MinimumAddWithoutTrades(r, L, goal, traded) == Shortfall(goal, r.units[L])
MinimumAddFromNothing(r, L, goal, traded) == goal + traded

\* The least quantity that must have been added at L.
MinimumAdd(r, L, goal, traded) == Shortfall(goal + traded, r.units[L])

\* What is added in front of trade t, in state s of the loop from r: conservative adds
\* all a level needs before its first trade, optimistic what the trade is short of.
Addition(r, s, t, targets, trades) ==
    LET first == \A u \in trades : u.level = t.level => u = t \/ TradeBefore(t, u)
    IN  CASE ~s.newestFirst -> Shortfall(t.size, s.units[t.level])
          [] s.newestFirst /\ first ->
                MinimumAdd(r, t.level, targets[t.level], UnitsAt(trades, t.level))
          [] OTHER -> 0

\* The trade loop.
ApplyTrades(r, targets, trades) ==
    LET sorted == SortedTrades(trades)
        after[k \in 0..Len(sorted)] ==
            LET s == after[k - 1]
                t == sorted[k]
            IN  IF k = 0 THEN r
                ELSE ConsumePublic(AppendIfAny(s, t.level, Addition(r, s, t, targets, trades), t.ts), t)
    IN  after[Len(sorted)]

\* A call starts with no events and ends at the update's transaction time.
Begun(r) == [r EXCEPT !.events = <<>>, !.added = 0, !.cancelled = 0]
Ended(r, ts) == [r EXCEPT !.time = ts]

\* The events of the snapshot: levels of quantity 0 are skipped.
LoadSnapshot(r, levels, snapshot, ts) ==
    LET after[k \in 0..Len(levels)] ==
            IF k = 0 THEN [Begun(r) EXCEPT !.symbol = TRUE]
            ELSE AppendIfAny(after[k - 1], levels[k], snapshot[levels[k]], ts)
    IN  after[Len(levels)]

\* bootstrap.
Bootstrapped(r, snapshot, bridge, ts) ==
    LET loaded == LoadSnapshot(r, SortedLevels(DOMAIN snapshot), snapshot, ts)
    IN  Ended(ApplyEndpoint(loaded, bridge, ts), ts)

\* Mutant of Updated: the trades come after the endpoint.
UpdatedTradesLast(r, observed, trades, ts) ==
    LET targets == Targets(r, observed, trades)
    IN  Ended(ApplyTrades(ApplyEndpoint(Begun(r), targets, ts), targets, trades), ts)

\* apply_update.
Updated(r, observed, trades, ts) ==
    LET targets == Targets(r, observed, trades)
        traded == ApplyTrades(Begun(r), targets, trades)
    IN  Ended(ApplyEndpoint(traded, targets, ts), ts)

----------------------------------------------------------------------------

Init ==
    /\ recon = [m \in Models |-> NewReconstructor(m)]
    /\ feed = [p \in Policies |-> <<>>]
    /\ engine = [p \in Policies |-> EmptyEngine]
    /\ clock = 0
    /\ updates = 0
    /\ depth = [L \in Levels |-> 0]
    /\ own = <<>>

Emit == feed' = [p \in Policies |-> feed[p] \o recon'[p].events]

Observed(old, f) == [L \in Levels |-> IF L \in DOMAIN f THEN f[L] ELSE old[L]]

\* bootstrap: a snapshot and the update that spans it.
Bootstrap(snapshot, bridge, ts) ==
    /\ \A m \in Models : ~recon[m].symbol
    /\ recon' = [m \in Models |-> Bootstrapped(recon[m], snapshot, bridge, ts)]
    /\ Emit
    /\ depth' = Observed(Observed(depth, snapshot), bridge)
    /\ UNCHANGED <<engine, clock, updates, own>>

\* A quantity that is no multiple of the step raises in the middle: the levels
\* before it are in the book, the events are lost, the symbol is set and the
\* time is not, so that every later call raises.
BootstrapFails(snapshot, k, ts) ==
    LET levels == SubSeq(SortedLevels(DOMAIN snapshot), 1, k)
    IN  /\ \A m \in Models : ~recon[m].symbol
        /\ recon' = [m \in Models |-> LoadSnapshot(recon[m], levels, snapshot, ts)]
        /\ UNCHANGED <<feed, engine, clock, updates, depth, own>>

\* apply_update; it checks all of its input before it changes anything.
ApplyUpdate(observed, trades, ts) ==
    /\ updates < MaxUpdates
    /\ updates' = updates + 1
    /\ \A m \in Models : recon[m].time # Unset /\ ts >= recon[m].time
    /\ \A m \in Models, t \in trades : recon[m].time < t.ts /\ t.ts <= ts
    /\ recon' = [m \in Models |-> Updated(recon[m], observed, trades, ts)]
    /\ Emit
    /\ depth' = Observed(depth, observed)
    /\ UNCHANGED <<engine, clock, own>>

\* How many events are due: a replay's cursor stops at the first that is later.
Due(events, ts) == Max({k \in 0..Len(events) : \A i \in 1..k : events[i].ts <= ts})

\* A replay of each policy's events up to time ts.
Replay(ts) ==
    LET due(p) == Due(feed[p], ts)
        run(p) == ReplayLoop([engine |-> engine[p], fills |-> <<>>, marks |-> <<>>], feed[p], 0)
    IN  /\ ts > clock
        /\ clock' = ts
        /\ engine' = [p \in Policies |-> AdvanceTime(run(p)[due(p)].engine, ts)]
        /\ feed' = [p \in Policies |-> SubSeq(feed[p], due(p) + 1, Len(feed[p]))]
        /\ UNCHANGED <<recon, updates, depth, own>>

\* The strategy rests the same order in both replays, where it matches nothing.
RestOwn(L, n) ==
    LET side == OrderSideOf(L[1])
    IN  /\ Len(own) < MaxOwn
        /\ \A p \in Policies : Matchable(engine[p], OppositeBookSide(side), L[2]) = {}
        /\ engine' = [p \in Policies |-> Place(engine[p], side, n, L[2], "GTC").e]
        /\ own' = Append(own, L)
        /\ UNCHANGED <<recon, feed, clock, updates, depth>>

Trades(from, to) ==
    LET Slots == [ts : (from + 1)..to, level : TradeLevels, size : 1..MaxTrade]
    IN  {{[id |-> i, ts |-> s[i].ts, level |-> s[i].level, size |-> s[i].size] :
                i \in DOMAIN s} : s \in UNION {[1..k -> Slots] : k \in 0..MaxTrades}}

Next ==
    \/ \E snapshot \in Snapshots :
          \/ \E bridge \in Depths : Bootstrap(snapshot, bridge, 1)
          \/ \E k \in 0..Cardinality(DOMAIN snapshot) : BootstrapFails(snapshot, k, 1)
    \/ \E ts \in 1..MaxTime : \E observed \in Depths :
          \E trades \in Trades(recon["metrics"].time, ts) : ApplyUpdate(observed, trades, ts)
    \/ \E ts \in 1..MaxTime : Replay(ts)
    \/ \E L \in TradeLevels, n \in 1..MaxTrade : RestOwn(L, n)

Spec == Init /\ [][Next]_vars

----------------------------------------------------------------------------
(* Properties.                                                             *)

Started == \A m \in Models : recon[m].time # Unset

TypeOK ==
    /\ \A m \in Models :
          LET r == recon[m]
          IN  /\ r.units \in [Levels -> Nat]
              /\ r.queues \in [Levels -> Seq([id : 1..(r.nextId - 1), size : Nat \ {0}])]
              /\ r.best \in [BookSides -> Prices \cup {None}]
              /\ {r.symbol, r.raised} \subseteq BOOLEAN
              /\ r.time \in 0..MaxTime \cup {Unset}
    /\ \A p \in Policies : EngineOK(engine[p])
    /\ clock \in 0..MaxTime
    /\ depth \in [Levels -> Nat]

\* Both policies, and the metrics-only mode, bring every level to the quantity
\* last observed, also a level that was only traded ("The minimum-flow identity
\* preserves every observed L2 endpoint", docs/connectors.md).
ReachesEveryEndpoint == Started => \A m \in Models : recon[m].units = depth

\* No trade and no cancel ever needs more than the virtual queue has: the two
\* assertions of the reconstructor that say so can not fail.  Its third, that an
\* update ends at its endpoint, is ReachesEveryEndpoint.
NeverContradictsItself == \A m \in Models : ~recon[m].raised

\* Best prices are kept incrementally and are the best of the levels kept.
BestPricesCurrent ==
    \A m \in Models, side \in BookSides :
        LET left == {p \in Prices : recon[m].units[<<side, p>>] > 0}
        IN  recon[m].best[side] = IF left = {} THEN None ELSE Best(side, left)

\* Policies differ in where liquidity stands and never in how much of it was
\* inferred, and the metrics-only mode finds the same flow.
PoliciesInferSameFlow ==
    \A m, n \in Models : /\ recon[m].added = recon[n].added
                         /\ recon[m].cancelled = recon[n].cancelled

\* A replay of the emitted events, before the strategy trades, has exactly the
\* reconstructor's queues, order by order.
ReplayFollowsQueues ==
    \A p \in Policies :
        feed[p] = <<>> /\ own = <<>> /\ Started =>
            \A L \in Levels :
                /\ engine[p].book[L] = recon[p].units[L]
                /\ [i \in 1..Len(engine[p].queues[L]) |->
                        [id |-> engine[p].queues[L][i][2],
                         size |-> SizeOf(engine[p], engine[p].queues[L][i])]]
                     = recon[p].queues[L]

\* The emitted stream is in time order, so that a replay's sort keeps it.
EventsInTimeOrder ==
    \A p \in Policies : \A i, j \in 1..Len(feed[p]) :
        i < j => feed[p][i].ts <= feed[p][j].ts

\* The policies bound queue position: a strategy's order never has more left to
\* fill, or more in front of it, under the optimistic policy.
PoliciesBoundQueuePosition ==
    \A i \in 1..Len(own) :
        LET x == Own(FirstOwnId + i - 1)
            c == engine["conservative"]
            o == engine["optimistic"]
        IN  /\ SizeOf(o, x) <= SizeOf(c, x)
            /\ x \in DOMAIN o.orders => QueueAhead(o, x) <= QueueAhead(c, x)

==============================================================================
