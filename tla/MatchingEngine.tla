--------------------------- MODULE MatchingEngine ----------------------------
(***************************************************************************)
(* The matching engine between the two callers it has: the replay, which   *)
(* feeds it the events of a historical venue, and the strategy, which      *)
(* places and cancels orders on the same queues.  Every public method of   *)
(* MatchingEngine that changes state is an action.                         *)
(*                                                                         *)
(* The constants choose the feed and the strategy: a feed may be           *)
(* well-formed (what a venue reports) or any sequence of valid events, and *)
(* a strategy may only rest orders, or also take, or also trade with       *)
(* itself.                                                                 *)
(***************************************************************************)
EXTENDS EngineOps

CONSTANTS MaxSize,         \* largest size of one event or order
          MaxNow,          \* bound on engine time: each event and tick is one
          MaxPlacements,   \* bound on the strategy's orders
          FeedActions,     \* the kinds of event in the feed
          WellFormedFeed,  \* TRUE: the feed is the report of a venue
          Aggressive,      \* TRUE: the strategy may place orders that match
          SelfCross        \* TRUE: it may also match its own resting orders

ASSUME SizeAssumption == MaxSize \in Nat \ {0}
ASSUME BoundAssumption == MaxNow \in Nat /\ MaxPlacements \in Nat
ASSUME FeedAssumption == FeedActions \subseteq {"add", "cancel", "modify", "trade"}
ASSUME StrategyAssumption == {WellFormedFeed, Aggressive, SelfCross} \subseteq BOOLEAN

VARIABLES engine,      \* the engine
          lob, used,   \* the venue that generates a well-formed feed
          active,      \* history: fills returned by place_limit and place_market
          delivered,   \* history: fills returned by apply_event
          popped,      \* history: fills returned by pop_passive_fills
          placed       \* history: own order id -> size it was placed with

vars == <<engine, lob, used, active, delivered, popped, placed>>
feedVars == <<lob, used>>

Venue == INSTANCE HistoricalVenue

Sizes == 1..MaxSize
Tifs == {"GTC", "IOC"}
Events == [action : FeedActions, level : Levels, size : Sizes, id : PublicIds]

Stamp(ev, ts) == [action |-> ev.action, level |-> ev.level, size |-> ev.size,
                  id |-> ev.id, ts |-> ts]

Init ==
    /\ engine = EmptyEngine
    /\ Venue!Init
    /\ active = <<>>
    /\ delivered = <<>>
    /\ popped = <<>>
    /\ placed = [id \in {} |-> 0]

----------------------------------------------------------------------------

\* apply_event on the next event of the feed, one tick after the last one.
PublicEvent(ev) ==
    LET f == ApplyEvent(engine, Stamp(ev, engine.now + 1))
    IN  /\ engine.now < MaxNow
        /\ IF WellFormedFeed THEN Venue!Report(ev) ELSE UNCHANGED feedVars
        /\ engine' = f
        /\ delivered' = delivered \o NewFills(engine, f)
        /\ UNCHANGED <<active, popped, placed>>

\* The orders the strategy is willing to send: the matching prices it would
\* meet, and its own orders among them.
Willing(side, limit) ==
    LET opposite == OppositeBookSide(side)
        hit == Matchable(engine, opposite, limit)
    IN  /\ hit # {} => Aggressive
        /\ (\E x \in OwnOrders(engine) : engine.orders[x].level \in {opposite} \X hit)
              => SelfCross

PlaceOrder(side, n, limit, tif) ==
    LET r == Place(engine, side, n, limit, tif)
    IN  /\ engine.nextId < FirstOwnId + MaxPlacements
        /\ Willing(side, limit)
        /\ engine' = r.e
        /\ active' = active \o r.fills
        /\ placed' = Put(placed, r.id, n)
        /\ UNCHANGED <<lob, used, delivered, popped>>

PlaceLimit(side, n, price, tif) == PlaceOrder(side, n, price, tif)

PlaceMarket(side, n) == PlaceOrder(side, n, NoLimit, "IOC")

Cancel(id) ==
    /\ engine' = CancelOwn(engine, id)
    /\ UNCHANGED <<lob, used, active, delivered, popped, placed>>

\* advance_time; the code raises when ts < now, so no such step.
Tick(ts) ==
    /\ ts >= engine.now
    /\ engine' = AdvanceTime(engine, ts)
    /\ UNCHANGED <<lob, used, active, delivered, popped, placed>>

Pop ==
    /\ engine' = PopPassiveFills(engine)
    /\ popped' = popped \o engine.fills
    /\ UNCHANGED <<lob, used, active, delivered, placed>>

StrategyNext ==
    \/ \E side \in OrderSides, n \in Sizes :
          \/ \E price \in Prices, tif \in Tifs : PlaceLimit(side, n, price, tif)
          \/ PlaceMarket(side, n)
    \/ \E id \in DOMAIN placed : Cancel(id)

Next ==
    \/ \E ev \in Events : PublicEvent(ev)
    \/ StrategyNext
    \/ \E ts \in 0..MaxNow : Tick(ts)
    \/ Pop

Spec == Init /\ [][Next]_vars

----------------------------------------------------------------------------
(* Types.                                                                  *)

TypeOK ==
    /\ EngineOK(engine)
    /\ Venue!TypeOK
    /\ {active, delivered, popped} \subseteq Seq(Fills)
    /\ DOMAIN placed = FirstOwnId..(engine.nextId - 1)

----------------------------------------------------------------------------
(* Safety.                                                                 *)

\* Every resting strategy order stands exactly once in the queue of its level,
\* and every strategy entry of a queue is a live order of that level: so
\* own_orders() never raises KeyError in _queue_ahead and no fill goes to a
\* cancelled order, whatever the feed does.
OwnOrdersQueuedOnce == OwnQueued(engine)

QueueTotal(L) ==
    LET q == engine.queues[L]
    IN  Total([i \in DOMAIN q |-> SizeOf(engine, q[i])])

\* The strategy has only rested orders so far: it has taken no quantity that the
\* venue's own history gives to somebody else.
NothingTaken == active = <<>>

\* The aggregated book (bids, asks) and the queues are two copies of the same
\* quantities that every mutation updates separately; they agree as long as the
\* strategy takes nothing.
LevelSizesMatchQueues ==
    NothingTaken => \A L \in Levels : engine.book[L] = QueueTotal(L)

\* As long as the strategy takes nothing, every order the venue still has is in
\* the engine, at its level and at least as large: no later cancel or modify of
\* the feed hits the unknown-order branches.
FeedOrdersKnown ==
    NothingTaken =>
        \A L \in Levels : \A i \in DOMAIN lob[L] :
            LET x == Public(lob[L][i].id)
            IN  /\ x \in DOMAIN engine.orders
                /\ engine.orders[x].level = L
                /\ engine.orders[x].size >= lob[L][i].size

\* What own_orders() reports is visible: the quantity ahead of an own order and
\* the order itself fit in the visible size of its level ("queue_ahead_size:
\* visible size ahead of the order at its price", docs/schema.md).
QueueAheadWithinLevel ==
    \A x \in OwnOrders(engine) :
        QueueAhead(engine, x) + engine.orders[x].size
            <= engine.book[engine.orders[x].level]

\* No order is filled beyond the size it was placed with, actively and passively
\* together, and a resting order still has exactly the rest of it.
FillsWithinPlacedSize ==
    \A id \in DOMAIN placed :
        LET filled == FilledOf(id, active) + FilledOf(id, popped)
                        + FilledOf(id, engine.fills)
        IN  /\ filled <= placed[id]
            /\ Own(id) \in DOMAIN engine.orders
                  => filled + engine.orders[Own(id)].size = placed[id]

\* The callers see every fill: what place_limit, place_market and apply_event
\* returned adds up to position().
PositionIsNetOfReturnedFills == engine.position = Net(active) + Net(delivered)

----------------------------------------------------------------------------
(* Action properties.                                                      *)

AheadOf(e, x) == {e.queues[e.orders[x].level][i] : i \in PlacesAhead(e, x)}

\* Nobody jumps the queue: while an own order rests, the set of entries in front
\* of it only shrinks.
NoQueueJumping ==
    [][\A x \in OwnOrders(engine) \cap OwnOrders(engine') :
          AheadOf(engine', x) \subseteq AheadOf(engine, x)]_vars

\* First in, first out: an own order is filled passively only in a step that
\* leaves no order in front of it.
PassiveFillsAreFifo ==
    [][\A i \in (Len(engine.fills) + 1)..Len(engine'.fills) :
          LET x == Own(engine'.fills[i].id)
          IN  \A y \in AheadOf(engine, x) : y \notin DOMAIN engine'.orders]_vars

\* Is price p at least as good for an order on this side as price r?
AtLeastAsGood(side, p, r) == IF side = "buy" THEN p <= r ELSE p >= r

\* No trade-through: when a call returns fills, no strictly better price on the
\* side it hit is left in the book.
NoTradeThrough ==
    [][\A i \in (Len(active) + 1)..Len(active') :
          LET f == active'[i]
          IN  \A p \in Prices \ {f.price} :
                 AtLeastAsGood(f.side, p, f.price)
                    => engine'.book[<<OppositeBookSide(f.side), p>>] = 0]_vars

\* A remainder rests only when nothing it could have matched is left.
RestsUncrossed ==
    [][\A x \in OwnOrders(engine') \ OwnOrders(engine) :
          LET L == engine'.orders[x].level
              side == OrderSideOf(L[1])
          IN  \A p \in Prices :
                 AtLeastAsGood(side, p, L[2])
                    => engine'.book[<<OppositeBookSide(side), p>>] = 0]_vars

----------------------------------------------------------------------------
(* Without a strategy the engine is the venue.                             *)

\* The book the queues and the orders describe.
EngineLob ==
    [L \in Levels |->
        [i \in 1..Len(engine.queues[L]) |->
            [id |-> engine.queues[L][i][2],
             size |-> SizeOf(engine, engine.queues[L][i])]]]

==============================================================================
