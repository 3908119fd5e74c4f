------------------------------ MODULE EngineOps ------------------------------
(***************************************************************************)
(* The operations of the reference matching engine                         *)
(* (src/src/ordersim/sim/matching_engine.py) as functions on engine states.*)
(*                                                                         *)
(* An engine state is a record with the attributes of MatchingEngine:      *)
(*   book      visible size per level; 0 stands for "price not in dict",   *)
(*             because the code deletes a price whose size drops to 0      *)
(*   orders    public_orders and _own_orders in one function, keyed by the *)
(*             queue entry <<owner, id>> that names the order              *)
(*   queues    _queues, one FIFO of entries per level; an absent key of    *)
(*             the dict and an empty list are the same to every reader     *)
(*   fills     _passive_fills                                              *)
(*   nextId, now, position                                                 *)
(* A level is a pair <<book side, price>>.  Prices are integer ticks.      *)
(* Event and order sizes are positive: MBOEvent and _validate_order reject *)
(* anything else before the engine's state is touched.                     *)
(***************************************************************************)
EXTENDS Integers, Sequences, FiniteSets, FiniteSetsExt, Sums

CONSTANTS Prices,       \* the tick prices orders can carry
          PublicIds,    \* the order ids of the feed
          FirstOwnId    \* the first id of _allocate_order_id

ASSUME PricesAssumption == Prices \subseteq Nat \ {0} /\ IsFiniteSet(Prices)
ASSUME FirstOwnIdAssumption == FirstOwnId \in Nat

BookSides == {"bid", "ask"}
OrderSides == {"buy", "sell"}
Levels == BookSides \X Prices

\* limit_price = None of a market order.
NoLimit == 0

BookSideOf(side) == IF side = "buy" THEN "bid" ELSE "ask"
OppositeBookSide(side) == IF side = "buy" THEN "ask" ELSE "bid"
OrderSideOf(bookSide) == IF bookSide = "bid" THEN "buy" ELSE "sell"

Public(id) == <<"public", id>>
Own(id) == <<"own", id>>
IsOwn(x) == x[1] = "own"

\* What a queue can hold, what an order and a fill are.
Entries == ({"public"} \X PublicIds) \cup ({"own"} \X Nat)
Orders == [level : Levels, size : Nat \ {0}]
Fills == [id : Nat, side : OrderSides, price : Prices, size : Nat \ {0}, ts : Nat]

\* The events MBOEvent.__post_init__ accepts.
MBOEvents == [action : {"add", "cancel", "modify", "trade"}, id : PublicIds,
              level : Levels, size : Nat \ {0}, ts : Nat]

Lesser(m, n) == IF m < n THEN m ELSE n
Signed(side, n) == IF side = "buy" THEN n ELSE -n

Put(f, x, v) == [y \in DOMAIN f \cup {x} |-> IF y = x THEN v ELSE f[y]]
Drop(f, x) == [y \in DOMAIN f \ {x} |-> f[y]]

EmptyEngine ==
    [ book |-> [L \in Levels |-> 0],
      orders |-> [x \in {} |-> 0],
      queues |-> [L \in Levels |-> <<>>],
      fills |-> <<>>,
      nextId |-> FirstOwnId,
      now |-> 0,
      position |-> 0 ]

----------------------------------------------------------------------------
(* The visible book and the queues.                                        *)

AddToBook(book, L, n) == [book EXCEPT ![L] = @ + n]

\* Mutant of RemoveFromBook: no check that the price is in the book.
RemoveUnchecked(book, L, n) == [book EXCEPT ![L] = @ - n]

\* An absent price stays absent, a price at or below 0 is deleted.
RemoveFromBook(book, L, n) == [book EXCEPT ![L] = @ - Lesser(@, n)]

\* The list comprehension of _remove_from_queue: every entry equal to x goes.
Without(q, x) ==
    LET kept[n \in Nat] == IF n = 0 THEN <<>>
                           ELSE IF q[n] = x THEN kept[n - 1]
                           ELSE Append(kept[n - 1], q[n])
    IN  kept[Len(q)]

\* Mutant of Enqueue: a new order goes to the front.
EnqueueInFront(queues, L, x) == [queues EXCEPT ![L] = <<x>> \o @]

Enqueue(queues, L, x) == [queues EXCEPT ![L] = Append(@, x)]
Dequeue(queues, L, x) == [queues EXCEPT ![L] = Without(@, x)]
PopFront(queues, L) == [queues EXCEPT ![L] = Tail(@)]

\* An order that reaches size 0 is deleted.
SetSize(orders, x, n) ==
    IF n = 0 THEN Drop(orders, x)
    ELSE Put(orders, x, [level |-> orders[x].level, size |-> n])

\* _rest_public_order and _rest_own_order: join the back of the level's queue.
Rest(e, x, L, n) ==
    [e EXCEPT !.orders = Put(@, x, [level |-> L, size |-> n]),
              !.queues = Enqueue(@, L, x),
              !.book = AddToBook(@, L, n)]

----------------------------------------------------------------------------
(* Public market-data mutations.                                           *)

\* Mutant of Resize: a smaller size does not reach the visible book.
ResizeKeepingLevel(e, x, n) ==
    LET o == e.orders[x]
    IN  [e EXCEPT
            !.book = IF n >= o.size THEN AddToBook(@, o.level, n - o.size) ELSE @,
            !.orders = SetSize(@, x, n),
            !.queues = IF n = 0 THEN Dequeue(@, o.level, x) ELSE @]

\* Set the size of a live order where it stands; at 0 it leaves its queue.
Resize(e, x, n) ==
    LET o == e.orders[x]
    IN  [e EXCEPT
            !.book = IF n >= o.size THEN AddToBook(@, o.level, n - o.size)
                                    ELSE RemoveFromBook(@, o.level, o.size - n),
            !.orders = SetSize(@, x, n),
            !.queues = IF n = 0 THEN Dequeue(@, o.level, x) ELSE @]

\* Mutant of CancelPublic: a partial cancel takes the whole order.
CancelPublicWhole(e, ev) ==
    LET x == Public(ev.id)
    IN  IF x \notin DOMAIN e.orders
        THEN [e EXCEPT !.book = RemoveFromBook(@, ev.level, ev.size)]
        ELSE Resize(e, x, 0)

CancelPublic(e, ev) ==
    LET x == Public(ev.id)
    IN  IF x \notin DOMAIN e.orders
        THEN [e EXCEPT !.book = RemoveFromBook(@, ev.level, ev.size)]
        ELSE Resize(e, x, e.orders[x].size - Lesser(e.orders[x].size, ev.size))

\* Mutant of MovePublic: the entry in the old queue stays.
MovePublicKeepingEntry(e, x, L, n) ==
    LET o == e.orders[x]
    IN  Rest([e EXCEPT !.book = RemoveFromBook(@, o.level, o.size)], x, L, n)

\* _move_public_order: leave the old level, join the back of the new one.
MovePublic(e, x, L, n) ==
    LET o == e.orders[x]
        left == [e EXCEPT !.book = RemoveFromBook(@, o.level, o.size),
                          !.queues = Dequeue(@, o.level, x)]
    IN  Rest(left, x, L, n)

ModifyPublic(e, ev) ==
    LET x == Public(ev.id)
    IN  CASE x \notin DOMAIN e.orders       -> Rest(e, x, ev.level, ev.size)
          [] x \in DOMAIN e.orders /\ e.orders[x].level = ev.level
                                            -> Resize(e, x, ev.size)
          [] OTHER                          -> MovePublic(e, x, ev.level, ev.size)

----------------------------------------------------------------------------
(* Consuming a level, front entry first.                                   *)

\* Mutant of FillFront: a passive fill does not move the position.
FillFrontFlat(e, x, L, n, ts) ==
    LET left == e.orders[x].size - n
        fill == [id |-> x[2], side |-> OrderSideOf(L[1]), price |-> L[2],
                 size |-> n, ts |-> ts]
    IN  [e EXCEPT
            !.book = RemoveFromBook(@, L, n),
            !.orders = SetSize(@, x, left),
            !.queues = IF left = 0 THEN PopFront(@, L) ELSE @,
            !.fills = IF IsOwn(x) THEN Append(@, fill) ELSE @]

\* _consume_public_entry and _consume_own_entry: take n from the order of the
\* front entry x.  An own order gives a passive fill and moves the position.
FillFront(e, x, L, n, ts) ==
    LET left == e.orders[x].size - n
        fill == [id |-> x[2], side |-> OrderSideOf(L[1]), price |-> L[2],
                 size |-> n, ts |-> ts]
    IN  [e EXCEPT
            !.book = RemoveFromBook(@, L, n),
            !.orders = SetSize(@, x, left),
            !.queues = IF left = 0 THEN PopFront(@, L) ELSE @,
            !.fills = IF IsOwn(x) THEN Append(@, fill) ELSE @,
            !.position = IF IsOwn(x) THEN @ + Signed(fill.side, n) ELSE @]

\* Mutant of ConsumeStep: the strategy's own order is served first.
ConsumeStepOwnFirst(s, L, ts) ==
    LET q == s.e.queues[L]
        own == {i \in 1..Len(q) : IsOwn(q[i]) /\ q[i] \in DOMAIN s.e.orders}
        x == IF own = {} THEN Head(q) ELSE q[Min(own)]
    IN  CASE s.rem = 0 \/ q = <<>> -> s
          [] s.rem > 0 /\ q # <<>> /\ x \notin DOMAIN s.e.orders
                -> [e |-> [s.e EXCEPT !.queues = PopFront(@, L)], rem |-> s.rem]
          [] OTHER
                -> LET n == Lesser(s.e.orders[x].size, s.rem)
                   IN  [e |-> FillFront(s.e, x, L, n, ts), rem |-> s.rem - n]

\* One turn of the while loop; s.rem is the quantity still to consume.  A front
\* entry without an order is popped.  Once the loop has ended, nothing changes.
ConsumeStep(s, L, ts) ==
    IF s.rem = 0 \/ s.e.queues[L] = <<>>
    THEN s
    ELSE LET x == Head(s.e.queues[L])
         IN  IF x \notin DOMAIN s.e.orders
             THEN [e |-> [s.e EXCEPT !.queues = PopFront(@, L)], rem |-> s.rem]
             ELSE LET n == Lesser(s.e.orders[x].size, s.rem)
                  IN  [e |-> FillFront(s.e, x, L, n, ts), rem |-> s.rem - n]

\* The loop state after n turns.
ConsumeLoop(s, L, ts) ==
    LET turn[n \in Nat] == IF n = 0 THEN s ELSE ConsumeStep(turn[n - 1], L, ts)
    IN  turn

\* Every turn but the last pops an entry, so Len(queue) turns end the loop.
ConsumeLevel(e, L, n, ts) ==
    ConsumeLoop([e |-> e, rem |-> n], L, ts)[Len(e.queues[L])].e

\* apply_event.
ApplyEvent(e, ev) ==
    LET now == [e EXCEPT !.now = ev.ts]
    IN  CASE ev.action = "add"    -> Rest(now, Public(ev.id), ev.level, ev.size)
          [] ev.action = "cancel" -> CancelPublic(now, ev)
          [] ev.action = "modify" -> ModifyPublic(now, ev)
          [] ev.action = "trade"  -> ConsumeLevel(now, ev.level, ev.size, ev.ts)

\* Mutant of NewFills: the slice starts one fill too late.
NewFillsButFirst(e, f) == SubSeq(f.fills, Len(e.fills) + 2, Len(f.fills))

\* The slice self._passive_fills[before:] that apply_event returns.
NewFills(e, f) == SubSeq(f.fills, Len(e.fills) + 1, Len(f.fills))

----------------------------------------------------------------------------
(* Strategy orders.                                                        *)

\* Mutant of Matchable: an order does not meet a price equal to its limit.
MatchableInside(e, bookSide, limit) ==
    {p \in Prices : /\ e.book[<<bookSide, p>>] > 0
                    /\ \/ limit = NoLimit
                       \/ bookSide = "ask" /\ p < limit
                       \/ bookSide = "bid" /\ p > limit}

\* Prices on the given side of the book an order with this limit may hit.
Matchable(e, bookSide, limit) ==
    {p \in Prices : /\ e.book[<<bookSide, p>>] > 0
                    /\ \/ limit = NoLimit
                       \/ bookSide = "ask" /\ p <= limit
                       \/ bookSide = "bid" /\ p >= limit}

\* Mutant of Best: prices are sorted the other way round.
Worst(bookSide, S) == IF bookSide = "bid" THEN Min(S) ELSE Max(S)

Best(bookSide, S) == IF bookSide = "bid" THEN Max(S) ELSE Min(S)

\* One turn of the for loop of _match_active_order; m.todo are the prices the
\* loop has not reached.
MatchStep(m, id, side) ==
    IF m.rem = 0 \/ m.todo = {}
    THEN m
    ELSE LET opposite == OppositeBookSide(side)
             p == Best(opposite, m.todo)
             L == <<opposite, p>>
             n == Lesser(m.rem, m.e.book[L])
             hit == ConsumeLevel(m.e, L, n, m.e.now)
         IN  [e |-> [hit EXCEPT !.position = @ + Signed(side, n)],
              rem |-> m.rem - n,
              todo |-> m.todo \ {p},
              fills |-> Append(m.fills, [id |-> id, side |-> side, price |-> p,
                                         size |-> n, ts |-> m.e.now])]

MatchLoop(m, id, side) ==
    LET turn[n \in Nat] == IF n = 0 THEN m ELSE MatchStep(turn[n - 1], id, side)
    IN  turn

MatchActive(e, id, side, n, limit) ==
    LET todo == Matchable(e, OppositeBookSide(side), limit)
    IN  MatchLoop([e |-> e, rem |-> n, todo |-> todo, fills |-> <<>>], id, side)
            [Cardinality(todo)]

\* Mutant of Place: the whole size rests, filled or not.
PlaceRestingAll(e, side, n, limit, tif) ==
    LET id == e.nextId
        m == MatchActive([e EXCEPT !.nextId = @ + 1], id, side, n, limit)
        rests == m.rem > 0 /\ tif = "GTC"
    IN  [e |-> IF rests THEN Rest(m.e, Own(id), <<BookSideOf(side), limit>>, n)
                        ELSE m.e,
         id |-> id, rests |-> rests, fills |-> m.fills]

\* Mutant of Place: the next order gets the same id.
PlaceSameId(e, side, n, limit, tif) ==
    LET id == e.nextId
        m == MatchActive(e, id, side, n, limit)
        rests == m.rem > 0 /\ tif = "GTC"
    IN  [e |-> IF rests THEN Rest(m.e, Own(id), <<BookSideOf(side), limit>>, m.rem)
                        ELSE m.e,
         id |-> id, rests |-> rests, fills |-> m.fills]

\* place_limit; place_market is an IOC order with no limit.
Place(e, side, n, limit, tif) ==
    LET id == e.nextId
        m == MatchActive([e EXCEPT !.nextId = @ + 1], id, side, n, limit)
        rests == m.rem > 0 /\ tif = "GTC"
    IN  [e |-> IF rests THEN Rest(m.e, Own(id), <<BookSideOf(side), limit>>, m.rem)
                        ELSE m.e,
         id |-> id, rests |-> rests, fills |-> m.fills]

\* Mutants of CancelOwn: the entry stays in the queue; nothing happens at all.
CancelOwnKeepingEntry(e, id) ==
    LET x == Own(id)
    IN  IF x \notin DOMAIN e.orders THEN e
        ELSE [e EXCEPT !.book = RemoveFromBook(@, e.orders[x].level, e.orders[x].size),
                       !.orders = Drop(@, x)]
CancelOwnIgnored(e, id) == e

\* cancel; an unknown id leaves the engine as it is.
CancelOwn(e, id) ==
    LET x == Own(id)
    IN  IF x \notin DOMAIN e.orders THEN e
        ELSE LET o == e.orders[x]
             IN  [e EXCEPT !.orders = Drop(@, x),
                           !.book = RemoveFromBook(@, o.level, o.size),
                           !.queues = Dequeue(@, o.level, x)]

AdvanceTime(e, ts) == [e EXCEPT !.now = ts]

PopPassiveFills(e) == [e EXCEPT !.fills = <<>>]

----------------------------------------------------------------------------
(* Queries.                                                                *)

SizeOf(e, x) == IF x \in DOMAIN e.orders THEN e.orders[x].size ELSE 0

\* Positions of entry x in the queue of level L.
Places(e, L, x) == {i \in 1..Len(e.queues[L]) : e.queues[L][i] = x}

\* The entries in front of x at its level: what _queue_ahead adds up.
PlacesAhead(e, x) ==
    LET L == e.orders[x].level
    IN  1..(Min(Places(e, L, x)) - 1)

QueueAhead(e, x) ==
    LET q == e.queues[e.orders[x].level]
    IN  Total([i \in PlacesAhead(e, x) |-> SizeOf(e, q[i])])

OwnOrders(e) == {x \in DOMAIN e.orders : IsOwn(x)}

\* What a list of fills adds up to: the position it makes, what it gives order id.
Net(fills) ==
    Total([i \in DOMAIN fills |-> Signed(fills[i].side, fills[i].size)])
FilledOf(id, fills) ==
    Total([i \in DOMAIN fills |-> IF fills[i].id = id THEN fills[i].size ELSE 0])

----------------------------------------------------------------------------
(* What an engine state is, and what its queues say of own orders.         *)

\* orders is a partial function on Entries.
EngineOK(e) ==
    /\ e \in [book : [Levels -> Nat], orders : {e.orders},
              queues : [Levels -> Seq(Entries)], fills : Seq(Fills),
              nextId : Nat, now : Nat, position : Int]
    /\ e.orders \in [DOMAIN e.orders -> Orders]
    /\ DOMAIN e.orders \subseteq Entries

\* Entry x stands exactly once in queue q.
StandsOnce(q, x) == \E i \in 1..Len(q) : \A k \in 1..Len(q) : q[k] = x <=> k = i

\* Every own order stands exactly once in the queue of its level, and every own
\* entry of a queue is a live order of that level.
OwnQueued(e) ==
    /\ \A x \in OwnOrders(e) : StandsOnce(e.queues[e.orders[x].level], x)
    /\ \A L \in Levels : \A i \in 1..Len(e.queues[L]) :
          IsOwn(e.queues[L][i]) => /\ e.queues[L][i] \in DOMAIN e.orders
                                   /\ e.orders[e.queues[L][i]].level = L

\* Own orders have ids the engine has given out.
OwnIdsGivenOut(e) ==
    /\ e.nextId >= FirstOwnId
    /\ \A x \in OwnOrders(e) : x[2] \in FirstOwnId..(e.nextId - 1)

==============================================================================
