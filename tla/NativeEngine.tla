---------------------------- MODULE NativeEngine ----------------------------
(***************************************************************************)
(* The C++ matching engine: MatchingEngineCpp (matching_engine_core.hpp),  *)
(* its bindings (matching_engine_cpp.cpp) and the Python class around them *)
(* (sim/cpp_matching_engine.py), as functions on engine states.            *)
(*                                                                         *)
(* A state is a record with the members of MatchingEngineCpp.  bids and    *)
(* asks map a price to its size, publicOrders and ownOrders an id to its   *)
(* order, queues a <<side, price>> to a deque of entries; a key the code   *)
(* erases is not in the domain.  A queue entry names the map its order is  *)
(* in and the id.  Sides are the chars "B" and "A".  Level sizes and queue *)
(* totals are int32: they wrap at Width bits, which is what the overflow,  *)
(* undefined in C++, does in an optimised build that does not trap it.     *)
(***************************************************************************)
EXTENDS Integers, Sequences, FiniteSets, FiniteSetsExt, Sums

CONSTANTS FirstOrderId,   \* next_order_id_ of a new engine
          Width           \* bits of a size

Half == 2 ^ (Width - 1)
MaxInt == Half - 1
Wrap(n) == ((n + Half) % (2 * Half)) - Half

NoOrder == -1          \* place_limit of an order that does not rest
MissingPrice == -1     \* book_top of an empty side

EmptyMap == [k \in {} |-> 0]
Insert(f, k, v) == [x \in DOMAIN f \cup {k} |-> IF x = k THEN v ELSE f[x]]
Erase(f, k) == [x \in DOMAIN f \ {k} |-> f[x]]

\* std::min.
StdMin(m, n) == IF n < m THEN n ELSE m

New ==
    [bids |-> EmptyMap, asks |-> EmptyMap, publicOrders |-> EmptyMap,
     ownOrders |-> EmptyMap, queues |-> EmptyMap, passiveFills |-> <<>>,
     nextOrderId |-> FirstOrderId, now |-> 0, position |-> 0]

----------------------------------------------------------------------------
(* The maps.                                                               *)

\* book_for_side, as the name of the member.
BookFor(side) == IF side = "B" THEN "bids" ELSE "asks"

\* Mutant of SetLevel: a level that reaches 0 stays in the map.
SetLevelKeepingZero(e, side, price, total) ==
    [e EXCEPT ![BookFor(side)] = IF total < 0 THEN Erase(@, price)
                                              ELSE Insert(@, price, total)]

SetLevel(e, side, price, total) ==
    [e EXCEPT ![BookFor(side)] = IF total <= 0 THEN Erase(@, price)
                                               ELSE Insert(@, price, total)]

AddToBook(e, side, price, n) ==
    LET book == e[BookFor(side)]
    IN  SetLevel(e, side, price, Wrap((IF price \in DOMAIN book THEN book[price] ELSE 0) + n))

RemoveFromBook(e, side, price, n) ==
    LET book == e[BookFor(side)]
    IN  IF price \in DOMAIN book THEN SetLevel(e, side, price, Wrap(book[price] - n)) ELSE e

Queue(e, side, price) ==
    IF <<side, price>> \in DOMAIN e.queues THEN e.queues[<<side, price>>] ELSE <<>>
SetQueue(e, side, price, entries) ==
    [e EXCEPT !.queues = IF entries = <<>> THEN Erase(@, <<side, price>>)
                                           ELSE Insert(@, <<side, price>>, entries)]

\* std::remove_if: the entries other than x move up.
RemoveIf(entries, x) ==
    LET kept[n \in Nat] == IF n = 0 THEN <<>>
                           ELSE IF entries[n] = x THEN kept[n - 1]
                           ELSE Append(kept[n - 1], entries[n])
    IN  kept[Len(entries)]

RemoveFromQueue(e, side, price, x) ==
    SetQueue(e, side, price, RemoveIf(Queue(e, side, price), x))

\* An order joins the back of its queue and the level: add_public, add_own and
\* the end of a move.
Add(e, x, side, price, n) ==
    LET order == [side |-> side, price |-> price, size |-> n]
    IN  AddToBook(SetQueue([e EXCEPT ![x[1]] = Insert(@, x[2], order)],
                           side, price, Append(Queue(e, side, price), x)),
                  side, price, n)

HasOrder(e, x) == x[2] \in DOMAIN e[x[1]]
OrderOf(e, x) == e[x[1]][x[2]]
EraseOrder(e, x) == [e EXCEPT ![x[1]] = Erase(@, x[2])]
SetSize(e, x, n) == [e EXCEPT ![x[1]] = Insert(@, x[2], [OrderOf(e, x) EXCEPT !.size = n])]

----------------------------------------------------------------------------
(* Feed events.                                                            *)

CancelPublic(e, x, side, price, n) ==
    IF ~HasOrder(e, x) THEN RemoveFromBook(e, side, price, n)
    ELSE LET order == OrderOf(e, x)
             cancelled == StdMin(order.size, n)
             left == RemoveFromBook(e, order.side, order.price, cancelled)
         IN  IF cancelled < order.size THEN SetSize(left, x, order.size - cancelled)
             ELSE RemoveFromQueue(EraseOrder(left, x), order.side, order.price, x)

\* The size of an event is positive, so a modified order never reaches 0.
ModifyPublic(e, x, side, price, n) ==
    IF ~HasOrder(e, x) THEN Add(e, x, side, price, n)
    ELSE LET order == OrderOf(e, x)
             delta == n - order.size
         IN  IF order.side = side /\ order.price = price
             THEN SetSize(IF delta > 0 THEN AddToBook(e, side, price, delta)
                                       ELSE RemoveFromBook(e, side, price, -delta), x, n)
             ELSE Add(RemoveFromQueue(
                          RemoveFromBook(e, order.side, order.price, order.size),
                          order.side, order.price, x),
                      x, side, price, n)

\* consume_public_entry and consume_own_entry on the front of the queue, which
\* has an order: the rest of it stays at the front.
ConsumeFront(s, side, price, ts) ==
    LET entries == Queue(s.e, side, price)
        x == Head(entries)
        order == OrderOf(s.e, x)
        size == StdMin(order.size, s.remaining)
        taken == RemoveFromBook(s.e, side, price, size)
        told == IF x[1] = "publicOrders" THEN taken
                ELSE [taken EXCEPT
                        !.passiveFills = Append(@, [order |-> x[2], side |-> side,
                                                    price |-> price, size |-> size,
                                                    ts |-> ts]),
                        !.position = @ + IF side = "B" THEN size ELSE -size]
    IN  [e |-> IF size < order.size THEN SetSize(told, x, order.size - size)
               ELSE SetQueue(EraseOrder(told, x), side, price, Tail(entries)),
         remaining |-> s.remaining - size]

\* One turn of the while loop of consume_level.  A front without an order is popped.
ConsumeTurn(s, side, price, ts) ==
    LET entries == Queue(s.e, side, price)
    IN  IF s.remaining = 0 \/ entries = <<>> THEN s
        ELSE IF HasOrder(s.e, Head(entries)) THEN ConsumeFront(s, side, price, ts)
        ELSE [e |-> SetQueue(s.e, side, price, Tail(entries)), remaining |-> s.remaining]

ConsumeLoop(s, side, price, ts) ==
    LET turn[k \in Nat] == IF k = 0 THEN s ELSE ConsumeTurn(turn[k - 1], side, price, ts)
    IN  turn

\* Every turn but the last pops the front.
ConsumeLevel(e, side, price, n, ts) ==
    ConsumeLoop([e |-> e, remaining |-> n], side, price, ts)[Len(Queue(e, side, price))].e

\* apply_event_code on one row of the event columns.
ApplyEventCode(e, row) ==
    LET now == [e EXCEPT !.now = row.ts]
        x == <<"publicOrders", row.id>>
    IN  CASE row.action = "A" -> Add(now, x, row.side, row.price, row.size)
          [] row.action = "C" -> CancelPublic(now, x, row.side, row.price, row.size)
          [] row.action = "M" -> ModifyPublic(now, x, row.side, row.price, row.size)
          [] row.action = "T" -> ConsumeLevel(now, row.side, row.price, row.size, row.ts)

\* The fills a call added to passive_fills_.
FillsSince(e, f) ==
    SubSeq(f.passiveFills, Len(e.passiveFills) + 1, Len(f.passiveFills))

BookTop(e) ==
    <<IF DOMAIN e.bids = {} THEN MissingPrice ELSE Max(DOMAIN e.bids),
      IF DOMAIN e.asks = {} THEN MissingPrice ELSE Min(DOMAIN e.asks)>>

----------------------------------------------------------------------------
(* Batches: slices of the event columns.                                    *)

\* apply_events_batch_with_marks: after each event the fills it gave and, if both
\* sides have a price, a mark.  apply_events_batch is the same without marks.
BatchTurn(b, row) ==
    LET f == ApplyEventCode(b.e, row)
        top == BookTop(f)
    IN  [e |-> f,
         fills |-> b.fills \o FillsSince(b.e, f),
         marks |-> IF top[1] < 0 \/ top[2] < 0 THEN b.marks
                   ELSE Append(b.marks, [ts |-> row.ts, mid2 |-> top[1] + top[2]])]

ApplyEventsBatchWithMarks(e, rows) ==
    LET after[i \in 0..Len(rows)] ==
            IF i = 0 THEN [e |-> e, fills |-> <<>>, marks |-> <<>>]
            ELSE BatchTurn(after[i - 1], rows[i])
    IN  after[Len(rows)]

\* apply_events_until_fill: stops behind the first event that gives fills.
UntilFillTurn(b, row) ==
    LET f == ApplyEventCode(b.e, row)
    IN  IF b.fills # <<>> THEN b
        ELSE [e |-> f, fills |-> FillsSince(b.e, f), applied |-> b.applied + 1]

ApplyEventsUntilFill(e, rows) ==
    LET after[i \in 0..Len(rows)] ==
            IF i = 0 THEN [e |-> e, fills |-> <<>>, applied |-> 0]
            ELSE UntilFillTurn(after[i - 1], rows[i])
    IN  after[Len(rows)]

----------------------------------------------------------------------------
(* Strategy orders.                                                        *)

MatchablePrices(e, side, limit, hasLimit) ==
    {p \in DOMAIN e[BookFor(side)] :
        hasLimit => IF side = "A" THEN p <= limit ELSE p >= limit}

\* One turn of the loop of match_active_order; todo are the prices found before
\* the loop that it has not reached, ascending on asks and descending on bids.
MatchTurn(s, id, orderSide) ==
    IF s.remaining = 0 \/ s.todo = {} THEN s
    ELSE LET side == IF orderSide = "B" THEN "A" ELSE "B"
             price == IF side = "A" THEN Min(s.todo) ELSE Max(s.todo)
             size == StdMin(s.remaining, s.e[BookFor(side)][price])
             hit == ConsumeLevel(s.e, side, price, size, s.e.now)
         IN  [e |-> [hit EXCEPT !.position = @ + IF orderSide = "B" THEN size ELSE -size],
              fills |-> Append(s.fills, [order |-> id, side |-> orderSide, price |-> price,
                                         size |-> size, ts |-> s.e.now]),
              remaining |-> s.remaining - size,
              todo |-> s.todo \ {price}]

MatchLoop(s, id, orderSide) ==
    LET turn[k \in Nat] == IF k = 0 THEN s ELSE MatchTurn(turn[k - 1], id, orderSide)
    IN  turn

MatchActiveOrder(e, id, orderSide, n, limit, hasLimit) ==
    LET prices == MatchablePrices(e, IF orderSide = "B" THEN "A" ELSE "B", limit, hasLimit)
    IN  MatchLoop([e |-> e, fills |-> <<>>, remaining |-> n, todo |-> prices], id, orderSide)
            [Cardinality(prices)]

\* place_limit of a valid order.
PlaceLimit(e, orderSide, price, n, tif) ==
    LET id == e.nextOrderId
        m == MatchActiveOrder([e EXCEPT !.nextOrderId = @ + 1], id, orderSide, n, price, TRUE)
        rests == m.remaining > 0 /\ tif = "GTC"
    IN  [e |-> IF rests THEN Add(m.e, <<"ownOrders", id>>, orderSide, price, m.remaining)
                        ELSE m.e,
         order |-> IF rests THEN id ELSE NoOrder,
         fills |-> m.fills]

PlaceMarket(e, orderSide, n) ==
    LET m == MatchActiveOrder([e EXCEPT !.nextOrderId = @ + 1], e.nextOrderId, orderSide,
                              n, 0, FALSE)
    IN  [e |-> m.e, order |-> NoOrder, fills |-> m.fills]

Cancel(e, id) ==
    LET x == <<"ownOrders", id>>
    IN  IF ~HasOrder(e, x) THEN e
        ELSE LET order == OrderOf(e, x)
             IN  RemoveFromQueue(
                     RemoveFromBook(EraseOrder(e, x), order.side, order.price, order.size),
                     order.side, order.price, x)

AdvanceTime(e, ts) == [e EXCEPT !.now = ts]

----------------------------------------------------------------------------
(* Queries.                                                                *)

\* queue_ahead: the sizes in front of the first entry of the order.
QueueAhead(e, id) ==
    LET order == e.ownOrders[id]
        entries == Queue(e, order.side, order.price)
        mine == Min({i \in DOMAIN entries : entries[i] = <<"ownOrders", id>>})
        counted == {i \in 1..(mine - 1) : HasOrder(e, entries[i])}
    IN  Wrap(Total([i \in counted |-> OrderOf(e, entries[i]).size]))

\* The rows of own_orders, one per id.
OwnOrderRows(e) ==
    [id \in DOMAIN e.ownOrders |->
        [side |-> e.ownOrders[id].side, price |-> e.ownOrders[id].price,
         size |-> e.ownOrders[id].size, ahead |-> QueueAhead(e, id)]]
==============================================================================
