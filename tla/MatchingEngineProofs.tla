------------------------- MODULE MatchingEngineProofs -------------------------
(***************************************************************************)
(* The queues of the matching engine, for every feed, strategy, price set  *)
(* and bound.  The inductive invariant is IInv: the engine is well-typed,  *)
(* own orders are queued exactly once, and the engine has given out the    *)
(* ids of all of them, so that a new order's id is fresh.  Then the books  *)
(* of fills and positions, and at the end the priority in a queue.         *)
(***************************************************************************)
EXTENDS MatchingEngine, EngineOpsProofs, TLAPS

IdsPlaced == DOMAIN placed = FirstOwnId..(engine.nextId - 1)

IInv == EngineInv(engine) /\ IdsPlaced

LEMMA InitIInv ==
  Init => IInv
<1> SUFFICES ASSUME Init PROVE IInv
  OBVIOUS
<1>1. engine = EmptyEngine /\ DOMAIN placed = {}
  BY DEF Init
<1>2. FirstOwnId..(engine.nextId - 1) = {}
  BY <1>1, EmptyEngineFacts, FirstOwnIdAssumption
<1> QED BY <1>1, <1>2, EmptyEngineFacts DEF IInv, IdsPlaced

LEMMA StampFacts ==
  ASSUME NEW ev \in Events, NEW ts \in Nat
  PROVE  Stamp(ev, ts) \in MBOEvents /\ Stamp(ev, ts).ts = ts
<1>1. /\ ev.action \in {"add", "cancel", "modify", "trade"} /\ ev.id \in PublicIds
      /\ ev.level \in Levels /\ ev.size \in Sizes
  BY FeedAssumption DEF Events
<1>2. ev.size \in Nat \ {0}
  BY <1>1, SizeAssumption DEF Sizes
<1> QED BY <1>1, <1>2 DEF MBOEvents, Stamp

LEMMA NextIInv ==
  IInv /\ [Next]_vars => IInv'
<1> SUFFICES ASSUME IInv, [Next]_vars PROVE IInv'
  OBVIOUS
<1>0. EngineInv(engine) /\ IdsPlaced /\ engine.nextId \in Nat /\ engine.now \in Nat
  BY EngineFields DEF IInv, EngineInv
<1>1. ASSUME NEW ev \in Events, PublicEvent(ev)
      PROVE  IInv'
  <2> DEFINE stamped == Stamp(ev, engine.now + 1)
  <2>1. stamped \in MBOEvents
    BY <1>0, StampFacts
  <2>2. engine' = ApplyEvent(engine, stamped) /\ placed' = placed
    BY <1>1 DEF PublicEvent
  <2> HIDE DEF stamped
  <2>3. /\ EngineInv(ApplyEvent(engine, stamped))
        /\ ApplyEvent(engine, stamped).nextId = engine.nextId
    BY <1>0, <2>1, ApplyEventFacts
  <2> QED BY <1>0, <2>2, <2>3 DEF IInv, IdsPlaced
<1>2. ASSUME NEW side \in OrderSides, NEW n \in Sizes, NEW limit, NEW tif,
             tif = "GTC" => limit \in Prices, PlaceOrder(side, n, limit, tif)
      PROVE  IInv'
  <2>1. n \in Nat \ {0}
    BY SizeAssumption DEF Sizes
  <2>2. /\ EngineInv(Place(engine, side, n, limit, tif).e)
        /\ Place(engine, side, n, limit, tif).e.nextId = engine.nextId + 1
    BY <1>0, <1>2, <2>1, PlaceFacts
  <2>3. /\ engine' = Place(engine, side, n, limit, tif).e
        /\ placed' = Put(placed, engine.nextId, n)
    BY <1>2 DEF PlaceOrder, Place
  <2>4. DOMAIN placed' = (FirstOwnId..(engine.nextId - 1)) \cup {engine.nextId}
    BY <1>0, <2>3 DEF IdsPlaced, Put
  <2>5. engine.nextId >= FirstOwnId
    BY <1>0 DEF EngineInv, OwnIdsGivenOut
  <2>6. (FirstOwnId..(engine.nextId - 1)) \cup {engine.nextId}
           = FirstOwnId..((engine.nextId + 1) - 1)
    BY <1>0, <2>5, FirstOwnIdAssumption
  <2>7. DOMAIN placed' = FirstOwnId..(engine'.nextId - 1)
    BY <2>2, <2>3, <2>4, <2>6
  <2> QED BY <2>2, <2>3, <2>7 DEF IInv, IdsPlaced
<1>3. ASSUME NEW id \in DOMAIN placed, Cancel(id)
      PROVE  IInv'
  <2>1. id \in Nat
    BY <1>0, FirstOwnIdAssumption DEF IdsPlaced
  <2>2. EngineInv(CancelOwn(engine, id)) /\ CancelOwn(engine, id).nextId = engine.nextId
    BY <1>0, <2>1, CancelOwnFacts
  <2> QED BY <1>0, <1>3, <2>2 DEF Cancel, IInv, IdsPlaced
<1>4. ASSUME NEW ts \in 0..MaxNow, Tick(ts)
      PROVE  IInv'
  <2>1. ts \in Nat
    BY BoundAssumption
  <2>2. EngineInv(AdvanceTime(engine, ts)) /\ AdvanceTime(engine, ts).nextId = engine.nextId
    BY <1>0, <2>1, AdvanceTimeFacts
  <2> QED BY <1>0, <1>4, <2>2 DEF Tick, IInv, IdsPlaced
<1>5. CASE Pop
  <2>1. EngineInv(PopPassiveFills(engine)) /\ PopPassiveFills(engine).nextId = engine.nextId
    BY <1>0, PopPassiveFillsFacts
  <2> QED BY <1>0, <1>5, <2>1 DEF Pop, IInv, IdsPlaced
<1>6. CASE UNCHANGED vars
  BY <1>0, <1>6 DEF vars, IInv, IdsPlaced
<1>7. ASSUME NEW side \in OrderSides, NEW n \in Sizes, NEW price \in Prices,
             NEW tif \in Tifs, PlaceLimit(side, n, price, tif)
      PROVE  IInv'
  BY <1>2, <1>7 DEF PlaceLimit
<1>8. ASSUME NEW side \in OrderSides, NEW n \in Sizes, PlaceMarket(side, n)
      PROVE  IInv'
  BY <1>2, <1>8 DEF PlaceMarket
<1> QED BY <1>1, <1>3, <1>4, <1>5, <1>6, <1>7, <1>8 DEF Next, StrategyNext

(* Every resting strategy order stands exactly once in the queue of its      *)
(* level and every strategy entry of a queue is a live order of that level,  *)
(* whatever the feed and the strategy do (matching_engine.py, _queues and    *)
(* _own_orders).                                                           *)
THEOREM OwnOrdersAlwaysQueuedOnce ==
  Spec => []OwnOrdersQueuedOnce
<1>1. IInv => OwnOrdersQueuedOnce
  BY DEF IInv, EngineInv, OwnOrdersQueuedOnce
<1> QED BY <1>1, InitIInv, NextIInv, PTL DEF Spec

(* The engine is well-typed: no price's size is negative, no order has size  *)
(* 0, and fills have positive sizes.                                       *)
THEOREM EngineAlwaysTyped ==
  Spec => []EngineOK(engine)
<1>1. IInv => EngineOK(engine)
  BY DEF IInv, EngineInv
<1> QED BY <1>1, InitIInv, NextIInv, PTL DEF Spec

(***************************************************************************)
(* The accounts: what the fills the engine has handed out, and those it    *)
(* still holds, add up to.  Inductive with IInv, which says that a new     *)
(* order's id has not been used, so that its account is empty.             *)
(***************************************************************************)

(* What the callers have been told, at last, of order id, and what is left  *)
(* of it.                                                                  *)
Accounted(id) == FilledOf(id, active) + FilledOf(id, popped) + Left(engine, id)

AccountInv ==
  /\ active \in Seq(Fills) /\ popped \in Seq(Fills) /\ delivered \in Seq(Fills)
  /\ GivenOut(active, engine.nextId) /\ GivenOut(popped, engine.nextId)
  /\ GivenOut(engine.fills, engine.nextId)
  /\ \A id \in DOMAIN placed :
        /\ placed[id] \in Nat
        /\ Accounted(id) <= placed[id]
        /\ Own(id) \in DOMAIN engine.orders => Accounted(id) = placed[id]
  /\ engine.position = Net(active) + Net(popped) + Net(engine.fills)
  /\ ~SelfCross => delivered = popped \o engine.fills

LEMMA InitAccountInv ==
  Init => AccountInv
<1> SUFFICES ASSUME Init PROVE AccountInv
  OBVIOUS
<1>1. /\ active = <<>> /\ popped = <<>> /\ delivered = <<>> /\ DOMAIN placed = {}
      /\ engine.fills = <<>> /\ engine.position = 0
  BY DEF Init, EmptyEngine
<1>2. Net(<<>>) = 0
  <2> DEFINE u == <<>>
  <2>1. u \in Seq(ActiveFills)
    OBVIOUS
  <2> HIDE DEF u
  <2>2. Net(<<>>) = 0
    BY <2>1, NetFacts
  <2> QED BY <2>2
<1>3. <<>> \in Seq(Fills) /\ <<>> \o <<>> = <<>> /\ \A next : GivenOut(<<>>, next)
  BY DEF GivenOut
<1> QED BY <1>1, <1>2, <1>3 DEF AccountInv

(* Every number of an account is a natural number.                         *)
LEMMA AccountTypes ==
  ASSUME IInv, AccountInv
  PROVE  /\ engine.fills \in Seq(Fills) /\ engine.position \in Int /\ engine.nextId \in Nat
         /\ Net(active) \in Int /\ Net(popped) \in Int /\ Net(engine.fills) \in Int
         /\ \A id \in Nat : /\ FilledOf(id, active) \in Nat /\ FilledOf(id, popped) \in Nat
                            /\ FilledOf(id, engine.fills) \in Nat
                            /\ SizeOf(engine, Own(id)) \in Nat /\ Left(engine, id) \in Nat
         /\ DOMAIN placed = FirstOwnId..(engine.nextId - 1) /\ DOMAIN placed \subseteq Nat
<1>1. /\ engine.fills \in Seq(Fills) /\ engine.position \in Int /\ engine.nextId \in Nat
      /\ engine.orders \in [DOMAIN engine.orders -> Orders]
  BY EngineFields DEF IInv, EngineInv
<1>2. /\ active \in Seq(ActiveFills) /\ popped \in Seq(ActiveFills)
      /\ engine.fills \in Seq(ActiveFills)
  BY <1>1, FillsAreActive DEF AccountInv
<1>3. Net(active) \in Int /\ Net(popped) \in Int /\ Net(engine.fills) \in Int
  BY <1>2, NetFacts
<1>4. \A id \in Nat : /\ FilledOf(id, active) \in Nat /\ FilledOf(id, popped) \in Nat
                      /\ FilledOf(id, engine.fills) \in Nat
  BY <1>2, FilledFacts
<1>5. \A id \in Nat : SizeOf(engine, Own(id)) \in Nat
  BY <1>1 DEF SizeOf, Orders
<1>6. \A id \in Nat : Left(engine, id) \in Nat
  BY <1>4, <1>5 DEF Left
<1>7. DOMAIN placed = FirstOwnId..(engine.nextId - 1) /\ DOMAIN placed \subseteq Nat
  BY <1>1, FirstOwnIdAssumption DEF IInv, IdsPlaced
<1> QED BY <1>1, <1>3, <1>4, <1>5, <1>6, <1>7

(* A step that returns no active fill and places nothing: the accounts stay *)
(* balanced when the engine settles.                                       *)
LEMMA SettledAccounts ==
  ASSUME IInv, AccountInv, UNCHANGED <<active, placed, popped>>, delivered' \in Seq(Fills),
         engine'.nextId = engine.nextId, engine'.fills \in Seq(Fills), engine'.position \in Int,
         GivenOut(engine'.fills, engine.nextId), Settled(engine, engine'),
         ~SelfCross => delivered' = popped \o engine'.fills
  PROVE  AccountInv'
<1>1. /\ Net(engine.fills) \in Int /\ Net(engine'.fills) \in Int /\ Net(active) \in Int
      /\ Net(popped) \in Int /\ engine.position \in Int
  <2>1. engine'.fills \in Seq(ActiveFills)
    BY FillsAreActive
  <2> QED BY <2>1, AccountTypes, NetFacts
<1>2. engine'.position = Net(active) + Net(popped) + Net(engine'.fills)
  BY <1>1, SMTT(30) DEF AccountInv, Settled
<1>3. \A id \in DOMAIN placed : Left(engine', id) = Left(engine, id)
  BY AccountTypes DEF Settled
<1>4. \A id \in DOMAIN placed :
         Own(id) \in DOMAIN engine'.orders => Own(id) \in DOMAIN engine.orders
  BY AccountTypes, EntryFacts DEF Settled
<1> QED BY <1>2, <1>3, <1>4 DEF AccountInv, Accounted

LEMMA NextAccountInv ==
  IInv /\ AccountInv /\ [Next]_vars => AccountInv'
<1> SUFFICES ASSUME IInv, AccountInv, [Next]_vars PROVE AccountInv'
  OBVIOUS
<1>0. /\ EngineInv(engine) /\ engine.nextId \in Nat /\ engine.now \in Nat
      /\ engine.fills \in Seq(Fills) /\ engine.position \in Int
  BY EngineFields DEF IInv, EngineInv
<1>1. ASSUME NEW ev \in Events, PublicEvent(ev)
      PROVE  AccountInv'
  <2> DEFINE stamped == Stamp(ev, engine.now + 1)
             f == ApplyEvent(engine, stamped)
             new == NewFills(engine, f)
  <2>1. stamped \in MBOEvents
    BY <1>0, StampFacts
  <2>2. /\ engine' = f /\ delivered' = delivered \o new
        /\ UNCHANGED <<active, placed, popped>>
    BY <1>1 DEF PublicEvent
  <2> HIDE DEF stamped
  <2>3. /\ EngineInv(f) /\ f.nextId = engine.nextId /\ Settled(engine, f)
        /\ FillsGrow(engine.fills, f.fills, stamped.ts, engine.nextId)
    BY <1>0, <2>1, ApplyEventFacts, ApplyEventSettles
  <2> HIDE DEF f
  <2>4. f.fills \in Seq(Fills) /\ f.position \in Int
    BY <2>3, EngineFields DEF EngineInv
  <2>5. new \in Seq(Fills) /\ f.fills = engine.fills \o new
    BY <1>0, <2>3, <2>4, NewFillsAppended
  <2> HIDE DEF new
  <2>6. GivenOut(f.fills, engine.nextId)
    BY <1>0, <2>3, <2>4, GivenOutStays DEF AccountInv
  <2>7. delivered' \in Seq(Fills)
    BY <2>2, <2>5 DEF AccountInv
  <2>8. ~SelfCross => delivered' = popped \o f.fills
    <3>1. SUFFICES ASSUME ~SelfCross PROVE (popped \o engine.fills) \o new = popped \o (engine.fills \o new)
      BY <2>2, <2>5 DEF AccountInv
    <3>2. popped \in Seq(Fills)
      BY DEF AccountInv
    <3> DEFINE a == engine.fills
    <3>3. a \in Seq(Fills)
      BY <1>0
    <3> HIDE DEF a
    <3>4. (popped \o a) \o new = popped \o (a \o new)
      BY <2>5, <3>2, <3>3
    <3> QED BY <3>4 DEF a
  <2> QED BY <2>2, <2>3, <2>4, <2>6, <2>7, <2>8, SettledAccounts
<1>2. ASSUME NEW side \in OrderSides, NEW n \in Sizes, NEW limit, NEW tif,
             tif = "GTC" => limit \in Prices, PlaceOrder(side, n, limit, tif)
      PROVE  AccountInv'
  <2> DEFINE r == Place(engine, side, n, limit, tif)
             new == engine.nextId
             opposite == OppositeBookSide(side)
  <2>1. n \in Nat \ {0} /\ n \in Nat
    BY SizeAssumption DEF Sizes
  <2>2. /\ engine' = r.e /\ active' = active \o r.fills /\ placed' = Put(placed, new, n)
        /\ popped' = popped /\ delivered' = delivered
        /\ Willing(side, limit)
    <3>1. r.id = new
      BY <1>0, <1>2, <2>1, PlaceFacts
    <3> QED BY <1>2, <3>1 DEF PlaceOrder
  <2>3. /\ EngineInv(r.e) /\ r.e.nextId = new + 1
        /\ FillsGrow(engine.fills, r.e.fills, engine.now, new + 1)
        /\ Told(r.fills, new, engine.now)
    BY <1>0, <1>2, <2>1, PlaceFacts
  <2>4. /\ r.fills \in Seq(Fills)
        /\ r.e.position - Net(r.e.fills) - Net(r.fills) = engine.position - Net(engine.fills)
        /\ \A j \in Nat \ {new} : Left(r.e, j) = Left(engine, j) /\ FilledOf(j, r.fills) = 0
        /\ Left(r.e, new) + FilledOf(new, r.fills) <= n + Left(engine, new)
        /\ Own(new) \in DOMAIN r.e.orders
               => Left(r.e, new) + FilledOf(new, r.fills) = n + Left(engine, new)
        /\ NoneAt(engine, {opposite} \X Matchable(engine, opposite, limit))
               => r.e.fills = engine.fills
        /\ \A x \in DOMAIN r.e.orders : x # Own(new) => x \in DOMAIN engine.orders
    <3>1. Placed(engine, side, n, limit, r)
      BY <1>0, <1>2, <2>1, PlaceAccounts
    <3> HIDE DEF r
    <3> QED BY <3>1 DEF Placed
  <2> HIDE DEF r
  <2>6. r.e.fills \in Seq(Fills) /\ r.e.position \in Int
    BY <2>3, EngineFields DEF EngineInv
  <2>7. active' \in Seq(Fills) /\ popped' \in Seq(Fills) /\ delivered' \in Seq(Fills)
    BY <2>2, <2>4 DEF AccountInv
  <2>8. new <= new + 1 /\ new + 1 \in Nat
    BY <1>0
  <2>9. GivenOut(active', new + 1) /\ GivenOut(popped', new + 1) /\ GivenOut(r.e.fills, new + 1)
    <3>1. GivenOut(active, new + 1) /\ GivenOut(popped, new + 1) /\ GivenOut(engine.fills, new + 1)
      BY <1>0, <2>8, GivenOutLater DEF AccountInv
    <3>2. GivenOut(r.fills, new + 1)
      <4>1. new \in FirstOwnId..((new + 1) - 1)
        BY <1>0, FirstOwnIdAssumption DEF EngineInv, OwnIdsGivenOut
      <4> QED BY <2>3, <4>1 DEF Told, GivenOut
    <3>3. GivenOut(r.e.fills, new + 1)
      BY <1>0, <2>3, <2>6, <3>1, GivenOutStays
    <3>4. GivenOut(active \o r.fills, new + 1)
      BY <2>4, <3>1, <3>2, GivenOutConcat DEF AccountInv
    <3> QED BY <2>2, <3>1, <3>3, <3>4
  <2>10. /\ Net(active') = Net(active) + Net(r.fills) /\ Net(r.fills) \in Int
         /\ Net(r.e.fills) \in Int
         /\ \A id \in Nat : /\ FilledOf(id, active') = FilledOf(id, active) + FilledOf(id, r.fills)
                            /\ FilledOf(id, r.fills) \in Nat
    <3>1. active \in Seq(ActiveFills) /\ r.fills \in Seq(ActiveFills) /\ r.e.fills \in Seq(ActiveFills)
      BY <2>4, <2>6, FillsAreActive DEF AccountInv
    <3>2. Net(active \o r.fills) = Net(active) + Net(r.fills) /\ Net(r.fills) \in Int
          /\ Net(r.e.fills) \in Int
      BY <3>1, NetFacts
    <3>3. \A id \in Nat : /\ FilledOf(id, active \o r.fills) = FilledOf(id, active) + FilledOf(id, r.fills)
                          /\ FilledOf(id, r.fills) \in Nat
      BY <3>1, FilledFacts
    <3> QED BY <2>2, <3>2, <3>3
  <2>11. r.e.position = Net(active') + Net(popped') + Net(r.e.fills)
    <3>1. engine.position = Net(active) + Net(popped) + Net(engine.fills)
      BY DEF AccountInv
    <3>2. Net(active) \in Int /\ Net(popped) \in Int /\ Net(engine.fills) \in Int
      BY AccountTypes
    <3>3. Net(popped') = Net(popped)
      BY <2>2
    <3>4. /\ r.e.position - Net(r.e.fills) - Net(r.fills) = engine.position - Net(engine.fills)
          /\ Net(r.e.fills) \in Int /\ Net(r.fills) \in Int
          /\ Net(active') = Net(active) + Net(r.fills)
      BY <2>4, <2>10
    <3>5. r.e.position \in Int /\ engine.position \in Int
      BY <1>0, <2>6
    <3> DEFINE p == r.e.position
               q == engine.position
               f == Net(r.e.fills)
               g == Net(r.fills)
               a == Net(active)
               b == Net(popped)
               c == Net(engine.fills)
    <3>6. /\ q = a + b + c /\ p - f - g = q - c
          /\ a \in Int /\ b \in Int /\ c \in Int /\ f \in Int /\ g \in Int /\ p \in Int /\ q \in Int
      BY <3>1, <3>2, <3>4, <3>5
    <3>7. p = (a + g) + b + f
      <4> HIDE DEF p, q, f, g, a, b, c
      <4> QED BY <3>6
    <3> QED BY <3>3, <3>4, <3>7
  <2>12. ASSUME NEW id \in DOMAIN placed'
         PROVE  /\ placed'[id] \in Nat
                /\ Accounted(id)' <= placed'[id]
                /\ Own(id) \in DOMAIN r.e.orders => Accounted(id)' = placed'[id]
    <3>0. /\ DOMAIN placed' = DOMAIN placed \cup {new} /\ new \notin DOMAIN placed
          /\ id \in Nat /\ popped' = popped /\ engine' = r.e
      <4>1. DOMAIN placed' = DOMAIN placed \cup {new}
        BY <2>2 DEF Put
      <4>2. DOMAIN placed = FirstOwnId..(new - 1) /\ DOMAIN placed \subseteq Nat
        BY AccountTypes
      <4>3. id \in DOMAIN placed \cup {new}
        BY <4>1
      <4>4. new \notin DOMAIN placed /\ id \in Nat
        BY <1>0, <4>2, <4>3, FirstOwnIdAssumption
      <4> QED BY <2>2, <4>1, <4>4
    <3>1. Accounted(id)' = FilledOf(id, active') + FilledOf(id, popped) + Left(r.e, id)
      BY <3>0 DEF Accounted
    <3>2. CASE id # new
      <4>1. id \in DOMAIN placed /\ placed'[id] = placed[id]
        BY <2>2, <3>0, <3>2 DEF Put
      <4>2. Left(r.e, id) = Left(engine, id) /\ FilledOf(id, r.fills) = 0
        BY <2>4, <3>0, <3>2
      <4>3. Accounted(id)' = Accounted(id)
        <5>1. FilledOf(id, active') = FilledOf(id, active)
          <6>1. FilledOf(id, active') = FilledOf(id, active) + 0 /\ FilledOf(id, active) \in Nat
            BY <2>10, <3>0, <4>2, AccountTypes
          <6> QED BY <6>1
        <5> QED BY <3>1, <4>2, <5>1 DEF Accounted
      <4>4. Own(id) \in DOMAIN r.e.orders => Own(id) \in DOMAIN engine.orders
        <5>1. Own(id) # Own(new) /\ IsOwn(Own(id))
          BY <3>2, EntryFacts, <3>0 DEF Own
        <5> QED BY <2>4, <5>1
      <4> QED BY <4>1, <4>3, <4>4 DEF AccountInv
    <3>3. CASE id = new
      <4>1. placed'[id] = n
        BY <2>2, <3>3 DEF Put
      <4>2. FilledOf(new, active) = 0 /\ FilledOf(new, popped) = 0 /\ Left(engine, new) = 0
        <5>1. FilledOf(new, active) = 0 /\ FilledOf(new, popped) = 0
              /\ FilledOf(new, engine.fills) = 0
          BY <1>0, NoFillsYet DEF AccountInv
        <5>2. SizeOf(engine, Own(new)) = 0
          <6>1. Own(new) \notin DOMAIN engine.orders
            BY <1>0, FreshId
          <6> QED BY <6>1 DEF SizeOf
        <5> QED BY <5>1, <5>2 DEF Left
      <4>3. Accounted(id)' = Left(r.e, new) + FilledOf(new, r.fills)
        <5>1. FilledOf(new, r.fills) \in Nat /\ FilledOf(new, active') = 0 + FilledOf(new, r.fills)
          BY <1>0, <2>10, <4>2
        <5>2. Left(r.e, new) \in Int
          <6>1. r.e.orders \in [DOMAIN r.e.orders -> Orders]
            BY <2>3, EngineFields DEF EngineInv
          <6>2. SizeOf(r.e, Own(new)) \in Nat
            BY <6>1 DEF SizeOf, Orders
          <6>3. FilledOf(new, r.e.fills) \in Nat
            BY <1>0, <2>6, FillsAreActive, FilledFacts
          <6> QED BY <6>2, <6>3 DEF Left
        <5> HIDE DEF new
        <5> QED BY <3>1, <3>3, <4>2, <5>1, <5>2
      <4>4. n + Left(engine, new) = n
        BY <2>1, <4>2
      <4> HIDE DEF new
      <4> QED BY <2>1, <2>4, <3>3, <4>1, <4>3, <4>4
    <3> QED BY <3>2, <3>3
  <2>13. ~SelfCross => delivered' = popped' \o r.e.fills
    <3>1. SUFFICES ASSUME ~SelfCross PROVE r.e.fills = engine.fills
      BY <2>2 DEF AccountInv
    <3>2. NoneAt(engine, {opposite} \X Matchable(engine, opposite, limit))
      BY <2>2, <3>1 DEF Willing, NoneAt
    <3> QED BY <2>4, <3>2
  <2>14. engine' = r.e /\ engine'.nextId = new + 1
    BY <2>2, <2>3
  <2> HIDE DEF new
  <2> QED BY <2>7, <2>9, <2>11, <2>12, <2>13, <2>14 DEF AccountInv
<1>3. ASSUME NEW id \in DOMAIN placed, Cancel(id)
      PROVE  AccountInv'
  <2> DEFINE f == CancelOwn(engine, id)
  <2>1. id \in Nat
    BY AccountTypes
  <2>2. engine' = f /\ UNCHANGED <<active, delivered, popped, placed>>
    BY <1>3 DEF Cancel
  <2>3. /\ f.position = engine.position /\ f.fills = engine.fills /\ f.nextId = engine.nextId
        /\ \A j \in Nat : Left(f, j) <= Left(engine, j)
        /\ \A j \in Nat : Own(j) \in DOMAIN f.orders
               => Own(j) \in DOMAIN engine.orders /\ Left(f, j) = Left(engine, j)
        /\ EngineInv(f)
    BY <1>0, <2>1, CancelOwnFacts, CancelOwnAccounts
  <2> HIDE DEF f
  <2>4. ASSUME NEW j \in DOMAIN placed
        PROVE  /\ placed[j] \in Nat
               /\ Accounted(j)' <= placed[j]
               /\ Own(j) \in DOMAIN f.orders => Accounted(j)' = placed[j]
    <3>1. Accounted(j)' = FilledOf(j, active) + FilledOf(j, popped) + Left(f, j)
      BY <2>2 DEF Accounted
    <3>2. /\ j \in Nat /\ FilledOf(j, active) \in Nat /\ FilledOf(j, popped) \in Nat
          /\ Left(engine, j) \in Nat
      BY AccountTypes
    <3>3. Left(f, j) \in Int
      <4>1. f.orders \in [DOMAIN f.orders -> Orders] /\ f.fills \in Seq(Fills)
        BY <2>3, EngineFields DEF EngineInv
      <4>2. SizeOf(f, Own(j)) \in Nat
        BY <4>1 DEF SizeOf, Orders
      <4>3. FilledOf(j, f.fills) \in Nat
        BY <4>1, FillsAreActive, FilledFacts
      <4> QED BY <4>2, <4>3 DEF Left
    <3>4. placed[j] \in Nat /\ Accounted(j) <= placed[j]
          /\ (Own(j) \in DOMAIN engine.orders => Accounted(j) = placed[j])
      BY DEF AccountInv
    <3>5. Accounted(j) = FilledOf(j, active) + FilledOf(j, popped) + Left(engine, j)
      BY DEF Accounted
    <3>6. Left(f, j) <= Left(engine, j)
      BY <2>3, <3>2
    <3>7. Own(j) \in DOMAIN f.orders
             => Own(j) \in DOMAIN engine.orders /\ Left(f, j) = Left(engine, j)
      BY <2>3, <3>2
    <3>8. Accounted(j)' <= placed[j]
      BY <3>1, <3>2, <3>3, <3>4, <3>5, <3>6
    <3> QED BY <3>1, <3>4, <3>5, <3>7, <3>8
  <2> QED BY <2>2, <2>3, <2>4 DEF AccountInv
<1>4. ASSUME NEW ts \in 0..MaxNow, Tick(ts)
      PROVE  AccountInv'
  <2>1. ts \in Nat
    BY BoundAssumption
  <2>2. engine' = AdvanceTime(engine, ts) /\ UNCHANGED <<active, delivered, popped, placed>>
    BY <1>4 DEF Tick
  <2>3. /\ engine'.orders = engine.orders /\ engine'.fills = engine.fills
        /\ engine'.nextId = engine.nextId /\ engine'.position = engine.position
    BY <1>0, <2>2, EngineFields DEF AdvanceTime, EngineInv, Fields
  <2> QED BY <2>2, <2>3 DEF AccountInv, Accounted, Left, SizeOf
<1>5. CASE Pop
  <2>1. /\ engine' = PopPassiveFills(engine) /\ popped' = popped \o engine.fills
        /\ UNCHANGED <<active, delivered, placed>>
    BY <1>5 DEF Pop
  <2>2. /\ engine'.orders = engine.orders /\ engine'.fills = <<>>
        /\ engine'.nextId = engine.nextId /\ engine'.position = engine.position
    BY <1>0, <2>1, EngineFields DEF PopPassiveFills, EngineInv, Fields
  <2>3. /\ popped \in Seq(ActiveFills) /\ engine.fills \in Seq(ActiveFills)
        /\ <<>> \in Seq(ActiveFills) /\ Len(<<>>) = 0
    BY <1>0, FillsAreActive DEF AccountInv
  <2>4. Net(popped') = Net(popped) + Net(engine.fills) /\ Net(engine'.fills) = 0
    <3>1. Net(popped \o engine.fills) = Net(popped) + Net(engine.fills) /\ Net(<<>>) = 0
      BY <2>3, NetFacts
    <3> QED BY <2>1, <2>2, <3>1
  <2>5. \A j \in Nat : /\ FilledOf(j, popped') = FilledOf(j, popped) + FilledOf(j, engine.fills)
                       /\ FilledOf(j, engine'.fills) = 0
    <3>1. ASSUME NEW j \in Nat
          PROVE  /\ FilledOf(j, popped \o engine.fills) = FilledOf(j, popped) + FilledOf(j, engine.fills)
                 /\ FilledOf(j, <<>>) = 0
      <4>1. FilledOf(j, popped \o engine.fills) = FilledOf(j, popped) + FilledOf(j, engine.fills)
        BY <2>3, FilledFacts
      <4> DEFINE u == <<>>
      <4>2. u \in Seq(ActiveFills) /\ \A i \in 1..Len(u) : u[i].id # j
        OBVIOUS
      <4> HIDE DEF u
      <4>3. FilledOf(j, u) = 0
        BY <4>2, FilledFacts
      <4> QED BY <4>1, <4>3 DEF u
    <3> QED BY <2>1, <2>2, <3>1
  <2>6. popped' \in Seq(Fills) /\ GivenOut(popped', engine.nextId) /\ GivenOut(<<>>, engine.nextId)
        /\ popped' \o <<>> = popped'
    <3> DEFINE p == popped \o engine.fills
    <3>1. p \in Seq(Fills)
      BY <1>0 DEF AccountInv
    <3>2. GivenOut(p, engine.nextId)
      BY <1>0, GivenOutConcat DEF AccountInv
    <3>3. GivenOut(<<>>, engine.nextId)
      BY DEF GivenOut
    <3>4. p = popped'
      BY <2>1
    <3> HIDE DEF p
    <3>5. p \o <<>> = p
      BY <3>1
    <3> QED BY <3>1, <3>2, <3>3, <3>4, <3>5
  <2>7. ASSUME NEW j \in DOMAIN placed
        PROVE  Accounted(j)' = Accounted(j)
    <3>1. j \in Nat
      BY AccountTypes
    <3>2. Left(engine', j) = SizeOf(engine, Own(j))
      <4>1. SizeOf(engine', Own(j)) = SizeOf(engine, Own(j)) /\ SizeOf(engine, Own(j)) \in Nat
        BY <2>2, <3>1, AccountTypes DEF SizeOf
      <4> QED BY <2>5, <3>1, <4>1 DEF Left
    <3>3. Accounted(j)' = FilledOf(j, active) + FilledOf(j, popped') + Left(engine', j)
      BY <2>1 DEF Accounted
    <3>4. Accounted(j) = FilledOf(j, active) + FilledOf(j, popped)
                           + (SizeOf(engine, Own(j)) + FilledOf(j, engine.fills))
      BY DEF Accounted, Left
    <3> DEFINE a == FilledOf(j, active)
               p == FilledOf(j, popped)
               g == FilledOf(j, engine.fills)
               z == SizeOf(engine, Own(j))
    <3>5. a \in Nat /\ p \in Nat /\ g \in Nat /\ z \in Nat
      BY <3>1, AccountTypes
    <3>6. Accounted(j)' = a + (p + g) + z
      BY <2>5, <3>1, <3>2, <3>3
    <3>7. Accounted(j) = a + p + (z + g)
      BY <3>4
    <3> HIDE DEF a, p, g, z
    <3> QED BY <3>5, <3>6, <3>7
  <2>8. engine'.position = Net(active') + Net(popped') + Net(engine'.fills)
    <3>1. Net(active) \in Int /\ Net(popped) \in Int /\ Net(engine.fills) \in Int
      BY AccountTypes
    <3>2. engine.position = Net(active) + Net(popped) + Net(engine.fills)
      BY DEF AccountInv
    <3>3. active' = active /\ engine'.position = engine.position
      BY <2>1, <2>2
    <3> QED BY <2>4, <3>1, <3>2, <3>3
  <2> QED BY <2>1, <2>2, <2>6, <2>7, <2>8 DEF AccountInv
<1>6. CASE UNCHANGED vars
  BY <1>6 DEF vars, AccountInv, Accounted
<1>7. ASSUME NEW side \in OrderSides, NEW n \in Sizes, NEW price \in Prices,
             NEW tif \in Tifs, PlaceLimit(side, n, price, tif)
      PROVE  AccountInv'
  BY <1>2, <1>7 DEF PlaceLimit
<1>8. ASSUME NEW side \in OrderSides, NEW n \in Sizes, PlaceMarket(side, n)
      PROVE  AccountInv'
  BY <1>2, <1>8 DEF PlaceMarket
<1> QED BY <1>1, <1>3, <1>4, <1>5, <1>6, <1>7, <1>8 DEF Next, StrategyNext

LEMMA SpecAccounts ==
  Spec => [](IInv /\ AccountInv)
<1>1. Init => IInv /\ AccountInv
  BY InitIInv, InitAccountInv
<1>2. IInv /\ AccountInv /\ [Next]_vars => (IInv /\ AccountInv)'
  BY NextIInv, NextAccountInv
<1> QED BY <1>1, <1>2, PTL DEF Spec

(* No order is ever filled beyond the size it was placed with, the fills    *)
(* place_limit returned and those on the passive fill list together, and a  *)
(* resting order has exactly the rest of it: no fill is lost or told twice, *)
(* whatever the feed does and even when the strategy trades with itself.    *)
THEOREM OrdersNeverOverfilled ==
  Spec => []FillsWithinPlacedSize
<1>1. IInv /\ AccountInv => FillsWithinPlacedSize
  <2> SUFFICES ASSUME IInv, AccountInv, NEW id \in DOMAIN placed
               PROVE  LET filled == FilledOf(id, active) + FilledOf(id, popped)
                                      + FilledOf(id, engine.fills)
                      IN  /\ filled <= placed[id]
                          /\ Own(id) \in DOMAIN engine.orders
                                => filled + engine.orders[Own(id)].size = placed[id]
    BY DEF FillsWithinPlacedSize
  <2> DEFINE a == FilledOf(id, active)
             p == FilledOf(id, popped)
             g == FilledOf(id, engine.fills)
             z == SizeOf(engine, Own(id))
  <2>1. a \in Nat /\ p \in Nat /\ g \in Nat /\ z \in Nat /\ placed[id] \in Nat
    BY AccountTypes DEF AccountInv
  <2>2. Accounted(id) = a + p + (z + g)
    BY DEF Accounted, Left
  <2>3. /\ Accounted(id) <= placed[id]
        /\ Own(id) \in DOMAIN engine.orders => Accounted(id) = placed[id]
    BY DEF AccountInv
  <2>4. Own(id) \in DOMAIN engine.orders => engine.orders[Own(id)].size = z
    BY DEF SizeOf
  <2> HIDE DEF a, p, g, z
  <2>5. a + p + g <= placed[id]
    BY <2>1, <2>2, <2>3
  <2>6. Own(id) \in DOMAIN engine.orders => a + p + g + engine.orders[Own(id)].size = placed[id]
    <3>1. SUFFICES ASSUME Own(id) \in DOMAIN engine.orders PROVE a + p + g + z = placed[id]
      BY <2>4
    <3> QED BY <2>1, <2>2, <2>3, <3>1
  <2> QED BY <2>5, <2>6 DEF a, p, g
<1> QED BY <1>1, SpecAccounts, PTL

(* position() is the net of every fill the engine has made: the ones it     *)
(* returned from place_limit and place_market, and the passive ones, taken  *)
(* with pop_passive_fills or still on the list.                            *)
PositionIsNetOfAllFills ==
  engine.position = Net(active) + Net(popped) + Net(engine.fills)

THEOREM PositionAlwaysAccounted ==
  Spec => []PositionIsNetOfAllFills
<1>1. AccountInv => PositionIsNetOfAllFills
  BY DEF AccountInv, PositionIsNetOfAllFills
<1> QED BY <1>1, SpecAccounts, PTL

(* For a strategy that does not trade with itself, what place_limit,        *)
(* place_market and apply_event returned adds up to position().            *)
THEOREM CallersSeeThePosition ==
  ASSUME ~SelfCross
  PROVE  Spec => []PositionIsNetOfReturnedFills
<1>1. IInv /\ AccountInv => PositionIsNetOfReturnedFills
  <2> SUFFICES ASSUME IInv, AccountInv
               PROVE  engine.position = Net(active) + Net(delivered)
    BY DEF PositionIsNetOfReturnedFills
  <2>1. delivered = popped \o engine.fills
    BY DEF AccountInv
  <2>2. popped \in Seq(ActiveFills) /\ engine.fills \in Seq(ActiveFills)
    BY AccountTypes, FillsAreActive DEF AccountInv
  <2>3. Net(delivered) = Net(popped) + Net(engine.fills)
    BY <2>1, <2>2, NetFacts
  <2> QED BY <2>3, AccountTypes DEF AccountInv
<1> QED BY <1>1, SpecAccounts, PTL

(***************************************************************************)
(* Queue priority: nobody gets in front of a resting strategy order, and a *)
(* strategy order is filled only when nothing is left in front of it.      *)
(*                                                                         *)
(* Every operation is related to the order of the queues by Keeps, and     *)
(* consuming a level also by Serves.                                       *)
(***************************************************************************)

\* Somewhere in queue q, y stands in front of x.
Before(q, y, x) ==
    \E i \in 1..Len(q) : \E j \in 1..Len(q) : i < j /\ q[i] = y /\ q[j] = x

LEMMA BeforeAppend ==
  ASSUME NEW q \in Seq(Entries), NEW z \in Entries, NEW y, NEW x, x # z
  PROVE  Before(Append(q, z), y, x) => Before(q, y, x)
<1> DEFINE w == Append(q, z)
<1>1. /\ Len(w) = Len(q) + 1 /\ Len(q) \in Nat
      /\ \A i \in 1..Len(q) : w[i] = q[i]
      /\ w[Len(q) + 1] = z
  OBVIOUS
<1> HIDE DEF w
<1>2. ASSUME NEW i \in 1..Len(w), NEW j \in 1..Len(w), i < j, w[i] = y, w[j] = x
      PROVE  Before(q, y, x)
  <2>1. i \in 1..Len(q) /\ j \in 1..Len(q)
    BY <1>1, <1>2
  <2> QED BY <1>1, <1>2, <2>1 DEF Before
<1> QED BY <1>2 DEF Before, w

LEMMA BeforeTail ==
  ASSUME NEW q \in Seq(Entries), q # <<>>, NEW y, NEW x
  PROVE  /\ Before(Tail(q), y, x) => Before(q, y, x)
         /\ Before(q, y, x) => Before(Tail(q), y, x) \/ y = Head(q)
<1> DEFINE w == Tail(q)
           h == Head(q)
<1>1. /\ h = q[1] /\ Len(w) + 1 = Len(q) /\ Len(w) \in Nat
      /\ \A i \in 1..Len(w) : w[i] = q[i + 1]
  OBVIOUS
<1> HIDE DEF w, h
<1>2. ASSUME NEW i \in 1..Len(w), NEW j \in 1..Len(w), i < j, w[i] = y, w[j] = x
      PROVE  Before(q, y, x)
  <2>1. i + 1 \in 1..Len(q) /\ j + 1 \in 1..Len(q) /\ i + 1 < j + 1
    BY <1>1, <1>2
  <2> QED BY <1>1, <1>2, <2>1 DEF Before
<1>3. ASSUME NEW i \in 1..Len(q), NEW j \in 1..Len(q), i < j, q[i] = y, q[j] = x, y # h
      PROVE  Before(w, y, x)
  <2>1. i # 1
    BY <1>1, <1>3
  <2>2. i - 1 \in 1..Len(w) /\ j - 1 \in 1..Len(w) /\ i - 1 < j - 1
    BY <1>1, <1>3, <2>1
  <2>3. (i - 1) + 1 = i /\ (j - 1) + 1 = j
    OBVIOUS
  <2>4. w[i - 1] = q[i] /\ w[j - 1] = q[j]
    BY <1>1, <2>2, <2>3
  <2> QED BY <1>3, <2>2, <2>4 DEF Before
<1> QED BY <1>2, <1>3 DEF Before, w, h

LEMMA BeforeWithout ==
  ASSUME NEW q \in Seq(Entries), NEW z, NEW y, NEW x
  PROVE  Before(Without(q, z), y, x) => Before(q, y, x)
<1> DEFINE w == Without(q, z)
<1>1. PICK p : w \in Seq(Entries) /\ Embeds(p, w, q, z)
  BY WithoutEmbeds
<1> HIDE DEF w
<1>2. ASSUME NEW i \in 1..Len(w), NEW j \in 1..Len(w), i < j, w[i] = y, w[j] = x
      PROVE  Before(q, y, x)
  <2>1. /\ p[i] \in 1..Len(q) /\ p[j] \in 1..Len(q) /\ p[i] < p[j]
        /\ q[p[i]] = y /\ q[p[j]] = x
    BY <1>1, <1>2 DEF Embeds
  <2> QED BY <2>1 DEF Before
<1> QED BY <1>2 DEF Before, w

(* AheadOf is what stands before an own order in the queue of its level.   *)
LEMMA AheadFacts ==
  ASSUME NEW e, EngineInv(e), NEW x \in OwnOrders(e), NEW y
  PROVE  y \in AheadOf(e, x) <=> Before(e.queues[e.orders[x].level], y, x)
<1> DEFINE L == e.orders[x].level
           q == e.queues[L]
<1>1. x \in DOMAIN e.orders /\ L \in Levels /\ q \in Seq(Entries) /\ StandsOnce(q, x)
  <2>1. x \in DOMAIN e.orders /\ e.orders \in [DOMAIN e.orders -> Orders]
    BY EngineFields DEF EngineInv, OwnOrders
  <2>2. L \in Levels
    BY <2>1 DEF Orders
  <2>3. q \in Seq(Entries)
    BY <2>2, EngineFields DEF EngineInv
  <2> QED BY <2>1, <2>2, <2>3 DEF EngineInv, OwnQueued
<1>2. PICK k \in 1..Len(q) : \A i \in 1..Len(q) : q[i] = x <=> i = k
  BY <1>1 DEF StandsOnce
<1>3. Places(e, L, x) = {k}
  BY <1>2 DEF Places
<1>4. Min(Places(e, L, x)) = k
  <2>1. {k} \in SUBSET Nat /\ {k} # {}
    BY <1>2
  <2>2. Min({k}) \in {k}
    BY <2>1, MinFacts
  <2> QED BY <1>3, <2>2
<1>5. PlacesAhead(e, x) = 1..(k - 1)
  BY <1>4 DEF PlacesAhead
<1>6. AheadOf(e, x) = {q[i] : i \in 1..(k - 1)}
  BY <1>5 DEF AheadOf
<1> HIDE DEF q, L
<1>7. ASSUME NEW i \in 1..(k - 1), q[i] = y
      PROVE  Before(q, y, x)
  <2>1. i \in 1..Len(q) /\ i < k /\ q[k] = x
    BY <1>1, <1>2
  <2> QED BY <1>2, <1>7, <2>1 DEF Before
<1>8. ASSUME NEW i \in 1..Len(q), NEW j \in 1..Len(q), i < j, q[i] = y, q[j] = x
      PROVE  y \in AheadOf(e, x)
  <2>1. j = k /\ i \in 1..(k - 1)
    BY <1>2, <1>8
  <2> QED BY <1>6, <1>8, <2>1
<1>9. Before(q, y, x) => y \in AheadOf(e, x)
  BY <1>8 DEF Before
<1>10. y \in AheadOf(e, x) => Before(q, y, x)
  BY <1>6, <1>7
<1> QED BY <1>9, <1>10 DEF q, L

(***************************************************************************)
(* What every operation keeps: an own order that stays has its level, and  *)
(* only what stood in front of it does.                                    *)
(***************************************************************************)

Keeps(e, f) ==
  /\ \A x \in OwnOrders(e) \cap OwnOrders(f) : f.orders[x].level = e.orders[x].level
  /\ \A M \in Levels : \A x \in OwnOrders(e) \cap OwnOrders(f) :
        \A y : Before(f.queues[M], y, x) => Before(e.queues[M], y, x)

LEMMA KeepsAhead ==
  ASSUME NEW e, EngineInv(e), NEW f, EngineInv(f), Keeps(e, f),
         NEW x \in OwnOrders(e) \cap OwnOrders(f)
  PROVE  AheadOf(f, x) \subseteq AheadOf(e, x)
<1> SUFFICES ASSUME NEW y \in AheadOf(f, x) PROVE y \in AheadOf(e, x)
  OBVIOUS
<1> DEFINE L == e.orders[x].level
<1>1. L \in Levels
  BY EngineFields DEF EngineInv, OwnOrders, Orders
<1>2. f.orders[x].level = L
  BY DEF Keeps
<1>3. Before(f.queues[L], y, x)
  BY <1>2, AheadFacts
<1> HIDE DEF L
<1>4. Before(e.queues[L], y, x)
  BY <1>1, <1>3 DEF Keeps
<1> QED BY <1>4, AheadFacts DEF L

LEMMA KeepsTransitive ==
  ASSUME NEW e, NEW f, NEW g, Keeps(e, f), Keeps(f, g),
         OwnOrders(e) \cap OwnOrders(g) \subseteq OwnOrders(f)
  PROVE  Keeps(e, g)
BY DEF Keeps

(* A state with the same queues and the same levels of own orders.         *)
LEMMA KeepsSame ==
  ASSUME NEW e, NEW f, f.queues = e.queues,
         \A x \in OwnOrders(e) \cap OwnOrders(f) : f.orders[x].level = e.orders[x].level
  PROVE  Keeps(e, f)
BY DEF Keeps

LEMMA DequeueKeeps ==
  ASSUME NEW e, e.queues \in [Levels -> Seq(Entries)], NEW L \in Levels, NEW z,
         NEW f, f.queues = Dequeue(e.queues, L, z),
         \A x \in OwnOrders(e) \cap OwnOrders(f) : f.orders[x].level = e.orders[x].level
  PROVE  Keeps(e, f)
<1> SUFFICES ASSUME NEW M \in Levels, NEW x, NEW y, Before(f.queues[M], y, x)
             PROVE  Before(e.queues[M], y, x)
  BY DEF Keeps
<1>1. e.queues[M] \in Seq(Entries)
  OBVIOUS
<1>2. f.queues[M] = IF M = L THEN Without(e.queues[M], z) ELSE e.queues[M]
  BY DEF Dequeue
<1> QED BY <1>1, <1>2, BeforeWithout

LEMMA RestKeeps ==
  ASSUME NEW e, EngineOK(e), NEW z \in Entries, IsOwn(z) => z \notin DOMAIN e.orders,
         NEW L \in Levels, NEW n
  PROVE  Keeps(e, Rest(e, z, L, n))
<1> DEFINE f == Rest(e, z, L, n)
<1>1. DOMAIN e = Fields /\ e.queues \in [Levels -> Seq(Entries)]
  BY EngineFields
<1>2. /\ f.queues = Enqueue(e.queues, L, z)
      /\ f.orders = Put(e.orders, z, [level |-> L, size |-> n])
  BY <1>1 DEF Rest, Fields
<1>3. \A x \in OwnOrders(e) : x # z /\ f.orders[x] = e.orders[x]
  BY <1>2 DEF OwnOrders, Put
<1> HIDE DEF f
<1>4. ASSUME NEW M \in Levels, NEW x \in OwnOrders(e), NEW y, Before(f.queues[M], y, x)
      PROVE  Before(e.queues[M], y, x)
  <2>1. e.queues[M] \in Seq(Entries) /\ x # z
    BY <1>1, <1>3
  <2>2. f.queues[M] = IF M = L THEN Append(e.queues[M], z) ELSE e.queues[M]
    BY <1>1, <1>2 DEF Enqueue
  <2> QED BY <1>4, <2>1, <2>2, BeforeAppend
<1>5. Keeps(e, f)
  BY <1>3, <1>4 DEF Keeps
<1> QED BY <1>5 DEF f

LEMMA ResizeKeeps ==
  ASSUME NEW e, EngineOK(e), NEW x \in DOMAIN e.orders, NEW n \in Nat
  PROVE  Keeps(e, Resize(e, x, n))
<1> DEFINE f == Resize(e, x, n)
           L == e.orders[x].level
<1>1. /\ DOMAIN e = Fields /\ e.queues \in [Levels -> Seq(Entries)]
      /\ e.orders \in [DOMAIN e.orders -> Orders]
  BY EngineFields
<1>2. L \in Levels
  BY <1>1 DEF Orders
<1>3. /\ f.queues = IF n = 0 THEN Dequeue(e.queues, L, x) ELSE e.queues
      /\ f.orders = SetSize(e.orders, x, n)
  BY <1>1 DEF Resize, Fields
<1> HIDE DEF f, L
<1>4. \A y \in OwnOrders(e) \cap OwnOrders(f) : f.orders[y].level = e.orders[y].level
  <2> DEFINE os == SetSize(e.orders, x, n)
  <2>1. \A y \in DOMAIN os : os[y].level = e.orders[y].level
    BY <1>1, SetSizeFacts
  <2>2. f.orders = os
    BY <1>3
  <2> HIDE DEF os
  <2> QED BY <2>1, <2>2 DEF OwnOrders
<1>5. Keeps(e, f)
  <2>1. CASE n = 0
    <3>1. f.queues = Dequeue(e.queues, L, x)
      BY <1>3, <2>1
    <3> QED BY <1>1, <1>2, <1>4, <3>1, DequeueKeeps
  <2>2. CASE n # 0
    BY <1>3, <1>4, <2>2, KeepsSame
  <2> QED BY <2>1, <2>2
<1> QED BY <1>5 DEF f

LEMMA MovePublicKeeps ==
  ASSUME NEW e, EngineInv(e), NEW x \in DOMAIN e.orders, ~IsOwn(x),
         NEW L \in Levels, NEW n \in Nat \ {0}
  PROVE  Keeps(e, MovePublic(e, x, L, n))
<1> DEFINE K == e.orders[x].level
           f == MovePublic(e, x, L, n)
<1>1. /\ DOMAIN e = Fields /\ e.queues \in [Levels -> Seq(Entries)]
      /\ e.orders \in [DOMAIN e.orders -> Orders] /\ DOMAIN e.orders \subseteq Entries
  BY EngineFields DEF EngineInv
<1>2. K \in Levels /\ x \in Entries
  BY <1>1 DEF Orders
<1>3. /\ f.queues = Enqueue(Dequeue(e.queues, K, x), L, x)
      /\ f.orders = Put(e.orders, x, [level |-> L, size |-> n])
  BY <1>1 DEF MovePublic, Rest, Fields
<1> HIDE DEF f, K
<1>4. \A y \in OwnOrders(e) : y # x /\ f.orders[y] = e.orders[y]
  BY <1>3 DEF OwnOrders, Put
<1>5. ASSUME NEW M \in Levels, NEW z \in OwnOrders(e), NEW y, Before(f.queues[M], y, z)
      PROVE  Before(e.queues[M], y, z)
  <2> DEFINE left == Dequeue(e.queues, K, x)[M]
  <2>1. left = IF M = K THEN Without(e.queues[M], x) ELSE e.queues[M]
    BY <1>1, <1>2 DEF Dequeue
  <2>2. e.queues[M] \in Seq(Entries) /\ z # x
    BY <1>1, <1>4
  <2>3. left \in Seq(Entries)
    BY <2>1, <2>2, WithoutEmbeds
  <2>4. f.queues[M] = IF M = L THEN Append(left, x) ELSE left
    BY <1>1, <1>3 DEF Dequeue, Enqueue
  <2> HIDE DEF left
  <2>5. Before(left, y, z)
    BY <1>2, <1>5, <2>2, <2>3, <2>4, BeforeAppend
  <2> QED BY <2>1, <2>2, <2>5, BeforeWithout
<1>6. Keeps(e, f)
  BY <1>4, <1>5 DEF Keeps
<1> QED BY <1>6 DEF f

LEMMA CancelOwnKeeps ==
  ASSUME NEW e, EngineOK(e), NEW id
  PROVE  Keeps(e, CancelOwn(e, id))
<1> DEFINE f == CancelOwn(e, id)
           x == Own(id)
           L == e.orders[x].level
<1>1. /\ DOMAIN e = Fields /\ e.queues \in [Levels -> Seq(Entries)]
      /\ e.orders \in [DOMAIN e.orders -> Orders]
  BY EngineFields
<1>2. CASE x \notin DOMAIN e.orders
  <2>1. f = e
    BY <1>2 DEF CancelOwn
  <2> QED BY <2>1, KeepsSame
<1>3. CASE x \in DOMAIN e.orders
  <2>1. L \in Levels
    BY <1>1, <1>3 DEF Orders
  <2>2. f.queues = Dequeue(e.queues, L, x) /\ f.orders = Drop(e.orders, x)
    BY <1>1, <1>3 DEF CancelOwn, Fields
  <2> HIDE DEF f, x, L
  <2>3. \A y \in OwnOrders(e) \cap OwnOrders(f) : f.orders[y].level = e.orders[y].level
    BY <2>2 DEF OwnOrders, Drop
  <2> QED BY <1>1, <2>1, <2>2, <2>3, DequeueKeeps, ZenonT(30) DEF f
<1> QED BY <1>2, <1>3

(***************************************************************************)
(* Consuming a level takes from the front: what still stands in front of   *)
(* an own order did so before and still does, and an own order that gets a *)
(* fill has nobody left in front of it.                                    *)
(***************************************************************************)

Fifo(e, f) ==
  \A i \in Len(e.fills) + 1..Len(f.fills) :
     /\ Own(f.fills[i].id) \in OwnOrders(e)
     /\ \A M \in Levels : \A y \in DOMAIN f.orders :
           ~Before(e.queues[M], y, Own(f.fills[i].id))

Serves(e, f) ==
  /\ DOMAIN f.orders \subseteq DOMAIN e.orders
  /\ Keeps(e, f)
  /\ \A M \in Levels : \A x \in OwnOrders(f) : \A y \in DOMAIN f.orders :
        Before(e.queues[M], y, x) => Before(f.queues[M], y, x)
  /\ Fifo(e, f)

LEMMA ServesTransitive ==
  ASSUME NEW e, NEW f, NEW g, NEW ts, e.fills \in Seq(Fills), f.fills \in Seq(Fills),
         g.fills \in Seq(Fills), Consumed(e, f, ts), Consumed(f, g, ts),
         Serves(e, f), Serves(f, g)
  PROVE  Serves(e, g)
<1>1. /\ DOMAIN f.orders \subseteq DOMAIN e.orders /\ DOMAIN g.orders \subseteq DOMAIN f.orders
      /\ OwnOrders(f) \subseteq OwnOrders(e) /\ OwnOrders(g) \subseteq OwnOrders(f)
  BY DEF Serves, OwnOrders
<1>2. Keeps(e, g)
  BY <1>1, KeepsTransitive DEF Serves
<1>3. \A M \in Levels : \A x \in OwnOrders(g) : \A y \in DOMAIN g.orders :
        Before(e.queues[M], y, x) => Before(g.queues[M], y, x)
  BY <1>1 DEF Serves
<1>4. ASSUME NEW i \in Len(e.fills) + 1..Len(g.fills)
      PROVE  /\ Own(g.fills[i].id) \in OwnOrders(e)
             /\ \A M \in Levels : \A y \in DOMAIN g.orders :
                   ~Before(e.queues[M], y, Own(g.fills[i].id))
  <2>1. Len(e.fills) \in Nat /\ Len(f.fills) \in Nat /\ Len(g.fills) \in Nat
    OBVIOUS
  <2>2. CASE i <= Len(f.fills)
    <3>1. i \in 1..Len(f.fills) /\ i \in Len(e.fills) + 1..Len(f.fills)
      BY <2>1, <2>2
    <3>2. g.fills[i] = f.fills[i]
      BY <3>1 DEF Consumed, FillsGrow
    <3> QED BY <1>1, <3>1, <3>2 DEF Serves, Fifo
  <2>3. CASE ~(i <= Len(f.fills))
    <3>1. i \in Len(f.fills) + 1..Len(g.fills)
      BY <2>1, <2>3
    <3> DEFINE x == Own(g.fills[i].id)
    <3>2. x \in OwnOrders(f) /\ \A M \in Levels : \A y \in DOMAIN g.orders :
                                     ~Before(f.queues[M], y, x)
      BY <3>1 DEF Serves, Fifo
    <3> HIDE DEF x
    <3>3. \A M \in Levels : \A y \in DOMAIN g.orders : ~Before(e.queues[M], y, x)
      BY <1>1, <3>2 DEF Serves
    <3> QED BY <1>1, <3>2, <3>3 DEF x
  <2> QED BY <2>2, <2>3
<1> QED BY <1>1, <1>2, <1>3, <1>4 DEF Serves, Fifo

\* The front entry of level L goes; it is no order any more.
LEMMA PopFrontKeeps ==
  ASSUME NEW e, e.queues \in [Levels -> Seq(Entries)], NEW L \in Levels, e.queues[L] # <<>>,
         NEW f, f.queues = PopFront(e.queues, L), Head(e.queues[L]) \notin DOMAIN f.orders,
         \A x \in OwnOrders(e) \cap OwnOrders(f) : f.orders[x].level = e.orders[x].level
  PROVE  /\ Keeps(e, f)
         /\ \A M \in Levels : \A x \in OwnOrders(f) : \A y \in DOMAIN f.orders :
               Before(e.queues[M], y, x) => Before(f.queues[M], y, x)
<1>1. ASSUME NEW M \in Levels
      PROVE  /\ e.queues[M] \in Seq(Entries)
             /\ f.queues[M] = IF M = L THEN Tail(e.queues[M]) ELSE e.queues[M]
  BY <1>1 DEF PopFront
<1>2. ASSUME NEW M \in Levels, NEW x, NEW y
      PROVE  /\ Before(f.queues[M], y, x) => Before(e.queues[M], y, x)
             /\ y \in DOMAIN f.orders /\ Before(e.queues[M], y, x) => Before(f.queues[M], y, x)
  <2>1. CASE M = L
    BY <1>1, <2>1, BeforeTail
  <2>2. CASE M # L
    BY <1>1, <2>2
  <2> QED BY <2>1, <2>2
<1> QED BY <1>2 DEF Keeps

LEMMA FillFrontServes ==
  ASSUME NEW e, EngineInv(e), NEW L \in Levels, NEW ts \in Nat, e.queues[L] # <<>>,
         NEW x, x = Head(e.queues[L]), x \in DOMAIN e.orders,
         NEW n \in Nat \ {0}, n <= e.orders[x].size
  PROVE  Serves(e, FillFront(e, x, L, n, ts))
<1> DEFINE f == FillFront(e, x, L, n, ts)
           left == e.orders[x].size - n
           fill == [id |-> x[2], side |-> OrderSideOf(L[1]), price |-> L[2],
                    size |-> n, ts |-> ts]
<1>1. /\ DOMAIN e = Fields
      /\ e.queues \in [Levels -> Seq(Entries)]
      /\ e.orders \in [DOMAIN e.orders -> Orders] /\ DOMAIN e.orders \subseteq Entries
      /\ e.fills \in Seq(Fills)
  BY EngineFields DEF EngineInv
<1>2. left \in Nat /\ x \in Entries
  BY <1>1 DEF Orders
<1>3. /\ f.orders = SetSize(e.orders, x, left)
      /\ f.queues = IF left = 0 THEN PopFront(e.queues, L) ELSE e.queues
      /\ f.fills = IF IsOwn(x) THEN Append(e.fills, fill) ELSE e.fills
  BY <1>1 DEF FillFront, Fields
<1>4. fill.id = x[2]
  OBVIOUS
<1> HIDE DEF f, left, fill
<1>5. /\ DOMAIN f.orders \subseteq DOMAIN e.orders
      /\ left = 0 => x \notin DOMAIN f.orders
      /\ \A y \in DOMAIN f.orders : f.orders[y].level = e.orders[y].level
  <2> DEFINE os == SetSize(e.orders, x, left)
  <2>0. e.orders \in [DOMAIN e.orders -> Orders]
    BY <1>1
  <2>1. /\ os \in [DOMAIN os -> Orders]
        /\ DOMAIN os \subseteq DOMAIN e.orders
        /\ \A y \in DOMAIN e.orders : y \in DOMAIN os <=> y # x \/ left # 0
        /\ \A y \in DOMAIN os : os[y].level = e.orders[y].level
    BY <1>2, <2>0, SetSizeFacts
  <2>2. f.orders = os
    BY <1>3
  <2> HIDE DEF os
  <2> QED BY <2>1, <2>2
<1>6. \A y \in OwnOrders(e) \cap OwnOrders(f) : f.orders[y].level = e.orders[y].level
  BY <1>5 DEF OwnOrders
<1>7. /\ Keeps(e, f)
      /\ \A M \in Levels : \A z \in OwnOrders(f) : \A y \in DOMAIN f.orders :
            Before(e.queues[M], y, z) => Before(f.queues[M], y, z)
  <2>1. CASE left = 0
    <3>1. f.queues = PopFront(e.queues, L) /\ Head(e.queues[L]) \notin DOMAIN f.orders
      BY <1>3, <1>5, <2>1
    <3> QED BY <1>1, <1>6, <3>1, PopFrontKeeps
  <2>2. CASE left # 0
    <3>1. f.queues = e.queues
      BY <1>3, <2>2
    <3> QED BY <1>6, <3>1, KeepsSame
  <2> QED BY <2>1, <2>2
<1>8. ASSUME IsOwn(x), NEW M \in Levels, NEW y
      PROVE  x \in OwnOrders(e) /\ ~Before(e.queues[M], y, x)
  <2>1. x \in OwnOrders(e)
    BY <1>8 DEF OwnOrders
  <2>2. 1 \in 1..Len(e.queues[L]) /\ e.queues[L][1] = x
    <3>1. e.queues[L] \in Seq(Entries)
      BY <1>1
    <3> QED BY <3>1, TailFacts
  <2>3. e.orders[x].level = L /\ StandsOnce(e.queues[L], x)
    <3>1. e.orders[e.queues[L][1]].level = L
      BY <1>8, <2>2 DEF EngineInv, OwnQueued
    <3>2. StandsOnce(e.queues[e.orders[x].level], x)
      BY <2>1 DEF EngineInv, OwnQueued
    <3> QED BY <2>2, <3>1, <3>2
  <2>4. ASSUME NEW i \in 1..Len(e.queues[M]), NEW j \in 1..Len(e.queues[M]), i < j,
               e.queues[M][j] = x
        PROVE  FALSE
    <3>1. M = L
      BY <1>8, <2>3, <2>4 DEF EngineInv, OwnQueued
    <3>2. j = 1
      BY <2>2, <2>3, <2>4, <3>1 DEF StandsOnce
    <3> QED BY <2>4, <3>2
  <2> QED BY <2>1, <2>4 DEF Before
<1>9. ASSUME NEW i \in Len(e.fills) + 1..Len(f.fills)
      PROVE  Own(f.fills[i].id) = x /\ IsOwn(x)
  <2> DEFINE u == e.fills
             v == f.fills
  <2>1. u \in Seq(Fills) /\ Len(u) \in Nat
    BY <1>1
  <2>2. IsOwn(x)
    <3>1. SUFFICES ASSUME ~IsOwn(x) PROVE FALSE
      OBVIOUS
    <3>2. v = u
      BY <1>3, <3>1
    <3> QED BY <1>9, <2>1, <3>2
  <2>3. v = Append(u, fill)
    BY <1>3, <2>2
  <2>4. i \in Len(u) + 1..Len(v)
    BY <1>9
  <2> HIDE DEF u, v
  <2>5. i = Len(u) + 1 /\ v[i] = fill
    BY <2>1, <2>3, <2>4
  <2>6. Own(x[2]) = x
    <3>1. x[1] = "own"
      BY <2>2 DEF IsOwn
    <3>2. \E k \in Nat : x = <<"own", k>>
      BY <1>2, <3>1 DEF Entries
    <3> QED BY <3>2 DEF Own
  <2> QED BY <1>4, <2>2, <2>5, <2>6 DEF v
<1>10. Serves(e, f)
  BY <1>5, <1>7, <1>8, <1>9 DEF Serves, Fifo
<1> QED BY <1>10 DEF f

LEMMA ServesReflexive ==
  ASSUME NEW e, e.fills \in Seq(Fills)
  PROVE  Serves(e, e)
<1>1. \A i \in Len(e.fills) + 1..Len(e.fills) : FALSE
  OBVIOUS
<1> QED BY <1>1, KeepsSame DEF Serves, Fifo

LEMMA ConsumeStepServes ==
  ASSUME NEW s \in ConsumeStates, NEW L \in Levels, NEW ts \in Nat
  PROVE  Serves(s.e, ConsumeStep(s, L, ts).e)
<1> DEFINE e == s.e
           t == ConsumeStep(s, L, ts)
           x == Head(e.queues[L])
<1>1. EngineInv(e) /\ s.rem \in Nat
  BY DEF ConsumeStates
<1>2. /\ DOMAIN e = Fields /\ e.queues \in [Levels -> Seq(Entries)]
      /\ e.orders \in [DOMAIN e.orders -> Orders] /\ e.fills \in Seq(Fills)
  BY <1>1, EngineFields DEF EngineInv
<1>3. CASE s.rem = 0 \/ e.queues[L] = <<>>
  <2>1. t.e = e
    BY <1>3 DEF ConsumeStep
  <2> QED BY <1>2, <2>1, ServesReflexive
<1>4. CASE s.rem # 0 /\ e.queues[L] # <<>> /\ x \notin DOMAIN e.orders
  <2> DEFINE f == [e EXCEPT !.queues = PopFront(@, L)]
  <2>1. t.e = f
    BY <1>4 DEF ConsumeStep
  <2>2. f.queues = PopFront(e.queues, L) /\ f.orders = e.orders /\ f.fills = e.fills
    BY <1>2 DEF Fields
  <2> HIDE DEF f
  <2>3. /\ Keeps(e, f)
        /\ \A M \in Levels : \A z \in OwnOrders(f) : \A y \in DOMAIN f.orders :
              Before(e.queues[M], y, z) => Before(f.queues[M], y, z)
    BY <1>2, <1>4, <2>2, PopFrontKeeps
  <2>4. \A i \in Len(e.fills) + 1..Len(f.fills) : FALSE
    BY <1>2, <2>2
  <2> QED BY <2>1, <2>2, <2>3, <2>4 DEF Serves, Fifo
<1>5. CASE s.rem # 0 /\ e.queues[L] # <<>> /\ x \in DOMAIN e.orders
  <2> DEFINE n == Lesser(e.orders[x].size, s.rem)
  <2>1. t.e = FillFront(e, x, L, n, ts)
    BY <1>5 DEF ConsumeStep
  <2>2. e.orders[x].size \in Nat \ {0} /\ s.rem \in Nat \ {0}
    BY <1>1, <1>2, <1>5 DEF Orders
  <2>3. n \in Nat \ {0} /\ n <= e.orders[x].size
    BY <2>2, SMTT(30) DEF Lesser
  <2> HIDE DEF n
  <2> QED BY <1>1, <1>5, <2>1, <2>3, FillFrontServes
<1> QED BY <1>3, <1>4, <1>5

LEMMA ConsumeLevelServes ==
  ASSUME NEW e, EngineInv(e), NEW L \in Levels, NEW n \in Nat, NEW ts \in Nat
  PROVE  Serves(e, ConsumeLevel(e, L, n, ts))
<1> DEFINE s == [e |-> e, rem |-> n]
           G == {t \in ConsumeStates : Consumed(e, t.e, ts) /\ Serves(e, t.e)}
           k == Len(e.queues[L])
<1>1. \A t \in ConsumeStates : t.e.fills \in Seq(Fills)
  BY EngineFields DEF ConsumeStates, EngineInv
<1>2. s \in G
  <2>1. e \in Engines /\ e.fills \in Seq(Fills)
    BY EnginesFacts, EngineFields DEF EngineInv
  <2> QED BY <2>1, ConsumedReflexive, ServesReflexive DEF ConsumeStates
<1>3. ASSUME NEW t \in G PROVE ConsumeStep(t, L, ts) \in G
  <2> DEFINE u == ConsumeStep(t, L, ts)
  <2>1. u \in ConsumeStates /\ Consumed(t.e, u.e, ts) /\ Serves(t.e, u.e)
    BY ConsumeStepFacts, ConsumeStepServes
  <2>2. e.fills \in Seq(Fills)
    BY EngineFields DEF EngineInv
  <2> HIDE DEF u
  <2>3. Consumed(e, u.e, ts)
    BY <1>1, <2>1, <2>2, ConsumedTransitive
  <2>4. Serves(e, u.e)
    BY <1>1, <2>1, <2>2, ServesTransitive
  <2> QED BY <2>1, <2>3, <2>4 DEF u
<1>4. k \in Nat
  <2>1. e.queues[L] \in Seq(Entries)
    BY EngineFields DEF EngineInv
  <2> QED BY <2>1
<1> HIDE DEF G, s, k
<1>5. ConsumeLoop(s, L, ts)[k] \in G
  BY <1>2, <1>3, <1>4, ConsumeLoopInduction
<1> QED BY <1>5 DEF G, s, k, ConsumeLevel

(***************************************************************************)
(* The calls of the engine.                                                *)
(***************************************************************************)

LEMMA MatchStepServes ==
  ASSUME NEW m \in MatchStates, NEW id \in Nat, NEW side \in OrderSides
  PROVE  Serves(m.e, MatchStep(m, id, side).e)
<1> DEFINE e == m.e
           t == MatchStep(m, id, side)
           opposite == OppositeBookSide(side)
           p == Best(opposite, m.todo)
           L == <<opposite, p>>
           n == Lesser(m.rem, e.book[L])
           hit == ConsumeLevel(e, L, n, e.now)
           f == [hit EXCEPT !.position = @ + Signed(side, n)]
<1>1. EngineInv(e) /\ m.rem \in Nat /\ m.todo \in SUBSET Prices
  BY DEF MatchStates
<1>2. e.book \in [Levels -> Nat] /\ e.now \in Nat /\ e.fills \in Seq(Fills)
  BY <1>1, EngineFields DEF EngineInv
<1>3. CASE m.rem = 0 \/ m.todo = {}
  <2>1. t = m
    BY <1>3 DEF MatchStep
  <2> QED BY <1>2, <2>1, ServesReflexive
<1>4. CASE ~(m.rem = 0 \/ m.todo = {})
  <2>1. t.e = f
    BY <1>4 DEF MatchStep
  <2>2. L \in Levels
    BY <1>1, <1>4, BestFacts DEF Levels, BookSides, OppositeBookSide
  <2>3. n \in Nat
    BY <1>1, <1>2, <2>2, LesserFacts
  <2> HIDE DEF n, L, e
  <2>4. EngineInv(hit) /\ Serves(e, hit)
    BY <1>1, <1>2, <2>2, <2>3, ConsumeLevelFacts, ConsumeLevelServes
  <2> HIDE DEF hit
  <2>5. DOMAIN hit = Fields
    BY <2>4, EngineFields DEF EngineInv
  <2>6. f.orders = hit.orders /\ f.queues = hit.queues /\ f.fills = hit.fills
    BY <2>5 DEF Fields
  <2> HIDE DEF f
  <2>7. Serves(e, f)
    BY <2>4, <2>6 DEF Serves, Keeps, Fifo, OwnOrders
  <2> QED BY <2>1, <2>7 DEF e
<1> QED BY <1>3, <1>4

LEMMA MatchActiveServes ==
  ASSUME NEW e, EngineInv(e), NEW id \in Nat, NEW side \in OrderSides, NEW n \in Nat,
         NEW limit
  PROVE  /\ MatchActive(e, id, side, n, limit) \in MatchStates
         /\ Consumed(e, MatchActive(e, id, side, n, limit).e, e.now)
         /\ Serves(e, MatchActive(e, id, side, n, limit).e)
<1> DEFINE ts == e.now
           todo == Matchable(e, OppositeBookSide(side), limit)
           m == [e |-> e, rem |-> n, todo |-> todo, fills |-> <<>>]
           k == Cardinality(todo)
           G == {t \in MatchStates : Consumed(e, t.e, ts) /\ Serves(e, t.e)}
<1>1. todo \in SUBSET Prices /\ k \in Nat
  <2>1. todo \in SUBSET Prices
    BY DEF Matchable
  <2> HIDE DEF todo
  <2> QED BY <2>1, PricesAssumption, FS_Subset, FS_CardinalityType
<1>2. MatchActive(e, id, side, n, limit) = MatchLoop(m, id, side)[k]
  BY DEF MatchActive
<1> HIDE DEF todo, k
<1>3. \A t \in MatchStates : t.e.fills \in Seq(Fills)
  BY EngineFields DEF MatchStates, EngineInv
<1>4. e.fills \in Seq(Fills)
  BY EngineFields DEF EngineInv
<1>5. m \in G
  <2>1. e \in Engines
    BY EnginesFacts DEF EngineInv
  <2>2. m \in MatchStates
    BY <1>1, <2>1 DEF MatchStates
  <2> QED BY <1>4, <2>2, ConsumedReflexive, ServesReflexive
<1>6. ASSUME NEW t \in G PROVE MatchStep(t, id, side) \in G
  <2> DEFINE u == MatchStep(t, id, side)
  <2>1. t \in MatchStates /\ Consumed(e, t.e, ts) /\ Serves(e, t.e) /\ t.e.now = ts
    BY DEF Consumed
  <2>2. u \in MatchStates /\ Consumed(t.e, u.e, ts) /\ Serves(t.e, u.e)
    BY <2>1, MatchStepFacts, MatchStepServes
  <2> HIDE DEF u, ts
  <2>3. Consumed(e, u.e, ts)
    BY <1>3, <1>4, <2>1, <2>2, ConsumedTransitive
  <2>4. Serves(e, u.e)
    BY <1>3, <1>4, <2>1, <2>2, ServesTransitive
  <2> QED BY <2>2, <2>3, <2>4 DEF u
<1> HIDE DEF G, m
<1>7. MatchLoop(m, id, side)[k] \in G
  BY <1>1, <1>5, <1>6, MatchLoopInduction
<1> QED BY <1>2, <1>7 DEF G

\* An own entry of a queue is an order of the engine, a new order's entry is not.
LEMMA FreshFacts ==
  ASSUME NEW e, EngineInv(e)
  PROVE  /\ Own(e.nextId) \notin DOMAIN e.orders
         /\ \A M \in Levels : \A x : ~Before(e.queues[M], Own(e.nextId), x)
<1>1. e.nextId \in Nat
  BY EngineFields DEF EngineInv
<1>2. IsOwn(Own(e.nextId)) /\ Own(e.nextId)[2] = e.nextId
  BY <1>1, EntryFacts
<1>3. Own(e.nextId) \notin DOMAIN e.orders
  <2>1. SUFFICES ASSUME Own(e.nextId) \in DOMAIN e.orders PROVE FALSE
    OBVIOUS
  <2>2. Own(e.nextId) \in OwnOrders(e)
    BY <1>2, <2>1 DEF OwnOrders
  <2>3. e.nextId \in FirstOwnId..(e.nextId - 1)
    BY <1>2, <2>2 DEF EngineInv, OwnIdsGivenOut
  <2> QED BY <1>1, <2>3, FirstOwnIdAssumption
<1>4. ASSUME NEW M \in Levels, NEW x, Before(e.queues[M], Own(e.nextId), x)
      PROVE  FALSE
  <2>1. PICK i \in 1..Len(e.queues[M]) : e.queues[M][i] = Own(e.nextId)
    BY <1>4 DEF Before
  <2>2. Own(e.nextId) \in DOMAIN e.orders
    BY <1>2, <2>1 DEF EngineInv, OwnQueued
  <2> QED BY <1>3, <2>2
<1> QED BY <1>3, <1>4

LEMMA PlaceServes ==
  ASSUME NEW e, EngineInv(e), NEW side \in OrderSides, NEW n \in Nat \ {0},
         NEW limit, NEW tif, tif = "GTC" => limit \in Prices
  PROVE  /\ Keeps(e, Place(e, side, n, limit, tif).e)
         /\ Fifo(e, Place(e, side, n, limit, tif).e)
<1> DEFINE id == e.nextId
           given == [e EXCEPT !.nextId = @ + 1]
           m == MatchActive(given, id, side, n, limit)
           L == <<BookSideOf(side), limit>>
           f == Place(e, side, n, limit, tif).e
<1>1. f = IF m.rem > 0 /\ tif = "GTC" THEN Rest(m.e, Own(id), L, m.rem) ELSE m.e
  BY DEF Place
<1>2. /\ EngineInv(given) /\ given.queues = e.queues /\ given.orders = e.orders
      /\ given.fills = e.fills /\ id \in Nat
  BY NextIdFacts, EngineFields DEF EngineInv
<1> HIDE DEF given, f
<1>3. m \in MatchStates /\ Serves(given, m.e)
  BY <1>2, MatchActiveServes
<1> HIDE DEF m
<1>4. EngineInv(m.e) /\ m.rem \in Nat
  BY <1>3 DEF MatchStates
<1>5. Keeps(e, m.e) /\ Fifo(e, m.e) /\ DOMAIN m.e.orders \subseteq DOMAIN e.orders
  BY <1>2, <1>3 DEF Serves, Keeps, Fifo, OwnOrders
<1>6. CASE m.rem > 0 /\ tif = "GTC"
  <2> DEFINE z == Own(id)
  <2>1. L \in Levels
    BY <1>6 DEF Levels, BookSides, BookSideOf
  <2>2. /\ z \in Entries /\ z \notin DOMAIN e.orders
        /\ \A M \in Levels : \A x : ~Before(e.queues[M], z, x)
    BY <1>2, EntryFacts, FreshFacts
  <2>3. f = Rest(m.e, z, L, m.rem)
    BY <1>1, <1>6
  <2> HIDE DEF z, L
  <2>4. DOMAIN m.e = Fields /\ EngineOK(m.e)
    BY <1>4, EngineFields DEF EngineInv
  <2>5. f.fills = m.e.fills /\ DOMAIN f.orders = DOMAIN m.e.orders \cup {z}
    BY <2>3, <2>4 DEF Rest, Fields, Put
  <2>6. Keeps(m.e, f)
    BY <1>5, <2>1, <2>2, <2>3, <2>4, RestKeeps
  <2>7. OwnOrders(e) \cap OwnOrders(f) \subseteq OwnOrders(m.e)
    BY <2>2, <2>5 DEF OwnOrders
  <2>8. Keeps(e, f)
    BY <1>5, <2>6, <2>7, KeepsTransitive
  <2>9. Fifo(e, f)
    BY <1>5, <2>2, <2>5 DEF Fifo
  <2> QED BY <2>8, <2>9 DEF f
<1>7. CASE ~(m.rem > 0 /\ tif = "GTC")
  BY <1>1, <1>5, <1>7 DEF f
<1> QED BY <1>6, <1>7

LEMMA CancelPublicKeeps ==
  ASSUME NEW e, EngineOK(e), NEW ev \in MBOEvents
  PROVE  Keeps(e, CancelPublic(e, ev)) /\ CancelPublic(e, ev).fills = e.fills
<1> DEFINE x == Public(ev.id)
           f == CancelPublic(e, ev)
<1>1. DOMAIN e = Fields /\ e.orders \in [DOMAIN e.orders -> Orders]
  BY EngineFields
<1>2. CASE x \notin DOMAIN e.orders
  <2>1. f.queues = e.queues /\ f.orders = e.orders /\ f.fills = e.fills
    BY <1>1, <1>2 DEF CancelPublic, Fields
  <2> QED BY <2>1, KeepsSame
<1>3. CASE x \in DOMAIN e.orders
  <2> DEFINE n == e.orders[x].size - Lesser(e.orders[x].size, ev.size)
  <2>1. f = Resize(e, x, n)
    BY <1>3 DEF CancelPublic
  <2>2. n \in Nat
    <3>1. e.orders[x].size \in Nat /\ ev.size \in Nat
      BY <1>1, <1>3 DEF Orders, MBOEvents
    <3> QED BY <3>1 DEF Lesser
  <2> HIDE DEF n
  <2>3. f.fills = e.fills
    BY <1>1, <2>1 DEF Resize, Fields
  <2> QED BY <1>3, <2>1, <2>2, <2>3, ResizeKeeps
<1> QED BY <1>2, <1>3

LEMMA ModifyPublicKeeps ==
  ASSUME NEW e, EngineInv(e), NEW ev \in MBOEvents
  PROVE  Keeps(e, ModifyPublic(e, ev)) /\ ModifyPublic(e, ev).fills = e.fills
<1> DEFINE x == Public(ev.id)
           L == ev.level
           n == ev.size
           f == ModifyPublic(e, ev)
<1>1. DOMAIN e = Fields /\ EngineOK(e)
  BY EngineFields DEF EngineInv
<1>2. x \in Entries /\ ~IsOwn(x) /\ L \in Levels /\ n \in Nat \ {0}
  BY EntryFacts DEF MBOEvents
<1>3. CASE x \notin DOMAIN e.orders
  <2>1. f = Rest(e, x, L, n)
    BY <1>3 DEF ModifyPublic
  <2>2. f.fills = e.fills
    BY <1>1, <2>1 DEF Rest, Fields
  <2> QED BY <1>1, <1>2, <2>1, <2>2, RestKeeps
<1>4. CASE x \in DOMAIN e.orders /\ e.orders[x].level = L
  <2>1. f = Resize(e, x, n)
    BY <1>4 DEF ModifyPublic
  <2>2. f.fills = e.fills
    BY <1>1, <2>1 DEF Resize, Fields
  <2> QED BY <1>1, <1>2, <1>4, <2>1, <2>2, ResizeKeeps
<1>5. CASE x \in DOMAIN e.orders /\ e.orders[x].level # L
  <2>1. f = MovePublic(e, x, L, n)
    BY <1>5 DEF ModifyPublic
  <2>2. f.fills = e.fills
    BY <1>1, <2>1 DEF MovePublic, Rest, Fields
  <2> QED BY <1>2, <1>5, <2>1, <2>2, MovePublicKeeps
<1> QED BY <1>3, <1>4, <1>5

LEMMA ApplyEventServes ==
  ASSUME NEW e, EngineInv(e), NEW ev \in MBOEvents
  PROVE  Keeps(e, ApplyEvent(e, ev)) /\ Fifo(e, ApplyEvent(e, ev))
<1> DEFINE f == ApplyEvent(e, ev)
           now == [e EXCEPT !.now = ev.ts]
<1>1. ev.ts \in Nat /\ ev.level \in Levels /\ ev.size \in Nat \ {0}
      /\ ev.action \in {"add", "cancel", "modify", "trade"}
      /\ Public(ev.id) \in Entries /\ ~IsOwn(Public(ev.id))
  BY EntryFacts DEF MBOEvents
<1>2. now = AdvanceTime(e, ev.ts)
  BY DEF AdvanceTime
<1>3. /\ EngineInv(now) /\ EngineOK(now) /\ DOMAIN now = Fields
      /\ now.fills = e.fills
  BY <1>1, <1>2, AdvanceTimeFacts, EngineFields DEF EngineInv
<1>4. now.queues = e.queues /\ now.orders = e.orders
  BY EngineFields DEF EngineInv, Fields
<1>5. /\ ev.action = "add" => f = Rest(now, Public(ev.id), ev.level, ev.size)
      /\ ev.action = "cancel" => f = CancelPublic(now, ev)
      /\ ev.action = "modify" => f = ModifyPublic(now, ev)
      /\ ev.action = "trade" => f = ConsumeLevel(now, ev.level, ev.size, ev.ts)
  BY DEF ApplyEvent
<1> HIDE DEF now, f
<1>6. Keeps(now, f) /\ Fifo(now, f)
  <2>1. ASSUME Keeps(now, f), f.fills = now.fills
        PROVE  Keeps(now, f) /\ Fifo(now, f)
    <3>1. now.fills \in Seq(Fills)
      BY <1>3, EngineFields
    <3>2. \A i \in Len(now.fills) + 1..Len(f.fills) : FALSE
      BY <2>1, <3>1
    <3> QED BY <2>1, <3>2 DEF Fifo
  <2>2. CASE ev.action = "add"
    <3>1. f.fills = now.fills
      BY <1>3, <1>5, <2>2 DEF Rest, Fields
    <3> QED BY <1>1, <1>3, <1>5, <2>1, <2>2, <3>1, RestKeeps
  <2>3. CASE ev.action = "cancel"
    BY <1>3, <1>5, <2>1, <2>3, CancelPublicKeeps
  <2>4. CASE ev.action = "modify"
    BY <1>3, <1>5, <2>1, <2>4, ModifyPublicKeeps
  <2>5. CASE ev.action = "trade"
    <3>1. Serves(now, f)
      BY <1>1, <1>3, <1>5, <2>5, ConsumeLevelServes
    <3> QED BY <3>1 DEF Serves
  <2> QED BY <1>1, <2>2, <2>3, <2>4, <2>5
<1>7. Keeps(e, f) /\ Fifo(e, f)
  BY <1>3, <1>4, <1>6 DEF Keeps, Fifo, OwnOrders
<1> QED BY <1>7 DEF f

(***************************************************************************)
(* The steps of the engine.                                                *)
(***************************************************************************)

LEMMA NextServes ==
  ASSUME IInv, [Next]_vars
  PROVE  Keeps(engine, engine') /\ Fifo(engine, engine')
<1>1. EngineInv(engine) /\ engine.now \in Nat /\ engine.fills \in Seq(Fills)
  BY EngineFields DEF IInv, EngineInv
<1>2. ASSUME NEW f, Keeps(engine, f), Len(f.fills) <= Len(engine.fills), f.fills \in Seq(Fills)
      PROVE  Keeps(engine, f) /\ Fifo(engine, f)
  <2>1. Len(f.fills) \in Nat /\ Len(engine.fills) \in Nat
    BY <1>1, <1>2
  <2>2. \A i \in Len(engine.fills) + 1..Len(f.fills) : FALSE
    BY <1>2, <2>1
  <2> QED BY <1>2, <2>2 DEF Fifo
<1>3. ASSUME NEW f, f.queues = engine.queues, f.orders = engine.orders,
             Len(f.fills) <= Len(engine.fills), f.fills \in Seq(Fills)
      PROVE  Keeps(engine, f) /\ Fifo(engine, f)
  BY <1>2, <1>3, KeepsSame
<1>4. ASSUME NEW ev \in Events, PublicEvent(ev)
      PROVE  Keeps(engine, engine') /\ Fifo(engine, engine')
  <2> DEFINE stamped == Stamp(ev, engine.now + 1)
  <2>1. stamped \in MBOEvents
    BY <1>1, StampFacts
  <2>2. engine' = ApplyEvent(engine, stamped)
    BY <1>4 DEF PublicEvent
  <2> HIDE DEF stamped
  <2> QED BY <1>1, <2>1, <2>2, ApplyEventServes
<1>5. ASSUME NEW side \in OrderSides, NEW n \in Sizes, NEW limit, NEW tif,
             tif = "GTC" => limit \in Prices, PlaceOrder(side, n, limit, tif)
      PROVE  Keeps(engine, engine') /\ Fifo(engine, engine')
  <2>1. n \in Nat \ {0}
    BY SizeAssumption DEF Sizes
  <2>2. engine' = Place(engine, side, n, limit, tif).e
    BY <1>5 DEF PlaceOrder
  <2> QED BY <1>1, <1>5, <2>1, <2>2, PlaceServes
<1>6. ASSUME NEW id \in DOMAIN placed, Cancel(id)
      PROVE  Keeps(engine, engine') /\ Fifo(engine, engine')
  <2>1. id \in Nat
    BY FirstOwnIdAssumption, EngineFields DEF IInv, IdsPlaced, EngineInv
  <2>2. engine' = CancelOwn(engine, id)
    BY <1>6 DEF Cancel
  <2>3. engine'.fills = engine.fills
    BY <1>1, <2>1, <2>2, CancelOwnFacts
  <2>4. Keeps(engine, engine')
    BY <1>1, <2>2, CancelOwnKeeps DEF EngineInv
  <2>5. Len(engine'.fills) <= Len(engine.fills)
    BY <1>1, <2>3
  <2> QED BY <1>1, <1>2, <2>3, <2>4, <2>5
<1>7. ASSUME NEW ts \in 0..MaxNow, Tick(ts)
      PROVE  Keeps(engine, engine') /\ Fifo(engine, engine')
  <2>1. engine' = [engine EXCEPT !.now = ts]
    BY <1>7 DEF Tick, AdvanceTime
  <2>2. /\ engine'.queues = engine.queues /\ engine'.orders = engine.orders
        /\ engine'.fills = engine.fills
    BY <1>1, <2>1, EngineFields DEF EngineInv, Fields
  <2>3. Len(engine'.fills) <= Len(engine.fills)
    BY <1>1, <2>2
  <2> QED BY <1>1, <1>3, <2>2, <2>3
<1>8. CASE Pop
  <2>1. engine' = [engine EXCEPT !.fills = <<>>]
    BY <1>8 DEF Pop, PopPassiveFills
  <2>2. /\ engine'.queues = engine.queues /\ engine'.orders = engine.orders
        /\ engine'.fills = <<>>
    BY <1>1, <2>1, EngineFields DEF EngineInv, Fields
  <2>3. Len(engine'.fills) <= Len(engine.fills) /\ engine'.fills \in Seq(Fills)
    BY <1>1, <2>2
  <2> QED BY <1>3, <2>2, <2>3
<1>9. CASE UNCHANGED vars
  <2>1. engine' = engine
    BY <1>9 DEF vars
  <2>2. Len(engine'.fills) <= Len(engine.fills)
    BY <1>1, <2>1
  <2> QED BY <1>1, <1>3, <2>1, <2>2
<1>10. ASSUME NEW side \in OrderSides, NEW n \in Sizes, NEW price \in Prices,
              NEW tif \in Tifs, PlaceLimit(side, n, price, tif)
       PROVE  Keeps(engine, engine') /\ Fifo(engine, engine')
  BY <1>5, <1>10 DEF PlaceLimit
<1>11. ASSUME NEW side \in OrderSides, NEW n \in Sizes, PlaceMarket(side, n)
       PROVE  Keeps(engine, engine') /\ Fifo(engine, engine')
  BY <1>5, <1>11 DEF PlaceMarket
<1> QED BY <1>4, <1>6, <1>7, <1>8, <1>9, <1>10, <1>11 DEF Next, StrategyNext

(* Nobody jumps the queue: while a strategy order rests, the set of entries  *)
(* in front of it only shrinks, whatever the feed sends and the strategy      *)
(* calls (matching_engine.py, _queues: every order joins at the back, and     *)
(* _remove_from_queue keeps the order of the others).                        *)
THEOREM NobodyJumpsTheQueue ==
  Spec => NoQueueJumping
<1> DEFINE Shrinks == \A x \in OwnOrders(engine) \cap OwnOrders(engine') :
                         AheadOf(engine', x) \subseteq AheadOf(engine, x)
<1>1. IInv /\ [Next]_vars => Shrinks
  <2> SUFFICES ASSUME IInv, [Next]_vars PROVE Shrinks
    OBVIOUS
  <2>1. EngineInv(engine) /\ EngineInv(engine')
    BY NextIInv DEF IInv
  <2> QED BY <2>1, NextServes, KeepsAhead
<1> HIDE DEF Shrinks
<1>2. Spec => [][Shrinks]_vars
  BY <1>1, InitIInv, NextIInv, PTL DEF Spec
<1> QED BY <1>2 DEF Shrinks, NoQueueJumping

(* First in, first out: a step that fills a strategy order passively leaves  *)
(* no order in front of it (matching_engine.py, _consume_level).             *)
THEOREM FillsAreFirstInFirstOut ==
  Spec => PassiveFillsAreFifo
<1> DEFINE Served ==
      \A i \in (Len(engine.fills) + 1)..Len(engine'.fills) :
         LET x == Own(engine'.fills[i].id)
         IN  \A y \in AheadOf(engine, x) : y \notin DOMAIN engine'.orders
<1>1. IInv /\ [Next]_vars => Served
  <2> SUFFICES ASSUME IInv, [Next]_vars,
                      NEW i \in (Len(engine.fills) + 1)..Len(engine'.fills),
                      NEW y \in AheadOf(engine, Own(engine'.fills[i].id))
               PROVE  y \notin DOMAIN engine'.orders
    OBVIOUS
  <2> DEFINE x == Own(engine'.fills[i].id)
             L == engine.orders[x].level
  <2>1. EngineInv(engine)
    BY DEF IInv
  <2>2. x \in OwnOrders(engine)
        /\ \A M \in Levels : \A z \in DOMAIN engine'.orders : ~Before(engine.queues[M], z, x)
    BY NextServes DEF Fifo
  <2>3. y \in AheadOf(engine, x)
    OBVIOUS
  <2> HIDE DEF x
  <2>4. L \in Levels
    BY <2>1, <2>2, EngineFields DEF EngineInv, OwnOrders, Orders
  <2>5. Before(engine.queues[L], y, x)
    BY <2>1, <2>2, <2>3, AheadFacts
  <2> QED BY <2>2, <2>4, <2>5
<1> HIDE DEF Served
<1>2. Spec => [][Served]_vars
  BY <1>1, InitIInv, NextIInv, PTL DEF Spec
<1> QED BY <1>2 DEF Served, PassiveFillsAreFifo

==============================================================================
