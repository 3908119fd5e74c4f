----------------------------- MODULE DatasetFeed -----------------------------
(***************************************************************************)
(* A venue's history on its way into the engine, as the rows of a CSV or   *)
(* Parquet file (connectors/_canonical.py) or as Databento MBO records:    *)
(* the publisher renders what happens at the venue as records in groups,   *)
(* DatabentoMboSource (connectors/databento.py) normalizes each group into *)
(* public events, and the engine applies them one by one.                  *)
(*                                                                         *)
(* The publisher is external, modelled from what the connector and its     *)
(* tests rely on: a trade is a T record of the full quantity followed by   *)
(* an F and a paired C record for each visible order it filled, some data  *)
(* sets without an aggressor side on T and some without T, and a group     *)
(* does not hold a C of an order's owner together with an F of that order. *)
(***************************************************************************)
EXTENDS MatchingEngine, SequencesExt

CONSTANTS MaxGroup,    \* bound on the events whose records are in one group
          MaxHidden,   \* largest quantity a trade takes that no order showed
          MaxRecords   \* bound on what is published as records (MaxNow: as rows)

ASSUME GroupAssumption == {MaxGroup, MaxHidden, MaxRecords} \subseteq Nat

VARIABLES style,       \* what this data set holds, and how it reports trades
          clock,       \* number of things published so far, the publisher's time
          group,       \* the group that is not complete yet: records per event
          sawVisible,  \* saw_visible_book_event
          raised,      \* the source has raised ValueError
          pending,     \* normalized events the engine has not applied yet
          engineLob,   \* history: EngineLob, the engine's book order by order
          applied      \* history: ids whose add the engine has applied

datasetVars == <<vars, style, clock, group, sawVisible, raised, pending, engineLob, applied>>

RecordStyles == {"sided", "unsided", "fills_only"}
Styles == RecordStyles \cup {"rows"}

----------------------------------------------------------------------------
(* The sources.                                                            *)

\* _event_to_row, and row_to_event of a valid row.
EventToRow(ev, ts) == [ts_ns |-> ts, action |-> ev.action, side |-> ev.level[1],
                       price |-> ev.level[2], size |-> ev.size, order_id |-> ev.id]
RowToEvent(row) == [action |-> row.action, level |-> <<row.side, row.price>>,
                    size |-> row.size, id |-> row.order_id, ts |-> row.ts_ns]

Rec(action, side, price, size, id) ==
    [action |-> action, side |-> side, price |-> price, size |-> size, id |-> id]
NoId == 0

BookSide(side) == IF side = "A" THEN "ask" ELSE "bid"
DbnSide(bookSide) == IF bookSide = "ask" THEN "A" ELSE "B"
Inverted(side) == IF side = "A" THEN "B" ELSE "A"

SidedFills(records) ==
    {i \in DOMAIN records : records[i].action = "F" /\ records[i].side \in {"A", "B"}}

\* Mutant of PairedFillOrderIds: cancels paired with fills are kept.
NoFillOrderIds(records) == {}

PairedFillOrderIds(records) == {records[i].id : i \in SidedFills(records)}
SidedFillSides(records) == {records[i].side : i \in SidedFills(records)}

\* _trade_book_side as a set: empty where the code returns None.
TradeBookSide(side, fillSides) ==
    CASE side = "A" -> {"bid"}
      [] side = "B" -> {"ask"}
      [] OTHER      -> IF Cardinality(fillSides) = 1 THEN {BookSide(s) : s \in fillSides}
                                                     ELSE {}

HasUsableTrade(records) ==
    \E i \in DOMAIN records : /\ records[i].action = "T"
                              /\ TradeBookSide(records[i].side, SidedFillSides(records)) # {}

PublicActionOf == [A |-> "add", C |-> "cancel", M |-> "modify"]
FromRecord(record, action, side, ts) ==
    [action |-> action, level |-> <<side, record.price>>, size |-> record.size,
     id |-> record.id, ts |-> ts]

\* _normalize_record: the event of a record of the group, if it has one.  N and R
\* have none; T has none without a usable side; F stands in for T only when the
\* group has no usable T; a C paired with an F of the group says nothing new.
NormalizeRecord(record, records, ts) ==
    LET fillSides == SidedFillSides(records)
    IN  CASE record.action = "T" -> {FromRecord(record, "trade", side, ts) :
                                        side \in TradeBookSide(record.side, fillSides)}
          [] record.action = "F" /\ record.side \in {"A", "B"} /\ ~HasUsableTrade(records) ->
                {FromRecord(record, "trade", BookSide(record.side), ts)}
          [] \/ record.action \in {"A", "M"}
             \/ record.action = "C" /\ record.id \notin PairedFillOrderIds(records) ->
                {FromRecord(record, PublicActionOf[record.action], BookSide(record.side), ts)}
          [] OTHER -> {}

\* A record that sets saw_visible_book_event.
Visible(record, records) ==
    \/ record.action \in {"A", "M"}
    \/ record.action = "C" /\ record.id \notin PairedFillOrderIds(records)

\* A clear behind the first visible event, of this group or an earlier one.
MidstreamClear(records, saw) ==
    \E i \in DOMAIN records :
        /\ records[i].action = "R"
        /\ saw \/ \E j \in 1..(i - 1) : Visible(records[j], records)

Normalized(records, ts) ==
    FlattenSeq([i \in DOMAIN records |-> SetToSeq(NormalizeRecord(records[i], records, ts))])

----------------------------------------------------------------------------
(* The publisher.                                                          *)

\* What a trade of n at level L takes from the i-th order of its queue.
Taken(q, i, n) == Max({0, Min({q[i].size, n - (Venue!Prefix(q, i) - q[i].size)})})

\* The records of such a trade, in this data set's style.
TradeRecords(L, n, hidden) ==
    LET q == lob[L]
        side == DbnSide(L[1])
        hit == {i \in DOMAIN q : Taken(q, i, n) > 0}
        aggressor == IF style = "sided" THEN Inverted(side) ELSE "N"
    IN  (IF style = "fills_only" THEN <<>>
         ELSE <<Rec("T", aggressor, L[2], n + hidden, NoId)>>)
        \o FlattenSeq([i \in 1..Cardinality(hit) |->
                <<Rec("F", side, L[2], Taken(q, i, n), q[i].id),
                  Rec("C", side, L[2], Taken(q, i, n), q[i].id)>>])

EventRecords(ev, hidden) ==
    LET Is(action) == <<Rec(action, DbnSide(ev.level[1]), ev.level[2], ev.size, ev.id)>>
    IN  CASE ev.action = "add"    -> Is("A")
          [] ev.action = "cancel" -> Is("C")
          [] ev.action = "modify" -> Is("M")
          [] ev.action = "trade"  -> TradeRecords(ev.level, ev.size, hidden)

Mentions(action, id) ==
    \E k \in DOMAIN group : \E i \in DOMAIN group[k] :
        group[k][i].action = action /\ group[k][i].id = id

\* A trade may take hidden quantity once it has emptied the level.
Hidden(ev) ==
    IF ev.action = "trade" /\ ev.size = Venue!Prefix(lob[ev.level], Len(lob[ev.level]))
    THEN 0..MaxHidden ELSE {0}

\* The source has taken what is complete, and the group may grow.
MayPublish ==
    /\ style \in RecordStyles
    /\ pending = <<>> /\ ~raised
    /\ Len(group) < MaxGroup /\ clock < MaxRecords

\* The records join the group.
Published(records) ==
    /\ clock' = clock + 1
    /\ group' = Append(group, records)
    /\ UNCHANGED <<engine, active, delivered, popped, placed, style, sawVisible, raised,
                   pending, engineLob, applied>>

\* Something happens at the venue.  No order is cancelled by its owner and filled
\* in one group.
PublishEvent(ev) ==
    /\ Venue!Report(ev)
    /\ ev.action = "cancel" => ~Mentions("F", ev.id)
    /\ ev.action = "trade" =>
          \A i \in DOMAIN lob[ev.level] :
             Mentions("C", lob[ev.level][i].id) => Mentions("F", lob[ev.level][i].id)
    /\ \E hidden \in Hidden(ev) : Published(EventRecords(ev, hidden))

\* A record without an action, and a clear of a book that is empty.
PublishNone == Published(<<Rec("N", "N", 0, 0, NoId)>>) /\ UNCHANGED feedVars
PublishClear ==
    /\ \A L \in Levels : lob[L] = <<>>
    /\ Published(<<Rec("R", "N", 0, 0, NoId)>>)
    /\ UNCHANGED feedVars

\* Something happens at the venue, and a file of canonical rows tells it.
PublishRow(ev) ==
    /\ style = "rows" /\ pending = <<>> /\ clock < MaxNow
    /\ Venue!Report(ev)
    /\ clock' = clock + 1
    /\ pending' = <<RowToEvent(EventToRow(ev, clock'))>>
    /\ UNCHANGED <<engine, active, delivered, popped, placed, style, group, sawVisible,
                   raised, engineLob, applied>>

----------------------------------------------------------------------------
(* The source and the engine.                                              *)

\* F_LAST, or the end of the records: the source normalizes the group.
EndGroup ==
    /\ group # <<>> /\ ~raised
    /\ \E records \in {FlattenSeq(group)} :
          IF MidstreamClear(records, sawVisible)
          THEN raised' = TRUE /\ UNCHANGED <<group, pending, sawVisible>>
          ELSE /\ group' = <<>>
               /\ pending' = Normalized(records, clock)
               /\ sawVisible' = (sawVisible \/ \E i \in DOMAIN records :
                                                   Visible(records[i], records))
               /\ UNCHANGED raised
    /\ UNCHANGED <<vars, style, clock, engineLob, applied>>

\* The engine applies the next event.
ReplayEvent ==
    LET f == ApplyEvent(engine, Head(pending))
    IN  /\ pending # <<>>
        /\ engine' = f
        /\ delivered' = delivered \o NewFills(engine, f)
        /\ pending' = Tail(pending)
        /\ engineLob' = EngineLob'
        /\ applied' = applied \cup (IF Head(pending).action = "add" THEN {Head(pending).id}
                                                                    ELSE {})
        /\ UNCHANGED <<lob, used, active, popped, placed, style, clock, group, sawVisible,
                       raised>>

FeedInit ==
    /\ Init
    /\ style \in Styles
    /\ clock = 0
    /\ group = <<>>
    /\ sawVisible = FALSE
    /\ raised = FALSE
    /\ pending = <<>>
    /\ engineLob = EngineLob
    /\ applied = {}

FeedNext ==
    \/ /\ MayPublish
       /\ \/ \E ev \in Events : PublishEvent(ev)
          \/ PublishNone
          \/ PublishClear
    \/ \E ev \in Events : PublishRow(ev)
    \/ EndGroup
    \/ ReplayEvent

FeedSpec == FeedInit /\ [][FeedNext]_datasetVars

----------------------------------------------------------------------------

\* After every row or group the engine's book is the venue's, order by order,
\* whether records report the aggressor, leave it out or tell fills only, and
\* whether one group holds one event or several: nothing is consumed twice by the
\* F, C and T records of one execution, and nothing is missed ("so the simulator
\* does not consume the same visible quantity twice", docs/connectors.md).
BookFollowsRecords ==
    (group = <<>> /\ pending = <<>> /\ ~raised) => engineLob = lob

Replayed == INSTANCE HistoricalVenue WITH lob <- engineLob, used <- applied

\* With no strategy order in it, the engine goes through exactly the steps of a
\* venue in price-time priority, one for each event it applies.
ImplementsVenue == Replayed!Spec

==============================================================================
