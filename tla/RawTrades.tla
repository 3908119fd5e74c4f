------------------------------- MODULE RawTrades -------------------------------
(***************************************************************************)
(* Recording of individual Binance trades by polling a REST endpoint that  *)
(* shows the newest trades (connectors/binance/raw_trades.py) with a       *)
(* cursor that drops the overlap of two answers and notices missing ids    *)
(* (connectors/binance/_recent_trades.py).                                 *)
(*                                                                         *)
(* One symbol; each has a task, a cursor and a connection id of its own.   *)
(* The tasks share the sink, but a write never suspends: the lock is held  *)
(* over no await, so it is always free, and what happens between an answer *)
(* and the next sleep is one step, which a cancellation can not divide.    *)
(* A write may raise, and what was selected stays selected.                *)
(*                                                                         *)
(* The log keeps the gap and trade rows.  Poll and error rows tell of no   *)
(* trade and would make the log grow for ever; that their writes may raise *)
(* is kept: the poll row is written before the others.                     *)
(***************************************************************************)
EXTENDS Integers, FiniteSetsExt, SequencesExt

CONSTANTS Window,     \* request_limit: the most trades in one answer
          MaxId,      \* bound on the trades of the exchange
          MaxFaults   \* bound on failed requests and writes

ASSUME RawTradesAssumption == {Window, MaxId} \subseteq Nat \ {0} /\ MaxFaults \in Nat

VARIABLES last,      \* exchange: greatest trade id given out
          late,      \* exchange: ids given out that no answer shows yet
          cursor,    \* the RawTradeCursor
          log,       \* gap and trade rows in the sink
          task,      \* the poll task: "polling", "cancelled" or "failed"
          faults,    \* number of faults so far, for the bound
          lost       \* history: trades told of by rows that were not written

vars == <<last, late, cursor, log, task, faults, lost>>

None == 0
Ids == 1..MaxId

NewCursor == [expected |-> None, greatest |-> None, pending |-> {}]

TradeRow(id) == [kind |-> "trade", from |-> id, to |-> id]
GapRow(expected, first) == [kind |-> "gap", from |-> expected, to |-> first - 1]

Tells(row) == row.from..row.to
ToldBy(rows) == UNION {Tells(row) : row \in ToSet(rows)}

----------------------------------------------------------------------------
(* The exchange, as long as somebody looks at it.                          *)

\* An answer shows the newest trades up to id h; it is stale if h < last.
Newest(h) ==
    LET shown == (1..h) \ late
    IN  {id \in shown : Cardinality({other \in shown : other > id}) < Window}

Answers == {Newest(h) : h \in 0..last}

NewTrade(delayed) ==
    /\ task = "polling"
    /\ last < MaxId
    /\ last' = last + 1
    /\ late' = IF delayed THEN late \cup {last + 1} ELSE late
    /\ UNCHANGED <<cursor, log, task, faults, lost>>

Appear(id) ==
    /\ task = "polling"
    /\ id \in late
    /\ late' = late \ {id}
    /\ UNCHANGED <<last, cursor, log, task, faults, lost>>

----------------------------------------------------------------------------
(* RawTradeCursor.                                                         *)

\* Mutant of Resumes: the cursor stays in front of the gap.
ResumesInGap(expected, first) == expected

\* Where an answer that starts at first puts the cursor: what lies between is out
\* of reach (_unrecoverable_gap).
Resumes(expected, first) == Max({expected, first})

\* Mutant of Gap: one missing trade is no gap.
GapOfTwo(expected, first) ==
    IF first > expected + 1 THEN <<GapRow(expected, first)>> ELSE <<>>

Gap(expected, first) == IF first > expected THEN <<GapRow(expected, first)>> ELSE <<>>

\* Mutant of Reachable: ids in front of the gap stay pending.
ReachableAll(pending, expected) == pending

\* The trades taken out of sequence that are still ahead of the cursor.
Reachable(pending, expected) == {id \in pending : id >= expected}

\* Mutant of Unseen: trades taken out of sequence are taken again.
UnseenInSequence(ids, expected, pending) == {id \in ids : id >= expected}

\* Mutant of Unseen: a late trade is taken for an old one.
UnseenNewest(ids, expected, pending) ==
    {id \in ids : id >= expected /\ \A other \in pending : id > other}

\* Trades neither passed nor taken out of sequence already.
Unseen(ids, expected, pending) == {id \in ids : id >= expected /\ id \notin pending}

\* The trade of rank i; the answer is sorted by id.
Nth(ids, i) == CHOOSE id \in ids : Cardinality({other \in ids : other <= id}) = i

TradeRows(ids) == [i \in 1..Cardinality(ids) |-> TradeRow(Nth(ids, i))]

\* select: the unseen trades of an answer, and the gap in front of it.
Select(c, ids) ==
    LET first == Min(ids)
        awaited == IF c.expected = None THEN first ELSE c.expected
        expected == Resumes(awaited, first)
        pending == Reachable(c.pending, expected)
        new == Unseen(ids, expected, pending)
        all == new \cup pending
        next == Min((expected..(expected + Cardinality(all))) \ all)
    IN  IF ids = {} THEN [cursor |-> c, trades |-> {}, gap |-> <<>>]
        ELSE [ cursor |-> [ expected |-> next,
                            greatest |-> Max(new \cup {c.greatest}),
                            pending |-> all \ (expected..next) ],
               trades |-> new,
               gap |-> Gap(awaited, first) ]

----------------------------------------------------------------------------
(* The poll task.                                                          *)

Init ==
    /\ last = 0
    /\ late = {}
    /\ cursor = NewCursor
    /\ log = <<>>
    /\ task = "polling"
    /\ faults = 0
    /\ lost = {}

\* _record_batch: the gap, the trades.
Rows(selection) == selection.gap \o TradeRows(selection.trades)

Poll(selection) ==
    /\ task = "polling"
    /\ cursor' = selection.cursor
    /\ log' = log \o Rows(selection)
    /\ UNCHANGED <<last, late, task, faults, lost>>

\* The write of the row after k of them raises, or that of the poll row (k = 0);
\* the error row is written.  The cursor has moved.
PollLosingRows(selection, k) ==
    LET rows == Rows(selection)
    IN  /\ task = "polling"
        /\ faults < MaxFaults
        /\ k = 0 \/ k < Len(rows)
        /\ faults' = faults + 1
        /\ cursor' = selection.cursor
        /\ log' = log \o SubSeq(rows, 1, k)
        /\ lost' = lost \cup ToldBy(SubSeq(rows, k + 1, Len(rows)))
        /\ UNCHANGED <<last, late, task>>

\* A request fails, or its answer is refused; the error row is written and the
\* task tries again: nothing but time has passed.  If the error row cannot be
\* written, the exception ends the task, which nobody looks at before the end.
TaskFails ==
    /\ task = "polling"
    /\ faults < MaxFaults
    /\ faults' = faults + 1
    /\ task' = "failed"
    /\ UNCHANGED <<last, late, cursor, log, lost>>

\* The duration is over, or the capture is interrupted, while the task waits.
Cancel ==
    /\ task = "polling"
    /\ task' = "cancelled"
    /\ UNCHANGED <<last, late, cursor, log, faults, lost>>

Next ==
    \/ \E delayed \in BOOLEAN : NewTrade(delayed)
    \/ \E id \in late : Appear(id)
    \/ \E selection \in {Select(cursor, answer) : answer \in Answers} :
          \/ Poll(selection)
          \/ \E k \in 0..Window : PollLosingRows(selection, k)
    \/ TaskFails
    \/ Cancel

Spec == Init /\ [][Next]_vars

\* The task polls again after every sleep; the endpoint is assumed to give an
\* answer that is up to date again and again, and late trades to appear.
Fairness ==
    /\ WF_vars(\E id \in late : Appear(id))
    /\ WF_vars(\E selection \in {Select(cursor, Newest(last))} : Poll(selection))

FairSpec == Spec /\ Fairness

----------------------------------------------------------------------------
(* Properties.                                                             *)

\* What the log says something of.
Told == ToldBy(log)

TypeOK ==
    /\ last \in 0..MaxId
    /\ late \subseteq 1..last
    /\ cursor.expected \in 0..(last + 1)
    /\ cursor.greatest \in 0..last
    /\ cursor.pending \subseteq (cursor.expected + 1)..cursor.greatest
    /\ ToSet(log) \subseteq {[kind |-> k, from |-> a, to |-> b] :
                                k \in {"trade", "gap"}, a \in Ids, b \in Ids}
    /\ task \in {"polling", "cancelled", "failed"}
    /\ faults \in 0..MaxFaults
    /\ lost \subseteq 1..last

\* No trade is stored twice, however answers overlap, go back in time or bring
\* late trades ("stores each exact individual trade payload once",
\* docs/connectors.md).
StoredOnce ==
    \A i, j \in 1..Len(log) : log[i].kind = "trade" /\ log[i] = log[j] => i = j

\* A trade once reported missing is neither stored nor reported missing later, and
\* a gap starts at a trade that was not stored before.
GapsAreFinal ==
    \A i, j \in 1..Len(log) :
        /\ log[i].kind = "gap" /\ i < j => Tells(log[i]) \cap Tells(log[j]) = {}
        /\ log[i].kind = "gap" /\ log[j].kind = "trade" => log[i].from # log[j].from

\* Between the first trade the log tells of and the one the cursor waits for there
\* is none the log says nothing of, but for those a failed write has lost; what is
\* out of sequence is told of as well.
NoSilentGap ==
    LET told == Told \cup lost
    IN  told # {} => /\ (Min(told)..(cursor.expected - 1)) \subseteq told
                     /\ cursor.pending \subseteq told

\* What docs/connectors.md says with no word of failures: the log stores each
\* trade, or reports it missing.
EveryTradeStoredOrReported ==
    Told # {} => (Min(Told)..(cursor.expected - 1)) \subseteq Told

\* Once the market is quiet, every trade from the first one on is told of, if the
\* task does not end before: holes close, by late trades or by gaps.
EventuallyTold ==
    <>[](LET told == Told \cup lost
         IN  task = "polling" /\ told # {} => (Min(told)..last) \subseteq told)

==============================================================================
