------------------------- MODULE ReconstructionStudy -------------------------
(***************************************************************************)
(* The study of a capture (connectors/binance/reconstruction_study.py): it *)
(* anchors a book at a snapshot, applies the depth updates of the same     *)
(* connection once they are a reorder buffer old, and hands each update    *)
(* the individual trades of its transaction-time interval.                 *)
(*                                                                         *)
(* The study reads the files after the capture; here it reads each row in  *)
(* the step that writes it, which is the order of the files as long as the *)
(* clock is not set back over an hour.                                     *)
(*                                                                         *)
(* Every policy is handed the same updates and trades, so one model stands *)
(* for all; what it infers between two endpoints is Reconstruction's       *)
(* subject.  Book tickers are left out: they are only compared, and their  *)
(* arrival flushes waiting updates as that of any other row does.          *)
(***************************************************************************)
EXTENDS DepthCapture

CONSTANT Buffer      \* reorder_buffer_ns

ASSUME StudyAssumption == Buffer \in Nat

VARIABLE study       \* the _StudyRunner

studyVars == <<captureVars, study>>

----------------------------------------------------------------------------
(* snapshot:  the connection it came from, its last update id and its      *)
(*            book; no segment starts without one                          *)
(* active:    a segment is under way: book is its model's, applied holds   *)
(*            its updates since the bridge, previous the last one accepted *)
(* latest:    history: the largest received_at_ns read                     *)
(* fates:     history: what the last step decided about trades             *)

NoSnapshot == [conn |-> 0, last |-> None, active |-> FALSE, book |-> [L \in Levels |-> None],
               applied |-> <<>>, pending |-> <<>>, previous |-> None]
Nothing == NoSnapshot @@ [trades |-> {}, lastTrade |-> None, latest |-> 0, fates |-> {},
                          over |-> FALSE]

Reset(st) == [st EXCEPT !.conn = 0, !.last = None, !.active = FALSE,
                        !.book = [L \in Levels |-> None], !.applied = <<>>,
                        !.pending = <<>>, !.previous = None]

\* Trades leave the pending ones, for the reason given.
Leave(st, trades, why) ==
    [st EXCEPT !.trades = @ \ trades,
               !.fates = @ \cup {[trade |-> tr, how |-> why,
                                  update |-> IF st.applied = <<>> THEN None
                                             ELSE Last(st.applied).final] : tr \in trades}]

\* previous_transaction_time_ns of the model.
ModelTime(st) == TimeOf(Last(st.applied).final)

\* The endpoints of a depth update.
Applied(st, update) ==
    [st EXCEPT !.applied = Append(@, update),
               !.book = [L \in Levels |->
                            Max({@[L]} \cup {u \in update.first..update.final : changed[u] = L})]]

FlushUpdate(st, update) ==
    LET late    == {tr \in st.trades : tr.time <= ModelTime(st)}
        aligned == {tr \in st.trades \ late : tr.time <= TimeOf(update.final)}
    IN  Leave(Applied(Leave(st, late, "late"), update), aligned, "aligned")

Flush(st, n) ==
    FoldLeft(FlushUpdate, [st EXCEPT !.pending = SubSeq(@, n + 1, Len(@))],
             SubSeq(st.pending, 1, n))

FinishSegment(st) ==
    IF st.active THEN Reset(Flush(st, Len(st.pending))) ELSE Reset(st)

\* Mutant of FlushReady: updates are flushed as they come.
FlushReadyAtOnce(st, watermark) ==
    IF st.active THEN Flush(st, Len(st.pending)) ELSE st

\* The updates up to the first that is not as old as the watermark.
FlushReady(st, watermark) ==
    LET young == {i \in DOMAIN st.pending : st.pending[i].at > watermark}
    IN  IF st.active THEN Flush(st, Min({Len(st.pending) + 1} \cup young) - 1) ELSE st

----------------------------------------------------------------------------
(* The observations.                                                       *)

StartSnapshot(st, row) ==
    LET done == FinishSegment(st)
        left == Leave(done, done.trades, "unassigned")
    IN  [left EXCEPT !.conn = row.conn, !.last = row.final, !.book = BookAt(row.final)]

\* The bridge: the first update that spans the snapshot's last update id.
Bootstrap(st, update) ==
    LET begun == Applied([st EXCEPT !.active = TRUE, !.previous = update.final], update)
    IN  Leave(begun, {tr \in st.trades : tr.time <= TimeOf(update.final)}, "unassigned")

\* Mutant of AcceptDepth: an update need not follow the one before.
AcceptDepthUnchecked(st, update) ==
    IF update.conn # st.conn \/ (~st.active /\ update.final < st.last) THEN st
    ELSE IF ~st.active
         THEN IF st.last \in update.first..update.final THEN Bootstrap(st, update) ELSE Reset(st)
    ELSE [st EXCEPT !.pending = Append(@, update), !.previous = update.final]

AcceptDepth(st, update) ==
    IF update.conn # st.conn \/ (~st.active /\ update.final < st.last) THEN st
    ELSE IF ~st.active
         THEN IF st.last \in update.first..update.final THEN Bootstrap(st, update) ELSE Reset(st)
    ELSE IF update.previous # st.previous THEN FinishSegment(st)
    ELSE [st EXCEPT !.pending = Append(@, update), !.previous = update.final]

\* A trade seen before or without value is counted and dropped.
AcceptTrade(st, row) ==
    LET id    == row.final
        trade == [id |-> id, time |-> traded'[id]]
        seen  == [st EXCEPT !.lastTrade = id, !.trades = @ \cup {trade}]
    IN  IF id <= st.lastTrade THEN st
        ELSE IF trade.time = None THEN [st EXCEPT !.lastTrade = id]
        ELSE IF st.active /\ trade.time <= ModelTime(st) THEN Leave(seen, {trade}, "late")
        ELSE seen

Accept(st, row) ==
    IF row.kind = "snapshot" THEN StartSnapshot(st, row)
    ELSE IF row.scope = "public" THEN AcceptDepth(st, row)
    ELSE AcceptTrade(st, row)

\* What the source makes observations of; the other rows are skipped.
Observations(written) == SelectSeq(written, LAMBDA r : r.kind \in {"snapshot", "message"})

\* One turn of run.
Observe(st, row) ==
    LET accepted == Accept(st, row)
    IN  [FlushReady(accepted, row.at - Buffer) EXCEPT !.latest = Max({@, row.at})]

----------------------------------------------------------------------------
(* The capture, read as it is written, until it is stopped.                *)

Record ==
    /\ ~study.over
    /\ CaptureNext
    /\ study' = FoldLeft(Observe, [study EXCEPT !.fates = {}], Observations(rows'))

\* The rest of run, when there are no more rows.
Stop ==
    /\ ~study.over
    /\ \E done \in {FinishSegment([study EXCEPT !.fates = {}])} :
          study' = [Leave(done, done.trades, "unassigned") EXCEPT !.over = TRUE]
    /\ rows' = <<>>
    /\ UNCHANGED <<changed, sent, traded, task, clock, faults>>

StudyInit == CaptureInit /\ study = Nothing
StudyNext == Record \/ Stop
StudySpec == StudyInit /\ [][StudyNext]_studyVars

----------------------------------------------------------------------------
(* Correctness.                                                            *)

\* Whatever is lost, repeated or cut off, and however old the snapshot: the book of a
\* segment is the exchange's book at the update applied last, and the updates that wait
\* lead on from there without a gap.
StudyFollowsExchange ==
    study.active =>
        LET known == study.applied \o study.pending
        IN  /\ study.book = BookAt(Last(study.applied).final)
            /\ \A i \in 1..(Len(known) - 1) : known[i + 1].first = known[i].final + 1
            /\ study.previous = Last(known).final

\* Each trade is handed to one update at most, the first of its segment that reaches its
\* time.  It comes too late only behind the bridge, or behind an update that was held
\* back for the whole buffer; and no trade of the time of a segment is left over.
TradeFates ==
    LET known   == study.applied \o study.pending
        fates   == study'.fates
        settled == {f.trade : f \in fates}
        arrived == {[id |-> r.final, time |-> traded'[r.final]] : r \in
                      {rows'[i] : i \in {j \in DOMAIN rows' :
                          /\ rows'[j].kind = "message" /\ rows'[j].scope = "individual"
                          /\ rows'[j].final > study.lastTrade
                          /\ traded'[rows'[j].final] # None}}}
    IN  /\ Cardinality(settled) = Cardinality(fates)
        /\ settled \cup study'.trades = study.trades \cup arrived
        /\ settled \cap study'.trades = {}
        /\ \A f \in fates :
              \/ /\ f.how = "aligned"
                 /\ f.trade.time <= TimeOf(f.update)
                 /\ \A i \in DOMAIN known :
                       known[i].final < f.update => TimeOf(known[i].final) < f.trade.time
              \/ /\ f.how = "late"
                 /\ \E i \in DOMAIN study.applied :
                       /\ f.trade.time <= TimeOf(study.applied[i].final)
                       /\ i = 1 \/ study.applied[i].at + Buffer <= study.latest
              \/ /\ f.how = "unassigned"
                 /\ study.active => f.trade.time > TimeOf(study.previous)
TradesMeetTheirUpdates == [][TradeFates]_studyVars

\* A segment ends at an update of its connection exactly when the capture, which knows
\* nothing of segments, tells of a break there or fails to write that row.
BreakTold ==
    \A i \in DOMAIN rows' :
        /\ study.active
        /\ rows'[i].kind = "message" /\ rows'[i].scope = "public"
        /\ rows'[i].conn = study.conn
        => (~study'.active <=> \/ \E j \in DOMAIN rows' : rows'[j].kind = "gap"
                               \/ task'["public"].at # "reading")
BreaksAreTold == [][BreakTold]_studyVars
==============================================================================
