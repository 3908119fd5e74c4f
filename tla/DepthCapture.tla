----------------------------- MODULE DepthCapture -----------------------------
(***************************************************************************)
(* Recording of Binance depth and individual trades for one symbol         *)
(* (connectors/binance/capture.py): a task for each stream connects,       *)
(* writes what it receives, tells of breaks in the sequence                *)
(* (connectors/binance/schema.py) and connects again when the connection   *)
(* ends.                                                                   *)
(*                                                                         *)
(* A write never suspends, so a step ends at the next await of a message,  *)
(* a snapshot or a sleep.  The aggregate-trade task and the RPI depth      *)
(* stream go the same way to other rows and are left out.                  *)
(*                                                                         *)
(* Messages take any time on their way: the step that reads one also       *)
(* stands for its sending, and only the order of each stream is given.     *)
(***************************************************************************)
EXTENDS Integers, SequencesExt, FiniteSetsExt, TLC

CONSTANTS Levels,       \* price levels of the book
          Back,         \* how far the wall clock may be set back
          MaxLag,       \* how many changes a snapshot may be behind the stream
          MaxChanges,   \* bound on the changes of the book
          MaxTrades,    \* bound on the trades
          MaxFaults     \* bound on lost and repeated messages, failures, clock changes

ASSUME CaptureAssumption == {Back, MaxLag, MaxChanges, MaxTrades, MaxFaults} \subseteq Nat

VARIABLES changed,    \* exchange: the level each change of the book sets, by update id
          sent,       \* exchange: the last update id of the last depth message
          traded,     \* exchange: the time of each trade sent, by trade id; None if it has no value
          task,       \* stream -> its task
          clock,      \* received_at_ns of the next row
          rows,       \* the rows the last step has written
          faults      \* number of faults so far, for the bound

captureVars == <<changed, sent, traded, task, clock, rows, faults>>

Scopes == {"public", "individual"}
None == 0

----------------------------------------------------------------------------
(* The exchange.  A level's quantity stands for the update id that set it, *)
(* so that a quantity out of date is told from a current one.              *)

\* Two changes share a transaction time.
TimeOf(u) == (u + 1) \div 2
Times == {None} \cup TimeOf(1)..TimeOf(MaxChanges)

BookAt(u) == [L \in Levels |-> Max({None} \cup {i \in 1..u : changed[i] = L})]

\* A depth message covers the changes from first to final; a trade is its own id.
Message(first, final) == [first |-> first, final |-> final, previous |-> first - 1]

\* The stream's next message: depth up to some change, or a trade no earlier than
\* the one before.
Sent(s, msg) ==
    IF s = "public"
    THEN /\ msg \in {Message(sent + 1, u) : u \in (sent + 1)..MaxChanges}
         /\ sent' = msg.final
         /\ UNCHANGED traded
    ELSE /\ msg = Message(Len(traded) + 1, Len(traded) + 1)
         /\ Len(traded) < MaxTrades
         /\ \E t \in Times :
               /\ t = None \/ \A i \in DOMAIN traded : traded[i] <= t
               /\ traded' = Append(traded, t)
         /\ UNCHANGED sent
Messages == {Message(i, j) : i, j \in 1..Max({MaxChanges, MaxTrades})}

----------------------------------------------------------------------------
(* The rows of the capture.                                                *)

Row(kind, s, msg) ==
    [kind |-> kind, scope |-> s, conn |-> task'[s].conn, at |-> clock,
     first |-> msg.first, final |-> msg.final, previous |-> msg.previous]
NoMessage == [first |-> None, final |-> None, previous |-> None]

\* RawCaptureSink.write, once for each row; each takes a tick of the clock.
Written(seq) ==
    /\ rows' = [i \in DOMAIN seq |-> [seq[i] EXCEPT !.at = clock + i - 1]]
    /\ clock' = clock + Len(seq)

\* A fault of what the capture depends on.
Fault == faults < MaxFaults /\ faults' = faults + 1

----------------------------------------------------------------------------
(* The task of a stream.                                                   *)

NewTask == [at |-> "sleeping", conn |-> 0, tracked |-> None]

\* Mutant of Breaks: a message that starts behind the one before is no break.
BreaksBackwards(tracked, msg) == tracked # None /\ msg.previous < tracked

\* observe of the two trackers, for the message behind the one that ended at tracked.
Breaks(tracked, msg) == tracked # None /\ msg.previous # tracked

\* connection_open; messages arrive from here on.
Connect(s) ==
    /\ task[s].at = "sleeping"
    /\ task' = [task EXCEPT ![s] = [at |-> IF s = "public" THEN "opened" ELSE "reading",
                                    conn |-> @.conn + 1, tracked |-> None]]
    /\ Written(<<Row("open", s, NoMessage)>>)
    /\ UNCHANGED <<changed, sent, traded, faults>>

\* The REST snapshot, up to update id u, which may be a while ago.
Snapshot(u) ==
    /\ task["public"].at = "opened"
    /\ sent - u <= MaxLag
    /\ task' = [task EXCEPT !["public"].at = "reading"]
    /\ Written(<<Row("snapshot", "public", [NoMessage EXCEPT !.final = u])>>)
    /\ UNCHANGED <<changed, sent, traded, faults>>

\* One turn of the loop over the messages: the message, and the break in front of it.
Take(s, msg) ==
    /\ task[s].at = "reading"
    /\ task' = [task EXCEPT ![s].tracked = msg.final]
    /\ Written(IF Breaks(task[s].tracked, msg)
               THEN <<Row("message", s, msg), Row("gap", s, msg)>>
               ELSE <<Row("message", s, msg)>>)
    /\ UNCHANGED changed

Read(s, msg) == Sent(s, msg) /\ Take(s, msg) /\ UNCHANGED faults

\* A trade comes again.
ReadAgain(id) ==
    /\ id \in DOMAIN traded
    /\ Fault
    /\ Take("individual", Message(id, id))
    /\ UNCHANGED <<sent, traded>>

\* A message does not reach the task: it is lost on the way, or nobody is connected.
Miss(s, msg) ==
    /\ Sent(s, msg)
    /\ IF task[s].at = "sleeping" THEN UNCHANGED faults ELSE Fault
    /\ Written(<<>>)
    /\ UNCHANGED <<changed, task>>

\* The connection raises, after what it has written already: an error row, and the
\* task sleeps before the next connection.  If that row raises too, the task ends.
Raises(s, before) ==
    /\ Fault
    /\ \E conn \in {task[s].conn + (IF task[s].at = "sleeping" THEN 1 ELSE 0)} :
          \/ /\ task' = [task EXCEPT ![s] = [NewTask EXCEPT !.conn = conn]]
             /\ Written(before \o <<Row("error", s, NoMessage)>>)
          \/ /\ task' = [task EXCEPT ![s] = [NewTask EXCEPT !.conn = conn, !.at = "ended"]]
             /\ Written(before)
    /\ UNCHANGED changed

\* Connecting, the snapshot, a message or its write raises.
Fail(s) ==
    /\ task[s].at # "ended"
    /\ Raises(s, <<>>)
    /\ UNCHANGED <<sent, traded>>

\* The row of a message is written, the gap row behind it raises.
FailTelling(s, msg) ==
    /\ task[s].at = "reading"
    /\ Breaks(task[s].tracked, msg)
    /\ Sent(s, msg)
    /\ Raises(s, <<Row("message", s, msg)>>)

\* The server ends the messages, which is no error.
Close(s) ==
    /\ task[s].at = "reading"
    /\ Fault
    /\ task' = [task EXCEPT ![s] = [NewTask EXCEPT !.conn = task[s].conn]]
    /\ Written(<<>>)
    /\ UNCHANGED <<changed, sent, traded>>

\* The wall clock is set back, within the hour.
SetBack ==
    /\ Fault
    /\ clock' = clock - Back
    /\ rows' = <<>>
    /\ UNCHANGED <<changed, sent, traded, task>>

CaptureInit ==
    /\ changed \in [1..MaxChanges -> Levels]
    /\ sent = None /\ traded = <<>>
    /\ task = [s \in Scopes |-> NewTask]
    /\ clock = 0 /\ rows = <<>>
    /\ faults = 0

CaptureNext ==
    \/ \E s \in Scopes :
          \/ Connect(s) \/ Fail(s) \/ Close(s)
          \/ \E msg \in Messages : Read(s, msg) \/ Miss(s, msg) \/ FailTelling(s, msg)
    \/ \E u \in 0..MaxChanges : Snapshot(u)
    \/ \E id \in 1..MaxTrades : ReadAgain(id)
    \/ SetBack
==============================================================================
