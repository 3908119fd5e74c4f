--------------------------- MODULE MCReplayGateway ---------------------------
(* Constants for TLC's runs of ReplayGateway.                              *)
EXTENDS ReplayGateway

MCPrices == {1, 2}

Ev(ts, action, side, price, size, id) ==
    [ts |-> ts, action |-> action, level |-> <<side, price>>, size |-> size, id |-> id]

\* Both sides of the book, out of time order in the input, with an event at
\* time 0 and several at time 2: the bid queue is traded twice, the ask queue
\* appears, is traded and modified.
MCFeed == << Ev(2, "add", "ask", 2, 1, 2), Ev(0, "add", "bid", 1, 2, 1),
             Ev(1, "trade", "bid", 1, 1, 1), Ev(2, "trade", "bid", 1, 2, 1),
             Ev(2, "trade", "ask", 2, 2, 2), Ev(3, "modify", "ask", 2, 2, 2),
             Ev(3, "trade", "bid", 1, 1, 1) >>

MCFeeds == {MCFeed}
==============================================================================
