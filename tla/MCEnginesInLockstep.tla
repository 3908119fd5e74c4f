------------------------- MODULE MCEnginesInLockstep -------------------------
(* Constants and symmetry for TLC's run of EnginesInLockstep.              *)
EXTENDS EnginesInLockstep, TLC

MCPrices == {1, 2}
MCAllActions == {"add", "cancel", "modify", "trade"}

\* A trade, at which a fill boundary may stop, and a cancel behind it that may
\* empty the level and with it end the valuation marks.
On(action, L, n, id) == [action |-> action, level |-> L, size |-> n, id |-> id]
MCSlices ==
    {<<On("trade", L, 1, id), On("cancel", L, 2, id)>> : L \in Levels, id \in PublicIds}

\* On a feed without a venue no step reads the histories, the fills an engine has
\* returned or its position, and the properties compare only new fills and the
\* two positions: the rest is left out of the state.
EnginesView ==
    <<[engine EXCEPT !.fills = <<>>, !.position = 0],
      [native EXCEPT !.passiveFills = <<>>, !.position = @ - engine.position],
      agree, fits>>

Symmetry == Permutations(PublicIds)
==============================================================================
