--------------------------- MODULE MCMatchingEngine --------------------------
(* Constants and symmetry for TLC's runs of MatchingEngine.                *)
EXTENDS MatchingEngine, TLC

MCPrices == {1, 2}
MCAllActions == {"add", "cancel", "modify", "trade"}

Symmetry == Permutations(PublicIds)
==============================================================================
