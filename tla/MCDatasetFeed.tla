---------------------------- MODULE MCDatasetFeed ----------------------------
(* Constants and symmetry for TLC's run of DatasetFeed.                    *)
EXTENDS DatasetFeed, TLC

MCPrices == {1, 2}
MCAllActions == {"add", "cancel", "modify", "trade"}

Symmetry == Permutations(PublicIds)
==============================================================================
