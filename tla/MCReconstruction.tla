--------------------------- MODULE MCReconstruction ---------------------------
(* Constants for TLC's runs of Reconstruction.                             *)
EXTENDS Reconstruction

MCPrices == {1, 2}
MCIds == Nat

\* Two levels of one side; the better one comes and goes, all trades hit the other.
MCBid == <<"bid", 1>>
MCBest == <<"bid", 2>>
MCDepths == UNION {[S -> 0..2] : S \in SUBSET {MCBid}}
              \cup {[L \in {MCBid, MCBest} |-> IF L = MCBid THEN 1 ELSE n] : n \in 0..1}
MCSnapshots == {[L \in {MCBid, MCBest} |-> IF L = MCBid THEN 2 ELSE 1]}
MCTradeLevels == {MCBid}
==============================================================================
