SPECIFICATION Spec
CONSTANTS
  Prices <- MCPrices
  FirstOwnId = 10
  PublicIds = {p1, p2}
  MaxSize = 2
  MaxNow = 3
  MaxPlacements = 2
  FeedActions <- MCAllActions
  WellFormedFeed = TRUE
  Aggressive = TRUE
  SelfCross = FALSE
SYMMETRY Symmetry
INVARIANTS
  QueueAheadWithinLevel
