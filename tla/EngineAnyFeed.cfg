SPECIFICATION BothSpec
CONSTANTS
  Prices <- MCPrices
  FirstOwnId = 10
  PublicIds = {p1, p2}
  MaxSize = 2
  MaxNow = 3
  MaxPlacements = 2
  FeedActions <- MCAllActions
  WellFormedFeed = FALSE
  Aggressive = TRUE
  SelfCross = TRUE
  Width = 4
  Slices <- MCSlices
SYMMETRY Symmetry
VIEW EnginesView
INVARIANTS
  OwnOrdersQueuedOnce
  EnginesAgree
PROPERTIES
  NoQueueJumping
  PassiveFillsAreFifo
