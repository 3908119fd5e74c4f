SPECIFICATION FeedSpec
CONSTANTS
  Prices <- MCPrices
  FirstOwnId = 10
  PublicIds = {p1, p2, p3}
  MaxSize = 2
  MaxNow = 5
  MaxPlacements = 0
  FeedActions <- MCAllActions
  WellFormedFeed = TRUE
  Aggressive = FALSE
  SelfCross = FALSE
  MaxGroup = 2
  MaxHidden = 1
  MaxRecords = 4
SYMMETRY Symmetry
CHECK_DEADLOCK FALSE
INVARIANTS
  BookFollowsRecords
PROPERTIES
  ImplementsVenue
