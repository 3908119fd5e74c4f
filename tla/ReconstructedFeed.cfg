SPECIFICATION Spec
CONSTANTS
  Prices <- MCPrices
  PublicIds <- MCIds
  FirstOwnId = 100
  Snapshots <- MCSnapshots
  Depths <- MCDepths
  TradeLevels <- MCTradeLevels
  MaxTrade = 2
  MaxTrades = 2
  MaxUpdates = 2
  MaxTime = 3
  MaxOwn = 1
CHECK_DEADLOCK FALSE
INVARIANTS
  TypeOK
  ReachesEveryEndpoint
  NeverContradictsItself
  BestPricesCurrent
  PoliciesInferSameFlow
  ReplayFollowsQueues
  EventsInTimeOrder
  PoliciesBoundQueuePosition
