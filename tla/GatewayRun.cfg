SPECIFICATION Spec
CONSTANTS
  Prices <- MCPrices
  PublicIds = {1, 2}
  FirstOwnId = 10
  Commission = 1
  Feeds <- MCFeeds
  EntryLatencies = {0, 1}
  MaxSize = 2
  Tifs = {"GTC"}
  MaxTime = 3
  MaxCalls = 4
CHECK_DEADLOCK FALSE
INVARIANTS
  TypeOK
  NoLookahead
  LogInTimeOrder
  LogTellsEveryFillOfValidCalls
  NoFillBeforeArrival
  PositionIsNetWithoutSelfTrade
  StrategySeesEveryFillWithoutLatency
  NoFillAfterCancel
  MarksFollowBook
  LedgerBalances
  CurveIsMarkToMarket
