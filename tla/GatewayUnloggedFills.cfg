SPECIFICATION Spec
CONSTANTS
  Prices <- MCPrices
  PublicIds = {1, 2}
  FirstOwnId = 10
  Commission = 1
  Feeds <- MCFeeds
  EntryLatencies = {0, 1}
  MaxSize = 2
  Tifs = {"GTC", "IOC"}
  MaxTime = 3
  MaxCalls = 4
CHECK_DEADLOCK FALSE
INVARIANTS
  LogTellsEveryFill
