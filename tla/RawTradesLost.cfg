SPECIFICATION Spec
CONSTANTS
  Window = 2
  MaxId = 4
  MaxFaults = 1
CHECK_DEADLOCK FALSE
INVARIANTS
  EveryTradeStoredOrReported
