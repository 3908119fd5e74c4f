SPECIFICATION StudySpec
CONSTANTS
  Levels = {l1, l2}
  Back = 3
  MaxLag = 1
  MaxChanges = 3
  MaxTrades = 2
  MaxFaults = 2
  Buffer = 2
SYMMETRY MCSymmetry
VIEW StudyView
INVARIANTS
  StudyFollowsExchange
PROPERTIES
  TradesMeetTheirUpdates
  BreaksAreTold
\* The capture may be over.
CHECK_DEADLOCK FALSE
