SPECIFICATION FairSpec
CONSTANTS
  Window = 2
  MaxId = 6
  MaxFaults = 1
CHECK_DEADLOCK FALSE
INVARIANTS
  TypeOK
  StoredOnce
  GapsAreFinal
  NoSilentGap
PROPERTIES
  EventuallyTold
