SPECIFICATION FairSpec
CONSTANTS
  MaxBytes = 3
  MaxIntervals = 2
INVARIANTS
  FinalProgressSeen
  Coalesced
  DestinationSafe
PROPERTIES
  SettlesAndEndsTheLoop
CHECK_DEADLOCK FALSE
