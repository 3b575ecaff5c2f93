SPECIFICATION StreamSpec
CONSTANTS
  Capacity = 2
  FatalLag = TRUE
  MaxPush = 3
  MaxNext = 2
INVARIANTS
  FinishedStreamIsReadable
CHECK_DEADLOCK FALSE
