SPECIFICATION Spec
CONSTANTS
  Capacity = 2
  FatalLag = FALSE
  MaxPush = 5
  MaxNext = 5
INVARIANTS
  EveryValueAccounted
  InOrder
  NobodyHangs
  ErrorReachesOne
  HolesAreTold
CHECK_DEADLOCK FALSE
