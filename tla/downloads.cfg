SPECIFICATION CollectionFairSpec
CONSTANTS
  Transfer = {t1, t2, t3}
  Children = {t1, t2}
  MaxConcurrent = 1
  None = None
INVARIANTS
  SlotsAccounted
  SettledNotRegistered
  NoIdleSlot
  NoOrphans
PROPERTIES
  CollectionSettles
  CancelAndCloseSettle
  ImplementsPool
CHECK_DEADLOCK FALSE
