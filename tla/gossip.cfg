SPECIFICATION HookFairSpec
CONSTANTS
  Broadcasts = {b1, b2}
  MaxEvents = 2
INVARIANTS
  NothingLostWhileLive
  EndedOnceKnown
  StatusIsTrue
PROPERTIES
  LeavesTheTopic
  BroadcastsSettle
CHECK_DEADLOCK FALSE
