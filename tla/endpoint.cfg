SPECIFICATION HookFairSpec
CONSTANTS
  Subscribers = {c1, c2}
  MaxWatches = 2
  MaxAddr = 2
INVARIANTS
  ServedWhileAttached
PROPERTIES
  ChangesArrive
  TornDownIsClosed
CHECK_DEADLOCK FALSE
