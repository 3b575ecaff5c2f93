SPECIFICATION Spec
CONSTANTS
  Connections = {c1}
  MaxListeners = 1
  Backlog = 1
  Capacity = 1
INVARIANTS
  UnconsumedAreClosed
CHECK_DEADLOCK FALSE
