SPECIFICATION Spec
CONSTANTS
  MaxCalls = 3
  Methods <- OneOfEachShape
  None = None
INVARIANTS
  EverythingIsOwned
PROPERTIES
  EveryPromiseSettles
  StoppedLetsGo
CHECK_DEADLOCK FALSE
