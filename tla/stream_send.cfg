SPECIFICATION Spec
CONSTANTS
  MaxSend = 2
  MaxSize = 2
  MaxFrame = 1
  Window = 2
INVARIANTS
  NeverTruncated
PROPERTIES
  ImplementsChannel
  SendsSettle
  CloseIsHeard
CHECK_DEADLOCK FALSE
