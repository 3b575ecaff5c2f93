SPECIFICATION FairSpec
CONSTANTS
  Connections = {c1, c2}
  MaxListeners = 2
  Backlog = 1
  Capacity = 1
INVARIANTS
  LiveHasOwner
PROPERTIES
  CloseReleasesAll
CHECK_DEADLOCK FALSE
