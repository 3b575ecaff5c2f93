SPECIFICATION Spec
CONSTANTS
  Streams = {s1, s2}
  Backlog = 1
INVARIANTS
  StreamHasOwner
  LateStreamsAreEnding
PROPERTIES
  NothingSurvives
CHECK_DEADLOCK FALSE
