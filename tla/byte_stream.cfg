SPECIFICATION FairSpec
CONSTANTS
  Capacity = 2
  FatalLag = TRUE
  MaxPush = 4
  MaxNext = 4
INVARIANTS
  OneStory
  SettledReleases
  PrefixRead
PROPERTIES
  EndIsHeard
CHECK_DEADLOCK FALSE
