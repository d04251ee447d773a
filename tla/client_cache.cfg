SPECIFICATION FairCacheSpec
CONSTANTS
  PageSize = 1
  MaxMessages = 2
  MaxEdits = 1
  MaxAsks = 3
  MaxBreaks = 1
INVARIANTS
  ShownIsCurrent
  UnreadIsNotHidden
PROPERTIES
  PollingCatchesUp
CHECK_DEADLOCK FALSE
