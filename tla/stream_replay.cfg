CONSTANTS
  Nodes = {n1, n2}
  Slots = {s1, s2}
  MaxConns = 2
  PageSize = 1
  MaxMessages = 3
  MaxFailures = 1
SPECIFICATION Spec
INVARIANTS ReplayLeavesNoGap  LiveOnceReplayedOnce
SYMMETRY Symmetry
CHECK_DEADLOCK FALSE
