CONSTANTS
  Ids = {1, 2, 3, 4}
  Stamps = {0, 1, 2}
  PageSize = 2
  ScanSize = 3
  MaxScans = 2
  MaxChanges = 2
SPECIFICATION Spec
INVARIANTS StayersAreGiven OnceUnlessLost
PROPERTY WalksEnd
CHECK_DEADLOCK FALSE
