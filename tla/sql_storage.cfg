CONSTANTS
  Users = {a, b}
  Moderators = {m1, m2}
  Bodies = {x, y}
  Titles = {t1, t2}
  MaxUses = 1
  MaxRetries = 2
  MaxCalls = 2
  MaxCrashes = 1
SPECIFICATION FairSqlSpec
INVARIANTS AnswersAreTrue
PROPERTIES KeepsTheContract EveryCallEnds
CHECK_DEADLOCK FALSE
