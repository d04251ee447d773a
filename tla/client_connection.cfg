SPECIFICATION ClientSpec
CONSTANTS
  Threads = {t1, t2}
  PolledThreads = 1
  Interval = 2
  MaxFailures = 1
  MaxChanges = 2
INVARIANTS
  StatusIsTrue
  PollsAreSpaced
  CallsMeanWhatTheySay
PROPERTIES
  RemovalIsNoticed
CHECK_DEADLOCK FALSE
