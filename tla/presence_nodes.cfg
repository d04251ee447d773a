CONSTANTS
  Nodes = {n1, n2}
  MaxConns = 2
  LeaseTtl = 7
  BeatEvery = 2
  OfflineDelay = 2
  TokenSlack = 2
  MaxLag = 1
  MaxMishaps = 2
SPECIFICATION FairSpec
INVARIANTS OnlineWhileConnected 
 
CHECK_DEADLOCK FALSE
