SPECIFICATION FairSpec
CONSTANTS
  ann = ann
  bob = bob
  Users = {ann, bob}
  Author = ann
  Configured = {"push"}
  MaxAttempts = 2
  RetryLimit = 1
  MaxReplies = 2
  MaxMishaps = 1
INVARIANTS
  MutedMeansQuiet
PROPERTIES
  FollowersAreTold
CHECK_DEADLOCK FALSE
