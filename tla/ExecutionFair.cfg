CONSTANTS
  r1 = r1
  r2 = r2
  Runs = {r1, r2}
  Authoritative = TRUE
  MaxAttempts = 2
  AttemptLimit = 2
  LinkLimit = 1
  TokenLimit = 2
  Dispositions = {"compensate"}
SPECIFICATION FairSpec
CHECK_DEADLOCK FALSE
PROPERTIES QueuedRunsAreClaimed
