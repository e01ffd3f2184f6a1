CONSTANTS
  r1 = r1
  r2 = r2
  w1 = w1
  w2 = w2
  Runs = {r1, r2}
  Workers = {w1}
  Faults = {}
  Operated = FALSE
  Authoritative = TRUE
  MaxAttempts = 3
  AttemptLimit = 3
  LinkLimit = 0
  TokenLimit = 3
  Dispositions = {}
SPECIFICATION ResponsesFairSpec
CHECK_DEADLOCK FALSE
PROPERTIES AcceptedIsAnswered
