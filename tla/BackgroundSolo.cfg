CONSTANTS
  r1 = r1
  r2 = r2
  w1 = w1
  w2 = w2
  Runs = {r1}
  Workers = {w1}
  Faults = {"crash"}
  Operated = TRUE
  Authoritative = TRUE
  MaxAttempts = 2
  AttemptLimit = 3
  LinkLimit = 0
  TokenLimit = 3
  Dispositions = {}
SPECIFICATION ResponsesSpec
CHECK_DEADLOCK FALSE
INVARIANTS SuccessIsAnswered
PROPERTIES CompletedIsFinal
