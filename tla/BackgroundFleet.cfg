CONSTANTS
  r1 = r1
  r2 = r2
  w1 = w1
  w2 = w2
  Runs = {r1}
  Workers = {w1, w2}
  Faults = {"crash", "error"}
  Operated = TRUE
  Authoritative = FALSE
  MaxAttempts = 2
  AttemptLimit = 3
  LinkLimit = 0
  TokenLimit = 3
  Dispositions = {}
SPECIFICATION ResponsesSpec
CHECK_DEADLOCK FALSE
INVARIANTS ResponsesTypeOK AttemptDispatchedOnce ReportedFailuresAreRecorded PausedRunsAreIdle
PROPERTIES ImplementsExecution
