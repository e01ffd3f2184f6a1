CONSTANTS
  r1 = r1
  r2 = r2
  Runs = {r1}
  Authoritative = TRUE
  MaxAttempts = 2
  AttemptLimit = 3
  LinkLimit = 2
  TokenLimit = 3
  Dispositions = {"fail", "compensate", "cancel"}
SPECIFICATION Spec
CHECK_DEADLOCK FALSE
INVARIANTS OnlyOpenGatesBlockResume
