CONSTANTS
  None = None
  Users = {b}
  Temporary = {b}
  TokenLimit = 2
  ActLimit = 4
SPECIFICATION Spec
CHECK_DEADLOCK FALSE
INVARIANTS TemporaryPasswordsAreRotated
