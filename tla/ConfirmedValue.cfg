CONSTANTS
  None = None
  Plain = {p}
  Risky = {s}
  Values = {1, 2}
  Default = 1
  Unparsed = 0
  ActLimit = 8
SPECIFICATION Spec
CHECK_DEADLOCK FALSE
INVARIANTS ConfirmedValueIsSent
