CONSTANTS
  None = None
  Policies = {p1}
  DataClasses = {d1, d2}
  MaxAge = 0
  Horizon = 1
  ActLimit = 4
SPECIFICATION Spec
CHECK_DEADLOCK FALSE
INVARIANTS CoveredPoliciesAreCovered
