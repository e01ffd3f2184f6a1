CONSTANTS
  None = None
  Plain = {p}
  Risky = {s}
  Values = {1, 2}
  Default = 1
  Unparsed = 0
  ActLimit = 8
  ApprovalCount = 2
  ApprovalActs = 5
  UserCount = 2
  UserActs = 3
  Policies = {p1, p2}
  DataClasses = {d1, d2}
  MaxAge = 0
  Horizon = 1
  RecoveryActs = 3
  SetupActs = 3
SPECIFICATION ConsolesSpec
SYMMETRY Interchangeable
CHECK_DEADLOCK FALSE
INVARIANTS ConsolesTypeOK RiskyChangesAreConfirmed UntouchedDraftsAreShown DecidedIsNotListedOpen
  ShownScopesAreOfTheSelected ConfirmedScopesAreShown ReadyRowsAreProven PageAgreesWithBackend
  SetupLeadsSomewhere LiveIsJustified
PROPERTIES DecidesWhatWasConfirmed SavesWhatWasChosen
