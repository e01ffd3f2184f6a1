CONSTANTS
  None = None
  Users = {a, b}
  Temporary = {b}
  TokenLimit = 2
  ActLimit = 3
  Shown = {"execution", "tasks", "reminders", "automations", "channels", "workspaces", "artifacts", "inbox", "conversations", "notifications", "profiles", "sources", "contacts", "plugins", "memory", "learning", "agents", "skills"}
  InstanceCount = 2
  RecordCount = 2
  PageActLimit = 2
SPECIFICATION FairTab
CHECK_DEADLOCK FALSE
INVARIANTS TabTypeOK OnlyLeftoversSkipRotation ShowsWhatIsSelected SelectionIsListed NoEndlessLoading LinksOpenTheirRecord
PROPERTIES ComesToRest
