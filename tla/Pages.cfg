CONSTANTS
  Workflow = {w1, w2}
  Existing = {w1}
  MaxEdits = 1
  MaxOpened = 2
  MaxClicks = 2
  MaxLate = 1
  NewWorkflow = NewWorkflow
  NoDraft = NoDraft
  Type = {"SLACK_SEND_MESSAGE", "CONDITION", "HTTP_REQUEST"}
  Stored <- StoredLists
  MaxActions = 2
  Tab = {t1, t2}
  LossLimit = 1
  MaxCalls = 3
  Plan = {p1, p2}
  MaxMounts = 2
  MaxLoads = 3
  NoPlan = NoPlan
  MaxLeads = 2
  MaxTyped = 1
  Found = {1}
  MaxFlight = 2
  Provider = {"google", "slack"}
  Account = {a1, a2}
  MaxPending = 3
  None = None
  MaxKeys = 2
  MaxTries = 2
  Template = {"a", "b"}
  Category = {"Sales", "Support"}
  category <- CategoryOf
  is_featured = {"a"}
  NoTemplate = NoTemplate
  User = {u1, u2}
  Me = u1
  Admins = {u1, u2}
  MaxChanges = 2
  Row = {1, 2}
  MaxOthers = 1
  MaxCampaigns = 2
  MaxTexts = 2
SPECIFICATION Spec
INVARIANTS EditTargetsOpened SetupAgrees UpdatesGoHome ActiveIsReviewed LinksSound
  BusyForCause ShownIsServers OneCopyEach AdministratorLeft
PROPERTIES ReviewKeepsSetup
CHECK_DEADLOCK FALSE
