SPECIFICATION Spec
CONSTANTS
  Client = {c1, c2}
  Instance = {i1, i2}
  MaxAttempts = 2
  MaxCalls = 3
  MaxOutages = 1
  Visit = {c1, c2}
  UserMax = 2
  IdentifierMax = 3
  DeviceMax = 1
  MaxVisits = 5
  MaxFailures = 1
  Visitor = {c1, c2, k}
  MaxPuts = 2
  MaxScans = 2
  MaxFailedCalls = 1
  Person = {c1, c2}
  NoPerson = NoPerson
  Ask = {i1, i2}
  Alias = {"a"}
  NoAlias = "none"
  Mail = "mail"
  MaxAsks = 3
  Webhook = {w1}
  Notice = {n1}
  Audit = {a1}
  Enveloped = {w1, n1, a1}
  MaxPosts = 3
  MaxRetries = 2
  MaxCrashes = 2
  Row = {1, 2, 3}
  Account = {me, other}
  Me = me
  NoRow = 0
  MaxPageLimit = 2
  DefaultLimit = 1
  SchedulesLimit = 2
  MaxInstant = 2
  MaxGiven = 2
SYMMETRY Interchangeable
INVARIANTS AuthSound RecoverySound ServedIsClean DirectorySound MessagesAccounted ListsSound
CHECK_DEADLOCK FALSE
