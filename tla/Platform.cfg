SPECIFICATION PlatformSpec
CONSTANTS
  Caller = {c1, c2, c3}
  FailureThreshold = 3
  SuccessThreshold = 2
  Cooldown = 2
  GuardInTry = FALSE
  MaxOutages = 2
  Instance = {i1, i2, i3}
  None = None
  Ttl = 2
  MaxRun = 3
  LockFaults = {"mongo", "process"}
  MaxLockFaults = 2
  burning = burning
  vault = vault
  HandlerAttempts = 2
  FetchAttempts = 2
  ReconnectAttempts = 2
  Contracts <- TwoContracts
  Handlers <- ThreeHandlers
  PageSize = 2
  MaxEffects <- TwoAndOne
  Faults = {"horizon", "handler", "lookup", "broker", "process"}
  MaxFaults = 4
  Consumers = 3
  BootRetries = 2
  MaxRequests = 2
  SeqMax = 2
  MaxMs = 4
  MaxIds = 4
  MaxSteps = 1
INVARIANTS OneRuns CursorSound OrderlyLifecycle IdsOrdered
PROPERTIES Recovers JobsRunAgain EffectsDispatched
CHECK_DEADLOCK FALSE
