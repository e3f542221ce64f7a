SPECIFICATION FairSpec
CONSTANTS
  Caller = {c1, c2}
  FailureThreshold = 3
  SuccessThreshold = 2
  Cooldown = 2
  GuardInTry = TRUE
  MaxOutages = 2
PROPERTIES CooldownEnds
