SPECIFICATION QueuesSpec
CONSTANTS
  Webhook = {w1}
  Notice = {n1}
  Audit = {a1}
  Enveloped = {}
  MaxPosts = 2
  MaxRetries = 1
  MaxCrashes = 0
INVARIANTS AttemptedBeforeGivenUp
CHECK_DEADLOCK FALSE
