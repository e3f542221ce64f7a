SPECIFICATION JobLockSpec
CONSTANTS
  Instance = {i1, i2}
  None = None
  Ttl = 2
  MaxRun = 3
  LockFaults = {}
  MaxLockFaults = 0
INVARIANTS HolderKeepsLock
