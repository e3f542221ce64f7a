SPECIFICATION Spec
CONSTANTS
  Bill = {p1, p2}
  Refund = {q1, q2}
  Limit = 1
  MaxEvents = 2
  Caller = {p1, p2}
  Host = {q1, q2}
  Key = {1}
  Address = {"a", "b"}
  NoAddress = "none"
  MaxVersion = 3
  Disburse = {p1, p2}
  Item = {q1, q2}
  MaxTries = 3
  MaxErrors = 3
  Upload = {1, 2}
  File <- TwoFiles
  ChunkSize = 2
  MaxRowErrors = 1
  Call = {p1, p2}
  MaxSends = 2
  MaxRounds = 2
  MaxLosses = 2
  Withdraw = {p1, p2}
  Sweep = {q1, q2}
  Delay = 1
  MaxClock = 2
  SweepTries = 2
  MaxMishaps = 2
  Payout = {p1, p2}
  NoToken = NoToken
  Margin = 1
  Life = 3
  HttpRetries = 1
  MaxTime = 3
  Delivery = {p1, p2}
  EventId = {"e"}
  NoId = "none"
  Tolerance = 1
  MaxFlaws = 1
  MaxSent = 2
  MaxHour = 2
SYMMETRY Interchangeable
INVARIANTS BillsSound WalletSound SalaryAccounted BulkAccounted CallsAccounted AnnouncedOnce PayoutsAccounted InboundSound
CHECK_DEADLOCK FALSE
