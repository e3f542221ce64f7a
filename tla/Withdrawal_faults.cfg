SPECIFICATION FairSpec
CONSTANTS
  t1 = t1
  t2 = t2
  flutterwave = flutterwave
  paystack = paystack
  Provider = {flutterwave, paystack}
  Fallback = flutterwave
  NoTx = NoTx
  NoProvider = NoProvider
  Tx = {t1, t2}
  Route <- DefaultRoute
  Worker = {w1, w2}
  MaxRetries = 1
  MaxEvents <- RowEvents
  Faults = {"db", "provider", "late", "channel", "process"}
  MaxFaults = 2
INVARIANTS CompletedIsPaid PaidOnceInSequence
PROPERTIES WithdrawalsEnd
CHECK_DEADLOCK FALSE
