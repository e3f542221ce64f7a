SPECIFICATION FairSpec
CONSTANTS
  ngn = ngn
  kes = kes
  Tx = {t1, t2}
  Valid = {t1}
  Basket <- TwoCurrencies
  Worker = {w1, w2}
  NoTx = NoTx
  MaxRetries = 1
  MaxEvents = 2
  Faults = {"db", "basket", "fx", "late", "channel", "process"}
  MaxFaults = 2
INVARIANTS LedgerSound ConvertedOnce
PROPERTIES ConversionsEnd
CHECK_DEADLOCK FALSE
