SPECIFICATION BasketSpec
CONSTANTS
  Tx = {x1, x2}
  Deposits = {d1, d2}
  Confirms = {c1, c2}
  NoTx = NoTx
  Faults = {"db", "chain", "late", "audit", "process"}
  MaxFaults = 2
  Basket = 2
  Tracker = {x1, x2}
  MaxRate = 2
  MaxHolding = 1
  MaxTroubles = 1
  AlertTotal = 2
  PausePct = 85
  DriftPct = 5
  Updater = {x1, x2}
  Quote = {100, 102, 150}
  Unit = 12
  OutlierPct = 3
  ReviewPct = 5
  BreakerPct = 10
  MaxRates = 2
  Sub = 2
  MaxAmount = 23
  MaxWeight = 5
  MaxBasket = 4
  Reader = {x1, x2}
  Ttl = 2
  NegTtl = 1
  Null = Null
  Bad = Bad
  Slow = 2
  MaxChange = 2
  MaxMoment = 7
  MaxMisses = 2
  Official = {ann}
  LedgerRow <- TwoRows
  Coins = {1, 2}
  Reserve <- OneReserve
  Preferred <- BasketOfOne
  Take = 1
  Life = 1
  MaxLife = 1
  Slowest = 1
  MaxClockwork = 3
  MaxFacts = 1
  MaxViews = 2
  Coin = {1, 2, 3}
  BasisPoints = 10
  Proposer = {x1, x2}
  MaxDay = 2
  MaxGdp = 1
  MaxTrade = 1
  Strategy = {1, 2}
  Change = {d1, d2}
  Server = {x1, x2}
  NoServer = NoServer
  PolicyLimit = 2
  MaxLedger = 2
  MaxPasses = 2
SYMMETRY Interchangeable
INVARIANTS MintsAccounted ReservesSound RatesSound FairShares CachesSound WeightsSound DeploymentSound
CHECK_DEADLOCK FALSE
