SPECIFICATION FairSpec
CONSTANTS
  Swap = {u1, x1}
  Usdc = {u1}
  Worker = {w1, w2}
  NoSwap = NoSwap
  MaxRetries = 2
  MaxFaults = 4
  Faults <- ServiceFaults
PROPERTIES ImplementsDeposit DepositsSettle
