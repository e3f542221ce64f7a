SPECIFICATION Spec
CONSTANTS
  Tx = {t1}
  Deposits = {d1}
  Confirms = {c1, c2}
  NoTx = NoTx
  Faults = {}
  MaxFaults = 0
INVARIANTS ConfirmedOnce
