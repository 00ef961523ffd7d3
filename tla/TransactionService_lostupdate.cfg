SPECIFICATION Spec
CONSTANTS
  Wallet = {w1}
  TxId = {t1, t2}
  Kobo = {1}
  MaxTime = 1
SYMMETRY CallSymmetry
INVARIANTS
  ReturnedStaysApplied
CHECK_DEADLOCK FALSE
