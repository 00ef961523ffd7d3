SPECIFICATION Spec
CONSTANTS
  Wallet = {w1}
  TxId = {t1, t2, t3}
  Kobo = {1}
  MaxTime = 0
SYMMETRY CallSymmetry
INVARIANTS
  Solvent
CHECK_DEADLOCK FALSE
