SPECIFICATION SpecCredits
CONSTANTS
  Wallet = {w1, w2}
  TxId = {t1, t2, t3, t4}
  Kobo = {1}
  MaxTime = 0
SYMMETRY Symmetry
INVARIANTS
  LastTransactionIsOwn
CHECK_DEADLOCK FALSE
