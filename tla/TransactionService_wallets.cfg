SPECIFICATION Spec
CONSTANTS
  Wallet = {w1, w2}
  TxId = {t1, t2, t3}
  Kobo = {0, 1}
  MaxTime = 0
SYMMETRY Symmetry
INVARIANTS
  TypeOK
  BalanceExplained
  OneLiveWallet
PROPERTIES
  BookSpec
CHECK_DEADLOCK FALSE
