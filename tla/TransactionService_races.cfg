SPECIFICATION Spec
CONSTANTS
  Wallet = {w1}
  TxId = {t1, t2, t3}
  Kobo = {1}
  MaxTime = 2
SYMMETRY CallSymmetry
INVARIANTS
  VersionChain
  SolventUnlessTied
CHECK_DEADLOCK FALSE
