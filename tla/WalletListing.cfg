SPECIFICATION Spec
CONSTANTS
  Wallet = {w1, w2, w3, v1}
  Own = {w1, w2, w3}
  Limit = {1, 2, 4}
  MaxTime = 2
INVARIANTS
  ListingTypeOK
  NothingMissed
  PagesContinue
CHECK_DEADLOCK FALSE
