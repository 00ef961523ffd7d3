SPECIFICATION TransferSpec
CONSTANTS
  w1 = w1
  w2 = w2
  ada = ada
  obi = obi
  f1 = f1
  d1 = d1
  c1 = c1
  d2 = d2
  c2 = c2
  x1 = x1
  x2 = x2
  Wallet = {w1}
  User = {ada, obi}
  Owner <- OwnerDef
  Transfer = {x1, x2}
  DebitId <- TwoDebitIds
  CreditId <- TwoCreditIds
  TxId = {f1, d1, c1, d2, c2}
  Kobo = {1}
  MaxTime = 0
INVARIANTS
  TransferTypeOK
  OnlyOwnersPay
PROPERTIES
  UsesTransactionService
  PaymentSpec
  EveryTransferEnds
  EveryCallEnds
CHECK_DEADLOCK FALSE
