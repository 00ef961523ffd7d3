---------------------------- MODULE WalletBalance ----------------------------
(****************************************************************************)
(* The balance data of a Wallet entity and what one transaction does to it: *)
(* the body of the loop in WalletService.updateBalance                      *)
(* (wallet/src/features/wallet/wallet.service.ts).                          *)
(****************************************************************************)
EXTENDS Money

BalanceType == {"IDEAL", "OVERDRAFT"}

TransactionType == {"IN", "OUT"}

\* What updateBalanceData writes: the magnitude of the balance, its sign, and
\* the version of the last transaction folded into them.
WalletState == [balance : Money, type : BalanceType, version : Nat]

NewWallet == [balance |-> Naira(0), type |-> "IDEAL", version |-> 0]

\* Wallet.getBalanceAsNum.
SignedBalance(s) ==
  IF s.type = "IDEAL" THEN s.balance.value ELSE - s.balance.value

\* Wallet.hasUpTo compares magnitudes: the balance type is not consulted.
HasUpTo(s, amount) == GreaterOrEqual(s.balance, amount)

\* Mutant: the version is only required to leave no gap.
RejectsGaps(s, tx) ==
  tx.version > s.version + 1 \/ ~Compatible(s.balance, tx.amount)

\* Mutant: the version is not checked.
RejectsCurrency(s, tx) == ~Compatible(s.balance, tx.amount)

\* The loop throws INVALID_TRANSACTIONS when the version is not the next one,
\* and every branch below throws INCOMPATIABLE_CURRENCY on another currency.
Rejects(s, tx) ==
  \/ tx.version # s.version + 1
  \/ ~Compatible(s.balance, tx.amount)

\* Mutant: an amount equal to the balance does not change the sign.
ChangesSignStrictly(s, tx) ==
  /\ s.type = (IF tx.type = "IN" THEN "OVERDRAFT" ELSE "IDEAL")
  /\ ~GreaterOrEqual(s.balance, tx.amount)

\* A credit that repays a whole overdraft, or a debit that uses up the whole
\* balance: the sign changes.
ChangesSign(s, tx) ==
  /\ s.type = (IF tx.type = "IN" THEN "OVERDRAFT" ELSE "IDEAL")
  /\ GreaterOrEqual(tx.amount, s.balance)

ApplyTransaction(s, tx) ==
  [balance |-> IF tx.type = "IN" /\ ~ChangesSign(s, tx)
                 THEN Add(s.balance, tx.amount)
                 ELSE Difference(s.balance, tx.amount),
   type    |-> IF ~ChangesSign(s, tx) THEN s.type
               ELSE IF tx.type = "IN" THEN "IDEAL" ELSE "OVERDRAFT",
   version |-> tx.version]

\* What the transaction is worth to its wallet.
SignedAmount(tx) == IF tx.type = "IN" THEN tx.amount.value ELSE - tx.amount.value

Overdrawn(s) == s.type = "OVERDRAFT" /\ s.balance.value > 0

\* The transactions on which the loop body is signed arithmetic: an overdrawn
\* wallet only receives credits that repay the overdraft in full.
Covered(s, tx) ==
  Overdrawn(s) => tx.type = "IN" /\ GreaterOrEqual(tx.amount, s.balance)
==============================================================================
