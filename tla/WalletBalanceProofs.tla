------------------------- MODULE WalletBalanceProofs -------------------------
(* What one transaction does to a wallet's balance data, for every amount.  *)
EXTENDS WalletBalance, TLAPS

\* A distance of naturals is a natural: difference never builds a negative
\* Money, so the constructor's check cannot fail there.
LEMMA DistanceType ==
  ASSUME NEW i \in Nat, NEW j \in Nat
  PROVE  Distance(i, j) \in Nat
BY DEF Distance

\* Folding a transaction into balance data yields balance data.
LEMMA ApplyType ==
  ASSUME NEW s \in WalletState, NEW tx,
         tx.amount \in Money, tx.version \in Nat
  PROVE  ApplyTransaction(s, tx) \in WalletState
<1>1. /\ s.balance \in Money
      /\ s.type \in BalanceType
  BY DEF WalletState
<1>2. Add(s.balance, tx.amount) \in Money
  BY <1>1 DEF Add, Money
<1>3. Difference(s.balance, tx.amount) \in Money
  BY <1>1, DistanceType DEF Difference, Money
<1>4. QED
  BY <1>1, <1>2, <1>3 DEF ApplyTransaction, WalletState, BalanceType

\* A wallet starts empty.
LEMMA NewWalletType ==
  NewWallet \in WalletState /\ SignedBalance(NewWallet) = 0
BY DEF NewWallet, WalletState, Naira, Money, Currency, BalanceType, SignedBalance

\* The signed value of balance data, and of a transaction, is an integer.
LEMMA SignedType ==
  ASSUME NEW s \in WalletState
  PROVE  SignedBalance(s) \in Int
BY DEF SignedBalance, WalletState, Money

\* Where updateBalance is arithmetic: on a covered transaction in its own
\* currency, the signed balance moves by exactly the signed amount.
LEMMA ApplySigned ==
  ASSUME NEW s \in WalletState, NEW tx,
         tx.amount \in Money, tx.type \in TransactionType,
         Compatible(s.balance, tx.amount), Covered(s, tx)
  PROVE  SignedBalance(ApplyTransaction(s, tx))
           = SignedBalance(s) + SignedAmount(tx)
<1> DEFINE b == s.balance.value
           a == tx.amount.value
           after == ApplyTransaction(s, tx)
<1>1. a \in Nat /\ b \in Nat
  BY DEF WalletState, Money
<1>2. s.type = "IDEAL" \/ s.type = "OVERDRAFT"
  BY DEF WalletState, BalanceType
<1>3. GreaterOrEqual(tx.amount, s.balance) <=> a >= b
  BY DEF GreaterOrEqual, Compatible
<1>4. CASE tx.type = "IN" /\ s.type = "IDEAL"
  <2>1. after.balance.value = b + a /\ after.type = "IDEAL"
    BY <1>4 DEF ApplyTransaction, ChangesSign, Add
  <2>2. QED
    BY <1>1, <1>4, <2>1 DEF SignedBalance, SignedAmount
<1>5. CASE tx.type = "IN" /\ s.type = "OVERDRAFT"
  <2>1. a >= b
    BY <1>1, <1>3, <1>5 DEF Covered, Overdrawn
  <2>2. after.balance.value = a - b /\ after.type = "IDEAL"
    BY <1>1, <1>3, <1>5, <2>1
    DEF ApplyTransaction, ChangesSign, Difference, Distance
  <2>3. QED
    BY <1>1, <1>5, <2>2 DEF SignedBalance, SignedAmount
<1>6. CASE tx.type = "OUT" /\ s.type = "IDEAL"
  <2>1. CASE a >= b
    <3>1. after.balance.value = a - b /\ after.type = "OVERDRAFT"
      BY <1>1, <1>3, <1>6, <2>1
      DEF ApplyTransaction, ChangesSign, Difference, Distance
    <3>2. QED
      BY <1>1, <1>6, <3>1 DEF SignedBalance, SignedAmount
  <2>2. CASE a < b
    <3>1. after.balance.value = b - a /\ after.type = "IDEAL"
      BY <1>1, <1>3, <1>6, <2>2
      DEF ApplyTransaction, ChangesSign, Difference, Distance
    <3>2. QED
      BY <1>1, <1>6, <3>1 DEF SignedBalance, SignedAmount
  <2>3. QED
    BY <1>1, <2>1, <2>2
<1>7. CASE tx.type = "OUT" /\ s.type = "OVERDRAFT"
  <2>1. b = 0
    BY <1>1, <1>7 DEF Covered, Overdrawn
  <2>2. after.balance.value = a /\ after.type = "OVERDRAFT"
    BY <1>1, <1>7, <2>1
    DEF ApplyTransaction, ChangesSign, Difference, Distance
  <2>3. QED
    BY <1>1, <1>7, <2>1, <2>2 DEF SignedBalance, SignedAmount
<1>8. QED
  BY <1>2, <1>4, <1>5, <1>6, <1>7 DEF TransactionType
==============================================================================
