------------------------- MODULE WalletServiceProofs -------------------------
(****************************************************************************)
(* Proofs about WalletService, for all amounts, lists and numbers of calls. *)
(* ControlInv carries SaveKindMatchesTable; SumInv, which relates the       *)
(* running call to what was posted, carries BalanceIsPosted.                *)
(****************************************************************************)
EXTENDS WalletService, WalletBalanceProofs

USE DEF Row, Entity, Tally, NoTally, Plus

\* What a Transaction offers to the lemmas of WalletBalanceProofs.
LEMMA TransactionIsTyped ==
  ASSUME NEW tx \in Transaction
  PROVE  /\ tx.amount \in Money
         /\ tx.version \in Nat
         /\ tx.type \in TransactionType
         /\ SignedAmount(tx) \in Int
<1>1. tx.amount \in Money
  BY WalletServiceAssumption DEF Transaction, Money
<1>2. tx.version \in Nat /\ tx.type \in TransactionType
  BY WalletServiceAssumption DEF Transaction
<1>3. QED
  BY <1>1, <1>2 DEF SignedAmount, Money

\* Rounding keeps exact sums, and moves no other by more than one.
LEMMA DoubleOfClose ==
  ASSUME NEW n \in Nat
  PROVE  /\ DoubleOf(n) \in Nat
         /\ n - DoubleOf(n) \in {-1, 0, 1}
BY WalletServiceAssumption DEF DoubleOf

\* What an iteration makes of the entity's balance data.
LEMMA FoldedState ==
  ASSUME TypeOK, NEW tx \in Transaction, Fold(tx)
  PROVE  /\ entity'.state \in WalletState
         /\ entity'.control = entity.control
         /\ entity'.state.type = ApplyTransaction(entity.state, tx).type
         /\ entity'.state.balance.value
              = DoubleOf(ApplyTransaction(entity.state, tx).balance.value)
         /\ ApplyTransaction(entity.state, tx) \in WalletState
         /\ delta' \in Tally
<1> DEFINE result == ApplyTransaction(entity.state, tx)
<1>1. result \in WalletState
  BY ApplyType, TransactionIsTyped DEF TypeOK
<1>2. DoubleOf(result.balance.value) \in Nat
  BY <1>1, DoubleOfClose DEF WalletState, Money
<1>3. entity' = [entity EXCEPT
        !.state = [result EXCEPT !.balance.value = DoubleOf(result.balance.value)]]
  BY DEF Fold
<1>4. [result EXCEPT !.balance.value = DoubleOf(result.balance.value)] \in WalletState
  BY <1>1, <1>2 DEF WalletState, Money
<1>5. delta' \in Tally
  BY TransactionIsTyped DEF Fold, TypeOK
<1>6. QED
  BY <1>1, <1>3, <1>4, <1>5 DEF TypeOK, WalletState, Money

LEMMA NoEntityType == NoEntity \in Entity
BY NewWalletType DEF NoEntity

\* The variables keep their types.
THEOREM TypeCorrect == Spec => []TypeOK
<1>1. Init => TypeOK
  BY NoEntityType DEF Init, TypeOK
<1>2. TypeOK /\ [Next]_vars => TypeOK'
  <2> SUFFICES ASSUME TypeOK, [Next]_vars PROVE TypeOK'
    OBVIOUS
  <2> USE DEF TypeOK
  <2>1. CASE Create
    BY <2>1, NewWalletType DEF Create
  <2>2. CASE Load
    BY <2>2 DEF Load, ToEntity, FromState
  <2>3. ASSUME NEW tx \in Transaction, Fold(tx) PROVE TypeOK'
    <3>1. entity' \in Entity
      BY <2>3, FoldedState DEF Fold
    <3>2. QED
      BY <2>3, <3>1, FoldedState DEF Fold
  <2>4. ASSUME NEW tx \in Transaction, Throw(tx) PROVE TypeOK'
    BY <2>4, NoEntityType DEF Throw, EndCall
  <2>5. CASE EndOfList
    BY <2>5 DEF EndOfList
  <2>6. CASE Save
    <3>1. ToRow(Saved) \in Row
      BY DEF ToRow, Saved, IsNew
    <3>2. table' \subseteq Row
      BY <2>6, <3>1 DEF Save
    <3>3. QED
      BY <2>6, <3>2, NoEntityType DEF Save, EndCall
  <2>7. CASE SaveFails
    BY <2>7, NoEntityType DEF SaveFails, EndCall
  <2>8. CASE UNCHANGED vars
    BY <2>8 DEF vars
  <2>9. QED
    BY <2>1, <2>2, <2>3, <2>4, <2>5, <2>6, <2>7, <2>8 DEF Next
<1>3. QED
  BY <1>1, <1>2, PTL DEF Spec

------------------------------------------------------------------------------

\* The entity of a running call is fresh exactly while the wallet has no row.
ControlInv ==
  /\ pc = "loop" => table # {}
  /\ pc = "save" => (entity.control = 0 <=> table = {})
  /\ pc = "loop" => entity.control # 0

LEMMA ControlInvariant == Spec => []ControlInv
<1>1. Init => ControlInv
  BY DEF Init, ControlInv
<1>2. TypeOK /\ ControlInv /\ [Next]_vars => ControlInv'
  <2> SUFFICES ASSUME TypeOK, ControlInv, [Next]_vars PROVE ControlInv'
    OBVIOUS
  <2> USE DEF TypeOK, ControlInv
  <2>1. CASE Create
    BY <2>1 DEF Create
  <2>2. CASE Load
    BY <2>2 DEF Load, ToEntity, FromState
  <2>3. ASSUME NEW tx \in Transaction, Fold(tx) PROVE ControlInv'
    BY <2>3, FoldedState DEF Fold
  <2>4. ASSUME NEW tx \in Transaction, Throw(tx) PROVE ControlInv'
    BY <2>4 DEF Throw, EndCall
  <2>5. CASE EndOfList
    BY <2>5 DEF EndOfList
  <2>6. CASE Save
    BY <2>6 DEF Save, EndCall, Saved, ToRow
  <2>7. CASE SaveFails
    BY <2>7 DEF SaveFails, EndCall
  <2>8. CASE UNCHANGED vars
    BY <2>8 DEF vars
  <2>9. QED
    BY <2>1, <2>2, <2>3, <2>4, <2>5, <2>6, <2>7, <2>8 DEF Next
<1>3. QED
  BY <1>1, <1>2, TypeCorrect, PTL DEF Spec

\* save inserts only a wallet without a row and updates only one that has it.
THEOREM SaveKind == Spec => []SaveKindMatchesTable
<1>1. TypeOK /\ ControlInv => SaveKindMatchesTable
  BY DEF TypeOK, ControlInv, SaveKindMatchesTable, Saved, IsNew
<1>2. QED
  BY <1>1, TypeCorrect, ControlInvariant, PTL

------------------------------------------------------------------------------

\* The row shows what was posted, up to its roundings; the entity of a running
\* call shows that and what the call has folded in since it loaded the row.
SumInv ==
  /\ BalanceIsPosted
  /\ table = {} => posted = NoTally
  /\ pc = "idle" => delta = NoTally
  /\ pc # "idle" =>
       Distance(SignedBalance(entity.state), posted.sum + delta.sum)
         <= posted.rounded + delta.rounded
  /\ pc = "save" /\ table = {} => delta = NoTally

\* A call that only folds in covered transactions posts their sum, exactly as
\* long as nothing is rounded.
THEOREM BalanceCorrect == ASSUME OnlyCovered PROVE Spec => []BalanceIsPosted
<1>1. Init => SumInv
  BY DEF Init, SumInv, BalanceIsPosted
<1>2. TypeOK /\ ControlInv /\ SumInv /\ [Next]_vars => SumInv'
  <2> SUFFICES ASSUME TypeOK, ControlInv, SumInv, [Next]_vars PROVE SumInv'
    OBVIOUS
  <2> USE DEF TypeOK, SumInv, BalanceIsPosted
  <2>1. CASE Create
    <3>1. posted = NoTally /\ delta = NoTally /\ SignedBalance(entity'.state) = 0
      BY <2>1, NewWalletType DEF Create
    <3>2. Distance(0, 0) = 0
      BY DEF Distance
    <3>3. QED
      BY <2>1, <3>1, <3>2 DEF Create
  <2>2. CASE Load
    <3>1. PICK row \in table : entity' = ToEntity(row)
      BY <2>2 DEF Load
    <3>2. SignedBalance(entity'.state) = SignedBalance(row.state)
      BY <3>1 DEF ToEntity
    <3>3. delta = NoTally /\ UNCHANGED <<table, delta, posted>> /\ pc' = "loop"
      BY <2>2 DEF Load
    <3>4. posted.sum + delta.sum = posted.sum /\ posted.rounded + delta.rounded = posted.rounded
      BY <3>3
    <3>5. QED
      BY <2>2, <3>2, <3>3, <3>4
  <2>3. ASSUME NEW tx \in Transaction, Fold(tx) PROVE SumInv'
    <3>1. Compatible(entity.state.balance, tx.amount) /\ Covered(entity.state, tx)
      BY <2>3, OnlyCovered DEF Fold, Rejects
    <3>2. SignedBalance(ApplyTransaction(entity.state, tx))
            = SignedBalance(entity.state) + SignedAmount(tx)
      BY <3>1, ApplySigned, TransactionIsTyped
    <3>3. SignedAmount(tx) \in Int
      BY TransactionIsTyped
    <3> DEFINE result == ApplyTransaction(entity.state, tx)
               sum == result.balance.value
               rounding == IF DoubleOf(sum) = sum THEN 0 ELSE 1
    <3>4. sum \in Nat /\ sum - DoubleOf(sum) \in {-1, 0, 1} /\ DoubleOf(sum) \in Nat
      BY <2>3, FoldedState, DoubleOfClose DEF WalletState, Money
    <3>5. Distance(SignedBalance(entity'.state), SignedBalance(result)) <= rounding
      <4>1. /\ entity'.state.balance.value = DoubleOf(sum)
            /\ entity'.state.type = result.type
        BY <2>3, FoldedState
      <4>2. QED
        BY <3>4, <4>1 DEF SignedBalance, Distance
    <3>6. /\ SignedBalance(entity'.state) \in Int
          /\ SignedBalance(entity.state) \in Int
      BY <2>3, FoldedState, SignedType
    <3>7. /\ delta'.sum = delta.sum + SignedAmount(tx)
          /\ delta'.rounded = delta.rounded + rounding
          /\ posted' = posted
      BY <2>3 DEF Fold
    <3>8. Distance(SignedBalance(entity'.state), posted'.sum + delta'.sum)
            <= posted'.rounded + delta'.rounded
      <4>1. Distance(SignedBalance(entity.state), posted.sum + delta.sum)
              <= posted.rounded + delta.rounded
        BY <2>3 DEF Fold
      <4>2. rounding \in {0, 1}
        OBVIOUS
      <4>3. QED
        BY <3>2, <3>3, <3>5, <3>6, <3>7, <4>1, <4>2 DEF Distance
    <3>9. QED
      BY <2>3, <3>8 DEF Fold, ControlInv
  <2>4. ASSUME NEW tx \in Transaction, Throw(tx) PROVE SumInv'
    BY <2>4 DEF Throw, EndCall
  <2>5. CASE EndOfList
    BY <2>5 DEF EndOfList, ControlInv
  <2>6. CASE Save
    <3>1. \A row \in table' : row.state = entity.state
      BY <2>6 DEF Save, ToRow, Saved
    <3>2. table' = {} => table = {} /\ delta = NoTally
      BY <2>6 DEF Save
    <3>3. /\ posted'.sum = posted.sum + delta.sum
          /\ posted'.rounded = posted.rounded + delta.rounded
          /\ pc' = "idle" /\ delta' = NoTally
      BY <2>6 DEF Save, EndCall
    <3>4. table' = {} => posted' = NoTally
      BY <2>6, <3>2 DEF Save
    <3>5. \A row \in table' :
            Distance(SignedBalance(row.state), posted'.sum) <= posted'.rounded
      BY <2>6, <3>1, <3>3 DEF Save
    <3>6. QED
      BY <3>3, <3>4, <3>5
  <2>7. CASE SaveFails
    BY <2>7 DEF SaveFails, EndCall
  <2>8. CASE UNCHANGED vars
    BY <2>8 DEF vars
  <2>9. QED
    BY <2>1, <2>2, <2>3, <2>4, <2>5, <2>6, <2>7, <2>8 DEF Next
<1>3. SumInv => BalanceIsPosted
  BY DEF SumInv
<1>4. QED
  BY <1>1, <1>2, <1>3, TypeCorrect, ControlInvariant, PTL DEF Spec
==============================================================================
