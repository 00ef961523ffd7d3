---------------------------- MODULE WalletService ----------------------------
(****************************************************************************)
(* One wallet under WalletService.create and WalletService.updateBalance,   *)
(* called one at a time as wallet/test/wallet-module does, with             *)
(* WalletRepository.save and TransactionControl underneath.  (Overlapping   *)
(* calls are the subject of module TransactionService.)                     *)
(*                                                                          *)
(* updateBalance examines its list in order, one transaction per iteration, *)
(* so the list is chosen as the loop goes: an iteration picks the next      *)
(* transaction, EndOfList ends the list.                                    *)
(*                                                                          *)
(* The value of a Money is a JavaScript number: from 2^53, here Exact, to   *)
(* 2^54 it can only be even, and a sum that is odd is rounded.              *)
(****************************************************************************)
EXTENDS WalletBalance

CONSTANTS
  Kobo,         \* the amounts a transaction may have
  MaxVersion,   \* bound on the versions folded into the wallet
  OnlyCovered,  \* TRUE: callers only pass transactions that are Covered
  Exact         \* stands for 2^53; balances are bounded by 2 * Exact

ASSUME WalletServiceAssumption ==
  /\ Kobo \subseteq Nat
  /\ MaxVersion \in Nat
  /\ OnlyCovered \in BOOLEAN
  /\ Exact \in Nat

VARIABLES
  table,    \* the rows of table Wallet with this walletId
  pc,       \* where the running call is: "idle", "loop" or "save"
  entity,   \* the Wallet object the running call holds
  delta,    \* history: the Tally of what the running call has folded in
  posted    \* history: the Tally of every completed save

vars == <<table, pc, entity, delta, posted>>

\* The columns of a row that save and load distinguish; the column "version"
\* is a boolean, TransactionControl.isNew at the time of the save.
Row == [state : WalletState, version : BOOLEAN]

\* control is the number inside the entity's TransactionControl.
Entity == [state : WalletState, control : Nat]

Transaction ==
  [type : TransactionType, version : 1 .. MaxVersion + 1,
   amount : [value : Kobo, currency : Currency]]

NoEntity == [state |-> NewWallet, control |-> 0]

\* The signed sum of transactions, and how often a balance was rounded.
Tally == [sum : Int, rounded : Nat]

NoTally == [sum |-> 0, rounded |-> 0]

Plus(t, u) == [sum |-> t.sum + u.sum, rounded |-> t.rounded + u.rounded]

Init ==
  /\ table = {}
  /\ pc = "idle"
  /\ entity = NoEntity
  /\ delta = NoTally
  /\ posted = NoTally

------------------------------------------------------------------------------
(* TransactionControl and the two row conversions of WalletRepository.      *)

IsNew(control) == control < 2

\* Mutant: the numbering of TransactionControl.fromState is off by one.
FromStateOffByOne(isNew) == IF isNew THEN 0 ELSE 1

FromState(isNew) == IF isNew THEN 1 ELSE 2

ToRow(e) == [state |-> e.state, version |-> IsNew(e.control)]

ToEntity(row) == [state |-> row.state, control |-> FromState(row.version)]

------------------------------------------------------------------------------

\* WalletService.create: a fresh entity, then the awaited save.
Create ==
  /\ pc = "idle"
  /\ table = {}
  /\ pc' = "save"
  /\ entity' = [state |-> NewWallet, control |-> 0]
  /\ UNCHANGED <<table, delta, posted>>

\* updateBalance's getWalletById; with no row it throws NOT_FOUND and nothing
\* changes.
Load ==
  /\ pc = "idle"
  /\ \E row \in table : entity' = ToEntity(row)
  /\ pc' = "loop"
  /\ UNCHANGED <<table, delta, posted>>

\* The running call ends and its entity is dropped.
EndCall ==
  /\ pc' = "idle"
  /\ entity' = NoEntity
  /\ delta' = NoTally

\* The number that a sum of n, at most 2 * Exact, gives: of two even neighbours
\* the multiple of 4.
DoubleOf(n) ==
  IF n <= Exact \/ n % 2 = 0 THEN n ELSE IF n % 4 = 1 THEN n - 1 ELSE n + 1

\* One iteration that folds tx into the entity.
Fold(tx) ==
  LET result == ApplyTransaction(entity.state, tx)
      sum == result.balance.value
  IN /\ pc = "loop"
     /\ OnlyCovered => Covered(entity.state, tx)
     /\ ~Rejects(entity.state, tx)
     /\ entity.state.version < MaxVersion /\ sum <= 2 * Exact
     /\ entity' = [entity EXCEPT
          !.state = [result EXCEPT !.balance.value = DoubleOf(sum)]]
     /\ delta' = Plus(delta, [sum |-> SignedAmount(tx),
                             rounded |-> IF DoubleOf(sum) = sum THEN 0 ELSE 1])
     /\ UNCHANGED <<table, pc, posted>>

\* One iteration that throws: the whole list is abandoned before any save.
Throw(tx) ==
  /\ pc = "loop"
  /\ Rejects(entity.state, tx)
  /\ EndCall
  /\ UNCHANGED <<table, posted>>

EndOfList ==
  /\ pc = "loop"
  /\ pc' = "save"
  /\ UNCHANGED <<table, entity, delta, posted>>

\* The entity as save writes it: a clone of its control, incremented.
Saved == [entity EXCEPT !.control = @ + 1]

\* WalletRepository.save: insert (refused by the primary key if there is a row)
\* or update by walletId (of no row at all, if there is none).
Save ==
  /\ pc = "save"
  /\ IF IsNew(Saved.control)
       THEN table = {} /\ table' = {ToRow(Saved)}
       ELSE table' = {ToRow(Saved) : row \in table}
  /\ posted' = Plus(posted, delta)
  /\ EndCall

\* The database rejects the statement: PERSISTENCE.
SaveFails ==
  /\ pc = "save"
  /\ EndCall
  /\ UNCHANGED <<table, posted>>

Next ==
  \/ Create
  \/ Load
  \/ \E tx \in Transaction : Fold(tx) \/ Throw(tx)
  \/ EndOfList
  \/ Save
  \/ SaveFails

Spec == Init /\ [][Next]_vars

------------------------------------------------------------------------------

\* The types of the table, the entity and the two history variables.
TypeOK ==
  /\ table \subseteq Row
  /\ pc \in {"idle", "loop", "save"}
  /\ entity \in Entity
  /\ delta \in Tally
  /\ posted \in Tally

\* The stored row shows what was posted: its signed balance is the sum of the
\* transactions of every updateBalance that saved, whatever calls threw half way
\* or failed to save in between, exactly while no balance has passed 2^53, and
\* beyond that to one kobo for each sum that had to be rounded
\* (wallet.service.ts, updateBalance; money.ts, add and difference).
BalanceIsPosted ==
  \A row \in table :
    Distance(SignedBalance(row.state), posted.sum) <= posted.rounded

\* The control's version tells save the truth about the table: it inserts only
\* when the wallet has no row and updates only when it has one, for a fresh
\* entity, a loaded new one and a loaded old one alike (wallet.repository.ts,
\* save and toEntity; concurrency-control.ts, isNew and fromState).
SaveKindMatchesTable ==
  pc = "save" => (IsNew(Saved.control) <=> table = {})
==============================================================================
