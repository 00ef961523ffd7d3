------------------------ MODULE TransactionServiceMC ------------------------
(* Model-checking definitions for TransactionService. *)
EXTENDS TransactionService, TLC

\* Calls are interchangeable, and so are wallets.
CallSymmetry == Permutations(TxId)

Symmetry == Permutations(TxId) \cup Permutations(Wallet)

------------------------------------------------------------------------------
(* The environment of wallet/test/transaction-module: a call starts when    *)
(* the one before it has ended, and the database never fails.               *)

NextOneByOne ==
  \/ Tick
  \/ \E w \in Wallet : CreateWallet(w)
  \/ \E id \in TxId : NoneInFlight /\ Start(id)
  \/ \E id \in TxId : Step(id)

SpecOneByOne == Init /\ [][NextOneByOne]_vars /\ Fairness

------------------------------------------------------------------------------
(* Credits that overlap in one instant, of a database that never fails.     *)

NextCredits ==
  \/ \E w \in Wallet : CreateWallet(w)
  \/ \E id \in TxId, w \in Wallet, kobo \in Kobo : Credit(id, w, kobo)
  \/ \E id \in TxId : Step(id)

SpecCredits == Init /\ [][NextCredits]_vars /\ Fairness

\* crediting-wallet.spec.ts expects the last transaction version of a wallet to
\* be the version of a transaction of that wallet.  The list that a call folds
\* in holds the rows of every wallet (transaction.repository.ts,
\* getAllInAscOrderAfter).
LastTransactionIsOwn ==
  \A w \in Wallet :
    wallet[w].version > 0 => \E r \in RowsOf(w) : r.version = wallet[w].version
==============================================================================
