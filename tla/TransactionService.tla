------------------------- MODULE TransactionService -------------------------
(****************************************************************************)
(* Concurrent TransactionService.credit and debit calls                     *)
(* (wallet/src/features/transaction/transaction.service.ts) over the tables *)
(* Wallet and Transaction they share.                                       *)
(*                                                                          *)
(* A call is named by the transactionId it is given, a fresh uuid.  It is   *)
(* one asynchronous function: between two of its awaits it runs alone, and  *)
(* at each await any other call may run.  So there is one action per        *)
(* database statement, atomic as PostgreSQL runs it (the service opens no   *)
(* database transaction), which also performs the code up to the next       *)
(* await; the loop of updateBalance is one action per iteration.  A call    *)
(* may stop at any await, because the statement fails or because the        *)
(* process dies; what it has already written stays.                         *)
(****************************************************************************)
EXTENDS WalletBalance, FiniteSets

CONSTANTS
  Wallet,    \* wallet ids that requests may name
  TxId,      \* transaction ids, one for each call
  Kobo,      \* amounts a request may have
  MaxTime    \* bound on the clock

ASSUME TransactionServiceAssumption ==
  /\ Kobo \subseteq Nat
  /\ MaxTime \in Nat

VARIABLES
  created,   \* the wallets that have a row in table Wallet
  wallet,    \* the balance data of that row
  ledger,    \* the rows of table Transaction
  clock,     \* Date.now()
  pc,        \* what each call is waiting for, or how it ended
  request,   \* the arguments of each call
  frame      \* the local variables of each call

vars == <<created, wallet, ledger, clock, pc, request, frame>>

LedgerRow ==
  [id : TxId, wallet : Wallet, type : TransactionType, amount : Money,
   createdAt : Nat, version : Nat]

Request == [type : TransactionType, wallet : Wallet, amount : Money]

NoRequest == [type |-> "NONE"]

(* base: the version of lastTransaction, 0 if there is none.                *)
(* since: when lastTransaction was read.                                    *)
(* seen: the version of the wallet object handed to updateWallet.           *)
(* todo: the rows updateBalance has not reached yet.                        *)
(* entity: the balance data of the Wallet object inside updateBalance.      *)
Frame ==
  [base : Nat, since : Nat, seen : Nat, todo : SUBSET LedgerRow,
   entity : WalletState]

EmptyFrame ==
  [base |-> 0, since |-> 0, seen |-> 0, todo |-> {}, entity |-> NewWallet]

\* What an in-flight call awaits; "update" is the loop and the save after it.
Awaiting ==
  {"getWallet", "getLast", "save", "getAllAfter", "load", "update"}

\* A call returns, is refused (INSUFFICIENT_FUND) or fails (any other error).
Ended == {"returned", "refused", "failed"}

Init ==
  /\ created = {}
  /\ wallet = [w \in Wallet |-> NewWallet]
  /\ ledger = {}
  /\ clock = 0
  /\ pc = [id \in TxId |-> "idle"]
  /\ request = [id \in TxId |-> NoRequest]
  /\ frame = [id \in TxId |-> EmptyFrame]

------------------------------------------------------------------------------

GoTo(id, next) == pc' = [pc EXCEPT ![id] = next]

\* The call ends and its local variables are gone.
End(id, how) ==
  /\ GoTo(id, how)
  /\ frame' = [frame EXCEPT ![id] = EmptyFrame]

Tick ==
  /\ clock < MaxTime
  /\ clock' = clock + 1
  /\ UNCHANGED <<created, wallet, ledger, pc, request, frame>>

\* WalletService.create.
CreateWallet(w) ==
  /\ w \notin created
  /\ created' = created \cup {w}
  /\ UNCHANGED <<wallet, ledger, clock, pc, request, frame>>

Call(id, type, w, kobo, first) ==
  /\ pc[id] = "idle"
  /\ request' = [request EXCEPT ![id] =
                   [type |-> type, wallet |-> w, amount |-> Naira(kobo)]]
  /\ GoTo(id, first)
  /\ UNCHANGED <<created, wallet, ledger, clock, frame>>

\* credit looks up the last transaction first, debit the wallet.
Credit(id, w, kobo) == Call(id, "IN", w, kobo, "getLast")

Debit(id, w, kobo) == Call(id, "OUT", w, kobo, "getWallet")

\* Mutant: credit goes through the balance test of debit.
GetWalletTestsCredits(id) ==
  /\ pc[id] = "getWallet"
  /\ LET w == request[id].wallet
     IN \/ w \notin created /\ End(id, "failed")
        \/ /\ w \in created
           /\ IF HasUpTo(wallet[w], request[id].amount)
                THEN /\ GoTo(id, IF request[id].type = "IN"
                                   THEN "getAllAfter" ELSE "getLast")
                     /\ frame' = [frame EXCEPT ![id].seen = wallet[w].version]
                ELSE End(id, "refused")
  /\ UNCHANGED <<created, wallet, ledger, clock, request>>

\* Mutant: debit does not test the balance.
GetWalletUntested(id) ==
  /\ pc[id] = "getWallet"
  /\ LET w == request[id].wallet
     IN \/ w \notin created /\ End(id, "failed")
        \/ /\ w \in created
           /\ GoTo(id, IF request[id].type = "IN" THEN "getAllAfter" ELSE "getLast")
           /\ frame' = [frame EXCEPT ![id].seen = wallet[w].version]
  /\ UNCHANGED <<created, wallet, ledger, clock, request>>

\* getWalletById: after the insert in credit, before anything else in debit,
\* which also tests the balance and refuses (and notifies the user).
GetWallet(id) ==
  /\ pc[id] = "getWallet"
  /\ LET w == request[id].wallet
         proceed(next) ==
           /\ GoTo(id, next)
           /\ frame' = [frame EXCEPT ![id].seen = wallet[w].version]
     IN \/ w \notin created /\ End(id, "failed")
        \/ w \in created /\ request[id].type = "IN" /\ proceed("getAllAfter")
        \/ /\ w \in created /\ request[id].type = "OUT"
           /\ IF HasUpTo(wallet[w], request[id].amount)
                THEN proceed("getLast")
                ELSE End(id, "refused")
  /\ UNCHANGED <<created, wallet, ledger, clock, request>>

\* The rows that ORDER BY "createdAt" ASC may put first: the database breaks
\* ties as it likes.
Earliest(rows) == {r \in rows : \A s \in rows : r.createdAt <= s.createdAt}

RowsOf(w) == {r \in ledger : r.wallet = w}

\* getLastIfExistsBy: where({ walletId }).orderBy('createdAt', 'asc').first(),
\* read for its version; fromLast starts at 0 when there is no row.
LastVersions(w) ==
  IF RowsOf(w) = {} THEN {0} ELSE {r.version : r \in Earliest(RowsOf(w))}

\* Mutant: the time is taken before the last transaction is looked up.
GetLastTimedEarly(id) ==
  /\ pc[id] = "getLast"
  /\ \E base \in LastVersions(request[id].wallet) :
       frame' = [frame EXCEPT ![id].base = base]
  /\ GoTo(id, "save")
  /\ UNCHANGED <<created, wallet, ledger, clock, request>>

GetLast(id) ==
  /\ pc[id] = "getLast"
  /\ \E base \in LastVersions(request[id].wallet) :
       frame' = [frame EXCEPT ![id].base = base, ![id].since = clock]
  /\ GoTo(id, "save")
  /\ UNCHANGED <<created, wallet, ledger, clock, request>>

\* Transaction.create, which takes the time, and TransactionRepository.save.
\* Then credit reads the wallet, debit goes on with the one it has.
Insert(id) ==
  /\ pc[id] = "save"
  /\ \E now \in frame[id].since .. clock :
       ledger' = ledger \cup
         {[id |-> id, wallet |-> request[id].wallet, type |-> request[id].type,
           amount |-> request[id].amount, createdAt |-> now,
           version |-> frame[id].base + 1]}
  /\ GoTo(id, IF request[id].type = "IN" THEN "getWallet" ELSE "getAllAfter")
  /\ UNCHANGED <<created, wallet, clock, request, frame>>

\* getAllInAscOrderAfter: where('version', '>', version), of every wallet.
GetAllAfter(id) ==
  /\ pc[id] = "getAllAfter"
  /\ frame' = [frame EXCEPT ![id].todo = {r \in ledger : r.version > frame[id].seen}]
  /\ GoTo(id, "load")
  /\ UNCHANGED <<created, wallet, ledger, clock, request>>

\* updateBalance loads the wallet again.
Load(id) ==
  /\ pc[id] = "load"
  /\ frame' = [frame EXCEPT ![id].entity = wallet[request[id].wallet]]
  /\ GoTo(id, "update")
  /\ UNCHANGED <<created, wallet, ledger, clock, request>>

\* Mutant: a transaction that does not fit yet is waited for, not rejected.
ApplyNextWaits(id) ==
  /\ pc[id] = "update"
  /\ \E tx \in Earliest(frame[id].todo) :
       /\ ~Rejects(frame[id].entity, tx)
       /\ frame' = [frame EXCEPT
            ![id].entity = ApplyTransaction(frame[id].entity, tx),
            ![id].todo = @ \ {tx}]
  /\ UNCHANGED <<created, wallet, ledger, clock, pc, request>>

\* One iteration of the loop of updateBalance, in the order of createdAt.
ApplyNext(id) ==
  /\ pc[id] = "update"
  /\ \E tx \in Earliest(frame[id].todo) :
       IF Rejects(frame[id].entity, tx)
         THEN End(id, "failed")
         ELSE /\ frame' = [frame EXCEPT
                   ![id].entity = ApplyTransaction(frame[id].entity, tx),
                   ![id].todo = @ \ {tx}]
              /\ UNCHANGED pc
  /\ UNCHANGED <<created, wallet, ledger, clock, request>>

\* WalletRepository.update: where({ walletId }) and nothing else.
Save(id) ==
  /\ pc[id] = "update"
  /\ frame[id].todo = {}
  /\ wallet' = [wallet EXCEPT ![request[id].wallet] = frame[id].entity]
  /\ End(id, "returned")
  /\ UNCHANGED <<created, ledger, clock, request>>

\* The awaited statement fails, its answer is lost or the process dies.
Fail(id) ==
  /\ pc[id] \in Awaiting
  /\ End(id, "failed")
  /\ UNCHANGED <<created, wallet, ledger, clock, request>>

Step(id) ==
  \/ GetWallet(id)
  \/ GetLast(id)
  \/ Insert(id)
  \/ GetAllAfter(id)
  \/ Load(id)
  \/ ApplyNext(id)
  \/ Save(id)

Start(id) ==
  \E w \in Wallet, kobo \in Kobo : Credit(id, w, kobo) \/ Debit(id, w, kobo)

Next ==
  \/ Tick
  \/ \E w \in Wallet : CreateWallet(w)
  \/ \E id \in TxId : Start(id) \/ Step(id) \/ Fail(id)

\* The event loop resumes every call whose statement has been answered, and
\* the database answers: a call in flight takes its next step.
Fairness == \A id \in TxId : WF_vars(Step(id))

Safety == Init /\ [][Next]_vars

Spec == Safety /\ Fairness

------------------------------------------------------------------------------

\* The types of the tables and of the locals of every call.
TypeOK ==
  /\ created \subseteq Wallet
  /\ wallet \in [Wallet -> WalletState]
  /\ ledger \subseteq LedgerRow
  /\ clock \in Nat
  /\ pc \in [TxId -> {"idle"} \cup Awaiting \cup Ended]
  /\ request \in [TxId -> Request \cup {NoRequest}]
  /\ frame \in [TxId -> Frame]

\* The versions of a wallet's transactions have no gap: whatever calls overlap,
\* stop half way or tie on createdAt, each row above version 1 has a row of the
\* same wallet one version below it that the database sorts no later
\* (transaction.entity.ts, create; transaction.repository.ts, getLastIfExistsBy).
VersionChain ==
  \A r \in ledger :
    \/ r.version = 1
    \/ \E s \in ledger :
         /\ s.wallet = r.wallet
         /\ s.version + 1 = r.version
         /\ s.createdAt <= r.createdAt

\* The balance data that some choice of one transaction per version produces.
Balances[n \in Nat] ==
  IF n = 0
    THEN {NewWallet}
    ELSE {ApplyTransaction(s, tx) :
            s \in Balances[n - 1], tx \in {r \in ledger : r.version = n}}

\* A stored balance is always accounted for: it is what exactly one recorded
\* transaction of each version from 1 to lastTransactionVersion adds up to, of
\* whichever wallet, so no race, retry or crash makes money up or counts a
\* version twice (wallet.service.ts, updateBalance; wallet.repository.ts,
\* update).
BalanceExplained ==
  \A w \in Wallet : wallet[w] \in Balances[wallet[w].version]

\* Only one wallet of the whole database ever moves.  getAllInAscOrderAfter has
\* no walletId, so once two wallets have a first transaction every list that
\* starts at version 1 holds both and updateBalance rejects it.
OneLiveWallet ==
  \A v, w \in Wallet : wallet[v].version > 0 /\ wallet[w].version > 0 => v = w

\* Every call that starts ends, however the others run.
EveryCallEnds ==
  \A id \in TxId : pc[id] \in Awaiting ~> pc[id] \in Ended

\* Unless two transactions were created in the same instant, no wallet is ever
\* overdrawn, although a debit checks the balance long before it is applied,
\* against a row that other calls are overwriting (transaction.service.ts,
\* debit; wallet.service.ts, updateBalance).
DistinctTimes ==
  \A r, s \in ledger : r.createdAt = s.createdAt => r = s

Solvent == \A w \in Wallet : ~Overdrawn(wallet[w])

SolventUnlessTied == DistinctTimes => Solvent

\* crediting-wallet.spec.ts and debiting-wallet.spec.ts expect a transaction
\* that credit or debit returned to be the last one in its wallet: when every
\* call has returned, each at a time of its own, each wallet is as many versions
\* on as it has rows.
ReturnedIsApplied ==
  DistinctTimes /\ (\A id \in TxId : pc[id] \in {"idle", "returned"}) =>
    \A w \in Wallet : wallet[w].version = Cardinality(RowsOf(w))

NoneInFlight == \A id \in TxId : pc[id] \notin Awaiting

\* The same of calls that overlap, whose versions may be equal: when no call is
\* left, the wallet of a call that returned is no version behind it, so that no
\* other call's save has undone what it saved.
ReturnedStaysApplied ==
  DistinctTimes /\ NoneInFlight =>
    \A r \in ledger :
      pc[r.id] = "returned" => wallet[r.wallet].version >= r.version

------------------------------------------------------------------------------
(* What the calls promise about the records, whatever becomes of the        *)
(* balances: module TransactionBook.                                        *)

Book ==
  {[id |-> r.id, wallet |-> r.wallet, type |-> r.type, amount |-> r.amount] :
     r \in ledger}

Outcome ==
  [id \in TxId |-> IF pc[id] \in Awaiting THEN "open" ELSE pc[id]]

TransactionBook ==
  INSTANCE TransactionBook WITH book <- Book, asked <- request, outcome <- Outcome

\* credit and debit implement the book.
BookSpec == TransactionBook!Spec
==============================================================================
