---------------------------- MODULE Transferring ----------------------------
(****************************************************************************)
(* TransferringService.transfer                                             *)
(* (wallet/src/features/transferring/transferring.service.ts) over the      *)
(* credits and debits of TransactionService, with the wallet controller's   *)
(* fund requests beside it.  A transfer runs one debit and then one credit, *)
(* each a call of TransactionService with an id drawn when the Transferring *)
(* entity is initialized.  Nothing about a transfer itself is stored        *)
(* (TransferringRepository has no caller), so one that stops stays stopped. *)
(****************************************************************************)
EXTENDS TransactionService

CONSTANTS
  Transfer,    \* transfer requests
  DebitId,     \* senderDebitTransactionId of each transfer
  CreditId,    \* receiverDebitTransactionId of each transfer
  User,        \* user ids
  Owner        \* the userId stored in each wallet

ASSUME TransferringAssumption ==
  /\ DebitId \in [Transfer -> TxId]
  /\ CreditId \in [Transfer -> TxId]
  /\ Owner \in [Wallet -> User]
  /\ \A t, u \in Transfer :
       /\ DebitId[t] # CreditId[u]
       /\ (DebitId[t] = DebitId[u] \/ CreditId[t] = CreditId[u]) => t = u

VARIABLES
  stage,    \* what each transfer is waiting for, or how it ended
  order     \* the arguments of each transfer

transferVars == <<stage, order>>
allVars == <<vars, transferVars>>

\* The transaction ids that fundWallet draws.
FundId ==
  TxId \ ({DebitId[t] : t \in Transfer} \cup {CreditId[t] : t \in Transfer})

Order ==
  [user : User, sender : Wallet, receiver : Wallet, kobo : Kobo]

NoOrder == [user |-> "NONE"]

\* "debit" and "credit" await the call of TransactionService, the others a
\* statement of transfer or process itself.
OwnAwait == {"getWallet", "findDebit", "findCredit"}

InTransfer == OwnAwait \cup {"debit", "credit"}

TransferInit ==
  /\ Init
  /\ stage = [t \in Transfer |-> "idle"]
  /\ order = [t \in Transfer |-> NoOrder]

------------------------------------------------------------------------------

Advance(t, next) == stage' = [stage EXCEPT ![t] = next]

\* POST /wallets/fund: a credit of any wallet, by anyone.
Fund(id, w, kobo) ==
  /\ id \in FundId
  /\ Credit(id, w, kobo)
  /\ UNCHANGED transferVars

\* POST /wallets/:sender_wallet_id/transfer, behind the access guard.
Place(t) ==
  /\ stage[t] = "idle"
  /\ \E o \in Order : order' = [order EXCEPT ![t] = o]
  /\ Advance(t, "getWallet")
  /\ UNCHANGED vars

\* Mutant: the owner check is missing.
CheckOwnerMissing(t) ==
  /\ stage[t] = "getWallet"
  /\ Advance(t, IF order[t].sender \in created THEN "findDebit" ELSE "failed")
  /\ UNCHANGED <<vars, order>>

\* getWalletById of the sender's wallet and the owner check: NOT_FOUND and
\* NOT_ALLOWED end the transfer.
CheckOwner(t) ==
  /\ stage[t] = "getWallet"
  /\ Advance(t, IF order[t].sender \in created /\
                   Owner[order[t].sender] = order[t].user
                  THEN "findDebit" ELSE "failed")
  /\ UNCHANGED <<vars, order>>

Recorded(id) == \E r \in ledger : r.id = id

\* getTransactionIfExists of the debit, then the debit unless it exists.
FindDebit(t) ==
  /\ stage[t] = "findDebit"
  /\ IF Recorded(DebitId[t])
       THEN Advance(t, "findCredit") /\ UNCHANGED vars
       ELSE /\ Advance(t, "debit")
            /\ Debit(DebitId[t], order[t].sender, order[t].kobo)
  /\ UNCHANGED order

\* The same for the credit; the wallet it names is the sender's.
FindCredit(t) ==
  /\ stage[t] = "findCredit"
  /\ IF Recorded(CreditId[t])
       THEN Advance(t, "returned") /\ UNCHANGED vars
       ELSE /\ Advance(t, "credit")
            /\ Credit(CreditId[t], order[t].sender, order[t].kobo)
  /\ UNCHANGED order

\* Mutant: the code of the exception becomes the state of the transfer.
DebitEndsCopied(t) ==
  /\ stage[t] = "debit"
  /\ pc[DebitId[t]] \in Ended
  /\ Advance(t, IF pc[DebitId[t]] = "returned"
                  THEN "findCredit" ELSE pc[DebitId[t]])
  /\ UNCHANGED <<vars, order>>

\* Mutant: a debit that did not return is called again under the same id.
DebitEndsRetried(t) ==
  /\ stage[t] = "debit"
  /\ pc[DebitId[t]] \in Ended
  /\ IF pc[DebitId[t]] = "returned"
       THEN Advance(t, "findCredit") /\ UNCHANGED vars
       ELSE /\ GoTo(DebitId[t], "getWallet")
            /\ UNCHANGED <<created, wallet, ledger, clock, request, frame, stage>>
  /\ UNCHANGED order

\* Mutant: the exception of the debit is swallowed.
DebitEndsSwallowed(t) ==
  /\ stage[t] = "debit"
  /\ pc[DebitId[t]] \in Ended
  /\ Advance(t, "findCredit")
  /\ UNCHANGED <<vars, order>>

\* The awaited call ends: its exception becomes the transfer's.
DebitEnds(t) ==
  /\ stage[t] = "debit"
  /\ pc[DebitId[t]] \in Ended
  /\ Advance(t, IF pc[DebitId[t]] = "returned" THEN "findCredit" ELSE "failed")
  /\ UNCHANGED <<vars, order>>

\* Mutant: the transfer only hears of a credit that returns.
CreditEndsDeaf(t) ==
  /\ stage[t] = "credit"
  /\ pc[CreditId[t]] = "returned"
  /\ Advance(t, "returned")
  /\ UNCHANGED <<vars, order>>

CreditEnds(t) ==
  /\ stage[t] = "credit"
  /\ pc[CreditId[t]] \in Ended
  /\ Advance(t, IF pc[CreditId[t]] = "returned" THEN "returned" ELSE "failed")
  /\ UNCHANGED <<vars, order>>

\* A statement of the transfer itself fails, or the process dies there.
FailTransfer(t) ==
  /\ stage[t] \in OwnAwait
  /\ Advance(t, "failed")
  /\ UNCHANGED <<vars, order>>

TransferStep(t) ==
  \/ CheckOwner(t)
  \/ FindDebit(t)
  \/ FindCredit(t)
  \/ DebitEnds(t)
  \/ CreditEnds(t)

\* What the other module's actions do by themselves.
ServiceStep ==
  /\ \/ Tick
     \/ \E w \in Wallet : CreateWallet(w)
     \/ \E id \in TxId : Step(id) \/ Fail(id)
  /\ UNCHANGED transferVars

TransferNext ==
  \/ ServiceStep
  \/ \E id \in TxId, w \in Wallet, kobo \in Kobo : Fund(id, w, kobo)
  \/ \E t \in Transfer : Place(t) \/ TransferStep(t) \/ FailTransfer(t)

TransferFairness ==
  /\ \A id \in TxId : WF_allVars(Step(id) /\ UNCHANGED transferVars)
  /\ \A t \in Transfer : WF_allVars(TransferStep(t))

TransferSafety == TransferInit /\ [][TransferNext]_allVars

TransferSpec == TransferSafety /\ TransferFairness

------------------------------------------------------------------------------

\* The types of the two variables of this module.
TransferTypeOK ==
  /\ stage \in [Transfer -> {"idle", "returned", "failed"} \cup InTransfer]
  /\ order \in [Transfer -> Order \cup {NoOrder}]

\* Transfers use the transaction service as its own specification allows, so
\* everything shown of credits and debits holds when transfers issue them.
UsesTransactionService == Safety

\* Money leaves a wallet only by the wish of its owner: every debit on record
\* is that of a transfer its wallet's owner ordered, for the amount ordered
\* (transferring.service.ts, transfer and process).
OnlyOwnersPay ==
  \A r \in ledger :
    r.type = "OUT" =>
      \E t \in Transfer :
        /\ r.id = DebitId[t]
        /\ r.wallet = order[t].sender
        /\ r.amount = Naira(order[t].kobo)
        /\ Owner[r.wallet] = order[t].user

\* Every transfer that starts ends.
EveryTransferEnds ==
  \A t \in Transfer : stage[t] \in InTransfer ~> stage[t] \notin InTransfer

\* What the controller's answer calls receiver_credit_transaction is a credit
\* of the receiver's wallet.
ReceiverIsCredited ==
  \A t \in Transfer, r \in ledger :
    r.id = CreditId[t] => r.wallet = order[t].receiver

------------------------------------------------------------------------------
(* The two halves of a transfer, as module Payment orders them.             *)

Half ==
  [t \in Transfer |->
     IF Recorded(CreditId[t]) THEN "both"
     ELSE IF Recorded(DebitId[t]) THEN "paid" ELSE "none"]

Verdict ==
  [t \in Transfer |->
     IF stage[t] \in {"returned", "failed"} THEN stage[t] ELSE "open"]

Payment == INSTANCE Payment WITH half <- Half, verdict <- Verdict

\* A transfer implements the payment.
PaymentSpec == Payment!Spec
==============================================================================
