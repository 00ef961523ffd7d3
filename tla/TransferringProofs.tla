------------------------- MODULE TransferringProofs -------------------------
(****************************************************************************)
(* Proofs about Transferring, for any number of concurrent transfers and    *)
(* fund requests.  A transfer only starts calls of TransactionService, so   *)
(* what TransactionServiceProofs and the modules after it show of calls is  *)
(* used here as it stands.                                                  *)
(****************************************************************************)
EXTENDS Transferring, BalanceHistoryProofs

\* TransferTypeOK with what makes it inductive: a transfer that has started
\* has arguments.
TransferTypeInv ==
  /\ TransferTypeOK
  /\ \A t \in Transfer : stage[t] # "idle" => order[t] \in Order

\* The shape of a step: it advances one transfer, or none.
LEMMA TransferStepShape ==
  ASSUME TransferTypeInv, [TransferNext]_allVars
  PROVE  \/ UNCHANGED transferVars
         \/ \E t \in Transfer : Place(t)
         \/ \E t \in Transfer, next \in {"returned", "failed"} \cup InTransfer :
              stage[t] # "idle" /\ Advance(t, next) /\ UNCHANGED order
<1> DEFINE Moves == \E t \in Transfer, next \in {"returned", "failed"} \cup InTransfer :
                      stage[t] # "idle" /\ Advance(t, next) /\ UNCHANGED order
<1>1. CASE ServiceStep
  BY <1>1 DEF ServiceStep
<1>2. ASSUME NEW id \in TxId, NEW w \in Wallet, NEW kobo \in Kobo, Fund(id, w, kobo)
      PROVE  UNCHANGED transferVars
  BY <1>2 DEF Fund
<1>3. ASSUME NEW t \in Transfer, CheckOwner(t) PROVE Moves
  BY <1>3 DEF CheckOwner, InTransfer, OwnAwait
<1>4. ASSUME NEW t \in Transfer, FindDebit(t) PROVE Moves
  BY <1>4 DEF FindDebit, InTransfer, OwnAwait
<1>5. ASSUME NEW t \in Transfer, FindCredit(t) PROVE Moves
  BY <1>5 DEF FindCredit, InTransfer, OwnAwait
<1>6. ASSUME NEW t \in Transfer, DebitEnds(t) PROVE Moves
  BY <1>6 DEF DebitEnds, InTransfer, OwnAwait
<1>7. ASSUME NEW t \in Transfer, CreditEnds(t) PROVE Moves
  BY <1>7 DEF CreditEnds, InTransfer, OwnAwait
<1>8. ASSUME NEW t \in Transfer, FailTransfer(t) PROVE Moves
  BY <1>8 DEF FailTransfer, InTransfer, OwnAwait
<1>9. CASE UNCHANGED allVars
  BY <1>9 DEF allVars
<1>10. QED
  BY <1>1, <1>2, <1>3, <1>4, <1>5, <1>6, <1>7, <1>8, <1>9
  DEF TransferNext, TransferStep

LEMMA TransferTypeInvariant == TransferSafety => []TransferTypeInv
<1>1. TransferInit => TransferTypeInv
  BY DEF TransferInit, TransferTypeInv, TransferTypeOK
<1>2. TransferTypeInv /\ [TransferNext]_allVars => TransferTypeInv'
  <2> SUFFICES ASSUME TransferTypeInv, [TransferNext]_allVars
               PROVE  TransferTypeInv'
    OBVIOUS
  <2> USE DEF TransferTypeInv, TransferTypeOK
  <2>1. CASE UNCHANGED transferVars
    BY <2>1 DEF transferVars
  <2>2. ASSUME NEW t \in Transfer, Place(t) PROVE TransferTypeInv'
    BY <2>2 DEF Place, Advance, InTransfer, OwnAwait
  <2>3. ASSUME NEW t \in Transfer,
               NEW next \in {"returned", "failed"} \cup InTransfer,
               stage[t] # "idle", Advance(t, next), UNCHANGED order
        PROVE  TransferTypeInv'
    BY <2>3 DEF Advance
  <2>4. QED
    BY <2>1, <2>2, <2>3, TransferStepShape
<1>3. QED
  BY <1>1, <1>2, PTL DEF TransferSafety

\* The variables of a transfer keep their types.
THEOREM TransferTypeCorrect == TransferSpec => []TransferTypeOK
<1>1. TransferTypeInv => TransferTypeOK
  BY DEF TransferTypeInv
<1>2. QED
  BY <1>1, TransferTypeInvariant, PTL DEF TransferSpec

------------------------------------------------------------------------------

\* Each step of a transfer is a step of TransactionService or leaves it alone.
LEMMA StepUses ==
  ASSUME TransferTypeInv, [TransferNext]_allVars
  PROVE  [Next]_vars
<1>1. CASE ServiceStep
  BY <1>1 DEF ServiceStep, Next
<1>2. ASSUME NEW id \in TxId, NEW w \in Wallet, NEW kobo \in Kobo, Fund(id, w, kobo)
      PROVE  Next
  BY <1>2 DEF Fund, Next, Start
<1>3. ASSUME NEW t \in Transfer,
             Place(t) \/ FailTransfer(t) \/ CheckOwner(t) \/ DebitEnds(t) \/ CreditEnds(t)
      PROVE  UNCHANGED vars
  BY <1>3 DEF Place, FailTransfer, CheckOwner, DebitEnds, CreditEnds
<1>4. ASSUME NEW t \in Transfer, FindDebit(t) \/ FindCredit(t) PROVE [Next]_vars
  <2>1. /\ order[t].sender \in Wallet /\ order[t].kobo \in Kobo
        /\ DebitId[t] \in TxId /\ CreditId[t] \in TxId
    BY <1>4, TransferringAssumption
    DEF FindDebit, FindCredit, TransferTypeInv, Order
  <2>2. \/ UNCHANGED vars
        \/ Debit(DebitId[t], order[t].sender, order[t].kobo)
        \/ Credit(CreditId[t], order[t].sender, order[t].kobo)
    BY <1>4 DEF FindDebit, FindCredit
  <2>3. QED
    BY <2>1, <2>2 DEF Next, Start
<1>5. CASE UNCHANGED allVars
  BY <1>5 DEF allVars
<1>6. QED
  BY <1>1, <1>2, <1>3, <1>4, <1>5 DEF TransferNext, TransferStep

\* Transfers use the transaction service as its specification allows.
THEOREM TransferUsesService == TransferSpec => UsesTransactionService
<1>1. TransferInit => Init
  BY DEF TransferInit
<1>2. QED
  BY <1>1, StepUses, TransferTypeInvariant, PTL
  DEF TransferSpec, TransferSafety, UsesTransactionService, Safety

\* So whatever transfers and fund requests race, stop half way or tie, versions
\* have no gap, one wallet only moves, every stored balance is accounted for
\* and, unless two transactions tie, no wallet is overdrawn.
THEOREM TransfersKeepTheBooks ==
  TransferSpec =>
    [](VersionChain /\ OneLiveWallet /\ BalanceExplained /\ SolventUnlessTied)
<1>1. TypeInv /\ ChainInv /\ LiveInv /\ HistoryInv =>
        VersionChain /\ OneLiveWallet /\ BalanceExplained /\ SolventUnlessTied
  BY HistoryShows DEF ChainInv, LiveInv, SoleInv, Claimed, OneLiveWallet
<1>2. QED
  BY <1>1, TransferUsesService, TypeInvariant, ChainInvariant, LiveInvariant,
     HistoryInvariant, PTL DEF UsesTransactionService

\* So the invariants of its calls hold here.
LEMMA CallsAreTyped == TransferSafety => [](TypeInv /\ BookInv)
<1>1. TransferInit => Init
  BY DEF TransferInit
<1>2. TransferSafety => Safety
  BY <1>1, StepUses, TransferTypeInvariant, PTL DEF TransferSafety, Safety
<1>3. QED
  BY <1>2, TypeInvariant, BookInvariant, PTL

------------------------------------------------------------------------------
(* Only owners pay: the wish of the owner is passed on from the transfer to *)
(* the debit it starts and to the row that debit inserts.                   *)

\* The transaction id is that of a transfer its wallet's owner ordered.
Ordered(id, w, amount) ==
  \E t \in Transfer :
    /\ id = DebitId[t]
    /\ stage[t] # "idle"
    /\ w = order[t].sender
    /\ amount = Naira(order[t].kobo)
    /\ Owner[w] = order[t].user

PayInv ==
  /\ \A t \in Transfer :
       stage[t] = "findDebit" => Owner[order[t].sender] = order[t].user
  /\ \A id \in TxId :
       pc[id] # "idle" /\ request[id].type = "OUT" =>
         Ordered(id, request[id].wallet, request[id].amount)
  /\ \A r \in ledger : r.type = "OUT" => Ordered(r.id, r.wallet, r.amount)

LEMMA OrderedStays ==
  ASSUME TransferTypeInv, [TransferNext]_allVars,
         NEW id, NEW w, NEW amount, Ordered(id, w, amount)
  PROVE  Ordered(id, w, amount)'
<1>1. ASSUME NEW t \in Transfer, stage[t] # "idle"
      PROVE  stage'[t] # "idle" /\ order'[t] = order[t]
  <2> USE DEF TransferTypeInv, TransferTypeOK
  <2>1. CASE UNCHANGED transferVars
    BY <1>1, <2>1 DEF transferVars
  <2>2. ASSUME NEW u \in Transfer, Place(u)
        PROVE  stage'[t] # "idle" /\ order'[t] = order[t]
    BY <1>1, <2>2 DEF Place, Advance
  <2>3. ASSUME NEW u \in Transfer,
               NEW next \in {"returned", "failed"} \cup InTransfer,
               Advance(u, next), UNCHANGED order
        PROVE  stage'[t] # "idle" /\ order'[t] = order[t]
    BY <1>1, <2>3 DEF Advance, InTransfer, OwnAwait
  <2>4. QED
    BY <2>1, <2>2, <2>3, TransferStepShape
<1>2. PICK t \in Transfer :
        /\ id = DebitId[t]
        /\ stage[t] # "idle"
        /\ w = order[t].sender
        /\ amount = Naira(order[t].kobo)
        /\ Owner[w] = order[t].user
  BY DEF Ordered
<1>3. QED
  BY <1>1, <1>2 DEF Ordered

\* A transfer comes to its debit only past the owner check.
LEMMA OwnerIsChecked ==
  ASSUME TransferTypeInv, PayInv, [TransferNext]_allVars,
         NEW t \in Transfer, stage'[t] = "findDebit"
  PROVE  Owner[order'[t].sender] = order'[t].user
<1> USE DEF TransferTypeInv, TransferTypeOK
<1> DEFINE Goal == Owner[order'[t].sender] = order'[t].user
<1>1. CASE UNCHANGED transferVars
  BY <1>1 DEF transferVars, PayInv
<1>2. ASSUME NEW u \in Transfer, Place(u) PROVE Goal
  BY <1>2 DEF Place, Advance, PayInv
<1>3. ASSUME NEW u \in Transfer, CheckOwner(u) PROVE Goal
  BY <1>3 DEF CheckOwner, Advance, PayInv
<1>4. ASSUME NEW u \in Transfer, FindDebit(u) \/ FindCredit(u) PROVE Goal
  BY <1>4 DEF FindDebit, FindCredit, Advance, PayInv
<1>5. ASSUME NEW u \in Transfer, DebitEnds(u) \/ CreditEnds(u) \/ FailTransfer(u)
      PROVE  Goal
  BY <1>5 DEF DebitEnds, CreditEnds, FailTransfer, Advance, PayInv
<1>6. QED
  BY <1>1, <1>2, <1>3, <1>4, <1>5
  DEF TransferNext, TransferStep, ServiceStep, Fund, allVars

\* A debit is started only by a transfer that is past the owner check.
LEMMA DebitIsOrdered ==
  ASSUME TypeInv, TransferTypeInv, PayInv, [TransferNext]_allVars,
         NEW id \in TxId, pc[id] = "idle", pc'[id] # "idle",
         request'[id].type = "OUT"
  PROVE  Ordered(id, request'[id].wallet, request'[id].amount)
<1> USE DEF TypeInv, TypeOK
<1>1. ASSUME NEW i \in TxId, Step(i) \/ Fail(i) PROVE FALSE
  <2>1. pc[i] # "idle"
    BY <1>1
    DEF Step, GetWallet, GetLast, Insert, GetAllAfter, Load, ApplyNext, Save,
        Fail, Awaiting
  <2>2. QED
    BY <1>1, <2>1, Others
<1>2. ~ServiceStep
  BY <1>1 DEF ServiceStep, Tick, CreateWallet
<1>3. ASSUME NEW i \in TxId, NEW w \in Wallet, NEW kobo \in Kobo, Credit(i, w, kobo)
      PROVE  FALSE
  BY <1>3 DEF Credit, Call, GoTo
<1>4. ASSUME NEW t \in Transfer, FindDebit(t)
      PROVE  Ordered(id, request'[id].wallet, request'[id].amount)
  <2>1. Debit(DebitId[t], order[t].sender, order[t].kobo)
    BY <1>4 DEF FindDebit, vars
  <2>2. DebitId[t] \in TxId
    BY TransferringAssumption
  <2>3. /\ id = DebitId[t]
        /\ request'[id].wallet = order[t].sender
        /\ request'[id].amount = Naira(order[t].kobo)
    BY <2>1, <2>2 DEF Debit, Call, GoTo
  <2>4. QED
    BY <1>4, <2>3 DEF FindDebit, PayInv, Ordered
<1>5. ASSUME NEW t \in Transfer, FindCredit(t) PROVE FALSE
  <2>1. /\ order[t].sender \in Wallet /\ order[t].kobo \in Kobo
        /\ CreditId[t] \in TxId
    BY <1>5, TransferringAssumption DEF FindCredit, TransferTypeInv, Order
  <2>2. QED
    BY <1>3, <1>5, <2>1 DEF FindCredit, vars
<1>6. QED
  BY <1>2, <1>3, <1>4, <1>5
  DEF TransferNext, TransferStep, Fund, Place, CheckOwner, DebitEnds, CreditEnds,
      FailTransfer, vars, allVars

\* Money leaves a wallet only by the wish of its owner.
THEOREM OwnersPay == TransferSpec => []OnlyOwnersPay
<1>1. TransferInit => PayInv
  BY DEF TransferInit, Init, PayInv
<1>2. TypeInv /\ TransferTypeInv /\ PayInv /\ [TransferNext]_allVars => PayInv'
  <2> SUFFICES ASSUME TypeInv, TransferTypeInv, PayInv, [TransferNext]_allVars
               PROVE  PayInv'
    OBVIOUS
  <2>1. [Next]_vars
    BY StepUses
  <2>2. ASSUME NEW id \in TxId, pc'[id] # "idle", request'[id].type = "OUT"
        PROVE  Ordered(id, request[id].wallet, request[id].amount)'
    <3>1. CASE pc[id] = "idle"
      <4>1. Ordered(id, request'[id].wallet, request'[id].amount)
        BY <2>2, <3>1, DebitIsOrdered
      <4>2. QED
        BY <4>1, OrderedStays
    <3>2. CASE pc[id] # "idle"
      <4>1. request'[id] = request[id]
        BY <2>1, <3>2, RequestKept
      <4>2. Ordered(id, request[id].wallet, request[id].amount)
        BY <2>2, <3>2, <4>1 DEF PayInv
      <4>3. QED
        BY <4>1, <4>2, OrderedStays
    <3>3. QED
      BY <3>1, <3>2
  <2>3. ASSUME NEW r \in ledger', r.type = "OUT"
        PROVE  Ordered(r.id, r.wallet, r.amount)'
    <3>1. CASE r \in ledger
      BY <2>3, <3>1, OrderedStays DEF PayInv
    <3>2. CASE r \notin ledger
      <4>1. PICK id \in TxId : Insert(id)
        BY <2>1, <3>2, LedgerStep
      <4>2. /\ r.id = id
            /\ r.type = request[id].type
            /\ r.wallet = request[id].wallet
            /\ r.amount = request[id].amount
        BY <3>2, <4>1, InsertRow
      <4>3. Ordered(r.id, r.wallet, r.amount)
        BY <2>3, <4>1, <4>2 DEF Insert, PayInv
      <4>4. QED
        BY <4>3, OrderedStays
    <3>3. QED
      BY <3>1, <3>2
  <2>4. QED
    BY <2>2, <2>3, OwnerIsChecked DEF PayInv
<1>3. PayInv => OnlyOwnersPay
  BY DEF PayInv, Ordered, OnlyOwnersPay
<1>4. QED
  BY <1>1, <1>2, <1>3, CallsAreTyped, TransferTypeInvariant, PTL
  DEF TransferSpec, TransferSafety

------------------------------------------------------------------------------
(****************************************************************************)
(* A transfer implements Payment, for any number of concurrent transfers:   *)
(* the insert of its debit is Pay, that of its credit is Credit, its end is *)
(* Return or Fail, and every other step leaves half and verdict alone.      *)
(****************************************************************************)

\* Where a transfer is, by where its two calls are.
HalfInv(t) ==
  /\ pc[DebitId[t]] # "idle" => stage[t] \notin {"idle", "getWallet", "findDebit"}
  /\ pc[DebitId[t]] \in Awaiting => stage[t] = "debit"
  /\ stage[t] \in {"findCredit", "credit", "returned"} => InLedger(DebitId[t])
  /\ pc[CreditId[t]] # "idle" => stage[t] \in {"credit", "returned", "failed"}
  /\ pc[CreditId[t]] \in Awaiting => stage[t] = "credit"

LEMMA Ids ==
  ASSUME NEW t \in Transfer
  PROVE  DebitId[t] \in TxId /\ CreditId[t] \in TxId
BY TransferringAssumption

\* A call that has ended does not run again.
LEMMA EndedStays ==
  ASSUME TypeInv, [Next]_vars, NEW id \in TxId, pc[id] \in Ended
  PROVE  pc'[id] = pc[id]
<1> USE DEF TypeInv, TypeOK
<1>1. ASSUME NEW i \in TxId, Start(i) \/ Step(i) \/ Fail(i) PROVE i # id
  BY <1>1
  DEF Start, Credit, Debit, Call, Step, GetWallet, GetLast, Insert, GetAllAfter,
      Load, ApplyNext, Save, Fail, Awaiting, Ended
<1>2. ASSUME NEW i \in TxId, Start(i) \/ Step(i) \/ Fail(i) PROVE pc'[id] = pc[id]
  BY <1>1, <1>2, Others
<1>3. QED
  BY <1>2 DEF Next, Tick, CreateWallet, vars

\* Who starts a call.
LEMMA WhoStarts ==
  ASSUME TypeInv, TransferTypeInv, [TransferNext]_allVars,
         NEW id \in TxId, pc[id] = "idle", pc'[id] # "idle"
  PROVE  \/ id \in FundId
         \/ \E t \in Transfer : id = DebitId[t] /\ FindDebit(t) /\ stage'[t] = "debit"
         \/ \E t \in Transfer : id = CreditId[t] /\ FindCredit(t) /\ stage'[t] = "credit"
<1> USE DEF TypeInv, TypeOK, TransferTypeInv, TransferTypeOK
<1>1. ASSUME NEW i \in TxId, Step(i) \/ Fail(i) PROVE FALSE
  <2>1. pc[i] # "idle"
    BY <1>1
    DEF Step, GetWallet, GetLast, Insert, GetAllAfter, Load, ApplyNext, Save,
        Fail, Awaiting
  <2>2. QED
    BY <1>1, <2>1, Others
<1>2. ~ServiceStep
  BY <1>1 DEF ServiceStep, Tick, CreateWallet
<1>3. ASSUME NEW i \in TxId, NEW w \in Wallet, NEW kobo \in Kobo, Fund(i, w, kobo)
      PROVE  id \in FundId
  BY <1>3 DEF Fund, Credit, Call, GoTo
<1>4. ASSUME NEW t \in Transfer, FindDebit(t)
      PROVE  id = DebitId[t] /\ stage'[t] = "debit"
  BY <1>4, Ids DEF FindDebit, Advance, Debit, Call, GoTo, vars
<1>5. ASSUME NEW t \in Transfer, FindCredit(t)
      PROVE  id = CreditId[t] /\ stage'[t] = "credit"
  BY <1>5, Ids DEF FindCredit, Advance, Credit, Call, GoTo, vars
<1>6. QED
  BY <1>2, <1>3, <1>4, <1>5
  DEF TransferNext, TransferStep, Place, CheckOwner, DebitEnds, CreditEnds,
      FailTransfer, vars, allVars

\* What moves a transfer.
LEMMA WhoAdvances ==
  ASSUME TransferTypeInv, [TransferNext]_allVars, NEW t \in Transfer
  PROVE  \/ stage'[t] = stage[t]
         \/ Place(t) \/ TransferStep(t) \/ FailTransfer(t)
<1> USE DEF TransferTypeInv, TransferTypeOK
<1>1. ASSUME NEW u \in Transfer, u # t, Place(u) \/ TransferStep(u) \/ FailTransfer(u)
      PROVE  stage'[t] = stage[t]
  BY <1>1
  DEF Place, TransferStep, CheckOwner, FindDebit, FindCredit, DebitEnds,
      CreditEnds, FailTransfer, Advance
<1>2. QED
  BY <1>1 DEF TransferNext, ServiceStep, Fund, allVars, transferVars

LEMMA InLedgerStays ==
  ASSUME TypeInv, [Next]_vars, NEW id, InLedger(id)
  PROVE  InLedger(id)'
BY LedgerStep, InsertRow DEF InLedger

\* A transfer that does not move keeps its place while its calls run.
LEMMA HalfStill ==
  ASSUME TypeInv, TransferTypeInv, [TransferNext]_allVars,
         NEW t \in Transfer, HalfInv(t), stage'[t] = stage[t]
  PROVE  HalfInv(t)'
<1>1. [Next]_vars
  BY StepUses
<1>2. pc[DebitId[t]] = "idle" => pc'[DebitId[t]] = "idle"
  <2>1. SUFFICES ASSUME pc[DebitId[t]] = "idle", pc'[DebitId[t]] # "idle"
                 PROVE  FALSE
    OBVIOUS
  <2>2. PICK u \in Transfer : FindDebit(u) /\ stage'[u] = "debit" /\ u = t
    BY <2>1, WhoStarts, Ids, TransferringAssumption DEF FundId
  <2>3. QED
    BY <2>2 DEF FindDebit
<1>3. pc[CreditId[t]] = "idle" => pc'[CreditId[t]] = "idle"
  <2>1. SUFFICES ASSUME pc[CreditId[t]] = "idle", pc'[CreditId[t]] # "idle"
                 PROVE  FALSE
    OBVIOUS
  <2>2. PICK u \in Transfer : FindCredit(u) /\ stage'[u] = "credit" /\ u = t
    BY <2>1, WhoStarts, Ids, TransferringAssumption DEF FundId
  <2>3. QED
    BY <2>2 DEF FindCredit
<1>4. ASSUME NEW id \in TxId, pc'[id] \in Awaiting
      PROVE  pc[id] \in Awaiting \/ pc[id] = "idle"
  BY <1>1, <1>4, EndedStays DEF TypeInv, TypeOK, Awaiting, Ended
<1>5. InLedger(DebitId[t]) => InLedger(DebitId[t])'
  BY <1>1, InLedgerStays
<1>6. QED
  BY <1>2, <1>3, <1>4, <1>5, Ids DEF HalfInv, Awaiting

\* A step of the transfer itself.
LEMMA HalfMoves ==
  ASSUME TypeInv, BookInv, TransferTypeInv,
         NEW t \in Transfer, HalfInv(t),
         Place(t) \/ TransferStep(t) \/ FailTransfer(t)
  PROVE  HalfInv(t)'
<1> USE DEF TypeInv, TypeOK, TransferTypeInv, TransferTypeOK, HalfInv, InLedger
<1>0. DebitId[t] \in TxId /\ CreditId[t] \in TxId /\ DebitId[t] # CreditId[t]
  BY TransferringAssumption
<1>1. CASE Place(t)
  BY <1>1 DEF Place, Advance, vars, Awaiting
<1>2. CASE CheckOwner(t)
  BY <1>2 DEF CheckOwner, Advance, vars, Awaiting
<1>3. CASE FindDebit(t)
  BY <1>0, <1>3 DEF FindDebit, Advance, Recorded, Debit, Call, GoTo, vars, Awaiting
<1>4. CASE FindCredit(t)
  BY <1>0, <1>4 DEF FindCredit, Advance, Recorded, Credit, Call, GoTo, vars, Awaiting
<1>5. CASE DebitEnds(t)
  BY <1>0, <1>5
  DEF DebitEnds, Advance, vars, Awaiting, Ended, BookInv, Recording
<1>6. CASE CreditEnds(t)
  BY <1>0, <1>6 DEF CreditEnds, Advance, vars, Awaiting, Ended
<1>7. CASE FailTransfer(t)
  BY <1>7 DEF FailTransfer, Advance, vars, Awaiting, OwnAwait
<1>8. QED
  BY <1>1, <1>2, <1>3, <1>4, <1>5, <1>6, <1>7 DEF TransferStep

LEMMA HalfInvariant == TransferSafety => [](\A t \in Transfer : HalfInv(t))
<1> DEFINE I == \A t \in Transfer : HalfInv(t)
<1>1. TransferInit => I
  BY Ids DEF TransferInit, Init, HalfInv, Awaiting
<1>2. TypeInv /\ BookInv /\ TransferTypeInv /\ I /\ [TransferNext]_allVars => I'
  BY HalfStill, HalfMoves, WhoAdvances
<1>3. QED
  BY <1>1, <1>2, CallsAreTyped, TransferTypeInvariant, PTL DEF TransferSafety

------------------------------------------------------------------------------
(* The step mapping.                                                        *)

\* A step that advances one transfer from an open stage to another leaves its
\* verdict open; one that ends it gives the verdict.
LEMMA VerdictStep ==
  ASSUME TransferTypeInv, NEW t \in Transfer, NEW next, Advance(t, next),
         stage[t] \notin {"returned", "failed"}
  PROVE  /\ Verdict[t] = "open"
         /\ next \notin {"returned", "failed"} => Verdict' = Verdict
         /\ next \in {"returned", "failed"} =>
              Verdict' = [Verdict EXCEPT ![t] = next]
BY DEF Advance, Verdict, TransferTypeInv, TransferTypeOK

LEMMA HalfStays ==
  ASSUME ledger' = ledger
  PROVE  Half' = Half
BY DEF Half, Recorded

\* The end of a transfer.
LEMMA FailMaps ==
  ASSUME TransferTypeInv, NEW t \in Transfer, Advance(t, "failed"),
         stage[t] \notin {"returned", "failed"}, ledger' = ledger
  PROVE  Payment!Next
<1>1. Payment!Fail(t)
  BY VerdictStep, HalfStays DEF Payment!Fail
<1>2. QED
  BY <1>1 DEF Payment!Next

LEMMA ReturnMaps ==
  ASSUME TransferTypeInv, NEW t \in Transfer, Advance(t, "returned"),
         stage[t] \notin {"returned", "failed"}, ledger' = ledger,
         Recorded(CreditId[t])
  PROVE  Payment!Next
<1>1. Half[t] = "both"
  BY DEF Half
<1>2. Payment!Return(t)
  BY <1>1, VerdictStep, HalfStays DEF Payment!Return
<1>3. QED
  BY <1>2 DEF Payment!Next

LEMMA AdvanceMaps ==
  ASSUME TransferTypeInv, NEW t \in Transfer, NEW next, Advance(t, next),
         stage[t] \notin {"returned", "failed"}, ledger' = ledger,
         next \notin {"returned", "failed"}
  PROVE  UNCHANGED Payment!vars
BY VerdictStep, HalfStays DEF Payment!vars

\* A step of the transfer itself.
LEMMA MoveMaps ==
  ASSUME TypeInv, BookInv, TransferTypeInv, NEW t \in Transfer, HalfInv(t),
         Place(t) \/ TransferStep(t) \/ FailTransfer(t)
  PROVE  [Payment!Next]_(Payment!vars)
<1>1. CASE Place(t)
  BY <1>1, AdvanceMaps DEF Place, vars
<1>2. CASE CheckOwner(t)
  BY <1>2, AdvanceMaps, FailMaps DEF CheckOwner, vars
<1>3. CASE FindDebit(t)
  BY <1>3, AdvanceMaps DEF FindDebit, Debit, Call, vars
<1>4. CASE FindCredit(t)
  BY <1>4, AdvanceMaps, ReturnMaps DEF FindCredit, Credit, Call, vars
<1>5. CASE DebitEnds(t)
  BY <1>5, AdvanceMaps, FailMaps DEF DebitEnds, vars
<1>6. CASE CreditEnds(t)
  <2>1. CASE pc[CreditId[t]] = "returned"
    <3>1. Recorded(CreditId[t])
      BY <2>1, Ids DEF BookInv, Recording, InLedger, Recorded
    <3>2. QED
      BY <1>6, <2>1, <3>1, ReturnMaps DEF CreditEnds, vars
  <2>2. CASE pc[CreditId[t]] # "returned"
    BY <1>6, <2>2, FailMaps DEF CreditEnds, vars
  <2>3. QED
    BY <2>1, <2>2
<1>7. CASE FailTransfer(t)
  BY <1>7, FailMaps DEF FailTransfer, OwnAwait, vars
<1>8. QED
  BY <1>1, <1>2, <1>3, <1>4, <1>5, <1>6, <1>7 DEF TransferStep

\* A step of one of its calls: the insert of the debit, or of the credit.
LEMMA InsertMaps ==
  ASSUME TypeInv, BookInv, TransferTypeInv, \A t \in Transfer : HalfInv(t),
         NEW id \in TxId, Insert(id), UNCHANGED transferVars
  PROVE  [Payment!Next]_(Payment!vars)
<1>1. \A i : Recorded(i)' <=> Recorded(i) \/ i = id
  BY InsertRow DEF Recorded
<1>2. Verdict' = Verdict
  BY DEF Verdict, transferVars
<1>3. ~Recorded(id) /\ pc[id] \in Awaiting
  BY DEF BookInv, NotYet, InLedger, Recorded, Insert, Awaiting
<1>4. ASSUME NEW t \in Transfer, id = DebitId[t] PROVE Payment!Next
  <2>1. stage[t] = "debit" /\ pc[CreditId[t]] = "idle"
    BY <1>3, <1>4 DEF HalfInv
  <2>2. ~Recorded(CreditId[t])
    BY <2>1, Ids DEF BookInv, NotYet, InLedger, Recorded
  <2>3. Half[t] = "none" /\ Verdict[t] = "open"
    BY <1>3, <1>4, <2>1, <2>2 DEF Half, Verdict
  <2>4. Half' = [Half EXCEPT ![t] = "paid"]
    BY <1>1, <1>4, <2>2, TransferringAssumption DEF Half
  <2>5. Payment!Pay(t)
    BY <1>2, <2>3, <2>4 DEF Payment!Pay
  <2>6. QED
    BY <2>5 DEF Payment!Next
<1>5. ASSUME NEW t \in Transfer, id = CreditId[t] PROVE Payment!Next
  <2>1. stage[t] = "credit"
    BY <1>3, <1>5 DEF HalfInv
  <2>2. Recorded(DebitId[t])
    BY <2>1 DEF HalfInv, InLedger, Recorded
  <2>3. Half[t] = "paid" /\ Verdict[t] = "open"
    BY <1>3, <1>5, <2>1, <2>2 DEF Half, Verdict
  <2>4. Half' = [Half EXCEPT ![t] = "both"]
    BY <1>1, <1>5, TransferringAssumption DEF Half
  <2>5. Payment!Credit(t)
    BY <1>2, <2>3, <2>4 DEF Payment!Credit
  <2>6. QED
    BY <2>5 DEF Payment!Next
<1>6. CASE \A t \in Transfer : id # DebitId[t] /\ id # CreditId[t]
  BY <1>1, <1>2, <1>6 DEF Half, Payment!vars
<1>7. QED
  BY <1>4, <1>5, <1>6

LEMMA PaymentStep ==
  ASSUME TypeInv, BookInv, TransferTypeInv, \A t \in Transfer : HalfInv(t),
         [TransferNext]_allVars
  PROVE  [Payment!Next]_(Payment!vars)
<1>1. CASE UNCHANGED transferVars
  <2>1. Verdict' = Verdict
    BY <1>1 DEF Verdict, transferVars
  <2>2. CASE ledger' = ledger
    BY <2>1, <2>2, HalfStays DEF Payment!vars
  <2>3. CASE \E id \in TxId : Insert(id)
    BY <1>1, <2>3, InsertMaps
  <2>4. QED
    BY <2>2, <2>3, StepUses, LedgerStep
<1>2. ASSUME NEW t \in Transfer, Place(t) \/ TransferStep(t) \/ FailTransfer(t)
      PROVE  [Payment!Next]_(Payment!vars)
  BY <1>2, MoveMaps
<1>3. QED
  BY <1>1, <1>2 DEF TransferNext, ServiceStep, Fund, allVars

\* A transfer records its credit only after its debit, each once, and returns
\* only when both are recorded.
THEOREM TransferImplementsPayment == TransferSpec => PaymentSpec
<1>1. TransferInit => Payment!Init
  BY DEF TransferInit, Init, Payment!Init, Half, Verdict, Recorded
<1>2. QED
  BY <1>1, PaymentStep, CallsAreTyped, TransferTypeInvariant, HalfInvariant, PTL
  DEF TransferSpec, TransferSafety, PaymentSpec, Payment!Spec
==============================================================================
