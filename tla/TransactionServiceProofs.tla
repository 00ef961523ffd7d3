---------------------- MODULE TransactionServiceProofs ----------------------
(****************************************************************************)
(* Proofs about TransactionService, for any number of concurrent calls,     *)
(* wallets, amounts and clock readings: types, gap-free versions, and that  *)
(* it implements TransactionBook.  OneLiveWalletProofs and                  *)
(* BalanceHistoryProofs go on from here.                                    *)
(****************************************************************************)
EXTENDS TransactionService, WalletBalanceProofs

\* TypeOK with what makes it inductive: a call that has started has arguments.
TypeInv ==
  /\ TypeOK
  /\ \A id \in TxId : pc[id] # "idle" => request[id] \in Request

LEMMA EmptyFrameType == EmptyFrame \in Frame
BY NewWalletType DEF EmptyFrame, Frame

LEMMA NairaType ==
  ASSUME NEW kobo \in Kobo
  PROVE  Naira(kobo) \in Money
BY TransactionServiceAssumption DEF Naira, Money, Currency

\* Ending a call, in any way, keeps the types.
LEMMA EndType ==
  ASSUME TypeInv, NEW id \in TxId, NEW how \in Ended,
         pc[id] # "idle", End(id, how),
         UNCHANGED <<created, ledger, clock, request>>,
         wallet' \in [Wallet -> WalletState]
  PROVE  TypeInv'
<1>1. pc' \in [TxId -> {"idle"} \cup Awaiting \cup Ended]
  BY DEF End, GoTo, TypeInv, TypeOK
<1>2. frame' \in [TxId -> Frame]
  BY EmptyFrameType DEF End, TypeInv, TypeOK
<1>3. \A i \in TxId : pc'[i] # "idle" => pc[i] # "idle"
  BY DEF End, GoTo, TypeInv, TypeOK
<1>4. QED
  BY <1>1, <1>2, <1>3 DEF TypeInv, TypeOK

\* Going on to the next await keeps the types, if the call's frame keeps them.
LEMMA GoToType ==
  ASSUME TypeInv, NEW id \in TxId, NEW next \in Awaiting,
         pc[id] # "idle", GoTo(id, next),
         UNCHANGED <<created, wallet, clock, request>>,
         ledger' \subseteq LedgerRow, frame' \in [TxId -> Frame]
  PROVE  TypeInv'
<1>1. pc' \in [TxId -> {"idle"} \cup Awaiting \cup Ended]
  BY DEF GoTo, TypeInv, TypeOK
<1>2. \A i \in TxId : pc'[i] # "idle" => pc[i] # "idle"
  BY DEF GoTo, TypeInv, TypeOK
<1>3. QED
  BY <1>1, <1>2 DEF TypeInv, TypeOK

LEMMA StartType ==
  ASSUME TypeInv, NEW id \in TxId, Start(id)
  PROVE  TypeInv'
<1>1. PICK w \in Wallet, kobo \in Kobo, type \in TransactionType, first \in Awaiting :
        Call(id, type, w, kobo, first)
  BY DEF Start, Credit, Debit, TransactionType, Awaiting
<1> DEFINE new == [type |-> type, wallet |-> w, amount |-> Naira(kobo)]
<1>2. new \in Request
  BY NairaType DEF Request
<1>3. request' = [request EXCEPT ![id] = new]
  BY <1>1 DEF Call
<1>4. pc' = [pc EXCEPT ![id] = first]
  BY <1>1 DEF Call, GoTo
<1> HIDE DEF new
<1>5. request' \in [TxId -> Request \cup {NoRequest}]
  BY <1>2, <1>3 DEF TypeInv, TypeOK
<1>6. pc' \in [TxId -> {"idle"} \cup Awaiting \cup Ended]
  BY <1>4 DEF TypeInv, TypeOK
<1>7. \A i \in TxId : pc'[i] # "idle" => request'[i] \in Request
  BY <1>2, <1>3, <1>4 DEF TypeInv, TypeOK
<1>8. QED
  BY <1>1, <1>5, <1>6, <1>7 DEF Call, TypeInv, TypeOK

LEMMA GetWalletType ==
  ASSUME TypeInv, NEW id \in TxId, GetWallet(id)
  PROVE  TypeInv'
<1> DEFINE w == request[id].wallet
           seeing == [frame EXCEPT ![id].seen = wallet[w].version]
<1>1. pc[id] # "idle" /\ w \in Wallet
  BY DEF GetWallet, TypeInv, Request
<1>2. seeing \in [TxId -> Frame]
  BY <1>1 DEF TypeInv, TypeOK, Frame, WalletState
<1>3. \/ End(id, "failed") \/ End(id, "refused")
      \/ (GoTo(id, "getAllAfter") \/ GoTo(id, "getLast")) /\ frame' = seeing
  BY DEF GetWallet
<1>4. UNCHANGED <<created, wallet, ledger, clock, request>>
  BY DEF GetWallet
<1> HIDE DEF seeing
<1>5. CASE End(id, "failed") \/ End(id, "refused")
  BY <1>1, <1>4, <1>5, EndType DEF TypeInv, TypeOK, Ended
<1>6. CASE (GoTo(id, "getAllAfter") \/ GoTo(id, "getLast")) /\ frame' = seeing
  BY <1>1, <1>2, <1>4, <1>6, GoToType DEF TypeInv, TypeOK, Awaiting
<1>7. QED
  BY <1>3, <1>5, <1>6

LEMMA GetLastType ==
  ASSUME TypeInv, NEW id \in TxId, GetLast(id)
  PROVE  TypeInv'
<1>1. PICK base \in LastVersions(request[id].wallet) :
        frame' = [frame EXCEPT ![id].base = base, ![id].since = clock]
  BY DEF GetLast
<1>2. base \in Nat
  BY DEF LastVersions, Earliest, RowsOf, TypeInv, TypeOK, LedgerRow
<1>3. frame' \in [TxId -> Frame]
  BY <1>1, <1>2 DEF TypeInv, TypeOK, Frame
<1>4. QED
  BY <1>3, GoToType DEF GetLast, TypeInv, TypeOK, Awaiting

\* The row that Insert adds, and its type.
LEMMA InsertRow ==
  ASSUME TypeInv, NEW id \in TxId, Insert(id)
  PROVE  \E row \in LedgerRow :
           /\ ledger' = ledger \cup {row}
           /\ row.id = id
           /\ row.wallet = request[id].wallet
           /\ row.type = request[id].type
           /\ row.amount = request[id].amount
           /\ row.version = frame[id].base + 1
           /\ frame[id].since <= row.createdAt
           /\ row.createdAt <= clock
<1>1. PICK now \in frame[id].since .. clock :
        ledger' = ledger \cup
          {[id |-> id, wallet |-> request[id].wallet, type |-> request[id].type,
            amount |-> request[id].amount, createdAt |-> now,
            version |-> frame[id].base + 1]}
  BY DEF Insert
<1>2. request[id] \in Request /\ frame[id] \in Frame
  BY DEF Insert, TypeInv, TypeOK
<1>3. now \in Nat /\ frame[id].since <= now /\ now <= clock
  BY <1>2 DEF Frame, TypeInv, TypeOK
<1> DEFINE row ==
             [id |-> id, wallet |-> request[id].wallet, type |-> request[id].type,
              amount |-> request[id].amount, createdAt |-> now,
              version |-> frame[id].base + 1]
<1>4. row \in LedgerRow
  BY <1>2, <1>3 DEF Request, Frame, LedgerRow
<1>5. ledger' = ledger \cup {row}
  BY <1>1
<1>6. WITNESS row \in LedgerRow
<1>7. QED
  BY <1>3, <1>5

LEMMA InsertType ==
  ASSUME TypeInv, NEW id \in TxId, Insert(id)
  PROVE  TypeInv'
<1>1. ledger' \subseteq LedgerRow
  BY InsertRow DEF TypeInv, TypeOK
<1>2. QED
  BY <1>1, GoToType DEF Insert, TypeInv, TypeOK, Awaiting

LEMMA GetAllAfterType ==
  ASSUME TypeInv, NEW id \in TxId, GetAllAfter(id)
  PROVE  TypeInv'
<1>1. frame' \in [TxId -> Frame]
  BY DEF GetAllAfter, TypeInv, TypeOK, Frame
<1>2. QED
  BY <1>1, GoToType DEF GetAllAfter, TypeInv, TypeOK, Awaiting

LEMMA LoadType ==
  ASSUME TypeInv, NEW id \in TxId, Load(id)
  PROVE  TypeInv'
<1>1. wallet[request[id].wallet] \in WalletState
  BY DEF Load, TypeInv, TypeOK, Request
<1>2. frame' \in [TxId -> Frame]
  BY <1>1 DEF Load, TypeInv, TypeOK, Frame
<1>3. QED
  BY <1>2, GoToType DEF Load, TypeInv, TypeOK, Awaiting

LEMMA ApplyNextType ==
  ASSUME TypeInv, NEW id \in TxId, ApplyNext(id)
  PROVE  TypeInv'
<1>1. PICK tx \in Earliest(frame[id].todo) :
        \/ End(id, "failed")
        \/ /\ frame' = [frame EXCEPT
                ![id].entity = ApplyTransaction(frame[id].entity, tx),
                ![id].todo = @ \ {tx}]
           /\ UNCHANGED pc
  BY DEF ApplyNext
<1>2. CASE End(id, "failed")
  BY <1>2, EndType DEF ApplyNext, TypeInv, TypeOK, Ended
<1>3. CASE /\ frame' = [frame EXCEPT
                ![id].entity = ApplyTransaction(frame[id].entity, tx),
                ![id].todo = @ \ {tx}]
           /\ UNCHANGED pc
  <2>1. tx \in LedgerRow /\ frame[id].entity \in WalletState
    BY DEF Earliest, TypeInv, TypeOK, Frame
  <2>2. ApplyTransaction(frame[id].entity, tx) \in WalletState
    BY <2>1, ApplyType DEF LedgerRow
  <2>3. frame' \in [TxId -> Frame]
    BY <1>3, <2>2 DEF TypeInv, TypeOK, Frame
  <2>4. QED
    BY <1>3, <2>3 DEF ApplyNext, TypeInv, TypeOK
<1>4. QED
  BY <1>1, <1>2, <1>3

LEMMA SaveType ==
  ASSUME TypeInv, NEW id \in TxId, Save(id)
  PROVE  TypeInv'
<1>1. wallet' \in [Wallet -> WalletState]
  BY DEF Save, TypeInv, TypeOK, Frame
<1>2. QED
  BY <1>1, EndType DEF Save, Ended

LEMMA TypeInvariant == Safety => []TypeInv
<1>1. Init => TypeInv
  BY NewWalletType, EmptyFrameType, TransactionServiceAssumption
  DEF Init, TypeInv, TypeOK
<1>2. TypeInv /\ [Next]_vars => TypeInv'
  <2> SUFFICES ASSUME TypeInv, [Next]_vars PROVE TypeInv'
    OBVIOUS
  <2>1. CASE Tick
    BY <2>1 DEF Tick, TypeInv, TypeOK
  <2>2. ASSUME NEW w \in Wallet, CreateWallet(w) PROVE TypeInv'
    BY <2>2 DEF CreateWallet, TypeInv, TypeOK
  <2>3. ASSUME NEW id \in TxId, Start(id) PROVE TypeInv'
    BY <2>3, StartType
  <2>4. ASSUME NEW id \in TxId, Step(id) PROVE TypeInv'
    BY <2>4, GetWalletType, GetLastType, InsertType, GetAllAfterType,
       LoadType, ApplyNextType, SaveType DEF Step
  <2>5. ASSUME NEW id \in TxId, Fail(id) PROVE TypeInv'
    BY <2>5, EndType DEF Fail, TypeInv, TypeOK, Ended, Awaiting
  <2>6. CASE UNCHANGED vars
    BY <2>6 DEF vars, TypeInv, TypeOK
  <2>7. QED
    BY <2>1, <2>2, <2>3, <2>4, <2>5, <2>6 DEF Next
<1>3. QED
  BY <1>1, <1>2, PTL DEF Safety

\* The tables and the locals of every call keep their types.
THEOREM TypeCorrect == Spec => []TypeOK
<1>1. TypeInv => TypeOK
  BY DEF TypeInv
<1>2. QED
  BY <1>1, TypeInvariant, PTL DEF Spec

------------------------------------------------------------------------------
(* What a step may do to the ledger, the clock and the calls.               *)

\* A step leaves the ledger alone, or is the insert of one call.
LEMMA LedgerStep ==
  ASSUME [Next]_vars
  PROVE  ledger' = ledger \/ \E id \in TxId : Insert(id)
<1>1. CASE Tick
  BY <1>1 DEF Tick
<1>2. ASSUME NEW w \in Wallet, CreateWallet(w) PROVE ledger' = ledger
  BY <1>2 DEF CreateWallet
<1>3. ASSUME NEW id \in TxId, Start(id) PROVE ledger' = ledger
  BY <1>3 DEF Start, Credit, Debit, Call
<1>4. ASSUME NEW id \in TxId, Step(id), ~Insert(id) PROVE ledger' = ledger
  BY <1>4 DEF Step, GetWallet, GetLast, GetAllAfter, Load, ApplyNext, Save
<1>5. ASSUME NEW id \in TxId, Fail(id) PROVE ledger' = ledger
  BY <1>5 DEF Fail
<1>6. CASE UNCHANGED vars
  BY <1>6 DEF vars
<1>7. QED
  BY <1>1, <1>2, <1>3, <1>4, <1>5, <1>6 DEF Next

\* The clock does not go back.
LEMMA ClockStep ==
  ASSUME TypeInv, [Next]_vars
  PROVE  clock' \in Nat /\ clock <= clock'
<1>0. clock \in Nat
  BY DEF TypeInv, TypeOK
<1>1. Tick => clock' = clock + 1
  BY DEF Tick
<1>2. ASSUME NEW w \in Wallet, CreateWallet(w) PROVE clock' = clock
  BY <1>2 DEF CreateWallet
<1>3. ASSUME NEW id \in TxId, Start(id) PROVE clock' = clock
  BY <1>3 DEF Start, Credit, Debit, Call
<1>4. ASSUME NEW id \in TxId, Step(id) PROVE clock' = clock
  BY <1>4 DEF Step, GetWallet, GetLast, Insert, GetAllAfter, Load, ApplyNext, Save
<1>5. ASSUME NEW id \in TxId, Fail(id) PROVE clock' = clock
  BY <1>5 DEF Fail
<1>6. UNCHANGED vars => clock' = clock
  BY DEF vars
<1>7. clock' = clock + 1 \/ clock' = clock
  BY <1>1, <1>2, <1>3, <1>4, <1>5, <1>6 DEF Next
<1>8. QED
  BY <1>0, <1>7

\* A step of one call leaves the others' locals alone.
LEMMA Others ==
  ASSUME TypeInv, NEW id \in TxId, Start(id) \/ Step(id) \/ Fail(id),
         NEW i \in TxId, i # id
  PROVE  pc'[i] = pc[i] /\ frame'[i] = frame[i] /\ request'[i] = request[i]
<1> USE DEF TypeInv, TypeOK
<1>1. CASE Start(id)
  BY <1>1 DEF Start, Credit, Debit, Call, GoTo
<1>2. CASE Step(id)
  BY <1>2
  DEF Step, GetWallet, GetLast, Insert, GetAllAfter, Load, ApplyNext, Save,
      End, GoTo
<1>3. CASE Fail(id)
  BY <1>3 DEF Fail, End, GoTo
<1>4. QED
  BY <1>1, <1>2, <1>3

\* A call keeps the arguments it was started with.
LEMMA RequestKept ==
  ASSUME TypeInv, [Next]_vars, NEW id \in TxId, pc[id] # "idle"
  PROVE  request'[id] = request[id]
<1>1. CASE Tick
  BY <1>1 DEF Tick
<1>2. ASSUME NEW w \in Wallet, CreateWallet(w) PROVE request' = request
  BY <1>2 DEF CreateWallet
<1>3. ASSUME NEW i \in TxId, Start(i) PROVE request'[id] = request[id]
  BY <1>3, Others DEF Start, Credit, Debit, Call
<1>4. ASSUME NEW i \in TxId, Step(i) PROVE request' = request
  BY <1>4 DEF Step, GetWallet, GetLast, Insert, GetAllAfter, Load, ApplyNext, Save
<1>5. ASSUME NEW i \in TxId, Fail(i) PROVE request' = request
  BY <1>5 DEF Fail
<1>6. CASE UNCHANGED vars
  BY <1>6 DEF vars
<1>7. QED
  BY <1>1, <1>2, <1>3, <1>4, <1>5, <1>6 DEF Next

------------------------------------------------------------------------------
(* Gap-free versions.  VersionChain is not inductive: a call that is about  *)
(* to insert must still have the row its version follows on, created before *)
(* it looked.                                                               *)

Follows(id) ==
  frame[id].base > 0 =>
    \E s \in ledger :
      /\ s.wallet = request[id].wallet
      /\ s.version = frame[id].base
      /\ s.createdAt <= frame[id].since

ChainInv ==
  /\ VersionChain
  /\ \A r \in ledger : r.createdAt <= clock
  /\ \A id \in TxId : pc[id] = "save" => Follows(id)

\* A call comes to its insert only from the look-up of its predecessor.
LEMMA OnlyGetLastSaves ==
  ASSUME TypeInv, [Next]_vars,
         NEW id \in TxId, pc[id] # "save", pc'[id] = "save"
  PROVE  GetLast(id)
<1> USE DEF TypeInv, TypeOK
<1>1. CASE Tick
  BY <1>1 DEF Tick
<1>2. ASSUME NEW w \in Wallet, CreateWallet(w) PROVE FALSE
  BY <1>2 DEF CreateWallet
<1>3. ASSUME NEW i \in TxId, Start(i) PROVE FALSE
  BY <1>3 DEF Start, Credit, Debit, Call, GoTo
<1>4. ASSUME NEW i \in TxId, Step(i) PROVE GetLast(id)
  <2>1. CASE GetWallet(i)
    BY <2>1 DEF GetWallet, End, GoTo
  <2>2. CASE GetLast(i)
    BY <2>2 DEF GetLast, GoTo
  <2>3. CASE Insert(i)
    BY <2>3 DEF Insert, GoTo
  <2>4. CASE GetAllAfter(i)
    BY <2>4 DEF GetAllAfter, GoTo
  <2>5. CASE Load(i)
    BY <2>5 DEF Load, GoTo
  <2>6. CASE ApplyNext(i)
    BY <2>6 DEF ApplyNext, End, GoTo
  <2>7. CASE Save(i)
    BY <2>7 DEF Save, End, GoTo
  <2>8. QED
    BY <1>4, <2>1, <2>2, <2>3, <2>4, <2>5, <2>6, <2>7 DEF Step
<1>5. ASSUME NEW i \in TxId, Fail(i) PROVE FALSE
  BY <1>5 DEF Fail, End, GoTo
<1>6. CASE UNCHANGED vars
  BY <1>6 DEF vars
<1>7. QED
  BY <1>1, <1>2, <1>3, <1>4, <1>5, <1>6 DEF Next

\* Nothing changes the locals of a call that goes on waiting for its insert.
LEMMA SaveWaits ==
  ASSUME TypeInv, [Next]_vars,
         NEW id \in TxId, pc[id] = "save", pc'[id] = "save"
  PROVE  frame'[id] = frame[id] /\ request'[id] = request[id]
<1>1. CASE Tick
  BY <1>1 DEF Tick
<1>2. ASSUME NEW w \in Wallet, CreateWallet(w)
      PROVE  frame'[id] = frame[id] /\ request'[id] = request[id]
  BY <1>2 DEF CreateWallet
<1>3. ASSUME NEW i \in TxId, Start(i)
      PROVE  frame'[id] = frame[id] /\ request'[id] = request[id]
  BY <1>3 DEF Start, Credit, Debit, Call, TypeInv, TypeOK
<1>4. ASSUME NEW i \in TxId, Step(i) \/ Fail(i)
      PROVE  frame'[id] = frame[id] /\ request'[id] = request[id]
  <2>1. CASE i = id
    BY <1>4, <2>1
    DEF Step, GetWallet, GetLast, Insert, GetAllAfter, Load, ApplyNext, Save,
        Fail, End, GoTo, TypeInv, TypeOK
  <2>2. CASE i # id
    BY <1>4, <2>2, Others
  <2>3. QED
    BY <2>1, <2>2
<1>5. CASE UNCHANGED vars
  BY <1>5 DEF vars
<1>6. QED
  BY <1>1, <1>2, <1>3, <1>4, <1>5 DEF Next

\* Once a call has looked up its predecessor, no step of another call takes it
\* away.
LEMMA FollowsKept ==
  ASSUME TypeInv, ChainInv, [Next]_vars,
         NEW id \in TxId, pc[id] = "save", pc'[id] = "save"
  PROVE  Follows(id)'
<1>1. frame'[id] = frame[id] /\ request'[id] = request[id]
  BY SaveWaits
<1>2. ledger \subseteq ledger'
  BY LedgerStep, InsertRow
<1>3. QED
  BY <1>1, <1>2 DEF ChainInv, Follows

\* What a call finds when it looks up its predecessor.
LEMMA FollowsFound ==
  ASSUME TypeInv, ChainInv, NEW id \in TxId, GetLast(id)
  PROVE  Follows(id)'
<1>1. PICK base \in LastVersions(request[id].wallet) :
        frame' = [frame EXCEPT ![id].base = base, ![id].since = clock]
  BY DEF GetLast
<1>2. frame'[id].base = base /\ frame'[id].since = clock
  BY <1>1 DEF TypeInv, TypeOK, Frame
<1>3. ASSUME base > 0
      PROVE  \E s \in ledger : s.wallet = request[id].wallet /\ s.version = base
  BY <1>3 DEF LastVersions, Earliest, RowsOf
<1>4. QED
  BY <1>2, <1>3 DEF GetLast, ChainInv, Follows

LEMMA ChainInvariant == Safety => []ChainInv
<1>1. Init => ChainInv
  BY DEF Init, ChainInv, VersionChain
<1>2. TypeInv /\ ChainInv /\ [Next]_vars => ChainInv'
  <2> SUFFICES ASSUME TypeInv, ChainInv, [Next]_vars PROVE ChainInv'
    OBVIOUS
  <2>1. VersionChain' /\ \A r \in ledger' : r.createdAt <= clock'
    <3>1. clock \in Nat /\ clock' \in Nat /\ clock <= clock'
      BY ClockStep DEF TypeInv, TypeOK
    <3>2. \A r \in ledger : r.createdAt \in Nat
      BY DEF TypeInv, TypeOK, LedgerRow
    <3>3. CASE ledger' = ledger
      BY <3>1, <3>2, <3>3 DEF ChainInv, VersionChain
    <3>4. ASSUME NEW id \in TxId, Insert(id)
          PROVE  VersionChain' /\ \A r \in ledger' : r.createdAt <= clock'
      <4>1. PICK row \in LedgerRow :
              /\ ledger' = ledger \cup {row}
              /\ row.wallet = request[id].wallet
              /\ row.version = frame[id].base + 1
              /\ frame[id].since <= row.createdAt
              /\ row.createdAt <= clock
        BY <3>4, InsertRow
      <4>2. row.createdAt \in Nat /\ frame[id].base \in Nat /\ frame[id].since \in Nat
        BY DEF LedgerRow, TypeInv, TypeOK, Frame
      <4>3. Follows(id)
        BY <3>4 DEF Insert, ChainInv
      <4>4. \/ row.version = 1
            \/ \E s \in ledger : /\ s.wallet = row.wallet
                                 /\ s.version + 1 = row.version
                                 /\ s.createdAt <= row.createdAt
        BY <3>2, <4>1, <4>2, <4>3 DEF Follows
      <4>5. VersionChain'
        BY <4>1, <4>4 DEF ChainInv, VersionChain
      <4>6. QED
        BY <3>1, <3>2, <4>1, <4>2, <4>5 DEF ChainInv
    <3>5. QED
      BY <3>3, <3>4, LedgerStep
  <2>2. ASSUME NEW id \in TxId, pc'[id] = "save" PROVE Follows(id)'
    <3>1. CASE pc[id] = "save"
      BY <2>2, <3>1, FollowsKept
    <3>2. CASE pc[id] # "save"
      <4>1. GetLast(id)
        BY <2>2, <3>2, OnlyGetLastSaves
      <4>2. QED
        BY <4>1, FollowsFound
    <3>3. QED
      BY <3>1, <3>2
  <2>3. QED
    BY <2>1, <2>2 DEF ChainInv
<1>3. QED
  BY <1>1, <1>2, TypeInvariant, PTL DEF Safety

\* Whatever calls race, stop or tie, a wallet's versions have no gap.
THEOREM VersionsChained == Spec => []VersionChain
<1>1. ChainInv => VersionChain
  BY DEF ChainInv
<1>2. QED
  BY <1>1, ChainInvariant, PTL DEF Spec

------------------------------------------------------------------------------
(****************************************************************************)
(* credit and debit implement TransactionBook, for any number of concurrent *)
(* calls.  The book is the ledger without times and versions; a step that   *)
(* inserts a row is Enter, one that ends a call is Return, Refuse or Fail,  *)
(* and every other step of a call leaves book and outcome as they are.      *)
(****************************************************************************)

\* Where a call has its row in the ledger, and where it has none.
Recording(id) ==
  \/ pc[id] \in {"getAllAfter", "load", "update", "returned"}
  \/ pc[id] = "getWallet" /\ request[id].type = "IN"

NotYet(id) ==
  \/ pc[id] \in {"idle", "getLast", "save", "refused"}
  \/ pc[id] = "getWallet" /\ request[id].type = "OUT"

InLedger(id) == \E r \in ledger : r.id = id

BookInv ==
  \A id \in TxId :
    /\ Recording(id) => InLedger(id)
    /\ NotYet(id) => ~InLedger(id)

\* What one step does to the place of a call, in the words of BookInv.
LEMMA PlaceStep ==
  ASSUME TypeInv, [Next]_vars, NEW id \in TxId
  PROVE  /\ Recording(id)' => Recording(id) \/ Insert(id)
         /\ NotYet(id)' => NotYet(id) /\ ~Insert(id)
<1> USE DEF TypeInv, TypeOK, Recording, NotYet
<1> DEFINE Goal == /\ Recording(id)' => Recording(id) \/ Insert(id)
                   /\ NotYet(id)' => NotYet(id) /\ ~Insert(id)
<1>0. ASSUME pc'[id] = pc[id], request'[id] = request[id]
      PROVE  Goal
  BY <1>0 DEF Insert, GoTo
<1>1. CASE Tick
  BY <1>1, <1>0 DEF Tick
<1>2. ASSUME NEW w \in Wallet, CreateWallet(w) PROVE Goal
  BY <1>2, <1>0 DEF CreateWallet
<1>3. ASSUME NEW i \in TxId, Start(i) PROVE Goal
  <2>1. CASE i = id
    BY <1>3, <2>1 DEF Start, Credit, Debit, Call, GoTo, Insert
  <2>2. CASE i # id
    BY <1>3, <2>2, <1>0 DEF Start, Credit, Debit, Call, GoTo
  <2>3. QED
    BY <2>1, <2>2
<1>4. ASSUME NEW i \in TxId, Step(i) PROVE Goal
  <2>1. CASE i # id
    <3>1. pc'[id] = pc[id] /\ request'[id] = request[id]
      BY <1>4, <2>1
      DEF Step, GetWallet, GetLast, Insert, GetAllAfter, Load, ApplyNext, Save,
          End, GoTo
    <3>2. QED
      BY <3>1, <1>0
  <2>2. CASE i = id /\ GetWallet(id)
    BY <2>2 DEF GetWallet, End, GoTo, Insert
  <2>3. CASE i = id /\ GetLast(id)
    BY <2>3 DEF GetLast, GoTo, Insert
  <2>4. CASE i = id /\ Insert(id)
    <3>1. request[id].type \in {"IN", "OUT"}
      BY <2>4 DEF Insert, Request, TransactionType
    <3>2. QED
      BY <2>4, <3>1 DEF Insert, GoTo
  <2>5. CASE i = id /\ GetAllAfter(id)
    BY <2>5 DEF GetAllAfter, GoTo, Insert
  <2>6. CASE i = id /\ Load(id)
    BY <2>6 DEF Load, GoTo, Insert
  <2>7. CASE i = id /\ ApplyNext(id)
    BY <2>7 DEF ApplyNext, End, GoTo, Insert
  <2>8. CASE i = id /\ Save(id)
    BY <2>8 DEF Save, End, GoTo, Insert
  <2>9. QED
    BY <1>4, <2>1, <2>2, <2>3, <2>4, <2>5, <2>6, <2>7, <2>8 DEF Step
<1>5. ASSUME NEW i \in TxId, Fail(i) PROVE Goal
  <2>1. CASE i = id
    BY <1>5, <2>1 DEF Fail, End, GoTo, Awaiting, Insert
  <2>2. CASE i # id
    BY <1>5, <2>2, <1>0 DEF Fail, End, GoTo
  <2>3. QED
    BY <2>1, <2>2
<1>6. CASE UNCHANGED vars
  BY <1>6, <1>0 DEF vars
<1>7. QED
  BY <1>1, <1>2, <1>3, <1>4, <1>5, <1>6 DEF Next

\* A call that returned has its row, one that was refused has none, and no
\* call is about to insert a second one.
LEMMA BookInvariant == Safety => []BookInv
<1>1. Init => BookInv
  BY DEF Init, BookInv, Recording, NotYet, InLedger
<1>2. TypeInv /\ BookInv /\ [Next]_vars => BookInv'
  <2> SUFFICES ASSUME TypeInv, BookInv, [Next]_vars, NEW id \in TxId
               PROVE  /\ Recording(id)' => InLedger(id)'
                      /\ NotYet(id)' => ~InLedger(id)'
    BY DEF BookInv
  <2>1. \A i \in TxId : Insert(i) =>
          \A j \in TxId : InLedger(j)' <=> InLedger(j) \/ j = i
    BY InsertRow DEF InLedger
  <2>2. CASE ledger' = ledger /\ ~Insert(id)
    BY <2>2, PlaceStep DEF BookInv, InLedger
  <2>3. ASSUME NEW i \in TxId, Insert(i)
        PROVE  /\ Recording(id)' => InLedger(id)'
               /\ NotYet(id)' => ~InLedger(id)'
    <3>1. Insert(id) => id = i
      BY <2>3, <2>1 DEF BookInv, NotYet, Insert
    <3>2. QED
      BY <2>1, <2>3, <3>1, PlaceStep DEF BookInv
  <2>4. QED
    BY <2>2, <2>3, LedgerStep
<1>3. QED
  BY <1>1, <1>2, TypeInvariant, PTL DEF Safety

------------------------------------------------------------------------------
(* The step mapping.                                                        *)

\* A call that goes on from one await to the next is still open.
LEMMA OutcomeStays ==
  ASSUME TypeInv, NEW id \in TxId, NEW next \in Awaiting,
         pc[id] \in Awaiting, GoTo(id, next)
  PROVE  Outcome' = Outcome
BY DEF GoTo, Outcome, TypeInv, TypeOK

LEMMA OutcomeEnds ==
  ASSUME TypeInv, NEW id \in TxId, NEW how \in Ended,
         pc[id] \in Awaiting, End(id, how)
  PROVE  Outcome[id] = "open" /\ Outcome' = [Outcome EXCEPT ![id] = how]
BY DEF End, GoTo, Outcome, TypeInv, TypeOK, Awaiting, Ended

LEMMA BookStays ==
  ASSUME ledger' = ledger
  PROVE  Book' = Book
BY DEF Book

LEMMA EnteredIsInLedger ==
  ASSUME NEW id \in TxId
  PROVE  TransactionBook!Entered(id) <=> InLedger(id)
<1> DEFINE entry(r) == [id |-> r.id, wallet |-> r.wallet, type |-> r.type,
                        amount |-> r.amount]
<1>1. ASSUME NEW r \in ledger, r.id = id PROVE TransactionBook!Entered(id)
  <2>1. entry(r) \in Book /\ entry(r).id = id
    BY <1>1 DEF Book
  <2>2. QED
    BY <2>1 DEF TransactionBook!Entered
<1>2. ASSUME NEW e \in Book, e.id = id PROVE InLedger(id)
  <2>1. PICK r \in ledger : e = entry(r)
    BY DEF Book
  <2>2. r.id = id
    BY <1>2, <2>1
  <2>3. QED
    BY <2>2 DEF InLedger
<1>3. QED
  BY <1>1, <1>2 DEF TransactionBook!Entered, InLedger

\* A call that fails, in any await, is the book's Fail.
LEMMA FailStep ==
  ASSUME TypeInv, NEW id \in TxId, pc[id] \in Awaiting, End(id, "failed"),
         UNCHANGED <<ledger, request>>
  PROVE  TransactionBook!Next
<1>1. Outcome[id] = "open" /\ Outcome' = [Outcome EXCEPT ![id] = "failed"]
  BY OutcomeEnds DEF Ended
<1>2. TransactionBook!Fail(id)
  BY <1>1, BookStays DEF TransactionBook!Fail, TransactionBook!Finish
<1>3. QED
  BY <1>2 DEF TransactionBook!Next

LEMMA StartStep ==
  ASSUME TypeInv, NEW id \in TxId, Start(id)
  PROVE  TransactionBook!Next
<1>1. PICK w \in Wallet, kobo \in Kobo, type \in TransactionType, first \in Awaiting :
        Call(id, type, w, kobo, first)
  BY DEF Start, Credit, Debit, TransactionType, Awaiting
<1>2. Outcome[id] = "idle"
  BY <1>1 DEF Call, Outcome, Awaiting
<1>3. Outcome' = [Outcome EXCEPT ![id] = "open"]
  BY <1>1 DEF Call, GoTo, Outcome, TypeInv, TypeOK
<1>4. TransactionBook!Open(id)
  BY <1>1, <1>2, <1>3, BookStays
  DEF Call, TransactionBook!Open, TransactionType, TransactionBook!TransactionType,
      Naira, TransactionBook!Naira
<1>5. QED
  BY <1>4 DEF TransactionBook!Next

LEMMA InsertStep ==
  ASSUME TypeInv, BookInv, NEW id \in TxId, Insert(id)
  PROVE  TransactionBook!Next
<1>1. PICK row \in LedgerRow :
        /\ ledger' = ledger \cup {row}
        /\ row.id = id
        /\ row.wallet = request[id].wallet
        /\ row.type = request[id].type
        /\ row.amount = request[id].amount
  BY InsertRow
<1>2. Book' = Book \cup {TransactionBook!Entry(id)}
  BY <1>1 DEF Book, TransactionBook!Entry
<1>3. ~TransactionBook!Entered(id)
  BY EnteredIsInLedger DEF BookInv, NotYet, Insert
<1>4. Outcome[id] = "open" /\ Outcome' = Outcome
  BY OutcomeStays DEF Insert, Awaiting, Outcome
<1>5. TransactionBook!Enter(id)
  BY <1>2, <1>3, <1>4 DEF TransactionBook!Enter, Insert
<1>6. QED
  BY <1>5 DEF TransactionBook!Next

LEMMA GetWalletStep ==
  ASSUME TypeInv, BookInv, NEW id \in TxId, GetWallet(id)
  PROVE  TransactionBook!Next \/ UNCHANGED TransactionBook!vars
<1>1. pc[id] \in Awaiting /\ ledger' = ledger /\ request' = request
  BY DEF GetWallet, Awaiting
<1>2. \/ End(id, "failed")
      \/ End(id, "refused") /\ request[id].type = "OUT"
      \/ GoTo(id, "getAllAfter") \/ GoTo(id, "getLast")
  BY DEF GetWallet
<1>3. CASE End(id, "failed")
  BY <1>1, <1>3, FailStep
<1>4. CASE End(id, "refused") /\ request[id].type = "OUT"
  <2>1. Outcome[id] = "open" /\ Outcome' = [Outcome EXCEPT ![id] = "refused"]
    BY <1>1, <1>4, OutcomeEnds DEF Ended
  <2>2. ~TransactionBook!Entered(id)
    BY <1>4, EnteredIsInLedger DEF BookInv, NotYet, GetWallet
  <2>3. TransactionBook!Refuse(id)
    BY <1>1, <1>4, <2>1, <2>2, BookStays DEF TransactionBook!Refuse, TransactionBook!Finish
  <2>4. QED
    BY <2>3 DEF TransactionBook!Next
<1>5. CASE GoTo(id, "getAllAfter") \/ GoTo(id, "getLast")
  BY <1>1, <1>5, OutcomeStays, BookStays DEF Awaiting, TransactionBook!vars
<1>6. QED
  BY <1>2, <1>3, <1>4, <1>5

LEMMA SaveStep ==
  ASSUME TypeInv, BookInv, NEW id \in TxId, Save(id)
  PROVE  TransactionBook!Next
<1>1. Outcome[id] = "open" /\ Outcome' = [Outcome EXCEPT ![id] = "returned"]
  BY OutcomeEnds DEF Save, Awaiting, Ended
<1>2. TransactionBook!Entered(id)
  BY EnteredIsInLedger DEF BookInv, Recording, Save
<1>3. TransactionBook!Return(id)
  BY <1>1, <1>2, BookStays DEF Save, TransactionBook!Return, TransactionBook!Finish
<1>4. QED
  BY <1>3 DEF TransactionBook!Next

\* Every step of TransactionService is a step of the book or leaves it alone.
LEMMA StepMaps ==
  ASSUME TypeInv, BookInv, [Next]_vars
  PROVE  [TransactionBook!Next]_(TransactionBook!vars)
<1>1. CASE Tick
  BY <1>1, BookStays DEF Tick, Outcome, TransactionBook!vars
<1>2. ASSUME NEW w \in Wallet, CreateWallet(w) PROVE UNCHANGED TransactionBook!vars
  BY <1>2, BookStays DEF CreateWallet, Outcome, TransactionBook!vars
<1>3. ASSUME NEW id \in TxId, Start(id) PROVE TransactionBook!Next
  BY <1>3, StartStep
<1>4. ASSUME NEW id \in TxId, Step(id) PROVE TransactionBook!Next \/ UNCHANGED TransactionBook!vars
  <2>1. CASE GetLast(id) \/ GetAllAfter(id) \/ Load(id)
    BY <2>1, OutcomeStays, BookStays
    DEF GetLast, GetAllAfter, Load, Awaiting, TransactionBook!vars
  <2>2. CASE ApplyNext(id)
    <3>1. End(id, "failed") \/ UNCHANGED pc
      BY <2>2 DEF ApplyNext
    <3>2. CASE End(id, "failed")
      BY <2>2, <3>2, FailStep DEF ApplyNext, Awaiting
    <3>3. CASE UNCHANGED pc
      BY <2>2, <3>3, BookStays DEF ApplyNext, Outcome, TransactionBook!vars
    <3>4. QED
      BY <3>1, <3>2, <3>3
  <2>3. QED
    BY <1>4, <2>1, <2>2, GetWalletStep, InsertStep, SaveStep DEF Step
<1>5. ASSUME NEW id \in TxId, Fail(id) PROVE TransactionBook!Next
  BY <1>5, FailStep DEF Fail
<1>6. CASE UNCHANGED vars
  BY <1>6, BookStays DEF vars, Outcome, TransactionBook!vars
<1>7. QED
  BY <1>1, <1>2, <1>3, <1>4, <1>5, <1>6 DEF Next

\* credit and debit keep the promises of the book.
THEOREM ServiceImplementsBook == Spec => BookSpec
<1>1. Init => TransactionBook!Init
  BY DEF Init, TransactionBook!Init, Book, Outcome, NoRequest,
     TransactionBook!NoRequest, Awaiting
<1>2. Spec => TransactionBook!Spec
  BY <1>1, StepMaps, TypeInvariant, BookInvariant, PTL
  DEF Spec, Safety, TransactionBook!Spec
<1>3. QED
  BY <1>2 DEF BookSpec
==============================================================================
