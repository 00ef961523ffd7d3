------------------------- MODULE OneLiveWalletProofs -------------------------
(****************************************************************************)
(* At most one wallet ever leaves version 0, for any number of wallets and  *)
(* concurrent calls.                                                        *)
(*                                                                          *)
(* The argument: a wallet leaves version 0 by a list that starts at version *)
(* 1.  The call that reads such a list has already inserted a row, so its   *)
(* wallet has a first transaction and the list contains it.  Lists are not  *)
(* restricted to a wallet, so of two calls for different wallets the one    *)
(* that reads its list later finds two first transactions in it, of which   *)
(* updateBalance must reject one: it is doomed.  So at any time one wallet  *)
(* only is live, or about to be saved by a call that is not doomed.         *)
(****************************************************************************)
EXTENDS TransactionServiceProofs

\* The wallet has a first transaction.
HasFirst(w) == \E r \in ledger : r.wallet = w /\ r.version = 1

\* The call is in updateBalance, for a wallet it saw at version 0.
FromZero(id) == pc[id] \in {"load", "update"} /\ frame[id].seen = 0

\* updateBalance is bound to meet a first transaction it must reject.
Doomed(id) ==
  \E r \in frame[id].todo :
    /\ r.version = 1
    /\ \/ frame[id].entity.version > 0
       \/ \E s \in frame[id].todo : s.version = 1 /\ s # r

Claims(id, w) == FromZero(id) /\ request[id].wallet = w /\ ~Doomed(id)

Claimed(w) == wallet[w].version > 0 \/ \E id \in TxId : Claims(id, w)

FirstInv ==
  /\ \A r \in ledger : r.version >= 1 /\ HasFirst(r.wallet)
  /\ \A w \in Wallet : wallet[w].version > 0 => HasFirst(w)
  /\ \A id \in TxId : Recording(id) => HasFirst(request[id].wallet)

CallInv(id) ==
  /\ pc[id] = "idle" => frame[id].seen = 0
  /\ frame[id].seen > 0 => wallet[request[id].wallet].version > 0
  /\ pc[id] # "update" => frame[id].entity.version = 0
  /\ pc[id] = "update" /\ frame[id].seen > 0 => frame[id].entity.version > 0
  /\ FromZero(id) =>
       \/ frame[id].entity.version > 0
       \/ \E r \in frame[id].todo :
            r.wallet = request[id].wallet /\ r.version = 1

SoleInv == \A v, w \in Wallet : Claimed(v) /\ Claimed(w) => v = w

LiveInv ==
  /\ FirstInv
  /\ \A id \in TxId : CallInv(id)
  /\ SoleInv

------------------------------------------------------------------------------
(* What one step may change.                                                *)

\* Only the end of updateBalance writes a wallet.
LEMMA WalletStep ==
  ASSUME [Next]_vars
  PROVE  wallet' = wallet \/ \E id \in TxId : Save(id)
<1>1. CASE Tick
  BY <1>1 DEF Tick
<1>2. ASSUME NEW w \in Wallet, CreateWallet(w) PROVE wallet' = wallet
  BY <1>2 DEF CreateWallet
<1>3. ASSUME NEW id \in TxId, Start(id) PROVE wallet' = wallet
  BY <1>3 DEF Start, Credit, Debit, Call
<1>4. ASSUME NEW id \in TxId, Step(id), ~Save(id) PROVE wallet' = wallet
  BY <1>4 DEF Step, GetWallet, GetLast, Insert, GetAllAfter, Load, ApplyNext
<1>5. ASSUME NEW id \in TxId, Fail(id) PROVE wallet' = wallet
  BY <1>5 DEF Fail
<1>6. CASE UNCHANGED vars
  BY <1>6 DEF vars
<1>7. QED
  BY <1>1, <1>2, <1>3, <1>4, <1>5, <1>6 DEF Next

\* A call that has nothing left to fold in has folded in something.
LEMMA SavedIsLive ==
  ASSUME TypeInv, LiveInv, NEW id \in TxId, Save(id)
  PROVE  frame[id].entity.version > 0
<1>1. pc[id] = "update" /\ frame[id].todo = {} /\ frame[id].seen \in Nat
  BY DEF Save, TypeInv, TypeOK, Frame
<1>2. CASE frame[id].seen > 0
  BY <1>1, <1>2 DEF LiveInv, CallInv
<1>3. CASE frame[id].seen = 0
  BY <1>1, <1>3 DEF LiveInv, CallInv, FromZero
<1>4. QED
  BY <1>1, <1>2, <1>3

\* So a wallet that has left version 0 does not return to it.
LEMMA LiveStays ==
  ASSUME TypeInv, LiveInv, [Next]_vars, NEW w \in Wallet, wallet[w].version > 0
  PROVE  wallet'[w].version > 0
<1>1. ASSUME NEW id \in TxId, Save(id) PROVE wallet'[w].version > 0
  BY <1>1, SavedIsLive DEF Save, TypeInv, TypeOK
<1>2. QED
  BY <1>1, WalletStep

LEMMA FirstStays ==
  ASSUME TypeInv, [Next]_vars, NEW w, HasFirst(w)
  PROVE  HasFirst(w)'
BY LedgerStep, InsertRow DEF HasFirst

------------------------------------------------------------------------------

\* Every wallet with a row has a first one.
LEMMA FirstPreserved ==
  ASSUME TypeInv, ChainInv, LiveInv, [Next]_vars
  PROVE  FirstInv'
<1>1. ASSUME NEW r \in ledger' PROVE r.version >= 1 /\ HasFirst(r.wallet)'
  <2>1. CASE r \in ledger
    BY <2>1, FirstStays DEF LiveInv, FirstInv
  <2>2. CASE r \notin ledger
    <3>1. PICK id \in TxId : Insert(id)
      BY <2>2, LedgerStep
    <3>2. /\ r \in LedgerRow
          /\ r.wallet = request[id].wallet
          /\ r.version = frame[id].base + 1
      BY <2>2, <3>1, InsertRow
    <3>3. frame[id].base \in Nat
      BY DEF TypeInv, TypeOK, Frame
    <3>4. CASE frame[id].base = 0
      BY <3>2, <3>4 DEF HasFirst
    <3>5. CASE frame[id].base > 0
      <4>1. HasFirst(r.wallet)
        BY <3>1, <3>2, <3>5 DEF ChainInv, Follows, Insert, LiveInv, FirstInv
      <4>2. QED
        BY <3>2, <3>3, <4>1, FirstStays
    <3>6. QED
      BY <3>3, <3>4, <3>5
  <2>3. QED
    BY <2>1, <2>2
<1>2. ASSUME NEW w \in Wallet, wallet'[w].version > 0 PROVE HasFirst(w)'
  <2>1. CASE wallet' = wallet
    BY <1>2, <2>1, FirstStays DEF LiveInv, FirstInv
  <2>2. ASSUME NEW id \in TxId, Save(id) PROVE HasFirst(w)
    <3>1. HasFirst(request[id].wallet)
      BY <2>2 DEF Save, Recording, LiveInv, FirstInv
    <3>2. CASE w = request[id].wallet
      BY <3>1, <3>2
    <3>3. CASE w # request[id].wallet
      BY <1>2, <2>2, <3>3 DEF Save, TypeInv, TypeOK, LiveInv, FirstInv
    <3>4. QED
      BY <3>2, <3>3
  <2>3. QED
    BY <2>1, <2>2, WalletStep, FirstStays
<1>3. ASSUME NEW id \in TxId, Recording(id)' PROVE HasFirst(request[id].wallet)'
  <2>1. Recording(id) \/ Insert(id)
    BY <1>3, PlaceStep
  <2>2. request'[id] = request[id]
    BY <2>1, RequestKept DEF Recording, Insert
  <2>3. CASE Recording(id)
    BY <2>2, <2>3, FirstStays DEF LiveInv, FirstInv
  <2>4. CASE Insert(id)
    <3>1. PICK row \in ledger' : row.wallet = request[id].wallet
      BY <2>4, InsertRow
    <3>2. QED
      BY <1>1, <2>2, <3>1
  <2>5. QED
    BY <2>1, <2>3, <2>4
<1>4. QED
  BY <1>1, <1>2, <1>3 DEF FirstInv

------------------------------------------------------------------------------
(* The steps of a call, one lemma each: the call keeps its part of LiveInv, *)
(* and only reading a list can give it a claim.                             *)

Keeps(id) ==
  CallInv(id)' /\ \A w \in Wallet : Claims(id, w)' => Claims(id, w)

\* Ending a call leaves nothing to keep.
LEMMA EndKeeps ==
  ASSUME TypeInv, NEW id \in TxId, NEW how \in Ended, End(id, how)
  PROVE  Keeps(id)
BY DEF End, GoTo, Ended, Keeps, CallInv, Claims, FromZero, EmptyFrame, NewWallet,
       TypeInv, TypeOK

LEMMA StartKeeps ==
  ASSUME TypeInv, LiveInv, NEW id \in TxId, Start(id)
  PROVE  Keeps(id)
<1>1. frame' = frame /\ pc'[id] \notin {"load", "update"} /\ pc[id] = "idle"
  BY DEF Start, Credit, Debit, Call, GoTo, TypeInv, TypeOK
<1>2. pc'[id] # "idle" /\ wallet' = wallet
  BY DEF Start, Credit, Debit, Call, GoTo, TypeInv, TypeOK
<1>3. QED
  BY <1>1, <1>2 DEF Keeps, LiveInv, CallInv, Claims, FromZero

LEMMA GetWalletKeeps ==
  ASSUME TypeInv, LiveInv, NEW id \in TxId, GetWallet(id)
  PROVE  Keeps(id)
<1> DEFINE w == request[id].wallet
<1>1. \/ End(id, "failed") \/ End(id, "refused")
      \/ /\ GoTo(id, "getAllAfter") \/ GoTo(id, "getLast")
         /\ frame' = [frame EXCEPT ![id].seen = wallet[w].version]
  BY DEF GetWallet
<1>2. CASE End(id, "failed") \/ End(id, "refused")
  BY <1>2, EndKeeps DEF Ended
<1>3. CASE /\ GoTo(id, "getAllAfter") \/ GoTo(id, "getLast")
           /\ frame' = [frame EXCEPT ![id].seen = wallet[w].version]
  <2>1. pc'[id] \in {"getAllAfter", "getLast"} /\ wallet' = wallet /\ request' = request
    BY <1>3 DEF GoTo, GetWallet, TypeInv, TypeOK
  <2>2. /\ frame'[id].seen = wallet[w].version
        /\ frame'[id].entity = frame[id].entity
    BY <1>3 DEF TypeInv, TypeOK, Frame
  <2>3. frame[id].entity.version = 0
    BY DEF GetWallet, LiveInv, CallInv
  <2>4. QED
    BY <2>1, <2>2, <2>3 DEF Keeps, CallInv, Claims, FromZero
<1>4. QED
  BY <1>1, <1>2, <1>3

LEMMA GetLastKeeps ==
  ASSUME TypeInv, LiveInv, NEW id \in TxId, GetLast(id)
  PROVE  Keeps(id)
<1>1. pc'[id] = "save" /\ wallet' = wallet /\ request' = request
  BY DEF GetLast, GoTo, TypeInv, TypeOK
<1>2. frame'[id].seen = frame[id].seen /\ frame'[id].entity = frame[id].entity
  BY DEF GetLast, TypeInv, TypeOK, Frame
<1>3. QED
  BY <1>1, <1>2 DEF GetLast, Keeps, LiveInv, CallInv, Claims, FromZero

LEMMA InsertKeeps ==
  ASSUME TypeInv, LiveInv, NEW id \in TxId, Insert(id)
  PROVE  Keeps(id)
<1>1. pc'[id] \in {"getWallet", "getAllAfter"}
  BY DEF Insert, GoTo, TypeInv, TypeOK
<1>2. QED
  BY <1>1 DEF Insert, Keeps, LiveInv, CallInv, Claims, FromZero

\* Its own first transaction is in the list it reads.
LEMMA GetAllAfterKeeps ==
  ASSUME TypeInv, LiveInv, NEW id \in TxId, GetAllAfter(id)
  PROVE  CallInv(id)'
<1>1. pc'[id] = "load" /\ wallet' = wallet /\ request' = request
  BY DEF GetAllAfter, GoTo, TypeInv, TypeOK
<1>2. /\ frame'[id].seen = frame[id].seen
      /\ frame'[id].entity = frame[id].entity
      /\ frame'[id].todo = {r \in ledger : r.version > frame[id].seen}
  BY DEF GetAllAfter, TypeInv, TypeOK, Frame
<1>3. \E r \in ledger : r.wallet = request[id].wallet /\ r.version = 1
  BY DEF GetAllAfter, Recording, LiveInv, FirstInv, HasFirst
<1>4. frame[id].entity.version = 0
  BY DEF GetAllAfter, LiveInv, CallInv
<1>5. QED
  BY <1>1, <1>2, <1>3, <1>4 DEF LiveInv, CallInv, FromZero

LEMMA LoadKeeps ==
  ASSUME TypeInv, LiveInv, NEW id \in TxId, Load(id)
  PROVE  Keeps(id)
<1>1. /\ pc[id] = "load" /\ pc'[id] = "update"
      /\ wallet' = wallet /\ request' = request
  BY DEF Load, GoTo, TypeInv, TypeOK
<1>2. /\ frame'[id].seen = frame[id].seen
      /\ frame'[id].todo = frame[id].todo
      /\ frame'[id].entity = wallet[request[id].wallet]
  BY DEF Load, TypeInv, TypeOK, Frame
<1>3. frame[id].entity.version = 0
  BY <1>1 DEF LiveInv, CallInv
<1>4. CallInv(id)'
  BY <1>1, <1>2, <1>3 DEF LiveInv, CallInv, FromZero
<1>5. Doomed(id) => Doomed(id)'
  BY <1>2, <1>3 DEF Doomed
<1>6. QED
  BY <1>1, <1>2, <1>4, <1>5 DEF Keeps, Claims, FromZero

\* A doomed call that folds in a transaction is still doomed.
LEMMA ApplyNextKeeps ==
  ASSUME TypeInv, LiveInv, NEW id \in TxId, ApplyNext(id)
  PROVE  Keeps(id)
<1> DEFINE f == frame[id]
<1>1. PICK tx \in Earliest(f.todo) :
        \/ End(id, "failed")
        \/ /\ ~Rejects(f.entity, tx)
           /\ frame' = [frame EXCEPT
                ![id].entity = ApplyTransaction(f.entity, tx),
                ![id].todo = @ \ {tx}]
           /\ UNCHANGED pc
  BY DEF ApplyNext
<1>2. CASE End(id, "failed")
  BY <1>2, EndKeeps DEF Ended
<1>3. CASE /\ ~Rejects(f.entity, tx)
           /\ frame' = [frame EXCEPT
                ![id].entity = ApplyTransaction(f.entity, tx),
                ![id].todo = @ \ {tx}]
           /\ UNCHANGED pc
  <2>1. pc[id] = "update" /\ wallet' = wallet /\ request' = request
    BY DEF ApplyNext
  <2>2. /\ frame'[id].seen = f.seen
        /\ frame'[id].todo = f.todo \ {tx}
        /\ frame'[id].entity = ApplyTransaction(f.entity, tx)
    BY <1>3 DEF TypeInv, TypeOK, Frame
  <2>3. f.entity.version \in Nat /\ tx.version = f.entity.version + 1
    BY <1>3 DEF Rejects, TypeInv, TypeOK, Frame, WalletState
  <2>4. frame'[id].entity.version = f.entity.version + 1
    BY <2>2, <2>3 DEF ApplyTransaction
  <2>5. frame'[id].entity.version > 0
    BY <2>3, <2>4
  <2>6. CallInv(id)'
    BY <1>3, <2>1, <2>2, <2>5 DEF LiveInv, CallInv, FromZero
  <2>7. Doomed(id) => Doomed(id)'
    <3>1. SUFFICES ASSUME NEW r \in f.todo, r.version = 1,
                          \/ f.entity.version > 0
                          \/ \E s \in f.todo : s.version = 1 /\ s # r
                   PROVE  \E q \in frame'[id].todo : q.version = 1
      BY <2>5 DEF Doomed
    <3>2. CASE r # tx
      BY <2>2, <3>1, <3>2
    <3>3. CASE r = tx
      <4>1. f.entity.version = 0
        BY <2>3, <3>1, <3>3
      <4>2. PICK s \in f.todo : s.version = 1 /\ s # r
        BY <3>1, <4>1
      <4>3. QED
        BY <2>2, <3>3, <4>2
    <3>4. QED
      BY <3>2, <3>3
  <2>8. QED
    BY <1>3, <2>1, <2>2, <2>6, <2>7 DEF Keeps, Claims, FromZero
<1>4. QED
  BY <1>1, <1>2, <1>3

\* A step of a call other than the reading of its list keeps its part.
LEMMA StepKeeps ==
  ASSUME TypeInv, LiveInv, NEW id \in TxId,
         Start(id) \/ Step(id) \/ Fail(id), ~GetAllAfter(id)
  PROVE  Keeps(id)
<1>1. CASE Save(id)
  BY <1>1, EndKeeps DEF Save, Ended
<1>2. CASE Fail(id)
  BY <1>2, EndKeeps DEF Fail, Ended
<1>3. QED
  BY <1>1, <1>2, StartKeeps, GetWalletKeeps, GetLastKeeps, InsertKeeps,
     LoadKeeps, ApplyNextKeeps DEF Step

\* A call that does not move keeps its part while wallets only go live.
LEMMA StillKeeps ==
  ASSUME TypeInv, LiveInv, [Next]_vars, NEW i \in TxId,
         pc'[i] = pc[i], frame'[i] = frame[i], request'[i] = request[i]
  PROVE  Keeps(i)
<1>1. request[i] \in Request \/ pc[i] = "idle"
  BY DEF TypeInv
<1>2. frame[i].seen > 0 => wallet'[request[i].wallet].version > 0
  <2>1. SUFFICES ASSUME frame[i].seen > 0
                 PROVE  wallet'[request[i].wallet].version > 0
    OBVIOUS
  <2>2. wallet[request[i].wallet].version > 0 /\ request[i].wallet \in Wallet
    BY <1>1, <2>1 DEF LiveInv, CallInv, Request
  <2>3. QED
    BY <2>2, LiveStays
<1>3. QED
  BY <1>2 DEF Keeps, LiveInv, CallInv, Claims, FromZero, Doomed

\* Which calls a step may move.
LEMMA WhoMoves ==
  ASSUME TypeInv, [Next]_vars
  PROVE  \/ UNCHANGED <<pc, frame, request>>
         \/ \E id \in TxId : Start(id) \/ Step(id) \/ Fail(id)
BY DEF Next, Tick, CreateWallet, vars

LEMMA AllKeep ==
  ASSUME TypeInv, LiveInv, [Next]_vars, NEW i \in TxId
  PROVE  CallInv(i)' /\ (Keeps(i) \/ GetAllAfter(i))
<1>1. CASE UNCHANGED <<pc, frame, request>>
  BY <1>1, StillKeeps DEF Keeps
<1>2. ASSUME NEW id \in TxId, Start(id) \/ Step(id) \/ Fail(id)
      PROVE  CallInv(i)' /\ (Keeps(i) \/ GetAllAfter(i))
  <2>1. CASE i # id
    BY <1>2, <2>1, Others, StillKeeps DEF Keeps
  <2>2. CASE i = id
    BY <1>2, <2>2, StepKeeps, GetAllAfterKeeps DEF Keeps
  <2>3. QED
    BY <2>1, <2>2
<1>3. QED
  BY <1>1, <1>2, WhoMoves

------------------------------------------------------------------------------

\* A claimed wallet has a first transaction.
LEMMA ClaimedHasFirst ==
  ASSUME LiveInv, NEW w \in Wallet, Claimed(w)
  PROVE  HasFirst(w)
BY DEF LiveInv, FirstInv, Claimed, Claims, FromZero, Recording

\* A list read when another wallet is claimed dooms its reader.
LEMMA ReaderIsDoomed ==
  ASSUME TypeInv, LiveInv, NEW id \in TxId, GetAllAfter(id),
         NEW w \in Wallet, Claims(id, w)', NEW v \in Wallet, Claimed(v)
  PROVE  v = w
<1>1. SUFFICES ASSUME v # w PROVE Doomed(id)'
  BY DEF Claims
<1>2. request[id].wallet = w /\ frame[id].seen = 0
  BY DEF GetAllAfter, Claims, FromZero, TypeInv, TypeOK, Frame
<1>3. PICK r \in ledger : r.wallet = w /\ r.version = 1
  BY <1>2 DEF GetAllAfter, Recording, LiveInv, FirstInv, HasFirst
<1>4. PICK s \in ledger : s.wallet = v /\ s.version = 1
  BY ClaimedHasFirst DEF HasFirst
<1>5. frame'[id].todo = {q \in ledger : q.version > 0}
  BY <1>2 DEF GetAllAfter, TypeInv, TypeOK, Frame
<1>6. r \in frame'[id].todo /\ s \in frame'[id].todo /\ s # r
  BY <1>1, <1>3, <1>4, <1>5
<1>7. QED
  BY <1>3, <1>4, <1>6 DEF Doomed

\* A wallet claimed after a step was claimed before, or its list was just read.
LEMMA ClaimStep ==
  ASSUME TypeInv, LiveInv, [Next]_vars, NEW w \in Wallet, Claimed(w)'
  PROVE  Claimed(w) \/ \E id \in TxId : GetAllAfter(id) /\ Claims(id, w)'
<1>1. CASE wallet'[w].version > 0
  <2>1. CASE wallet' = wallet
    BY <1>1, <2>1 DEF Claimed
  <2>2. ASSUME NEW id \in TxId, Save(id) PROVE Claimed(w)
    <3>1. CASE w # request[id].wallet
      BY <1>1, <2>2, <3>1 DEF Save, Claimed, TypeInv, TypeOK
    <3>2. CASE w = request[id].wallet
      <4>1. pc[id] = "update" /\ frame[id].todo = {} /\ frame[id].seen \in Nat
        BY <2>2 DEF Save, TypeInv, TypeOK, Frame
      <4>2. CASE frame[id].seen > 0
        BY <3>2, <4>2 DEF LiveInv, CallInv, Claimed
      <4>3. CASE frame[id].seen = 0
        BY <3>2, <4>1, <4>3 DEF Claimed, Claims, FromZero, Doomed
      <4>4. QED
        BY <4>1, <4>2, <4>3
    <3>3. QED
      BY <3>1, <3>2
  <2>3. QED
    BY <2>1, <2>2, WalletStep
<1>2. ASSUME NEW id \in TxId, Claims(id, w)'
      PROVE  Claimed(w) \/ (GetAllAfter(id) /\ Claims(id, w)')
  BY <1>2, AllKeep DEF Keeps, Claimed
<1>3. QED
  BY <1>1, <1>2 DEF Claimed

\* Two calls do not read their lists in one step.
LEMMA GetAllAfterIsOne ==
  ASSUME TypeInv, NEW id \in TxId, GetAllAfter(id), NEW i \in TxId, GetAllAfter(i)
  PROVE  i = id
BY DEF GetAllAfter, GoTo, TypeInv, TypeOK

\* Two wallets are not claimed together.
LEMMA SolePreserved ==
  ASSUME TypeInv, LiveInv, [Next]_vars
  PROVE  SoleInv'
<1>1. SUFFICES ASSUME NEW v \in Wallet, NEW w \in Wallet,
                      Claimed(v)', Claimed(w)'
               PROVE  v = w
  BY DEF SoleInv
<1>2. CASE Claimed(v) /\ Claimed(w)
  BY <1>2 DEF LiveInv, SoleInv
<1>3. ASSUME NEW id \in TxId, GetAllAfter(id), Claims(id, v)', Claimed(w)
      PROVE  v = w
  BY <1>3, ReaderIsDoomed
<1>4. ASSUME NEW id \in TxId, GetAllAfter(id), Claims(id, w)', Claimed(v)
      PROVE  v = w
  BY <1>4, ReaderIsDoomed
<1>5. ASSUME NEW id \in TxId, GetAllAfter(id), Claims(id, v)',
             NEW i \in TxId, GetAllAfter(i), Claims(i, w)'
      PROVE  v = w
  <2>1. i = id
    BY <1>5, GetAllAfterIsOne
  <2>2. QED
    BY <1>5, <2>1 DEF Claims
<1>6. QED
  BY <1>1, <1>2, <1>3, <1>4, <1>5, ClaimStep

LEMMA LiveInvariant == Safety => []LiveInv
<1>1. Init => LiveInv
  <2>1. NewWallet.version = 0
    BY DEF NewWallet
  <2>2. SUFFICES ASSUME Init PROVE LiveInv
    OBVIOUS
  <2>3. /\ \A w \in Wallet : wallet[w].version = 0
        /\ \A id \in TxId : /\ pc[id] = "idle"
                            /\ frame[id].seen = 0
                            /\ frame[id].entity.version = 0
    BY <2>1, <2>2 DEF Init, EmptyFrame
  <2>4. QED
    BY <2>2, <2>3
    DEF Init, LiveInv, FirstInv, CallInv, SoleInv, Claimed, Claims, FromZero,
        Recording
<1>2. TypeInv /\ ChainInv /\ LiveInv /\ [Next]_vars => LiveInv'
  BY FirstPreserved, AllKeep, SolePreserved DEF LiveInv
<1>3. QED
  BY <1>1, <1>2, TypeInvariant, ChainInvariant, PTL DEF Safety

\* Whatever calls overlap, only one wallet ever moves.
THEOREM OnlyOneWalletMoves == Spec => []OneLiveWallet
<1>1. LiveInv => OneLiveWallet
  BY DEF LiveInv, SoleInv, Claimed, OneLiveWallet
<1>2. QED
  BY <1>1, LiveInvariant, PTL DEF Spec
==============================================================================
