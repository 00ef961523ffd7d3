------------------------ MODULE BalanceHistoryProofs ------------------------
(****************************************************************************)
(* A stored balance is always accounted for, and without ties no wallet is  *)
(* overdrawn, for any number of wallets, calls and amounts.                 *)
(*                                                                          *)
(* The argument: of the rows of one version, at most one is ever folded in, *)
(* as a list read once there are two of them holds both and is bound to be  *)
(* rejected.  So there is one history: one row for each version, and the    *)
(* balance data it leads to.  Every wallet is at some point of it, and so   *)
(* is every call that may still save.  Without ties versions end at 2, so   *)
(* the debit that is folded in saw the balance it is taken from.            *)
(****************************************************************************)
EXTENDS OneLiveWalletProofs, FiniteSetTheorems

------------------------------------------------------------------------------
(* Natural numbers and functions defined by recursion on them.              *)

\* A non-empty set of naturals has a least element.
LEMMA LeastNatural ==
  ASSUME NEW S \in SUBSET Nat, S # {}
  PROVE  \E m \in S : \A k \in S : m <= k
<1> DEFINE R == StrictSubsetOrdering(Nat)
           T == {0 .. n : n \in S}
<1>1. IsWellFoundedOn(R, FiniteSubsetsOf(Nat))
  BY FS_StrictSubsetOrderingWellFounded
<1>2. \A n \in S : 0 .. n \in FiniteSubsetsOf(Nat)
  <2>1. SUFFICES ASSUME NEW n \in S PROVE IsFiniteSet(0 .. n)
    BY DEF FiniteSubsetsOf
  <2>2. QED
    BY FS_Interval
<1>3. T \subseteq FiniteSubsetsOf(Nat) /\ T # {}
  BY <1>2
<1> HIDE DEF R, T
<1>4. PICK X \in T : \A Y \in T : <<Y, X>> \notin R
  BY <1>1, <1>3, WFMin
<1>5. PICK m \in S : X = 0 .. m
  BY DEF T
<1>6. ASSUME NEW k \in S, k < m PROVE FALSE
  <2>1. 0 .. k \subseteq 0 .. m /\ 0 .. k # 0 .. m
    <3>1. m \in 0 .. m /\ m \notin 0 .. k
      BY <1>6
    <3>2. QED
      BY <1>6, <3>1
  <2>2. <<0 .. k, X>> \in R
    BY <1>5, <2>1 DEF R, StrictSubsetOrdering
  <2>3. 0 .. k \in T
    BY DEF T
  <2>4. QED
    BY <1>4, <2>2, <2>3
<1>7. QED
  BY <1>6

\* Induction up to a bound, over a set.
LEMMA Induction ==
  ASSUME NEW top \in Nat, NEW S, 0 \in S,
         \A n \in 1 .. top : n - 1 \in S => n \in S
  PROVE  0 .. top \subseteq S
<1> DEFINE T == {n \in 0 .. top : n \notin S}
<1>1. SUFFICES ASSUME T # {} PROVE FALSE
  OBVIOUS
<1>2. T \in SUBSET Nat
  OBVIOUS
<1>3. PICK m \in T : \A k \in T : m <= k
  <2> HIDE DEF T
  <2>1. QED
    BY <1>1, <1>2, LeastNatural
<1>4. m \in 1 .. top /\ m - 1 \notin T
  BY <1>3
<1>5. QED
  BY <1>3, <1>4

\* g is what recursion from first by next[n] computes, up to n.
Computes(g, n, X, first, next) ==
  /\ g \in [0 .. n -> X]
  /\ g[0] = first
  /\ \A k \in 1 .. n : g[k] = next[k][g[k - 1]]

LEMMA ComputesExists ==
  ASSUME NEW X, NEW first \in X, NEW next \in [Nat -> [X -> X]], NEW n \in Nat
  PROVE  \E g : Computes(g, n, X, first, next)
<1> DEFINE S == {k \in 0 .. n : \E g : Computes(g, k, X, first, next)}
<1>1. 0 \in S
  <2>1. Computes([k \in 0 .. 0 |-> first], 0, X, first, next)
    BY DEF Computes
  <2>2. QED
    BY <2>1
<1>2. ASSUME NEW k \in 1 .. n, k - 1 \in S PROVE k \in S
  <2>1. PICK g : Computes(g, k - 1, X, first, next)
    BY <1>2
  <2>2. k \in Nat /\ k - 1 \in Nat /\ k - 1 \in 0 .. k - 1
    OBVIOUS
  <2>3. g[k - 1] \in X
    BY <2>1, <2>2 DEF Computes
  <2>4. next[k][g[k - 1]] \in X
    BY <2>2, <2>3
  <2> DEFINE last == next[k][g[k - 1]]
             h == [i \in 0 .. k |-> IF i = k THEN last ELSE g[i]]
  <2> HIDE DEF last
  <2>5. h \in [0 .. k -> X]
    BY <2>1, <2>4 DEF Computes, last
  <2>6. h[0] = first
    BY <2>1, <2>2 DEF Computes
  <2>7. ASSUME NEW i \in 1 .. k PROVE h[i] = next[i][h[i - 1]]
    <3>1. i - 1 \in 0 .. k /\ i - 1 # k /\ h[i - 1] = g[i - 1]
      BY <2>2
    <3>2. CASE i = k
      BY <3>1, <3>2 DEF last
    <3>3. CASE i # k
      <4>1. i \in 1 .. k - 1 /\ h[i] = g[i]
        BY <2>2, <3>3
      <4>2. QED
        BY <2>1, <3>1, <4>1 DEF Computes
    <3>4. QED
      BY <3>2, <3>3
  <2>8. Computes(h, k, X, first, next)
    BY <2>5, <2>6, <2>7 DEF Computes
  <2>9. k \in 0 .. n
    OBVIOUS
  <2>10. QED
    BY <2>8, <2>9
<1>3. 0 .. n \subseteq S
  <2> HIDE DEF S
  <2>1. QED
    BY <1>1, <1>2, Induction
<1>4. QED
  BY <1>3

LEMMA ComputesUnique ==
  ASSUME NEW X, NEW first, NEW next, NEW n \in Nat, NEW m \in Nat, n <= m,
         NEW g, Computes(g, n, X, first, next),
         NEW h, Computes(h, m, X, first, next)
  PROVE  g[n] = h[n]
<1> DEFINE S == {k \in 0 .. n : g[k] = h[k]}
<1>1. 0 \in S
  BY DEF Computes
<1>2. ASSUME NEW k \in 1 .. n, k - 1 \in S PROVE k \in S
  <2>1. g[k - 1] = h[k - 1] /\ k \in 1 .. m
    BY <1>2
  <2>2. QED
    BY <2>1 DEF Computes
<1>3. 0 .. n \subseteq S
  <2> HIDE DEF S
  <2>1. QED
    BY <1>1, <1>2, Induction
<1>4. QED
  BY <1>3

\* A function on the naturals may be defined by recursion.  The hypothesis and
\* the conclusion have names, so that the provers can instantiate the lemma
\* without expanding them.
IsStep(next, X) == next \in [Nat -> [X -> X]]

IsDefinedBy(f, X, first, next) ==
  /\ f \in [Nat -> X]
  /\ f[0] = first
  /\ \A n \in Nat \ {0} : f[n] = next[n][f[n - 1]]

LEMMA Recursion ==
  ASSUME NEW X, NEW first \in X, NEW next, IsStep(next, X)
  PROVE  \E f : IsDefinedBy(f, X, first, next)
<1> DEFINE G(n) == CHOOSE g : Computes(g, n, X, first, next)
           f == [n \in Nat |-> G(n)[n]]
<1>1. ASSUME NEW n \in Nat PROVE Computes(G(n), n, X, first, next)
  BY ComputesExists DEF IsStep
<1> HIDE DEF G
<1>2. f \in [Nat -> X]
  BY <1>1 DEF Computes
<1>3. f[0] = first
  BY <1>1 DEF Computes
<1>4. ASSUME NEW n \in Nat \ {0} PROVE f[n] = next[n][f[n - 1]]
  <2>1. n - 1 \in Nat /\ n - 1 <= n /\ n \in 1 .. n /\ n \in Nat
    OBVIOUS
  <2>2. Computes(G(n - 1), n - 1, X, first, next) /\ Computes(G(n), n, X, first, next)
    BY <1>1, <2>1
  <2>3. G(n - 1)[n - 1] = G(n)[n - 1]
    BY <2>1, <2>2, ComputesUnique
  <2>4. G(n)[n] = next[n][G(n)[n - 1]]
    BY <2>1, <2>2 DEF Computes
  <2>5. f[n] = G(n)[n] /\ f[n - 1] = G(n - 1)[n - 1]
    BY <2>1
  <2>6. QED
    BY <2>3, <2>4, <2>5
<1> HIDE DEF f
<1>5. QED
  BY <1>2, <1>3, <1>4 DEF IsDefinedBy

------------------------------------------------------------------------------
(* The recursive definition of Balances.                                    *)

\* The balance data that transactions of version n make of those in S.
After(S, n) ==
  {ApplyTransaction(s, tx) : s \in S, tx \in {r \in ledger : r.version = n}}

LEMMA AfterType ==
  ASSUME TypeInv, NEW S \in SUBSET WalletState, NEW n
  PROVE  After(S, n) \in SUBSET WalletState
<1>1. SUFFICES ASSUME NEW s \in S, NEW tx \in ledger
               PROVE  ApplyTransaction(s, tx) \in WalletState
  BY DEF After
<1>2. tx.amount \in Money /\ tx.version \in Nat /\ s \in WalletState
  BY DEF TypeInv, TypeOK, LedgerRow
<1>3. QED
  BY <1>2, ApplyType

LEMMA BalancesDef ==
  ASSUME TypeInv
  PROVE  /\ Balances[0] = {NewWallet}
         /\ \A n \in Nat \ {0} : Balances[n] = After(Balances[n - 1], n)
<1> DEFINE X == SUBSET WalletState
           first == {NewWallet}
           next == [n \in Nat |-> [S \in X |-> After(S, n)]]
           Body(g) == [n \in Nat |-> IF n = 0 THEN {NewWallet} ELSE After(g[n - 1], n)]
<1>1. first \in X
  BY NewWalletType
<1> HIDE DEF X, first
<1>2. IsStep(next, X)
  <2>1. \A n \in Nat, S \in X : After(S, n) \in X
    BY AfterType DEF X
  <2>2. QED
    BY <2>1 DEF IsStep
<1>3. \A n \in Nat, S \in X : next[n][S] = After(S, n)
  OBVIOUS
<1> HIDE DEF next
<1>4. PICK f : IsDefinedBy(f, X, first, next)
  BY <1>1, <1>2, Recursion
<1>5. ASSUME NEW n \in Nat
      PROVE  f[n] = IF n = 0 THEN {NewWallet} ELSE After(f[n - 1], n)
  <2>1. CASE n = 0
    BY <1>4, <2>1 DEF IsDefinedBy, first
  <2>2. CASE n # 0
    <3>1. n \in Nat \ {0} /\ n - 1 \in Nat
      BY <2>2
    <3>2. f[n] = next[n][f[n - 1]] /\ f[n - 1] \in X
      BY <1>4, <3>1 DEF IsDefinedBy
    <3>3. QED
      BY <1>3, <2>2, <3>1, <3>2
  <2>3. QED
    BY <2>1, <2>2
<1>6. f = Body(f)
  BY <1>4, <1>5 DEF IsDefinedBy
<1>7. Balances = CHOOSE g : g = Body(g)
  BY DEF Balances, After
<1>8. Balances = Body(Balances)
  <2> HIDE DEF Body
  <2>1. QED
    BY <1>6, <1>7
<1>9. QED
  <2>1. \A n \in Nat : Balances[n] = IF n = 0 THEN {NewWallet} ELSE After(Balances[n - 1], n)
    <3> DEFINE B == Balances
    <3>1. B = Body(B)
      BY <1>8
    <3> HIDE DEF B
    <3>2. \A n \in Nat : B[n] = IF n = 0 THEN {NewWallet} ELSE After(B[n - 1], n)
      BY <3>1
    <3>3. QED
      BY <3>2 DEF B
  <2>2. QED
    BY <2>1

------------------------------------------------------------------------------
(* The history.                                                             *)

\* updateBalance is bound to meet a transaction that it must reject.
Hopeless(id) ==
  \E r \in frame[id].todo :
    \/ r.version <= frame[id].entity.version
    \/ \E s \in frame[id].todo : s.version = r.version /\ s # r

Folding(id) == pc[id] \in {"load", "update"} /\ ~Hopeless(id)

\* c[n] is the row of version n that may be folded in, and h[n] the balance
\* data that c[1] to c[n] lead to.
History(top, c, h) ==
  /\ top \in Nat
  /\ c \in [1 .. top -> ledger]
  /\ h \in [0 .. top -> WalletState]
  /\ h[0] = NewWallet
  /\ \A n \in 1 .. top :
       c[n].version = n /\ h[n] = ApplyTransaction(h[n - 1], c[n])
  /\ \A r \in ledger : r.version \in 1 .. top

\* The call, if it may still save, is at some point of the history and is about
\* to go on along it.
CallAgrees(id, top, c, h) ==
  Folding(id) =>
    /\ \A r \in frame[id].todo : r.version \in 1 .. top /\ c[r.version] = r
    /\ pc[id] = "update" =>
         /\ frame[id].entity.version \in 0 .. top
         /\ frame[id].entity = h[frame[id].entity.version]

WalletAgrees(w, top, h) ==
  wallet[w].version \in 0 .. top /\ wallet[w] = h[wallet[w].version]

Agrees(top, c, h) ==
  /\ \A id \in TxId : CallAgrees(id, top, c, h)
  /\ \A w \in Wallet : WalletAgrees(w, top, h)

\* One history goes on where the other ends.
Extends(top, c, h, top2, c2, h2) ==
  /\ top <= top2
  /\ \A n \in 1 .. top : c2[n] = c[n]
  /\ \A n \in 0 .. top : h2[n] = h[n]

\* The row is the first of its version, and ends the history.
IsNext(row, top, h, top2, h2) ==
  /\ top2 = top + 1
  /\ row.version = top2
  /\ h2[top2] = ApplyTransaction(h[top], row)

\* An insert adds a row to the history if its version is new.
LEMMA HistoryInsert ==
  ASSUME TypeInv, ChainInv, NEW top, NEW c, NEW h, History(top, c, h),
         NEW id \in TxId, Insert(id),
         NEW row \in LedgerRow, ledger' = ledger \cup {row},
         row.version = frame[id].base + 1
  PROVE  \E top2, c2, h2 :
           /\ History(top2, c2, h2)'
           /\ Extends(top, c, h, top2, c2, h2)
           /\ top2 = top \/ IsNext(row, top, h, top2, h2)
<1>1. row.version \in 1 .. top + 1
  <2>1. frame[id].base \in Nat /\ top \in Nat
    BY DEF TypeInv, TypeOK, Frame, History
  <2>2. frame[id].base > 0 => frame[id].base \in 1 .. top
    BY DEF ChainInv, Follows, Insert, History
  <2>3. QED
    BY <2>1, <2>2
<1>2. CASE row.version \in 1 .. top
  <2>1. History(top, c, h)'
    BY <1>2 DEF History
  <2>2. Extends(top, c, h, top, c, h)
    BY DEF Extends, History
  <2>3. QED
    BY <2>1, <2>2
<1>3. CASE row.version = top + 1
  <2> DEFINE top2 == top + 1
             c2 == [n \in 1 .. top2 |-> IF n = top2 THEN row ELSE c[n]]
             h2 == [n \in 0 .. top2 |->
                      IF n = top2 THEN ApplyTransaction(h[top], row) ELSE h[n]]
  <2>1. top \in Nat /\ top2 \in Nat /\ top \in 0 .. top
    BY DEF History
  <2>2. ApplyTransaction(h[top], row) \in WalletState
    BY <2>1, ApplyType DEF History, LedgerRow
  <2>3. c2 \in [1 .. top2 -> ledger']
    BY <2>1 DEF History
  <2>4. h2 \in [0 .. top2 -> WalletState]
    BY <2>1, <2>2 DEF History
  <2>5. Extends(top, c, h, top2, c2, h2)
    BY <2>1 DEF Extends
  <2>6. c2[top2] = row /\ h2[top2] = ApplyTransaction(h[top], row)
    BY <2>1
  <2> HIDE DEF c2, h2
  <2>7. ASSUME NEW n \in 1 .. top2
        PROVE  c2[n].version = n /\ h2[n] = ApplyTransaction(h2[n - 1], c2[n])
    <3>1. CASE n = top2
      BY <1>3, <2>1, <2>5, <2>6, <3>1 DEF Extends
    <3>2. CASE n # top2
      <4>1. n \in 1 .. top /\ n \in 0 .. top /\ n - 1 \in 0 .. top
        BY <2>1, <3>2
      <4>2. c2[n] = c[n] /\ h2[n] = h[n] /\ h2[n - 1] = h[n - 1]
        BY <2>5, <4>1 DEF Extends
      <4>3. QED
        BY <4>1, <4>2 DEF History
    <3>3. QED
      BY <3>1, <3>2
  <2>8. h2[0] = NewWallet
    BY <2>1, <2>5 DEF Extends, History
  <2>9. \A r \in ledger' : r.version \in 1 .. top2
    BY <1>3, <2>1 DEF History
  <2>10. History(top2, c2, h2)'
    BY <2>1, <2>3, <2>4, <2>7, <2>8, <2>9 DEF History
  <2>11. IsNext(row, top, h, top2, h2)
    BY <1>3, <2>6 DEF IsNext
  <2>12. QED
    BY <2>5, <2>10, <2>11
<1>4. row.version \in 1 .. top \/ row.version = top + 1
  BY <1>1 DEF History
<1>5. QED
  BY <1>2, <1>3, <1>4

\* Every step leaves the history as it is, or an insert adds a row to it.
LEMMA HistoryStep ==
  ASSUME TypeInv, ChainInv, [Next]_vars, NEW top, NEW c, NEW h, History(top, c, h)
  PROVE  \E top2, c2, h2 :
           /\ History(top2, c2, h2)'
           /\ Extends(top, c, h, top2, c2, h2)
           /\ \/ top2 = top
              \/ \E id \in TxId, row \in ledger' :
                   /\ Insert(id)
                   /\ row.type = request[id].type
                   /\ row.amount = request[id].amount
                   /\ IsNext(row, top, h, top2, h2)
<1>1. CASE ledger' = ledger
  <2>1. History(top, c, h)'
    BY <1>1 DEF History
  <2>2. Extends(top, c, h, top, c, h)
    BY DEF Extends, History
  <2>3. QED
    BY <2>1, <2>2
<1>2. ASSUME NEW id \in TxId, Insert(id)
      PROVE  \E top2, c2, h2 :
               /\ History(top2, c2, h2)'
               /\ Extends(top, c, h, top2, c2, h2)
               /\ \/ top2 = top
                  \/ \E row \in ledger' :
                       /\ row.type = request[id].type
                       /\ row.amount = request[id].amount
                       /\ IsNext(row, top, h, top2, h2)
  <2>1. PICK row \in LedgerRow :
          /\ ledger' = ledger \cup {row}
          /\ row.type = request[id].type
          /\ row.amount = request[id].amount
          /\ row.version = frame[id].base + 1
    BY <1>2, InsertRow
  <2>2. PICK top2, c2, h2 :
          /\ History(top2, c2, h2)'
          /\ Extends(top, c, h, top2, c2, h2)
          /\ top2 = top \/ IsNext(row, top, h, top2, h2)
    BY <1>2, <2>1, HistoryInsert
  <2>3. row \in ledger'
    BY <2>1
  <2>4. QED
    BY <2>1, <2>2, <2>3
<1>3. QED
  BY <1>1, <1>2, LedgerStep

\* What agrees with a history agrees with one that extends it.
LEMMA CallStillAgrees ==
  ASSUME NEW top, NEW c, NEW h, NEW top2, NEW c2, NEW h2,
         Extends(top, c, h, top2, c2, h2), top \in Nat, top2 \in Nat,
         NEW id \in TxId, CallAgrees(id, top, c, h),
         pc'[id] = pc[id], frame'[id] = frame[id]
  PROVE  CallAgrees(id, top2, c2, h2)'
BY DEF CallAgrees, Folding, Hopeless, Extends

\* A list that can still be folded in holds the only row of each version.
LEMMA GetAllAfterAgrees ==
  ASSUME TypeInv, LiveInv, NEW id \in TxId, GetAllAfter(id),
         NEW top2, NEW c2, NEW h2, History(top2, c2, h2)'
  PROVE  CallAgrees(id, top2, c2, h2)'
<1>1. SUFFICES ASSUME ~Hopeless(id)', NEW r \in frame'[id].todo
               PROVE  r.version \in 1 .. top2 /\ c2[r.version] = r
  BY DEF GetAllAfter, GoTo, TypeInv, TypeOK, CallAgrees, Folding
<1>2. ledger' = ledger /\ frame'[id].todo = {q \in ledger : q.version > frame[id].seen}
  BY DEF GetAllAfter, TypeInv, TypeOK, Frame
<1>3. r.version \in 1 .. top2
  BY <1>2 DEF History
<1>4. c2[r.version] \in ledger /\ c2[r.version].version = r.version
  BY <1>2, <1>3 DEF History
<1>5. c2[r.version] \in frame'[id].todo
  BY <1>1, <1>2, <1>4
<1>6. QED
  BY <1>1, <1>3, <1>4, <1>5 DEF Hopeless

LEMMA LoadAgrees ==
  ASSUME TypeInv, LiveInv, NEW id \in TxId, Load(id),
         NEW top, NEW c, NEW h, Agrees(top, c, h),
         NEW top2, NEW c2, NEW h2, top \in Nat, top2 \in Nat,
         Extends(top, c, h, top2, c2, h2)
  PROVE  CallAgrees(id, top2, c2, h2)'
<1> DEFINE w == request[id].wallet
<1>1. /\ pc[id] = "load" /\ pc'[id] = "update"
      /\ frame'[id].todo = frame[id].todo
      /\ frame'[id].entity = wallet[w]
      /\ w \in Wallet
  BY DEF Load, GoTo, TypeInv, TypeOK, Frame, Request
<1>2. ~Hopeless(id)' => ~Hopeless(id)
  <2>1. frame[id].entity.version = 0 /\ wallet[w].version \in Nat
    BY <1>1 DEF LiveInv, CallInv, TypeInv, TypeOK, WalletState
  <2>2. \A r \in frame[id].todo : r.version \in Nat
    BY DEF TypeInv, TypeOK, Frame, LedgerRow
  <2>3. QED
    BY <1>1, <2>1, <2>2 DEF Hopeless
<1>3. QED
  BY <1>1, <1>2 DEF Agrees, CallAgrees, WalletAgrees, Folding, Extends

\* A call that folds in a transaction and may still save could save before.
LEMMA ApplyNextAgrees ==
  ASSUME TypeInv, NEW id \in TxId, ApplyNext(id),
         NEW top, NEW c, NEW h, History(top, c, h), Agrees(top, c, h),
         NEW top2, NEW c2, NEW h2, top2 \in Nat,
         Extends(top, c, h, top2, c2, h2)
  PROVE  CallAgrees(id, top2, c2, h2)'
<1> DEFINE f == frame[id]
<1>1. PICK tx \in Earliest(f.todo) :
        \/ End(id, "failed")
        \/ /\ ~Rejects(f.entity, tx)
           /\ frame' = [frame EXCEPT
                ![id].entity = ApplyTransaction(f.entity, tx),
                ![id].todo = @ \ {tx}]
           /\ UNCHANGED pc
  BY DEF ApplyNext
<1>2. CASE End(id, "failed")
  BY <1>2 DEF End, GoTo, TypeInv, TypeOK, CallAgrees, Folding
<1>3. CASE /\ ~Rejects(f.entity, tx)
           /\ frame' = [frame EXCEPT
                ![id].entity = ApplyTransaction(f.entity, tx),
                ![id].todo = @ \ {tx}]
           /\ UNCHANGED pc
  <2>1. /\ frame'[id].todo = f.todo \ {tx}
        /\ frame'[id].entity = ApplyTransaction(f.entity, tx)
        /\ pc[id] = "update"
    BY <1>3 DEF ApplyNext, TypeInv, TypeOK, Frame
  <2>2. f.entity.version \in Nat /\ tx.version = f.entity.version + 1 /\ tx \in f.todo
    BY <1>3 DEF Earliest, Rejects, TypeInv, TypeOK, Frame, WalletState
  <2>3. frame'[id].entity.version = tx.version
    BY <2>1 DEF ApplyTransaction
  <2>4. \A r \in f.todo : r.version \in Nat
    BY DEF TypeInv, TypeOK, Frame, LedgerRow
  <2>5. Hopeless(id) => Hopeless(id)'
    <3>1. ASSUME NEW r \in f.todo, r.version <= f.entity.version
          PROVE  Hopeless(id)'
      <4>1. r # tx /\ r.version <= tx.version
        BY <2>2, <2>4, <3>1
      <4>2. QED
        BY <2>1, <2>3, <4>1 DEF Hopeless
    <3>2. ASSUME NEW r \in f.todo, NEW s \in f.todo, s.version = r.version, s # r
          PROVE  Hopeless(id)'
      <4>1. CASE r = tx
        BY <2>1, <2>3, <2>4, <3>2, <4>1 DEF Hopeless
      <4>2. CASE s = tx
        BY <2>1, <2>3, <2>4, <3>2, <4>2 DEF Hopeless
      <4>3. CASE r # tx /\ s # tx
        BY <2>1, <3>2, <4>3 DEF Hopeless
      <4>4. QED
        BY <4>1, <4>2, <4>3
    <3>3. QED
      BY <3>1, <3>2 DEF Hopeless
  <2>6. SUFFICES ASSUME ~Hopeless(id)
                 PROVE  CallAgrees(id, top2, c2, h2)'
    BY <2>5 DEF CallAgrees, Folding
  <2>7. /\ \A r \in f.todo : r.version \in 1 .. top /\ c[r.version] = r
        /\ f.entity = h[f.entity.version]
    BY <2>1, <2>6 DEF Agrees, CallAgrees, Folding
  <2>8. tx.version \in 1 .. top /\ tx.version - 1 = f.entity.version
    BY <2>2, <2>7
  <2>9. h[tx.version] = ApplyTransaction(f.entity, tx)
    BY <2>2, <2>7, <2>8 DEF History
  <2>10. tx.version \in 0 .. top2 /\ h2[tx.version] = h[tx.version]
    BY <2>8 DEF Extends, History
  <2>11. \A r \in f.todo : r.version \in 1 .. top2 /\ c2[r.version] = r
    BY <2>7 DEF Extends, History
  <2>12. QED
    BY <2>1, <2>3, <2>9, <2>10, <2>11 DEF CallAgrees
<1>4. QED
  BY <1>1, <1>2, <1>3

\* So every call goes on agreeing with the history.
LEMMA CallsAgree ==
  ASSUME TypeInv, LiveInv, [Next]_vars,
         NEW top, NEW c, NEW h, History(top, c, h), Agrees(top, c, h),
         NEW top2, NEW c2, NEW h2, History(top2, c2, h2)',
         Extends(top, c, h, top2, c2, h2), NEW i \in TxId
  PROVE  CallAgrees(i, top2, c2, h2)'
<1>1. top \in Nat /\ top2 \in Nat
  BY DEF History
<1>2. CASE pc'[i] = pc[i] /\ frame'[i] = frame[i]
  BY <1>1, <1>2, CallStillAgrees DEF Agrees
<1>3. ASSUME Start(i) \/ Step(i) \/ Fail(i) PROVE CallAgrees(i, top2, c2, h2)'
  <2>1. CASE pc'[i] \notin {"load", "update"}
    BY <2>1 DEF CallAgrees, Folding
  <2>2. CASE GetAllAfter(i) \/ Load(i) \/ ApplyNext(i)
    BY <1>1, <2>2, GetAllAfterAgrees, LoadAgrees, ApplyNextAgrees
  <2>3. ASSUME ~(GetAllAfter(i) \/ Load(i) \/ ApplyNext(i))
        PROVE  pc'[i] \notin {"load", "update"}
    BY <1>3, <2>3
    DEF Start, Credit, Debit, Call, Step, GetWallet, GetLast, Insert, Save,
        Fail, End, GoTo, TypeInv, TypeOK
  <2>4. QED
    BY <2>1, <2>2, <2>3
<1>4. QED
  <2>1. CASE UNCHANGED <<pc, frame, request>>
    BY <1>2, <2>1
  <2>2. ASSUME NEW id \in TxId, Start(id) \/ Step(id) \/ Fail(id)
        PROVE  CallAgrees(i, top2, c2, h2)'
    <3>1. CASE i = id
      BY <1>3, <2>2, <3>1
    <3>2. CASE i # id
      BY <1>2, <2>2, <3>2, Others
    <3>3. QED
      BY <3>1, <3>2
  <2>3. QED
    BY <2>1, <2>2, WhoMoves

\* A call that has folded in its whole list saves a point of the history.
LEMMA WalletsAgree ==
  ASSUME TypeInv, [Next]_vars,
         NEW top, NEW c, NEW h, top \in Nat, Agrees(top, c, h),
         NEW top2, NEW c2, NEW h2, top2 \in Nat,
         Extends(top, c, h, top2, c2, h2), NEW w \in Wallet
  PROVE  WalletAgrees(w, top2, h2)'
<1>1. CASE wallet'[w] = wallet[w]
  BY <1>1 DEF Agrees, WalletAgrees, Extends
<1>2. ASSUME NEW id \in TxId, Save(id), wallet'[w] # wallet[w]
      PROVE  WalletAgrees(w, top2, h2)'
  <2>1. wallet'[w] = frame[id].entity
    BY <1>2 DEF Save, TypeInv, TypeOK
  <2>2. Folding(id) /\ pc[id] = "update"
    BY <1>2 DEF Save, Folding, Hopeless
  <2>3. /\ frame[id].entity.version \in 0 .. top
        /\ frame[id].entity = h[frame[id].entity.version]
    BY <2>2 DEF Agrees, CallAgrees
  <2>4. QED
    BY <2>1, <2>3 DEF WalletAgrees, Extends
<1>3. QED
  BY <1>1, <1>2, WalletStep

------------------------------------------------------------------------------
(* One currency, and short versions.                                        *)

NairaInv ==
  /\ \A id \in TxId : pc[id] # "idle" => request[id].amount.currency = "NGN"
  /\ \A r \in ledger : r.amount.currency = "NGN"

\* Without ties the first row of a wallet is the one the database puts first,
\* so every other row is given version 2.
ShortInv ==
  DistinctTimes =>
    /\ \A r \in ledger : r.version <= 2
    /\ \A id \in TxId : pc[id] = "save" => frame[id].base <= 1

LEMMA NairaPreserved ==
  ASSUME TypeInv, NairaInv, [Next]_vars
  PROVE  NairaInv'
<1>1. ASSUME NEW i \in TxId, pc'[i] # "idle"
      PROVE  request'[i].amount.currency = "NGN"
  <2>1. CASE pc[i] # "idle"
    BY <2>1, RequestKept DEF NairaInv
  <2>2. CASE pc[i] = "idle"
    <3>1. PICK id \in TxId : Start(id) \/ Step(id) \/ Fail(id)
      BY <1>1, <2>2, WhoMoves
    <3>2. i = id
      BY <1>1, <2>2, <3>1, Others
    <3>3. ~Step(id) /\ ~Fail(id)
      BY <2>2, <3>2
      DEF Step, GetWallet, GetLast, Insert, GetAllAfter, Load, ApplyNext, Save,
          Fail, Awaiting
    <3>4. PICK type, w, kobo, first : Call(i, type, w, kobo, first)
      BY <3>1, <3>2, <3>3 DEF Start, Credit, Debit
    <3>5. request'[i].amount = Naira(kobo)
      BY <3>4 DEF Call, TypeInv, TypeOK
    <3>6. QED
      BY <3>5 DEF Naira
  <2>3. QED
    BY <2>1, <2>2
<1>2. ASSUME NEW r \in ledger' PROVE r.amount.currency = "NGN"
  <2>1. CASE r \in ledger
    BY <2>1 DEF NairaInv
  <2>2. CASE r \notin ledger
    <3>1. PICK id \in TxId : Insert(id)
      BY <2>2, LedgerStep
    <3>2. r.amount = request[id].amount
      BY <2>2, <3>1, InsertRow
    <3>3. QED
      BY <3>1, <3>2 DEF Insert, NairaInv
  <2>3. QED
    BY <2>1, <2>2
<1>3. QED
  BY <1>1, <1>2 DEF NairaInv

\* Without ties the earliest row of a wallet is its first.
LEMMA EarliestIsFirst ==
  ASSUME TypeInv, ChainInv, DistinctTimes, NEW w,
         NEW r \in Earliest(RowsOf(w))
  PROVE  r.version = 1
<1>1. r \in ledger /\ r.wallet = w
  BY DEF Earliest, RowsOf
<1>2. SUFFICES ASSUME NEW s \in ledger, s.wallet = w, s.version + 1 = r.version,
                      s.createdAt <= r.createdAt
               PROVE  FALSE
  BY <1>1 DEF ChainInv, VersionChain
<1>3. r.createdAt <= s.createdAt
  BY <1>2 DEF Earliest, RowsOf
<1>4. r.createdAt \in Nat /\ s.createdAt \in Nat /\ s.version \in Nat
  BY <1>1 DEF TypeInv, TypeOK, LedgerRow
<1>5. r.createdAt = s.createdAt
  BY <1>2, <1>3, <1>4
<1>6. r = s
  BY <1>1, <1>5 DEF DistinctTimes
<1>7. QED
  BY <1>2, <1>4, <1>6

LEMMA DistinctBefore ==
  ASSUME TypeInv, [Next]_vars, DistinctTimes'
  PROVE  DistinctTimes
<1>1. ledger \subseteq ledger'
  BY LedgerStep, InsertRow
<1>2. QED
  BY <1>1 DEF DistinctTimes

LEMMA ShortPreserved ==
  ASSUME TypeInv, ChainInv, ShortInv, [Next]_vars
  PROVE  ShortInv'
<1>1. SUFFICES ASSUME DistinctTimes'
               PROVE  /\ \A r \in ledger' : r.version <= 2
                      /\ \A id \in TxId : pc'[id] = "save" => frame'[id].base <= 1
  BY DEF ShortInv
<1>2. DistinctTimes
  BY <1>1, DistinctBefore
<1>3. ASSUME NEW r \in ledger' PROVE r.version <= 2
  <2>1. CASE r \in ledger
    BY <1>2, <2>1 DEF ShortInv
  <2>2. CASE r \notin ledger
    <3>1. PICK id \in TxId : Insert(id)
      BY <2>2, LedgerStep
    <3>2. r.version = frame[id].base + 1
      BY <2>2, <3>1, InsertRow
    <3>3. frame[id].base <= 1 /\ frame[id].base \in Nat
      BY <1>2, <3>1 DEF Insert, ShortInv, TypeInv, TypeOK, Frame
    <3>4. QED
      BY <3>2, <3>3
  <2>3. QED
    BY <2>1, <2>2
<1>4. ASSUME NEW id \in TxId, pc'[id] = "save" PROVE frame'[id].base <= 1
  <2>1. CASE pc[id] = "save"
    <3>1. frame'[id] = frame[id]
      BY <1>4, <2>1, SaveWaits
    <3>2. QED
      BY <1>2, <2>1, <3>1 DEF ShortInv
  <2>2. CASE pc[id] # "save"
    <3>1. GetLast(id)
      BY <1>4, <2>2, OnlyGetLastSaves
    <3>2. PICK base \in LastVersions(request[id].wallet) :
            frame' = [frame EXCEPT ![id].base = base, ![id].since = clock]
      BY <3>1 DEF GetLast
    <3>3. base = 0 \/ base = 1
      BY <1>2, EarliestIsFirst DEF LastVersions
    <3>4. frame'[id].base = base
      BY <3>2 DEF TypeInv, TypeOK, Frame
    <3>5. QED
      BY <3>3, <3>4
  <2>3. QED
    BY <2>1, <2>2
<1>5. QED
  BY <1>3, <1>4

------------------------------------------------------------------------------
(* What a debit may still take, without ties.                               *)

\* A debit that has tested the balance and not yet inserted its row.
Pending(id) == request[id].type = "OUT" /\ pc[id] \in {"getLast", "save"}

Sound(s) == ~Overdrawn(s) /\ s.balance.currency = "NGN"

\* No point of the history is overdrawn, and while it may still grow no debit
\* is waiting to take more than it ends with.
Affordable(top, h) ==
  /\ top <= 2
  /\ \A n \in 0 .. top : Sound(h[n])
  /\ top <= 1 =>
       \A id \in TxId :
         Pending(id) => request[id].amount.value <= h[top].balance.value

\* A credit, or a debit of no more than the balance, overdraws nothing.
LEMMA ApplySound ==
  ASSUME NEW s \in WalletState, Sound(s), NEW tx,
         tx.amount \in Money, tx.amount.currency = "NGN",
         tx.type \in TransactionType,
         tx.type = "OUT" => tx.amount.value <= s.balance.value
  PROVE  Sound(ApplyTransaction(s, tx))
<1> DEFINE b == s.balance.value
           a == tx.amount.value
           after == ApplyTransaction(s, tx)
<1>1. a \in Nat /\ b \in Nat
  BY DEF WalletState, Money
<1>2. s.type = "IDEAL" \/ (s.type = "OVERDRAFT" /\ b = 0)
  BY <1>1 DEF WalletState, BalanceType, Sound, Overdrawn
<1>3. GreaterOrEqual(tx.amount, s.balance) <=> a >= b
  BY DEF GreaterOrEqual, Sound
<1>4. after.balance.currency = "NGN"
  BY DEF ApplyTransaction, Add, Difference, Sound
<1>5. CASE tx.type = "IN"
  BY <1>1, <1>2, <1>3, <1>4, <1>5 DEF ApplyTransaction, ChangesSign, Sound, Overdrawn
<1>6. CASE tx.type = "OUT" /\ a < b
  BY <1>1, <1>2, <1>3, <1>4, <1>6 DEF ApplyTransaction, ChangesSign, Sound, Overdrawn
<1>7. CASE tx.type = "OUT" /\ a = b
  <2>1. after.balance.value = 0
    BY <1>1, <1>7 DEF ApplyTransaction, ChangesSign, Difference, Distance
  <2>2. QED
    BY <1>4, <2>1 DEF Sound, Overdrawn
<1>8. QED
  BY <1>1, <1>5, <1>6, <1>7 DEF TransactionType

\* A call comes to be pending only by testing the balance.
LEMMA PendingStep ==
  ASSUME TypeInv, [Next]_vars, NEW i \in TxId, Pending(i)'
  PROVE  /\ request'[i] = request[i]
         /\ \/ Pending(i)
            \/ GetWallet(i) /\ HasUpTo(wallet[request[i].wallet], request[i].amount)
<1> USE DEF TypeInv, TypeOK, Pending
<1> DEFINE Goal == /\ request'[i] = request[i]
                   /\ \/ Pending(i)
                      \/ /\ GetWallet(i)
                         /\ HasUpTo(wallet[request[i].wallet], request[i].amount)
<1>1. CASE pc'[i] = pc[i] /\ request'[i] = request[i]
  BY <1>1
<1>2. CASE Start(i)
  <2>1. PICK type, w, kobo, first :
          /\ Call(i, type, w, kobo, first)
          /\ \/ type = "IN" /\ first = "getLast"
             \/ type = "OUT" /\ first = "getWallet"
    BY <1>2 DEF Start, Credit, Debit
  <2>2. request'[i].type = type /\ pc'[i] = first
    BY <2>1 DEF Call, GoTo
  <2>3. QED
    BY <2>1, <2>2
<1>3. CASE Step(i)
  <2>1. request' = request
    BY <1>3 DEF Step, GetWallet, GetLast, Insert, GetAllAfter, Load, ApplyNext, Save
  <2>2. CASE GetWallet(i)
    BY <2>1, <2>2 DEF GetWallet, GoTo, End
  <2>3. CASE GetLast(i)
    BY <2>1, <2>3 DEF GetLast
  <2>4. CASE Insert(i) \/ GetAllAfter(i) \/ Load(i)
    BY <2>1, <2>4 DEF Insert, GetAllAfter, Load, GoTo
  <2>5. CASE ApplyNext(i) \/ Save(i)
    BY <2>1, <2>5 DEF ApplyNext, Save, End, GoTo
  <2>6. QED
    BY <1>3, <2>2, <2>3, <2>4, <2>5 DEF Step
<1>4. CASE Fail(i)
  BY <1>4 DEF Fail, End, GoTo
<1>5. CASE UNCHANGED <<pc, frame, request>>
  BY <1>1, <1>5
<1>6. ASSUME NEW id \in TxId, Start(id) \/ Step(id) \/ Fail(id) PROVE Goal
  <2>1. CASE i = id
    BY <1>2, <1>3, <1>4, <1>6, <2>1
  <2>2. CASE i # id
    BY <1>1, <1>6, <2>2, Others
  <2>3. QED
    BY <2>1, <2>2
<1>7. QED
  BY <1>5, <1>6, WhoMoves

\* While the history does not grow, a debit that passes its test has seen no
\* more than the history ends with.
LEMMA AffordableStays ==
  ASSUME TypeInv, [Next]_vars,
         NEW top, NEW c, NEW h, History(top, c, h), Agrees(top, c, h),
         Affordable(top, h),
         NEW h2, \A n \in 0 .. top : h2[n] = h[n]
  PROVE  Affordable(top, h2)'
<1>1. top \in Nat /\ top \in 0 .. top /\ h2[top] = h[top]
  BY DEF History
<1>2. \A n \in 0 .. top : Sound(h2[n])
  BY DEF Affordable
<1>3. ASSUME top <= 1, NEW i \in TxId, Pending(i)'
      PROVE  request'[i].amount.value <= h[top].balance.value
  <2>1. request'[i] = request[i]
    BY <1>3, PendingStep
  <2>2. CASE Pending(i)
    BY <1>3, <2>1, <2>2 DEF Affordable
  <2>3. CASE GetWallet(i) /\ HasUpTo(wallet[request[i].wallet], request[i].amount)
    <3> DEFINE w == request[i].wallet
    <3>1. w \in Wallet /\ request[i].amount.value \in Nat
      BY <2>3 DEF GetWallet, TypeInv, Request, Money
    <3>2. request[i].amount.value <= wallet[w].balance.value
      BY <2>3, <3>1 DEF HasUpTo, GreaterOrEqual, TypeInv, TypeOK, WalletState, Money
    <3>3. wallet[w].version \in 0 .. top /\ wallet[w] = h[wallet[w].version]
      BY <3>1 DEF Agrees, WalletAgrees
    <3>4. CASE wallet[w].version = top
      BY <2>1, <3>2, <3>3, <3>4
    <3>5. CASE wallet[w].version = 0 /\ top = 1
      <4>1. wallet[w].balance.value = 0
        BY <3>3, <3>5 DEF History, NewWallet, Naira
      <4>2. h[top] \in WalletState
        BY <1>1 DEF History
      <4>3. h[top].balance.value \in Nat
        BY <4>2 DEF WalletState, Money
      <4>4. QED
        BY <2>1, <3>1, <3>2, <4>1, <4>3
    <3>6. QED
      BY <1>1, <1>3, <3>3, <3>4, <3>5
  <2>4. QED
    BY <1>3, <2>2, <2>3, PendingStep
<1>4. QED
  BY <1>1, <1>2, <1>3 DEF Affordable

\* The row that ends the history is a credit, or a debit that can be afforded.
LEMMA AffordableGrows ==
  ASSUME TypeInv, NairaInv, [Next]_vars,
         NEW top, NEW c, NEW h, History(top, c, h), Affordable(top, h),
         NEW top2, NEW c2, NEW h2, Extends(top, c, h, top2, c2, h2),
         History(top2, c2, h2)',
         NEW id \in TxId, Insert(id), NEW row \in ledger',
         row.type = request[id].type, row.amount = request[id].amount,
         IsNext(row, top, h, top2, h2), row.version <= 2
  PROVE  Affordable(top2, h2)'
<1>1. /\ top \in Nat /\ top2 = top + 1 /\ top2 <= 2 /\ top \in 0 .. top
      /\ top2 \in 0 .. top2
  BY DEF History, IsNext
<1>2. h[top] \in WalletState /\ h2[top2] \in WalletState /\ Sound(h[top])
  BY <1>1 DEF History, Affordable
<1>3. request[id] \in Request /\ pc[id] = "save"
  BY DEF Insert, TypeInv
<1>4. /\ row.amount \in Money /\ row.type \in TransactionType
      /\ row.amount.currency = "NGN"
  BY <1>3 DEF Request, NairaInv
<1>5. row.type = "OUT" => row.amount.value <= h[top].balance.value
  <2>1. top <= 1 /\ pc[id] \in {"getLast", "save"}
    BY <1>1, <1>3
  <2>2. Pending(id) => request[id].amount.value <= h[top].balance.value
    BY <2>1 DEF Affordable
  <2>3. QED
    BY <2>1, <2>2 DEF Pending
<1>6. Sound(h2[top2])
  BY <1>2, <1>4, <1>5, ApplySound DEF IsNext
<1>7. ASSUME NEW n \in 0 .. top2 PROVE Sound(h2[n])
  <2>1. CASE n = top2
    BY <1>6, <2>1
  <2>2. CASE n # top2
    BY <1>1, <2>2 DEF Affordable, Extends
  <2>3. QED
    BY <2>1, <2>2
<1>8. ASSUME top2 <= 1, NEW i \in TxId, Pending(i)'
      PROVE  request'[i].amount.value <= h2[top2].balance.value
  <2>1. Pending(i) /\ request'[i] = request[i]
    BY <1>3, <1>8, PendingStep DEF GetWallet, Insert, GoTo, Pending, TypeInv, TypeOK
  <2>2. top = 0 /\ h[top].balance.value = 0
    BY <1>1, <1>8 DEF History, NewWallet, Naira
  <2>3. request[i].amount.value <= 0
    BY <2>1, <2>2 DEF Affordable
  <2>4. request[i].amount.value \in Nat /\ h2[top2].balance.value \in Nat
    <3>1. request[i] \in Request
      BY <2>1 DEF Pending, TypeInv
    <3>2. QED
      BY <1>2, <3>1 DEF Request, WalletState, Money
  <2>5. QED
    BY <2>1, <2>3, <2>4
<1>9. QED
  BY <1>1, <1>7, <1>8 DEF Affordable

------------------------------------------------------------------------------

HistoryInv ==
  \E top, c, h :
    /\ History(top, c, h)
    /\ Agrees(top, c, h)
    /\ DistinctTimes => Affordable(top, h)

\* Before anything is inserted the history is empty.
LEMMA HistoryInit == Init => NairaInv /\ ShortInv /\ HistoryInv
<1> SUFFICES ASSUME Init PROVE NairaInv /\ ShortInv /\ HistoryInv
  OBVIOUS
<1>1. NairaInv /\ ShortInv
  BY DEF Init, NairaInv, ShortInv
<1> DEFINE c == [n \in 1 .. 0 |-> n]
           h == [n \in 0 .. 0 |-> NewWallet]
<1>2. h[0] = NewWallet /\ h \in [0 .. 0 -> WalletState]
  BY NewWalletType
<1>3. c \in [1 .. 0 -> ledger]
  OBVIOUS
<1> HIDE DEF c, h
<1>4. History(0, c, h)
  BY <1>2, <1>3 DEF History, Init
<1>5. Agrees(0, c, h)
  <2>1. NewWallet.version = 0
    BY DEF NewWallet
  <2>2. QED
    BY <1>2, <2>1 DEF Init, Agrees, CallAgrees, WalletAgrees, Folding
<1>6. Affordable(0, h)
  <2>1. Sound(NewWallet)
    BY DEF Sound, Overdrawn, NewWallet, Naira
  <2>2. QED
    BY <1>2, <2>1 DEF Init, Affordable, Pending
<1>7. QED
  BY <1>1, <1>4, <1>5, <1>6 DEF HistoryInv

LEMMA HistoryPreserved ==
  ASSUME TypeInv, ChainInv, LiveInv, NairaInv, ShortInv, ShortInv',
         HistoryInv, [Next]_vars
  PROVE  HistoryInv'
<1>1. PICK top, c, h :
        /\ History(top, c, h)
        /\ Agrees(top, c, h)
        /\ DistinctTimes => Affordable(top, h)
  BY DEF HistoryInv
<1>2. PICK top2, c2, h2 :
        /\ History(top2, c2, h2)'
        /\ Extends(top, c, h, top2, c2, h2)
        /\ \/ top2 = top
           \/ \E id \in TxId, row \in ledger' :
                /\ Insert(id)
                /\ row.type = request[id].type
                /\ row.amount = request[id].amount
                /\ IsNext(row, top, h, top2, h2)
  BY <1>1, HistoryStep
<1>3. top \in Nat /\ top2 \in Nat
  BY <1>1, <1>2 DEF History
<1>4. Agrees(top2, c2, h2)'
  BY <1>1, <1>2, <1>3, CallsAgree, WalletsAgree DEF Agrees
<1>5. ASSUME DistinctTimes' PROVE Affordable(top2, h2)'
  <2>1. Affordable(top, h)
    BY <1>1, <1>5, DistinctBefore
  <2>2. CASE top2 = top
    BY <1>1, <1>2, <2>1, <2>2, AffordableStays DEF Extends
  <2>3. ASSUME NEW id \in TxId, NEW row \in ledger',
               Insert(id),
               row.type = request[id].type,
               row.amount = request[id].amount,
               IsNext(row, top, h, top2, h2)
        PROVE  Affordable(top2, h2)'
    <3>1. row.version <= 2
      BY <1>5 DEF ShortInv
    <3>2. QED
      BY <1>1, <1>2, <2>1, <2>3, <3>1, AffordableGrows
  <2>4. QED
    BY <1>2, <2>2, <2>3
<1>6. QED
  BY <1>2, <1>4, <1>5 DEF HistoryInv

LEMMA HistoryInvariant == Safety => []HistoryInv
<1>1. /\ TypeInv /\ ChainInv /\ LiveInv
      /\ NairaInv /\ ShortInv /\ HistoryInv
      /\ [Next]_vars
      => NairaInv' /\ ShortInv' /\ HistoryInv'
  BY NairaPreserved, ShortPreserved, HistoryPreserved
<1>2. QED
  BY <1>1, HistoryInit, TypeInvariant, ChainInvariant, LiveInvariant, PTL
  DEF Safety

\* Each point of the history is what one row of each version up to it adds up
\* to.
LEMMA HistoryExplained ==
  ASSUME TypeInv, NEW top, NEW c, NEW h, History(top, c, h), NEW n \in 0 .. top
  PROVE  h[n] \in Balances[n]
<1> DEFINE S == {k \in 0 .. top : h[k] \in Balances[k]}
<1>1. top \in Nat
  BY DEF History
<1>2. 0 \in S
  BY <1>1, BalancesDef DEF History
<1>3. ASSUME NEW k \in 1 .. top, k - 1 \in S PROVE k \in S
  <2>1. k \in Nat \ {0} /\ k \in 0 .. top
    BY <1>1
  <2>2. Balances[k] = After(Balances[k - 1], k)
    BY <2>1, BalancesDef
  <2>3. /\ c[k] \in ledger /\ c[k].version = k
        /\ h[k] = ApplyTransaction(h[k - 1], c[k])
    BY DEF History
  <2>4. QED
    BY <1>3, <2>1, <2>2, <2>3 DEF After
<1>4. 0 .. top \subseteq S
  <2> HIDE DEF S
  <2>1. QED
    BY <1>1, <1>2, <1>3, Induction
<1>5. QED
  BY <1>4

\* What the history says of the wallets.
LEMMA HistoryShows ==
  ASSUME TypeInv, HistoryInv
  PROVE  BalanceExplained /\ SolventUnlessTied
<1>1. BalanceExplained
  BY HistoryExplained DEF HistoryInv, Agrees, WalletAgrees, BalanceExplained
<1>2. SolventUnlessTied
  BY DEF HistoryInv, Agrees, WalletAgrees, Affordable, Sound, SolventUnlessTied, Solvent
<1>3. QED
  BY <1>1, <1>2

\* A stored balance is always what one recorded transaction of each version up
\* to its own adds up to, however calls overlap, tie, fail or crash.
THEOREM BalancesExplained == Spec => []BalanceExplained
BY HistoryShows, TypeInvariant, HistoryInvariant, PTL DEF Spec

\* Unless two transactions were created in the same instant, no wallet is ever
\* overdrawn, whatever debits race for its balance.
THEOREM NeverOverdrawn == Spec => []SolventUnlessTied
BY HistoryShows, TypeInvariant, HistoryInvariant, PTL DEF Spec

\* Without ties no wallet gets past version 2: every later row of a wallet
\* follows on its oldest one, so a third transaction is never applied
\* (transaction.repository.ts, getLastIfExistsBy).
THEOREM ThirdNeverApplied ==
  Spec => [](DistinctTimes => \A w \in Wallet : wallet[w].version <= 2)
<1>1. HistoryInv => (DistinctTimes => \A w \in Wallet : wallet[w].version <= 2)
  <2> SUFFICES ASSUME HistoryInv, DistinctTimes, NEW w \in Wallet
               PROVE  wallet[w].version <= 2
    OBVIOUS
  <2>1. PICK top, c, h : History(top, c, h) /\ Agrees(top, c, h) /\ Affordable(top, h)
    BY DEF HistoryInv
  <2>2. top \in Nat /\ top <= 2 /\ wallet[w].version \in 0 .. top
    BY <2>1 DEF History, Agrees, WalletAgrees, Affordable
  <2>3. QED
    BY <2>2
<1>2. QED
  BY <1>1, HistoryInvariant, PTL DEF Spec
=============================================================================
