------------------------ MODULE WalletListingProofs ------------------------
(****************************************************************************)
(* Paging misses nothing, for any number of wallets, any limit and any      *)
(* interleaving of creations and pages.                                     *)
(*                                                                          *)
(* The argument: the rank of a wallet is the number of its owner's rows     *)
(* with an earlier createdAt, which is its position in a query's answer     *)
(* unless times tie.  Rows are never deleted nor their times changed, so    *)
(* ranks only grow; a wallet that was not shown yet is never below the      *)
(* offset.                                                                  *)
(****************************************************************************)
EXTENDS WalletListing, SequenceTheorems, FiniteSetTheorems, TLAPS

Below(w) == {v \in OwnRows : createdAt[v] < createdAt[w]}

Rank(w) == Cardinality(Below(w))

\* A wallet in the table has been created.
StoreInv == \A w \in ToSet(rows) : creation[w] = "stored"

\* What is known of the reading besides its type.
Unstarted ==
  reading.stage = "idle" => reading.seen = <<>> /\ reading.offset = 0

Paging ==
  reading.stage = "reading" =>
    /\ reading.limit \in Limit
    /\ Len(reading.seen) = reading.offset
    /\ reading.offset = 0 \/ reading.offset >= reading.limit

\* A wallet that a reading should still show is not below its offset.
Ahead ==
  reading.stage = "reading" /\ Distinct =>
    \A w \in reading.known :
      w \in ToSet(reading.seen) \/ Rank(w) >= reading.offset

\* The wallets shown are those of the lowest ranks.
Lowest ==
  InsertedInOrder =>
    \A i \in 1 .. Len(reading.seen) :
      reading.seen[i] \in OwnRows /\ Rank(reading.seen[i]) = i - 1

ReadingInv ==
  /\ reading.known \subseteq OwnRows
  /\ Unstarted
  /\ Paging
  /\ Ahead
  /\ Lowest
  /\ NothingMissed

------------------------------------------------------------------------------
(* Answers and pages.                                                       *)

\* A list of all elements of a finite set, each once.
LEMMA ListOfAll ==
  ASSUME NEW S, IsFiniteSet(S), NEW s \in SetToSeqs(S)
  PROVE  /\ s \in Seq(S)
         /\ DOMAIN s = 1 .. Len(s)
         /\ \A i, j \in 1 .. Len(s) : s[i] = s[j] => i = j
         /\ \A x \in S : \E i \in 1 .. Len(s) : s[i] = x
<1> DEFINE n == Cardinality(S)
<1>1. n \in Nat
  BY FS_CardinalityType
<1>2. s \in [1 .. n -> S] /\ \A i, j \in 1 .. n : i # j => s[i] # s[j]
  BY DEF SetToSeqs
<1>3. s \in Seq(S) /\ Len(s) = n /\ DOMAIN s = 1 .. n
  BY <1>1, <1>2
<1>4. s \in Injection(1 .. n, S)
  BY <1>2 DEF Injection, IsInjective
<1>5. IsFiniteSet(1 .. n) /\ Cardinality(1 .. n) = n
  BY <1>1, FS_Interval
<1>6. s \in Surjection(1 .. n, S)
  BY <1>4, <1>5, FS_Injection
<1>7. \A x \in S : \E i \in 1 .. n : s[i] = x
  BY <1>6 DEF Surjection
<1>8. QED
  BY <1>2, <1>3, <1>7

\* What a list holds is finite.
LEMMA ListedFinite ==
  ASSUME NEW S, NEW s \in Seq(S), NEW T
  PROVE  IsFiniteSet(ToSet(s) \cap T)
<1>1. Len(s) \in Nat
  OBVIOUS
<1>2. s \in Surjection(1 .. Len(s), ToSet(s))
  BY <1>1 DEF Surjection, ToSet
<1>3. IsFiniteSet(1 .. Len(s))
  BY <1>1, FS_Interval
<1>4. IsFiniteSet(ToSet(s))
  BY <1>2, <1>3, FS_Surjection
<1>5. QED
  BY <1>4, FS_Intersection

LEMMA OwnFinite ==
  ASSUME ListingTypeOK
  PROVE  IsFiniteSet(OwnRows) /\ OwnRows \subseteq Own
BY ListedFinite DEF ListingTypeOK, OwnRows

LEMMA RankType ==
  ASSUME ListingTypeOK, NEW w
  PROVE  Rank(w) \in Nat /\ IsFiniteSet(Below(w))
<1>1. Below(w) \subseteq OwnRows
  BY DEF Below
<1>2. IsFiniteSet(Below(w))
  BY <1>1, OwnFinite, FS_Subset
<1>3. QED
  BY <1>2, FS_CardinalityType DEF Rank

LEMMA RankAfter ==
  ASSUME ListingTypeOK', NEW w
  PROVE  Rank(w)' \in Nat
<1>1. Below(w)' \subseteq OwnRows'
  BY DEF Below
<1>2. IsFiniteSet(OwnRows')
  BY ListedFinite DEF ListingTypeOK, OwnRows
<1>3. IsFiniteSet(Below(w)')
  BY <1>1, <1>2, FS_Subset
<1>4. QED
  BY <1>3, FS_CardinalityType DEF Rank

\* The answer to a query for all of a user's wallets.
LEMMA AnswerType ==
  ASSUME ListingTypeOK, NEW s \in Orders
  PROVE  /\ s \in Seq(OwnRows)
         /\ Len(s) \in Nat
         /\ \A i, j \in 1 .. Len(s) : s[i] = s[j] => i = j
         /\ \A w \in OwnRows : \E i \in 1 .. Len(s) : s[i] = w
         /\ \A i, j \in 1 .. Len(s) : i < j => createdAt[s[i]] <= createdAt[s[j]]
<1>1. s \in SetToSeqs(OwnRows)
  BY DEF Orders
<1>2. s \in Seq(OwnRows) /\ DOMAIN s = 1 .. Len(s)
  BY <1>1, OwnFinite, ListOfAll
<1>3. /\ \A i, j \in 1 .. Len(s) : s[i] = s[j] => i = j
      /\ \A w \in OwnRows : \E i \in 1 .. Len(s) : s[i] = w
  BY <1>1, OwnFinite, ListOfAll
<1>4. QED
  BY <1>2, <1>3 DEF Orders

\* Without ties a wallet's position in the answer is given by its rank.
LEMMA PositionIsRank ==
  ASSUME ListingTypeOK, Distinct, NEW s \in Orders, NEW k \in 1 .. Len(s)
  PROVE  s[k] \in OwnRows /\ Rank(s[k]) = k - 1
<1>1. /\ s \in Seq(OwnRows)
      /\ Len(s) \in Nat
      /\ \A i, j \in 1 .. Len(s) : s[i] = s[j] => i = j
      /\ \A w \in OwnRows : \E i \in 1 .. Len(s) : s[i] = w
      /\ \A i, j \in 1 .. Len(s) : i < j => createdAt[s[i]] <= createdAt[s[j]]
  BY AnswerType
<1>2. \A w \in OwnRows : createdAt[w] \in Nat
  BY OwnFinite, ListingAssumption DEF ListingTypeOK
<1>3. \A j \in 1 .. Len(s) : s[j] \in OwnRows
  BY <1>1
<1>4. \A j \in 1 .. Len(s) : createdAt[s[j]] < createdAt[s[k]] <=> j < k
  <2>1. SUFFICES ASSUME NEW j \in 1 .. Len(s)
                 PROVE  createdAt[s[j]] < createdAt[s[k]] <=> j < k
    OBVIOUS
  <2>2. createdAt[s[j]] \in Nat /\ createdAt[s[k]] \in Nat
    BY <1>2, <1>3
  <2>3. CASE j < k
    <3>1. createdAt[s[j]] <= createdAt[s[k]] /\ s[j] # s[k]
      BY <1>1, <2>3
    <3>2. createdAt[s[j]] # createdAt[s[k]]
      BY <1>3, <3>1 DEF Distinct
    <3>3. QED
      BY <2>2, <2>3, <3>1, <3>2
  <2>4. CASE j = k
    BY <2>2, <2>4
  <2>5. CASE k < j
    <3>1. createdAt[s[k]] <= createdAt[s[j]]
      BY <1>1, <2>5
    <3>2. QED
      BY <2>2, <2>5, <3>1
  <2>6. QED
    BY <2>3, <2>4, <2>5
<1> DEFINE f == [j \in 1 .. k - 1 |-> s[j]]
<1>5. k - 1 \in Nat /\ \A j \in 1 .. k - 1 : j \in 1 .. Len(s) /\ j < k
  BY <1>1
<1>6. f \in [1 .. k - 1 -> Below(s[k])]
  BY <1>3, <1>4, <1>5 DEF Below
<1>7. \A i, j \in 1 .. k - 1 : f[i] = f[j] => i = j
  BY <1>1, <1>5
<1>8. \A w \in Below(s[k]) : \E j \in 1 .. k - 1 : f[j] = w
  <2>1. SUFFICES ASSUME NEW w \in Below(s[k]) PROVE \E j \in 1 .. k - 1 : f[j] = w
    OBVIOUS
  <2>2. PICK j \in 1 .. Len(s) : s[j] = w
    BY <1>1 DEF Below
  <2>3. j < k
    BY <1>4, <2>2 DEF Below
  <2>4. j \in 1 .. k - 1
    BY <1>1, <2>3
  <2>5. QED
    BY <2>2, <2>4
<1> HIDE DEF f
<1>9. f \in Bijection(1 .. k - 1, Below(s[k]))
  BY <1>6, <1>7, <1>8 DEF Bijection, Injection, Surjection, IsInjective
<1>10. ExistsBijection(1 .. k - 1, Below(s[k]))
  BY <1>9 DEF ExistsBijection
<1>11. Rank(s[k]) = k - 1
  BY <1>5, <1>10, FS_CountingElements DEF Rank
<1>12. QED
  BY <1>3, <1>11

\* What a page holds.
IsPage(page, s, offset, limit) ==
  /\ Len(page) \in Nat
  /\ Len(page) <= limit
  /\ Len(page) < limit => Len(s) <= offset + limit
  /\ \A i \in 1 .. Len(page) :
       offset + i \in 1 .. Len(s) /\ page[i] = s[offset + i]
  /\ \A k \in 1 .. Len(s) :
       offset < k /\ k <= offset + limit => k - offset \in 1 .. Len(page)

LEMMA PageType ==
  ASSUME NEW S, NEW s \in Seq(S), NEW offset \in Nat, NEW limit \in Nat
  PROVE  /\ Page(s, offset, limit) \in Seq(S)
         /\ IsPage(Page(s, offset, limit), s, offset, limit)
<1> DEFINE last == IF offset + limit < Len(s) THEN offset + limit ELSE Len(s)
           page == SubSeq(s, offset + 1, last)
<1>1. Len(s) \in Nat /\ last \in Nat /\ last <= Len(s) /\ last <= offset + limit
  OBVIOUS
<1>2. last = offset + limit \/ (last = Len(s) /\ Len(s) <= offset + limit)
  OBVIOUS
<1> HIDE DEF last
<1>3. \A i \in offset + 1 .. last : i \in 1 .. Len(s) /\ s[i] \in S
  BY <1>1
<1>4. /\ page \in Seq(S)
      /\ Len(page) = IF offset + 1 <= last THEN last - offset ELSE 0
      /\ \A i \in 1 .. last - offset : page[i] = s[offset + i]
  <2>1. offset + 1 \in Int /\ last \in Int
    BY <1>1
  <2>2. /\ page \in Seq(S)
        /\ Len(page) = IF offset + 1 <= last THEN last - (offset + 1) + 1 ELSE 0
        /\ \A i \in 1 .. last - (offset + 1) + 1 : page[i] = s[offset + 1 + i - 1]
    BY <1>3, <2>1, SubSeqProperties
  <2> HIDE DEF page
  <2>3. \A i \in 1 .. last - offset :
          i \in 1 .. last - (offset + 1) + 1 /\ offset + 1 + i - 1 = offset + i
    BY <1>1
  <2>4. QED
    BY <1>1, <2>2, <2>3
<1>5. Page(s, offset, limit) = page
  BY DEF Page, last
<1> HIDE DEF page
<1>6. QED
  BY <1>1, <1>2, <1>3, <1>4, <1>5 DEF IsPage

------------------------------------------------------------------------------
(* What a step does to the table.                                           *)

\* No row goes away, moves or changes its time.
LEMMA RowsStep ==
  ASSUME ListingTypeOK, StoreInv, [Next]_vars
  PROVE  /\ rows' \in Seq(Wallet)
         /\ Len(rows) \in Nat /\ Len(rows') \in Nat /\ Len(rows) <= Len(rows')
         /\ \A i \in 1 .. Len(rows) :
              rows'[i] = rows[i] /\ createdAt'[rows[i]] = createdAt[rows[i]]
<1> DEFINE Goal ==
             /\ rows' \in Seq(Wallet)
             /\ Len(rows) \in Nat /\ Len(rows') \in Nat /\ Len(rows) <= Len(rows')
             /\ \A i \in 1 .. Len(rows) :
                  rows'[i] = rows[i] /\ createdAt'[rows[i]] = createdAt[rows[i]]
<1>1. rows \in Seq(Wallet) /\ Len(rows) \in Nat
  BY DEF ListingTypeOK
<1>2. CASE rows' = rows /\ createdAt' = createdAt
  BY <1>1, <1>2
<1>3. ASSUME NEW w \in Wallet, Create(w) PROVE Goal
  <2>1. \A i \in 1 .. Len(rows) : rows[i] # w
    BY <1>1, <1>3 DEF Create, StoreInv, ToSet
  <2>2. QED
    BY <1>1, <1>3, <2>1 DEF Create, ListingTypeOK
<1>4. ASSUME NEW w \in Wallet, Insert(w) PROVE Goal
  BY <1>1, <1>4, AppendProperties DEF Insert
<1>5. CASE Tick \/ Begin \/ GetWallets \/ UNCHANGED vars
  BY <1>2, <1>5 DEF Tick, Begin, GetWallets, vars
<1>6. ASSUME NEW w \in Wallet, InsertFails(w) PROVE Goal
  BY <1>2, <1>6 DEF InsertFails
<1>7. QED
  BY <1>3, <1>4, <1>5, <1>6 DEF Next

LEMMA StorePreserved ==
  ASSUME ListingTypeOK, StoreInv, [Next]_vars
  PROVE  StoreInv'
<1>1. rows \in Seq(Wallet)
  BY DEF ListingTypeOK
<1>2. ASSUME NEW w \in Wallet, Insert(w) PROVE StoreInv'
  <2>1. creation' = [creation EXCEPT ![w] = "stored"]
    BY <1>2 DEF Insert
  <2>2. \A x \in ToSet(rows)' : x = w \/ x \in ToSet(rows)
    BY <1>1, <1>2, AppendProperties DEF Insert, ToSet
  <2>3. QED
    BY <2>1, <2>2 DEF StoreInv, ListingTypeOK
<1>3. ASSUME NEW w \in Wallet, Create(w) \/ InsertFails(w) PROVE StoreInv'
  <2>1. w \notin ToSet(rows) /\ rows' = rows
    BY <1>3 DEF Create, InsertFails, StoreInv
  <2>2. \A x \in Wallet : x # w => creation'[x] = creation[x]
    BY <1>3 DEF Create, InsertFails, ListingTypeOK
  <2>3. ToSet(rows) \subseteq Wallet
    BY <1>1 DEF ToSet
  <2>4. QED
    BY <2>1, <2>2, <2>3 DEF StoreInv
<1>4. CASE Tick \/ Begin \/ GetWallets \/ UNCHANGED vars
  BY <1>4 DEF Tick, Begin, GetWallets, vars, StoreInv
<1>5. QED
  BY <1>2, <1>3, <1>4 DEF Next

\* So the user's rows only become more, and ranks with them.
LEMMA OwnRowsStep ==
  ASSUME ListingTypeOK, ListingTypeOK', StoreInv, [Next]_vars
  PROVE  /\ OwnRows \subseteq OwnRows'
         /\ \A w \in OwnRows : createdAt'[w] = createdAt[w]
         /\ Distinct' => Distinct
         /\ \A w \in OwnRows : Rank(w)' >= Rank(w)
<1>1. /\ rows \in Seq(Wallet) /\ rows' \in Seq(Wallet)
      /\ Len(rows) \in Nat /\ Len(rows') \in Nat /\ Len(rows) <= Len(rows')
      /\ \A i \in 1 .. Len(rows) :
           rows'[i] = rows[i] /\ createdAt'[rows[i]] = createdAt[rows[i]]
  BY RowsStep DEF ListingTypeOK
<1>2. OwnRows \subseteq OwnRows'
  BY <1>1 DEF OwnRows, ToSet
<1>3. \A w \in OwnRows : createdAt'[w] = createdAt[w]
  BY <1>1 DEF OwnRows, ToSet
<1>4. Distinct' => Distinct
  BY <1>2, <1>3 DEF Distinct
<1>5. ASSUME NEW w \in OwnRows PROVE Rank(w)' >= Rank(w)
  <2>1. Below(w) \subseteq Below(w)'
    BY <1>2, <1>3 DEF Below
  <2>2. IsFiniteSet(Below(w)')
    <3>1. Below(w)' \subseteq OwnRows'
      BY DEF Below
    <3>2. IsFiniteSet(OwnRows')
      BY ListedFinite DEF ListingTypeOK, OwnRows
    <3>3. QED
      BY <3>1, <3>2, FS_Subset
  <2>3. Cardinality(Below(w)) <= Cardinality(Below(w)')
    BY <2>1, <2>2, FS_Subset
  <2>4. Cardinality(Below(w)) \in Nat /\ Cardinality(Below(w)') \in Nat
    BY <2>2, RankType, FS_CardinalityType DEF Rank
  <2>5. QED
    BY <2>3, <2>4 DEF Rank
<1>6. QED
  BY <1>2, <1>3, <1>4, <1>5

\* As long as rows are inserted in order, ranks do not change.
LEMMA OrderStep ==
  ASSUME ListingTypeOK, ListingTypeOK', StoreInv, [Next]_vars, InsertedInOrder'
  PROVE  InsertedInOrder /\ \A w \in OwnRows : Rank(w)' = Rank(w)
<1>1. /\ rows \in Seq(Wallet) /\ rows' \in Seq(Wallet)
      /\ Len(rows) \in Nat /\ Len(rows') \in Nat /\ Len(rows) <= Len(rows')
      /\ \A i \in 1 .. Len(rows) :
           rows'[i] = rows[i] /\ createdAt'[rows[i]] = createdAt[rows[i]]
  BY RowsStep DEF ListingTypeOK
<1>2. \A i, j \in 1 .. Len(rows') :
        i < j /\ rows'[i] \in Own /\ rows'[j] \in Own =>
          createdAt'[rows'[i]] < createdAt'[rows'[j]]
  BY <1>1 DEF InsertedInOrder
<1>3. InsertedInOrder
  BY <1>1, <1>2 DEF InsertedInOrder
<1>4. ASSUME NEW w \in OwnRows PROVE Below(w)' = Below(w)
  <2>1. Below(w) \subseteq Below(w)'
    BY OwnRowsStep DEF Below
  <2>2. ASSUME NEW v \in Below(w)' PROVE v \in Below(w)
    <3>1. PICK j \in 1 .. Len(rows) : rows[j] = w
      BY <1>1 DEF OwnRows, ToSet
    <3>2. PICK i \in 1 .. Len(rows') : rows'[i] = v
      BY <1>1, <2>2 DEF Below, OwnRows, ToSet
    <3>3. v \in Own /\ w \in Own /\ createdAt'[v] < createdAt'[w]
      BY <2>2 DEF Below, OwnRows
    <3>4. createdAt'[v] \in Nat /\ createdAt'[w] \in Nat
      BY <3>3, ListingAssumption DEF ListingTypeOK
    <3>5. j \in 1 .. Len(rows') /\ rows'[j] = w
      BY <1>1, <3>1
    <3>6. ~(j < i)
      <4>1. j < i => createdAt'[w] < createdAt'[v]
        BY <1>2, <3>2, <3>3, <3>5
      <4>2. QED
        BY <3>3, <3>4, <4>1
    <3>7. i \in 1 .. Len(rows)
      BY <1>1, <3>6
    <3>8. v \in OwnRows
      BY <1>1, <3>2, <3>3, <3>7 DEF OwnRows, ToSet
    <3>9. QED
      BY <3>3, <3>8, OwnRowsStep DEF Below
  <2>3. QED
    BY <2>1, <2>2
<1>5. QED
  BY <1>3, <1>4 DEF Rank

\* Rows that are inserted in order have distinct times.
LEMMA OrderIsDistinct ==
  ASSUME ListingTypeOK, InsertedInOrder
  PROVE  Distinct
<1>1. rows \in Seq(Wallet) /\ Len(rows) \in Nat
  BY DEF ListingTypeOK
<1>2. SUFFICES ASSUME NEW v \in OwnRows, NEW w \in OwnRows,
                      createdAt[v] = createdAt[w]
               PROVE  v = w
  BY DEF Distinct
<1>3. createdAt[v] \in Nat
  BY OwnFinite, ListingAssumption DEF ListingTypeOK
<1>4. PICK i \in 1 .. Len(rows) : rows[i] = v
  BY <1>1 DEF OwnRows, ToSet
<1>5. PICK j \in 1 .. Len(rows) : rows[j] = w
  BY <1>1 DEF OwnRows, ToSet
<1>6. v \in Own /\ w \in Own
  BY DEF OwnRows
<1>7. ~(i < j)
  BY <1>1, <1>2, <1>3, <1>4, <1>5, <1>6 DEF InsertedInOrder
<1>8. ~(j < i)
  BY <1>1, <1>2, <1>3, <1>4, <1>5, <1>6 DEF InsertedInOrder
<1>9. i = j
  BY <1>1, <1>7, <1>8
<1>10. QED
  BY <1>4, <1>5, <1>9

------------------------------------------------------------------------------
(* What a step does to the reading.                                         *)

\* A step that is not the reader's leaves its reading as good as it was.
LEMMA OthersKeep ==
  ASSUME ListingTypeOK, ListingTypeOK', StoreInv, ReadingInv, [Next]_vars,
         reading' = reading
  PROVE  ReadingInv'
<1>1. /\ OwnRows \subseteq OwnRows'
      /\ Distinct' => Distinct
      /\ \A w \in OwnRows : Rank(w)' >= Rank(w)
  BY OwnRowsStep
<1>2. /\ reading.known \subseteq OwnRows
      /\ reading.offset \in Nat /\ reading.seen \in Seq(Wallet)
  BY DEF ReadingInv, ListingTypeOK, Reading
<1>3. (reading.known \subseteq OwnRows)' /\ Unstarted' /\ Paging'
  BY <1>1, <1>2 DEF ReadingInv, Unstarted, Paging
<1>4. NothingMissed'
  BY <1>1 DEF ReadingInv, NothingMissed
<1>5. Ahead'
  <2>1. SUFFICES ASSUME reading.stage = "reading", Distinct',
                        NEW w \in reading.known, w \notin ToSet(reading.seen)
                 PROVE  Rank(w)' >= reading.offset
    BY DEF Ahead
  <2>2. w \in OwnRows /\ Rank(w) >= reading.offset
    BY <1>1, <1>2, <2>1 DEF ReadingInv, Ahead
  <2>3. Rank(w) \in Nat /\ Rank(w)' >= Rank(w)
    BY <1>1, <2>2, RankType
  <2>4. Rank(w)' \in Nat
    BY RankAfter
  <2>5. QED
    BY <1>2, <2>2, <2>3, <2>4
<1>6. Lowest'
  <2>1. SUFFICES ASSUME InsertedInOrder', NEW i \in 1 .. Len(reading.seen)
                 PROVE  reading.seen[i] \in OwnRows' /\ Rank(reading.seen[i])' = i - 1
    BY DEF Lowest
  <2>2. InsertedInOrder /\ \A w \in OwnRows : Rank(w)' = Rank(w)
    BY <2>1, OrderStep
  <2>3. reading.seen[i] \in OwnRows /\ Rank(reading.seen[i]) = i - 1
    BY <2>2 DEF ReadingInv, Lowest
  <2>4. QED
    BY <1>1, <2>2, <2>3
<1>7. QED
  BY <1>3, <1>4, <1>5, <1>6 DEF ReadingInv

\* A reading begins with nothing to have missed.
LEMMA BeginKeeps ==
  ASSUME ListingTypeOK, ListingTypeOK', ReadingInv, Begin
  PROVE  ReadingInv'
<1>1. PICK limit \in Limit :
        reading' = [reading EXCEPT !.stage = "reading", !.limit = limit,
                                   !.known = OwnRows]
  BY DEF Begin
<1>2. /\ reading'.stage = "reading" /\ reading'.limit = limit
      /\ reading'.known = OwnRows
      /\ reading'.offset = 0 /\ reading'.seen = <<>>
  BY <1>1 DEF Begin, ListingTypeOK, Reading, ReadingInv, Unstarted
<1>3. UNCHANGED <<rows, createdAt>>
  BY DEF Begin
<1>4. OwnRows' = OwnRows
  BY <1>3 DEF OwnRows
<1>5. Unstarted' /\ Paging' /\ NothingMissed'
  BY <1>2 DEF Unstarted, Paging, NothingMissed
<1>6. Ahead'
  BY <1>2, RankAfter DEF Ahead
<1>7. Lowest'
  BY <1>2 DEF Lowest
<1>8. QED
  BY <1>2, <1>4, <1>5, <1>6, <1>7 DEF ReadingInv

\* u is s and then t.
Joins(u, s, t) ==
  /\ Len(s) \in Nat /\ Len(t) \in Nat
  /\ Len(u) = Len(s) + Len(t)
  /\ \A i \in 1 .. Len(s) : u[i] = s[i]
  /\ \A i \in 1 .. Len(u) :
       i > Len(s) => i - Len(s) \in 1 .. Len(t) /\ u[i] = t[i - Len(s)]

LEMMA ListAfter ==
  ASSUME NEW S, NEW s \in Seq(S), NEW t \in Seq(S), NEW u, u = s \o t
  PROVE  u \in Seq(S) /\ Joins(u, s, t)
<1>1. Len(s) \in Nat /\ Len(t) \in Nat
  OBVIOUS
<1>2. /\ u \in Seq(S)
      /\ Len(u) = Len(s) + Len(t)
      /\ \A i \in 1 .. Len(s) + Len(t) :
           u[i] = IF i <= Len(s) THEN s[i] ELSE t[i - Len(s)]
  BY ConcatProperties
<1>3. \A i \in 1 .. Len(s) : u[i] = s[i]
  <2>1. \A i \in 1 .. Len(s) : i \in 1 .. Len(s) + Len(t) /\ i <= Len(s)
    BY <1>1
  <2>2. QED
    BY <1>2, <2>1
<1>4. ASSUME NEW i \in 1 .. Len(u), i > Len(s)
      PROVE  i - Len(s) \in 1 .. Len(t) /\ u[i] = t[i - Len(s)]
  <2>1. i \in 1 .. Len(s) + Len(t) /\ ~(i <= Len(s)) /\ i - Len(s) \in 1 .. Len(t)
    BY <1>1, <1>2, <1>4
  <2>2. QED
    BY <1>2, <2>1
<1>5. QED
  BY <1>1, <1>2, <1>3, <1>4 DEF Joins

\* seen is old and then a page of s, whose first offset rows old stands for.
Shows(seen, old, page, s, offset, limit) ==
  /\ Len(page) \in Nat /\ Len(page) <= limit
  /\ Len(seen) = offset + Len(page)
  /\ \A i \in 1 .. offset : seen[i] = old[i]
  /\ \A i \in 1 .. Len(seen) :
       i > offset => i \in 1 .. Len(s) /\ seen[i] = s[i]
  /\ \A k \in 1 .. Len(s) :
       offset < k /\ k <= offset + limit => s[k] \in ToSet(seen)
  /\ Len(page) < limit => Len(s) <= offset + limit

LEMMA PageShown ==
  ASSUME NEW S, NEW s \in Seq(S), NEW offset \in Nat, NEW limit \in Nat,
         NEW old \in Seq(S), Len(old) = offset,
         NEW page, page = Page(s, offset, limit), NEW seen, seen = old \o page
  PROVE  seen \in Seq(S) /\ Shows(seen, old, page, s, offset, limit)
<1>1. page \in Seq(S) /\ IsPage(page, s, offset, limit)
  BY PageType
<1>2. seen \in Seq(S) /\ Joins(seen, old, page)
  BY <1>1, ListAfter
<1> USE DEF IsPage, Joins
<1>3. ASSUME NEW i \in 1 .. Len(seen), i > offset
      PROVE  i \in 1 .. Len(s) /\ seen[i] = s[i]
  <2>1. i - offset \in 1 .. Len(page) /\ seen[i] = page[i - offset]
    BY <1>2, <1>3
  <2>2. offset + (i - offset) = i
    BY <1>2
  <2>3. QED
    BY <1>1, <2>1, <2>2
<1>4. ASSUME NEW k \in 1 .. Len(s), offset < k, k <= offset + limit
      PROVE  s[k] \in ToSet(seen)
  <2>1. k - offset \in 1 .. Len(page)
    BY <1>1, <1>4
  <2>2. k \in 1 .. Len(seen)
    BY <1>1, <1>2, <2>1
  <2>3. seen[k] = s[k]
    BY <1>3, <1>4, <2>2
  <2>4. DOMAIN seen = 1 .. Len(seen)
    BY <1>2
  <2>5. QED
    BY <2>2, <2>3, <2>4 DEF ToSet
<1>5. QED
  BY <1>1, <1>2, <1>3, <1>4 DEF Shows

\* Only the reader's own steps change the reading.
LEMMA ReadingStep ==
  ASSUME [Next]_vars
  PROVE  reading' = reading \/ Begin \/ GetWallets
BY DEF Next, Tick, Create, Insert, InsertFails, vars

\* One page of a reading.
Takes(s, page) ==
  /\ s \in Orders
  /\ page = Page(s, reading.offset, reading.limit)
  /\ reading'.stage = IF Len(page) < reading.limit THEN "over" ELSE "reading"
  /\ reading'.limit = reading.limit
  /\ reading'.offset = reading.offset + reading.limit
  /\ reading'.known = reading.known
  /\ reading'.seen = reading.seen \o page
  /\ reading' = [stage |-> reading'.stage, limit |-> reading'.limit,
                 offset |-> reading'.offset, known |-> reading'.known,
                 seen |-> reading'.seen]

LEMMA GetWalletsTakes ==
  ASSUME ListingTypeOK, GetWallets
  PROVE  \E s, page : Takes(s, page)
<1>1. PICK s \in Orders :
        LET page == Page(s, reading.offset, reading.limit)
        IN reading' = [reading EXCEPT
             !.stage = IF Len(page) < reading.limit THEN "over" ELSE @,
             !.offset = @ + reading.limit,
             !.seen = @ \o page]
  BY DEF GetWallets
<1> DEFINE page == Page(s, reading.offset, reading.limit)
<1>2. reading' = [reading EXCEPT
        !.stage = IF Len(page) < reading.limit THEN "over" ELSE @,
        !.offset = @ + reading.limit,
        !.seen = @ \o page]
  BY <1>1
<1> HIDE DEF page
<1>3. Takes(s, page)
  <2>1. reading \in Reading /\ reading.stage = "reading"
    BY DEF GetWallets, ListingTypeOK
  <2>2. page = Page(s, reading.offset, reading.limit)
    BY DEF page
  <2>3. QED
    BY <1>2, <2>1, <2>2 DEF Takes, Reading
<1>4. QED
  BY <1>3

LEMMA TakesShows ==
  ASSUME ListingTypeOK, Paging, reading.stage = "reading",
         NEW s, NEW page, Takes(s, page)
  PROVE  /\ reading.offset \in Nat /\ reading.limit \in Nat
         /\ Len(reading.seen) = reading.offset
         /\ s \in Orders
         /\ reading'.seen \in Seq(Wallet)
         /\ Shows(reading'.seen, reading.seen, page, s, reading.offset, reading.limit)
<1>1. /\ reading.offset \in Nat /\ reading.limit \in Nat
      /\ reading.seen \in Seq(Wallet) /\ Len(reading.seen) = reading.offset
  BY ListingAssumption DEF ListingTypeOK, Reading, Paging
<1>2. s \in Orders
  BY DEF Takes
<1>3. s \in Seq(Wallet)
  <2>1. s \in Seq(OwnRows) /\ OwnRows \subseteq Wallet
    BY <1>2, AnswerType, OwnFinite, ListingAssumption
  <2>2. QED
    BY <2>1
<1>4. page = Page(s, reading.offset, reading.limit) /\ reading'.seen = reading.seen \o page
  BY DEF Takes
<1>5. QED
  BY <1>1, <1>2, <1>3, <1>4, PageShown

\* A wallet that was not shown yet is on the next page, or not below the offset
\* after it.
LEMMA NextPage ==
  ASSUME ListingTypeOK, ReadingInv, reading.stage = "reading", Distinct,
         NEW s, NEW page, Takes(s, page),
         NEW w \in reading.known, w \notin ToSet(reading'.seen)
  PROVE  \E k \in 1 .. Len(s) :
           /\ k > reading.offset + reading.limit
           /\ Rank(w) = k - 1
<1>1. /\ reading.offset \in Nat /\ reading.limit \in Nat
      /\ Len(reading.seen) = reading.offset
      /\ s \in Orders
      /\ reading'.seen \in Seq(Wallet)
      /\ Shows(reading'.seen, reading.seen, page, s, reading.offset, reading.limit)
  BY TakesShows DEF ReadingInv
<1>2. w \in OwnRows
  BY DEF ReadingInv
<1>3. PICK k \in 1 .. Len(s) : s[k] = w
  BY <1>1, <1>2, AnswerType
<1>4. Rank(w) = k - 1 /\ Len(s) \in Nat
  BY <1>1, <1>3, PositionIsRank, AnswerType
<1>5. w \notin ToSet(reading.seen)
  <2>1. reading.seen \in Seq(Wallet)
    BY DEF ListingTypeOK, Reading
  <2>2. \A i \in 1 .. reading.offset :
          i \in DOMAIN reading'.seen /\ reading'.seen[i] = reading.seen[i]
    BY <1>1 DEF Shows
  <2>3. QED
    BY <1>1, <2>1, <2>2 DEF ToSet
<1>6. Rank(w) >= reading.offset
  BY <1>5 DEF ReadingInv, Ahead
<1>7. ~(k <= reading.offset + reading.limit)
  BY <1>1, <1>3, <1>4, <1>6 DEF Shows
<1>8. QED
  BY <1>1, <1>4, <1>7

LEMMA GetWalletsKeeps ==
  ASSUME ListingTypeOK, ReadingInv, GetWallets
  PROVE  ReadingInv'
<1>1. reading.stage = "reading" /\ UNCHANGED <<rows, createdAt>>
  BY DEF GetWallets
<1>2. PICK s, page : Takes(s, page)
  BY GetWalletsTakes
<1>3. /\ reading.offset \in Nat /\ reading.limit \in Nat
      /\ Len(reading.seen) = reading.offset
      /\ s \in Orders
      /\ reading'.seen \in Seq(Wallet)
      /\ Shows(reading'.seen, reading.seen, page, s, reading.offset, reading.limit)
  BY <1>1, <1>2, TakesShows DEF ReadingInv
<1>4. OwnRows' = OwnRows
  BY <1>1 DEF OwnRows
<1>5. Distinct' = Distinct /\ InsertedInOrder' = InsertedInOrder
  BY <1>1, <1>4 DEF Distinct, InsertedInOrder
<1>6. ASSUME NEW w PROVE Rank(w)' = Rank(w)
  BY <1>1, <1>4 DEF Rank, Below
<1>7. (reading.known \subseteq OwnRows)' /\ Unstarted'
  BY <1>2, <1>4 DEF Takes, ReadingInv, Unstarted
<1>8. Paging'
  <2>1. SUFFICES ASSUME reading'.stage = "reading"
                 PROVE  /\ reading'.limit \in Limit
                        /\ Len(reading'.seen) = reading'.offset
                        /\ reading'.offset >= reading'.limit
    BY DEF Paging
  <2>2. ~(Len(page) < reading.limit)
    BY <1>2, <2>1 DEF Takes
  <2>3. Len(reading'.seen) = reading.offset + reading.limit
    BY <1>3, <2>2 DEF Shows
  <2>4. QED
    BY <1>1, <1>2, <1>3, <2>3 DEF Takes, ReadingInv, Paging
<1>9. Ahead'
  <2>1. SUFFICES ASSUME Distinct, NEW w \in reading.known,
                        w \notin ToSet(reading'.seen)
                 PROVE  Rank(w) >= reading'.offset
    BY <1>2, <1>5, <1>6 DEF Ahead, Takes
  <2>2. PICK k \in 1 .. Len(s) : k > reading.offset + reading.limit /\ Rank(w) = k - 1
    BY <1>1, <1>2, <2>1, NextPage
  <2>3. QED
    BY <1>2, <1>3, <2>2 DEF Takes
<1>10. Lowest'
  <2>1. SUFFICES ASSUME InsertedInOrder, NEW i \in 1 .. Len(reading'.seen)
                 PROVE  reading'.seen[i] \in OwnRows /\ Rank(reading'.seen[i]) = i - 1
    BY <1>4, <1>5, <1>6 DEF Lowest
  <2>2. CASE i <= reading.offset
    <3>1. i \in 1 .. Len(reading.seen) /\ reading'.seen[i] = reading.seen[i]
      BY <1>3, <2>2 DEF Shows
    <3>2. QED
      BY <2>1, <3>1 DEF ReadingInv, Lowest
  <2>3. CASE i > reading.offset
    <3>1. i \in 1 .. Len(s) /\ reading'.seen[i] = s[i]
      BY <1>3, <2>3 DEF Shows
    <3>2. QED
      BY <1>3, <2>1, <3>1, OrderIsDistinct, PositionIsRank
  <2>4. QED
    BY <1>3, <2>2, <2>3
<1>11. NothingMissed'
  <2>1. SUFFICES ASSUME reading'.stage = "over",
                        Distinct \/ Len(reading'.seen) < reading.limit,
                        NEW w \in reading.known, w \notin ToSet(reading'.seen)
                 PROVE  FALSE
    BY <1>2, <1>5 DEF NothingMissed, Takes
  <2>2. Len(s) <= reading.offset + reading.limit /\ Len(s) \in Nat
    BY <1>2, <1>3, <2>1, AnswerType DEF Takes, Shows
  <2>3. CASE Distinct
    <3>1. PICK k \in 1 .. Len(s) : k > reading.offset + reading.limit
      BY <1>1, <1>2, <2>1, <2>3, NextPage
    <3>2. QED
      BY <1>3, <2>2, <3>1
  <2>4. CASE Len(reading'.seen) < reading.limit
    <3>1. reading.offset = 0
      BY <1>1, <1>3, <2>4 DEF Shows, ReadingInv, Paging
    <3>2. PICK k \in 1 .. Len(s) : s[k] = w
      BY <1>3, AnswerType DEF ReadingInv
    <3>3. QED
      BY <1>3, <2>1, <2>2, <3>1, <3>2 DEF Shows
  <2>5. QED
    BY <2>1, <2>3, <2>4
<1>12. QED
  BY <1>7, <1>8, <1>9, <1>10, <1>11 DEF ReadingInv

------------------------------------------------------------------------------

LEMMA TypePreserved ==
  ASSUME ListingTypeOK, Paging, [Next]_vars
  PROVE  ListingTypeOK'
<1>1. CASE Tick
  BY <1>1, ListingAssumption DEF Tick, ListingTypeOK
<1>2. ASSUME NEW w \in Wallet, Create(w) PROVE ListingTypeOK'
  BY <1>2 DEF Create, ListingTypeOK
<1>3. ASSUME NEW w \in Wallet, Insert(w) PROVE ListingTypeOK'
  BY <1>3, AppendProperties DEF Insert, ListingTypeOK
<1>4. ASSUME NEW w \in Wallet, InsertFails(w) PROVE ListingTypeOK'
  BY <1>4 DEF InsertFails, ListingTypeOK
<1>5. CASE Begin
  <2>1. PICK limit \in Limit :
          reading' = [reading EXCEPT !.stage = "reading", !.limit = limit,
                                     !.known = OwnRows]
    BY <1>5 DEF Begin
  <2>2. reading' \in Reading
    BY <2>1, OwnFinite DEF ListingTypeOK, Reading
  <2>3. QED
    BY <1>5, <2>2 DEF Begin, ListingTypeOK
<1>6. CASE GetWallets
  <2>1. PICK s, page : Takes(s, page)
    BY <1>6, GetWalletsTakes
  <2>2. reading'.seen \in Seq(Wallet)
    BY <1>6, <2>1, TakesShows DEF GetWallets
  <2>3. reading'.stage \in {"reading", "over"} /\ reading'.offset \in Nat
    BY <2>1, ListingAssumption DEF Takes, ListingTypeOK, Reading
  <2>4. reading' \in Reading
    BY <2>1, <2>2, <2>3 DEF Takes, ListingTypeOK, Reading
  <2>5. QED
    BY <1>6, <2>4 DEF GetWallets, ListingTypeOK
<1>7. CASE UNCHANGED vars
  BY <1>7 DEF vars, ListingTypeOK
<1>8. QED
  BY <1>1, <1>2, <1>3, <1>4, <1>5, <1>6, <1>7 DEF Next

LEMMA ListingInvariant == Spec => [](ListingTypeOK /\ StoreInv /\ ReadingInv)
<1>1. Init => ListingTypeOK /\ StoreInv /\ ReadingInv
  <2> SUFFICES ASSUME Init PROVE ListingTypeOK /\ StoreInv /\ ReadingInv
    OBVIOUS
  <2>1. ListingTypeOK
    BY ListingAssumption DEF Init, ListingTypeOK, Reading
  <2>2. ToSet(rows) = {} /\ OwnRows = {}
    BY DEF Init, ToSet, OwnRows
  <2>3. QED
    BY <2>1, <2>2
    DEF Init, StoreInv, ReadingInv, Unstarted, Paging, Ahead, Lowest, NothingMissed
<1>2. /\ ListingTypeOK /\ StoreInv /\ ReadingInv /\ [Next]_vars
      => (ListingTypeOK /\ StoreInv /\ ReadingInv)'
  <2> SUFFICES ASSUME ListingTypeOK, StoreInv, ReadingInv, [Next]_vars
               PROVE  ListingTypeOK' /\ StoreInv' /\ ReadingInv'
    OBVIOUS
  <2>1. ListingTypeOK' /\ StoreInv'
    BY TypePreserved, StorePreserved DEF ReadingInv
  <2>2. ReadingInv'
    BY <2>1, ReadingStep, OthersKeep, BeginKeeps, GetWalletsKeeps
  <2>3. QED
    BY <2>1, <2>2
<1>3. QED
  BY <1>1, <1>2, PTL DEF Spec

\* The variables keep their types, and a reading knows only its user's rows.
THEOREM ListingTypeCorrect == Spec => []ListingTypeOK
BY ListingInvariant, PTL

\* However creations and pages interleave, a reading misses no wallet unless
\* two of the user's wallets share a createdAt.
THEOREM ReadingMissesNothing == Spec => []NothingMissed
<1>1. ReadingInv => NothingMissed
  BY DEF ReadingInv
<1>2. QED
  BY <1>1, ListingInvariant, PTL

\* A wallet that was shown follows exactly those of lower rank.
LEMMA ShownBefore ==
  ASSUME ListingTypeOK, ReadingInv, InsertedInOrder,
         NEW i \in 1 .. Len(reading.seen)
  PROVE  {reading.seen[j] : j \in 1 .. i - 1} = Below(reading.seen[i])
<1> DEFINE seen == reading.seen
           shown == {seen[j] : j \in 1 .. i - 1}
<1>1. seen \in Seq(Wallet) /\ Len(seen) \in Nat
  BY DEF ListingTypeOK, Reading
<1>2. \A j \in 1 .. Len(seen) : seen[j] \in OwnRows /\ Rank(seen[j]) = j - 1
  BY DEF ReadingInv, Lowest
<1> HIDE DEF seen
<1>3. i - 1 \in Nat /\ \A j \in 1 .. i - 1 : j \in 1 .. Len(seen) /\ j < i
  BY <1>1 DEF seen
<1>4. i \in 1 .. Len(seen)
  BY DEF seen
<1>5. ASSUME NEW j \in 1 .. i - 1 PROVE seen[j] \in Below(seen[i])
  <2>1. seen[j] \in OwnRows /\ seen[i] \in OwnRows
    BY <1>2, <1>3, <1>4
  <2>2. createdAt[seen[j]] \in Nat /\ createdAt[seen[i]] \in Nat
    BY <2>1, OwnFinite, ListingAssumption DEF ListingTypeOK
  <2>3. SUFFICES ASSUME createdAt[seen[i]] <= createdAt[seen[j]] PROVE FALSE
    BY <2>1, <2>2 DEF Below
  <2>4. \A w \in OwnRows : createdAt[w] \in Nat
    BY OwnFinite, ListingAssumption DEF ListingTypeOK
  <2>5. Below(seen[i]) \subseteq Below(seen[j])
    BY <2>2, <2>3, <2>4 DEF Below
  <2>6. Rank(seen[i]) <= Rank(seen[j])
    BY <2>5, RankType, FS_Subset DEF Rank
  <2>7. QED
    BY <1>2, <1>3, <1>4, <2>6
<1> DEFINE f == [j \in 1 .. i - 1 |-> seen[j]]
<1>6. f \in [1 .. i - 1 -> shown] /\ \A w \in shown : \E j \in 1 .. i - 1 : f[j] = w
  OBVIOUS
<1>7. ASSUME NEW j \in 1 .. i - 1, NEW k \in 1 .. i - 1, f[j] = f[k] PROVE j = k
  <2>1. Rank(seen[j]) = j - 1 /\ Rank(seen[k]) = k - 1 /\ seen[j] = seen[k]
    BY <1>2, <1>3, <1>7
  <2>2. QED
    BY <2>1
<1>8. shown \subseteq Below(seen[i])
  BY <1>5
<1> HIDE DEF f, shown
<1>9. f \in Bijection(1 .. i - 1, shown)
  BY <1>6, <1>7 DEF Bijection, Injection, Surjection, IsInjective
<1>10. Cardinality(shown) = i - 1
  BY <1>3, <1>9, FS_CountingElements DEF ExistsBijection
<1>11. Cardinality(Below(seen[i])) = Cardinality(shown)
  BY <1>2, <1>4, <1>10 DEF Rank
<1>12. shown = Below(seen[i])
  BY <1>8, <1>11, RankType, FS_Subset
<1>13. QED
  BY <1>12 DEF shown, seen

\* In the table it follows the same ones.
LEMMA InsertedBefore ==
  ASSUME ListingTypeOK, InsertedInOrder, NEW k \in 1 .. Len(rows), rows[k] \in Own
  PROVE  {rows[j] : j \in 1 .. k - 1} \cap Own = Below(rows[k])
<1>1. rows \in Seq(Wallet) /\ Len(rows) \in Nat /\ DOMAIN rows = 1 .. Len(rows)
  BY DEF ListingTypeOK
<1>2. \A j \in 1 .. Len(rows) : rows[j] \in Own => createdAt[rows[j]] \in Nat
  BY ListingAssumption DEF ListingTypeOK
<1>3. \A i, j \in 1 .. Len(rows) :
        i < j /\ rows[i] \in Own /\ rows[j] \in Own =>
          createdAt[rows[i]] < createdAt[rows[j]]
  BY <1>1 DEF InsertedInOrder
<1>4. ASSUME NEW j \in 1 .. k - 1, rows[j] \in Own PROVE rows[j] \in Below(rows[k])
  <2>1. j \in 1 .. Len(rows) /\ j < k
    BY <1>1
  <2>2. rows[j] \in OwnRows
    BY <1>1, <1>4, <2>1 DEF OwnRows, ToSet
  <2>3. QED
    BY <1>3, <1>4, <2>1, <2>2 DEF Below
<1>5. ASSUME NEW v \in Below(rows[k])
      PROVE  v \in Own /\ \E j \in 1 .. k - 1 : rows[j] = v
  <2>1. v \in Own /\ v \in ToSet(rows) /\ createdAt[v] < createdAt[rows[k]]
    BY DEF Below, OwnRows
  <2>2. PICK j \in 1 .. Len(rows) : rows[j] = v
    BY <1>1, <2>1 DEF ToSet
  <2>3. createdAt[rows[j]] \in Nat /\ createdAt[rows[k]] \in Nat
    BY <1>2, <2>1, <2>2
  <2>4. ~(k < j) /\ j # k
    BY <1>3, <2>1, <2>2, <2>3
  <2>5. j \in 1 .. k - 1
    BY <1>1, <2>4
  <2>6. QED
    BY <2>1, <2>2, <2>5
<1>6. QED
  BY <1>4, <1>5

\* As long as the user's wallets are inserted in the order of their times, the
\* pages of a reading continue each other.
THEOREM PagesFollowOn == Spec => []PagesContinue
<1>1. ListingTypeOK /\ ReadingInv => PagesContinue
  <2> SUFFICES ASSUME ListingTypeOK, ReadingInv, InsertedInOrder,
                      NEW i \in DOMAIN reading.seen
               PROVE  \E k \in DOMAIN rows :
                        /\ rows[k] = reading.seen[i] /\ rows[k] \in Own
                        /\ {reading.seen[j] : j \in 1 .. i - 1}
                             = {rows[j] : j \in 1 .. k - 1} \cap Own
    BY DEF PagesContinue
  <2>1. /\ rows \in Seq(Wallet) /\ DOMAIN rows = 1 .. Len(rows)
        /\ i \in 1 .. Len(reading.seen)
    BY DEF ListingTypeOK, Reading
  <2>2. reading.seen[i] \in OwnRows
    BY <2>1 DEF ReadingInv, Lowest
  <2>3. PICK k \in 1 .. Len(rows) : rows[k] = reading.seen[i] /\ rows[k] \in Own
    BY <2>1, <2>2 DEF OwnRows, ToSet
  <2>4. {reading.seen[j] : j \in 1 .. i - 1} = Below(rows[k])
    BY <2>1, <2>3, ShownBefore
  <2>5. {rows[j] : j \in 1 .. k - 1} \cap Own = Below(rows[k])
    BY <2>3, InsertedBefore
  <2>6. QED
    BY <2>1, <2>3, <2>4, <2>5
<1>2. QED
  BY <1>1, ListingInvariant, PTL
=============================================================================
