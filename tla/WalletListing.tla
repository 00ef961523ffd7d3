---------------------------- MODULE WalletListing ----------------------------
(****************************************************************************)
(* Reading a user's wallets page by page (getWalletsByUser in               *)
(* wallet/src/features/wallet) while wallets are being created.             *)
(*                                                                          *)
(* A page is one query: the rows of the user in the order of createdAt,     *)
(* from an offset, up to a limit.  The order of rows with the same          *)
(* createdAt is the database's, and may differ from query to query, as each *)
(* update of a balance moves its row.  createdAt is taken when Wallet.create *)
(* runs, so rows may be inserted in another order.                          *)
(****************************************************************************)
EXTENDS Naturals, SequencesExt

CONSTANTS
  Wallet,     \* the wallets that may be created
  Own,        \* those of the user who reads
  Limit,      \* the limits a reading may use, at least one wallet a page
  MaxTime     \* bound on the clock

ASSUME ListingAssumption ==
  Own \subseteq Wallet /\ Limit \subseteq Nat \ {0} /\ MaxTime \in Nat

VARIABLES
  clock,      \* Date.now()
  creation,   \* what each create awaits, or how it ended
  createdAt,  \* the time in each wallet
  rows,       \* the rows of table Wallet, in the order they were inserted
  reading     \* the reading of pages

vars == <<clock, creation, createdAt, rows, reading>>

\* known: the user's rows when the reading began; seen: the rows it was shown.
\* A reading is over once a page was not full.
Reading ==
  [stage : {"idle", "reading", "over"}, limit : Limit \cup {0}, offset : Nat,
   known : SUBSET Own, seen : Seq(Wallet)]

Init ==
  /\ clock = 0
  /\ creation = [w \in Wallet |-> "idle"]
  /\ createdAt = [w \in Wallet |-> 0]
  /\ rows = <<>>
  /\ reading = [stage |-> "idle", limit |-> 0, offset |-> 0, known |-> {},
                seen |-> <<>>]

------------------------------------------------------------------------------

Tick ==
  /\ clock < MaxTime
  /\ clock' = clock + 1
  /\ UNCHANGED <<creation, createdAt, rows, reading>>

\* Wallet.create takes the time, and the insert is sent.
Create(w) ==
  /\ creation[w] = "idle"
  /\ creation' = [creation EXCEPT ![w] = "saving"]
  /\ createdAt' = [createdAt EXCEPT ![w] = clock]
  /\ UNCHANGED <<clock, rows, reading>>

Insert(w) ==
  /\ creation[w] = "saving"
  /\ creation' = [creation EXCEPT ![w] = "stored"]
  /\ rows' = Append(rows, w)
  /\ UNCHANGED <<clock, createdAt, reading>>

InsertFails(w) ==
  /\ creation[w] = "saving"
  /\ creation' = [creation EXCEPT ![w] = "failed"]
  /\ UNCHANGED <<clock, createdAt, rows, reading>>

\* Mutant: where({ userId }) is missing.
OwnRowsOfAll == ToSet(rows)

\* where({ userId })
OwnRows == ToSet(rows) \cap Own

\* Mutant: the newest wallets come first.
DescendingOrders ==
  {s \in SetToSeqs(OwnRows) :
     \A i, j \in DOMAIN s : i < j => createdAt[s[i]] >= createdAt[s[j]]}

\* Mutant: there is no orderBy.
AnyOrders == SetToSeqs(OwnRows)

\* orderBy('createdAt', 'asc')
Orders ==
  {s \in SetToSeqs(OwnRows) :
     \A i, j \in DOMAIN s : i < j => createdAt[s[i]] <= createdAt[s[j]]}

\* offset(offset).limit(limit)
Page(s, offset, limit) ==
  SubSeq(s, offset + 1, IF offset + limit < Len(s) THEN offset + limit ELSE Len(s))

Begin ==
  /\ reading.stage = "idle"
  /\ \E limit \in Limit :
       reading' = [reading EXCEPT !.stage = "reading", !.limit = limit,
                                  !.known = OwnRows]
  /\ UNCHANGED <<clock, creation, createdAt, rows>>

\* GET /api/wallets: the reader takes the next page, until one is not full.
GetWallets ==
  /\ reading.stage = "reading"
  /\ \E s \in Orders :
       LET page == Page(s, reading.offset, reading.limit)
       IN reading' = [reading EXCEPT
            !.stage = IF Len(page) < reading.limit THEN "over" ELSE @,
            !.offset = @ + reading.limit,
            !.seen = @ \o page]
  /\ UNCHANGED <<clock, creation, createdAt, rows>>

Next ==
  \/ Tick
  \/ \E w \in Wallet : Create(w) \/ Insert(w) \/ InsertFails(w)
  \/ Begin
  \/ GetWallets

Spec == Init /\ [][Next]_vars

------------------------------------------------------------------------------

\* The types of the variables; what a reading knows are rows of its user.
ListingTypeOK ==
  /\ clock \in 0 .. MaxTime
  /\ creation \in [Wallet -> {"idle", "saving", "stored", "failed"}]
  /\ createdAt \in [Wallet -> 0 .. MaxTime]
  /\ rows \in Seq(Wallet)
  /\ reading \in Reading

Distinct == \A v, w \in OwnRows : createdAt[v] = createdAt[w] => v = w

\* A reading that is over has shown every wallet that the user had when it
\* began, although rows are inserted before and behind its offset as it goes,
\* unless two of the user's wallets share a createdAt; and even then if one
\* page was enough (wallet.repository.ts, getWalletsByUser).
NothingMissed ==
  reading.stage = "over" /\ (Distinct \/ Len(reading.seen) < reading.limit) =>
    reading.known \subseteq ToSet(reading.seen)

\* As long as the user's wallets are inserted in the order of their createdAt,
\* the pages continue each other: before each wallet the reading was shown, it
\* had been shown exactly those of the user's wallets that were inserted before
\* that one, so none is skipped or shown twice.
InsertedInOrder ==
  \A i, j \in DOMAIN rows :
    i < j /\ {rows[i], rows[j]} \subseteq Own =>
      createdAt[rows[i]] < createdAt[rows[j]]

PagesContinue ==
  InsertedInOrder =>
    \A i \in DOMAIN reading.seen :
      \E k \in DOMAIN rows :
        /\ rows[k] = reading.seen[i] /\ rows[k] \in Own
        /\ {reading.seen[j] : j \in 1 .. i - 1} = {rows[j] : j \in 1 .. k - 1} \cap Own
==============================================================================
