--------------------------- MODULE TransactionBook ---------------------------
(****************************************************************************)
(* What TransactionService promises about its records, without saying how:  *)
(* the book only grows, by at most one entry for a call and exactly the one *)
(* that was asked for; a call returns only when its entry is in the book,   *)
(* and is refused (a debit, for lack of funds) only when it is not.  A call *)
(* that fails may or may not have left its entry.                           *)
(****************************************************************************)
EXTENDS WalletBalance

CONSTANTS Wallet, TxId, Kobo

VARIABLES
  book,      \* the entries
  asked,     \* the request of each call
  outcome    \* how each call stands

vars == <<book, asked, outcome>>

NoRequest == [type |-> "NONE"]

Entry(id) ==
  [id |-> id, wallet |-> asked[id].wallet, type |-> asked[id].type,
   amount |-> asked[id].amount]

Entered(id) == \E e \in book : e.id = id

Init ==
  /\ book = {}
  /\ asked = [id \in TxId |-> NoRequest]
  /\ outcome = [id \in TxId |-> "idle"]

Open(id) ==
  /\ outcome[id] = "idle"
  /\ \E type \in TransactionType, w \in Wallet, kobo \in Kobo :
       asked' = [asked EXCEPT ![id] =
                   [type |-> type, wallet |-> w, amount |-> Naira(kobo)]]
  /\ outcome' = [outcome EXCEPT ![id] = "open"]
  /\ UNCHANGED book

Enter(id) ==
  /\ outcome[id] = "open"
  /\ ~Entered(id)
  /\ book' = book \cup {Entry(id)}
  /\ UNCHANGED <<asked, outcome>>

Finish(id, how) ==
  /\ outcome[id] = "open"
  /\ outcome' = [outcome EXCEPT ![id] = how]
  /\ UNCHANGED <<book, asked>>

Return(id) == Entered(id) /\ Finish(id, "returned")

Refuse(id) == asked[id].type = "OUT" /\ ~Entered(id) /\ Finish(id, "refused")

Fail(id) == Finish(id, "failed")

Next ==
  \E id \in TxId : Open(id) \/ Enter(id) \/ Return(id) \/ Refuse(id) \/ Fail(id)

Spec == Init /\ [][Next]_vars
==============================================================================
