------------------------------ MODULE Payment ------------------------------
(****************************************************************************)
(* What TransferringService.process promises about the two transactions of  *)
(* a transfer: the credit is recorded only after the debit, each at most    *)
(* once, and the transfer returns only when both are.  A transfer may fail  *)
(* anywhere, and then whatever half is recorded remains so: it is neither   *)
(* completed nor undone.                                                    *)
(****************************************************************************)
CONSTANT Transfer

VARIABLES
  half,      \* which of the two transactions of each transfer are recorded
  verdict    \* how each transfer stands

vars == <<half, verdict>>

Init ==
  /\ half = [t \in Transfer |-> "none"]
  /\ verdict = [t \in Transfer |-> "open"]

Pay(t) ==
  /\ verdict[t] = "open"
  /\ half[t] = "none"
  /\ half' = [half EXCEPT ![t] = "paid"]
  /\ UNCHANGED verdict

Credit(t) ==
  /\ verdict[t] = "open"
  /\ half[t] = "paid"
  /\ half' = [half EXCEPT ![t] = "both"]
  /\ UNCHANGED verdict

Return(t) ==
  /\ verdict[t] = "open"
  /\ half[t] = "both"
  /\ verdict' = [verdict EXCEPT ![t] = "returned"]
  /\ UNCHANGED half

Fail(t) ==
  /\ verdict[t] = "open"
  /\ verdict' = [verdict EXCEPT ![t] = "failed"]
  /\ UNCHANGED half

Next == \E t \in Transfer : Pay(t) \/ Credit(t) \/ Return(t) \/ Fail(t)

Spec == Init /\ [][Next]_vars
==============================================================================
