--------------------------- MODULE TransferringMC ---------------------------
(* Model-checking definitions for Transferring: who owns which wallet, and  *)
(* which transaction ids each transfer draws.                               *)
EXTENDS Transferring, TLC

CONSTANTS w1, w2, ada, obi, f1, d1, c1, d2, c2, x1, x2

OwnerDef == [w \in Wallet |-> IF w = w1 THEN ada ELSE obi]

OneDebitId == x1 :> d1
OneCreditId == x1 :> c1

TwoDebitIds == x1 :> d1 @@ x2 :> d2
TwoCreditIds == x1 :> c1 @@ x2 :> c2
==============================================================================
