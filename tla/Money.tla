-------------------------------- MODULE Money --------------------------------
(****************************************************************************)
(* The value object of wallet/src/features/wallet/money.ts: a non-negative  *)
(* integer number of the smallest unit, in one currency.  The constructor's *)
(* checks (integer, not negative) are the set Money itself; an operation    *)
(* that throws INCOMPATIABLE_CURRENCY is one whose operands are not         *)
(* Compatible, and callers test that before they use the result.            *)
(****************************************************************************)
EXTENDS Integers

Currency == {"NGN", "USD"}

Money == [value : Nat, currency : Currency]

\* new Money(amount_in_kobo, Currency.NGN), the only currency a controller uses.
Naira(kobo) == [value |-> kobo, currency |-> "NGN"]

Compatible(m, n) == m.currency = n.currency

Add(m, n) == [value |-> m.value + n.value, currency |-> m.currency]

\* Mutant: Math.abs left out.
DistanceSigned(i, j) == i - j

Distance(i, j) == IF i >= j THEN i - j ELSE j - i

Difference(m, n) ==
  [value |-> Distance(m.value, n.value), currency |-> m.currency]

GreaterOrEqual(m, n) == m.value >= n.value /\ m.currency = n.currency
==============================================================================
