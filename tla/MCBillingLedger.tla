--------------------------- MODULE MCBillingLedger --------------------------
(***************************************************************************)
(* Small instances of BillingLedger.  No call touches two customers, so    *)
(* one customer with several sessions is where the races are.              *)
(***************************************************************************)
EXTENDS BillingLedger

CONSTANTS c1, k1, r1, s1, s2, none

OneCustomer == {c1}
TwoSessions == {s1, s2}
OneKey == {k1}
OneRef == {r1}
UnitAmounts == 0..1

=============================================================================
