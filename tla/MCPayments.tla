----------------------------- MODULE MCPayments -----------------------------
(* One or two bookings, up to two transactions, the plans of MCSubscriptions. *)
EXTENDS Payments

CONSTANTS free, basic, pro

AllPlans == {free, basic, pro}
FreeAndPro == {free, pro}
NoPlans == {}
MCPrice == [p \in Plans |-> IF p = free THEN 0 ELSE IF p = basic THEN 1 ELSE 2]
MCCredits == [p \in Plans |-> IF p = pro THEN 2 ELSE 1]

\* The runs about a tenant that has not been charged stop where it is: a charge
\* is never taken back, and what they say holds of any state after one.
NotYetCharged == ~SubscriptionCharged
=============================================================================
