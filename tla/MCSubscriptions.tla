--------------------------- MODULE MCSubscriptions ---------------------------
(* Three plans: the free trial and two paid tiers, as the seed migration       *)
(* orders them; allowances are scaled down to 1, 1 and 2 messages.             *)
EXTENDS Subscriptions, TLC

CONSTANTS free, basic, pro, r1, r2

MCPlans == {free, basic, pro}
MCPrice == (free :> 0) @@ (basic :> 1) @@ (pro :> 2)
MCCredits == (free :> 1) @@ (basic :> 1) @@ (pro :> 2)

RequestSymmetry == Permutations(Requests)
=============================================================================
