------------------------------ MODULE MCMatching ------------------------------
(* One plan that allows one listing and MCBalance messages, three customers:   *)
(* one whose budget the rent just meets, one who wants anything, one who wants *)
(* another room type.                                                          *)
EXTENDS Matching, TLC

CONSTANTS plan, l1, l2, l3, c1, c2, c3, a, b, v, w, room, flat, MCBalance

MCPlans == {plan}
MCPrice == (plan :> 0)
MCCredits == (plan :> MCBalance)
MCMaxListings == (plan :> 1)

Want(type, bhk, low, high) ==
    [active |-> TRUE, roomType |-> type, bhkType |-> bhk, budgetMin |-> low, budgetMax |-> high]

MCPreference == (c1 :> Want(room, Null, 1, 2)) @@ (c2 :> Want(Null, Null, Null, Null))
                @@ (c3 :> Want(flat, Null, Null, Null))
MCOffer == [l \in Listings |-> [roomType |-> room, bhkType |-> Null, rent |-> 2]]

ListingSymmetry == Permutations(Listings) \cup Permutations(Calls)
=============================================================================
