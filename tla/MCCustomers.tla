------------------------------ MODULE MCCustomers ------------------------------
(* Instance of Customers: calls are interchangeable.                           *)
EXTENDS Customers, TLC

CallSymmetry == Permutations(Calls)
=============================================================================
