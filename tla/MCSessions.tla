------------------------------ MODULE MCSessions ------------------------------
(* Instances of Sessions: two tabs of one browser with a request and a      *)
(* logout, and one tab whose requests wait for each other's refresh.         *)
EXTENDS Sessions, TLC

CONSTANTS t1, t2, r1, r2, r3

MCTabOf == r1 :> t1 @@ r3 :> t2

MCOneTab == [r \in Requests |-> t1]
=============================================================================
