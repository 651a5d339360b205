------------------------------ MODULE MCFacebook ------------------------------
(* Instance of Facebook: two pages, a delivery of the shared app and one of  *)
(* a tenant's own app for the first of them.                                 *)
EXTENDS Facebook, TLC

CONSTANTS page1, page2, shared, own

MCPageOf == shared :> page1 @@ own :> page1
=============================================================================
