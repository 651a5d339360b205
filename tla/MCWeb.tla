--------------------------------- MODULE MCWeb ---------------------------------
(* Instances of Web: three listings, three uploads, every page.               *)
EXTENDS Web

\* Two files of one name in one request, and the names of other requests.
UploadedFiles ==
    [u \in Uploads |-> CASE u = "u1" -> <<"a", "b">> [] u = "u2" -> <<"a", "a">> [] OTHER -> <<"b">>]

AllRoutes == DOMAIN Page
===============================================================================
