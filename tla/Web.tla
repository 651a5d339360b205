---------------------------------- MODULE Web ----------------------------------
(***************************************************************************)
(* What the two web apps show: the search, the images of a listing or of a *)
(* customer, and the pages that change what they show.  They share nothing *)
(* but the server, so a behaviour is one of them; which one is chosen at   *)
(* the start.                                                              *)
(***************************************************************************)
EXTENDS Search, Images, Pages

CONSTANTS Screens       \* some of "search", "images" and "pages"

VARIABLES screen

webVars == <<screen, searchVars, imagesVars, pagesVars>>

WebTypeOK ==
    /\ screen \in Screens
    /\ SearchTypeOK /\ ImagesTypeOK /\ PagesTypeOK

OnSearch(A) == screen = "search" /\ A /\ UNCHANGED <<screen, imagesVars, pagesVars>>
OnImages(A) == screen = "images" /\ A /\ UNCHANGED <<screen, searchVars, pagesVars>>
OnPages(A) == screen = "pages" /\ A /\ UNCHANGED <<screen, searchVars, imagesVars>>

WebInit ==
    /\ screen \in Screens
    /\ SearchInit /\ ImagesInit /\ PagesInit
    /\ screen # "pages" => route = CHOOSE r \in Routes : TRUE

WebNext == OnSearch(SearchStep) \/ OnImages(ImagesStep) \/ OnPages(PagesStep)

WebSpec == WebInit /\ [][WebNext]_webVars

\* The customer opens the search and keeps scrolling, and the server answers.
WebFairSpec ==
    /\ WebSpec
    /\ WF_webVars(OnSearch(OpenSearch \/ PageArrives))
    /\ WF_webVars(OnSearch(FetchNextPage))

\* Scrolling reaches the end of the list again and again.
ScrollsToTheEnd == screen = "search" => ScrollReachesEnd
===============================================================================
