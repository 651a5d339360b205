-------------------------------- MODULE Images --------------------------------
(***************************************************************************)
(* The images of one listing (addImages() of listings.service.ts) or of    *)
(* one customer (addImages() of customers.service.ts, the same steps): the *)
(* upload reads the largest sort order once, then stores and inserts file  *)
(* by file, with no transaction.  Uploads overlap when two admins, or two  *)
(* tabs, send files at once; each may fail after some of its files.        *)
(***************************************************************************)
EXTENDS Naturals, Sequences, FiniteSets, FiniteSetsExt

CONSTANTS
    Uploads,        \* requests that upload
    Files,          \* Files[u][n]: the safe name of the n-th file of u
    MaxMillis,      \* bound on Date.now()
    NoObject        \* no object, no key

VARIABLES
    millis,         \* Date.now()
    images,         \* the rows
    object,         \* object[k]: the file that the storage has under key k
    upload,         \* seen: history, the images that were there when it looked
    overlapped      \* history: the pairs of uploads that ran at the same time

imagesVars == <<millis, images, object, upload, overlapped>>

Names == UNION {{Files[u][n] : n \in DOMAIN Files[u]} : u \in Uploads}

ASSUME ImagesAssumption ==
    /\ MaxMillis \in Nat
    /\ IsFiniteSet(Uploads)
    /\ \A u \in Uploads : Files[u] \in Seq(Names) \ {<<>>}

Keys == [millis : 0..MaxMillis, name : Names]

FileIds == UNION {{u} \X DOMAIN Files[u] : u \in Uploads}

Running == {u \in Uploads : upload[u].step \in {"found", "storing", "saving"}}

NoUpload == [step |-> "none", nth |-> 1, sort |-> 0, key |-> NoObject, seen |-> {}]

ImagesTypeOK ==
    /\ millis \in 0..MaxMillis
    /\ \A i \in images : /\ i.file \in FileIds /\ i.key \in Keys
                          /\ i.sort \in 0..Cardinality(FileIds) - 1
    /\ object \in [Keys -> FileIds \cup {NoObject}]
    /\ \A u \in Uploads :
        /\ upload[u].step \in {"none", "found", "storing", "saving", "saved", "failed"}
        /\ upload[u].nth \in DOMAIN Files[u] /\ upload[u].sort \in 0..Cardinality(FileIds)
        /\ upload[u].seen \subseteq images
    /\ overlapped \subseteq Uploads \X Uploads

-----------------------------------------------------------------------------
\* Mutant: the order is read with ASC, so that the first image is found.
SortAfterFirst(S) == IF S = {} THEN 0 ELSE 1 + Min({i.sort : i \in S})

NextSort(S) == IF S = {} THEN 0 ELSE 1 + Max({i.sort : i \in S})

KeyNow(name) == [millis |-> millis, name |-> name]

\* The listing or the customer is one of the tenant's.
FindOwner(u) ==
    /\ upload[u] = NoUpload
    /\ upload' = [upload EXCEPT ![u].step = "found"]
    /\ overlapped' = overlapped \cup (Running \X {u}) \cup ({u} \X Running)
    /\ UNCHANGED <<millis, images, object>>

ReadLastSort(u) ==
    /\ upload[u].step = "found"
    /\ upload' = [upload EXCEPT ![u].step = "storing", ![u].sort = NextSort(images),
                                ![u].seen = images]
    /\ UNCHANGED <<millis, images, object, overlapped>>

\* PutObject: an object with the same key is replaced.
StoreFile(u) ==
    LET key == KeyNow(Files[u][upload[u].nth])
    IN  /\ upload[u].step = "storing"
        /\ object' = [object EXCEPT ![key] = <<u, upload[u].nth>>]
        /\ upload' = [upload EXCEPT ![u].step = "saving", ![u].key = key]
        /\ UNCHANGED <<millis, images, overlapped>>

InsertImage(u) ==
    LET nth == upload[u].nth
    IN  /\ upload[u].step = "saving"
        /\ images' = images \cup {[file |-> <<u, nth>>, key |-> upload[u].key,
                                   sort |-> upload[u].sort]}
        /\ upload' = IF nth + 1 \in DOMAIN Files[u]
                     THEN [upload EXCEPT ![u].step = "storing", ![u].nth = nth + 1,
                                         ![u].sort = @ + 1]
                     ELSE [upload EXCEPT ![u].step = "saved"]
        /\ UNCHANGED <<millis, object, overlapped>>

\* The storage or the database refuses; what was inserted before stays.
UploadFails(u) ==
    /\ u \in Running
    /\ upload' = [upload EXCEPT ![u].step = "failed"]
    /\ UNCHANGED <<millis, images, object, overlapped>>

MillisPass ==
    /\ millis < MaxMillis
    /\ millis' = millis + 1
    /\ UNCHANGED <<images, object, upload, overlapped>>

-----------------------------------------------------------------------------
ImagesInit ==
    /\ millis = 0 /\ images = {}
    /\ object = [k \in Keys |-> NoObject]
    /\ upload = [u \in Uploads |-> NoUpload]
    /\ overlapped = {}

ImagesStep ==
    \/ \E u \in Uploads : \/ FindOwner(u) \/ ReadLastSort(u) \/ StoreFile(u)
                          \/ InsertImage(u) \/ UploadFails(u)
    \/ MillisPass

-----------------------------------------------------------------------------
(* Properties.                                                             *)

\* findImages() shows the images by sort_order.  Two images have the same one
\* only if their uploads overlapped, and an image comes after every image that
\* was there when its upload looked: an upload that failed half way, or one that
\* inserts slowly, does not disturb the order of the others.
OrderIsKept ==
    /\ \A i, j \in images :
           i.file # j.file /\ i.sort = j.sort => <<i.file[1], j.file[1]>> \in overlapped
    /\ \A i \in images : \A j \in upload[i.file[1]].seen : j.sort < i.sort
===============================================================================
