------------------------------- MODULE WebProofs -------------------------------
(***************************************************************************)
(* Proofs about what the web apps show: the images of a listing or of a    *)
(* customer, and the pages that change what they show, for any uploads,    *)
(* files and mutations in flight.  Those about the search are in           *)
(* SearchProofs; here they are put together.                               *)
(***************************************************************************)
EXTENDS Web, SearchProofs

-----------------------------------------------------------------------------
(* The largest of a bounded set of numbers.                                *)

\* NextSort() is above every order that it looks at, and no higher than it must.
LEMMA NextSortIsAbove ==
  ASSUME NEW S, NEW b \in Nat, \A i \in S : i.sort \in Nat /\ i.sort < b
  PROVE  /\ NextSort(S) \in Nat /\ NextSort(S) <= b
         /\ \A i \in S : i.sort < NextSort(S)
<1> DEFINE T == {i.sort : i \in S}
           Above == {n \in Nat : \A t \in T : t <= n}
<1>1. CASE S = {}
  BY <1>1 DEF NextSort
<1>2. CASE S # {}
  <2>1. T # {} /\ T \subseteq Nat /\ b \in Above
    BY <1>2
  <2>2. PICK n \in Above : \A m \in Above : n <= m
    <3> HIDE DEF Above
    <3>1. Above \in SUBSET Nat /\ Above # {}
      BY <2>1 DEF Above
    <3> QED BY <3>1, LeastNatural
  <2>3. n \in T
    <3>1. CASE n = 0
      BY <2>1, <2>2, <3>1
    <3>2. CASE n # 0
      <4>1. n - 1 \in Nat /\ ~(n <= n - 1)
        BY <2>2, <3>2
      <4>2. n - 1 \notin Above
        BY <2>2, <4>1
      <4>3. PICK t \in T : ~(t <= n - 1)
        BY <4>1, <4>2
      <4> QED BY <2>1, <2>2, <4>3
    <3> QED BY <3>1, <3>2
  <2>4. PICK max : max = Max(T) /\ max \in T /\ \A t \in T : max >= t
    <3>1. \E x \in T : \A y \in T : x >= y
      BY <2>1, <2>2, <2>3
    <3> HIDE DEF T
    <3> QED BY <3>1 DEF Max
  <2>5. NextSort(S) = 1 + max
    BY <1>2, <2>4 DEF NextSort
  <2>6. \A i \in S : i.sort \in T
    OBVIOUS
  <2>7. max \in Nat /\ max < b
    BY <2>1, <2>4
  <2> HIDE DEF T, Above
  <2> QED BY <2>1, <2>4, <2>5, <2>6, <2>7
<1> QED BY <1>1, <1>2

-----------------------------------------------------------------------------
(* Images: the inductive invariant.                                        *)

Stored == {i.file : i \in images}

Inserting(u) == upload[u].step \in {"storing", "saving"}

ImageRecords == [file : FileIds, key : Keys, sort : Nat]

UploadRecords ==
    [step : {"none", "found", "storing", "saving", "saved", "failed"}, nth : Nat, sort : Nat,
     key : Keys \cup {NoObject}, seen : SUBSET ImageRecords]

ImageTypes ==
    /\ millis \in 0..MaxMillis
    /\ images \subseteq ImageRecords
    /\ object \in [Keys -> FileIds \cup {NoObject}]
    /\ upload \in [Uploads -> UploadRecords]
    /\ \A u \in Uploads : upload[u].nth \in DOMAIN Files[u] /\ upload[u].seen \subseteq images
    /\ overlapped \subseteq Uploads \X Uploads

\* An upload that saves has a key.
KeysInv == \A u \in Uploads : upload[u].step = "saving" => upload[u].key \in Keys

\* What upload u will insert comes after what it has inserted and after what it saw.
Ascends(u) ==
    /\ \A i \in images : i.file[1] = u => i.file[2] < upload[u].nth /\ i.sort < upload[u].sort
    /\ \A j \in upload[u].seen : j.sort < upload[u].sort

SortInv ==
    /\ \A u \in Uploads : Inserting(u) => Ascends(u)
    /\ \A i \in images : upload[i.file[1]].step \notin {"none", "found"}
    /\ \A i \in images : \A j \in upload[i.file[1]].seen : j.sort < i.sort
    /\ \A i, j \in images :
           i.file[1] = j.file[1] /\ i.file # j.file => i.sort # j.sort

\* Of two uploads one saw what the other inserted, or they overlapped.
MetInv ==
    /\ \A u, v \in Uploads : <<u, v>> \in overlapped => <<v, u>> \in overlapped
    /\ \A u, v \in Running : u # v => <<u, v>> \in overlapped
    /\ \A u \in Uploads : Inserting(u) =>
           \A i \in images : \/ i.file[1] = u \/ i \in upload[u].seen
                             \/ <<i.file[1], u>> \in overlapped
    /\ \A i, j \in images : \/ i.file[1] = j.file[1] \/ i \in upload[j.file[1]].seen
                            \/ j \in upload[i.file[1]].seen
                            \/ <<i.file[1], j.file[1]>> \in overlapped

\* The orders are below the number of files inserted.
CountInv ==
    /\ \A i \in images : i.sort < Cardinality(Stored)
    /\ \A u \in Uploads : upload[u].sort <= Cardinality(Stored)

ImagesInv == ImageTypes /\ KeysInv /\ SortInv /\ MetInv /\ CountInv

-----------------------------------------------------------------------------
(* Images: what each step does to the uploads.                             *)

\* The first file of an upload is there, and files have names.
LEMMA FilesOf ==
  ASSUME NEW u \in Uploads
  PROVE  /\ DOMAIN Files[u] \subseteq Nat /\ 1 \in DOMAIN Files[u]
         /\ \A n \in DOMAIN Files[u] : Files[u][n] \in Names /\ <<u, n>> \in FileIds
<1>1. Files[u] \in Seq(Names) /\ Files[u] # <<>>
  BY ImagesAssumption
<1>2. DOMAIN Files[u] = 1..Len(Files[u]) /\ Len(Files[u]) \in Nat \ {0}
  BY <1>1
<1>3. \A n \in DOMAIN Files[u] : Files[u][n] \in Names
  BY <1>1, <1>2
<1>4. \A n \in DOMAIN Files[u] : <<u, n>> \in FileIds
  BY DEF FileIds
<1> QED BY <1>2, <1>3, <1>4

\* A file is an upload and the number of one of its files.
LEMMA FileIdOf ==
  ASSUME NEW f \in FileIds
  PROVE  /\ f[1] \in Uploads /\ f[2] \in DOMAIN Files[f[1]] /\ f[2] \in Nat
         /\ f = <<f[1], f[2]>>
<1>1. PICK u \in Uploads : f \in {u} \X DOMAIN Files[u]
  BY DEF FileIds
<1>2. DOMAIN Files[u] \subseteq Nat
  BY FilesOf
<1> QED BY <1>1, <1>2

\* Finitely many requests upload finitely many files.
LEMMA FilesAreFinite == IsFiniteSet(FileIds)
<1> DEFINE f == [u \in Uploads |-> {u} \X DOMAIN Files[u]]
           T == {{u} \X DOMAIN Files[u] : u \in Uploads}
<1>1. f \in Surjection(Uploads, T)
  BY DEF Surjection
<1>2. IsFiniteSet(T)
  BY <1>1, FS_Surjection, ImagesAssumption
<1>3. ASSUME NEW u \in Uploads PROVE IsFiniteSet({u} \X DOMAIN Files[u])
  <2>1. Files[u] \in Seq(Names)
    BY ImagesAssumption
  <2>2. DOMAIN Files[u] = 1..Len(Files[u]) /\ Len(Files[u]) \in Nat
    BY <2>1
  <2>3. IsFiniteSet(DOMAIN Files[u])
    BY <2>2, FS_Interval
  <2> QED BY <2>3, FS_Singleton, FS_Product
<1>4. \A s \in T : IsFiniteSet(s)
  BY <1>3
<1> QED BY <1>2, <1>4, FS_UNION DEF FileIds

LEMMA StoredIsFinite ==
  ASSUME ImageTypes
  PROVE  /\ Stored \subseteq FileIds /\ IsFiniteSet(Stored)
         /\ Cardinality(Stored) \in Nat /\ Cardinality(Stored) <= Cardinality(FileIds)
<1>1. Stored \in SUBSET FileIds
  BY DEF ImageTypes, Stored, ImageRecords
<1> QED BY <1>1, FilesAreFinite, FS_Subset, FS_CardinalityType

\* Only u's request moves, and the fields that are not named keep their values.
OnlyMoves(u) ==
    /\ \A v \in Uploads : v # u => upload'[v] = upload[v]
    /\ upload' \in [Uploads -> UploadRecords]

LEMMA FindOwnerMoves ==
  ASSUME ImageTypes, NEW u \in Uploads, FindOwner(u)
  PROVE  /\ OnlyMoves(u) /\ upload[u].step = "none"
         /\ upload'[u].step = "found" /\ upload'[u].nth = 1 /\ upload'[u].seen = {}
         /\ upload'[u].sort = upload[u].sort
BY DEF ImageTypes, UploadRecords, FindOwner, OnlyMoves, NoUpload

LEMMA ReadLastSortMoves ==
  ASSUME ImageTypes, CountInv, NEW u \in Uploads, ReadLastSort(u)
  PROVE  /\ OnlyMoves(u) /\ upload[u].step = "found"
         /\ upload'[u].step = "storing" /\ upload'[u].nth = upload[u].nth
         /\ upload'[u].seen = images
         /\ upload'[u].sort = NextSort(images) /\ NextSort(images) <= Cardinality(Stored)
         /\ \A i \in images : i.sort < NextSort(images)
<1>1. \A i \in images : i.sort \in Nat /\ i.sort < Cardinality(Stored)
  BY DEF ImageTypes, ImageRecords, CountInv
<1>2. /\ NextSort(images) \in Nat /\ NextSort(images) <= Cardinality(Stored)
      /\ \A i \in images : i.sort < NextSort(images)
  BY <1>1, StoredIsFinite, NextSortIsAbove
<1> QED BY <1>2 DEF ImageTypes, UploadRecords, ReadLastSort, OnlyMoves

LEMMA StoreFileMoves ==
  ASSUME ImageTypes, NEW u \in Uploads, StoreFile(u)
  PROVE  /\ OnlyMoves(u) /\ upload[u].step = "storing"
         /\ upload'[u].step = "saving" /\ upload'[u].nth = upload[u].nth
         /\ upload'[u].sort = upload[u].sort /\ upload'[u].seen = upload[u].seen
         /\ upload'[u].key = KeyNow(Files[u][upload[u].nth])
         /\ KeyNow(Files[u][upload[u].nth]) \in Keys
         /\ <<u, upload[u].nth>> \in FileIds
<1>1. Files[u][upload[u].nth] \in Names /\ <<u, upload[u].nth>> \in FileIds
  BY FilesOf DEF ImageTypes
<1>2. KeyNow(Files[u][upload[u].nth]) \in Keys
  BY <1>1 DEF KeyNow, Keys, ImageTypes
<1> QED BY <1>1, <1>2 DEF ImageTypes, UploadRecords, StoreFile, OnlyMoves

\* The image that upload u inserts.
NewImage(u) ==
    [file |-> <<u, upload[u].nth>>, key |-> upload[u].key, sort |-> upload[u].sort]

LEMMA InsertImageMoves ==
  ASSUME ImageTypes, NEW u \in Uploads, InsertImage(u)
  PROVE  /\ OnlyMoves(u) /\ upload[u].step = "saving"
         /\ images' = images \cup {NewImage(u)}
         /\ upload'[u].seen = upload[u].seen
         /\ \/ /\ upload'[u].step = "storing" /\ upload'[u].nth = upload[u].nth + 1
               /\ upload[u].nth + 1 \in DOMAIN Files[u]
               /\ upload'[u].sort = upload[u].sort + 1
            \/ /\ upload'[u].step = "saved" /\ upload'[u].nth = upload[u].nth
               /\ upload'[u].sort = upload[u].sort
<1>1. upload[u] \in UploadRecords /\ upload[u].nth \in Nat /\ upload[u].sort \in Nat
  BY DEF ImageTypes, UploadRecords
<1>2. CASE upload[u].nth + 1 \in DOMAIN Files[u]
  BY <1>1, <1>2 DEF ImageTypes, UploadRecords, InsertImage, OnlyMoves, NewImage
<1>3. CASE upload[u].nth + 1 \notin DOMAIN Files[u]
  BY <1>1, <1>3 DEF ImageTypes, UploadRecords, InsertImage, OnlyMoves, NewImage
<1> QED BY <1>2, <1>3

LEMMA UploadFailsMoves ==
  ASSUME ImageTypes, NEW u \in Uploads, UploadFails(u)
  PROVE  /\ OnlyMoves(u) /\ upload[u].step \in {"found", "storing", "saving"}
         /\ upload'[u].step = "failed" /\ upload'[u].nth = upload[u].nth
         /\ upload'[u].seen = upload[u].seen /\ upload'[u].sort = upload[u].sort
BY DEF ImageTypes, UploadRecords, UploadFails, OnlyMoves, Running

\* The new image has its type.
LEMMA NewImageType ==
  ASSUME ImageTypes, KeysInv, NEW u \in Uploads, upload[u].step = "saving"
  PROVE  /\ NewImage(u) \in ImageRecords
         /\ NewImage(u).file[1] = u /\ NewImage(u).file[2] = upload[u].nth
         /\ NewImage(u).sort = upload[u].sort
<1>1. <<u, upload[u].nth>> \in FileIds
  BY FilesOf DEF ImageTypes
<1>2. upload[u] \in UploadRecords /\ upload[u].key \in Keys
  BY DEF ImageTypes, KeysInv
<1> QED BY <1>1, <1>2 DEF NewImage, ImageRecords, UploadRecords

-----------------------------------------------------------------------------
(* Images: every step preserves each part.                                 *)

LEMMA ImageTypesStep == ASSUME ImagesInv, ImagesStep PROVE ImageTypes'
<1>0. ImageTypes /\ KeysInv /\ CountInv
  BY DEF ImagesInv
<1>1. ASSUME NEW u \in Uploads, FindOwner(u) PROVE ImageTypes'
  <2>1. overlapped' \subseteq Uploads \X Uploads
    BY <1>0, <1>1 DEF ImageTypes, FindOwner, Running
  <2>2. 1 \in DOMAIN Files[u]
    BY FilesOf
  <2> QED BY <1>0, <1>1, <2>1, <2>2, FindOwnerMoves DEF ImageTypes, FindOwner, OnlyMoves
<1>2. ASSUME NEW u \in Uploads, ReadLastSort(u) PROVE ImageTypes'
  BY <1>0, <1>2, ReadLastSortMoves DEF ImageTypes, ReadLastSort, OnlyMoves
<1>3. ASSUME NEW u \in Uploads, StoreFile(u) PROVE ImageTypes'
  <2>1. PICK key \in Keys : key = KeyNow(Files[u][upload[u].nth])
    BY <1>0, <1>3, StoreFileMoves
  <2>2. <<u, upload[u].nth>> \in FileIds
    BY <1>0, <1>3, StoreFileMoves
  <2>3. object' \in [Keys -> FileIds \cup {NoObject}]
    BY <1>0, <1>3, <2>1, <2>2 DEF StoreFile, ImageTypes
  <2> QED BY <1>0, <1>3, <2>3, StoreFileMoves DEF ImageTypes, StoreFile, OnlyMoves
<1>4. ASSUME NEW u \in Uploads, InsertImage(u) PROVE ImageTypes'
  <2>1. NewImage(u) \in ImageRecords /\ OnlyMoves(u)
    BY <1>0, <1>4, InsertImageMoves, NewImageType
  <2>2. upload'[u].nth \in DOMAIN Files[u] /\ upload'[u].seen = upload[u].seen
    BY <1>0, <1>4, InsertImageMoves DEF ImageTypes
  <2>3. images' = images \cup {NewImage(u)}
    BY <1>0, <1>4, InsertImageMoves
  <2> QED BY <1>0, <1>4, <2>1, <2>2, <2>3 DEF ImageTypes, InsertImage, OnlyMoves
<1>5. ASSUME NEW u \in Uploads, UploadFails(u) PROVE ImageTypes'
  BY <1>0, <1>5, UploadFailsMoves DEF ImageTypes, UploadFails, OnlyMoves
<1>6. CASE MillisPass
  BY <1>0, <1>6, ImagesAssumption DEF ImageTypes, MillisPass
<1> QED BY <1>1, <1>2, <1>3, <1>4, <1>5, <1>6 DEF ImagesStep

LEMMA KeysInvStep == ASSUME ImagesInv, ImagesStep PROVE KeysInv'
<1>0. ImageTypes /\ KeysInv /\ CountInv
  BY DEF ImagesInv
<1>1. ASSUME NEW u \in Uploads, FindOwner(u) PROVE KeysInv'
  BY <1>0, <1>1, FindOwnerMoves DEF KeysInv, OnlyMoves
<1>2. ASSUME NEW u \in Uploads, ReadLastSort(u) PROVE KeysInv'
  BY <1>0, <1>2, ReadLastSortMoves DEF KeysInv, OnlyMoves
<1>3. ASSUME NEW u \in Uploads, StoreFile(u) PROVE KeysInv'
  BY <1>0, <1>3, StoreFileMoves DEF KeysInv, OnlyMoves
<1>4. ASSUME NEW u \in Uploads, InsertImage(u) PROVE KeysInv'
  BY <1>0, <1>4, InsertImageMoves DEF KeysInv, OnlyMoves
<1>5. ASSUME NEW u \in Uploads, UploadFails(u) PROVE KeysInv'
  BY <1>0, <1>5, UploadFailsMoves DEF KeysInv, OnlyMoves
<1>6. CASE MillisPass
  BY <1>0, <1>6 DEF KeysInv, MillisPass
<1> QED BY <1>1, <1>2, <1>3, <1>4, <1>5, <1>6 DEF ImagesStep

\* Orders and files of what is there are numbers.
LEMMA ImagesAreTyped ==
  ASSUME ImageTypes
  PROVE  /\ \A i \in images : /\ i.sort \in Nat /\ i.file[2] \in Nat
                              /\ i.file[1] \in Uploads /\ i.file = <<i.file[1], i.file[2]>>
         /\ \A u \in Uploads : /\ upload[u].sort \in Nat /\ upload[u].nth \in Nat
                               /\ \A j \in upload[u].seen : j \in images /\ j.sort \in Nat
BY FileIdOf DEF ImageTypes, ImageRecords, UploadRecords

LEMMA SortInvStep == ASSUME ImagesInv, ImagesStep PROVE SortInv'
<1>0. ImageTypes /\ KeysInv /\ CountInv /\ SortInv
  BY DEF ImagesInv
<1>1. ASSUME NEW u \in Uploads, FindOwner(u) PROVE SortInv'
  <2>1. images' = images /\ OnlyMoves(u) /\ upload[u].step = "none"
        /\ upload'[u].step = "found" /\ upload'[u].seen = {}
    BY <1>0, <1>1, FindOwnerMoves DEF FindOwner
  <2>2. \A i \in images : i.file[1] # u
    BY <1>0, <2>1 DEF SortInv
  <2> QED BY <1>0, <2>1, <2>2, ImagesAreTyped DEF SortInv, OnlyMoves, Inserting, Ascends
<1>2. ASSUME NEW u \in Uploads, ReadLastSort(u) PROVE SortInv'
  <2>1. images' = images /\ OnlyMoves(u) /\ upload[u].step = "found"
        /\ upload'[u].step = "storing" /\ upload'[u].seen = images
        /\ \A i \in images : i.sort < upload'[u].sort
    BY <1>0, <1>2, ReadLastSortMoves DEF ReadLastSort
  <2>2. \A i \in images : i.file[1] # u
    BY <1>0, <2>1 DEF SortInv
  <2> QED BY <1>0, <2>1, <2>2, ImagesAreTyped DEF SortInv, OnlyMoves, Inserting, Ascends
<1>3. ASSUME NEW u \in Uploads, StoreFile(u) PROVE SortInv'
  <2>1. images' = images /\ OnlyMoves(u) /\ upload[u].step = "storing"
        /\ upload'[u].step = "saving" /\ upload'[u].seen = upload[u].seen
        /\ upload'[u].sort = upload[u].sort /\ upload'[u].nth = upload[u].nth
    BY <1>0, <1>3, StoreFileMoves DEF StoreFile
  <2> QED BY <1>0, <2>1, ImagesAreTyped DEF SortInv, OnlyMoves, Inserting, Ascends
<1>4. ASSUME NEW u \in Uploads, InsertImage(u) PROVE SortInv'
  <2>1. PICK new \in ImageRecords : /\ images' = images \cup {new} /\ new.file[1] = u
                                    /\ new.file[2] = upload[u].nth /\ new.sort = upload[u].sort
    BY <1>0, <1>4, InsertImageMoves, NewImageType
  <2>2. OnlyMoves(u) /\ upload'[u].seen = upload[u].seen /\ upload[u].step = "saving"
    BY <1>0, <1>4, InsertImageMoves
  <2>3. Ascends(u)
    BY <1>0, <2>2 DEF SortInv, Inserting
  <2>4. ASSUME NEW v \in Uploads, Inserting(v)' PROVE Ascends(v)'
    <3>1. CASE v = u
      <4>1. upload'[u].nth = upload[u].nth + 1 /\ upload'[u].sort = upload[u].sort + 1
        BY <1>0, <1>4, <2>4, <3>1, InsertImageMoves DEF Inserting
      <4> QED BY <1>0, <2>1, <2>2, <2>3, <3>1, <4>1, ImagesAreTyped DEF Ascends
    <3>2. CASE v # u
      <4>1. upload'[v] = upload[v]
        BY <2>2, <3>2 DEF OnlyMoves
      <4>2. Ascends(v)
        BY <1>0, <2>4, <4>1 DEF SortInv, Inserting
      <4> QED BY <2>1, <3>2, <4>1, <4>2 DEF Ascends
    <3> QED BY <3>1, <3>2
  <2>5. \A i \in images' : upload'[i.file[1]].step \notin {"none", "found"}
    <3>1. upload'[u].step \notin {"none", "found"}
      BY <1>0, <1>4, InsertImageMoves
    <3> QED BY <1>0, <2>1, <2>2, <3>1, ImagesAreTyped DEF SortInv, OnlyMoves
  <2>6. \A i \in images' : \A j \in upload'[i.file[1]].seen : j.sort < i.sort
    BY <1>0, <2>1, <2>2, <2>3, ImagesAreTyped DEF SortInv, OnlyMoves, Ascends
  <2>7. \A i, j \in images' : i.file[1] = j.file[1] /\ i.file # j.file => i.sort # j.sort
    <3>1. \A i \in images : i.file[1] = u => i.sort # new.sort
      BY <1>0, <2>1, <2>3, ImagesAreTyped DEF Ascends
    <3> QED BY <1>0, <2>1, <3>1 DEF SortInv
  <2> QED BY <2>4, <2>5, <2>6, <2>7 DEF SortInv
<1>5. ASSUME NEW u \in Uploads, UploadFails(u) PROVE SortInv'
  <2>1. images' = images /\ OnlyMoves(u) /\ upload'[u].step = "failed"
        /\ upload'[u].seen = upload[u].seen
    BY <1>0, <1>5, UploadFailsMoves DEF UploadFails
  <2> QED BY <1>0, <2>1, ImagesAreTyped DEF SortInv, OnlyMoves, Inserting, Ascends
<1>6. CASE MillisPass
  BY <1>0, <1>6 DEF SortInv, MillisPass, Inserting, Ascends
<1> QED BY <1>1, <1>2, <1>3, <1>4, <1>5, <1>6 DEF ImagesStep

LEMMA MetInvStep == ASSUME ImagesInv, ImagesStep PROVE MetInv'
<1>0. ImageTypes /\ KeysInv /\ CountInv /\ SortInv /\ MetInv
  BY DEF ImagesInv
<1>1. ASSUME NEW u \in Uploads, FindOwner(u) PROVE MetInv'
  <2>1. images' = images /\ OnlyMoves(u) /\ upload[u].step = "none"
        /\ upload'[u].step = "found"
        /\ overlapped' = overlapped \cup (Running \X {u}) \cup ({u} \X Running)
    BY <1>0, <1>1, FindOwnerMoves DEF FindOwner
  <2>2. \A i \in images : i.file[1] # u
    BY <1>0, <2>1 DEF SortInv
  <2>3. Running' = Running \cup {u}
    BY <2>1 DEF Running, OnlyMoves
  <2>4. \A v, w \in Uploads : <<v, w>> \in overlapped' => <<w, v>> \in overlapped'
    BY <1>0, <2>1 DEF MetInv, Running
  <2>5. \A v, w \in Running' : v # w => <<v, w>> \in overlapped'
    BY <1>0, <2>1, <2>3 DEF MetInv
  <2>6. \A v \in Uploads : Inserting(v)' => Inserting(v) /\ upload'[v].seen = upload[v].seen
    BY <2>1 DEF Inserting, OnlyMoves
  <2>7. \A i \in images : upload'[i.file[1]].seen = upload[i.file[1]].seen
    BY <1>0, <2>1, <2>2, ImagesAreTyped DEF OnlyMoves
  <2> QED BY <1>0, <2>1, <2>4, <2>5, <2>6, <2>7 DEF MetInv
<1>2. ASSUME NEW u \in Uploads, ReadLastSort(u) PROVE MetInv'
  <2>1. images' = images /\ overlapped' = overlapped /\ OnlyMoves(u)
        /\ upload[u].step = "found" /\ upload'[u].step = "storing" /\ upload'[u].seen = images
    BY <1>0, <1>2, ReadLastSortMoves DEF ReadLastSort
  <2>2. \A i \in images : i.file[1] # u
    BY <1>0, <2>1 DEF SortInv
  <2>3. Running' = Running
    BY <2>1 DEF Running, OnlyMoves
  <2>4. \A i \in images : upload'[i.file[1]].seen = upload[i.file[1]].seen
    BY <1>0, <2>1, <2>2, ImagesAreTyped DEF OnlyMoves
  <2> QED BY <1>0, <2>1, <2>3, <2>4 DEF MetInv, Inserting, OnlyMoves
<1>3. ASSUME NEW u \in Uploads, StoreFile(u) PROVE MetInv'
  <2>1. images' = images /\ overlapped' = overlapped /\ OnlyMoves(u)
        /\ upload[u].step = "storing" /\ upload'[u].step = "saving"
        /\ upload'[u].seen = upload[u].seen
    BY <1>0, <1>3, StoreFileMoves DEF StoreFile
  <2>2. Running' = Running
    BY <2>1 DEF Running, OnlyMoves
  <2>3. \A v \in Uploads : /\ upload'[v].seen = upload[v].seen
                           /\ Inserting(v)' => Inserting(v)
    BY <2>1 DEF OnlyMoves, Inserting
  <2> QED BY <1>0, <2>1, <2>2, <2>3, ImagesAreTyped DEF MetInv
<1>4. ASSUME NEW u \in Uploads, InsertImage(u) PROVE MetInv'
  <2>1. PICK new \in ImageRecords : images' = images \cup {new} /\ new.file[1] = u
    BY <1>0, <1>4, InsertImageMoves, NewImageType
  <2>2. OnlyMoves(u) /\ upload'[u].seen = upload[u].seen /\ upload[u].step = "saving"
        /\ upload'[u].step \in {"storing", "saved"} /\ overlapped' = overlapped
    BY <1>0, <1>4, InsertImageMoves DEF InsertImage
  <2>3. Running' \subseteq Running /\ u \in Running
    BY <2>2 DEF Running, OnlyMoves
  <2>4. \A v \in Uploads : /\ upload'[v].seen = upload[v].seen
                           /\ Inserting(v)' => Inserting(v) /\ v \in Running
    BY <2>2 DEF OnlyMoves, Inserting, Running
  <2>5. ASSUME NEW v \in Uploads, Inserting(v)', NEW i \in images'
        PROVE  \/ i.file[1] = v \/ i \in upload'[v].seen
               \/ <<i.file[1], v>> \in overlapped
    <3>1. CASE i \in images
      BY <1>0, <2>4, <2>5, <3>1 DEF MetInv
    <3>2. CASE i = new
      <4>1. v \in Running
        BY <2>4, <2>5
      <4> QED BY <1>0, <2>1, <2>3, <3>2, <4>1 DEF MetInv
    <3> QED BY <2>1, <3>1, <3>2
  <2>6. \A j \in images : \/ u = j.file[1] \/ j \in upload[u].seen
                          \/ <<j.file[1], u>> \in overlapped /\ <<u, j.file[1]>> \in overlapped
    <3>1. Inserting(u)
      BY <2>2 DEF Inserting
    <3> QED BY <1>0, <3>1, ImagesAreTyped DEF MetInv
  <2>7. \A i, j \in images' : \/ i.file[1] = j.file[1] \/ i \in upload'[j.file[1]].seen
                              \/ j \in upload'[i.file[1]].seen
                              \/ <<i.file[1], j.file[1]>> \in overlapped
    <3>1. \A i, j \in images : \/ i.file[1] = j.file[1] \/ i \in upload'[j.file[1]].seen
                               \/ j \in upload'[i.file[1]].seen
                               \/ <<i.file[1], j.file[1]>> \in overlapped
      BY <1>0, <2>4, ImagesAreTyped DEF MetInv
    <3> QED BY <2>1, <2>4, <2>6, <3>1
  <2> QED BY <1>0, <2>2, <2>3, <2>5, <2>7 DEF MetInv
<1>5. ASSUME NEW u \in Uploads, UploadFails(u) PROVE MetInv'
  <2>1. images' = images /\ overlapped' = overlapped /\ OnlyMoves(u)
        /\ upload'[u].step = "failed" /\ upload'[u].seen = upload[u].seen
    BY <1>0, <1>5, UploadFailsMoves DEF UploadFails
  <2>2. Running' \subseteq Running
    BY <2>1 DEF Running, OnlyMoves
  <2>3. \A v \in Uploads : /\ upload'[v].seen = upload[v].seen
                           /\ Inserting(v)' => Inserting(v)
    BY <2>1 DEF OnlyMoves, Inserting
  <2> QED BY <1>0, <2>1, <2>2, <2>3, ImagesAreTyped DEF MetInv
<1>6. CASE MillisPass
  BY <1>0, <1>6 DEF MetInv, MillisPass, Inserting, Running
<1> QED BY <1>1, <1>2, <1>3, <1>4, <1>5, <1>6 DEF ImagesStep

\* An insert adds one file and needs one order more.
LEMMA CountInvStep == ASSUME ImagesInv, ImagesStep PROVE CountInv'
<1>0. ImageTypes /\ KeysInv /\ CountInv /\ SortInv
  BY DEF ImagesInv
<1>1. ASSUME NEW u \in Uploads, OnlyMoves(u), images' = images,
             upload'[u].sort = upload[u].sort \/ upload'[u].sort <= Cardinality(Stored)
      PROVE  CountInv'
  <2>1. Stored' = Stored
    BY <1>1 DEF Stored
  <2> QED BY <1>0, <1>1, <2>1 DEF CountInv, OnlyMoves
<1>2. ASSUME NEW u \in Uploads, FindOwner(u) PROVE CountInv'
  <2>1. OnlyMoves(u) /\ images' = images /\ upload'[u].sort = upload[u].sort
    BY <1>0, <1>2, FindOwnerMoves DEF FindOwner
  <2> QED BY <1>1, <2>1
<1>3. ASSUME NEW u \in Uploads, ReadLastSort(u) PROVE CountInv'
  <2>1. OnlyMoves(u) /\ images' = images /\ upload'[u].sort <= Cardinality(Stored)
    BY <1>0, <1>3, ReadLastSortMoves DEF ReadLastSort
  <2> QED BY <1>1, <2>1
<1>4. ASSUME NEW u \in Uploads, StoreFile(u) PROVE CountInv'
  <2>1. OnlyMoves(u) /\ images' = images /\ upload'[u].sort = upload[u].sort
    BY <1>0, <1>4, StoreFileMoves DEF StoreFile
  <2> QED BY <1>1, <2>1
<1>5. ASSUME NEW u \in Uploads, InsertImage(u) PROVE CountInv'
  <2>1. PICK new \in ImageRecords : /\ images' = images \cup {new} /\ new.file[1] = u
                                    /\ new.file[2] = upload[u].nth /\ new.sort = upload[u].sort
    BY <1>0, <1>5, InsertImageMoves, NewImageType
  <2>2. OnlyMoves(u) /\ Inserting(u)
        /\ upload'[u].sort \in {upload[u].sort, upload[u].sort + 1}
    BY <1>0, <1>5, InsertImageMoves DEF Inserting
  <2>3. Stored' = Stored \cup {new.file}
    BY <2>1 DEF Stored
  <2>4. new.file \notin Stored
    BY <1>0, <2>1, <2>2, ImagesAreTyped DEF SortInv, Ascends, Stored
  <2>5. Cardinality(Stored) \in Nat /\ Cardinality(Stored') = Cardinality(Stored) + 1
    BY <1>0, <2>3, <2>4, StoredIsFinite, FS_AddElement
  <2>6. upload[u].sort \in Nat /\ upload[u].sort <= Cardinality(Stored)
    BY <1>0, <2>2, ImagesAreTyped DEF CountInv
  <2>7. \A i \in images' : i.sort < Cardinality(Stored')
    BY <1>0, <2>1, <2>5, <2>6, ImagesAreTyped DEF CountInv
  <2>8. ASSUME NEW v \in Uploads PROVE upload'[v].sort <= Cardinality(Stored')
    <3>1. CASE v = u
      BY <2>2, <2>5, <2>6, <3>1
    <3>2. CASE v # u
      <4>1. upload'[v] = upload[v]
        BY <2>2, <3>2 DEF OnlyMoves
      <4> QED BY <1>0, <2>5, <4>1, ImagesAreTyped DEF CountInv
    <3> QED BY <3>1, <3>2
  <2> QED BY <2>7, <2>8 DEF CountInv
<1>6. ASSUME NEW u \in Uploads, UploadFails(u) PROVE CountInv'
  <2>1. OnlyMoves(u) /\ images' = images /\ upload'[u].sort = upload[u].sort
    BY <1>0, <1>6, UploadFailsMoves DEF UploadFails
  <2> QED BY <1>1, <2>1
<1>7. CASE MillisPass
  BY <1>0, <1>7 DEF CountInv, MillisPass, Stored
<1> QED BY <1>2, <1>3, <1>4, <1>5, <1>6, <1>7 DEF ImagesStep

LEMMA ImagesInvInit == ASSUME ImagesInit PROVE ImagesInv
<1>1. ASSUME NEW u \in Uploads
      PROVE  /\ upload[u] = NoUpload /\ upload[u] \in UploadRecords
             /\ upload[u].nth \in DOMAIN Files[u] /\ upload[u].step = "none"
             /\ upload[u].seen = {} /\ upload[u].sort = 0
  BY ImagesAssumption, FilesOf DEF ImagesInit, NoUpload, UploadRecords
<1>2. ImageTypes
  BY <1>1, ImagesAssumption DEF ImagesInit, ImageTypes
<1>3. KeysInv /\ SortInv /\ MetInv
  BY <1>1 DEF ImagesInit, KeysInv, SortInv, MetInv, Inserting, Running
<1>4. CountInv
  BY <1>1, <1>2, StoredIsFinite DEF ImagesInit, CountInv
<1> QED BY <1>2, <1>3, <1>4 DEF ImagesInv

LEMMA ImagesInvStep == ASSUME ImagesInv, ImagesStep PROVE ImagesInv'
BY ImageTypesStep, KeysInvStep, SortInvStep, MetInvStep, CountInvStep DEF ImagesInv

LEMMA ImagesInvUnchanged == ASSUME ImagesInv, UNCHANGED imagesVars PROVE ImagesInv'
BY DEF imagesVars, ImagesInv, ImageTypes, KeysInv, SortInv, MetInv, CountInv, Ascends,
       Inserting, Running, Stored

\* What the invariant says of the images and of their types.
LEMMA ImagesInvMeans ==
  ASSUME ImagesInv
  PROVE  ImagesTypeOK /\ OrderIsKept
<1>0. ImageTypes /\ KeysInv /\ SortInv /\ MetInv /\ CountInv
  BY DEF ImagesInv
<1>1. ImagesTypeOK
  <2>1. \A i \in images : i.sort \in 0..Cardinality(FileIds) - 1
    BY <1>0, StoredIsFinite, ImagesAreTyped, FilesAreFinite, FS_CardinalityType DEF CountInv
  <2>2. \A u \in Uploads : upload[u].sort \in 0..Cardinality(FileIds)
    BY <1>0, StoredIsFinite, ImagesAreTyped, FilesAreFinite, FS_CardinalityType DEF CountInv
  <2> QED BY <1>0, <2>1, <2>2 DEF ImageTypes, ImageRecords, UploadRecords, ImagesTypeOK
<1>2. OrderIsKept
  <2>1. ASSUME NEW i \in images, NEW j \in images, i.file # j.file, i.sort = j.sort
        PROVE  <<i.file[1], j.file[1]>> \in overlapped
    BY <1>0, <2>1, ImagesAreTyped DEF SortInv, MetInv
  <2> QED BY <1>0, <2>1 DEF SortInv, OrderIsKept
<1> QED BY <1>1, <1>2

-----------------------------------------------------------------------------
(* Pages: what the table of pages says.                                    *)

\* A mutation writes what queries of its page read, and invalidates all of it
\* but what panels read.
Fits(m, page) ==
    /\ m.writes \subseteq page.queries \cup page.panels
    /\ \A k \in m.writes \cap page.queries : \E prefix \in m.invalidates : IsPrefix(prefix, k)

\* Of keys with one and with two parts.
LEMMA OneOfOne == \A a : IsPrefix(<<a>>, <<a>>)
BY DEF IsPrefix

LEMMA PrefixOfTwo == \A a, b : IsPrefix(<<a>>, <<a, b>>) /\ IsPrefix(<<a, b>>, <<a, b>>)
BY DEF IsPrefix

\* The mutations of a list page write and invalidate its one key.
LEMMA ListPageFits ==
  ASSUME NEW key, IsPrefix(key, key), NEW page, page = ListPage(key, page.mutations),
         \A m \in page.mutations : \E needs, n : m = Mutation(needs, {key}, {key}, n)
  PROVE  \A m \in page.mutations : Fits(m, page)
BY DEF Fits, ListPage, Mutation

LEMMA ListPagesFit ==
  \A page \in {CustomersPage, UsersPage, SmsTemplatesPage, SupportPage, TenantsPage,
               BrandingPage, ListingDetailPage, FbLeadsPage, SearchPage} :
      \A m \in page.mutations : Fits(m, page)
<1>1. \A m \in CustomersPage.mutations : Fits(m, CustomersPage)
  <2>1. IsPrefix(Customers, Customers)
    BY OneOfOne, PrefixOfTwo DEF Customers
  <2>2. \A m \in CustomersPage.mutations : \E needs, n : m = Mutation(needs, {Customers}, {Customers}, n)
    BY DEF CustomersPage, Form, RowButton, ListPage
  <2>3. CustomersPage = ListPage(Customers, CustomersPage.mutations)
    BY DEF CustomersPage, ListPage
  <2> QED BY <2>1, <2>2, <2>3, ListPageFits
<1>2. \A m \in UsersPage.mutations : Fits(m, UsersPage)
  <2>1. IsPrefix(Users, Users)
    BY OneOfOne, PrefixOfTwo DEF Users
  <2>2. \A m \in UsersPage.mutations : \E needs, n : m = Mutation(needs, {Users}, {Users}, n)
    BY DEF UsersPage, Form, RowButton, ListPage
  <2>3. UsersPage = ListPage(Users, UsersPage.mutations)
    BY DEF UsersPage, ListPage
  <2> QED BY <2>1, <2>2, <2>3, ListPageFits
<1>3. \A m \in SmsTemplatesPage.mutations : Fits(m, SmsTemplatesPage)
  <2>1. IsPrefix(SmsTemplates, SmsTemplates)
    BY OneOfOne, PrefixOfTwo DEF SmsTemplates
  <2>2. \A m \in SmsTemplatesPage.mutations : \E needs, n : m = Mutation(needs, {SmsTemplates}, {SmsTemplates}, n)
    BY DEF SmsTemplatesPage, Form, RowButton, ListPage
  <2>3. SmsTemplatesPage = ListPage(SmsTemplates, SmsTemplatesPage.mutations)
    BY DEF SmsTemplatesPage, ListPage
  <2> QED BY <2>1, <2>2, <2>3, ListPageFits
<1>4. \A m \in SupportPage.mutations : Fits(m, SupportPage)
  <2>1. IsPrefix(SupportTickets, SupportTickets)
    BY OneOfOne, PrefixOfTwo DEF SupportTickets
  <2>2. \A m \in SupportPage.mutations : \E needs, n : m = Mutation(needs, {SupportTickets}, {SupportTickets}, n)
    BY DEF SupportPage, Form, RowButton, ListPage
  <2>3. SupportPage = ListPage(SupportTickets, SupportPage.mutations)
    BY DEF SupportPage, ListPage
  <2> QED BY <2>1, <2>2, <2>3, ListPageFits
<1>5. \A m \in TenantsPage.mutations : Fits(m, TenantsPage)
  <2>1. IsPrefix(Tenants, Tenants)
    BY OneOfOne, PrefixOfTwo DEF Tenants
  <2>2. \A m \in TenantsPage.mutations : \E needs, n : m = Mutation(needs, {Tenants}, {Tenants}, n)
    BY DEF TenantsPage, Form, RowButton, ListPage
  <2>3. TenantsPage = ListPage(Tenants, TenantsPage.mutations)
    BY DEF TenantsPage, ListPage
  <2> QED BY <2>1, <2>2, <2>3, ListPageFits
<1>6. \A m \in BrandingPage.mutations : Fits(m, BrandingPage)
  <2>1. IsPrefix(Tenant, Tenant)
    BY OneOfOne, PrefixOfTwo DEF Tenant
  <2>2. \A m \in BrandingPage.mutations : \E needs, n : m = Mutation(needs, {Tenant}, {Tenant}, n)
    BY DEF BrandingPage, Form, RowButton, ListPage
  <2>3. BrandingPage = ListPage(Tenant, BrandingPage.mutations)
    BY DEF BrandingPage, ListPage
  <2> QED BY <2>1, <2>2, <2>3, ListPageFits
<1>7. \A m \in ListingDetailPage.mutations : Fits(m, ListingDetailPage)
  <2>1. IsPrefix(Reviews, Reviews)
    BY OneOfOne, PrefixOfTwo DEF Reviews
  <2>2. \A m \in ListingDetailPage.mutations : \E needs, n : m = Mutation(needs, {Reviews}, {Reviews}, n)
    BY DEF ListingDetailPage, Form, RowButton, ListPage
  <2>3. ListingDetailPage = ListPage(Reviews, ListingDetailPage.mutations)
    BY DEF ListingDetailPage, ListPage
  <2> QED BY <2>1, <2>2, <2>3, ListPageFits
<1>8. \A m \in FbLeadsPage.mutations : Fits(m, FbLeadsPage)
  <2>1. IsPrefix(FbStatus, FbStatus)
    BY OneOfOne, PrefixOfTwo DEF FbStatus
  <2>2. \A m \in FbLeadsPage.mutations : \E needs, n : m = Mutation(needs, {FbStatus}, {FbStatus}, n)
    BY DEF FbLeadsPage, Form, RowButton, ListPage
  <2>3. FbLeadsPage = ListPage(FbStatus, FbLeadsPage.mutations)
    BY DEF FbLeadsPage, ListPage
  <2> QED BY <2>1, <2>2, <2>3, ListPageFits
<1>9. \A m \in SearchPage.mutations : Fits(m, SearchPage)
  <2>1. IsPrefix(Favorites, Favorites)
    BY OneOfOne, PrefixOfTwo DEF Favorites
  <2>2. \A m \in SearchPage.mutations : \E needs, n : m = Mutation(needs, {Favorites}, {Favorites}, n)
    BY DEF SearchPage, Form, RowButton, ListPage
  <2>3. SearchPage = ListPage(Favorites, SearchPage.mutations)
    BY DEF SearchPage, ListPage
  <2> QED BY <2>1, <2>2, <2>3, ListPageFits
<1> QED BY <1>1, <1>2, <1>3, <1>4, <1>5, <1>6, <1>7, <1>8, <1>9

LEMMA OtherPagesFit ==
  \A page \in {ListingsPage, ImagesPanel, SubscriptionPage, FavoritesPage} :
      \A m \in page.mutations : Fits(m, page)
<1>1. \A m \in ListingsPage.mutations : Fits(m, ListingsPage)
  <2>1. IsPrefix(<<"listings">>, Listings)
    BY OneOfOne, PrefixOfTwo DEF Listings
  <2>2. Listings # Availability
    BY DEF Listings, Availability
  <2> QED BY <2>1, <2>2 DEF Fits, ListingsPage, Mutation
<1>2. \A m \in ImagesPanel.mutations : Fits(m, ImagesPanel)
  BY DEF Fits, ImagesPanel, Form, Mutation
<1>3. \A m \in SubscriptionPage.mutations : Fits(m, SubscriptionPage)
  <2>1. IsPrefix(<<"subscription">>, CurrentPlan)
    BY OneOfOne, PrefixOfTwo DEF CurrentPlan
  <2> QED BY <2>1 DEF Fits, SubscriptionPage, Mutation
<1>4. \A m \in FavoritesPage.mutations : Fits(m, FavoritesPage)
  <2>1. IsPrefix(Favorites, Favorites) /\ IsPrefix(FavoriteListings, FavoriteListings)
    BY OneOfOne, PrefixOfTwo DEF Favorites, FavoriteListings
  <2> QED BY <2>1 DEF Fits, FavoritesPage, Mutation
<1> QED BY <1>1, <1>2, <1>3, <1>4

LEMMA PagesFit == \A r \in Routes : \A m \in Page[r].mutations : Fits(m, Page[r])
<1>1. ASSUME NEW r \in Routes
      PROVE  Page[r] \in {CustomersPage, UsersPage, SmsTemplatesPage, SupportPage, TenantsPage,
                         BrandingPage, ListingDetailPage, FbLeadsPage, SearchPage,
                         ListingsPage, ImagesPanel, SubscriptionPage, FavoritesPage}
  BY RoutesAssumption DEF Page
<1> QED BY <1>1, ListPagesFit, OtherPagesFit

\* No panel shows a query of its page.
LEMMA PanelsApart == \A r \in Routes : Page[r].queries \cap Page[r].panels = {}
<1>1. \A key, M : ListPage(key, M).panels = {}
  BY DEF ListPage
<1>2. /\ CustomersPage.panels = {} /\ UsersPage.panels = {} /\ SmsTemplatesPage.panels = {}
      /\ SupportPage.panels = {} /\ TenantsPage.panels = {} /\ BrandingPage.panels = {}
      /\ ListingDetailPage.panels = {} /\ FbLeadsPage.panels = {} /\ SearchPage.panels = {}
  BY <1>1 DEF CustomersPage, UsersPage, SmsTemplatesPage, SupportPage, TenantsPage, BrandingPage,
              ListingDetailPage, FbLeadsPage, SearchPage
<1>3. SubscriptionPage.panels = {} /\ FavoritesPage.panels = {} /\ ImagesPanel.queries = {}
  BY DEF SubscriptionPage, FavoritesPage, ImagesPanel
<1>4. ListingsPage.queries \cap ListingsPage.panels = {}
  BY DEF ListingsPage, Listings, Availability
<1> QED BY <1>2, <1>3, <1>4, RoutesAssumption DEF Page

-----------------------------------------------------------------------------
(* Pages: the inductive invariant.                                         *)

Versions == 0..MaxVersion

Loads == [step : {"none", "sent", "answered"}, version : Versions]

CallRecords ==
    [mutation : Page[route].mutations \cup {NoData}, step : {"none", "sent", "done"},
     told : {<<>>} \cup UNION {[K -> Versions] : K \in SUBSET QueryKeys}]

PageTypes ==
    /\ route \in Routes
    /\ version \in [QueryKeys -> Versions]
    /\ data \in [QueryKeys -> Versions \cup {NoData}]
    /\ stale \subseteq QueryKeys
    /\ loading \in [QueryKeys -> Loads]
    /\ Page[route].queries \subseteq open /\ open \subseteq QueryKeys
    /\ call \in [Slots -> CallRecords]
    /\ own \in [QueryKeys -> Versions]
    /\ missed \in [QueryKeys -> {"no", "first load", "closed", "not named"}]
    /\ loadFailures \in 0..MaxLoadFailures

\* What call c is told is no newer than the versions v of the server.
Told(c, v) ==
    /\ c.step = "none" => c = NoCall
    /\ c.step # "none" => c.mutation \in Page[route].mutations
    /\ c.step = "done" => /\ c.told \in [c.mutation.writes -> Versions]
                         /\ \A k \in c.mutation.writes : c.told[k] <= v[k]

\* Unless it is known why not, the own changes are in the data, or the data
\* are marked, and they are in what a fetch has read.
Fresh(k) ==
    /\ k \in stale \/ data[k] = NoData \/ data[k] >= own[k]
    /\ loading[k].step = "answered" => loading[k].version >= own[k]

FreshInv ==
    /\ \A k \in QueryKeys : own[k] <= version[k] /\ (missed[k] = "no" => Fresh(k))
    /\ \A k \in Page[route].queries : missed[k] \in {"no", "first load"}

PagesInv == PageTypes /\ (\A s \in Slots : Told(call[s], version)) /\ FreshInv

LEMMA KeysStay ==
  ASSUME UNCHANGED route
  PROVE  QueryKeys' = QueryKeys /\ CallRecords' = CallRecords
BY DEF QueryKeys, CallRecords

LEMMA RouteFits ==
  ASSUME PageTypes, NEW m \in Page[route].mutations
  PROVE  m.writes \subseteq QueryKeys /\ Fits(m, Page[route])
BY PagesFit DEF PageTypes, Fits, QueryKeys

LEMMA LargerOfTwo ==
  ASSUME NEW a \in Nat, NEW b \in Nat
  PROVE  Max({a, b}) \in {a, b} /\ Max({a, b}) >= a /\ Max({a, b}) >= b
<1>1. \E x \in {a, b} : \A y \in {a, b} : x >= y
  OBVIOUS
<1>2. PICK S : S = {a, b}
  OBVIOUS
<1>3. Max(S) \in S /\ \A y \in S : Max(S) >= y
  BY <1>1, <1>2 DEF Max
<1>4. PICK m : m = Max(S) /\ m \in S /\ \A y \in S : m >= y
  BY <1>3
<1> QED BY <1>2, <1>4

-----------------------------------------------------------------------------
(* Pages: fetches.                                                         *)

\* What a fetch that begins for some queries, of those that need one, keeps.
LEMMA FetchesBegin ==
  ASSUME PagesInv, NEW keys \in SUBSET QueryKeys, NEW wanted, wanted = Wanted(keys),
         loading' = Sent(loading, wanted), missed' = Forget(wanted),
         UNCHANGED <<route, version, data, stale, own>>
  PROVE  /\ FreshInv'
         /\ loading' \in [QueryKeys -> Loads]
         /\ missed' \in [QueryKeys -> {"no", "first load", "closed", "not named"}]
<1>0. PageTypes /\ FreshInv /\ QueryKeys' = QueryKeys
  BY KeysStay DEF PagesInv
<1>1. [NotLoading EXCEPT !.step = "sent"] \in Loads /\ [NotLoading EXCEPT !.step = "sent"].step = "sent"
  BY PagesAssumption DEF NotLoading, Loads, Versions
<1>2. \A k \in QueryKeys :
         /\ k \in wanted => loading'[k].step = "sent" /\ missed'[k] = "no"
         /\ k \notin wanted => loading'[k] = loading[k] /\ missed'[k] = missed[k]
  BY <1>1 DEF Sent, Forget
<1>3. loading' \in [QueryKeys -> Loads]
  BY <1>0, <1>1 DEF Sent, PageTypes
<1>4. missed' \in [QueryKeys -> {"no", "first load", "closed", "not named"}]
  BY <1>0 DEF Forget, PageTypes
<1>5. \A k \in wanted : k \in stale \/ data[k] = NoData
  BY DEF Wanted
<1>6. ASSUME NEW k \in QueryKeys
      PROVE  own'[k] <= version'[k] /\ (missed'[k] = "no" => Fresh(k)')
  <2>1. own'[k] <= version'[k]
    BY <1>0 DEF FreshInv
  <2>2. CASE k \in wanted
    BY <1>2, <1>5, <2>1, <2>2 DEF Fresh
  <2>3. CASE k \notin wanted
    BY <1>0, <1>2, <2>1, <2>3 DEF FreshInv, Fresh
  <2> QED BY <2>2, <2>3
<1>7. \A k \in Page[route].queries : missed'[k] \in {"no", "first load"}
  BY <1>0, <1>2 DEF FreshInv, QueryKeys
<1> QED BY <1>0, <1>3, <1>4, <1>6, <1>7 DEF FreshInv

\* The calls stay as they are.
LEMMA CallsStay ==
  ASSUME PagesInv, UNCHANGED <<route, version, call>>
  PROVE  \A s \in Slots : Told(call[s], version)'
BY DEF PagesInv, Told

LEMMA FetchesKeep ==
  ASSUME PagesInv, NEW k \in QueryKeys,
         \/ ServerReads(k) \/ DataArrives(k) \/ FetchFails(k) \/ GoStale(k)
         \/ OpenPanel(k) \/ ClosePanel(k)
  PROVE  PagesInv'
<1>0. PageTypes /\ FreshInv
  BY DEF PagesInv
<1>1. UNCHANGED <<route, version, call, own>>
  BY DEF ServerReads, DataArrives, FetchFails, GoStale, OpenPanel, ClosePanel
<1>2. /\ QueryKeys' = QueryKeys /\ CallRecords' = CallRecords
      /\ \A s \in Slots : Told(call[s], version)'
  BY <1>1, KeysStay, CallsStay
<1>3. NotLoading \in Loads /\ NotLoading.step = "none"
  BY PagesAssumption DEF NotLoading, Loads, Versions
<1>4. CASE ServerReads(k)
  <2>1. PICK load \in Loads : load = [step |-> "answered", version |-> version[k]]
    BY <1>0 DEF PageTypes, Loads
  <2>2. loading' = [loading EXCEPT ![k] = load] /\ UNCHANGED <<data, stale, open, missed, loadFailures>>
    BY <1>4, <2>1 DEF ServerReads
  <2>3. PageTypes'
    BY <1>0, <1>1, <1>2, <2>2 DEF PageTypes
  <2>4. \A j \in QueryKeys : missed[j] = "no" => Fresh(j)'
    BY <1>0, <1>1, <2>1, <2>2 DEF PageTypes, FreshInv, Fresh
  <2> QED BY <1>0, <1>1, <1>2, <2>2, <2>3, <2>4 DEF PagesInv, FreshInv
<1>5. CASE DataArrives(k)
  <2>1. /\ data' = [data EXCEPT ![k] = loading[k].version] /\ stale' = stale \ {k}
        /\ loading' = [loading EXCEPT ![k] = NotLoading] /\ loading[k].step = "answered"
        /\ UNCHANGED <<open, missed, loadFailures>>
    BY <1>5 DEF DataArrives
  <2>2. loading[k].version \in Versions
    BY <1>0 DEF PageTypes, Loads
  <2>3. PageTypes'
    BY <1>0, <1>1, <1>2, <1>3, <2>1, <2>2 DEF PageTypes
  <2>4. \A j \in QueryKeys : missed[j] = "no" => Fresh(j)'
    BY <1>0, <1>1, <1>3, <2>1 DEF PageTypes, FreshInv, Fresh
  <2> QED BY <1>0, <1>1, <1>2, <2>1, <2>3, <2>4 DEF PagesInv, FreshInv
<1>6. CASE FetchFails(k)
  <2>1. /\ loading' = [loading EXCEPT ![k] = NotLoading] /\ loadFailures < MaxLoadFailures
        /\ loadFailures' = loadFailures + 1 /\ UNCHANGED <<data, stale, open, missed>>
    BY <1>6 DEF FetchFails
  <2>2. loadFailures' \in 0..MaxLoadFailures
    <3>1. loadFailures \in 0..MaxLoadFailures
      BY <1>0 DEF PageTypes
    <3> QED BY <2>1, <3>1, PagesAssumption
  <2>4. loading' \in [QueryKeys -> Loads]
    BY <1>0, <1>3, <2>1 DEF PageTypes
  <2>5. PageTypes'
    BY <1>0, <1>1, <1>2, <2>1, <2>2, <2>4 DEF PageTypes
  <2>3. \A j \in QueryKeys : missed[j] = "no" => Fresh(j)'
    BY <1>0, <1>1, <1>3, <2>1 DEF PageTypes, FreshInv, Fresh
  <2> QED BY <1>0, <1>1, <1>2, <2>1, <2>3, <2>5 DEF PagesInv, FreshInv
<1>7. CASE GoStale(k)
  <2>1. stale' = stale \cup {k} /\ UNCHANGED <<data, loading, open, missed, loadFailures>>
    BY <1>7 DEF GoStale
  <2>2. \A j \in QueryKeys : missed[j] = "no" => Fresh(j)'
    BY <1>0, <1>1, <2>1 DEF FreshInv, Fresh
  <2> QED BY <1>0, <1>1, <1>2, <2>1, <2>2 DEF PagesInv, PageTypes, FreshInv
<1>8. CASE OpenPanel(k)
  <2>1. /\ open' = open \cup {k} /\ UNCHANGED <<data, stale, loadFailures>>
        /\ loading' = Sent(loading, Wanted({k})) /\ missed' = Forget(Wanted({k}))
    BY <1>8 DEF OpenPanel
  <2>2. /\ FreshInv' /\ loading' \in [QueryKeys -> Loads]
        /\ missed' \in [QueryKeys -> {"no", "first load", "closed", "not named"}]
    BY <1>1, <2>1, FetchesBegin
  <2> QED BY <1>0, <1>1, <1>2, <2>1, <2>2 DEF PagesInv, PageTypes
<1>9. CASE ClosePanel(k)
  <2>1. /\ k \in Page[route].panels /\ open' = open \ {k}
        /\ UNCHANGED <<data, stale, loading, missed, loadFailures>>
    BY <1>9 DEF ClosePanel
  <2>2. k \notin Page[route].queries
    BY <1>0, <2>1, PanelsApart DEF PageTypes
  <2> QED BY <1>0, <1>1, <1>2, <2>1, <2>2 DEF PagesInv, PageTypes, FreshInv, Fresh
<1> QED BY <1>4, <1>5, <1>6, <1>7, <1>8, <1>9

LEMMA FocusKeeps == ASSUME PagesInv, Focus PROVE PagesInv'
<1>0. PageTypes
  BY DEF PagesInv
<1>1. /\ UNCHANGED <<route, version, call, own, data, stale, open, loadFailures>>
      /\ loading' = Sent(loading, Wanted(open)) /\ missed' = Forget(Wanted(open))
  BY DEF Focus
<1>2. /\ QueryKeys' = QueryKeys /\ CallRecords' = CallRecords
      /\ \A s \in Slots : Told(call[s], version)'
  BY <1>1, KeysStay, CallsStay
<1>3. open \in SUBSET QueryKeys
  BY <1>0 DEF PageTypes
<1>4. /\ FreshInv' /\ loading' \in [QueryKeys -> Loads]
      /\ missed' \in [QueryKeys -> {"no", "first load", "closed", "not named"}]
  BY <1>1, <1>3, FetchesBegin
<1> QED BY <1>0, <1>1, <1>2, <1>4 DEF PagesInv, PageTypes

-----------------------------------------------------------------------------
(* Pages: mutations.                                                       *)

\* A call that begins or fails changes nothing but its slot.
LEMMA CallChanges ==
  ASSUME PagesInv, NEW s \in Slots, NEW c \in CallRecords, Told(c, version),
         call' = [call EXCEPT ![s] = c],
         UNCHANGED <<route, version, data, stale, loading, open, own, missed, loadFailures>>
  PROVE  PagesInv'
<1>0. PageTypes /\ FreshInv /\ \A t \in Slots : Told(call[t], version)
  BY DEF PagesInv
<1>1. QueryKeys' = QueryKeys /\ CallRecords' = CallRecords
  BY KeysStay
<1>2. /\ call'[s] = c /\ \A t \in Slots : t # s => call'[t] = call[t]
      /\ call' \in [Slots -> CallRecords]
  BY <1>0 DEF PageTypes
<1>3. \A t \in Slots : Told(call[t], version)'
  BY <1>0, <1>2 DEF Told
<1> QED BY <1>0, <1>1, <1>2, <1>3 DEF PagesInv, PageTypes, FreshInv, Fresh

LEMMA NoCallIsACall == NoCall \in CallRecords /\ NoCall.step = "none" /\ Told(NoCall, version)
BY DEF NoCall, CallRecords, Told

LEMMA MutateKeeps ==
  ASSUME PagesInv, NEW s \in Slots, NEW m \in Page[route].mutations, Mutate(s, m)
  PROVE  PagesInv'
<1> DEFINE c == [NoCall EXCEPT !.mutation = m, !.step = "sent"]
<1>1. c \in CallRecords /\ c.step = "sent" /\ c.mutation = m
  BY DEF NoCall, CallRecords
<1>2. Told(c, version)
  BY <1>1 DEF Told
<1>3. /\ call' = [call EXCEPT ![s] = c]
      /\ UNCHANGED <<route, version, data, stale, loading, open, own, missed, loadFailures>>
  BY DEF Mutate
<1> HIDE DEF c
<1> QED BY <1>1, <1>2, <1>3, CallChanges

LEMMA MutationFailsKeeps ==
  ASSUME PagesInv, NEW s \in Slots, MutationFails(s) PROVE PagesInv'
BY CallChanges, NoCallIsACall DEF MutationFails

\* Versions only grow, so what a page has been told stays true.
LEMMA ServerWritesKeeps ==
  ASSUME PagesInv, NEW s \in Slots, ServerWrites(s) PROVE PagesInv'
<1>0. PageTypes /\ FreshInv /\ \A t \in Slots : Told(call[t], version)
  BY DEF PagesInv
<1>1. UNCHANGED <<route, data, stale, loading, open, own, missed, loadFailures>>
  BY DEF ServerWrites
<1>2. QueryKeys' = QueryKeys /\ CallRecords' = CallRecords
  BY <1>1, KeysStay
<1>3. PICK m \in Page[route].mutations : m = call[s].mutation
  BY <1>0 DEF ServerWrites, Told
<1>4. m.writes \in SUBSET QueryKeys
  BY <1>0, RouteFits
<1>5. PICK written : written = [k \in m.writes |-> version[k] + 1]
  OBVIOUS
<1>6. /\ call[s].step = "sent" /\ \A k \in m.writes : version[k] < MaxVersion
      /\ version' = [k \in QueryKeys |-> IF k \in m.writes THEN written[k] ELSE version[k]]
      /\ call' = [call EXCEPT ![s].step = "done", ![s].told = written]
  BY <1>3, <1>5 DEF ServerWrites
<1>7. \A k \in m.writes : written[k] = version[k] + 1 /\ version[k] + 1 \in Versions
  <2>1. \A k \in m.writes : version[k] \in Versions
    BY <1>0, <1>4 DEF PageTypes
  <2> QED BY <1>5, <1>6, <2>1, PagesAssumption DEF Versions
<1>8. written \in [m.writes -> Versions]
  BY <1>5, <1>7
<1>9. version' \in [QueryKeys -> Versions]
  BY <1>0, <1>4, <1>6, <1>7 DEF PageTypes
<1>10. \A k \in QueryKeys : version[k] \in Nat /\ version'[k] \in Nat /\ version[k] <= version'[k]
  <2>1. \A k \in QueryKeys : version[k] \in Versions /\ version'[k] \in Versions
    BY <1>0, <1>9 DEF PageTypes
  <2>2. \A k \in QueryKeys : version'[k] = version[k] \/ version'[k] = version[k] + 1
    BY <1>6, <1>7
  <2> QED BY <2>1, <2>2, PagesAssumption DEF Versions
<1>11. PICK c \in CallRecords : c = [call[s] EXCEPT !.step = "done", !.told = written]
  <2>1. call[s] \in CallRecords
    BY <1>0 DEF PageTypes
  <2>2. written \in UNION {[K -> Versions] : K \in SUBSET QueryKeys}
    BY <1>4, <1>8
  <2> QED BY <2>1, <2>2 DEF CallRecords
<1>12. c.step = "done" /\ c.told = written /\ c.mutation = m
  <2>1. call[s] \in CallRecords
    BY <1>0 DEF PageTypes
  <2> QED BY <1>3, <1>11, <2>1 DEF CallRecords
<1>13. /\ call'[s] = c /\ \A t \in Slots : t # s => call'[t] = call[t]
       /\ call' \in [Slots -> CallRecords]
  BY <1>0, <1>6, <1>11 DEF PageTypes
<1>14. ASSUME NEW t \in Slots PROVE Told(call'[t], version')
  <2>1. CASE t = s
    <3>1. \A k \in m.writes : written[k] <= version'[k]
      BY <1>4, <1>6, <1>10
    <3> QED BY <1>8, <1>12, <1>13, <2>1, <3>1 DEF Told
  <2>2. CASE t # s
    <3>1. call'[t] = call[t] /\ Told(call[t], version)
      BY <1>0, <1>13, <2>2
    <3>2. ASSUME call[t].step = "done", NEW k \in call[t].mutation.writes
          PROVE  call[t].told[k] <= version'[k]
      <4>1. k \in QueryKeys
        BY <1>0, <3>1, <3>2, RouteFits DEF Told
      <4>2. call[t].told[k] \in Nat /\ call[t].told[k] <= version[k]
        BY <3>1, <3>2, PagesAssumption DEF Told, Versions
      <4> QED BY <1>10, <4>1, <4>2
    <3> QED BY <3>1, <3>2 DEF Told
  <2> QED BY <2>1, <2>2
<1>15. \A t \in Slots : Told(call[t], version)'
  BY <1>1, <1>14 DEF Told
<1>16. \A k \in QueryKeys : own[k] <= version'[k]
  <2>1. \A k \in QueryKeys : own[k] \in Versions
    BY <1>0 DEF PageTypes
  <2>2. \A k \in QueryKeys : own[k] <= version[k]
    BY <1>0 DEF FreshInv
  <2> QED BY <1>10, <2>1, <2>2, PagesAssumption DEF Versions
<1>17. FreshInv'
  BY <1>0, <1>1, <1>2, <1>16 DEF FreshInv, Fresh
<1> QED BY <1>0, <1>1, <1>2, <1>9, <1>13, <1>15, <1>17 DEF PagesInv, PageTypes

\* What the invalidation does not reach, it says why.
LEMMA SucceedKeeps ==
  ASSUME PagesInv, NEW s \in Slots, Succeed(s) PROVE PagesInv'
<1>0. PageTypes /\ FreshInv /\ \A t \in Slots : Told(call[t], version)
  BY DEF PagesInv
<1>1. UNCHANGED <<route, version, data, open, loadFailures>> /\ call[s].step = "done"
  BY DEF Succeed
<1>2. QueryKeys' = QueryKeys /\ CallRecords' = CallRecords
  BY <1>1, KeysStay
<1>3. PICK m \in Page[route].mutations : m = call[s].mutation
  BY <1>0, <1>1 DEF Told
<1>4. m.writes \in SUBSET QueryKeys /\ Fits(m, Page[route])
  BY <1>0, RouteFits
<1>5. PICK told \in [m.writes -> Versions] : told = call[s].told /\ \A k \in m.writes : told[k] <= version[k]
  BY <1>0, <1>1, <1>3 DEF Told
<1>6. PICK again : again = Restarted(Named(m))
  OBVIOUS
<1>7. /\ call' = [call EXCEPT ![s] = NoCall]
      /\ stale' = stale \cup {k \in Named(m) : data[k] # NoData}
      /\ loading' = Sent(loading, again)
      /\ own' = [k \in QueryKeys |-> IF k \in m.writes THEN Max({own[k], told[k]}) ELSE own[k]]
      /\ missed' = [k \in QueryKeys |->
                       IF k \in again THEN "no"
                       ELSE IF k \in m.writes
                       THEN IF k \notin Named(m) THEN "not named"
                            ELSE IF k \notin open THEN "closed"
                            ELSE IF data[k] = NoData THEN "first load" ELSE "no"
                       ELSE missed[k]]
  BY <1>3, <1>5, <1>6 DEF Succeed
<1>8. [NotLoading EXCEPT !.step = "sent"] \in Loads /\ [NotLoading EXCEPT !.step = "sent"].step = "sent"
  BY PagesAssumption DEF NotLoading, Loads, Versions
<1>9. \A k \in QueryKeys : /\ k \in again => loading'[k].step = "sent" /\ missed'[k] = "no"
                           /\ k \notin again => loading'[k] = loading[k]
  BY <1>7, <1>8 DEF Sent
<1>10. again \subseteq Named(m) /\ Named(m) \subseteq QueryKeys
       /\ \A k \in Named(m) : k \in open /\ data[k] # NoData => k \in again
  BY <1>6 DEF Restarted, Named
<1>11. \A k \in QueryKeys : own[k] \in Nat /\ version[k] \in Nat /\ own[k] \in Versions
  <2>1. \A k \in QueryKeys : own[k] \in Versions /\ version[k] \in Versions
    BY <1>0 DEF PageTypes
  <2> QED BY <2>1, PagesAssumption DEF Versions
<1>12. \A k \in QueryKeys : own[k] <= version[k] /\ (missed[k] = "no" => Fresh(k))
  BY <1>0 DEF FreshInv
<1>13. ASSUME NEW k \in QueryKeys PROVE own'[k] \in Versions /\ own'[k] <= version[k]
  <2>1. CASE k \in m.writes
    <3>1. told[k] \in Nat /\ told[k] \in Versions /\ told[k] <= version[k]
      BY <1>5, <2>1, PagesAssumption DEF Versions
    <3>2. own'[k] \in {own[k], told[k]}
      BY <1>7, <1>11, <2>1, <3>1, LargerOfTwo
    <3> QED BY <1>11, <1>12, <3>1, <3>2
  <2>2. CASE k \notin m.writes
    BY <1>7, <1>11, <1>12, <2>2
  <2> QED BY <2>1, <2>2
<1>14. ASSUME NEW k \in QueryKeys, missed'[k] = "no"
       PROVE  Fresh(k)'
  <2>1. CASE k \in again
    <3>1. k \in stale' \/ data[k] = NoData
      BY <1>7, <1>10, <2>1
    <3> QED BY <1>1, <1>9, <2>1, <3>1 DEF Fresh
  <2>2. CASE k \notin again
    <3>1. k \notin m.writes
      BY <1>7, <1>10, <1>14, <2>2
    <3>2. missed[k] = "no" /\ own'[k] = own[k] /\ loading'[k] = loading[k]
      BY <1>7, <1>9, <1>14, <2>2, <3>1
    <3>3. Fresh(k) /\ (k \in stale => k \in stale')
      BY <1>7, <1>12, <3>2
    <3> QED BY <1>1, <3>2, <3>3 DEF Fresh
  <2> QED BY <2>1, <2>2
<1>15. ASSUME NEW k \in Page[route].queries PROVE missed'[k] \in {"no", "first load"}
  <2>1. k \in QueryKeys /\ k \in open
    BY <1>0 DEF QueryKeys, PageTypes
  <2>2. k \in m.writes => k \in Named(m)
    BY <1>4, <2>1 DEF Fits, Named
  <2>3. missed[k] \in {"no", "first load"}
    BY <1>0 DEF FreshInv
  <2> QED BY <1>7, <2>1, <2>2, <2>3
<1>16. FreshInv'
  BY <1>1, <1>2, <1>13, <1>14, <1>15 DEF FreshInv
<1>17. PageTypes'
  <2>1. loading' \in [QueryKeys -> Loads]
    BY <1>0, <1>7, <1>8 DEF Sent, PageTypes
  <2>2. own' \in [QueryKeys -> Versions]
    <3>1. DOMAIN own' = QueryKeys /\ own' = [k \in QueryKeys |-> own'[k]]
      BY <1>7
    <3> QED BY <1>13, <3>1
  <2>3. missed' \in [QueryKeys -> {"no", "first load", "closed", "not named"}]
    BY <1>0, <1>7 DEF PageTypes
  <2>4. stale' \subseteq QueryKeys
    BY <1>0, <1>7, <1>10 DEF PageTypes
  <2>5. call' \in [Slots -> CallRecords]
    BY <1>0, <1>7, NoCallIsACall DEF PageTypes
  <2> QED BY <1>0, <1>1, <1>2, <2>1, <2>2, <2>3, <2>4, <2>5 DEF PageTypes
<1>18. ASSUME NEW t \in Slots PROVE Told(call[t], version)'
  <2>1. call'[t] = NoCall \/ call'[t] = call[t]
    BY <1>0, <1>7 DEF PageTypes
  <2> QED BY <1>0, <1>1, <2>1, NoCallIsACall DEF Told
<1> QED BY <1>16, <1>17, <1>18 DEF PagesInv

LEMMA PagesInvStep == ASSUME PagesInv, PagesStep PROVE PagesInv'
BY FetchesKeep, FocusKeeps, MutateKeeps, ServerWritesKeeps, SucceedKeeps, MutationFailsKeeps
   DEF PagesStep

LEMMA PagesInvInit == ASSUME PagesInit PROVE PagesInv
<1>1. 0 \in Versions /\ 0 \in 0..MaxLoadFailures
  BY PagesAssumption DEF Versions
<1>2. NotLoading \in Loads /\ [NotLoading EXCEPT !.step = "sent"] \in Loads
      /\ NotLoading.step = "none" /\ [NotLoading EXCEPT !.step = "sent"].step = "sent"
  BY <1>1 DEF NotLoading, Loads
<1>3. loading \in [QueryKeys -> Loads] /\ \A k \in QueryKeys : loading[k].step # "answered"
  BY <1>2 DEF PagesInit, Sent
<1>4. call \in [Slots -> CallRecords] /\ \A s \in Slots : call[s] = NoCall
  BY NoCallIsACall DEF PagesInit
<1>5. PageTypes
  BY <1>1, <1>3, <1>4 DEF PagesInit, PageTypes, QueryKeys
<1>6. FreshInv
  <2>1. \A k \in QueryKeys : own[k] = 0 /\ version[k] = 0 /\ data[k] = NoData /\ missed[k] = "no"
    BY DEF PagesInit
  <2>2. Page[route].queries \subseteq QueryKeys
    BY DEF QueryKeys
  <2>3. ASSUME NEW k \in QueryKeys PROVE own[k] <= version[k] /\ Fresh(k)
    <3>1. own[k] = 0 /\ version[k] = 0 /\ data[k] = NoData
      BY <2>1
    <3>2. loading[k].step # "answered"
      BY <1>3
    <3> QED BY <3>1, <3>2 DEF Fresh
  <2> QED BY <2>1, <2>2, <2>3 DEF FreshInv
<1> QED BY <1>4, <1>5, <1>6, NoCallIsACall DEF PagesInv

LEMMA PagesInvUnchanged == ASSUME PagesInv, UNCHANGED pagesVars PROVE PagesInv'
<1>1. QueryKeys' = QueryKeys /\ CallRecords' = CallRecords
  BY KeysStay DEF pagesVars
<1> QED BY <1>1 DEF pagesVars, PagesInv, PageTypes, FreshInv, Fresh, Told

LEMMA PagesInvMeans == ASSUME PagesInv PROVE PagesTypeOK /\ OwnWritesShown
<1>0. PageTypes /\ FreshInv
  BY DEF PagesInv
<1>1. PagesTypeOK
  <2>1. \A s \in Slots : call[s] \in CallRecords
    BY <1>0 DEF PageTypes
  <2>2. \A s \in Slots : call[s].mutation \in Page[route].mutations \cup {NoData}
                        /\ call[s].step \in {"none", "sent", "done"}
    BY <2>1 DEF CallRecords
  <2> QED BY <1>0, <2>2 DEF PageTypes, PagesTypeOK, Versions, Loads
<1>2. OwnWritesShown
  BY <1>0 DEF PageTypes, FreshInv, Fresh, OwnWritesShown
<1> QED BY <1>1, <1>2

-----------------------------------------------------------------------------
(* The web apps: each screen's steps keep its invariant and leave the rest. *)

WebInv == screen \in Screens /\ SearchInv /\ ImagesInv /\ PagesInv

LEMMA WebInvInit == ASSUME WebInit PROVE WebInv
BY SearchInvInit, ImagesInvInit, PagesInvInit DEF WebInit, WebInv

LEMMA WebInvStep == ASSUME WebInv, [WebNext]_webVars PROVE WebInv'
<1>0. screen \in Screens /\ SearchInv /\ ImagesInv /\ PagesInv
  BY DEF WebInv
<1>1. CASE OnSearch(SearchStep)
  <2>1. SearchStep /\ UNCHANGED screen /\ UNCHANGED imagesVars /\ UNCHANGED pagesVars
    BY <1>1 DEF OnSearch
  <2>2. SearchInv' /\ ImagesInv' /\ PagesInv'
    BY <1>0, <2>1, SearchInvStep, ImagesInvUnchanged, PagesInvUnchanged
  <2> QED BY <1>0, <2>1, <2>2 DEF WebInv
<1>2. CASE OnImages(ImagesStep)
  <2>1. ImagesStep /\ UNCHANGED screen /\ UNCHANGED searchVars /\ UNCHANGED pagesVars
    BY <1>2 DEF OnImages
  <2>2. SearchInv' /\ ImagesInv' /\ PagesInv'
    BY <1>0, <2>1, SearchInvUnchanged, ImagesInvStep, PagesInvUnchanged
  <2> QED BY <1>0, <2>1, <2>2 DEF WebInv
<1>3. CASE OnPages(PagesStep)
  <2>1. PagesStep /\ UNCHANGED screen /\ UNCHANGED searchVars /\ UNCHANGED imagesVars
    BY <1>3 DEF OnPages
  <2>2. SearchInv' /\ ImagesInv' /\ PagesInv'
    BY <1>0, <2>1, SearchInvUnchanged, ImagesInvUnchanged, PagesInvStep
  <2> QED BY <1>0, <2>1, <2>2 DEF WebInv
<1>4. CASE UNCHANGED webVars
  <2>1. UNCHANGED screen /\ UNCHANGED searchVars /\ UNCHANGED imagesVars /\ UNCHANGED pagesVars
    BY <1>4 DEF webVars
  <2>2. SearchInv' /\ ImagesInv' /\ PagesInv'
    BY <1>0, <2>1, SearchInvUnchanged, ImagesInvUnchanged, PagesInvUnchanged
  <2> QED BY <1>0, <2>1, <2>2 DEF WebInv
<1> QED BY <1>1, <1>2, <1>3, <1>4 DEF WebNext

LEMMA WebInvMeans ==
  ASSUME WebInv
  PROVE  /\ WebTypeOK
         /\ NoneTwice /\ SkippedOnlyInTheMillisecond
         /\ OrderIsKept /\ OwnWritesShown
BY SearchInvMeans, ImagesInvMeans, PagesInvMeans DEF WebInv, WebTypeOK

\* The invariant holds in every behaviour of the web apps.
LEMMA WebInvAlways == WebSpec => []WebInv
<1>1. WebInit => WebInv
  BY WebInvInit
<1>2. WebInv /\ [WebNext]_webVars => WebInv'
  BY WebInvStep
<1> QED BY <1>1, <1>2, PTL DEF WebSpec

-----------------------------------------------------------------------------
(* What follows for the web apps.                                          *)

\* What the search, the image lists and the pages keep has its type: a page has no
\* more rows than the limit, and a refetch no more pages than there are listings and one.
THEOREM WebTypeCorrect == WebSpec => []WebTypeOK
BY WebInvAlways, WebInvMeans, PTL

\* The cursors of findAll() keep the pages apart: however listings are created,
\* published and taken off while a customer scrolls, no listing is shown twice.
THEOREM NoListingTwice == WebSpec => []NoneTwice
BY WebInvAlways, WebInvMeans, PTL

\* A listing that stays published and is newer than the end of what is shown is
\* missing only if it was created in the millisecond of the last row of a page,
\* whose cursor toISOString() has rounded down.
THEOREM SkipsStayInTheMillisecond == WebSpec => []SkippedOnlyInTheMillisecond
BY WebInvAlways, WebInvMeans, PTL

\* Two images have the same sort_order only if their uploads overlapped, and an image
\* comes after every image that its upload found, whatever else is uploaded or fails.
THEOREM ImageOrderIsKept == WebSpec => []OrderIsKept
BY WebInvAlways, WebInvMeans, PTL

\* A query that is neither loading nor stale shows what its page changed and was told
\* of, although loads, mutations and other users' writes overlap, unless the change
\* came during the first load, while its panel was closed, or from a mutation that
\* does not name it; and the queries of the page itself miss only the first of these.
THEOREM OwnChangesAreShown == WebSpec => []OwnWritesShown
BY WebInvAlways, WebInvMeans, PTL
===============================================================================
