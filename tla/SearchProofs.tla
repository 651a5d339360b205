------------------------------ MODULE SearchProofs ------------------------------
(***************************************************************************)
(* Proofs about the search, for any listings, page size and clock: what a  *)
(* page is, how pages follow one another, and that this stays true while   *)
(* rows are created and taken off between them.                            *)
(***************************************************************************)
EXTENDS Search, TLAPS, FiniteSetTheorems, WellFoundedInduction

-----------------------------------------------------------------------------
(* Numbers and sets.                                                       *)

\* A set of naturals has a least element.
LEMMA LeastNatural ==
  ASSUME NEW S \in SUBSET Nat, S # {}
  PROVE  \E n \in S : \A m \in S : n <= m
<1>1. PICK n \in S : \A m \in S : <<m, n>> \notin OpToRel(<, Nat)
  BY NatLessThanWellFounded, WFMin
<1>2. \A m \in S : ~(m < n)
  BY <1>1 DEF OpToRel
<1> QED BY <1>2

\* The milliseconds of a time in microseconds.
Truncated(a) == (a \div Micros) * Micros

LEMMA TruncatedIsBelow ==
  ASSUME NEW a \in Nat
  PROVE  Truncated(a) \in Nat /\ Truncated(a) <= a
BY SearchAssumption DEF Truncated

\* Times between a time and its millisecond are of that millisecond.
LEMMA SameMillisecond ==
  ASSUME NEW a \in Nat, NEW b \in Nat, Truncated(a) <= b, b <= a
  PROVE  Truncated(b) = Truncated(a)
<1>1. PICK M \in Nat \ {0} : M = Micros
  BY SearchAssumption
<1>2. PICK q \in Nat : q = a \div M /\ q * M <= a /\ a < q * M + M
  BY <1>1
<1>3. q * M <= b /\ b < q * M + M
  BY <1>1, <1>2 DEF Truncated
<1>4. b \div M = q
  BY <1>1, <1>2, <1>3
<1> QED BY <1>1, <1>2, <1>4 DEF Truncated

-----------------------------------------------------------------------------
(* The order of the rows.                                                  *)

RowsOK == row \in [Ids -> Rows \cup {None}]

LEMMA CursorNumbers == ASSUME NEW c \in Cursors PROVE c.at \in Nat /\ c.id \in Nat
<1>1. c.at \in 0..MaxClock /\ c.id \in Ids
  BY DEF Cursors
<1>2. 0..MaxClock \subseteq Nat /\ Ids \subseteq Nat
  BY SearchAssumption
<1> QED BY <1>1, <1>2

\* The rows that exist are ordered by their keys.
Existing == {i \in Ids : row[i] # None}

LEMMA KeysOfExisting ==
  ASSUME RowsOK, NEW i \in Existing
  PROVE  /\ row[i] \in Rows /\ row[i].at \in 0..MaxClock /\ row[i].at \in Nat /\ i \in Nat
         /\ Key(i).at = row[i].at /\ Key(i).id = i /\ Key(i) \in Cursors
<1>1. row[i] \in Rows /\ i \in Ids /\ i \in Nat
  BY SearchAssumption DEF RowsOK, Existing
<1>2. row[i].at \in 0..MaxClock /\ row[i].at \in Nat
  BY <1>1, SearchAssumption DEF Rows
<1> QED BY <1>1, <1>2 DEF Key, Cursors

\* Row i comes after row j: it is older.
Older(i, j) == row[i].at < row[j].at \/ (row[i].at = row[j].at /\ i < j)

LEMMA NewerIsOlder ==
  ASSUME RowsOK, NEW S \in SUBSET Existing, NEW i \in S
  PROVE  Newer(i, S) = {j \in S : Older(i, j)}
BY KeysOfExisting DEF Newer, Older

LEMMA OlderIsAnOrder ==
  ASSUME RowsOK, NEW i \in Existing, NEW j \in Existing
  PROVE  /\ ~Older(i, i)
         /\ i = j \/ Older(i, j) \/ Older(j, i)
         /\ \A k \in Existing : Older(i, j) /\ Older(j, k) => Older(i, k)
BY KeysOfExisting DEF Older

\* Of finitely many rows one is the newest, and one is the oldest.
LEMMA NewestRow ==
  ASSUME RowsOK, NEW S \in SUBSET Existing, S # {}, IsFiniteSet(S)
  PROVE  \E i \in S : Newer(i, S) = {}
<1> DEFINE Sizes == {Cardinality(Newer(i, S)) : i \in S}
<1>1. \A i \in S : Newer(i, S) \in SUBSET S
  BY DEF Newer
<1>2. \A i \in S : IsFiniteSet(Newer(i, S)) /\ Cardinality(Newer(i, S)) \in Nat
  BY <1>1, FS_Subset, FS_CardinalityType
<1>3. Sizes \in SUBSET Nat /\ Sizes # {}
  BY <1>2
<1>4. PICK n \in Sizes : \A m \in Sizes : n <= m
  <2> HIDE DEF Sizes
  <2> QED BY <1>3, LeastNatural
<1>5. PICK i \in S : n = Cardinality(Newer(i, S))
  BY <1>4
<1>6. ASSUME NEW j \in Newer(i, S) PROVE FALSE
  <2>1. j \in S /\ Older(i, j)
    BY <1>6, NewerIsOlder
  <2>2. Newer(j, S) \subseteq Newer(i, S) /\ j \notin Newer(j, S)
    BY <2>1, NewerIsOlder, OlderIsAnOrder
  <2>3. /\ Newer(j, S) \in SUBSET Newer(i, S) /\ Newer(j, S) # Newer(i, S)
    BY <1>6, <2>2
  <2>4. Cardinality(Newer(j, S)) < Cardinality(Newer(i, S))
    BY <1>2, <2>1, <2>3, FS_Subset
  <2>5. Cardinality(Newer(j, S)) \in Sizes /\ Cardinality(Newer(j, S)) \in Nat
    BY <1>2, <2>1
  <2> QED BY <1>2, <1>4, <1>5, <2>4, <2>5
<1> QED BY <1>6

LEMMA OldestRow ==
  ASSUME RowsOK, NEW S \in SUBSET Existing, S # {}
  PROVE  \E i \in S : Newer(i, S) = S \ {i}
<1> DEFINE Times == {row[i].at : i \in S}
<1>1. Times \in SUBSET Nat /\ Times # {}
  BY KeysOfExisting
<1>2. PICK t \in Times : \A u \in Times : t <= u
  <2> HIDE DEF Times
  <2> QED BY <1>1, LeastNatural
<1>3. PICK First : First = {i \in S : row[i].at = t}
  OBVIOUS
<1>4. First \in SUBSET Nat /\ First # {}
  BY <1>2, <1>3, KeysOfExisting
<1>5. PICK i \in First : \A j \in First : i <= j
  BY <1>4, LeastNatural
<1>6. i \in S /\ row[i].at = t
  BY <1>3
<1>7. ASSUME NEW j \in S, j # i PROVE Older(i, j)
  <2>1. t \in Nat /\ row[j].at \in Nat /\ t <= row[j].at
    <3>1. row[j].at \in Times
      OBVIOUS
    <3> HIDE DEF Times
    <3> QED BY <1>1, <1>2, <3>1
  <2>2. CASE row[j].at = t
    BY <1>3, <1>4, <1>5, <1>6, <1>7, <2>2 DEF Older
  <2>3. CASE row[j].at # t
    BY <1>6, <2>1, <2>3 DEF Older
  <2> QED BY <2>2, <2>3
<1>8. ~Older(i, i)
  BY <1>6, OlderIsAnOrder
<1> QED BY <1>6, <1>7, <1>8, NewerIsOlder

-----------------------------------------------------------------------------
(* One page: what findAll() returns.                                       *)

Follows(i, cursor) == cursor = None \/ Before(Key(i), cursor)

\* The rows of a page, taken from a set of rows.
LEMMA FirstPageOf ==
  ASSUME RowsOK, NEW S \in SUBSET Existing, NEW R, R = FirstPage(S)
  PROVE  /\ R \subseteq S /\ IsFiniteSet(R) /\ Cardinality(R) <= Limit
         /\ S # {} => R # {}
         /\ \A i \in R : \A j \in S \ R : Older(j, i)
<1>1. IsFiniteSet(S) /\ \A i \in S : Newer(i, S) \in SUBSET S
  BY SearchAssumption, FS_Subset DEF Existing, Newer
<1>2. R \in SUBSET S /\ IsFiniteSet(R)
  BY <1>1, FS_Subset DEF FirstPage
<1>3. S # {} => R # {}
  <2>1. SUFFICES ASSUME S # {} PROVE R # {}
    OBVIOUS
  <2>2. PICK i \in S : Newer(i, S) = {}
    BY <1>1, <2>1, NewestRow
  <2>3. Cardinality(Newer(i, S)) < Limit
    BY <2>2, FS_EmptySet, SearchAssumption
  <2> QED BY <2>2, <2>3 DEF FirstPage
<1>4. Cardinality(R) <= Limit
  <2>1. CASE R = {}
    BY <2>1, FS_EmptySet, SearchAssumption
  <2>2. CASE R # {}
    <3>1. PICK i \in R : Newer(i, R) = R \ {i}
      BY <1>2, <2>2, OldestRow
    <3>2. Newer(i, R) \subseteq Newer(i, S)
      BY <1>2 DEF Newer
    <3>3. Cardinality(Newer(i, S)) < Limit /\ i \in S
      BY <3>1 DEF FirstPage
    <3>4. IsFiniteSet(Newer(i, S)) /\ Cardinality(Newer(i, S)) \in Nat
      BY <1>1, <3>3, FS_Subset, FS_CardinalityType
    <3>5. Cardinality(R \ {i}) \in Nat /\ Cardinality(R \ {i}) <= Cardinality(Newer(i, S))
      BY <3>1, <3>2, <3>4, FS_Subset, FS_CardinalityType
    <3>6. Cardinality(R \ {i}) = Cardinality(R) - 1 /\ Cardinality(R) \in Nat
      BY <1>2, <3>1, FS_RemoveElement, FS_CardinalityType
    <3> QED BY <3>3, <3>4, <3>5, <3>6, SearchAssumption
  <2> QED BY <2>1, <2>2
<1>5. ASSUME NEW i \in R, NEW j \in S \ R PROVE Older(j, i)
  <2>1. i \in S /\ i # j /\ Cardinality(Newer(i, S)) < Limit /\ ~(Cardinality(Newer(j, S)) < Limit)
    BY <1>2, <1>5 DEF FirstPage
  <2>2. SUFFICES ASSUME Older(i, j) PROVE FALSE
    BY <2>1, OlderIsAnOrder
  <2>3. Newer(j, S) \subseteq Newer(i, S)
    BY <2>1, <2>2, NewerIsOlder, OlderIsAnOrder
  <2>4. /\ Cardinality(Newer(j, S)) \in Nat /\ Cardinality(Newer(i, S)) \in Nat
        /\ Cardinality(Newer(j, S)) <= Cardinality(Newer(i, S))
    BY <1>1, <2>1, <2>3, FS_Subset, FS_CardinalityType
  <2> QED BY <2>1, <2>4, SearchAssumption
<1> QED BY <1>2, <1>3, <1>4, <1>5

\* The cursor made of a row is at the row or, in its millisecond, above it.
LEMMA CursorOfRow ==
  ASSUME RowsOK, NEW i \in Existing
  PROVE  /\ EncodeCursor(i) \in Cursors /\ EncodeCursor(i) # None
         /\ EncodeCursor(i).at = Truncated(row[i].at) /\ EncodeCursor(i).id = i
         /\ Truncated(row[i].at) \in Nat /\ Truncated(row[i].at) <= row[i].at
<1>1. row[i].at \in Nat /\ row[i].at \in 0..MaxClock /\ i \in Ids
  BY KeysOfExisting DEF Existing
<1>2. Truncated(row[i].at) \in Nat /\ Truncated(row[i].at) <= row[i].at
  BY <1>1, TruncatedIsBelow
<1>3. Truncated(row[i].at) \in 0..MaxClock
  BY <1>1, <1>2, SearchAssumption
<1>4. EncodeCursor(i) = [at |-> Truncated(row[i].at), id |-> i]
  BY DEF EncodeCursor, Truncated
<1>5. EncodeCursor(i) \in Cursors
  BY <1>1, <1>3, <1>4 DEF Cursors
<1> QED BY <1>2, <1>4, <1>5, SearchAssumption

\* Every row of a page follows the cursor that was asked for, none follows the
\* next cursor, and a published row that follows the one and not the other is on
\* the page or in the millisecond of the next cursor.
LEMMA PageOfCursor ==
  ASSUME RowsOK, NEW cursor \in Cursors \cup {None}, NEW page, page = FindAll(cursor)
  PROVE  /\ page \in PageRecords
         /\ page.rows \subseteq Published /\ IsFiniteSet(page.rows)
         /\ Cardinality(page.rows) <= Limit
         /\ \A i \in page.rows : Follows(i, cursor)
         /\ page.next # None =>
               /\ page.rows # {}
               /\ \A i \in page.rows : ~Before(Key(i), page.next)
               /\ cursor = None \/ Before(page.next, cursor)
         /\ \A i \in Published :
               Follows(i, cursor) /\ (page.next = None \/ ~Before(Key(i), page.next)) =>
                   \/ i \in page.rows
                   \/ page.next # None /\ page.next.at = Truncated(row[i].at)
<1>1. PICK S : S = {i \in Published : Follows(i, cursor)}
  OBVIOUS
<1>2. Published \subseteq Existing
  BY DEF Published, Existing
<1>3. PICK R : R = FirstPage(S)
  OBVIOUS
<1>4. PICK last : last = CHOOSE i \in R : Newer(i, R) = R \ {i}
  OBVIOUS
<1>5. page = [rows |-> R, next |-> IF S = R THEN None ELSE EncodeCursor(last)]
  BY <1>1, <1>3, <1>4 DEF FindAll, Follows
<1>6. /\ R \subseteq S /\ IsFiniteSet(R) /\ Cardinality(R) <= Limit
      /\ S # {} => R # {}
      /\ \A i \in R : \A j \in S \ R : Older(j, i)
  <2>1. S \in SUBSET Existing
    BY <1>1, <1>2
  <2> QED BY <1>3, <2>1, FirstPageOf
<1>7. CASE S = R
  <2>1. page.rows = S /\ page.next = None
    BY <1>5, <1>7
  <2>2. page \in PageRecords
    BY <1>1, <1>5, <1>7 DEF PageRecords, Published
  <2> QED BY <1>1, <1>6, <1>7, <2>1, <2>2
<1>8. CASE S # R
  <2>1. R # {} /\ R \in SUBSET Existing
    BY <1>1, <1>2, <1>6, <1>8
  <2>2. last \in R /\ Newer(last, R) = R \ {last}
    BY <1>4, <2>1, OldestRow
  <2>3. last \in Existing /\ last \in S
    BY <1>6, <2>1, <2>2
  <2>4. PICK next \in Cursors : next = EncodeCursor(last)
    BY <2>3, CursorOfRow
  <2>5. page.rows = R /\ page.next = next /\ next # None
    BY <1>5, <1>8, <2>4, SearchAssumption
  <2>6. /\ next.at = Truncated(row[last].at) /\ next.id = last
        /\ next.at \in Nat /\ next.at <= row[last].at
    BY <2>3, <2>4, CursorOfRow
  <2>7. page \in PageRecords
    BY <1>1, <1>5, <1>6, <1>8, <2>4 DEF PageRecords, Published
  <2>8. ASSUME NEW i \in R PROVE ~Before(Key(i), next)
    <3>1. i \in Existing
      BY <2>1
    <3>2. i = last \/ Older(last, i)
      BY <2>1, <2>2, NewerIsOlder
    <3>3. /\ row[i].at \in Nat /\ i \in Nat /\ Key(i).at = row[i].at /\ Key(i).id = i
          /\ row[last].at \in Nat /\ last \in Nat
      BY <2>3, <3>1, KeysOfExisting
    <3> QED BY <2>6, <3>2, <3>3 DEF Before, Older
  <2>9. cursor = None \/ Before(next, cursor)
    <3>1. SUFFICES ASSUME cursor # None PROVE Before(next, cursor)
      OBVIOUS
    <3>2. Before(Key(last), cursor) /\ cursor \in Cursors
      BY <1>1, <2>3, <3>1 DEF Follows
    <3>3. /\ row[last].at \in Nat /\ last \in Nat
          /\ Key(last).at = row[last].at /\ Key(last).id = last
      BY <2>3, KeysOfExisting
    <3>4. cursor.at \in Nat /\ cursor.id \in Nat
      BY <3>2, CursorNumbers
    <3> QED BY <2>6, <3>2, <3>3, <3>4 DEF Before
  <2>10. ASSUME NEW i \in Published, Follows(i, cursor), ~Before(Key(i), next), i \notin R
         PROVE  next.at = Truncated(row[i].at)
    <3>1. i \in S \ R /\ i \in Existing
      BY <1>1, <1>2, <2>10
    <3>2. Older(i, last)
      BY <1>6, <2>2, <3>1
    <3>3. /\ row[i].at \in Nat /\ i \in Nat /\ Key(i).at = row[i].at /\ Key(i).id = i
          /\ row[last].at \in Nat /\ last \in Nat
      BY <2>3, <3>1, KeysOfExisting
    <3>4. next.at <= row[i].at /\ row[i].at <= row[last].at
      BY <2>6, <2>10, <3>2, <3>3 DEF Before, Older
    <3> QED BY <2>6, <3>3, <3>4, SameMillisecond
  <2>11. \A i \in page.rows : i \in Published /\ Follows(i, cursor)
    BY <1>1, <1>6, <2>5
  <2> QED BY <1>6, <2>1, <2>5, <2>7, <2>8, <2>9, <2>10, <2>11
<1> QED BY <1>7, <1>8

-----------------------------------------------------------------------------
(* The pages of a list, over the rows r of the database.                   *)

KeyOf(r, i) == [at |-> r[i].at, id |-> i]

ShownIn(ps) == UNION {ps[n].rows : n \in 1..Len(ps)}

\* A page has rows that exist, none of them beyond the cursor of the next.
PageOK(page, r) ==
    /\ Cardinality(page.rows) <= Limit
    /\ \A i \in page.rows : r[i] # None
    /\ page.next # None => \A i \in page.rows : ~Before(KeyOf(r, i), page.next)

\* All of a later page is beyond the cursor after an earlier one.
Beyond(later, earlier, r) ==
    /\ earlier.next # None
    /\ \A i \in later.rows : Before(KeyOf(r, i), earlier.next)
    /\ later.next # None => Before(later.next, earlier.next)

\* There is no page without a row but the last.
Ended(ps) == ps # <<>> /\ ps[Len(ps)].next = None

Counted(ps) ==
    /\ Ended(ps) => Len(ps) <= Cardinality(ShownIn(ps)) + 1
    /\ ~Ended(ps) => Len(ps) <= Cardinality(ShownIn(ps))

Chain(ps, r) ==
    /\ ps \in Seq(PageRecords)
    /\ \A n \in 1..Len(ps) : PageOK(ps[n], r)
    /\ \A m, n \in 1..Len(ps) : m < n => Beyond(ps[n], ps[m], r)
    /\ Counted(ps)

\* The rows K stayed published; those that the list got past are in it, or in
\* the millisecond of one of its cursors.
Reached(i, ps, r) ==
    \/ i \in ShownIn(ps)
    \/ \E n \in 1..Len(ps) : ps[n].next # None /\ ps[n].next.at = Truncated(r[i].at)

Complete(ps, K, r) ==
    /\ K \subseteq {i \in Ids : r[i] # None /\ r[i].published}
    /\ ps # <<>> => \A i \in K : \/ ps[Len(ps)].next # None /\ Before(KeyOf(r, i), ps[Len(ps)].next)
                                \/ Reached(i, ps, r)

\* Rows never go, and keep their created_at.
RowsStay(r, s) == \A i \in Ids : r[i] # None => s[i] # None /\ s[i].at = r[i].at

LEMMA PagesOfSeq ==
  ASSUME NEW ps \in Seq(PageRecords), NEW n \in 1..Len(ps)
  PROVE  ps[n] \in PageRecords /\ ps[n].rows \subseteq Ids /\ ps[n].next \in Cursors \cup {None}
<1>1. ps[n] \in PageRecords
  OBVIOUS
<1> QED BY <1>1 DEF PageRecords

LEMMA ShownAreIds ==
  ASSUME NEW ps \in Seq(PageRecords)
  PROVE  ShownIn(ps) \subseteq Ids /\ IsFiniteSet(ShownIn(ps)) /\ Cardinality(ShownIn(ps)) \in Nat
         /\ Cardinality(ShownIn(ps)) <= Cardinality(Ids) /\ Cardinality(Ids) \in Nat
<1>1. \A n \in 1..Len(ps) : ps[n].rows \subseteq Ids
  BY PagesOfSeq
<1>2. ShownIn(ps) \in SUBSET Ids
  BY <1>1 DEF ShownIn
<1> QED BY <1>2, SearchAssumption, FS_Subset, FS_CardinalityType

LEMMA ChainStays ==
  ASSUME NEW ps, NEW r, NEW s, Chain(ps, r), RowsStay(r, s) PROVE Chain(ps, s)
<1>1. \A n \in 1..Len(ps) : ps[n] \in PageRecords /\ ps[n].rows \subseteq Ids
  BY PagesOfSeq DEF Chain
<1>2. \A n \in 1..Len(ps) : \A i \in ps[n].rows : s[i] # None /\ KeyOf(s, i) = KeyOf(r, i)
  BY <1>1 DEF Chain, PageOK, RowsStay, KeyOf
<1>3. \A n \in 1..Len(ps) : PageOK(ps[n], s)
  BY <1>2 DEF Chain, PageOK
<1>4. \A m, n \in 1..Len(ps) : m < n => Beyond(ps[n], ps[m], s)
  BY <1>2 DEF Chain, Beyond
<1> QED BY <1>3, <1>4 DEF Chain

LEMMA CompleteStays ==
  ASSUME NEW ps, NEW K, NEW L \in SUBSET K, NEW r, NEW s, Complete(ps, K, r), RowsStay(r, s),
         \A i \in L : s[i] # None /\ s[i].published
  PROVE  Complete(ps, L, s)
<1>1. \A i \in L : i \in Ids /\ r[i] # None /\ s[i].at = r[i].at /\ KeyOf(s, i) = KeyOf(r, i)
  BY DEF Complete, RowsStay, KeyOf
<1> QED BY <1>1 DEF Complete, Reached

LEMMA EmptyChain ==
  ASSUME NEW r PROVE Chain(<<>>, r) /\ Complete(<<>>, {}, r)
<1>1. <<>> \in Seq(PageRecords) /\ Len(<<>>) = 0
  OBVIOUS
<1>2. ShownIn(<<>>) = {} /\ ~Ended(<<>>)
  BY <1>1 DEF ShownIn, Ended
<1>3. Counted(<<>>)
  BY <1>1, <1>2, FS_EmptySet DEF Counted
<1> QED BY <1>1, <1>3 DEF Chain, Complete

\* No row is on two pages of a chain.
LEMMA ChainShowsOnce ==
  ASSUME NEW ps, NEW r, Chain(ps, r)
  PROVE  \A m, n \in 1..Len(ps) : m # n => ps[m].rows \cap ps[n].rows = {}
<1>1. ASSUME NEW m \in 1..Len(ps), NEW n \in 1..Len(ps), m < n
      PROVE  ps[m].rows \cap ps[n].rows = {}
  BY <1>1 DEF Chain, PageOK, Beyond
<1>2. Len(ps) \in Nat
  BY DEF Chain
<1>3. \A m, n \in 1..Len(ps) : m # n => m < n \/ n < m
  BY <1>2
<1> QED BY <1>1, <1>3

LEMMA BeforeIsTransitive ==
  ASSUME NEW a, NEW b, NEW c, a.at \in Nat, a.id \in Nat, b.at \in Nat, b.id \in Nat,
         c.at \in Nat, c.id \in Nat, Before(a, b), Before(b, c)
  PROVE  Before(a, c)
BY DEF Before

\* The page that is fetched after the last one continues the chain.
LEMMA ChainGrows ==
  ASSUME RowsOK, NEW got, NEW K, Chain(got, row), Complete(got, K, row), ~Ended(got),
         NEW cursor, cursor = IF got = <<>> THEN None ELSE got[Len(got)].next,
         NEW page, page = FindAll(cursor),
         NEW since, since = IF got = <<>> THEN Published ELSE K,
         NEW longer, longer = Append(got, page)
  PROVE  /\ Chain(longer, row) /\ Complete(longer, since, row)
         /\ longer # <<>> /\ longer[Len(longer)] = page
<1> DEFINE L == Len(got)
<1>1. /\ got \in Seq(PageRecords) /\ L \in Nat /\ (got # <<>> => L \in 1..L)
      /\ (got = <<>> => L = 0)
  BY DEF Chain
<1>2. cursor \in Cursors \cup {None} /\ (got # <<>> => cursor = got[L].next /\ cursor # None)
  BY <1>1, PagesOfSeq DEF Ended
<1>3. /\ page \in PageRecords
      /\ page.rows \subseteq Published /\ IsFiniteSet(page.rows)
      /\ Cardinality(page.rows) <= Limit
      /\ \A i \in page.rows : Follows(i, cursor)
      /\ page.next # None =>
            /\ page.rows # {}
            /\ \A i \in page.rows : ~Before(Key(i), page.next)
            /\ cursor = None \/ Before(page.next, cursor)
      /\ \A i \in Published :
            Follows(i, cursor) /\ (page.next = None \/ ~Before(Key(i), page.next)) =>
                \/ i \in page.rows
                \/ page.next # None /\ page.next.at = Truncated(row[i].at)
  BY <1>2, PageOfCursor
<1>4. /\ longer \in Seq(PageRecords) /\ Len(longer) = L + 1 /\ longer[L + 1] = page
      /\ \A n \in 1..L : longer[n] = got[n]
  BY <1>1, <1>3
<1>5. 1..(L + 1) = 1..L \cup {L + 1} /\ L + 1 \notin 1..L
  BY <1>1
<1>6. \A i : KeyOf(row, i) = Key(i)
  BY DEF KeyOf, Key
<1>7. PageOK(page, row)
  BY <1>3, <1>6 DEF PageOK, Published
<1>8. ASSUME NEW m \in 1..L PROVE Beyond(page, got[m], row)
  <2>1. got # <<>> /\ L \in 1..L /\ cursor = got[L].next /\ cursor # None /\ cursor \in Cursors
    BY <1>1, <1>2
  <2>2. /\ \A i \in page.rows : Before(Key(i), cursor)
        /\ page.next # None => Before(page.next, cursor)
    BY <1>3, <2>1 DEF Follows
  <2>3. CASE m = L
    BY <1>6, <2>1, <2>2, <2>3 DEF Beyond
  <2>4. CASE m < L
    <3>1. got[m].next # None /\ Before(cursor, got[m].next) /\ got[m].next \in Cursors
      BY <2>1, <2>4, PagesOfSeq, <1>1 DEF Chain, Beyond
    <3>2. /\ cursor.at \in Nat /\ cursor.id \in Nat
          /\ got[m].next.at \in Nat /\ got[m].next.id \in Nat
      BY <2>1, <3>1, CursorNumbers
    <3>3. ASSUME NEW i \in page.rows PROVE Before(KeyOf(row, i), got[m].next)
      <4>1. i \in Existing
        BY <1>3 DEF Published, Existing
      <4>2. Key(i).at \in Nat /\ Key(i).id \in Nat
        BY <4>1, KeysOfExisting
      <4> QED BY <1>6, <2>2, <3>1, <3>2, <4>2, BeforeIsTransitive
    <3>4. ASSUME page.next # None PROVE Before(page.next, got[m].next)
      <4>1. page.next \in Cursors
        BY <1>3, <3>4 DEF PageRecords
      <4>2. page.next.at \in Nat /\ page.next.id \in Nat
        BY <4>1, CursorNumbers
      <4> QED BY <2>2, <3>1, <3>2, <3>4, <4>2, BeforeIsTransitive
    <3> QED BY <3>1, <3>3, <3>4 DEF Beyond
  <2> QED BY <1>1, <2>3, <2>4
<1>9. ShownIn(longer) = ShownIn(got) \cup page.rows
  BY <1>4, <1>5 DEF ShownIn
<1>10. Counted(longer)
  <2>1. /\ Len(got) <= Cardinality(ShownIn(got)) /\ Cardinality(ShownIn(got)) \in Nat
        /\ IsFiniteSet(ShownIn(got))
    BY <1>1, ShownAreIds DEF Chain, Counted
  <2>2. /\ IsFiniteSet(ShownIn(longer)) /\ Cardinality(ShownIn(longer)) \in Nat
    BY <1>4, ShownAreIds
  <2>3. CASE page.next = None
    <3>1. Cardinality(ShownIn(got)) <= Cardinality(ShownIn(longer))
      BY <1>9, <2>2, FS_Subset
    <3>2. Ended(longer)
      BY <1>1, <1>4, <2>3 DEF Ended
    <3> QED BY <1>1, <1>4, <2>1, <2>2, <3>1, <3>2 DEF Counted
  <2>4. CASE page.next # None
    <3>1. PICK i \in page.rows : TRUE
      BY <1>3, <2>4
    <3>2. i \notin ShownIn(got)
      BY <1>8, <3>1 DEF Chain, PageOK, Beyond, ShownIn
    <3>3. /\ IsFiniteSet(ShownIn(got) \cup {i})
          /\ Cardinality(ShownIn(got) \cup {i}) = Cardinality(ShownIn(got)) + 1
      BY <2>1, <3>2, FS_AddElement
    <3>4. Cardinality(ShownIn(got) \cup {i}) <= Cardinality(ShownIn(longer))
      BY <1>9, <2>2, <3>1, FS_Subset
    <3>5. ~Ended(longer)
      BY <1>1, <1>4, <2>4 DEF Ended
    <3> QED BY <1>1, <1>4, <2>1, <2>2, <3>3, <3>4, <3>5 DEF Counted
  <2> QED BY <2>3, <2>4
<1>11. \A n \in 1..Len(longer) : PageOK(longer[n], row)
  BY <1>4, <1>5, <1>7 DEF Chain
<1>12. ASSUME NEW m \in 1..Len(longer), NEW n \in 1..Len(longer), m < n
       PROVE  Beyond(longer[n], longer[m], row)
  <2>1. m \in 1..L
    BY <1>1, <1>4, <1>12
  <2>2. CASE n = L + 1
    BY <1>4, <1>8, <2>1, <2>2
  <2>3. CASE n # L + 1
    <3>1. n \in 1..L
      BY <1>4, <1>5, <2>3
    <3> QED BY <1>4, <1>12, <2>1, <3>1 DEF Chain
  <2> QED BY <2>2, <2>3
<1>13. Chain(longer, row)
  BY <1>4, <1>10, <1>11, <1>12 DEF Chain
<1>14. ASSUME NEW i \in since
       PROVE  \/ page.next # None /\ Before(Key(i), page.next)
              \/ Reached(i, longer, row)
  <2>1. SUFFICES ASSUME page.next = None \/ ~Before(Key(i), page.next)
                 PROVE  Reached(i, longer, row)
    OBVIOUS
  <2>2. i \in Published
    BY DEF Complete, Published
  <2>3. CASE Follows(i, cursor)
    <3>1. i \in page.rows \/ (page.next # None /\ page.next.at = Truncated(row[i].at))
      BY <1>3, <2>1, <2>2, <2>3
    <3>2. L + 1 \in 1..Len(longer)
      BY <1>4, <1>5
    <3> QED BY <1>4, <1>9, <3>1, <3>2 DEF Reached
  <2>4. CASE ~Follows(i, cursor)
    <3>1. got # <<>> /\ i \in K /\ ~Before(KeyOf(row, i), got[L].next)
      BY <1>2, <1>6, <2>4 DEF Follows
    <3>2. Reached(i, got, row)
      BY <3>1 DEF Complete
    <3>3. 1..L \subseteq 1..Len(longer)
      BY <1>4, <1>5
    <3> QED BY <1>4, <1>9, <3>2, <3>3 DEF Reached
  <2> QED BY <2>3, <2>4
<1>15. since \subseteq {i \in Ids : row[i] # None /\ row[i].published}
  BY DEF Complete, Published
<1>16. Complete(longer, since, row)
  BY <1>1, <1>4, <1>6, <1>14, <1>15 DEF Complete
<1> QED BY <1>1, <1>4, <1>13, <1>16

-----------------------------------------------------------------------------
(* The inductive invariant: what is shown, and what a fetch has got so far, *)
(* are chains of pages.                                                     *)

Fetches ==
    [kind : {"none", "first", "next", "refetch"}, got : Seq(PageRecords),
     todo : 0..Cardinality(Ids) + 1, kept : SUBSET Ids]

SearchTypes ==
    /\ clock \in 0..MaxClock /\ failures \in 0..MaxFailures
    /\ RowsOK
    /\ fetch \in Fetches

FetchInv ==
    /\ Chain(fetch.got, row) /\ Complete(fetch.got, fetch.kept, row) /\ ~Ended(fetch.got)
    /\ fetch.kind # "none" => fetch.todo >= 1

SearchInv ==
    /\ SearchTypes
    /\ Chain(pages, row) /\ Complete(pages, kept, row)
    /\ FetchInv

LEMMA TodoBound == Cardinality(Ids) \in Nat /\ 0..Cardinality(Ids) + 1 \subseteq Nat
                   /\ 0 \in 0..Cardinality(Ids) + 1 /\ 1 \in 0..Cardinality(Ids) + 1
<1>1. Cardinality(Ids) \in Nat
  BY SearchAssumption, FS_CardinalityType
<1> QED BY <1>1

\* A fetch that begins, or none, has no pages.
Empty(kind, todo) == [kind |-> kind, got |-> <<>>, todo |-> todo, kept |-> {}]

LEMMA EmptyFields ==
  ASSUME NEW kind, NEW todo
  PROVE  LET f == Empty(kind, todo)
         IN  f.kind = kind /\ f.todo = todo /\ f.got = <<>> /\ f.kept = {}
<1>1. PICK e : e = <<>>
  OBVIOUS
<1>2. PICK z : z = {}
  OBVIOUS
<1>3. PICK f : f = [kind |-> kind, got |-> e, todo |-> todo, kept |-> z]
  OBVIOUS
<1>4. f.kind = kind /\ f.todo = todo /\ f.got = e /\ f.kept = z
  BY <1>3
<1>5. f = Empty(kind, todo)
  BY <1>1, <1>2, <1>3 DEF Empty
<1> QED BY <1>1, <1>2, <1>4, <1>5

LEMMA NoFetchSet ==
  ASSUME NEW kind, NEW todo
  PROVE  [NoFetch EXCEPT !.kind = kind, !.todo = todo] = Empty(kind, todo)
<1>1. PICK e : e = <<>>
  OBVIOUS
<1>2. PICK z : z = {}
  OBVIOUS
<1>3. PICK k, n : k = "none" /\ n = 0
  OBVIOUS
<1>4. PICK f : f = [[kind |-> k, got |-> e, todo |-> n, kept |-> z]
                        EXCEPT !.kind = kind, !.todo = todo]
  OBVIOUS
<1>5. f.kind = kind /\ f.got = e /\ f.todo = todo /\ f.kept = z
  BY <1>4
<1>6. f = [kind |-> f.kind, got |-> f.got, todo |-> f.todo, kept |-> f.kept]
  BY <1>4
<1> QED BY <1>1, <1>2, <1>3, <1>4, <1>5, <1>6 DEF NoFetch, Empty

LEMMA EmptyIsAFetch ==
  ASSUME NEW todo \in 0..Cardinality(Ids) + 1, NEW kind \in {"none", "first", "refetch"},
         NEW f, f = Empty(kind, todo)
  PROVE  /\ f \in Fetches /\ f.kind = kind /\ f.todo = todo
         /\ Chain(f.got, row) /\ Complete(f.got, f.kept, row) /\ ~Ended(f.got)
<1>1. PICK e \in Seq(PageRecords) : e = <<>>
  <2>1. <<>> \in Seq(PageRecords)
    OBVIOUS
  <2> QED BY <2>1
<1>2. PICK z \in SUBSET Ids : z = {}
  OBVIOUS
<1>3. f = [kind |-> kind, got |-> e, todo |-> todo, kept |-> z]
  BY <1>1, <1>2 DEF Empty
<1>4. f \in Fetches
  BY <1>3 DEF Fetches
<1>5. f.kind = kind /\ f.todo = todo /\ f.got = <<>> /\ f.kept = {}
  BY EmptyFields
<1>6. ~Ended(<<>>)
  BY DEF Ended
<1> QED BY <1>4, <1>5, <1>6, EmptyChain

\* A fetch that is set leaves the rows and what is shown.
LEMMA FetchChanges ==
  ASSUME SearchInv, NEW f \in Fetches, fetch' = f,
         Chain(f.got, row), Complete(f.got, f.kept, row), ~Ended(f.got),
         f.kind # "none" => f.todo >= 1,
         UNCHANGED <<clock, row, pages, kept>>, failures' \in 0..MaxFailures
  PROVE  SearchInv'
<1>1. SearchTypes'
  BY DEF SearchInv, SearchTypes, RowsOK
<1>2. Chain(pages', row') /\ Complete(pages', kept', row')
  BY DEF SearchInv
<1>3. Chain(fetch'.got, row') /\ Complete(fetch'.got, fetch'.kept, row') /\ ~Ended(fetch'.got)
  OBVIOUS
<1> QED BY <1>1, <1>2, <1>3 DEF SearchInv, FetchInv

\* Rows that are created or changed leave the chains.
LEMMA RowsChange ==
  ASSUME SearchInv, RowsOK', RowsStay(row, row'), NEW gone \in SUBSET Ids,
         kept' = kept \ gone, fetch' = [fetch EXCEPT !.kept = fetch.kept \ gone],
         \A i \in Ids \ gone : row[i] # None /\ row[i].published => row'[i].published,
         UNCHANGED <<clock, pages, failures>>
  PROVE  SearchInv'
<1>1. PICK r : r = row
  OBVIOUS
<1>2. PICK s : s = row'
  OBVIOUS
<1>3. fetch \in Fetches
  BY DEF SearchInv, SearchTypes
<1>4. /\ fetch' \in Fetches /\ fetch'.got = fetch.got /\ fetch'.kind = fetch.kind
      /\ fetch'.todo = fetch.todo /\ fetch'.kept = fetch.kept \ gone
  BY <1>3 DEF Fetches
<1>5. ASSUME NEW ps, NEW K, Chain(ps, r), Complete(ps, K, r)
      PROVE  Chain(ps, s) /\ Complete(ps, K \ gone, s)
  <2>1. K \subseteq Ids /\ \A i \in K : r[i] # None /\ r[i].published
    BY <1>5 DEF Complete
  <2>2. \A i \in K \ gone : s[i] # None /\ s[i].published
    BY <1>1, <1>2, <2>1 DEF RowsStay
  <2>3. RowsStay(r, s)
    BY <1>1, <1>2
  <2> QED BY <1>5, <2>2, <2>3, ChainStays, CompleteStays
<1>6. Chain(pages', row') /\ Complete(pages', kept', row')
  BY <1>1, <1>2, <1>5 DEF SearchInv
<1>7. Chain(fetch'.got, row') /\ Complete(fetch'.got, fetch'.kept, row') /\ ~Ended(fetch'.got)
  BY <1>1, <1>2, <1>4, <1>5 DEF SearchInv, FetchInv
<1>8. SearchTypes'
  BY <1>4 DEF SearchInv, SearchTypes
<1> QED BY <1>4, <1>6, <1>7, <1>8 DEF SearchInv, FetchInv

-----------------------------------------------------------------------------
(* Every step preserves it.                                                *)

LEMMA CreateRowKeeps ==
  ASSUME SearchInv, NEW i \in Ids, NEW at \in 0..MaxClock, CreateRow(i, at) PROVE SearchInv'
<1>0. RowsOK /\ fetch \in Fetches
  BY DEF SearchInv, SearchTypes
<1>1. [at |-> at, published |-> TRUE] \in Rows
  BY DEF Rows
<1>2. /\ row[i] = None /\ row' = [row EXCEPT ![i] = [at |-> at, published |-> TRUE]]
      /\ UNCHANGED <<clock, pages, fetch, kept, failures>>
  BY DEF CreateRow
<1>3. RowsOK'
  BY <1>0, <1>1, <1>2 DEF RowsOK
<1>4. \A j \in Ids : row[j] # None => row'[j] = row[j]
  BY <1>0, <1>2 DEF RowsOK
<1>5. PICK gone \in SUBSET Ids : gone = {}
  OBVIOUS
<1>6. RowsStay(row, row')
  BY <1>4 DEF RowsStay
<1>7. \A j \in Ids \ gone : row[j] # None /\ row[j].published => row'[j].published
  BY <1>4
<1>8. kept' = kept \ gone
  BY <1>2, <1>5
<1>9. fetch' = [fetch EXCEPT !.kept = fetch.kept \ gone]
  <2>1. fetch.kept \ gone = fetch.kept
    BY <1>5
  <2> QED BY <1>0, <1>2, <2>1 DEF Fetches
<1>10. UNCHANGED <<clock, pages, failures>>
  BY <1>2
<1> QED BY <1>3, <1>6, <1>7, <1>8, <1>9, <1>10, RowsChange

LEMMA TogglePublishedKeeps ==
  ASSUME SearchInv, NEW i \in Ids, TogglePublished(i) PROVE SearchInv'
<1>0. RowsOK /\ fetch \in Fetches
  BY DEF SearchInv, SearchTypes
<1>1. /\ row[i] # None /\ row' = [row EXCEPT ![i].published = ~row[i].published]
      /\ kept' = kept \ {i} /\ fetch' = [fetch EXCEPT !.kept = fetch.kept \ {i}]
      /\ UNCHANGED <<clock, pages, failures>>
  BY <1>0 DEF TogglePublished, RowsOK, Fetches
<1>2. row[i] \in Rows
  BY <1>0, <1>1 DEF RowsOK
<1>3. PICK new \in Rows : new = [row[i] EXCEPT !.published = ~row[i].published] /\ new.at = row[i].at
  <2>1. PICK b \in BOOLEAN : b = ~row[i].published
    OBVIOUS
  <2>2. PICK old \in Rows : old = row[i]
    BY <1>2
  <2>3. PICK new : new = [old EXCEPT !.published = b]
    OBVIOUS
  <2>4. new \in Rows /\ new.at = old.at
    BY <2>3 DEF Rows
  <2> QED BY <2>1, <2>2, <2>3, <2>4
<1>4. row' = [row EXCEPT ![i] = new] /\ new # None
  BY <1>1, <1>3, SearchAssumption
<1>5. RowsOK'
  BY <1>0, <1>3, <1>4 DEF RowsOK
<1>6. row'[i] = new /\ \A j \in Ids : j # i => row'[j] = row[j]
  BY <1>0, <1>4 DEF RowsOK
<1>7. RowsStay(row, row') /\ \A j \in Ids \ {i} : row[j] # None /\ row[j].published => row'[j].published
  BY <1>3, <1>4, <1>6 DEF RowsStay
<1> QED BY <1>1, <1>5, <1>7, RowsChange

LEMMA TickKeeps == ASSUME SearchInv, Tick PROVE SearchInv'
<1>1. clock' \in 0..MaxClock
  <2>1. clock \in 0..MaxClock
    BY DEF SearchInv, SearchTypes
  <2> QED BY <2>1, SearchAssumption DEF Tick
<1>2. UNCHANGED <<row, pages, fetch, kept, failures>>
  BY DEF Tick
<1> QED BY <1>1, <1>2 DEF SearchInv, SearchTypes, FetchInv, RowsOK

\* The first page is asked for, or all of them again.
LEMMA FetchBegins ==
  ASSUME SearchInv, OpenSearch \/ Refetch PROVE SearchInv'
<1>0. failures \in 0..MaxFailures
  BY DEF SearchInv, SearchTypes
<1>1. CASE OpenSearch
  <2>1. PICK f : f = Empty("first", 1)
    OBVIOUS
  <2>2. fetch' = f /\ UNCHANGED <<clock, row, pages, kept, failures>>
    <3>1. [NoFetch EXCEPT !.kind = "first", !.todo = 1] = f
      BY <2>1, NoFetchSet
    <3> QED BY <1>1, <3>1 DEF OpenSearch
  <2>3. /\ f \in Fetches /\ f.kind = "first" /\ f.todo = 1
        /\ Chain(f.got, row) /\ Complete(f.got, f.kept, row) /\ ~Ended(f.got)
    BY <2>1, TodoBound, EmptyIsAFetch
  <2> QED BY <1>0, <2>2, <2>3, FetchChanges
<1>2. CASE Refetch
  <2>1. PICK f : f = Empty("refetch", Len(pages))
    OBVIOUS
  <2>2. fetch' = f /\ UNCHANGED <<clock, row, pages, kept, failures>> /\ pages # <<>>
    <3>1. [NoFetch EXCEPT !.kind = "refetch", !.todo = Len(pages)] = f
      BY <2>1, NoFetchSet
    <3> QED BY <1>2, <3>1 DEF Refetch
  <2>3. Len(pages) \in 0..Cardinality(Ids) + 1 /\ Len(pages) >= 1
    <3>1. pages \in Seq(PageRecords) /\ Counted(pages)
      BY DEF SearchInv, Chain
    <3>2. Len(pages) \in Nat /\ Len(pages) >= 1
      BY <2>2, <3>1
    <3>3. Len(pages) <= Cardinality(ShownIn(pages)) + 1
      BY <3>1, <3>2, ShownAreIds DEF Counted
    <3> QED BY <3>1, <3>2, <3>3, ShownAreIds
  <2>4. /\ f \in Fetches /\ f.kind = "refetch" /\ f.todo = Len(pages)
        /\ Chain(f.got, row) /\ Complete(f.got, f.kept, row) /\ ~Ended(f.got)
    BY <2>1, <2>3, EmptyIsAFetch
  <2>5. f.todo >= 1
    BY <2>3, <2>4
  <2> QED BY <1>0, <2>2, <2>4, <2>5, FetchChanges
<1> QED BY <1>1, <1>2

LEMMA FetchNextPageKeeps == ASSUME SearchInv, FetchNextPage PROVE SearchInv'
<1>1. /\ pages # <<>> /\ ~Ended(pages)
      /\ fetch' = [kind |-> "next", got |-> pages, todo |-> 1, kept |-> kept]
      /\ UNCHANGED <<clock, row, pages, kept, failures>>
  BY DEF FetchNextPage, HasNextPage, Last, NoFetch, Ended
<1>2. PICK f : f = [kind |-> "next", got |-> pages, todo |-> 1, kept |-> kept]
  OBVIOUS
<1>3. /\ pages \in Seq(PageRecords) /\ kept \subseteq Ids /\ failures \in 0..MaxFailures
      /\ Chain(pages, row) /\ Complete(pages, kept, row)
  BY DEF SearchInv, SearchTypes, Chain, Complete
<1>4. f \in Fetches
  BY <1>2, <1>3, TodoBound DEF Fetches
<1>5. f.got = pages /\ f.kept = kept /\ f.todo = 1
  BY <1>2
<1>6. f.todo >= 1
  BY <1>5
<1> QED BY <1>1, <1>2, <1>3, <1>4, <1>5, <1>6, FetchChanges

LEMMA PageFailsKeeps == ASSUME SearchInv, PageFails PROVE SearchInv'
<1>1. PICK f : f = Empty("none", 0)
  OBVIOUS
<1>2. f = NoFetch /\ fetch' = f /\ UNCHANGED <<clock, row, pages, kept>>
  BY <1>1 DEF PageFails, NoFetch, Empty
<1>3. failures' \in 0..MaxFailures
  <2>1. failures \in 0..MaxFailures
    BY DEF SearchInv, SearchTypes
  <2> QED BY <2>1, SearchAssumption DEF PageFails
<1>4. /\ f \in Fetches /\ f.kind = "none"
      /\ Chain(f.got, row) /\ Complete(f.got, f.kept, row) /\ ~Ended(f.got)
  BY <1>1, TodoBound, EmptyIsAFetch
<1> QED BY <1>2, <1>3, <1>4, FetchChanges

LEMMA PageArrivesKeeps == ASSUME SearchInv, PageArrives PROVE SearchInv'
<1>0. SearchTypes /\ FetchInv /\ fetch \in Fetches /\ RowsOK
  BY DEF SearchInv, SearchTypes
<1>1. PICK got : got = fetch.got
  OBVIOUS
<1>2. PICK cursor : cursor = IF got = <<>> THEN None ELSE got[Len(got)].next
  OBVIOUS
<1>3. PICK page : page = FindAll(cursor)
  OBVIOUS
<1>4. PICK since : since = IF got = <<>> THEN Published ELSE fetch.kept
  OBVIOUS
<1>5. PICK longer : longer = Append(got, page)
  OBVIOUS
<1>6. /\ fetch.kind # "none" /\ UNCHANGED <<clock, row, failures>>
      /\ IF fetch.todo = 1 \/ page.next = None
         THEN pages' = longer /\ kept' = since /\ fetch' = NoFetch
         ELSE /\ fetch' = [fetch EXCEPT !.got = longer, !.todo = fetch.todo - 1, !.kept = since]
              /\ UNCHANGED <<pages, kept>>
  BY <1>0, <1>1, <1>2, <1>3, <1>4, <1>5 DEF PageArrives, Last, Fetches
<1>7. /\ Chain(longer, row) /\ Complete(longer, since, row)
      /\ longer # <<>> /\ longer[Len(longer)] = page
  <2>1. PICK K : K = fetch.kept
    OBVIOUS
  <2>2. Chain(got, row) /\ Complete(got, K, row) /\ ~Ended(got)
    BY <1>0, <1>1, <2>1 DEF FetchInv
  <2>3. since = IF got = <<>> THEN Published ELSE K
    BY <1>4, <2>1
  <2>4. RowsOK
    BY <1>0
  <2>5. \A c, q, t, l :
           /\ c = (IF got = <<>> THEN None ELSE got[Len(got)].next)
           /\ q = FindAll(c)
           /\ t = (IF got = <<>> THEN Published ELSE K)
           /\ l = Append(got, q)
           => Chain(l, row) /\ Complete(l, t, row) /\ l # <<>> /\ l[Len(l)] = q
    BY <2>2, <2>4, ChainGrows, Zenon
  <2> QED BY <1>2, <1>3, <1>5, <2>3, <2>5, Zenon
<1>8. CASE fetch.todo = 1 \/ page.next = None
  <2>1. pages' = longer /\ kept' = since /\ fetch' = NoFetch /\ row' = row
    BY <1>6, <1>8
  <2>2. PICK f : f = Empty("none", 0)
    OBVIOUS
  <2>3. fetch' = f
    BY <2>1, <2>2 DEF NoFetch, Empty
  <2>4. /\ f \in Fetches /\ f.kind = "none"
        /\ Chain(f.got, row) /\ Complete(f.got, f.kept, row) /\ ~Ended(f.got)
    BY <2>2, TodoBound, EmptyIsAFetch
  <2>5. FetchInv'
    BY <2>1, <2>3, <2>4 DEF FetchInv
  <2>6. SearchTypes'
    BY <1>0, <1>6, <2>3, <2>4 DEF SearchTypes, RowsOK
  <2>7. Chain(pages', row') /\ Complete(pages', kept', row')
    BY <1>7, <2>1
  <2> QED BY <2>5, <2>6, <2>7 DEF SearchInv
<1>9. CASE fetch.todo # 1 /\ page.next # None
  <2>1. PICK f : f = [fetch EXCEPT !.got = longer, !.todo = fetch.todo - 1, !.kept = since]
    OBVIOUS
  <2>2. fetch' = f /\ UNCHANGED <<clock, row, pages, kept, failures>>
    BY <1>6, <1>9, <2>1
  <2>3. longer \in Seq(PageRecords) /\ since \subseteq Ids
    BY <1>7 DEF Chain, Complete
  <2>4. fetch.todo - 1 \in 0..Cardinality(Ids) + 1 /\ fetch.todo - 1 >= 1
    <3>1. fetch.todo \in 0..Cardinality(Ids) + 1 /\ fetch.todo >= 1
      BY <1>0, <1>6 DEF Fetches, FetchInv
    <3> QED BY <1>9, <3>1, TodoBound
  <2>5. f \in Fetches /\ f.got = longer /\ f.kept = since /\ f.todo = fetch.todo - 1
    BY <1>0, <2>1, <2>3, <2>4 DEF Fetches
  <2>6. ~Ended(f.got)
    BY <1>7, <1>9, <2>5 DEF Ended
  <2>7. failures' \in 0..MaxFailures
    BY <1>0, <1>6 DEF SearchTypes
  <2> QED BY <1>7, <2>2, <2>4, <2>5, <2>6, <2>7, FetchChanges
<1> QED BY <1>8, <1>9

LEMMA SearchInvInit == ASSUME SearchInit PROVE SearchInv
<1>1. PICK f : f = Empty("none", 0)
  OBVIOUS
<1>2. fetch = f /\ pages = <<>> /\ kept = {}
  BY <1>1 DEF SearchInit, NoFetch, Empty
<1>3. /\ f \in Fetches /\ f.kind = "none"
      /\ Chain(f.got, row) /\ Complete(f.got, f.kept, row) /\ ~Ended(f.got)
  BY <1>1, TodoBound, EmptyIsAFetch
<1>4. Chain(pages, row) /\ Complete(pages, kept, row)
  BY <1>2, EmptyChain
<1>5. RowsOK /\ clock \in 0..MaxClock /\ failures \in 0..MaxFailures
  BY SearchAssumption DEF SearchInit, RowsOK
<1> QED BY <1>2, <1>3, <1>4, <1>5 DEF SearchInv, SearchTypes, FetchInv

LEMMA SearchInvStep == ASSUME SearchInv, SearchStep PROVE SearchInv'
BY CreateRowKeeps, TogglePublishedKeeps, TickKeeps, FetchBegins, FetchNextPageKeeps,
   PageArrivesKeeps, PageFailsKeeps DEF SearchStep

LEMMA SearchInvUnchanged == ASSUME SearchInv, UNCHANGED searchVars PROVE SearchInv'
BY DEF searchVars, SearchInv, SearchTypes, FetchInv, RowsOK

\* What the invariant says of the pages and of their types.
LEMMA SearchInvMeans ==
  ASSUME SearchInv
  PROVE  SearchTypeOK /\ NoneTwice /\ SkippedOnlyInTheMillisecond
<1>1. NoneTwice
  BY ChainShowsOnce DEF SearchInv, NoneTwice
<1>2. SearchTypeOK
  <2>1. \A n \in 1..Len(pages) : Cardinality(pages[n].rows) <= Limit
    BY DEF SearchInv, Chain, PageOK
  <2>2. kept \subseteq Ids /\ pages \in Seq(PageRecords)
    BY DEF SearchInv, Chain, Complete
  <2>3. /\ fetch.kind \in {"none", "first", "next", "refetch"} /\ fetch.got \in Seq(PageRecords)
        /\ fetch.todo \in 0..Cardinality(Ids) + 1 /\ fetch.kept \subseteq Ids
    BY DEF SearchInv, SearchTypes, Fetches
  <2> QED BY <2>1, <2>2, <2>3 DEF SearchInv, SearchTypes, RowsOK, SearchTypeOK
<1>3. SkippedOnlyInTheMillisecond
  <2>1. SUFFICES ASSUME NEW i \in Due, i \notin Shown
                 PROVE  \E n \in 1..Len(pages) :
                            /\ pages[n].next # None
                            /\ pages[n].next.at = (row[i].at \div Micros) * Micros
    BY DEF SkippedOnlyInTheMillisecond
  <2>2. /\ pages # <<>> /\ i \in kept
        /\ pages[Len(pages)].next = None \/ ~Before(KeyOf(row, i), pages[Len(pages)].next)
    BY DEF Due, Last, Key, KeyOf
  <2>3. Reached(i, pages, row)
    BY <2>2 DEF SearchInv, Complete
  <2> QED BY <2>1, <2>3 DEF Reached, ShownIn, Shown, Truncated
<1> QED BY <1>1, <1>2, <1>3
=================================================================================
