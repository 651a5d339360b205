-------------------------------- MODULE Search --------------------------------
(***************************************************************************)
(* The public search: findAll() of listings.service.ts, which pages        *)
(* through the published listings by a cursor, and the endless list of     *)
(* SearchPage.tsx, which fetches page after page while listings come and   *)
(* go.  Rows have the microsecond now() gave them; the cursor carries the  *)
(* milliseconds of a JavaScript Date.  A row that the chosen filters do not *)
(* let pass is one that is not published.                                  *)
(***************************************************************************)
EXTENDS Naturals, FiniteSets, Sequences, SequencesExt

CONSTANTS
    Ids,            \* ids of listings; their order is that of the uuids
    Limit,          \* rows of a page
    Micros,         \* microseconds in a millisecond
    MaxClock,       \* bound on the microseconds that pass
    MaxFailures,    \* bound on the pages that do not arrive
    None            \* no row, no cursor

VARIABLES
    clock,
    row,            \* row[i]: created_at and whether it is published, or None
    pages,          \* the pages shown, each with the cursor of the next
    fetch,          \* the fetch in flight
    kept,           \* history: published ever since the first of the pages was asked for
    failures

searchVars == <<clock, row, pages, fetch, kept, failures>>

Rows == [at : 0..MaxClock, published : BOOLEAN]

Cursors == [at : 0..MaxClock, id : Ids]

ASSUME SearchAssumption ==
    /\ Ids \subseteq Nat /\ IsFiniteSet(Ids)
    /\ Limit \in Nat \ {0} /\ Micros \in Nat \ {0}
    /\ MaxClock \in Nat /\ MaxFailures \in Nat
    /\ None \notin Rows \cup Cursors

PageRecords == [rows : SUBSET Ids, next : Cursors \cup {None}]

\* got: the pages so far; todo: how many are left; kept: as above, for these.
NoFetch == [kind |-> "none", got |-> <<>>, todo |-> 0, kept |-> {}]

SearchTypeOK ==
    /\ clock \in 0..MaxClock /\ failures \in 0..MaxFailures
    /\ row \in [Ids -> Rows \cup {None}]
    /\ pages \in Seq(PageRecords)
    /\ \A n \in 1..Len(pages) : Cardinality(pages[n].rows) <= Limit
    /\ fetch.kind \in {"none", "first", "next", "refetch"}
    /\ fetch.got \in Seq(PageRecords)
    /\ fetch.todo \in 0..Cardinality(Ids) + 1
    /\ kept \subseteq Ids /\ fetch.kept \subseteq Ids

Published == {i \in Ids : row[i] # None /\ row[i].published}

-----------------------------------------------------------------------------
(* findAll(): ORDER BY created_at DESC, id DESC, one row more than a page. *)

Key(i) == [at |-> row[i].at, id |-> i]

\* Mutant: the row of the cursor is part of the next page.
BeforeOrEqual(a, b) == a.at < b.at \/ (a.at = b.at /\ a.id <= b.id)

Before(a, b) == a.at < b.at \/ (a.at = b.at /\ a.id < b.id)

Newer(i, S) == {j \in S : Key(i).at < Key(j).at \/ (Key(i).at = Key(j).at /\ i < j)}

\* Mutant: the cursor has the second only.
EncodeSecond(i) == [at |-> 0, id |-> i]

\* toISOString() has milliseconds.
EncodeCursor(i) == [at |-> (row[i].at \div Micros) * Micros, id |-> i]

\* Mutant: the row too many, which tells that there is a next page, stays.
FirstAndOneMore(S) == {i \in S : Cardinality(Newer(i, S)) <= Limit}

FirstPage(S) == {i \in S : Cardinality(Newer(i, S)) < Limit}

FindAll(cursor) ==
    LET found == {i \in Published : cursor = None \/ Before(Key(i), cursor)}
        rows == FirstPage(found)
    IN  [rows |-> rows,
         next |-> IF found = rows THEN None
                  ELSE EncodeCursor(CHOOSE i \in rows : Newer(i, rows) = rows \ {i})]

-----------------------------------------------------------------------------
(* Listings are created, published and taken off.                          *)

\* The clock of a row is that of its transaction, which commits a little later.
CreateRow(i, at) ==
    /\ row[i] = None
    /\ at \in {clock, clock - 1} \cap Nat
    /\ row' = [row EXCEPT ![i] = [at |-> at, published |-> TRUE]]
    /\ UNCHANGED <<clock, pages, fetch, kept, failures>>

TogglePublished(i) ==
    /\ row[i] # None
    /\ row' = [row EXCEPT ![i].published = ~@]
    /\ kept' = kept \ {i}
    /\ fetch' = [fetch EXCEPT !.kept = @ \ {i}]
    /\ UNCHANGED <<clock, pages, failures>>

Tick ==
    /\ clock < MaxClock
    /\ clock' = clock + 1
    /\ UNCHANGED <<row, pages, fetch, kept, failures>>

-----------------------------------------------------------------------------
(* useInfiniteQuery: the first page, the next one, and all of them again.  *)

HasNextPage == pages # <<>> /\ Last(pages).next # None

OpenSearch ==
    /\ pages = <<>> /\ fetch = NoFetch
    /\ fetch' = [NoFetch EXCEPT !.kind = "first", !.todo = 1]
    /\ UNCHANGED <<clock, row, pages, kept, failures>>

\* Mutant: the page waits for a refetch under way, and there may always be one.
FetchNextPageIfIdle ==
    /\ HasNextPage /\ fetch = NoFetch
    /\ fetch' = [NoFetch EXCEPT !.kind = "next", !.got = pages, !.todo = 1, !.kept = kept]
    /\ UNCHANGED <<clock, row, pages, kept, failures>>

\* The sentinel is in view.  A refetch under way is cancelled.
FetchNextPage ==
    /\ HasNextPage /\ fetch.kind # "next"
    /\ fetch' = [NoFetch EXCEPT !.kind = "next", !.got = pages, !.todo = 1, !.kept = kept]
    /\ UNCHANGED <<clock, row, pages, kept, failures>>

\* The window gets the focus and the list is stale.
Refetch ==
    /\ pages # <<>> /\ fetch = NoFetch
    /\ fetch' = [NoFetch EXCEPT !.kind = "refetch", !.todo = Len(pages)]
    /\ UNCHANGED <<clock, row, pages, kept, failures>>

\* Pages are asked for one after the other; what was fetched is shown at the end.
PageArrives ==
    LET page == FindAll(IF fetch.got = <<>> THEN None ELSE Last(fetch.got).next)
        got == Append(fetch.got, page)
        since == IF fetch.got = <<>> THEN Published ELSE fetch.kept
    IN  /\ fetch.kind # "none"
        /\ IF fetch.todo = 1 \/ page.next = None
           THEN pages' = got /\ kept' = since /\ fetch' = NoFetch
           ELSE /\ fetch' = [fetch EXCEPT !.got = got, !.todo = @ - 1, !.kept = since]
                /\ UNCHANGED <<pages, kept>>
        /\ UNCHANGED <<clock, row, failures>>

\* After a retry the pages stay as they were.
PageFails ==
    /\ fetch.kind # "none" /\ failures < MaxFailures
    /\ failures' = failures + 1
    /\ fetch' = NoFetch
    /\ UNCHANGED <<clock, row, pages, kept>>

-----------------------------------------------------------------------------
SearchInit ==
    /\ clock = 0
    /\ row = [i \in Ids |-> None]
    /\ pages = <<>> /\ fetch = NoFetch /\ kept = {} /\ failures = 0

SearchStep ==
    \/ \E i \in Ids, at \in 0..MaxClock : CreateRow(i, at)
    \/ \E i \in Ids : TogglePublished(i)
    \/ Tick \/ OpenSearch \/ FetchNextPage \/ Refetch \/ PageArrives \/ PageFails

-----------------------------------------------------------------------------
(* Properties.                                                             *)

\* No listing is on two pages, although rows are inserted and published between
\* the pages, some with an older created_at than rows that were shown before.
NoneTwice ==
    \A m, n \in 1..Len(pages) : m # n => pages[m].rows \cap pages[n].rows = {}

Shown == UNION {pages[n].rows : n \in 1..Len(pages)}

\* Published all the time, and newer than the end of what is shown.
Due == IF pages = <<>> THEN {}
       ELSE {i \in kept : Last(pages).next = None \/ ~Before(Key(i), Last(pages).next)}

\* The document's promise for the cursor (section 14.1): a customer who scrolls
\* while listings are inserted skips no row.
NothingIsSkipped == Due \subseteq Shown

\* What the code keeps of it: a listing that stays published is skipped only if
\* it was created in the millisecond of the last row of a page, whose cursor
\* has lost the microseconds.
SkippedOnlyInTheMillisecond ==
    \A i \in Due \ Shown :
        \E n \in 1..Len(pages) : /\ pages[n].next # None
                                 /\ pages[n].next.at = (row[i].at \div Micros) * Micros

\* Scrolling gets to the end of the list again and again: no page leads back to
\* an earlier one, and no refetch keeps the next page from being fetched.
AtEnd == pages # <<>> /\ ~HasNextPage

ScrollReachesEnd == []<>AtEnd
=============================================================================
