------------------------------- MODULE Listings -------------------------------
(***************************************************************************)
(* One tenant's listings and the handlers of listings.service.ts that      *)
(* write them.  Of a row only its status is kept.  A handler is a call     *)
(* that stops at every await: the count, the limit check, the insert, the  *)
(* load, the SELECT and UPDATE of a save, the dispatch of the match job.   *)
(* The limit comes from the subscription row of Subscriptions.             *)
(***************************************************************************)
EXTENDS Subscriptions

CONSTANTS
    Listings,       \* ids that rows of listings may take
    Calls,          \* calls of ListingsController in flight at a time
    MaxListings,    \* maxListings of each plan
    Handlers,       \* bound: the handlers that are called
    Asked,          \* bound: statuses that requests ask for
    BulkRows,       \* valid data rows of an uploaded CSV file
    MaxJobs,        \* bound on the match jobs ever dispatched
    NoListing,      \* null: a row that does not exist, a call on no row
    NoStatus        \* a save that has not read the row yet

ListingStatuses == {"draft", "pending_review", "published", "occupied", "archived"}

CallSteps == {"free", "row", "limit", "insert", "compare", "save", "dispatch"}

Operations == {"none", "create", "bulk", "update", "archive", "availability"}

AllHandlers == (Operations \ {"none"}) \cup {"submit"}

\* What happened to a listing: its owner submitted it; a job for it was offered
\* to the queue; or it was published with no offer to expect, because the
\* availability panel did it or the call died before the dispatch.
Marks == {"submitted", "offered", "exempt"}

\* One mark tells whether an offer is still owed.
Settled(m, mark) == IF m \cap {"offered", "exempt"} = {} THEN m \cup {mark} ELSE m

ASSUME ListingsAssumption ==
    /\ MaxListings \in [Plans -> Nat \ {0}]
    /\ Asked \subseteq ListingStatuses /\ Handlers \subseteq AllHandlers
    /\ NoStatus \notin ListingStatuses /\ NoListing \notin ListingStatuses
    /\ NoListing \notin Listings /\ IsFiniteSet(Calls)
    /\ BulkRows \in Nat \ {0} /\ MaxJobs \in Nat

VARIABLES
    listing,        \* status of each row, or NoListing
    call,           \* calls in flight
    queue,          \* queue[l][k]: waiting jobs of listing l that stalled k times
    dispatched,     \* match jobs ever dispatched
    marks           \* history: what happened to each listing

listingVars == <<listing, call, queue, dispatched, marks>>

CallRecords == [step : CallSteps, op : Operations, id : Listings \cup {NoListing},
                status : ListingStatuses, seen : ListingStatuses \cup {NoStatus},
                was : BOOLEAN, count : Nat, left : 0..BulkRows]

Free == [step |-> "free", op |-> "none", id |-> NoListing, status |-> "draft",
         seen |-> NoStatus, was |-> FALSE, count |-> 0, left |-> 0]

ListingsTypeOK ==
    /\ listing \in [Listings -> ListingStatuses \cup {NoListing}]
    /\ call \in [Calls -> CallRecords]
    /\ \A c \in Calls :
           call[c].step \in {"compare", "save", "dispatch"} => call[c].id \in Listings
    /\ queue \in [Listings -> [{0, 1} -> 0..MaxJobs]]
    /\ dispatched \in 0..MaxJobs
    /\ marks \in [Listings -> SUBSET Marks]

Existing == {l \in Listings : listing[l] # NoListing}

-----------------------------------------------------------------------------
(* create() and bulkUpload(): count, check the limit, insert.              *)

\* The request is answered, or the file's next row is read.
Done(c) ==
    IF call[c].op = "bulk" /\ call[c].left > 0
    THEN [Free EXCEPT !.step = "row", !.op = "bulk", !.left = call[c].left]
    ELSE Free

Counted(op, s, left) ==
    [Free EXCEPT !.step = "limit", !.op = op, !.status = s, !.left = left,
                 !.count = Cardinality(Existing)]

CreateListing(c, s) ==
    /\ "create" \in Handlers
    /\ call[c] = Free
    /\ call' = [call EXCEPT ![c] = Counted("create", s, 0)]
    /\ UNCHANGED <<listing, queue, dispatched, marks>>

\* A file is accepted; rows that fail the validation only count as failed.
BulkUpload(c) ==
    /\ "bulk" \in Handlers
    /\ call[c] = Free
    /\ call' = [call EXCEPT ![c] = [Free EXCEPT !.step = "row", !.op = "bulk",
                                                !.left = BulkRows]]
    /\ UNCHANGED <<listing, queue, dispatched, marks>>

BulkRow(c, s) ==
    /\ call[c].step = "row"
    /\ call' = [call EXCEPT ![c] = Counted("bulk", s, call[c].left - 1)]
    /\ UNCHANGED <<listing, queue, dispatched, marks>>

\* assertListingLimit(): only an active subscription limits.
WithinLimit(n) ==
    \/ sub = NoRow
    \/ sub.status # "active"
    \/ n < MaxListings[sub.planId]

\* Mutant: the limit itself is still allowed.
CheckLimitOffByOne(c) ==
    /\ call[c].step = "limit"
    /\ call' = [call EXCEPT ![c] =
                   IF WithinLimit(call[c].count - 1)
                   THEN [call[c] EXCEPT !.step = "insert", !.count = 0]
                   ELSE Done(c)]
    /\ UNCHANGED <<listing, queue, dispatched, marks>>

CheckLimit(c) ==
    /\ call[c].step = "limit"
    /\ call' = [call EXCEPT ![c] =
                   IF WithinLimit(call[c].count)
                   THEN [call[c] EXCEPT !.step = "insert", !.count = 0]
                   ELSE Done(c)]
    /\ UNCHANGED <<listing, queue, dispatched, marks>>

InsertListing(c, l) ==
    /\ call[c].step = "insert"
    /\ listing[l] = NoListing
    /\ listing' = [listing EXCEPT ![l] = call[c].status]
    /\ call' = [call EXCEPT ![c] =
                   IF call[c].status = "published"
                   THEN [call[c] EXCEPT !.step = "dispatch", !.id = l]
                   ELSE Done(c)]
    /\ UNCHANGED <<queue, dispatched, marks>>

\* The INSERT throws: the request fails, a file goes on with its next row.
InsertFails(c) ==
    /\ call[c].step = "insert"
    /\ call' = [call EXCEPT ![c] = Done(c)]
    /\ UNCHANGED <<listing, queue, dispatched, marks>>

\* ownerSubmit(): neither counted nor limited; the SMS may fail unnoticed.
OwnerSubmit(l) ==
    /\ "submit" \in Handlers
    /\ listing[l] = NoListing
    /\ listing' = [listing EXCEPT ![l] = "pending_review"]
    /\ marks' = [marks EXCEPT ![l] = @ \cup {"submitted"}]
    /\ UNCHANGED <<call, queue, dispatched>>

-----------------------------------------------------------------------------
(* update(), archive() and updateAvailability(): load, change, save.       *)

Load(c, l, op, s) ==
    /\ op \in Handlers
    /\ call[c] = Free
    /\ listing[l] # NoListing
    /\ call' = [call EXCEPT ![c] =
                   [Free EXCEPT !.step = "compare", !.op = op, !.id = l, !.status = s,
                                !.was = (listing[l] = "published")]]
    /\ UNCHANGED <<listing, queue, dispatched, marks>>

\* The body may name a status or leave it as loaded.
UpdateListing(c, l) == \E s \in Asked \cup {listing[l]} : Load(c, l, "update", s)

ArchiveListing(c, l) == Load(c, l, "archive", "archived")

UpdateAvailability(c, l) ==
    \E s \in (Asked \cap {"published", "occupied"}) \cup {listing[l]} :
        Load(c, l, "availability", s)

CompareListing(c) ==
    /\ call[c].step = "compare"
    /\ call' = [call EXCEPT ![c].step = "save", ![c].seen = listing[call[c].id]]
    /\ UNCHANGED <<listing, queue, dispatched, marks>>

\* Mutant: an update that publishes dispatches nothing.
SaveListingSilently(c) ==
    LET l == call[c].id
        new == Column(call[c].status, call[c].seen, listing[l])
    IN  /\ call[c].step = "save"
        /\ listing' = [listing EXCEPT ![l] = new]
        /\ call' = [call EXCEPT ![c] = Free]
        /\ marks' = [marks EXCEPT ![l] =
                        IF call[c].op = "availability" /\ new = "published"
                        THEN Settled(@, "exempt") ELSE @]
        /\ UNCHANGED <<queue, dispatched>>

\* The UPDATE, and for update() the test whether it published the listing.
SaveListing(c) ==
    LET l == call[c].id
        new == Column(call[c].status, call[c].seen, listing[l])
        publishes == /\ call[c].op = "update"
                     /\ ~call[c].was
                     /\ call[c].status = "published"
    IN  /\ call[c].step = "save"
        /\ listing' = [listing EXCEPT ![l] = new]
        /\ call' = [call EXCEPT ![c] =
                       IF publishes THEN [Free EXCEPT !.step = "dispatch", !.op = "update",
                                                      !.id = l, !.status = "published"]
                       ELSE Free]
        /\ marks' = [marks EXCEPT ![l] =
                        IF call[c].op = "availability" /\ new = "published"
                        THEN Settled(@, "exempt") ELSE @]
        /\ UNCHANGED <<queue, dispatched>>

-----------------------------------------------------------------------------
(* dispatchMatchJob(): an error of the queue is only logged.               *)

DispatchMatchJob(c) ==
    LET l == call[c].id
    IN  /\ call[c].step = "dispatch"
        /\ \/ /\ dispatched < MaxJobs
              /\ queue' = [queue EXCEPT ![l][0] = @ + 1]
              /\ dispatched' = dispatched + 1
           \/ UNCHANGED <<queue, dispatched>>
        /\ marks' = [marks EXCEPT ![l] = Settled(@, "offered")]
        /\ call' = [call EXCEPT ![c] = Done(c)]
        /\ UNCHANGED listing

\* A query throws or the process dies: the call stops where it is.
AbortCall(c) ==
    /\ call[c].step # "free"
    /\ call' = [call EXCEPT ![c] = Free]
    /\ marks' = IF call[c].step = "dispatch"
                THEN [marks EXCEPT ![call[c].id] = Settled(@, "exempt")] ELSE marks
    /\ UNCHANGED <<listing, queue, dispatched>>

ListingsInit ==
    /\ Init
    /\ sub # NoRow
    /\ listing = [l \in Listings |-> NoListing]
    /\ call = [c \in Calls |-> Free]
    /\ queue = [l \in Listings |-> [k \in {0, 1} |-> 0]]
    /\ dispatched = 0
    /\ marks = [l \in Listings |-> {}]

ListingsStep ==
    \/ \E l \in Listings : OwnerSubmit(l)
    \/ \E c \in Calls :
        \/ \E s \in Asked : CreateListing(c, s)
        \/ BulkUpload(c)
        \/ \E s \in Asked : BulkRow(c, s)
        \/ CheckLimit(c)
        \/ \E l \in Listings : InsertListing(c, l)
        \/ InsertFails(c)
        \/ \E l \in Listings : UpdateListing(c, l)
        \/ \E l \in Listings : ArchiveListing(c, l)
        \/ \E l \in Listings : UpdateAvailability(c, l)
        \/ CompareListing(c)
        \/ SaveListing(c)
        \/ DispatchMatchJob(c)
        \/ AbortCall(c)

-----------------------------------------------------------------------------
(* Properties.                                                             *)

\* While one plan limits the tenant, the listings its staff create pass that
\* plan's limit by at most one for every further creation in flight: each call
\* counts before it inserts, and a file counts again for each of its rows.
StaffCreated == {l \in Existing : "submitted" \notin marks[l]}

ListingsWithinLimit ==
    Cardinality(StaffCreated) < MaxListings[sub.planId] + Cardinality(Calls)

\* A published listing was offered to the matching queue, however updates,
\* archivals and stale saves overlap.  The exceptions are a call that died
\* before its dispatch, and the availability panel, which dispatches nothing.
PublishedWasOffered ==
    \A l \in Listings :
        listing[l] = "published" =>
            \/ marks[l] \cap {"offered", "exempt"} # {}
            \/ \E c \in Calls : call[c].step = "dispatch" /\ call[c].id = l
=============================================================================
