------------------------------- MODULE Matching -------------------------------
(***************************************************************************)
(* The matching queue's workers (matching.processor.ts) and what           *)
(* matching.service.ts does for a job: select the customers whose          *)
(* preference fits, and for each one check the log, take a credit, log the *)
(* message, hand it to the provider and note the outcome.  A worker stops  *)
(* at every await.  Jobs have one attempt: a job that throws fails, a job  *)
(* whose worker died is run again once (BullMQ's maxStalledCount).         *)
(***************************************************************************)
EXTENDS Listings

CONSTANTS
    Customers,
    Preference,     \* a customer's row of customer_preferences
    OptedIn,        \* customers with sms_opt_in
    Offer,          \* roomType, bhkType and rent of each listing
    Workers,        \* processes that run MatchingProcessor, one job each
    Null,           \* null in a column, no customer, no log row
    Nepal,          \* customers whose phone number begins with +977
    SmsKeys         \* SMS providers the deployment has keys for

\* What send() of an adapter may do.  delivered: accepted.  refused: not
\* accepted, and the adapter returns status "failed".  thrown: it throws and
\* the message went nowhere.  unanswered: it throws (a timeout, say) although
\* the provider took the message.
SparrowAnswers == {"delivered", "refused", "thrown", "unanswered"}

AakashAnswers == {"delivered", "refused", "thrown", "unanswered"}

TwilioAnswers == {"delivered", "thrown", "unanswered"}

NullAnswers == {"delivered"}

Answers == [sparrow |-> SparrowAnswers, aakash |-> AakashAnswers,
            twilio |-> TwilioAnswers, none |-> NullAnswers]

\* resolveAdapter(): without a key the message is only logged.
Adapter(c) ==
    CASE c \in Nepal /\ "sparrow" \in SmsKeys -> "sparrow"
      [] c \in Nepal /\ SmsKeys \cap {"sparrow", "aakash"} = {"aakash"} -> "aakash"
      [] c \notin Nepal /\ "twilio" \in SmsKeys -> "twilio"
      [] OTHER -> "none"

WorkerSteps == {"idle", "select", "credit", "log", "send", "note_sent",
                "note_failed", "refund"}

LogStatuses == {"queued", "sent", "failed"}

LogRows == [customer : Customers, listing : Listings, status : LogStatuses]

ASSUME MatchingAssumption ==
    /\ OptedIn \subseteq Customers /\ IsFiniteSet(Workers)
    /\ Null \notin Customers /\ Null \notin LogRows
    /\ Nepal \subseteq Customers /\ SmsKeys \subseteq {"sparrow", "aakash", "twilio"}

VARIABLES
    worker,         \* the job each worker runs and how far it is
    log,            \* log[n]: the row of sms_logs written for the n-th credit
    answer,         \* history: what send() did with the n-th message
    refunds,        \* history: how often the n-th credit was given back
    failedJobs      \* listings with a job in the queue's failed set

matchVars == <<worker, log, answer, refunds, failedJobs>>
allVars == <<subVars, listingVars, matchVars>>

CreditIds == 1..MaxSends

\* credit: the credit (and log row) of the message being sent, 0 before one.
WorkerRecords == [step : WorkerSteps, job : Listings \cup {NoListing}, stalls : {0, 1},
                  left : SUBSET Customers, to : Customers \cup {Null},
                  credit : 0..MaxSends]

Waiting == [step |-> "idle", job |-> NoListing, stalls |-> 0, left |-> {},
            to |-> Null, credit |-> 0]

MatchingTypeOK ==
    /\ ListingsTypeOK
    /\ worker \in [Workers -> WorkerRecords]
    /\ log \in [CreditIds -> LogRows \cup {Null}]
    /\ answer \in [CreditIds -> SparrowAnswers \cup {"none"}]
    /\ \A w \in Workers : worker[w].step = "select" => worker[w].left # {}
    /\ refunds \in [CreditIds -> Nat]
    /\ failedJobs \subseteq Listings

-----------------------------------------------------------------------------
(* Selecting the customers of a job.                                       *)

\* Mutant: a budget that the rent just reaches does not fit.
FitsStrictly(p, o) ==
    /\ p.active
    /\ p.roomType \in {Null, o.roomType}
    /\ p.bhkType \in {Null, o.bhkType}
    /\ p.budgetMin = Null \/ p.budgetMin <= o.rent
    /\ p.budgetMax = Null \/ p.budgetMax > o.rent

\* findMatchingPreferences(): a bound or type that is not set fits everything;
\* a listing without a bhkType fits only preferences without one.
Fits(p, o) ==
    /\ p.active
    /\ p.roomType \in {Null, o.roomType}
    /\ p.bhkType \in {Null, o.bhkType}
    /\ p.budgetMin = Null \/ p.budgetMin <= o.rent
    /\ p.budgetMax = Null \/ p.budgetMax >= o.rent

Selected(l) == {c \in OptedIn : Fits(Preference[c], Offer[l])}

Busy == {w \in Workers : worker[w].step # "idle"}

\* The bound MaxSends never stops a job half way.
RoomForJob(l) ==
    issued + Cardinality(Selected(l)) * (Cardinality(Busy) + 1) <= MaxSends

Sent(c, l) == {n \in CreditIds : log[n] = [customer |-> c, listing |-> l, status |-> "sent"]}

-----------------------------------------------------------------------------
(* A job, step by step.                                                    *)

\* A worker takes a waiting job; a listing that is not published ends it.
TakeJob(w, l, k) ==
    /\ worker[w] = Waiting
    /\ queue[l][k] > 0
    /\ RoomForJob(l)
    /\ queue' = [queue EXCEPT ![l][k] = @ - 1]
    /\ worker' = [worker EXCEPT ![w] =
                     IF listing[l] = "published" /\ Selected(l) # {}
                     THEN [Waiting EXCEPT !.step = "select", !.job = l, !.stalls = k,
                                          !.left = Selected(l)]
                     ELSE Waiting]
    /\ UNCHANGED <<subVars, listing, call, dispatched, marks, log, answer, refunds, failedJobs>>

\* Mutant: the end of the list is not noticed.
ContinuedPastEnd(w) == [worker[w] EXCEPT !.step = "select", !.to = Null, !.credit = 0]

\* The customer is dealt with: the next one, or the end of the job.
Continued(w) ==
    IF worker[w].left = {} THEN Waiting
    ELSE [worker[w] EXCEPT !.step = "select", !.to = Null, !.credit = 0]

\* sendMatchSms() begins: a customer whose log says SENT is skipped.
CheckAlreadySent(w, c) ==
    LET rest == [worker[w] EXCEPT !.left = @ \ {c}]
    IN  /\ worker[w].step = "select"
        /\ c \in worker[w].left
        /\ worker' = [worker EXCEPT ![w] =
                         IF Sent(c, worker[w].job) = {}
                         THEN [rest EXCEPT !.step = "credit", !.to = c]
                         ELSE IF rest.left = {} THEN Waiting ELSE rest]
        /\ UNCHANGED <<subVars, listingVars, log, answer, refunds, failedJobs>>

TakeCredit(w) ==
    /\ worker[w].step = "credit"
    /\ DeductSmsCredit
    /\ worker' = [worker EXCEPT ![w].step = "log", ![w].credit = issued + 1]
    /\ UNCHANGED <<listingVars, log, answer, refunds, failedJobs>>

\* No row, no balance or no active status: the customer is passed over.
NoCredit(w) ==
    /\ worker[w].step = "credit"
    /\ sub = NoRow \/ sub.credits = 0 \/ sub.status # "active"
    /\ worker' = [worker EXCEPT ![w] = Continued(w)]
    /\ UNCHANGED <<subVars, listingVars, log, answer, refunds, failedJobs>>

\* The template is found and rendered, and the message logged as QUEUED.
LogQueued(w) ==
    /\ worker[w].step = "log"
    /\ log' = [log EXCEPT ![worker[w].credit] =
                  [customer |-> worker[w].to, listing |-> worker[w].job,
                   status |-> "queued"]]
    /\ worker' = [worker EXCEPT ![w].step = "send"]
    /\ UNCHANGED <<subVars, listingVars, answer, refunds, failedJobs>>

\* smsProvider.send(): only a thrown error counts as a failure.
Send(w, outcome) ==
    /\ worker[w].step = "send"
    /\ worker' = [worker EXCEPT ![w].step =
                     IF outcome \in {"thrown", "unanswered"}
                     THEN "note_failed" ELSE "note_sent"]
    /\ answer' = [answer EXCEPT ![worker[w].credit] = outcome]
    /\ UNCHANGED <<subVars, listingVars, log, refunds, failedJobs>>

\* For mutants: the rows are found by customer and listing, not by id.
AllRows(w, status) ==
    [n \in CreditIds |->
        IF log[n] # Null /\ log[n].customer = worker[w].to /\ log[n].listing = worker[w].job
        THEN [log[n] EXCEPT !.status = status] ELSE log[n]]

\* Mutant: every row of the customer and listing is marked SENT.
NoteAllSent(w) ==
    /\ worker[w].step = "note_sent"
    /\ log' = AllRows(w, "sent")
    /\ KeepSmsCredit
    /\ worker' = [worker EXCEPT ![w] = Continued(w)]
    /\ UNCHANGED <<listingVars, answer, refunds, failedJobs>>

NoteSent(w) ==
    /\ worker[w].step = "note_sent"
    /\ log' = [log EXCEPT ![worker[w].credit].status = "sent"]
    /\ KeepSmsCredit
    /\ worker' = [worker EXCEPT ![w] = Continued(w)]
    /\ UNCHANGED <<listingVars, answer, refunds, failedJobs>>

\* The UPDATE to SENT is inside the try block.
NoteSentThrows(w) ==
    /\ worker[w].step = "note_sent"
    /\ worker' = [worker EXCEPT ![w].step = "note_failed"]
    /\ UNCHANGED <<subVars, listingVars, log, answer, refunds, failedJobs>>

\* Mutant: every row of the customer and listing is marked FAILED.
NoteAllFailed(w) ==
    /\ worker[w].step = "note_failed"
    /\ log' = AllRows(w, "failed")
    /\ worker' = [worker EXCEPT ![w].step = "refund"]
    /\ UNCHANGED <<subVars, listingVars, answer, refunds, failedJobs>>

NoteFailed(w) ==
    /\ worker[w].step = "note_failed"
    /\ log' = [log EXCEPT ![worker[w].credit].status = "failed"]
    /\ worker' = [worker EXCEPT ![w].step = "refund"]
    /\ UNCHANGED <<subVars, listingVars, answer, refunds, failedJobs>>

Refund(w) ==
    /\ worker[w].step = "refund"
    /\ RefundSmsCredit
    /\ refunds' = [refunds EXCEPT ![worker[w].credit] = @ + 1]
    /\ worker' = [worker EXCEPT ![w] = Continued(w)]
    /\ UNCHANGED <<listingVars, log, answer, failedJobs>>

-----------------------------------------------------------------------------
(* A job that does not get to its end.                                     *)

HoldsCredit(w) == worker[w].step \in {"log", "send", "note_sent", "note_failed", "refund"}

\* Mutant: a job that fails gives back what its message has cost.
ReturnCredit(w) ==
    IF HoldsCredit(w) THEN RefundSmsCredit ELSE UNCHANGED subVars

\* The credit of a message nobody finishes stays spent.
DropCredit(w) == IF HoldsCredit(w) THEN KeepSmsCredit ELSE UNCHANGED subVars

\* A query outside the try block throws: the job has no further attempt.
JobThrows(w) ==
    /\ worker[w].step \in {"select", "credit", "log", "note_failed", "refund"}
    /\ DropCredit(w)
    /\ failedJobs' = failedJobs \cup {worker[w].job}
    /\ worker' = [worker EXCEPT ![w] = Waiting]
    /\ UNCHANGED <<listingVars, log, answer, refunds>>

\* The process dies: the queue finds the job stalled and hands it out again,
\* the second time it fails it.
WorkerDies(w) ==
    LET l == worker[w].job
    IN  /\ worker[w].step # "idle"
        /\ DropCredit(w)
        /\ IF worker[w].stalls = 0
           THEN /\ queue' = [queue EXCEPT ![l][1] = @ + 1]
                /\ UNCHANGED failedJobs
           ELSE /\ failedJobs' = failedJobs \cup {l}
                /\ UNCHANGED queue
        /\ worker' = [worker EXCEPT ![w] = Waiting]
        /\ UNCHANGED <<listing, call, dispatched, marks, log, answer, refunds>>

-----------------------------------------------------------------------------
MatchInit ==
    /\ ListingsInit
    /\ worker = [w \in Workers |-> Waiting]
    /\ log = [n \in CreditIds |-> Null]
    /\ answer = [n \in CreditIds |-> "none"]
    /\ refunds = [n \in CreditIds |-> 0]
    /\ failedJobs = {}

WorkerStep(w) ==
    \/ \E l \in Listings, k \in {0, 1} : TakeJob(w, l, k)
    \/ \E c \in Customers : CheckAlreadySent(w, c)
    \/ TakeCredit(w)
    \/ NoCredit(w)
    \/ LogQueued(w)
    \/ \E outcome \in Answers[Adapter(worker[w].to)] : Send(w, outcome)
    \/ NoteSent(w)
    \/ NoteSentThrows(w)
    \/ NoteFailed(w)
    \/ Refund(w)

WorkerFault(w) == JobThrows(w) \/ WorkerDies(w)

MatchNext ==
    \/ ListingsStep /\ UNCHANGED <<subVars, matchVars>>
    \/ \E w \in Workers : WorkerStep(w) \/ WorkerFault(w)

MatchSpec == MatchInit /\ [][MatchNext]_allVars

\* A worker that is alive goes on with its job and takes the next one.
MatchFairSpec == MatchSpec /\ \A w \in Workers : WF_allVars(WorkerStep(w))

-----------------------------------------------------------------------------
(* Properties.                                                             *)

\* A credit is given back at most once, and only for a message logged as failed.
RefundMeansFailed ==
    \A n \in CreditIds :
        refunds[n] > 0 => /\ refunds[n] = 1
                          /\ log[n] # Null
                          /\ log[n].status = "failed"

Spent == {n \in 1..issued : refunds[n] = 0}

\* The balance and the credits that were taken and not given back make up the
\* plan's allowance to the last one; a credit is given back at most once, and only
\* for a message whose row says FAILED: the balance, the log and the refund are
\* written one after the other, by workers that throw and die in between.  A
\* credit in nobody's hands any more counts as taken: the code has no path that
\* gives it back.
BalanceIsAccounted ==
    /\ sub.credits + Cardinality(Spent) = Credits[sub.planId]
    /\ RefundMeansFailed

PastCheck(c, l) ==
    {w \in Workers : worker[w].job = l /\ worker[w].to = c}

\* The log gets at most as many SENT rows of one customer and listing as workers
\* run at a time, whatever jobs are repeated: the check of the log and the note in
\* it are awaits apart, so workers in between do not see one another.  It says
\* nothing of messages without such a row: PromiseSafety counts those too.
SentAtMostOncePerWorker ==
    \A c \in Customers, l \in Listings :
        Cardinality(Sent(c, l)) + Cardinality(PastCheck(c, l)) <= Cardinality(Workers)

\* The messages about a listing that reached a customer, whatever the log says.
Arrived(c, l) ==
    {n \in CreditIds : /\ answer[n] \in {"delivered", "unanswered"}
                       /\ log[n].customer = c /\ log[n].listing = l}

BeingNoted(n) == \E w \in Workers : worker[w].step = "note_sent" /\ worker[w].credit = n

\* Messages that arrived and are not, and will not be, noted as SENT: the
\* provider's answer, the UPDATE or the worker was lost.
Lost(c, l) == {n \in Arrived(c, l) : log[n].status # "sent" /\ ~BeingNoted(n)}

Pairs == Customers \X Listings

Told == [p \in Pairs |-> Arrived(p[1], p[2])]

Noted == [p \in Pairs |-> Arrived(p[1], p[2]) \cap Sent(p[1], p[2])]

Gone == [p \in Pairs |-> Lost(p[1], p[2])]

\* A customer is told of a listing again only while fewer messages than workers
\* are noted, or about to be: every further one stands for an arrived message
\* whose note was lost, and a note that is made is never taken back.
Promise == INSTANCE MatchingPromise WITH
    Limit <- Cardinality(Workers),
    Messages <- CreditIds,
    told <- Told,
    noted <- Noted,
    lost <- Gone

PromiseSafety == Promise!Safety

\* The documents' words, of a single worker: a job that is run again does not
\* send twice.
ToldAtMostOnce ==
    \A c \in Customers, l \in Listings : Cardinality(Arrived(c, l)) <= 1

\* The documents' words: a message the provider did not take is not SENT.
RefusedIsNotLoggedSent ==
    \A n \in CreditIds : answer[n] = "refused" => log[n].status # "sent"

\* The preference wants the listing, in words of its own: every type that is
\* set is the listing's, and the rent is inside the bounds that are set.
Wants(c, l) ==
    LET p == Preference[c]
        o == Offer[l]
    IN  /\ c \in OptedIn /\ p.active
        /\ p.roomType # Null => p.roomType = o.roomType
        /\ p.bhkType # Null => p.bhkType = o.bhkType
        /\ p.budgetMin # Null => ~(o.rent < p.budgetMin)
        /\ p.budgetMax # Null => ~(o.rent > p.budgetMax)

\* Once a job for a published listing waits, a message for every customer who
\* wants the listing is handed to the provider in the end, which may refuse it
\* or throw; or the job failed, the balance ran out or the listing was taken off
\* (or the bound on messages is reached).  A dying worker alone loses nobody.
MatchesAreHandedOver ==
    \A l \in Listings, c \in Customers :
        Wants(c, l) =>
            ((queue[l][0] > 0 /\ listing[l] = "published")
                ~> \/ \E n \in CreditIds : /\ answer[n] # "none"
                                           /\ log[n].customer = c /\ log[n].listing = l
                   \/ l \in failedJobs
                   \/ listing[l] # "published"
                   \/ sub.credits = 0
                   \/ ~RoomForJob(l))
=============================================================================
