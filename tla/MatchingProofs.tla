---------------------------- MODULE MatchingProofs ----------------------------
(***************************************************************************)
(* Proofs about the matching workers and the listings, for any customers,  *)
(* listings, jobs and numbers of calls, workers and messages.              *)
(***************************************************************************)
EXTENDS Matching, TLAPS, FiniteSetTheorems

-----------------------------------------------------------------------------
(* The inductive invariant: a worker's credit is its own.                  *)

HoldSteps == {"log", "send", "note_sent", "note_failed", "refund"}

MatchTypes ==
    /\ worker \in [Workers -> WorkerRecords]
    /\ log \in [CreditIds -> LogRows \cup {Null}]
    /\ refunds \in [CreditIds -> Nat]
    /\ issued \in 0..MaxSends

Row(k, status) == [customer |-> k.to, listing |-> k.job, status |-> status]

\* What a worker's step tells of its customer, and of its credit's rows.
CustomerOK(k) ==
    /\ k.step \in {"idle", "select"} => k.to = Null
    /\ k.step \notin {"idle", "select"} => k.to \in Customers
    /\ k.step # "idle" => k.job \in Listings

CreditOK(k, rows, back, last) ==
    /\ k.step \in HoldSteps => k.credit \in 1..last /\ back[k.credit] = 0
    /\ k.step = "log" => rows[k.credit] = Null
    /\ k.step \in {"send", "note_sent", "note_failed"} => rows[k.credit] = Row(k, "queued")
    /\ k.step = "refund" => rows[k.credit] = Row(k, "failed")

CreditsDiffer ==
    \A v, w \in Workers :
        (v # w /\ worker[v].step \in HoldSteps /\ worker[w].step \in HoldSteps)
            => worker[v].credit # worker[w].credit

FreshIsEmpty == \A n \in CreditIds : n > issued => log[n] = Null /\ refunds[n] = 0

MatchInv ==
    /\ MatchTypes
    /\ \A w \in Workers : CustomerOK(worker[w]) /\ CreditOK(worker[w], log, refunds, issued)
    /\ CreditsDiffer
    /\ FreshIsEmpty
    /\ RefundMeansFailed

\* A credit that a worker may hold has a row.
LEMMA HeldHasRow == ASSUME MatchTypes PROVE 1..issued \subseteq CreditIds
BY BoundsAssumption DEF MatchTypes, CreditIds

\* A worker moves on; the others' credits and rows are not touched.
LEMMA WorkerMoves ==
  ASSUME MatchInv, MatchTypes', NEW w \in Workers, NEW k \in WorkerRecords,
         worker' = [worker EXCEPT ![w] = k], issued <= issued',
         CustomerOK(k), CreditOK(k, log', refunds', issued'),
         \A v \in Workers \ {w} : worker[v].step \in HoldSteps =>
             /\ log'[worker[v].credit] = log[worker[v].credit]
             /\ refunds'[worker[v].credit] = refunds[worker[v].credit]
             /\ k.step \in HoldSteps => k.credit # worker[v].credit,
         FreshIsEmpty', RefundMeansFailed'
  PROVE  MatchInv'
<1>0. \A v \in Workers : worker'[v] = IF v = w THEN k ELSE worker[v]
  BY DEF MatchInv, MatchTypes
<1>1. CreditsDiffer'
  BY <1>0 DEF MatchInv, CreditsDiffer
<1>2. ASSUME NEW v \in Workers \ {w}
      PROVE  CustomerOK(worker'[v]) /\ CreditOK(worker'[v], log', refunds', issued')
  <2>1. worker'[v] = worker[v] /\ CustomerOK(worker[v]) /\ CreditOK(worker[v], log, refunds, issued)
    BY <1>0 DEF MatchInv
  <2>2. CustomerOK(worker'[v])
    BY <2>1 DEF CustomerOK
  <2>3. 1..issued \subseteq 1..(issued')
    BY BoundsAssumption DEF MatchInv, MatchTypes
  <2>4. CreditOK(worker'[v], log', refunds', issued')
    BY <2>1, <2>3 DEF CreditOK, Row, HoldSteps
  <2> QED BY <2>2, <2>4
<1>3. CustomerOK(worker'[w]) /\ CreditOK(worker'[w], log', refunds', issued')
  BY <1>0 DEF CustomerOK, CreditOK, Row
<1> QED BY <1>1, <1>2, <1>3 DEF MatchInv

\* A worker that keeps its credit, or lets go of it, and writes nothing.
LEMMA QuietMove ==
  ASSUME MatchInv, NEW w \in Workers, NEW k \in WorkerRecords,
         worker' = [worker EXCEPT ![w] = k], UNCHANGED <<log, refunds, issued>>,
         CustomerOK(k), CreditOK(k, log', refunds', issued'),
         k.step \in HoldSteps => worker[w].step \in HoldSteps /\ k.credit = worker[w].credit
  PROVE  MatchInv'
<1>1. MatchTypes' /\ FreshIsEmpty' /\ RefundMeansFailed' /\ issued <= issued'
  BY BoundsAssumption DEF MatchInv, MatchTypes, FreshIsEmpty, RefundMeansFailed
<1>2. \A v \in Workers \ {w} :
          (worker[v].step \in HoldSteps /\ k.step \in HoldSteps) => k.credit # worker[v].credit
  BY DEF MatchInv, CreditsDiffer
<1> QED BY <1>1, <1>2, WorkerMoves

\* Where a worker goes that is done with a customer, or with its job.
LEMMA Rests ==
  ASSUME MatchInv, NEW w \in Workers
  PROVE  /\ Waiting \in WorkerRecords /\ CustomerOK(Waiting) /\ Waiting.step \notin HoldSteps
         /\ worker[w].step # "idle" =>
                /\ Continued(w) \in WorkerRecords /\ CustomerOK(Continued(w))
                /\ Continued(w).step \notin HoldSteps
<1>1. 0 \in 0..MaxSends /\ worker[w] \in WorkerRecords
  BY BoundsAssumption DEF MatchInv, MatchTypes
<1>2. Waiting \in WorkerRecords /\ CustomerOK(Waiting) /\ Waiting.step \notin HoldSteps
  BY <1>1 DEF Waiting, WorkerRecords, WorkerSteps, CustomerOK, HoldSteps
<1>3. ASSUME worker[w].step # "idle"
      PROVE  /\ Continued(w) \in WorkerRecords /\ CustomerOK(Continued(w))
             /\ Continued(w).step \notin HoldSteps
  <2> DEFINE k == [worker[w] EXCEPT !.step = "select", !.to = Null, !.credit = 0]
  <2>1. k \in WorkerRecords /\ k.step = "select" /\ k.to = Null /\ k.job = worker[w].job
    BY <1>1 DEF WorkerRecords, WorkerSteps
  <2>2. worker[w].job \in Listings
    BY <1>3 DEF MatchInv, CustomerOK
  <2>3. CustomerOK(k) /\ k.step \notin HoldSteps
    BY <2>1, <2>2 DEF CustomerOK, HoldSteps
  <2>4. Continued(w) = Waiting \/ Continued(w) = k
    BY DEF Continued
  <2> QED BY <1>2, <2>1, <2>3, <2>4
<1> QED BY <1>2, <1>3

\* A step that holds no credit says nothing of the rows.
LEMMA WithoutCredit ==
  ASSUME NEW k, k.step \notin HoldSteps
  PROVE  CreditOK(k, log', refunds', issued')
BY DEF CreditOK, HoldSteps

\* Taking a job, checking the log, calling the provider, and giving up.
LEMMA QuietSteps ==
  ASSUME MatchInv, NEW w \in Workers,
         \/ \E l \in Listings, j \in {0, 1} : TakeJob(w, l, j)
         \/ \E c \in Customers : CheckAlreadySent(w, c)
         \/ NoCredit(w)
         \/ \E outcome \in Answers[Adapter(worker[w].to)] : Send(w, outcome)
         \/ NoteSentThrows(w)
         \/ WorkerFault(w)
  PROVE  MatchInv'
<1>0. /\ worker \in [Workers -> WorkerRecords] /\ worker[w] \in WorkerRecords
      /\ CustomerOK(worker[w]) /\ CreditOK(worker[w], log, refunds, issued)
  BY DEF MatchInv, MatchTypes
<1>a. ASSUME NEW k \in WorkerRecords, CustomerOK(k), k.step \notin HoldSteps,
             worker' = [worker EXCEPT ![w] = k], UNCHANGED <<log, refunds, issued>>
      PROVE  MatchInv'
  BY <1>a, WithoutCredit, QuietMove
<1>1. ASSUME NEW l \in Listings, NEW j \in {0, 1}, TakeJob(w, l, j) PROVE MatchInv'
  <2> DEFINE k == [Waiting EXCEPT !.step = "select", !.job = l, !.stalls = j,
                                  !.left = Selected(l)]
  <2>1. Selected(l) \in SUBSET Customers /\ 0 \in 0..MaxSends
    BY MatchingAssumption, BoundsAssumption DEF Selected
  <2>2. k \in WorkerRecords /\ k.step = "select" /\ k.to = Null /\ k.job = l
    BY <2>1 DEF Waiting, WorkerRecords, WorkerSteps
  <2>3. CustomerOK(k) /\ k.step \notin HoldSteps
    BY <2>2 DEF CustomerOK, HoldSteps
  <2>4. /\ worker' = [worker EXCEPT ![w] = k] \/ worker' = [worker EXCEPT ![w] = Waiting]
        /\ UNCHANGED <<log, refunds, issued>>
    BY <1>1 DEF TakeJob, subVars
  <2> HIDE DEF k
  <2> QED BY <1>a, <2>2, <2>3, <2>4, Rests
<1>2. ASSUME NEW c \in Customers, CheckAlreadySent(w, c) PROVE MatchInv'
  <2> DEFINE rest == [worker[w] EXCEPT !.left = @ \ {c}]
             k == [rest EXCEPT !.step = "credit", !.to = c]
  <2>1. worker[w].left \ {c} \in SUBSET Customers /\ worker[w].step = "select"
    BY <1>0, <1>2 DEF CheckAlreadySent, WorkerRecords
  <2>2. /\ rest \in WorkerRecords /\ rest.step = "select" /\ rest.to = worker[w].to
        /\ rest.job = worker[w].job
    BY <1>0, <2>1 DEF WorkerRecords
  <2>3. k \in WorkerRecords /\ k.step = "credit" /\ k.to = c /\ k.job = worker[w].job
    BY <1>0, <2>2 DEF WorkerRecords, WorkerSteps
  <2>4. /\ CustomerOK(rest) /\ rest.step \notin HoldSteps
        /\ CustomerOK(k) /\ k.step \notin HoldSteps
    BY <1>0, <2>1, <2>2, <2>3 DEF CustomerOK, HoldSteps
  <2>5. /\ \/ worker' = [worker EXCEPT ![w] = k]
           \/ worker' = [worker EXCEPT ![w] = Waiting]
           \/ worker' = [worker EXCEPT ![w] = rest]
        /\ UNCHANGED <<log, refunds, issued>>
    BY <1>2 DEF CheckAlreadySent, subVars
  <2> HIDE DEF rest, k
  <2> QED BY <1>a, <2>2, <2>3, <2>4, <2>5, Rests
<1>3. CASE NoCredit(w)
  <2>1. /\ worker' = [worker EXCEPT ![w] = Continued(w)] /\ worker[w].step # "idle"
        /\ UNCHANGED <<log, refunds, issued>>
    BY <1>3 DEF NoCredit, subVars
  <2> QED BY <1>a, <2>1, Rests
<1>4. ASSUME NEW to \in {"note_sent", "note_failed"},
             worker[w].step \in {"send", "note_sent"}, worker' = [worker EXCEPT ![w].step = to],
             UNCHANGED <<log, refunds, issued>>
      PROVE  MatchInv'
  <2> DEFINE k == [worker[w] EXCEPT !.step = to]
  <2>1. /\ k \in WorkerRecords /\ k.step = to /\ k.to = worker[w].to
        /\ k.job = worker[w].job /\ k.credit = worker[w].credit
    BY <1>0 DEF WorkerRecords, WorkerSteps
  <2>2. worker' = [worker EXCEPT ![w] = k]
    BY <1>0, <1>4
  <2> HIDE DEF k
  <2>3. CustomerOK(k)
    BY <1>0, <1>4, <2>1 DEF CustomerOK
  <2>4. CreditOK(k, log', refunds', issued')
    BY <1>0, <1>4, <2>1 DEF CreditOK, Row, HoldSteps
  <2> QED BY <1>4, <2>1, <2>2, <2>3, <2>4, QuietMove DEF HoldSteps
<1>5. ASSUME NEW outcome, Send(w, outcome) PROVE MatchInv'
  BY <1>4, <1>5 DEF Send, subVars
<1>6. CASE NoteSentThrows(w)
  BY <1>4, <1>6 DEF NoteSentThrows, subVars
<1>7. CASE WorkerFault(w)
  <2>1. worker' = [worker EXCEPT ![w] = Waiting] /\ UNCHANGED <<log, refunds, issued>>
    BY <1>7 DEF WorkerFault, JobThrows, WorkerDies, DropCredit, KeepSmsCredit, subVars
  <2> QED BY <1>a, <2>1, Rests
<1> QED BY <1>1, <1>2, <1>3, <1>5, <1>6, <1>7

\* Taking a credit: the next one, which nobody has had.
LEMMA CreditTaken == ASSUME MatchInv, NEW w \in Workers, TakeCredit(w) PROVE MatchInv'
<1> DEFINE k == [worker[w] EXCEPT !.step = "log", !.credit = issued + 1]
<1>0. /\ worker \in [Workers -> WorkerRecords] /\ worker[w] \in WorkerRecords
      /\ CustomerOK(worker[w]) /\ issued \in 0..MaxSends /\ MaxSends \in Nat
      /\ log \in [CreditIds -> LogRows \cup {Null}] /\ refunds \in [CreditIds -> Nat]
      /\ FreshIsEmpty /\ RefundMeansFailed
  BY BoundsAssumption DEF MatchInv, MatchTypes
<1>1. /\ issued < MaxSends /\ issued' = issued + 1 /\ worker[w].step = "credit"
      /\ worker' = [worker EXCEPT ![w] = k] /\ UNCHANGED <<log, refunds>>
  BY <1>0 DEF TakeCredit, DeductSmsCredit
<1>2. issued + 1 \in CreditIds /\ issued + 1 \in 0..MaxSends /\ issued + 1 \in 1..(issued + 1)
  BY <1>0, <1>1 DEF CreditIds
<1>3. /\ k \in WorkerRecords /\ k.step = "log" /\ k.to = worker[w].to
      /\ k.job = worker[w].job /\ k.credit = issued + 1
  BY <1>0, <1>2 DEF WorkerRecords, WorkerSteps
<1> HIDE DEF k
<1>4. CustomerOK(k)
  BY <1>0, <1>1, <1>3 DEF CustomerOK
<1>5. log[issued + 1] = Null /\ refunds[issued + 1] = 0
  BY <1>0, <1>2 DEF FreshIsEmpty
<1>6. CreditOK(k, log', refunds', issued')
  BY <1>1, <1>2, <1>3, <1>5 DEF CreditOK
<1>7. MatchTypes' /\ FreshIsEmpty' /\ RefundMeansFailed' /\ issued <= issued'
  <2>1. worker' \in [Workers -> WorkerRecords]
    BY <1>0, <1>1, <1>3
  <2>2. MatchTypes' /\ issued <= issued'
    BY <1>0, <1>1, <1>2, <2>1 DEF MatchTypes
  <2>3. FreshIsEmpty'
    BY <1>0, <1>1 DEF FreshIsEmpty, CreditIds
  <2>4. RefundMeansFailed'
    BY <1>0, <1>1 DEF RefundMeansFailed
  <2> QED BY <2>2, <2>3, <2>4
<1>8. \A v \in Workers \ {w} : worker[v].step \in HoldSteps => k.credit # worker[v].credit
  <2>1. \A v \in Workers : worker[v].step \in HoldSteps => worker[v].credit \in 1..issued
    BY DEF MatchInv, CreditOK
  <2> QED BY <1>0, <1>3, <2>1
<1> QED BY <1>1, <1>3, <1>4, <1>6, <1>7, <1>8, WorkerMoves

\* Writing the row of the worker's own credit.
LEMMA RowWritten ==
  ASSUME MatchInv, NEW w \in Workers, NEW k \in WorkerRecords, NEW row \in LogRows,
         worker[w].step \in HoldSteps,
         worker' = [worker EXCEPT ![w] = k],
         log' = [log EXCEPT ![worker[w].credit] = row],
         UNCHANGED <<refunds, issued>>,
         CustomerOK(k), CreditOK(k, log', refunds', issued'),
         k.step \in HoldSteps => k.credit = worker[w].credit
  PROVE  MatchInv'
<1>1. worker[w].credit \in 1..issued /\ worker[w].credit \in CreditIds
      /\ refunds[worker[w].credit] = 0
  BY HeldHasRow DEF MatchInv, CreditOK
<1>2. MatchTypes' /\ issued <= issued'
  <2>1. worker' \in [Workers -> WorkerRecords] /\ log' \in [CreditIds -> LogRows \cup {Null}]
    BY <1>1 DEF MatchInv, MatchTypes
  <2> QED BY <2>1, BoundsAssumption DEF MatchInv, MatchTypes
<1>3. \A v \in Workers \ {w} : worker[v].step \in HoldSteps =>
          /\ log'[worker[v].credit] = log[worker[v].credit]
          /\ k.step \in HoldSteps => k.credit # worker[v].credit
  <2>1. \A v \in Workers \ {w} :
            worker[v].step \in HoldSteps => /\ worker[v].credit # worker[w].credit
                                            /\ worker[v].credit \in CreditIds
    BY HeldHasRow DEF MatchInv, CreditsDiffer, CreditOK
  <2> QED BY <2>1 DEF MatchInv, MatchTypes
<1>4. FreshIsEmpty' /\ RefundMeansFailed'
  <2>1. \A n \in CreditIds : n # worker[w].credit => log'[n] = log[n]
    BY DEF MatchInv, MatchTypes
  <2>2. \A n \in CreditIds : n > issued => n # worker[w].credit
    BY <1>1, BoundsAssumption DEF MatchInv, MatchTypes, CreditIds
  <2> QED BY <1>1, <2>1, <2>2 DEF MatchInv, FreshIsEmpty, RefundMeansFailed
<1> QED BY <1>2, <1>3, <1>4, WorkerMoves

\* A row of a worker's customer and listing.
LEMMA RowIsRow ==
  ASSUME NEW k, k.to \in Customers, k.job \in Listings, NEW status \in LogStatuses
  PROVE  /\ Row(k, status) \in LogRows
         /\ \A other : [Row(k, status) EXCEPT !.status = other] = Row(k, other)
BY DEF Row, LogRows

\* Logging the message and noting its outcome.
LEMMA LogSteps ==
  ASSUME MatchInv, NEW w \in Workers, LogQueued(w) \/ NoteSent(w) \/ NoteFailed(w)
  PROVE  MatchInv'
<1>0. /\ worker \in [Workers -> WorkerRecords] /\ worker[w] \in WorkerRecords
      /\ CustomerOK(worker[w]) /\ CreditOK(worker[w], log, refunds, issued)
      /\ log \in [CreditIds -> LogRows \cup {Null}]
  BY DEF MatchInv, MatchTypes
<1>1. /\ worker[w].step \in {"log", "note_sent", "note_failed"}
      /\ worker[w].step \in HoldSteps /\ worker[w].step # "idle"
      /\ UNCHANGED <<refunds, issued>>
  BY DEF LogQueued, NoteSent, NoteFailed, KeepSmsCredit, subVars, HoldSteps
<1>2. worker[w].to \in Customers /\ worker[w].job \in Listings
  BY <1>0, <1>1 DEF CustomerOK
<1>3. worker[w].credit \in CreditIds /\ refunds[worker[w].credit] = 0
      /\ worker[w].credit \in 1..issued
  BY <1>0, <1>1, HeldHasRow DEF CreditOK, MatchInv
<1>4. \A status \in LogStatuses : Row(worker[w], status) \in LogRows
  BY <1>2, RowIsRow
<1>5. CASE LogQueued(w)
  <2> DEFINE k == [worker[w] EXCEPT !.step = "send"]
  <2>1. /\ k \in WorkerRecords /\ k.step = "send" /\ k.to = worker[w].to
        /\ k.job = worker[w].job /\ k.credit = worker[w].credit
    BY <1>0 DEF WorkerRecords, WorkerSteps
  <2>2. /\ worker' = [worker EXCEPT ![w] = k]
        /\ log' = [log EXCEPT ![worker[w].credit] = Row(worker[w], "queued")]
    BY <1>0, <1>5 DEF LogQueued, Row
  <2> HIDE DEF k
  <2>3. CustomerOK(k)
    BY <1>2, <2>1 DEF CustomerOK
  <2>4. log'[worker[w].credit] = Row(worker[w], "queued")
    BY <1>0, <1>3, <2>2
  <2>5. CreditOK(k, log', refunds', issued')
    BY <1>1, <1>3, <2>1, <2>4 DEF CreditOK, Row
  <2>6. "queued" \in LogStatuses
    BY DEF LogStatuses
  <2> QED BY <1>1, <1>4, <2>1, <2>2, <2>3, <2>5, <2>6, RowWritten
<1>6. CASE NoteSent(w)
  <2>1. log[worker[w].credit] = Row(worker[w], "queued")
    BY <1>0, <1>6 DEF NoteSent, CreditOK
  <2>2. [log[worker[w].credit] EXCEPT !.status = "sent"] = Row(worker[w], "sent")
    BY <2>1 DEF Row
  <2>3. /\ worker' = [worker EXCEPT ![w] = Continued(w)]
        /\ log' = [log EXCEPT ![worker[w].credit] = Row(worker[w], "sent")]
    BY <1>0, <1>6, <2>2 DEF NoteSent
  <2>4. "sent" \in LogStatuses
    BY DEF LogStatuses
  <2> QED BY <1>1, <1>4, <2>3, <2>4, Rests, WithoutCredit, RowWritten
<1>7. CASE NoteFailed(w)
  <2> DEFINE k == [worker[w] EXCEPT !.step = "refund"]
  <2>1. /\ k \in WorkerRecords /\ k.step = "refund" /\ k.to = worker[w].to
        /\ k.job = worker[w].job /\ k.credit = worker[w].credit
    BY <1>0 DEF WorkerRecords, WorkerSteps
  <2>2. log[worker[w].credit] = Row(worker[w], "queued")
    BY <1>0, <1>7 DEF NoteFailed, CreditOK
  <2>3. [log[worker[w].credit] EXCEPT !.status = "failed"] = Row(worker[w], "failed")
    BY <2>2 DEF Row
  <2>4. /\ worker' = [worker EXCEPT ![w] = k]
        /\ log' = [log EXCEPT ![worker[w].credit] = Row(worker[w], "failed")]
    BY <1>0, <1>7, <2>3 DEF NoteFailed
  <2> HIDE DEF k
  <2>5. CustomerOK(k)
    BY <1>2, <2>1 DEF CustomerOK
  <2>6. log'[worker[w].credit] = Row(worker[w], "failed")
    BY <1>0, <1>3, <2>4
  <2>7. CreditOK(k, log', refunds', issued')
    BY <1>1, <1>3, <2>1, <2>6 DEF CreditOK, Row
  <2>8. "failed" \in LogStatuses
    BY DEF LogStatuses
  <2> QED BY <1>1, <1>4, <2>1, <2>4, <2>5, <2>7, <2>8, RowWritten
<1> QED BY <1>5, <1>6, <1>7

\* Giving the credit back, once, for a row that says FAILED.
LEMMA RefundStep == ASSUME MatchInv, NEW w \in Workers, Refund(w) PROVE MatchInv'
<1> DEFINE n == worker[w].credit
<1>0. /\ worker \in [Workers -> WorkerRecords] /\ worker[w].step = "refund"
      /\ CustomerOK(worker[w]) /\ CreditOK(worker[w], log, refunds, issued)
      /\ issued \in 0..MaxSends
      /\ refunds \in [CreditIds -> Nat] /\ MatchTypes
  BY DEF MatchInv, MatchTypes, Refund
<1>1. n \in CreditIds /\ refunds[n] = 0 /\ log[n] = Row(worker[w], "failed") /\ n \in 1..issued
  BY <1>0, HeldHasRow DEF CreditOK, HoldSteps
<1>2. /\ worker' = [worker EXCEPT ![w] = Continued(w)] /\ UNCHANGED <<log, issued>>
      /\ refunds' = [refunds EXCEPT ![n] = 1]
  BY <1>0, <1>1 DEF Refund, RefundSmsCredit
<1>3. log[n].status = "failed" /\ log[n] # Null
  <2>1. Row(worker[w], "failed") \in LogRows
    BY <1>0, RowIsRow DEF CustomerOK, LogStatuses
  <2> QED BY <1>1, <2>1, MatchingAssumption DEF Row
<1> HIDE DEF n
<1>4. MatchTypes' /\ issued <= issued'
  <2>1. worker' \in [Workers -> WorkerRecords] /\ refunds' \in [CreditIds -> Nat]
    BY <1>0, <1>1, <1>2, Rests
  <2> QED BY <1>0, <1>2, <2>1, BoundsAssumption DEF MatchTypes
<1>5. \A m \in CreditIds : refunds'[m] = IF m = n THEN 1 ELSE refunds[m]
  BY <1>0, <1>1, <1>2
<1>6. FreshIsEmpty' /\ RefundMeansFailed'
  <2>1. \A m \in CreditIds : m > issued => m # n
    BY <1>0, <1>1, BoundsAssumption DEF CreditIds
  <2>2. FreshIsEmpty'
    BY <1>2, <1>5, <2>1 DEF FreshIsEmpty, MatchInv
  <2>3. RefundMeansFailed'
    BY <1>2, <1>3, <1>5 DEF RefundMeansFailed, MatchInv
  <2> QED BY <2>2, <2>3
<1>7. \A v \in Workers \ {w} : worker[v].step \in HoldSteps =>
          refunds'[worker[v].credit] = refunds[worker[v].credit]
  <2>1. \A v \in Workers \ {w} :
            worker[v].step \in HoldSteps => worker[v].credit # n /\ worker[v].credit \in CreditIds
    BY <1>0, HeldHasRow DEF MatchInv, CreditsDiffer, CreditOK, HoldSteps, n
  <2> QED BY <1>5, <2>1
<1> QED BY <1>0, <1>2, <1>4, <1>6, <1>7, Rests, WithoutCredit, WorkerMoves

\* Every step keeps the invariant; those of the listings do not touch it.
LEMMA MatchSteps == MatchInv /\ [MatchNext]_allVars => MatchInv'
<1>1. ASSUME MatchInv, UNCHANGED <<subVars, matchVars>> PROVE MatchInv'
  BY <1>1 DEF subVars, matchVars, MatchInv, MatchTypes, CustomerOK, CreditOK, Row, CreditsDiffer,
              FreshIsEmpty, RefundMeansFailed
<1>2. ASSUME MatchInv, NEW w \in Workers, WorkerStep(w) \/ WorkerFault(w) PROVE MatchInv'
  BY <1>2, QuietSteps, CreditTaken, LogSteps, RefundStep DEF WorkerStep
<1> QED BY <1>1, <1>2 DEF MatchNext, allVars

\* The inductive invariant of the workers.
LEMMA MatchInvariant == MatchSpec => []MatchInv
<1>1. MatchInit => MatchInv
  <2> SUFFICES ASSUME MatchInit PROVE MatchInv
    OBVIOUS
  <2>1. issued = 0 /\ 0 \in 0..MaxSends
    BY BoundsAssumption DEF MatchInit, ListingsInit, Init
  <2>2. Waiting \in WorkerRecords /\ CustomerOK(Waiting) /\ Waiting.step = "idle"
    BY <2>1 DEF Waiting, WorkerRecords, WorkerSteps, CustomerOK
  <2>3. CreditOK(Waiting, log, refunds, issued)
    BY <2>2 DEF CreditOK, HoldSteps
  <2> QED BY <2>1, <2>2, <2>3
       DEF MatchInit, MatchInv, MatchTypes, CreditsDiffer, FreshIsEmpty, RefundMeansFailed, HoldSteps
<1> QED BY <1>1, MatchSteps, PTL DEF MatchSpec

-----------------------------------------------------------------------------
(* What a step of one worker leaves alone.                                 *)

\* Sets of workers and of credits are finite, and smaller ones have no more.
LEMMA SetsAreFinite ==
  /\ \A S \in SUBSET Workers : IsFiniteSet(S) /\ Cardinality(S) \in Nat
  /\ \A S, T \in SUBSET Workers : T \subseteq S => Cardinality(T) <= Cardinality(S)
  /\ \A c, l : IsFiniteSet(Sent(c, l)) /\ Cardinality(Sent(c, l)) \in Nat
<1>1. IsFiniteSet(CreditIds)
  BY BoundsAssumption, FS_Interval DEF CreditIds
<1>2. \A c, l : Sent(c, l) \subseteq CreditIds
  BY DEF Sent
<1> QED BY <1>1, <1>2, MatchingAssumption, FS_Subset, FS_CardinalityType

\* What a worker's step does to its own record.
LEMMA WorkerAlone ==
  ASSUME MatchInv, NEW w \in Workers, WorkerStep(w) \/ WorkerFault(w)
  PROVE  \A v \in Workers \ {w} : worker'[v] = worker[v]
BY DEF MatchInv, MatchTypes, WorkerStep, WorkerFault, TakeJob, CheckAlreadySent, TakeCredit,
       NoCredit, LogQueued, Send, NoteSent, NoteSentThrows, NoteFailed, Refund, JobThrows, WorkerDies

-----------------------------------------------------------------------------
(* Accounting for the balance.                                             *)

\* What was spent came from the row, and what was given back is there again.
BalanceInv ==
    /\ sub \in Rows
    /\ sub.credits + Cardinality(Spent) = Credits[sub.planId]

LEMMA SpentIsFinite ==
  ASSUME MatchTypes
  PROVE  IsFiniteSet(Spent) /\ Cardinality(Spent) \in Nat /\ issued \in Nat
<1>1. issued \in Nat /\ IsFiniteSet(1..issued)
  BY BoundsAssumption, FS_Interval DEF MatchTypes
<1>2. Spent \in SUBSET (1..issued)
  BY DEF Spent
<1> QED BY <1>1, <1>2, FS_Subset, FS_CardinalityType

\* The row with one credit less, or one more.
LEMMA RowWithCredits ==
  ASSUME NEW row \in Rows, NEW n \in Nat
  PROVE  /\ [row EXCEPT !.credits = n] \in Rows
         /\ [row EXCEPT !.credits = n].credits = n
         /\ [row EXCEPT !.credits = n].planId = row.planId
BY DEF Rows

LEMMA BalanceStep ==
  ASSUME MatchInv, BalanceInv, NEW w \in Workers, WorkerStep(w) \/ WorkerFault(w)
  PROVE  BalanceInv'
<1>0. /\ IsFiniteSet(Spent) /\ Cardinality(Spent) \in Nat /\ issued \in Nat /\ MatchTypes
      /\ sub \in Rows
  BY SpentIsFinite DEF MatchInv, BalanceInv
<1>1. CASE UNCHANGED <<sub, issued, refunds>>
  BY <1>1 DEF BalanceInv, Spent
<1>2. CASE TakeCredit(w)
  <2>1. /\ sub.credits > 0 /\ sub' = [sub EXCEPT !.credits = sub.credits - 1]
        /\ issued < MaxSends /\ issued' = issued + 1 /\ UNCHANGED refunds
    BY <1>0, <1>2 DEF TakeCredit, DeductSmsCredit
  <2>2. sub \in Rows /\ sub.credits - 1 \in Nat
    BY <1>0, <2>1 DEF Rows
  <2>3. sub' \in Rows /\ sub'.credits = sub.credits - 1 /\ sub'.planId = sub.planId
    BY <2>1, <2>2, RowWithCredits
  <2>4. refunds[issued + 1] = 0
    BY <1>0, <2>1, BoundsAssumption DEF MatchInv, FreshIsEmpty, CreditIds
  <2>5. Spent' = Spent \cup {issued + 1} /\ issued + 1 \notin Spent
    BY <1>0, <2>1, <2>4 DEF Spent
  <2>6. Cardinality(Spent') = Cardinality(Spent) + 1
    BY <1>0, <2>5, FS_AddElement
  <2> QED BY <1>0, <2>1, <2>2, <2>3, <2>6 DEF BalanceInv, Rows
<1>3. CASE Refund(w)
  <2>1. PICK n : n = worker[w].credit
    OBVIOUS
  <2>2. n \in 1..issued /\ n \in CreditIds /\ refunds[n] = 0
    BY <1>0, <1>3, <2>1, HeldHasRow DEF MatchInv, CreditOK, HoldSteps, Refund
  <2>4. /\ sub' = [sub EXCEPT !.credits = sub.credits + 1] /\ UNCHANGED issued
        /\ refunds' = [refunds EXCEPT ![n] = 1]
    BY <1>3, <2>1, <2>2 DEF Refund, RefundSmsCredit
  <2>5. sub \in Rows /\ sub.credits \in Nat /\ sub.credits + 1 \in Nat
    BY <1>0 DEF Rows
  <2>6. sub' \in Rows /\ sub'.credits = sub.credits + 1 /\ sub'.planId = sub.planId
    BY <2>4, <2>5, RowWithCredits
  <2>7. \A m \in 1..issued : refunds'[m] = IF m = n THEN 1 ELSE refunds[m]
    BY <1>0, <2>4, HeldHasRow DEF MatchTypes
  <2>8. Spent' = Spent \ {n} /\ n \in Spent
    BY <2>2, <2>4, <2>7 DEF Spent
  <2>9. Cardinality(Spent') = Cardinality(Spent) - 1
    BY <1>0, <2>8, FS_RemoveElement
  <2> QED BY <1>0, <2>4, <2>5, <2>6, <2>9 DEF BalanceInv
<1>4. CASE \/ NoteSent(w) \/ WorkerFault(w) \/ NoCredit(w) \/ LogQueued(w) \/ NoteSentThrows(w)
           \/ NoteFailed(w) \/ (\E outcome : Send(w, outcome))
           \/ \E l \in Listings, j \in {0, 1} : TakeJob(w, l, j)
           \/ \E c \in Customers : CheckAlreadySent(w, c)
  <2>1. UNCHANGED <<sub, issued, refunds>>
    BY <1>4
       DEF NoteSent, WorkerFault, JobThrows, WorkerDies, DropCredit, KeepSmsCredit, NoCredit,
           LogQueued, NoteSentThrows, NoteFailed, Send, TakeJob, CheckAlreadySent, subVars
  <2> QED BY <1>1, <2>1
<1> QED BY <1>2, <1>3, <1>4 DEF WorkerStep

\* The balance and the credits taken and not given back make up the allowance of
\* the plan, and only a failed message gets its credit back (sendMatchSms()).
THEOREM BalanceAddsUp == MatchSpec => []BalanceIsAccounted
<1>1. MatchInit => BalanceInv
  <2> SUFFICES ASSUME MatchInit PROVE BalanceInv
    OBVIOUS
  <2>1. PICK p \in Plans : sub = Written(Fresh(p, "active", Credits[p]))
    BY DEF MatchInit, ListingsInit, Init
  <2>2. issued = 0
    BY DEF MatchInit, ListingsInit, Init
  <2>3. Spent = {} /\ Cardinality(Spent) = 0
    BY <2>2, FS_EmptySet DEF Spent
  <2>4. sub = [planId |-> p, status |-> "active", credits |-> Credits[p], pendingPlanId |-> NoPlan]
    BY <2>1 DEF Written, Fresh
  <2>5. Credits[p] \in Nat
    BY PlansAssumption
  <2>6. sub \in Rows /\ sub.planId = p /\ sub.credits = Credits[p]
    BY <2>4, <2>5 DEF Rows, Statuses
  <2> QED BY <2>3, <2>5, <2>6 DEF BalanceInv
<1>2. MatchInv /\ BalanceInv /\ [MatchNext]_allVars => BalanceInv'
  <2>1. ASSUME BalanceInv, UNCHANGED <<subVars, matchVars>> PROVE BalanceInv'
    BY <2>1 DEF subVars, matchVars, BalanceInv, Spent
  <2> QED BY <2>1, BalanceStep DEF MatchNext, allVars
<1>3. MatchInv /\ BalanceInv => BalanceIsAccounted
  BY DEF MatchInv, BalanceInv, BalanceIsAccounted
<1> QED BY <1>1, <1>2, <1>3, MatchInvariant, PTL DEF MatchSpec

-----------------------------------------------------------------------------
(* Counting what a customer is told.                                       *)

Bounded(c, l) ==
    Cardinality(Sent(c, l)) + Cardinality(PastCheck(c, l)) <= Cardinality(Workers)

\* No row turns to sent, and only a customer who has been told nothing passes
\* the check.
NothingTold ==
    \A c \in Customers, l \in Listings :
        /\ Sent(c, l)' = Sent(c, l)
        /\ PastCheck(c, l)' \subseteq PastCheck(c, l) \/ Sent(c, l) = {}

\* One row of a customer whose worker is past the check turns to sent.
OneTold(w) ==
    \E c \in Customers, l \in Listings :
        /\ w \in PastCheck(c, l)
        /\ \E n \in CreditIds : n \notin Sent(c, l) /\ Sent(c, l)' = Sent(c, l) \cup {n}
        /\ PastCheck(c, l)' \subseteq PastCheck(c, l) \ {w}
        /\ \A d \in Customers, k \in Listings :
               (d # c \/ k # l) => /\ Sent(d, k)' = Sent(d, k)
                                   /\ PastCheck(d, k)' \subseteq PastCheck(d, k)

\* A row that is written, and whose customers it concerns.
LEMMA SentRows ==
  ASSUME MatchTypes, NEW n \in CreditIds, NEW row, log' = [log EXCEPT ![n] = row],
         NEW c, NEW l
  PROVE  Sent(c, l)' = {m \in CreditIds :
             IF m = n THEN row = [customer |-> c, listing |-> l, status |-> "sent"]
             ELSE m \in Sent(c, l)}
BY DEF MatchTypes, Sent

\* A worker that lets go of its customer, or keeps it.
LEMMA PastMoves ==
  ASSUME MatchInv, NEW w \in Workers, \A v \in Workers \ {w} : worker'[v] = worker[v],
         \/ worker'[w].to = Null
         \/ worker'[w].to = worker[w].to /\ worker'[w].job = worker[w].job,
         NEW c \in Customers, NEW l
  PROVE  PastCheck(c, l)' \subseteq PastCheck(c, l) \ (IF worker'[w].to = Null THEN {w} ELSE {})
BY MatchingAssumption DEF PastCheck

\* Where a worker that is done stands.
LEMMA RestsAtNull ==
  ASSUME MatchTypes, NEW w \in Workers
  PROVE  Waiting.to = Null /\ Continued(w).to = Null
<1>1. [worker[w] EXCEPT !.step = "select", !.to = Null, !.credit = 0].to = Null
  BY DEF MatchTypes, WorkerRecords
<1> QED BY <1>1 DEF Waiting, Continued

\* What each step tells the customers.
LEMMA Telling ==
  ASSUME MatchInv, NEW w \in Workers, WorkerStep(w) \/ WorkerFault(w)
  PROVE  NothingTold \/ OneTold(w)
<1>0. /\ worker \in [Workers -> WorkerRecords] /\ worker[w] \in WorkerRecords /\ MatchTypes
      /\ log \in [CreditIds -> LogRows \cup {Null}]
      /\ CustomerOK(worker[w]) /\ CreditOK(worker[w], log, refunds, issued)
  BY DEF MatchInv, MatchTypes
<1>1. \A v \in Workers \ {w} : worker'[v] = worker[v]
  BY WorkerAlone
<1>2. Waiting.to = Null /\ Continued(w).to = Null
  BY <1>0, RestsAtNull
<1>3. ASSUME \A c \in Customers, l \in Listings : Sent(c, l)' = Sent(c, l),
             \/ worker'[w].to = Null
             \/ worker'[w].to = worker[w].to /\ worker'[w].job = worker[w].job
      PROVE  NothingTold
  <2>1. \A c \in Customers, l \in Listings : PastCheck(c, l)' \subseteq PastCheck(c, l)
    BY <1>1, <1>3, PastMoves
  <2> QED BY <1>3, <2>1 DEF NothingTold
<1>4. CASE UNCHANGED log /\ ~\E c \in Customers : CheckAlreadySent(w, c)
  <2>1. \A c \in Customers, l \in Listings : Sent(c, l)' = Sent(c, l)
    BY <1>4 DEF Sent
  <2>2. \/ worker'[w].to = Null
        \/ worker'[w].to = worker[w].to /\ worker'[w].job = worker[w].job
    <3>1. ASSUME NEW l \in Listings, NEW j \in {0, 1}, TakeJob(w, l, j)
          PROVE  worker'[w].to = Null
      BY <1>0, <1>2, <3>1 DEF TakeJob, Waiting
    <3>2. CASE TakeCredit(w) \/ LogQueued(w) \/ NoteFailed(w) \/ NoteSentThrows(w)
               \/ \E outcome : Send(w, outcome)
      BY <1>0, <3>2 DEF TakeCredit, LogQueued, NoteFailed, NoteSentThrows, Send, WorkerRecords
    <3>3. CASE NoCredit(w) \/ NoteSent(w) \/ Refund(w) \/ WorkerFault(w)
      BY <1>0, <1>2, <3>3 DEF NoCredit, NoteSent, Refund, WorkerFault, JobThrows, WorkerDies
    <3> QED BY <1>4, <3>1, <3>2, <3>3 DEF WorkerStep
  <2> QED BY <1>3, <2>1, <2>2
<1>5. ASSUME NEW b \in Customers, CheckAlreadySent(w, b) PROVE NothingTold
  <2>1. \A c \in Customers, l \in Listings : Sent(c, l)' = Sent(c, l)
    BY <1>5 DEF CheckAlreadySent, Sent
  <2>2. CASE Sent(b, worker[w].job) # {}
    <3> DEFINE rest == [worker[w] EXCEPT !.left = @ \ {b}]
    <3>1. worker'[w] = Waiting \/ worker'[w] = rest
      BY <1>0, <1>5, <2>2 DEF CheckAlreadySent
    <3>2. rest.to = worker[w].to /\ rest.job = worker[w].job
      BY <1>0 DEF WorkerRecords
    <3> HIDE DEF rest
    <3>3. \/ worker'[w].to = Null
          \/ worker'[w].to = worker[w].to /\ worker'[w].job = worker[w].job
      BY <1>2, <3>1, <3>2
    <3> QED BY <1>3, <2>1, <3>3
  <2>3. CASE Sent(b, worker[w].job) = {}
    <3>1. worker'[w].to = b /\ worker'[w].job = worker[w].job
      BY <1>0, <1>5, <2>3 DEF CheckAlreadySent, WorkerRecords
    <3>2. ASSUME NEW c \in Customers, NEW l \in Listings
          PROVE  PastCheck(c, l)' \subseteq PastCheck(c, l) \/ Sent(c, l) = {}
      <4>1. CASE c = b /\ l = worker[w].job
        BY <2>3, <4>1
      <4>2. CASE ~(c = b /\ l = worker[w].job)
        BY <1>1, <3>1, <4>2 DEF PastCheck
      <4> QED BY <4>1, <4>2
    <3> QED BY <2>1, <3>2 DEF NothingTold
  <2> QED BY <2>2, <2>3
<1>6. CASE LogQueued(w) \/ NoteFailed(w)
  <2>1. PICK row : /\ log' = [log EXCEPT ![worker[w].credit] = row]
                   /\ row.status # "sent"
    <3>1. CASE LogQueued(w)
      <4>1. log' = [log EXCEPT ![worker[w].credit] = Row(worker[w], "queued")]
        BY <3>1 DEF LogQueued, Row
      <4>2. Row(worker[w], "queued").status # "sent"
        BY DEF Row
      <4> QED BY <4>1, <4>2
    <3>2. CASE NoteFailed(w)
      <4>1. log[worker[w].credit] = Row(worker[w], "queued")
        BY <1>0, <3>2 DEF NoteFailed, CreditOK
      <4>2. [log[worker[w].credit] EXCEPT !.status = "failed"] = Row(worker[w], "failed")
        BY <4>1 DEF Row
      <4>3. log' = [log EXCEPT ![worker[w].credit] = Row(worker[w], "failed")]
        BY <1>0, <3>2, <4>2 DEF NoteFailed
      <4>4. Row(worker[w], "failed").status # "sent"
        BY DEF Row
      <4> QED BY <4>3, <4>4
    <3> QED BY <1>6, <3>1, <3>2
  <2>2. /\ worker[w].credit \in CreditIds
        /\ log[worker[w].credit] = Null \/ log[worker[w].credit] = Row(worker[w], "queued")
    BY <1>0, <1>6, HeldHasRow DEF LogQueued, NoteFailed, CreditOK, HoldSteps
  <2>3. ASSUME NEW c \in Customers, NEW l \in Listings PROVE Sent(c, l)' = Sent(c, l)
    <3>1. worker[w].credit \notin Sent(c, l)
      <4>1. [customer |-> c, listing |-> l, status |-> "sent"] \in LogRows
        BY DEF LogRows, LogStatuses
      <4> QED BY <2>2, <4>1, MatchingAssumption DEF Sent, Row
    <3>2. row # [customer |-> c, listing |-> l, status |-> "sent"]
      BY <2>1
    <3> QED BY <1>0, <2>1, <2>2, <3>1, <3>2, SentRows DEF Sent
  <2>4. worker'[w].to = worker[w].to /\ worker'[w].job = worker[w].job
    BY <1>0, <1>6 DEF LogQueued, NoteFailed, WorkerRecords
  <2> QED BY <1>3, <2>3, <2>4
<1>7. CASE NoteSent(w)
  <2>1. /\ worker[w].credit \in CreditIds /\ worker[w].to \in Customers
        /\ worker[w].job \in Listings /\ log[worker[w].credit] = Row(worker[w], "queued")
    BY <1>0, <1>7, HeldHasRow DEF NoteSent, CreditOK, CustomerOK, HoldSteps
  <2>2. PICK n \in CreditIds, b \in Customers, j \in Listings :
            worker[w].credit = n /\ worker[w].to = b /\ worker[w].job = j
    BY <2>1
  <2>3. PICK row : row = [customer |-> b, listing |-> j, status |-> "sent"]
    OBVIOUS
  <2>4. \A m \in CreditIds : log'[m] = IF m = n THEN row ELSE log[m]
    <3>1. [log[n] EXCEPT !.status = "sent"] = row
      BY <2>1, <2>2, <2>3 DEF Row
    <3>2. log' = [log EXCEPT ![n] = row]
      BY <1>0, <1>7, <2>2, <3>1 DEF NoteSent
    <3> QED BY <1>0, <3>2
  <2>5. \A c \in Customers, l \in Listings : n \notin Sent(c, l)
    BY <2>1, <2>2 DEF Sent, Row
  <2>6. \A c \in Customers, l \in Listings :
            row = [customer |-> c, listing |-> l, status |-> "sent"] <=> c = b /\ l = j
    BY <2>3
  <2>7. Sent(b, j)' = Sent(b, j) \cup {n}
    BY <2>4, <2>6 DEF Sent
  <2>8. ASSUME NEW c \in Customers, NEW l \in Listings, c # b \/ l # j
        PROVE  Sent(c, l)' = Sent(c, l)
    <3>1. row # [customer |-> c, listing |-> l, status |-> "sent"]
      BY <2>6, <2>8
    <3>2. \A m \in CreditIds : m \in Sent(c, l)' <=> m \in Sent(c, l)
      BY <2>4, <2>5, <3>1 DEF Sent
    <3> QED BY <3>2 DEF Sent
  <2>9. worker'[w].to = Null /\ w \in PastCheck(b, j)
    BY <1>0, <1>2, <1>7, <2>2 DEF NoteSent, PastCheck
  <2>10. \A c \in Customers, l \in Listings : PastCheck(c, l)' \subseteq PastCheck(c, l) \ {w}
    BY <1>1, <2>9, PastMoves
  <2> QED BY <2>5, <2>7, <2>8, <2>9, <2>10 DEF OneTold
<1>8. LogQueued(w) \/ NoteSent(w) \/ NoteFailed(w) \/ UNCHANGED log
  BY DEF WorkerStep, WorkerFault, TakeJob, CheckAlreadySent, TakeCredit, NoCredit, Send,
         NoteSentThrows, Refund, JobThrows, WorkerDies
<1> QED BY <1>4, <1>5, <1>6, <1>7, <1>8

\* Each worker past the check stands for one more message at most.
LEMMA BoundStep ==
  ASSUME SentAtMostOncePerWorker, NEW w \in Workers, NothingTold \/ OneTold(w)
  PROVE  SentAtMostOncePerWorker'
<1> SUFFICES ASSUME NEW c \in Customers, NEW l \in Listings PROVE Bounded(c, l)'
  BY DEF SentAtMostOncePerWorker, Bounded
<1>0. /\ PastCheck(c, l) \in SUBSET Workers /\ PastCheck(c, l)' \in SUBSET Workers
      /\ Cardinality(PastCheck(c, l)) \in Nat /\ Cardinality(PastCheck(c, l)') \in Nat
      /\ Cardinality(Workers) \in Nat
      /\ IsFiniteSet(Sent(c, l)) /\ Cardinality(Sent(c, l)) \in Nat
      /\ Bounded(c, l)
  BY SetsAreFinite DEF PastCheck, SentAtMostOncePerWorker, Bounded
<1>1. ASSUME Sent(c, l)' = Sent(c, l), PastCheck(c, l)' \subseteq PastCheck(c, l)
      PROVE  Bounded(c, l)'
  <2>1. Cardinality(PastCheck(c, l)') <= Cardinality(PastCheck(c, l))
    BY <1>0, <1>1, SetsAreFinite
  <2> QED BY <1>0, <1>1, <2>1 DEF Bounded
<1>2. CASE NothingTold
  <2>1. CASE Sent(c, l) = {}
    <3>1. Sent(c, l)' = {} /\ Cardinality({}) = 0
      BY <1>2, <2>1, FS_EmptySet DEF NothingTold
    <3>2. Cardinality(PastCheck(c, l)') <= Cardinality(Workers)
      BY <1>0, SetsAreFinite
    <3> QED BY <1>0, <3>1, <3>2 DEF Bounded
  <2>2. CASE Sent(c, l) # {}
    BY <1>1, <1>2, <2>2 DEF NothingTold
  <2> QED BY <2>1, <2>2
<1>3. CASE OneTold(w)
  <2>1. PICK b \in Customers, j \in Listings :
            /\ w \in PastCheck(b, j)
            /\ \E n \in CreditIds : n \notin Sent(b, j) /\ Sent(b, j)' = Sent(b, j) \cup {n}
            /\ PastCheck(b, j)' \subseteq PastCheck(b, j) \ {w}
            /\ \A d \in Customers, k \in Listings :
                   (d # b \/ k # j) => /\ Sent(d, k)' = Sent(d, k)
                                       /\ PastCheck(d, k)' \subseteq PastCheck(d, k)
    BY <1>3 DEF OneTold
  <2>2. CASE c = b /\ l = j
    <3>1. Cardinality(Sent(c, l)') = Cardinality(Sent(c, l)) + 1
      BY <1>0, <2>1, <2>2, FS_AddElement
    <3>2. Cardinality(PastCheck(c, l) \ {w}) = Cardinality(PastCheck(c, l)) - 1
      BY <1>0, <2>1, <2>2, SetsAreFinite, FS_RemoveElement
    <3>3. Cardinality(PastCheck(c, l)') <= Cardinality(PastCheck(c, l) \ {w})
      BY <1>0, <2>1, <2>2, SetsAreFinite
    <3> QED BY <1>0, <3>1, <3>2, <3>3 DEF Bounded
  <2>3. CASE c # b \/ l # j
    BY <1>1, <2>1, <2>3
  <2> QED BY <2>2, <2>3
<1> QED BY <1>2, <1>3

\* The steps of the listings' handlers tell nobody anything.
LEMMA TellingStep ==
  ASSUME MatchInv, [MatchNext]_allVars
  PROVE  NothingTold \/ \E w \in Workers : OneTold(w)
<1>1. CASE UNCHANGED <<subVars, matchVars>>
  <2>1. \A c, l : Sent(c, l)' = Sent(c, l) /\ PastCheck(c, l)' = PastCheck(c, l)
    BY <1>1 DEF matchVars, Sent, PastCheck
  <2> QED BY <2>1 DEF NothingTold
<1> QED BY <1>1, Telling DEF MatchNext, allVars

\* The log gets no more SENT rows of one customer and listing than workers run at
\* a time, whatever jobs are repeated (sendMatchSms()).  It is a fact about rows;
\* PromiseIsKept is the one about messages.
THEOREM SentOncePerWorker == MatchSpec => []SentAtMostOncePerWorker
<1>1. MatchInit => SentAtMostOncePerWorker
  <2> SUFFICES ASSUME MatchInit, NEW c \in Customers, NEW l \in Listings PROVE Bounded(c, l)
    BY DEF SentAtMostOncePerWorker, Bounded
  <2>1. Sent(c, l) = {} /\ PastCheck(c, l) = {}
    <3>1. [customer |-> c, listing |-> l, status |-> "sent"] \in LogRows
      BY DEF LogRows, LogStatuses
    <3> QED BY <3>1, MatchingAssumption DEF MatchInit, Sent, PastCheck, Waiting
  <2>2. Cardinality(Workers) \in Nat /\ Cardinality({}) = 0
    BY SetsAreFinite, FS_EmptySet
  <2> QED BY <2>1, <2>2 DEF Bounded
<1>2. MatchInv /\ SentAtMostOncePerWorker /\ [MatchNext]_allVars => SentAtMostOncePerWorker'
  <2> SUFFICES ASSUME MatchInv, SentAtMostOncePerWorker, [MatchNext]_allVars
               PROVE  SentAtMostOncePerWorker'
    OBVIOUS
  <2>1. CASE NothingTold /\ Workers = {}
    <3>1. \A c \in Customers, l \in Listings : Sent(c, l)' = Sent(c, l)
                                               /\ PastCheck(c, l)' = {} /\ PastCheck(c, l) = {}
      BY <2>1 DEF NothingTold, PastCheck
    <3> QED BY <3>1 DEF SentAtMostOncePerWorker
  <2>2. CASE Workers # {} \/ \E w \in Workers : OneTold(w)
    BY <2>2, BoundStep, TellingStep
  <2> QED BY <2>1, <2>2, TellingStep
<1> QED BY <1>1, <1>2, MatchInvariant, PTL DEF MatchSpec

-----------------------------------------------------------------------------
(* The provider's answers.                                                 *)

\* A message whose worker has not called the provider has no answer.
AnswerInv ==
    /\ answer \in [CreditIds -> SparrowAnswers \cup {"none"}]
    /\ \A n \in CreditIds : log[n] = Null => answer[n] = "none"
    /\ \A w \in Workers : worker[w].step \in {"log", "send"} => answer[worker[w].credit] = "none"

\* What each provider may do is one of the four.
LEMMA KnownAnswers == \A a \in {"sparrow", "aakash", "twilio", "none"} : Answers[a] \subseteq SparrowAnswers
BY DEF Answers, SparrowAnswers, AakashAnswers, TwilioAnswers, NullAnswers

LEMMA OutcomesAreKnown ==
  ASSUME NEW c, NEW outcome \in Answers[Adapter(c)]
  PROVE  outcome \in SparrowAnswers
BY KnownAnswers DEF Adapter

\* A worker that comes to send a message found no row, so no answer, for it.
LEMMA AnswerStep ==
  ASSUME MatchInv, AnswerInv, NEW w \in Workers, WorkerStep(w) \/ WorkerFault(w)
  PROVE  AnswerInv'
<1>0. /\ worker \in [Workers -> WorkerRecords] /\ worker[w] \in WorkerRecords
      /\ CustomerOK(worker[w]) /\ CreditOK(worker[w], log, refunds, issued)
      /\ log \in [CreditIds -> LogRows \cup {Null}] /\ MatchTypes
  BY DEF MatchInv, MatchTypes
<1>1. \A v \in Workers \ {w} : worker'[v] = worker[v]
  BY WorkerAlone
<1>2. Waiting.step \notin HoldSteps /\ (worker[w].step # "idle" => Continued(w).step \notin HoldSteps)
  BY Rests
<1>3. ASSUME UNCHANGED answer, \A n \in CreditIds : log'[n] = Null => log[n] = Null,
             worker'[w].step \in {"log", "send"} => answer[worker'[w].credit] = "none"
      PROVE  AnswerInv'
  BY <1>1, <1>3 DEF AnswerInv
<1>4. CASE TakeCredit(w)
  <2>1. /\ issued < MaxSends /\ UNCHANGED <<log, answer>> /\ worker'[w].credit = issued + 1
    BY <1>0, <1>4 DEF TakeCredit, DeductSmsCredit, WorkerRecords
  <2>2. issued + 1 \in CreditIds /\ issued + 1 > issued
    BY <1>0, <2>1, BoundsAssumption DEF MatchTypes, CreditIds
  <2>3. answer[issued + 1] = "none"
    BY <2>2 DEF MatchInv, FreshIsEmpty, AnswerInv
  <2> QED BY <1>3, <2>1, <2>3
<1>5. CASE LogQueued(w)
  <2>1. /\ worker'[w].credit = worker[w].credit /\ UNCHANGED answer
        /\ worker[w].step = "log" /\ worker[w].credit \in CreditIds
    BY <1>0, <1>5, HeldHasRow DEF LogQueued, WorkerRecords, CreditOK, HoldSteps
  <2>2. log' = [log EXCEPT ![worker[w].credit] = Row(worker[w], "queued")]
        /\ Row(worker[w], "queued") # Null
    <3>1. Row(worker[w], "queued") \in LogRows
      BY <1>0, <2>1, RowIsRow DEF CustomerOK, LogStatuses
    <3> QED BY <1>5, <3>1, MatchingAssumption DEF LogQueued, Row
  <2>3. answer[worker[w].credit] = "none"
    BY <2>1 DEF AnswerInv
  <2> QED BY <1>0, <1>3, <2>1, <2>2, <2>3
<1>6. ASSUME NEW outcome \in Answers[Adapter(worker[w].to)], Send(w, outcome)
      PROVE  AnswerInv'
  <2>1. outcome \in SparrowAnswers
    BY <1>6, OutcomesAreKnown
  <2>2. PICK n \in CreditIds : n = worker[w].credit
    BY <1>0, <1>6, HeldHasRow DEF Send, CreditOK, HoldSteps
  <2>3. /\ answer' = [answer EXCEPT ![n] = outcome] /\ UNCHANGED log
        /\ worker'[w].step \notin {"log", "send"}
    BY <1>0, <1>6, <2>2 DEF Send
  <2>4. log[n] = Row(worker[w], "queued") /\ log[n] # Null
    <3>1. log[n] = Row(worker[w], "queued")
      BY <1>0, <1>6, <2>2 DEF Send, CreditOK
    <3>2. Row(worker[w], "queued") \in LogRows
      BY <1>0, <1>6, RowIsRow DEF Send, CustomerOK, LogStatuses
    <3> QED BY <3>1, <3>2, MatchingAssumption
  <2>5. \A v \in Workers \ {w} : worker[v].step \in {"log", "send"} => worker[v].credit # n
    BY <1>6, <2>2 DEF MatchInv, CreditsDiffer, HoldSteps, Send
  <2>6. \A v \in Workers \ {w} :
            worker[v].step \in {"log", "send"} => worker[v].credit \in CreditIds
    BY <1>0, HeldHasRow DEF MatchInv, CreditOK, HoldSteps
  <2>7. answer' \in [CreditIds -> SparrowAnswers \cup {"none"}]
    BY <2>1, <2>3 DEF AnswerInv
  <2>8. \A m \in CreditIds : log'[m] = Null => answer'[m] = "none"
    BY <2>3, <2>4 DEF AnswerInv
  <2>9. \A v \in Workers :
            worker'[v].step \in {"log", "send"} => answer'[worker'[v].credit] = "none"
    BY <1>1, <2>3, <2>5, <2>6 DEF AnswerInv
  <2> QED BY <2>7, <2>8, <2>9 DEF AnswerInv
<1>7. CASE NoteSent(w) \/ NoteFailed(w)
  <2>1. UNCHANGED answer /\ worker'[w].step \notin {"log", "send"}
    <3>1. CASE NoteSent(w)
      BY <1>0, <1>2, <3>1 DEF NoteSent, HoldSteps
    <3>2. CASE NoteFailed(w)
      BY <1>0, <3>2 DEF NoteFailed, WorkerRecords
    <3> QED BY <1>7, <3>1, <3>2
  <2>2. \A n \in CreditIds : log'[n] = Null => log[n] = Null
    <3>1. PICK status \in LogStatuses : log' = [log EXCEPT ![worker[w].credit].status = status]
      BY <1>7 DEF NoteSent, NoteFailed, LogStatuses
    <3>2. log[worker[w].credit] = Row(worker[w], "queued") /\ worker[w].to \in Customers
          /\ worker[w].job \in Listings
      BY <1>0, <1>7 DEF NoteSent, NoteFailed, CreditOK, CustomerOK
    <3>3. [log[worker[w].credit] EXCEPT !.status = status] \in LogRows
      BY <3>2, RowIsRow, "queued" \in LogStatuses DEF LogStatuses
    <3> QED BY <1>0, <3>1, <3>3, MatchingAssumption
  <2> QED BY <1>3, <2>1, <2>2
<1>8. CASE \/ \E l \in Listings, j \in {0, 1} : TakeJob(w, l, j)
           \/ \E c \in Customers : CheckAlreadySent(w, c)
           \/ NoCredit(w) \/ NoteSentThrows(w) \/ Refund(w) \/ WorkerFault(w)
  <2>1. UNCHANGED <<log, answer>>
    BY <1>8 DEF TakeJob, CheckAlreadySent, NoCredit, NoteSentThrows, Refund, WorkerFault,
                JobThrows, WorkerDies
  <2>2. worker'[w].step \notin {"log", "send"}
    <3>1. ASSUME NEW l \in Listings, NEW j \in {0, 1}, TakeJob(w, l, j)
          PROVE  worker'[w].step \notin {"log", "send"}
      BY <1>0, <3>1 DEF TakeJob, Waiting
    <3>2. ASSUME NEW c \in Customers, CheckAlreadySent(w, c)
          PROVE  worker'[w].step \notin {"log", "send"}
      BY <1>0, <3>2 DEF CheckAlreadySent, WorkerRecords, Waiting
    <3>3. CASE NoCredit(w) \/ Refund(w) \/ WorkerFault(w)
      BY <1>0, <1>2, <3>3 DEF NoCredit, Refund, WorkerFault, JobThrows, WorkerDies, HoldSteps
    <3>4. CASE NoteSentThrows(w)
      BY <1>0, <3>4 DEF NoteSentThrows, WorkerRecords
    <3> QED BY <1>8, <3>1, <3>2, <3>3, <3>4
  <2> QED BY <1>3, <2>1, <2>2
<1> QED BY <1>4, <1>5, <1>6, <1>7, <1>8 DEF WorkerStep

LEMMA AnswerInvariant == MatchSpec => []AnswerInv
<1>1. MatchInit => AnswerInv
  BY DEF MatchInit, AnswerInv, Waiting
<1>2. MatchInv /\ AnswerInv /\ [MatchNext]_allVars => AnswerInv'
  <2>1. ASSUME AnswerInv, UNCHANGED <<subVars, matchVars>> PROVE AnswerInv'
    BY <2>1 DEF matchVars, AnswerInv
  <2> QED BY <2>1, AnswerStep DEF MatchNext, allVars
<1> QED BY <1>1, <1>2, MatchInvariant, PTL DEF MatchSpec

-----------------------------------------------------------------------------
(* The promise.                                                            *)

\* The promise counts as everyone does.
LEMMA SameCount == \A S : Promise!Cardinality(S) = Cardinality(S)
BY DEF Promise!Cardinality, Cardinality, Promise!IsFiniteSet, IsFiniteSet

\* Everything but the message n stays as it is.
OthersStay(n) ==
    \A m \in CreditIds \ {n} :
        log'[m] = log[m] /\ answer'[m] = answer[m] /\ (BeingNoted(m)' <=> BeingNoted(m))

\* What a map of sets keeps, or gains, when one of its sets changes in one member.
LEMMA OneMember ==
  ASSUME NEW F, NEW G, NEW p \in Pairs, NEW n, F = [q \in Pairs |-> F[q]], G = [q \in Pairs |-> G[q]],
         \A q \in Pairs \ {p} : G[q] = F[q],
         \A q \in Pairs : F[q] \subseteq CreditIds /\ G[q] \subseteq CreditIds,
         \A m \in CreditIds \ {n} : m \in G[p] <=> m \in F[p]
  PROVE  /\ (n \in G[p] <=> n \in F[p]) => G = F
         /\ n \in G[p] => G = [F EXCEPT ![p] = F[p] \cup {n}]
<1>1. ASSUME n \in G[p] <=> n \in F[p] PROVE G = F
  <2>1. G[p] = F[p]
    BY <1>1
  <2>2. \A q \in Pairs : G[q] = F[q]
    BY <2>1
  <2> QED BY <2>2
<1>2. ASSUME n \in G[p] PROVE G = [F EXCEPT ![p] = F[p] \cup {n}]
  <2>1. G[p] = F[p] \cup {n}
    BY <1>2
  <2>2. \A q \in Pairs : G[q] = [F EXCEPT ![p] = F[p] \cup {n}][q]
    BY <2>1
  <2>3. [F EXCEPT ![p] = F[p] \cup {n}] = [q \in Pairs |-> [F EXCEPT ![p] = F[p] \cup {n}][q]]
    OBVIOUS
  <2> QED BY <2>2, <2>3
<1> QED BY <1>1, <1>2

\* The messages each of the three holds.
LEMMA HeldMessages ==
  /\ Told = [q \in Pairs |-> Told[q]] /\ \A q \in Pairs : Told[q] \subseteq CreditIds
  /\ Noted = [q \in Pairs |-> Noted[q]] /\ \A q \in Pairs : Noted[q] \subseteq CreditIds
  /\ Gone = [q \in Pairs |-> Gone[q]] /\ \A q \in Pairs : Gone[q] \subseteq CreditIds
  /\ \A c \in Customers, l \in Listings :
         /\ <<c, l>> \in Pairs /\ Told[<<c, l>>] = Arrived(c, l) /\ Gone[<<c, l>>] = Lost(c, l)
         /\ Noted[<<c, l>>] = Arrived(c, l) \cap Sent(c, l)
BY DEF Told, Noted, Gone, Pairs, Arrived, Sent, Lost

\* A step that touches one message, and only in what is known of b and j.
LEMMA OneMessage ==
  ASSUME NEW n \in CreditIds, NEW b \in Customers, NEW j \in Listings, OthersStay(n),
         (log[n].customer = b /\ log[n].listing = j) \/ answer[n] = "none",
         (log'[n].customer = b /\ log'[n].listing = j) \/ answer'[n] = "none"
  PROVE  /\ (n \in Arrived(b, j)' <=> n \in Arrived(b, j)) => Told' = Told
         /\ n \in Arrived(b, j)' => Told' = [Told EXCEPT ![<<b, j>>] = Told[<<b, j>>] \cup {n}]
         /\ (n \in (Arrived(b, j) \cap Sent(b, j))' <=> n \in Arrived(b, j) \cap Sent(b, j))
                => Noted' = Noted
         /\ n \in (Arrived(b, j) \cap Sent(b, j))'
                => Noted' = [Noted EXCEPT ![<<b, j>>] = Noted[<<b, j>>] \cup {n}]
         /\ (n \in Lost(b, j)' <=> n \in Lost(b, j)) => Gone' = Gone
         /\ n \in Lost(b, j)' => Gone' = [Gone EXCEPT ![<<b, j>>] = Gone[<<b, j>>] \cup {n}]
<1>1. ASSUME NEW c \in Customers, NEW l \in Listings, NEW m \in CreditIds \ {n}
      PROVE  /\ m \in Arrived(c, l)' <=> m \in Arrived(c, l)
             /\ m \in Sent(c, l)' <=> m \in Sent(c, l)
             /\ m \in Lost(c, l)' <=> m \in Lost(c, l)
  BY DEF OthersStay, Arrived, Sent, Lost
<1>2. ASSUME NEW c \in Customers, NEW l \in Listings, c # b \/ l # j
      PROVE  n \notin Arrived(c, l) /\ n \notin Arrived(c, l)'
  BY <1>2 DEF Arrived
<1>3. ASSUME NEW c \in Customers, NEW l \in Listings, c # b \/ l # j
      PROVE  /\ Arrived(c, l)' = Arrived(c, l)
             /\ (Arrived(c, l) \cap Sent(c, l))' = Arrived(c, l) \cap Sent(c, l)
             /\ Lost(c, l)' = Lost(c, l)
  <2>1. /\ Arrived(c, l) \subseteq CreditIds /\ Arrived(c, l)' \subseteq CreditIds
        /\ Sent(c, l) \subseteq CreditIds /\ Sent(c, l)' \subseteq CreditIds
    BY DEF Arrived, Sent, CreditIds
  <2>2. Lost(c, l) \subseteq Arrived(c, l) /\ Lost(c, l)' \subseteq Arrived(c, l)'
    BY DEF Lost
  <2>3. \A m \in CreditIds : /\ m \in Arrived(c, l)' <=> m \in Arrived(c, l)
                             /\ m \in Lost(c, l)' <=> m \in Lost(c, l)
    BY <1>1, <1>2, <1>3, <2>2
  <2>4. \A m \in Arrived(c, l) : m \in Sent(c, l)' <=> m \in Sent(c, l)
    BY <1>1, <1>2, <1>3, <2>1
  <2>5. Arrived(c, l)' = Arrived(c, l)
    BY <2>1, <2>3
  <2>6. Lost(c, l)' = Lost(c, l)
    BY <2>1, <2>2, <2>3
  <2>7. (Arrived(c, l) \cap Sent(c, l))' = Arrived(c, l) \cap Sent(c, l)
    BY <2>4, <2>5
  <2> QED BY <2>5, <2>6, <2>7
<1>4. \A p \in Pairs \ {<<b, j>>} : Told'[p] = Told[p] /\ Noted'[p] = Noted[p] /\ Gone'[p] = Gone[p]
  <2> SUFFICES ASSUME NEW c \in Customers, NEW l \in Listings, <<c, l>> # <<b, j>>
               PROVE  /\ Told'[<<c, l>>] = Told[<<c, l>>] /\ Noted'[<<c, l>>] = Noted[<<c, l>>]
                      /\ Gone'[<<c, l>>] = Gone[<<c, l>>]
    BY DEF Pairs
  <2>1. c # b \/ l # j
    OBVIOUS
  <2> QED BY <1>3, <2>1 DEF Told, Noted, Gone, Pairs
<1>5. /\ Told'[<<b, j>>] = Arrived(b, j)' /\ Gone'[<<b, j>>] = Lost(b, j)'
      /\ Noted'[<<b, j>>] = (Arrived(b, j) \cap Sent(b, j))'
      /\ Told' = [q \in Pairs |-> Told'[q]] /\ Noted' = [q \in Pairs |-> Noted'[q]]
      /\ Gone' = [q \in Pairs |-> Gone'[q]]
      /\ \A q \in Pairs : /\ Told'[q] \subseteq CreditIds /\ Noted'[q] \subseteq CreditIds
                          /\ Gone'[q] \subseteq CreditIds
  BY DEF Told, Noted, Gone, Pairs, Arrived, Sent, Lost, CreditIds
<1>6. /\ <<b, j>> \in Pairs /\ Told[<<b, j>>] = Arrived(b, j) /\ Gone[<<b, j>>] = Lost(b, j)
      /\ Noted[<<b, j>>] = Arrived(b, j) \cap Sent(b, j)
  BY HeldMessages
<1>7. \A m \in CreditIds \ {n} : /\ m \in Arrived(b, j)' <=> m \in Arrived(b, j)
                                 /\ m \in Sent(b, j)' <=> m \in Sent(b, j)
                                 /\ m \in Lost(b, j)' <=> m \in Lost(b, j)
  BY <1>1
<1>8. /\ (n \in Told'[<<b, j>>] <=> n \in Told[<<b, j>>]) => Told' = Told
      /\ n \in Told'[<<b, j>>] => Told' = [Told EXCEPT ![<<b, j>>] = Told[<<b, j>>] \cup {n}]
  <2> DEFINE F == Told
             G == Told'
  <2>1. \A m \in CreditIds \ {n} : m \in G[<<b, j>>] <=> m \in F[<<b, j>>]
    BY <1>5, <1>6, <1>7
  <2>2. F = [q \in Pairs |-> F[q]] /\ G = [q \in Pairs |-> G[q]]
        /\ (\A q \in Pairs : F[q] \subseteq CreditIds /\ G[q] \subseteq CreditIds)
        /\ \A q \in Pairs \ {<<b, j>>} : G[q] = F[q]
    BY <1>4, <1>5, HeldMessages
  <2> HIDE DEF F, G
  <2>3. /\ (n \in G[<<b, j>>] <=> n \in F[<<b, j>>]) => G = F
        /\ n \in G[<<b, j>>] => G = [F EXCEPT ![<<b, j>>] = F[<<b, j>>] \cup {n}]
    BY <1>6, <2>1, <2>2, OneMember
  <2> QED BY <2>3 DEF F, G
<1>9. /\ (n \in Noted'[<<b, j>>] <=> n \in Noted[<<b, j>>]) => Noted' = Noted
      /\ n \in Noted'[<<b, j>>] => Noted' = [Noted EXCEPT ![<<b, j>>] = Noted[<<b, j>>] \cup {n}]
  <2> DEFINE F == Noted
             G == Noted'
  <2>1. \A m \in CreditIds \ {n} : m \in G[<<b, j>>] <=> m \in F[<<b, j>>]
    BY <1>5, <1>6, <1>7
  <2>2. F = [q \in Pairs |-> F[q]] /\ G = [q \in Pairs |-> G[q]]
        /\ (\A q \in Pairs : F[q] \subseteq CreditIds /\ G[q] \subseteq CreditIds)
        /\ \A q \in Pairs \ {<<b, j>>} : G[q] = F[q]
    BY <1>4, <1>5, HeldMessages
  <2> HIDE DEF F, G
  <2>3. /\ (n \in G[<<b, j>>] <=> n \in F[<<b, j>>]) => G = F
        /\ n \in G[<<b, j>>] => G = [F EXCEPT ![<<b, j>>] = F[<<b, j>>] \cup {n}]
    BY <1>6, <2>1, <2>2, OneMember
  <2> QED BY <2>3 DEF F, G
<1>10. /\ (n \in Gone'[<<b, j>>] <=> n \in Gone[<<b, j>>]) => Gone' = Gone
       /\ n \in Gone'[<<b, j>>] => Gone' = [Gone EXCEPT ![<<b, j>>] = Gone[<<b, j>>] \cup {n}]
  <2> DEFINE F == Gone
             G == Gone'
  <2>1. \A m \in CreditIds \ {n} : m \in G[<<b, j>>] <=> m \in F[<<b, j>>]
    BY <1>5, <1>6, <1>7
  <2>2. F = [q \in Pairs |-> F[q]] /\ G = [q \in Pairs |-> G[q]]
        /\ (\A q \in Pairs : F[q] \subseteq CreditIds /\ G[q] \subseteq CreditIds)
        /\ \A q \in Pairs \ {<<b, j>>} : G[q] = F[q]
    BY <1>4, <1>5, HeldMessages
  <2> HIDE DEF F, G
  <2>3. /\ (n \in G[<<b, j>>] <=> n \in F[<<b, j>>]) => G = F
        /\ n \in G[<<b, j>>] => G = [F EXCEPT ![<<b, j>>] = F[<<b, j>>] \cup {n}]
    BY <1>6, <2>1, <2>2, OneMember
  <2> QED BY <2>3 DEF F, G
<1>11. /\ n \in Told'[<<b, j>>] <=> n \in Arrived(b, j)'
       /\ n \in Noted'[<<b, j>>] <=> n \in (Arrived(b, j) \cap Sent(b, j))'
       /\ n \in Gone'[<<b, j>>] <=> n \in Lost(b, j)'
       /\ n \in Told[<<b, j>>] <=> n \in Arrived(b, j)
       /\ n \in Noted[<<b, j>>] <=> n \in Arrived(b, j) \cap Sent(b, j)
       /\ n \in Gone[<<b, j>>] <=> n \in Lost(b, j)
  BY <1>5, <1>6
<1>12. /\ (n \in Arrived(b, j)' <=> n \in Arrived(b, j)) => Told' = Told
       /\ n \in Arrived(b, j)' => Told' = [Told EXCEPT ![<<b, j>>] = Told[<<b, j>>] \cup {n}]
  BY <1>8, <1>11
<1>13. /\ (n \in (Arrived(b, j) \cap Sent(b, j))' <=> n \in Arrived(b, j) \cap Sent(b, j))
             => Noted' = Noted
       /\ n \in (Arrived(b, j) \cap Sent(b, j))'
             => Noted' = [Noted EXCEPT ![<<b, j>>] = Noted[<<b, j>>] \cup {n}]
  BY <1>9, <1>11
<1>14. /\ (n \in Lost(b, j)' <=> n \in Lost(b, j)) => Gone' = Gone
       /\ n \in Lost(b, j)' => Gone' = [Gone EXCEPT ![<<b, j>>] = Gone[<<b, j>>] \cup {n}]
  BY <1>10, <1>11
<1> QED BY <1>12, <1>13, <1>14

\* What is noted of the others, when one worker moves with one message.
LEMMA NotedMoves ==
  ASSUME NEW w \in Workers, NEW n, \A v \in Workers \ {w} : worker'[v] = worker[v],
         worker[w].step = "note_sent" => worker[w].credit = n,
         worker'[w].step = "note_sent" => worker'[w].credit = n,
         NEW m, m # n
  PROVE  BeingNoted(m)' <=> BeingNoted(m)
BY DEF BeingNoted

\* A message that a worker sends is the last but the workers past the check.
LEMMA RoomToTell ==
  ASSUME MatchInv, AnswerInv, SentAtMostOncePerWorker, NEW w \in Workers,
         worker[w].step = "send", NEW c \in Customers, NEW l \in Listings,
         worker[w].to = c, worker[w].job = l
  PROVE  Cardinality(Arrived(c, l) \ Lost(c, l)) < Cardinality(Workers)
<1> DEFINE Others == PastCheck(c, l) \ {w}
           Open == {worker[v].credit : v \in Others}
<1>1. /\ IsFiniteSet(Others) /\ Cardinality(Others) \in Nat
      /\ Cardinality(Others) = Cardinality(PastCheck(c, l)) - 1
      /\ Cardinality(PastCheck(c, l)) \in Nat
  <2>1. PastCheck(c, l) \in SUBSET Workers /\ w \in PastCheck(c, l)
    BY DEF PastCheck
  <2> QED BY <2>1, SetsAreFinite, FS_RemoveElement
<1>2. IsFiniteSet(Open) /\ Cardinality(Open) \in Nat /\ Cardinality(Open) <= Cardinality(Others)
  <2> DEFINE f == [v \in Others |-> worker[v].credit]
  <2>1. f \in Surjection(Others, Open)
    BY DEF Surjection
  <2> HIDE DEF f, Others, Open
  <2> QED BY <1>1, <2>1, FS_Surjection, FS_CardinalityType
<1>3. Arrived(c, l) \ Lost(c, l) \subseteq Sent(c, l) \cup Open
  <2> SUFFICES ASSUME NEW n \in Arrived(c, l), n \notin Lost(c, l), n \notin Sent(c, l)
               PROVE  n \in Open
    OBVIOUS
  <2>1. n \in CreditIds /\ answer[n] # "none" /\ log[n].customer = c /\ log[n].listing = l
    BY DEF Arrived
  <2>2. log[n] \in LogRows
    BY <2>1 DEF AnswerInv, MatchInv, MatchTypes
  <2>3. log[n].status # "sent"
    BY <2>1, <2>2 DEF Sent, LogRows
  <2>4. PICK v \in Workers : worker[v].step = "note_sent" /\ worker[v].credit = n
    BY <2>3 DEF Lost, BeingNoted
  <2>5. log[n] = Row(worker[v], "queued")
    BY <2>4 DEF MatchInv, CreditOK
  <2>6. worker[v].to = c /\ worker[v].job = l /\ v # w
    BY <2>1, <2>4, <2>5 DEF Row
  <2> QED BY <2>4, <2>6 DEF PastCheck
<1>4. /\ IsFiniteSet(Sent(c, l)) /\ Cardinality(Sent(c, l)) \in Nat
      /\ Cardinality(Sent(c, l)) + Cardinality(PastCheck(c, l)) <= Cardinality(Workers)
      /\ Cardinality(Workers) \in Nat
  BY SetsAreFinite DEF SentAtMostOncePerWorker
<1> HIDE DEF Others, Open
<1>5. /\ IsFiniteSet(Sent(c, l) \cup Open)
      /\ Cardinality(Sent(c, l) \cup Open) \in Nat
      /\ Cardinality(Sent(c, l) \cup Open) <= Cardinality(Sent(c, l)) + Cardinality(Open)
  <2>1. /\ IsFiniteSet(Sent(c, l) \cup Open) /\ IsFiniteSet(Sent(c, l) \cap Open)
        /\ Cardinality(Sent(c, l) \cup Open)
              = Cardinality(Sent(c, l)) + Cardinality(Open) - Cardinality(Sent(c, l) \cap Open)
    BY <1>2, <1>4, FS_Union, FS_Intersection
  <2> QED BY <1>2, <1>4, <2>1, FS_CardinalityType
<1>6. /\ Cardinality(Arrived(c, l) \ Lost(c, l)) \in Nat
      /\ Cardinality(Arrived(c, l) \ Lost(c, l)) <= Cardinality(Sent(c, l) \cup Open)
  BY <1>3, <1>5, FS_Subset, FS_CardinalityType
<1> QED BY <1>1, <1>2, <1>4, <1>5, <1>6

\* A step of a worker tells, notes or loses one message, or none.
LEMMA PromiseStep ==
  ASSUME MatchInv, AnswerInv, SentAtMostOncePerWorker, NEW w \in Workers,
         WorkerStep(w) \/ WorkerFault(w)
  PROVE  Promise!Next \/ UNCHANGED <<Told, Noted, Gone>>
<1>0. /\ worker \in [Workers -> WorkerRecords] /\ worker[w] \in WorkerRecords
      /\ CustomerOK(worker[w]) /\ CreditOK(worker[w], log, refunds, issued)
      /\ log \in [CreditIds -> LogRows \cup {Null}] /\ MatchTypes
      /\ answer \in [CreditIds -> SparrowAnswers \cup {"none"}]
  BY DEF MatchInv, MatchTypes, AnswerInv
<1>1. \A v \in Workers \ {w} : worker'[v] = worker[v]
  BY WorkerAlone
<1>2. Waiting.step \notin HoldSteps /\ (worker[w].step # "idle" => Continued(w).step \notin HoldSteps)
  BY Rests
<1>3. ASSUME UNCHANGED <<log, answer>>,
             worker[w].step # "note_sent", worker'[w].step # "note_sent"
      PROVE  UNCHANGED <<Told, Noted, Gone>>
  <2>1. \A m : BeingNoted(m)' <=> BeingNoted(m)
    BY <1>1, <1>3 DEF BeingNoted
  <2>2. \A c, l : /\ Arrived(c, l)' = Arrived(c, l) /\ Sent(c, l)' = Sent(c, l)
                  /\ Lost(c, l)' = Lost(c, l)
    BY <1>3, <2>1 DEF Arrived, Sent, Lost
  <2> QED BY <2>2 DEF Told, Noted, Gone
<1>4. CASE worker[w].step \notin HoldSteps \/ Refund(w) \/ JobThrows(w)
           \/ (WorkerDies(w) /\ worker[w].step # "note_sent")
  <2>1. UNCHANGED <<log, answer>>
    BY <1>4 DEF WorkerStep, WorkerFault, TakeJob, CheckAlreadySent, TakeCredit, NoCredit, LogQueued,
                Send, NoteSent, NoteSentThrows, NoteFailed, Refund, JobThrows, WorkerDies, HoldSteps
  <2>2. worker[w].step # "note_sent"
    BY <1>4 DEF Refund, JobThrows, HoldSteps
  <2>3. worker'[w].step # "note_sent"
    <3>1. CASE Refund(w) \/ WorkerFault(w) \/ NoCredit(w)
      BY <1>0, <1>2, <3>1
         DEF Refund, WorkerFault, JobThrows, WorkerDies, NoCredit, HoldSteps
    <3>2. ASSUME NEW l \in Listings, NEW k \in {0, 1}, TakeJob(w, l, k)
          PROVE  worker'[w].step # "note_sent"
      BY <1>0, <3>2 DEF TakeJob, Waiting
    <3>3. ASSUME NEW c \in Customers, CheckAlreadySent(w, c)
          PROVE  worker'[w].step # "note_sent"
      BY <1>0, <3>3 DEF CheckAlreadySent, WorkerRecords, Waiting
    <3>4. CASE TakeCredit(w)
      BY <1>0, <3>4 DEF TakeCredit, WorkerRecords
    <3> QED BY <1>4, <3>1, <3>2, <3>3, <3>4
         DEF WorkerStep, WorkerFault, LogQueued, Send, NoteSent, NoteSentThrows, NoteFailed, HoldSteps
  <2> QED BY <1>3, <2>1, <2>2, <2>3
<1>5. CASE worker[w].step \in HoldSteps /\ ~Refund(w) /\ ~JobThrows(w)
           /\ ~(WorkerDies(w) /\ worker[w].step # "note_sent")
  <2>1. PICK n \in CreditIds, b \in Customers, j \in Listings :
            n = worker[w].credit /\ b = worker[w].to /\ j = worker[w].job
    BY <1>0, <1>5, HeldHasRow DEF CreditOK, CustomerOK, HoldSteps
  <2>2. \A v \in Workers \ {w} : worker[v].step = "note_sent" => worker[v].credit # n
    BY <1>5, <2>1 DEF MatchInv, CreditsDiffer, HoldSteps
  <2>3. BeingNoted(n) <=> worker[w].step = "note_sent"
    BY <2>1, <2>2 DEF BeingNoted
  <2>4. BeingNoted(n)' <=> worker'[w].step = "note_sent" /\ worker'[w].credit = n
    BY <1>1, <2>2 DEF BeingNoted
  <2>5. ASSUME \A m \in CreditIds \ {n} : log'[m] = log[m] /\ answer'[m] = answer[m],
               worker'[w].step = "note_sent" => worker'[w].credit = n
        PROVE  OthersStay(n)
    BY <1>1, <2>1, <2>5, NotedMoves DEF OthersStay
  <2>6. ASSUME worker[w].step \in {"send", "note_sent"}
        PROVE  /\ log[n] = Row(worker[w], "queued") /\ log[n].status = "queued"
               /\ log[n].customer = b /\ log[n].listing = j /\ n \notin Sent(b, j)
    BY <1>0, <2>1, <2>6 DEF CreditOK, Row, Sent
  \* Rows that are written without a word of the provider's answer.
  <2>7. CASE LogQueued(w) \/ NoteFailed(w)
    <3>1. PICK status \in {"queued", "failed"} :
              log' = [log EXCEPT ![n] = Row(worker[w], status)]
      <4>1. CASE LogQueued(w)
        BY <2>1, <4>1 DEF LogQueued, Row
      <4>2. CASE NoteFailed(w)
        <5>1. log[n] = Row(worker[w], "queued")
          BY <1>0, <2>1, <4>2 DEF NoteFailed, CreditOK
        <5>2. [log[n] EXCEPT !.status = "failed"] = Row(worker[w], "failed")
          BY <5>1 DEF Row
        <5> QED BY <1>0, <2>1, <4>2, <5>2 DEF NoteFailed
      <4> QED BY <2>7, <4>1, <4>2
    <3>2. UNCHANGED answer /\ worker[w].step # "note_sent" /\ worker'[w].step # "note_sent"
      BY <1>0, <2>7 DEF LogQueued, NoteFailed, WorkerRecords
    <3>3. log'[n] = Row(worker[w], status) /\ OthersStay(n)
      BY <1>0, <2>5, <3>1, <3>2
    <3>4. log'[n].customer = b /\ log'[n].listing = j /\ log'[n].status # "sent"
      BY <2>1, <3>3 DEF Row
    <3>5. \/ answer[n] = "none"
          \/ log[n].customer = b /\ log[n].listing = j /\ log[n].status # "sent"
      BY <1>0, <2>1, <2>7 DEF LogQueued, NoteFailed, AnswerInv, CreditOK, Row
    <3>6. /\ n \in Arrived(b, j)' <=> n \in Arrived(b, j)
          /\ n \notin Arrived(b, j) \cap Sent(b, j) /\ n \notin (Arrived(b, j) \cap Sent(b, j))'
          /\ n \in Lost(b, j)' <=> n \in Lost(b, j)
      BY <2>3, <2>4, <3>2, <3>4, <3>5 DEF Arrived, Sent, Lost
    <3>7. (log[n].customer = b /\ log[n].listing = j) \/ answer[n] = "none"
      BY <3>5
    <3> QED BY <3>3, <3>4, <3>6, <3>7, OneMessage
  \* The provider's answer.
  <2>8. ASSUME NEW outcome \in Answers[Adapter(worker[w].to)], Send(w, outcome)
        PROVE  Promise!Next \/ UNCHANGED <<Told, Noted, Gone>>
    <3>1. /\ worker[w].step = "send" /\ answer[n] = "none" /\ UNCHANGED log
          /\ answer' = [answer EXCEPT ![n] = outcome] /\ worker'[w].credit = n
          /\ worker'[w].step = IF outcome \in {"thrown", "unanswered"}
                               THEN "note_failed" ELSE "note_sent"
      BY <1>0, <2>1, <2>8 DEF Send, AnswerInv, WorkerRecords
    <3>2. answer'[n] = outcome /\ OthersStay(n)
      BY <1>0, <2>5, <3>1
    <3>3. /\ log[n].customer = b /\ log[n].listing = j /\ log[n].status # "sent"
          /\ log'[n] = log[n] /\ n \notin Sent(b, j)'
      BY <2>6, <3>1 DEF Sent
    <3>4. n \notin Arrived(b, j) /\ n \notin Lost(b, j)
      BY <3>1 DEF Arrived, Lost
    <3>5. n \in Arrived(b, j)' <=> outcome \in {"delivered", "unanswered"}
      BY <3>2, <3>3 DEF Arrived
    <3>6. n \in Lost(b, j)' <=> outcome = "unanswered"
      BY <2>4, <3>1, <3>3, <3>5 DEF Lost
    <3>7. /\ Noted' = Noted
          /\ outcome \notin {"delivered", "unanswered"} => Told' = Told
          /\ outcome \in {"delivered", "unanswered"}
                => Told' = [Told EXCEPT ![<<b, j>>] = Told[<<b, j>>] \cup {n}]
          /\ outcome # "unanswered" => Gone' = Gone
          /\ outcome = "unanswered"
                => Gone' = [Gone EXCEPT ![<<b, j>>] = Gone[<<b, j>>] \cup {n}]
      BY <3>2, <3>3, <3>4, <3>5, <3>6, OneMessage
    <3>8. CASE outcome \in {"delivered", "unanswered"}
      <4>1. Cardinality(Told[<<b, j>>] \ Gone[<<b, j>>]) < Cardinality(Workers)
        BY <2>1, <3>1, RoomToTell, HeldMessages
      <4>2. n \notin Told[<<b, j>>]
        BY <3>4, HeldMessages
      <4>3. /\ Told' = [Told EXCEPT ![<<b, j>>] = Told[<<b, j>>] \cup {n}] /\ Noted' = Noted
            /\ Gone' = Gone \/ Gone' = [Gone EXCEPT ![<<b, j>>] = Gone[<<b, j>>] \cup {n}]
        BY <3>7, <3>8
      <4>4. Promise!Tell(<<b, j>>, n)
        BY <4>1, <4>2, <4>3, SameCount DEF Promise!Tell
      <4> QED BY <4>4, HeldMessages DEF Promise!Next, Pairs
    <3> QED BY <3>7, <3>8
  <2>9. CASE NoteSent(w)
    <3>1. [log[n] EXCEPT !.status = "sent"] = Row(worker[w], "sent") /\ worker[w].step = "note_sent"
      BY <2>6, <2>9 DEF NoteSent, Row
    <3>2. /\ UNCHANGED answer /\ worker'[w].step # "note_sent"
          /\ log' = [log EXCEPT ![n] = Row(worker[w], "sent")]
      BY <1>0, <1>2, <2>1, <2>9, <3>1 DEF NoteSent, HoldSteps
    <3>3. log'[n] = Row(worker[w], "sent") /\ OthersStay(n)
      BY <1>0, <2>5, <3>2
    <3>4. /\ log'[n].customer = b /\ log'[n].listing = j /\ log'[n].status = "sent"
          /\ n \in Sent(b, j)' /\ log[n].customer = b /\ log[n].listing = j
      BY <2>1, <2>6, <3>1, <3>3 DEF Row, Sent
    <3>5. /\ n \in Arrived(b, j)' <=> n \in Arrived(b, j)
          /\ n \notin Lost(b, j)' /\ n \notin Lost(b, j) /\ n \notin Sent(b, j)
      BY <2>3, <2>6, <3>1, <3>2, <3>4 DEF Arrived, Lost
    <3>6. /\ Told' = Told /\ Gone' = Gone
          /\ n \notin Arrived(b, j) => Noted' = Noted
          /\ n \in Arrived(b, j) => Noted' = [Noted EXCEPT ![<<b, j>>] = Noted[<<b, j>>] \cup {n}]
      BY <3>3, <3>4, <3>5, OneMessage
    <3>7. CASE n \in Arrived(b, j)
      <4>1. n \in Told[<<b, j>>] \ (Noted[<<b, j>>] \cup Gone[<<b, j>>])
        BY <3>5, <3>7, HeldMessages
      <4>2. Promise!Note(<<b, j>>, n)
        BY <3>6, <3>7, <4>1 DEF Promise!Note
      <4> QED BY <4>2, HeldMessages DEF Promise!Next, Pairs
    <3> QED BY <3>6, <3>7
  <2>10. CASE NoteSentThrows(w) \/ (WorkerDies(w) /\ worker[w].step = "note_sent")
    <3>1. /\ worker[w].step = "note_sent" /\ worker'[w].step # "note_sent"
          /\ UNCHANGED <<log, answer>>
      <4>1. CASE NoteSentThrows(w)
        BY <1>0, <4>1 DEF NoteSentThrows, WorkerRecords
      <4>2. CASE WorkerDies(w) /\ worker[w].step = "note_sent"
        BY <1>0, <1>2, <4>2 DEF WorkerDies, HoldSteps
      <4> QED BY <2>10, <4>1, <4>2
    <3>2. OthersStay(n) /\ log'[n] = log[n] /\ log[n].customer = b /\ log[n].listing = j
      BY <2>5, <2>6, <3>1
    <3>3. Arrived(b, j)' = Arrived(b, j) /\ Sent(b, j)' = Sent(b, j)
      BY <3>1 DEF Arrived, Sent
    <3>4. n \notin Lost(b, j) /\ (n \in Lost(b, j)' <=> n \in Arrived(b, j)) /\ n \notin Sent(b, j)
      BY <2>3, <2>4, <2>6, <3>1, <3>3 DEF Lost
    <3>5. /\ Told' = Told /\ Noted' = Noted
          /\ n \notin Arrived(b, j) => Gone' = Gone
          /\ n \in Arrived(b, j) => Gone' = [Gone EXCEPT ![<<b, j>>] = Gone[<<b, j>>] \cup {n}]
      BY <3>2, <3>3, <3>4, OneMessage
    <3>6. CASE n \in Arrived(b, j)
      <4>1. n \in Told[<<b, j>>] \ (Noted[<<b, j>>] \cup Gone[<<b, j>>])
        BY <3>4, <3>6, HeldMessages
      <4>2. Promise!Lose(<<b, j>>, n)
        BY <3>5, <3>6, <4>1 DEF Promise!Lose
      <4> QED BY <4>2, HeldMessages DEF Promise!Next, Pairs
    <3> QED BY <3>5, <3>6
  <2>11. /\ ~(\E l \in Listings, k \in {0, 1} : TakeJob(w, l, k)) /\ ~TakeCredit(w) /\ ~NoCredit(w)
         /\ ~(\E c \in Customers : CheckAlreadySent(w, c))
    <3>1. worker[w].step \notin {"idle", "select", "credit"} /\ Waiting.step = "idle"
      BY <1>5 DEF Waiting, HoldSteps
    <3> QED BY <3>1 DEF TakeJob, CheckAlreadySent, TakeCredit, NoCredit
  <2> QED BY <1>5, <2>7, <2>8, <2>9, <2>10, <2>11 DEF WorkerStep, WorkerFault
<1> QED BY <1>4, <1>5

\* The workers keep the promise of MatchingPromise, with their number as its
\* limit: a message goes out only while fewer than that are noted as SENT or
\* about to be, arrived messages whose note is lost not counted, and no note is
\* taken back (sendMatchSms()).
THEOREM PromiseIsKept == MatchSpec => PromiseSafety
<1>1. MatchInit => Promise!Init
  <2> SUFFICES ASSUME MatchInit PROVE Promise!Init
    OBVIOUS
  <2>1. \A c, l : Arrived(c, l) = {} /\ Lost(c, l) = {}
    BY DEF MatchInit, Arrived, Lost
  <2> QED BY <2>1 DEF Promise!Init, Promise!Nothing, Told, Noted, Gone, Pairs
<1>2. MatchInv /\ AnswerInv /\ SentAtMostOncePerWorker /\ [MatchNext]_allVars
          => [Promise!Next]_<<Told, Noted, Gone>>
  <2>1. ASSUME UNCHANGED <<subVars, matchVars>> PROVE UNCHANGED <<Told, Noted, Gone>>
    <3>1. \A c, l : /\ Arrived(c, l)' = Arrived(c, l) /\ Sent(c, l)' = Sent(c, l)
                    /\ Lost(c, l)' = Lost(c, l)
      BY <2>1 DEF matchVars, Arrived, Sent, Lost, BeingNoted
    <3> QED BY <3>1 DEF Told, Noted, Gone
  <2> QED BY <2>1, PromiseStep DEF MatchNext, allVars
<1> QED BY <1>1, <1>2, MatchInvariant, AnswerInvariant, SentOncePerWorker, PTL
     DEF MatchSpec, PromiseSafety, Promise!Safety, Promise!vars

-----------------------------------------------------------------------------
(* The listings and the queue of match jobs, for any listings and plans,   *)
(* any finite number of calls and of workers.                              *)

-----------------------------------------------------------------------------
(* The inductive invariant of the handlers.                                *)

\* The tenant's plan stays; of its row only the balance changes.
SubOK == sub \in Rows /\ sub.status = "active"

ListingTypes ==
    /\ listing \in [Listings -> ListingStatuses \cup {NoListing}]
    /\ call \in [Calls -> CallRecords]
    /\ marks \in [Listings -> SUBSET Marks]

\* Listings with an offer made, not to be expected, or about to be made.
Accounted ==
    {l \in Listings : \/ marks[l] \cap {"offered", "exempt"} # {}
                      \/ \E c \in Calls : call[c].step = "dispatch" /\ call[c].id = l}

\* What the await a call has reached tells of it: a save that finds nothing to
\* publish loaded a listing that was published and accounted for.
CallOK(k, rows, done) ==
    /\ k.step = "row" => k.op = "bulk" /\ k.left > 0
    /\ k.step = "dispatch" => k.id \in Listings
    /\ k.step \in {"compare", "save"} =>
           /\ k.id \in Listings /\ rows[k.id] # NoListing
           /\ k.op \in {"update", "archive", "availability"}
           /\ k.op = "archive" => k.status = "archived"
           /\ k.was => k.id \in done
    /\ k.step = "save" => k.seen \in ListingStatuses

\* Calls that will insert unless something fails: the count they work with is
\* below the limit.
Permitted ==
    {c \in Calls : \/ call[c].step = "insert"
                   \/ /\ call[c].step = "limit"
                      /\ call[c].count < MaxListings[sub.planId]}

WithinOverlap ==
    Cardinality(StaffCreated) + Cardinality(Permitted)
        < MaxListings[sub.planId] + Cardinality(Calls)

PublishedAccounted == \A l \in Listings : listing[l] = "published" => l \in Accounted

ListInv ==
    /\ SubOK
    /\ ListingTypes
    /\ \A c \in Calls : CallOK(call[c], listing, Accounted)
    /\ PublishedAccounted
    /\ IsFiniteSet(Existing)
    /\ WithinOverlap

\* A free call, and the limit of any plan.
LEMMA FreeFacts ==
  /\ Free \in CallRecords /\ Free.step = "free"
  /\ \A rows, done : CallOK(Free, rows, done)
  /\ \A row \in Rows : MaxListings[row.planId] \in Nat \ {0}
<1>1. Free \in CallRecords /\ Free.step = "free"
  BY ListingsAssumption DEF Free, CallRecords, CallSteps, Operations, ListingStatuses
<1> QED BY <1>1, ListingsAssumption DEF CallOK, Rows

\* The sets that are counted are finite.
LEMMA CountsAreNumbers ==
  ASSUME IsFiniteSet(Existing)
  PROVE  /\ IsFiniteSet(StaffCreated) /\ Cardinality(StaffCreated) \in Nat
         /\ Cardinality(Existing) \in Nat /\ Cardinality(StaffCreated) <= Cardinality(Existing)
         /\ IsFiniteSet(Permitted) /\ Cardinality(Permitted) \in Nat
         /\ Cardinality(Calls) \in Nat
<1>1. StaffCreated \in SUBSET Existing /\ Permitted \in SUBSET Calls
  BY DEF StaffCreated, Permitted
<1> QED BY <1>1, ListingsAssumption, FS_Subset, FS_CardinalityType

\* What a step that moves one call must show.
LEMMA CallMoves ==
  ASSUME ListInv, NEW c \in Calls, NEW k \in CallRecords,
         call' = [call EXCEPT ![c] = k], UNCHANGED sub,
         listing' \in [Listings -> ListingStatuses \cup {NoListing}],
         marks' \in [Listings -> SUBSET Marks],
         \A l \in Listings : listing[l] # NoListing => listing'[l] # NoListing,
         \A l \in Listings : marks[l] \subseteq marks'[l],
         call[c].step = "dispatch" =>
             k.step = "dispatch" \/ marks'[call[c].id] \cap {"offered", "exempt"} # {},
         k.step = "dispatch" => call[c].step # "dispatch",
         CallOK(k, listing', Accounted'),
         \A l \in Listings : listing'[l] = "published" => listing[l] = "published" \/ l \in Accounted',
         IsFiniteSet(Existing'), WithinOverlap'
  PROVE  ListInv'
<1>1. \A d \in Calls : call'[d] = IF d = c THEN k ELSE call[d]
  BY DEF ListInv, ListingTypes
<1>2. Accounted \subseteq Accounted'
  <2> SUFFICES ASSUME NEW l \in Accounted PROVE l \in Accounted'
    OBVIOUS
  <2>1. CASE marks[l] \cap {"offered", "exempt"} # {}
    BY <2>1 DEF Accounted
  <2>2. ASSUME NEW d \in Calls, call[d].step = "dispatch", call[d].id = l PROVE l \in Accounted'
    BY <1>1, <2>2 DEF Accounted
  <2> QED BY <2>1, <2>2 DEF Accounted
<1>3. ASSUME NEW d \in Calls PROVE CallOK(call'[d], listing', Accounted')
  <2>1. CASE d = c
    BY <1>1, <2>1
  <2>2. CASE d # c
    <3>1. call'[d] = call[d] /\ CallOK(call[d], listing, Accounted)
      BY <1>1, <2>2 DEF ListInv
    <3>2. CallOK(call[d], listing', Accounted')
      BY <1>2, <3>1 DEF CallOK
    <3> QED BY <3>1, <3>2
  <2> QED BY <2>1, <2>2
<1>4. ListingTypes' /\ SubOK' /\ PublishedAccounted'
  BY <1>2 DEF ListInv, ListingTypes, SubOK, PublishedAccounted
<1> QED BY <1>3, <1>4 DEF ListInv

\* Nobody is permitted who was not, and nothing is created.
LEMMA NothingCounted ==
  ASSUME ListInv, UNCHANGED sub, StaffCreated' \subseteq StaffCreated,
         Permitted' \subseteq Permitted
  PROVE  WithinOverlap'
<1>1. /\ IsFiniteSet(StaffCreated) /\ Cardinality(StaffCreated) \in Nat
      /\ IsFiniteSet(Permitted) /\ Cardinality(Permitted) \in Nat /\ Cardinality(Calls) \in Nat
  BY CountsAreNumbers DEF ListInv
<1>2. /\ IsFiniteSet(StaffCreated') /\ Cardinality(StaffCreated') <= Cardinality(StaffCreated)
      /\ IsFiniteSet(Permitted') /\ Cardinality(Permitted') <= Cardinality(Permitted)
  BY <1>1, FS_Subset
<1>3. Cardinality(StaffCreated') \in Nat /\ Cardinality(Permitted') \in Nat
  BY <1>2, FS_CardinalityType
<1>4. MaxListings[sub.planId] \in Nat
  BY FreeFacts DEF ListInv, SubOK
<1> QED BY <1>1, <1>2, <1>3, <1>4 DEF ListInv, WithinOverlap

\* A call goes on, stops, or counts the rows, and writes nothing.
LEMMA QuietCall ==
  ASSUME ListInv, NEW c \in Calls, NEW k \in CallRecords,
         call' = [call EXCEPT ![c] = k], UNCHANGED <<sub, listing, marks>>,
         call[c].step # "dispatch", k.step # "dispatch",
         CallOK(k, listing, Accounted),
         \/ k.step \notin {"limit", "insert"}
         \/ k.step = "limit" /\ k.count = Cardinality(Existing)
         \/ k.step = "insert" /\ c \in Permitted
  PROVE  ListInv'
<1>1. \A d \in Calls : call'[d] = IF d = c THEN k ELSE call[d]
  BY DEF ListInv, ListingTypes
<1>2. Accounted' = Accounted /\ Existing' = Existing /\ StaffCreated' = StaffCreated
  <2>1. \A l : (\E d \in Calls : call'[d].step = "dispatch" /\ call'[d].id = l)
             <=> (\E d \in Calls : call[d].step = "dispatch" /\ call[d].id = l)
    BY <1>1
  <2> QED BY <2>1 DEF Accounted, Existing, StaffCreated
<1>3. WithinOverlap'
  <2>1. CASE k.step = "limit" /\ k.count < MaxListings[sub.planId] /\ k.count = Cardinality(Existing)
    <3>1. Permitted' \subseteq Calls /\ Cardinality(Permitted') <= Cardinality(Calls)
          /\ Cardinality(Permitted') \in Nat
      BY ListingsAssumption, FS_Subset, FS_CardinalityType DEF Permitted
    <3>2. MaxListings[sub.planId] \in Nat
      BY FreeFacts DEF ListInv, SubOK
    <3> QED BY <1>2, <2>1, <3>1, <3>2, CountsAreNumbers DEF ListInv, WithinOverlap
  <2>2. CASE ~(k.step = "limit" /\ k.count < MaxListings[sub.planId])
    <3>1. Permitted' \subseteq Permitted
      BY <1>1, <2>2 DEF Permitted
    <3> QED BY <1>2, <3>1, NothingCounted
  <2> QED BY <2>1, <2>2
<1>4. /\ listing' \in [Listings -> ListingStatuses \cup {NoListing}]
      /\ marks' \in [Listings -> SUBSET Marks]
      /\ IsFiniteSet(Existing')
  BY <1>2 DEF ListInv, ListingTypes
<1> QED BY <1>2, <1>3, <1>4, CallMoves

\* Where a call goes that is done with a row.
LEMMA DoneFacts ==
  ASSUME ListInv, NEW c \in Calls
  PROVE  /\ call[c] \in CallRecords /\ Done(c) \in CallRecords
         /\ Done(c).step \in {"free", "row"}
         /\ \A rows, done : CallOK(Done(c), rows, done)
<1>1. call[c] \in CallRecords
  BY DEF ListInv, ListingTypes
<1>2. CASE call[c].op = "bulk" /\ call[c].left > 0
  <2> DEFINE k == [Free EXCEPT !.step = "row", !.op = "bulk", !.left = call[c].left]
  <2>1. k \in CallRecords /\ k.step = "row" /\ k.op = "bulk" /\ k.left > 0
    BY <1>1, <1>2, FreeFacts DEF CallRecords, CallSteps, Operations
  <2>2. Done(c) = k
    BY <1>2 DEF Done
  <2> HIDE DEF k
  <2> QED BY <1>1, <2>1, <2>2 DEF CallOK
<1>3. CASE ~(call[c].op = "bulk" /\ call[c].left > 0)
  BY <1>1, <1>3, FreeFacts DEF Done
<1> QED BY <1>2, <1>3

\* create() and bulkUpload() up to the insert.
LEMMA CountingSteps ==
  ASSUME ListInv, NEW c \in Calls, UNCHANGED sub,
         \/ \E s \in Asked : CreateListing(c, s) \/ BulkRow(c, s)
         \/ BulkUpload(c) \/ CheckLimit(c) \/ InsertFails(c)
  PROVE  ListInv'
<1>0. /\ call[c] \in CallRecords /\ CallOK(call[c], listing, Accounted)
      /\ Cardinality(Existing) \in Nat
  BY CountsAreNumbers DEF ListInv, ListingTypes
<1>a. BulkRows \in 0..BulkRows /\ BulkRows > 0 /\ 0 \in 0..BulkRows
  BY ListingsAssumption
<1>1. ASSUME NEW op \in {"create", "bulk"}, NEW s \in Asked, NEW n \in 0..BulkRows,
             call' = [call EXCEPT ![c] = Counted(op, s, n)],
             call[c].step # "dispatch", UNCHANGED <<listing, marks>>
      PROVE  ListInv'
  <2>1. /\ Counted(op, s, n) \in CallRecords
        /\ Counted(op, s, n).step = "limit" /\ Counted(op, s, n).count = Cardinality(Existing)
    BY <1>0, FreeFacts, ListingsAssumption DEF Counted, CallRecords, CallSteps, Operations
  <2>2. CallOK(Counted(op, s, n), listing, Accounted)
    BY <2>1 DEF CallOK
  <2> HIDE DEF ListInv
  <2> QED BY <1>1, <2>1, <2>2, QuietCall
<1>2. ASSUME NEW s \in Asked, CreateListing(c, s) PROVE ListInv'
  BY <1>1, <1>2, <1>a, FreeFacts DEF CreateListing
<1>3. ASSUME NEW s \in Asked, BulkRow(c, s) PROVE ListInv'
  <2>1. call[c].left - 1 \in 0..BulkRows
    BY <1>0, <1>3, ListingsAssumption DEF BulkRow, CallOK, CallRecords
  <2> QED BY <1>1, <1>3, <2>1 DEF BulkRow
<1>4. ASSUME BulkUpload(c) PROVE ListInv'
  <2> DEFINE k == [Free EXCEPT !.step = "row", !.op = "bulk", !.left = BulkRows]
  <2>1. k \in CallRecords /\ k.step = "row" /\ k.op = "bulk" /\ k.left > 0
    BY <1>a, FreeFacts DEF CallRecords, CallSteps, Operations
  <2>2. call[c].step = "free"
    BY <1>4, FreeFacts DEF BulkUpload
  <2>3. call' = [call EXCEPT ![c] = k] /\ UNCHANGED <<listing, marks>>
    BY <1>4 DEF BulkUpload
  <2> HIDE DEF k
  <2> QED BY <2>1, <2>2, <2>3, QuietCall DEF CallOK
<1>5. ASSUME InsertFails(c) PROVE ListInv'
  BY <1>5, DoneFacts, QuietCall DEF InsertFails
<1>6. ASSUME CheckLimit(c) PROVE ListInv'
  <2> DEFINE k == [call[c] EXCEPT !.step = "insert", !.count = 0]
  <2>1. k \in CallRecords /\ k.step = "insert"
    BY <1>0 DEF CallRecords, CallSteps
  <2>2. call[c].step = "limit" /\ UNCHANGED <<listing, marks>>
    BY <1>6 DEF CheckLimit
  <2>3. CASE WithinLimit(call[c].count)
    <3>1. c \in Permitted
      BY <2>2, <2>3, NullsAssumption DEF WithinLimit, Permitted, ListInv, SubOK
    <3>2. call' = [call EXCEPT ![c] = k]
      BY <1>6, <2>3 DEF CheckLimit
    <3> HIDE DEF k
    <3> QED BY <2>1, <2>2, <3>1, <3>2, QuietCall DEF CallOK
  <2>4. CASE ~WithinLimit(call[c].count)
    <3>1. call' = [call EXCEPT ![c] = Done(c)]
      BY <1>6, <2>4 DEF CheckLimit
    <3> QED BY <2>2, <3>1, DoneFacts, QuietCall
  <2> QED BY <2>3, <2>4
<1> QED BY <1>2, <1>3, <1>4, <1>5, <1>6

\* One row more.
LEMMA RowAdded ==
  ASSUME ListInv, NEW l \in Listings, NEW s \in ListingStatuses, listing[l] = NoListing,
         listing' = [listing EXCEPT ![l] = s]
  PROVE  /\ listing' \in [Listings -> ListingStatuses \cup {NoListing}]
         /\ \A m \in Listings : listing'[m] = IF m = l THEN s ELSE listing[m]
         /\ Existing' = Existing \cup {l} /\ IsFiniteSet(Existing')
<1>1. \A m \in Listings : listing'[m] = IF m = l THEN s ELSE listing[m]
  BY DEF ListInv, ListingTypes
<1>2. Existing' = Existing \cup {l}
  BY <1>1, ListingsAssumption DEF Existing
<1> QED BY <1>1, <1>2, FS_AddElement DEF ListInv, ListingTypes

\* The insert of create() or of a file's row.
LEMMA InsertStep ==
  ASSUME ListInv, NEW c \in Calls, NEW l \in Listings, UNCHANGED sub, InsertListing(c, l)
  PROVE  ListInv'
<1> DEFINE s == call[c].status
           d == [call[c] EXCEPT !.step = "dispatch", !.id = l]
           k == IF s = "published" THEN d ELSE Done(c)
<1>0. /\ call[c] \in CallRecords /\ call[c].step = "insert" /\ s \in ListingStatuses
      /\ listing[l] = NoListing /\ listing' = [listing EXCEPT ![l] = s]
      /\ marks' = marks /\ call' = [call EXCEPT ![c] = k]
      /\ call \in [Calls -> CallRecords]
  BY DEF InsertListing, ListInv, ListingTypes, CallRecords
<1>1. d \in CallRecords /\ d.step = "dispatch" /\ d.id = l
  BY <1>0 DEF CallRecords, CallSteps
<1>2. /\ k \in CallRecords /\ k.step \in {"dispatch", "free", "row"}
      /\ s = "published" => k.step = "dispatch" /\ k.id = l
      /\ CallOK(k, listing', Accounted')
  BY <1>1, DoneFacts DEF CallOK
<1> HIDE DEF k, d, s
<1>3. \A e \in Calls : call'[e] = IF e = c THEN k ELSE call[e]
  BY <1>0
<1>4. /\ listing' \in [Listings -> ListingStatuses \cup {NoListing}]
      /\ \A m \in Listings : listing'[m] = IF m = l THEN s ELSE listing[m]
      /\ Existing' = Existing \cup {l} /\ IsFiniteSet(Existing')
  BY <1>0, RowAdded
<1>5. WithinOverlap'
  <2>1. /\ IsFiniteSet(StaffCreated) /\ Cardinality(StaffCreated) \in Nat
        /\ IsFiniteSet(Permitted) /\ Cardinality(Permitted) \in Nat /\ Cardinality(Calls) \in Nat
    BY CountsAreNumbers DEF ListInv
  <2>2. IsFiniteSet(StaffCreated') /\ Cardinality(StaffCreated') <= Cardinality(StaffCreated) + 1
        /\ Cardinality(StaffCreated') \in Nat
    <3>1. StaffCreated' \in SUBSET (StaffCreated \cup {l})
      BY <1>0, <1>4 DEF StaffCreated
    <3>2. IsFiniteSet(StaffCreated \cup {l})
          /\ Cardinality(StaffCreated \cup {l})
                = IF l \in StaffCreated THEN Cardinality(StaffCreated) ELSE Cardinality(StaffCreated) + 1
      BY <2>1, FS_AddElement
    <3> QED BY <2>1, <3>1, <3>2, FS_Subset, FS_CardinalityType
  <2>3. Cardinality(Permitted') = Cardinality(Permitted) - 1
    <3>1. Permitted' = Permitted \ {c} /\ c \in Permitted
      BY <1>0, <1>2, <1>3 DEF Permitted
    <3> QED BY <2>1, <3>1, FS_RemoveElement
  <2>4. MaxListings[sub.planId] \in Nat
    BY FreeFacts DEF ListInv, SubOK
  <2> QED BY <2>1, <2>2, <2>3, <2>4 DEF ListInv, WithinOverlap
<1>6. \A m \in Listings : listing'[m] = "published" => listing[m] = "published" \/ m \in Accounted'
  BY <1>2, <1>3, <1>4 DEF Accounted
<1>7. /\ marks' \in [Listings -> SUBSET Marks]
      /\ \A m \in Listings : listing[m] # NoListing => listing'[m] # NoListing
  BY <1>0, <1>4 DEF ListInv, ListingTypes
<1> QED BY <1>0, <1>2, <1>4, <1>5, <1>6, <1>7, CallMoves

\* A submission is neither counted nor limited.
LEMMA SubmitStep ==
  ASSUME ListInv, NEW l \in Listings, UNCHANGED sub, OwnerSubmit(l)
  PROVE  ListInv'
<1>0. /\ listing[l] = NoListing /\ listing' = [listing EXCEPT ![l] = "pending_review"]
      /\ marks' = [marks EXCEPT ![l] = @ \cup {"submitted"}] /\ call' = call
      /\ marks \in [Listings -> SUBSET Marks] /\ "pending_review" \in ListingStatuses
  BY DEF OwnerSubmit, ListInv, ListingTypes, ListingStatuses
<1>1. /\ listing' \in [Listings -> ListingStatuses \cup {NoListing}]
      /\ \A m \in Listings : listing'[m] = IF m = l THEN "pending_review" ELSE listing[m]
      /\ Existing' = Existing \cup {l} /\ IsFiniteSet(Existing')
  BY <1>0, RowAdded
<1>2. /\ marks' \in [Listings -> SUBSET Marks]
      /\ \A m \in Listings : marks'[m] = IF m = l THEN marks[m] \cup {"submitted"} ELSE marks[m]
  BY <1>0 DEF Marks
<1>3. Accounted \subseteq Accounted' /\ StaffCreated' \subseteq StaffCreated /\ Permitted' = Permitted
  BY <1>0, <1>1, <1>2 DEF Accounted, StaffCreated, Permitted
<1>4. \A c \in Calls : CallOK(call'[c], listing', Accounted')
  <2> SUFFICES ASSUME NEW c \in Calls PROVE CallOK(call[c], listing', Accounted')
    BY <1>0
  <2>1. CallOK(call[c], listing, Accounted)
    BY DEF ListInv
  <2>2. \A m \in Listings : listing[m] # NoListing => listing'[m] = listing[m]
    BY <1>0, <1>1
  <2> QED BY <1>3, <2>1, <2>2 DEF CallOK
<1>5. WithinOverlap'
  BY <1>3, NothingCounted
<1>6. SubOK' /\ ListingTypes' /\ PublishedAccounted'
  BY <1>0, <1>1, <1>2, <1>3 DEF ListInv, SubOK, ListingTypes, PublishedAccounted
<1> QED BY <1>1, <1>4, <1>5, <1>6 DEF ListInv

\* update(), archive() and updateAvailability() up to the SELECT of the save.
LEMMA LoadSteps ==
  ASSUME ListInv, NEW c \in Calls, UNCHANGED sub,
         \/ \E l \in Listings :
                UpdateListing(c, l) \/ ArchiveListing(c, l) \/ UpdateAvailability(c, l)
         \/ CompareListing(c)
  PROVE  ListInv'
<1>0. /\ call[c] \in CallRecords /\ CallOK(call[c], listing, Accounted)
      /\ listing \in [Listings -> ListingStatuses \cup {NoListing}]
  BY DEF ListInv, ListingTypes
<1>1. ASSUME NEW l \in Listings, NEW s, listing[l] # NoListing => s \in ListingStatuses,
             NEW op \in {"update", "archive", "availability"},
             op = "archive" => s = "archived", Load(c, l, op, s)
      PROVE  ListInv'
  <2> DEFINE k == [Free EXCEPT !.step = "compare", !.op = op, !.id = l, !.status = s,
                               !.was = (listing[l] = "published")]
  <2>1. /\ call[c].step = "free" /\ listing[l] # NoListing /\ UNCHANGED <<listing, marks>>
        /\ call' = [call EXCEPT ![c] = k]
    BY <1>1, FreeFacts DEF Load
  <2>2. /\ k \in CallRecords /\ k.step = "compare" /\ k.op = op /\ k.id = l /\ k.status = s
        /\ k.was = (listing[l] = "published")
    BY <1>1, <2>1, FreeFacts DEF CallRecords, CallSteps, Operations
  <2> HIDE DEF k
  <2>3. CallOK(k, listing, Accounted)
    BY <1>1, <2>1, <2>2 DEF CallOK, ListInv, PublishedAccounted
  <2> QED BY <2>1, <2>2, <2>3, QuietCall
<1>2. ASSUME NEW l \in Listings, UpdateListing(c, l) PROVE ListInv'
  BY <1>0, <1>1, <1>2, ListingsAssumption DEF UpdateListing
<1>3. ASSUME NEW l \in Listings, ArchiveListing(c, l) PROVE ListInv'
  BY <1>1, <1>3 DEF ArchiveListing, ListingStatuses
<1>4. ASSUME NEW l \in Listings, UpdateAvailability(c, l) PROVE ListInv'
  BY <1>0, <1>1, <1>4, ListingsAssumption DEF UpdateAvailability
<1>5. ASSUME CompareListing(c) PROVE ListInv'
  <2> DEFINE k == [call[c] EXCEPT !.step = "save", !.seen = listing[call[c].id]]
  <2>1. /\ call[c].step = "compare" /\ UNCHANGED <<listing, marks>>
        /\ call' = [call EXCEPT ![c] = k]
    BY <1>0, <1>5 DEF CompareListing, ListInv, ListingTypes
  <2>2. call[c].id \in Listings /\ listing[call[c].id] \in ListingStatuses
    BY <1>0, <2>1 DEF CallOK
  <2>3. /\ k \in CallRecords /\ k.step = "save" /\ k.op = call[c].op /\ k.id = call[c].id
        /\ k.status = call[c].status /\ k.was = call[c].was /\ k.seen = listing[call[c].id]
    BY <1>0, <2>2 DEF CallRecords, CallSteps
  <2> HIDE DEF k
  <2>4. CallOK(k, listing, Accounted)
    BY <1>0, <2>1, <2>2, <2>3 DEF CallOK
  <2> QED BY <2>1, <2>3, <2>4, QuietCall
<1> QED BY <1>2, <1>3, <1>4, <1>5

\* The UPDATE publishes what was offered before, what its call will offer, or
\* what it marks as exempt.
LEMMA SaveStep ==
  ASSUME ListInv, NEW c \in Calls, UNCHANGED sub, SaveListing(c)
  PROVE  ListInv'
<1> DEFINE l == call[c].id
           new == Column(call[c].status, call[c].seen, listing[l])
           publishes == call[c].op = "update" /\ ~call[c].was /\ call[c].status = "published"
           d == [Free EXCEPT !.step = "dispatch", !.op = "update", !.id = l,
                             !.status = "published"]
           k == IF publishes THEN d ELSE Free
           exempts == call[c].op = "availability" /\ new = "published"
<1>0. /\ call[c] \in CallRecords /\ call[c].step = "save" /\ CallOK(call[c], listing, Accounted)
      /\ listing \in [Listings -> ListingStatuses \cup {NoListing}]
      /\ call \in [Calls -> CallRecords] /\ marks \in [Listings -> SUBSET Marks]
      /\ listing' = [listing EXCEPT ![l] = new] /\ call' = [call EXCEPT ![c] = k]
      /\ marks' = [marks EXCEPT ![l] = IF exempts THEN Settled(@, "exempt") ELSE @]
  BY DEF SaveListing, ListInv, ListingTypes
<1>1. /\ l \in Listings /\ listing[l] \in ListingStatuses /\ new \in ListingStatuses
      /\ new = "published" => \/ listing[l] = "published"
                              \/ call[c].status = "published" /\ new = call[c].status
      /\ call[c].op \in {"update", "archive", "availability"}
      /\ call[c].op = "archive" => call[c].status # "published"
      /\ call[c].was => l \in Accounted
  BY <1>0 DEF CallOK, CallRecords, Column
<1>2. d \in CallRecords /\ d.step = "dispatch" /\ d.id = l
  BY <1>1, FreeFacts DEF CallRecords, CallSteps, Operations, ListingStatuses
<1>3. /\ k \in CallRecords /\ k.step \in {"dispatch", "free"}
      /\ publishes => k.step = "dispatch" /\ k.id = l
      /\ CallOK(k, listing', Accounted')
  BY <1>1, <1>2, FreeFacts DEF CallOK
<1> HIDE DEF k, d
<1>4. \A e \in Calls : call'[e] = IF e = c THEN k ELSE call[e]
  BY <1>0
<1>5. /\ listing' \in [Listings -> ListingStatuses \cup {NoListing}]
      /\ \A m \in Listings : listing'[m] = IF m = l THEN new ELSE listing[m]
      /\ \A m \in Listings : listing[m] # NoListing <=> listing'[m] # NoListing
  BY <1>0, <1>1, ListingsAssumption
<1>6. /\ marks' \in [Listings -> SUBSET Marks]
      /\ \A m \in Listings : marks[m] \subseteq marks'[m]
      /\ exempts => marks'[l] \cap {"offered", "exempt"} # {}
      /\ \A m \in Listings : "submitted" \in marks'[m] <=> "submitted" \in marks[m]
  BY <1>0, <1>1 DEF Settled, Marks
<1> HIDE DEF new
<1>7. Existing' = Existing /\ StaffCreated' = StaffCreated /\ Permitted' \subseteq Permitted
  BY <1>0, <1>3, <1>4, <1>5, <1>6 DEF Existing, StaffCreated, Permitted
<1>8. WithinOverlap' /\ IsFiniteSet(Existing')
  BY <1>7, NothingCounted DEF ListInv
<1>9. Accounted \subseteq Accounted'
  <2>1. \A m \in Listings, e \in Calls :
            (call[e].step = "dispatch" /\ call[e].id = m) => call'[e] = call[e]
    BY <1>0, <1>4
  <2> QED BY <1>6, <2>1 DEF Accounted
<1>10. ASSUME NEW m \in Listings, listing'[m] = "published"
       PROVE  listing[m] = "published" \/ m \in Accounted'
  <2>1. CASE m # l
    BY <1>5, <1>10, <2>1
  <2>2. CASE m = l /\ listing[l] # "published"
    <3>1. new = "published" /\ call[c].status = "published"
      BY <1>1, <1>5, <1>10, <2>2
    <3>2. CASE publishes
      BY <1>3, <1>4, <2>2, <3>2 DEF Accounted
    <3>3. CASE call[c].was
      BY <1>1, <1>9, <2>2, <3>3
    <3>4. CASE exempts
      BY <1>6, <2>2, <3>4 DEF Accounted
    <3> QED BY <1>1, <3>1, <3>2, <3>3, <3>4
  <2> QED BY <2>1, <2>2
<1> QED BY <1>0, <1>3, <1>5, <1>6, <1>8, <1>10, CallMoves

\* A dispatch, with or without the queue's error, and a call that dies.
LEMMA EndSteps ==
  ASSUME ListInv, NEW c \in Calls, UNCHANGED sub, DispatchMatchJob(c) \/ AbortCall(c)
  PROVE  ListInv'
<1> DEFINE l == call[c].id
           k == IF DispatchMatchJob(c) THEN Done(c) ELSE Free
<1>0. /\ call[c] \in CallRecords /\ CallOK(call[c], listing, Accounted)
      /\ call \in [Calls -> CallRecords] /\ marks \in [Listings -> SUBSET Marks]
      /\ UNCHANGED listing /\ listing \in [Listings -> ListingStatuses \cup {NoListing}]
  BY DEF DispatchMatchJob, AbortCall, ListInv, ListingTypes
<1>1. /\ k \in CallRecords /\ k.step \in {"free", "row"} /\ CallOK(k, listing', Accounted')
      /\ call' = [call EXCEPT ![c] = k]
  BY DoneFacts, FreeFacts DEF DispatchMatchJob, AbortCall
<1>2. \/ call[c].step = "dispatch" /\ \E mark \in {"offered", "exempt"} :
                                        marks' = [marks EXCEPT ![l] = Settled(@, mark)]
      \/ call[c].step # "dispatch" /\ marks' = marks
  BY DEF DispatchMatchJob, AbortCall
<1> HIDE DEF k
<1>3. call[c].step = "dispatch" => l \in Listings
  BY <1>0 DEF CallOK
<1>4. /\ marks' \in [Listings -> SUBSET Marks]
      /\ \A m \in Listings : marks[m] \subseteq marks'[m]
      /\ call[c].step = "dispatch" => marks'[l] \cap {"offered", "exempt"} # {}
      /\ \A m \in Listings : "submitted" \in marks'[m] <=> "submitted" \in marks[m]
  BY <1>0, <1>2, <1>3 DEF Settled, Marks
<1>5. Existing' = Existing /\ StaffCreated' = StaffCreated /\ Permitted' \subseteq Permitted
  BY <1>0, <1>1, <1>4 DEF Existing, StaffCreated, Permitted
<1>6. WithinOverlap' /\ IsFiniteSet(Existing')
  BY <1>5, NothingCounted DEF ListInv
<1> QED BY <1>0, <1>1, <1>4, <1>6, CallMoves

\* The workers touch the balance and the queue only.
LEMMA WorkersLeave ==
  ASSUME ListInv, NEW w \in Workers, WorkerStep(w) \/ WorkerFault(w)
  PROVE  /\ UNCHANGED <<listing, call, marks, dispatched>>
         /\ SubOK' /\ sub'.planId = sub.planId
<1>1. sub \in Rows /\ sub.status = "active"
  BY DEF ListInv, SubOK
<1>2. CASE UNCHANGED sub
  BY <1>1, <1>2 DEF SubOK, WorkerStep, WorkerFault, TakeJob, CheckAlreadySent, TakeCredit,
     NoCredit, LogQueued, Send, NoteSent, NoteSentThrows, NoteFailed, Refund, JobThrows,
     WorkerDies, listingVars
<1>3. CASE TakeCredit(w)
  <2>1. sub' = [sub EXCEPT !.credits = @ - 1] /\ sub.credits > 0
    BY <1>3 DEF TakeCredit, DeductSmsCredit
  <2> QED BY <1>1, <1>3, <2>1 DEF TakeCredit, listingVars, SubOK, Rows
<1>4. CASE Refund(w)
  <2>1. sub' = [sub EXCEPT !.credits = @ + 1]
    BY <1>4 DEF Refund, RefundSmsCredit
  <2> QED BY <1>1, <1>4, <2>1 DEF Refund, listingVars, SubOK, Rows
<1> QED BY <1>2, <1>3, <1>4
     DEF WorkerStep, WorkerFault, TakeJob, CheckAlreadySent, NoCredit, LogQueued, Send,
         NoteSent, NoteSentThrows, NoteFailed, JobThrows, WorkerDies, DropCredit,
         KeepSmsCredit, subVars

\* The inductive invariant of the handlers.
LEMMA ListingsInvariant == MatchSpec => []ListInv
<1>1. MatchInit => ListInv
  <2> SUFFICES ASSUME MatchInit PROVE ListInv
    OBVIOUS
  <2>1. SubOK
    <3> PICK p \in Plans : sub = Written(Fresh(p, "active", Credits[p]))
      BY DEF MatchInit, ListingsInit, Init
    <3> QED BY PlansAssumption DEF Written, Fresh, SubOK, Rows, Statuses
  <2>2. /\ ListingTypes /\ Existing = {} /\ StaffCreated = {} /\ Permitted = {}
        /\ \A c \in Calls : CallOK(call[c], listing, Accounted)
    BY FreeFacts
       DEF MatchInit, ListingsInit, ListingTypes, Existing, StaffCreated, Permitted, Marks
  <2>3. MaxListings[sub.planId] \in Nat \ {0} /\ Cardinality(Calls) \in Nat
    BY <2>1, FreeFacts, ListingsAssumption, FS_CardinalityType DEF SubOK
  <2>4. WithinOverlap /\ IsFiniteSet(Existing)
    BY <2>2, <2>3, FS_EmptySet DEF WithinOverlap
  <2>5. PublishedAccounted
    BY ListingsAssumption DEF MatchInit, ListingsInit, PublishedAccounted, ListingStatuses
  <2> QED BY <2>1, <2>2, <2>4, <2>5 DEF ListInv
<1>2. ASSUME ListInv, UNCHANGED sub, ListingsStep PROVE ListInv'
  BY <1>2, CountingSteps, InsertStep, SubmitStep, LoadSteps, SaveStep, EndSteps
  DEF ListingsStep
<1>3. ASSUME ListInv, UNCHANGED <<listing, call, marks>>, SubOK', sub'.planId = sub.planId
      PROVE  ListInv'
  BY <1>3 DEF ListInv, ListingTypes, CallOK, Accounted, Permitted, Existing, StaffCreated,
              WithinOverlap, PublishedAccounted
<1>4. ListInv /\ [MatchNext]_allVars => ListInv'
  <2> SUFFICES ASSUME ListInv, [MatchNext]_allVars PROVE ListInv'
    OBVIOUS
  <2>1. CASE ListingsStep /\ UNCHANGED <<subVars, matchVars>>
    BY <1>2, <2>1 DEF subVars
  <2>2. ASSUME NEW w \in Workers, WorkerStep(w) \/ WorkerFault(w) PROVE ListInv'
    BY <1>3, <2>2, WorkersLeave
  <2>3. CASE UNCHANGED allVars
    BY <1>3, <2>3 DEF allVars, subVars, listingVars, ListInv, SubOK
  <2> QED BY <2>1, <2>2, <2>3 DEF MatchNext
<1> QED BY <1>1, <1>4, PTL DEF MatchSpec

\* The listings that staff create pass the plan's limit by at most one for every
\* further call in flight (create() and bulkUpload(), assertListingLimit()).
THEOREM LimitIsKept == MatchSpec => []ListingsWithinLimit
<1>1. ListInv => ListingsWithinLimit
  <2> SUFFICES ASSUME ListInv PROVE ListingsWithinLimit
    OBVIOUS
  <2>1. MaxListings[sub.planId] \in Nat
    BY FreeFacts DEF ListInv, SubOK
  <2> QED BY <2>1, CountsAreNumbers DEF ListInv, WithinOverlap, ListingsWithinLimit
<1> QED BY <1>1, ListingsInvariant, PTL

\* Whatever updates, archivals and stale saves overlap, a published listing was
\* offered to the queue, will be, or is one of the two exceptions (update(),
\* create(), dispatchMatchJob()).
THEOREM PublishedAreOffered == MatchSpec => []PublishedWasOffered
<1>1. ListInv => PublishedWasOffered
  BY DEF ListInv, PublishedAccounted, Accounted, PublishedWasOffered
<1> QED BY <1>1, ListingsInvariant, PTL

-----------------------------------------------------------------------------
(* The queue.  A dispatched job waits, runs, or is gone, and is never two.  *)

On(l) == {w \in Workers : worker[w].job = l}

JobsInv ==
    /\ queue \in [Listings -> [{0, 1} -> Nat]]
    /\ dispatched \in 0..MaxJobs
    /\ \A l \in Listings : queue[l][0] + queue[l][1] + Cardinality(On(l)) <= dispatched
    /\ \A w \in Workers : worker[w].step = "select" => worker[w].left # {}
    /\ failedJobs \subseteq Listings

\* Workers that run jobs of a listing are finitely many.
LEMMA OnIsFinite ==
  \A l : /\ IsFiniteSet(On(l)) /\ Cardinality(On(l)) \in Nat
         /\ \A S \in SUBSET On(l) : Cardinality(S) \in Nat /\ Cardinality(S) <= Cardinality(On(l))
<1>1. \A l : On(l) \in SUBSET Workers
  BY DEF On
<1> QED BY <1>1, MatchingAssumption, FS_Subset, FS_CardinalityType

\* Only a dispatch adds a job, which waits.
LEMMA DispatchedJobs ==
  ASSUME ListInv, JobsInv, ListingsStep, UNCHANGED <<subVars, matchVars>>
  PROVE  JobsInv'
<1>1. UNCHANGED <<worker, failedJobs>> /\ \A l : On(l)' = On(l)
  BY DEF matchVars, On
<1>2. CASE UNCHANGED <<queue, dispatched>>
  BY <1>1, <1>2 DEF JobsInv
<1>3. ASSUME NEW c \in Calls, DispatchMatchJob(c), ~UNCHANGED <<queue, dispatched>>
      PROVE  JobsInv'
  <2> DEFINE l == call[c].id
  <2>1. l \in Listings
    BY <1>3 DEF DispatchMatchJob, ListInv, CallOK
  <2>2. /\ dispatched < MaxJobs /\ dispatched' = dispatched + 1
        /\ queue' = [queue EXCEPT ![l][0] = @ + 1]
    BY <1>3 DEF DispatchMatchJob
  <2>3. /\ queue' \in [Listings -> [{0, 1} -> Nat]] /\ dispatched' \in 0..MaxJobs
        /\ queue'[l][0] = queue[l][0] + 1 /\ queue'[l][1] = queue[l][1]
        /\ \A m \in Listings \ {l} : queue'[m] = queue[m]
    BY <2>1, <2>2, ListingsAssumption DEF JobsInv
  <2> HIDE DEF l
  <2>4. ASSUME NEW m \in Listings
        PROVE  queue'[m][0] + queue'[m][1] + Cardinality(On(m)') <= dispatched'
    BY <1>1, <2>2, <2>3, OnIsFinite DEF JobsInv
  <2> QED BY <1>1, <2>3, <2>4 DEF JobsInv
<1> QED BY <1>2, <1>3
     DEF ListingsStep, OwnerSubmit, CreateListing, BulkUpload, BulkRow, CheckLimit,
         InsertListing, InsertFails, UpdateListing, ArchiveListing, UpdateAvailability, Load,
         CompareListing, SaveListing, AbortCall

\* A worker goes on with its job, or is done with it.
LEMMA JobGoesOn ==
  ASSUME MatchInv, JobsInv, NEW w \in Workers, \A v \in Workers \ {w} : worker'[v] = worker[v],
         worker'[w].job \in {worker[w].job, NoListing},
         worker'[w].step = "select" => worker'[w].left # {},
         UNCHANGED <<queue, dispatched>>, failedJobs' \subseteq Listings
  PROVE  JobsInv'
<1>1. \A l \in Listings : On(l)' \subseteq On(l)
  BY ListingsAssumption DEF On
<1>2. ASSUME NEW l \in Listings
      PROVE  queue'[l][0] + queue'[l][1] + Cardinality(On(l)') <= dispatched'
  <2>1. /\ Cardinality(On(l)') \in Nat /\ Cardinality(On(l)) \in Nat
        /\ Cardinality(On(l)') <= Cardinality(On(l))
    BY <1>1, OnIsFinite
  <2>2. queue[l][0] \in Nat /\ queue[l][1] \in Nat /\ dispatched \in Nat
        /\ queue[l][0] + queue[l][1] + Cardinality(On(l)) <= dispatched
    BY ListingsAssumption DEF JobsInv
  <2> QED BY <2>1, <2>2
<1> QED BY <1>2 DEF JobsInv

\* A job that is taken waits no more.
LEMMA JobTaken ==
  ASSUME MatchInv, JobsInv, NEW w \in Workers, NEW l \in Listings, NEW k \in {0, 1},
         TakeJob(w, l, k)
  PROVE  JobsInv'
<1>1. /\ worker[w].job = NoListing /\ worker'[w].job \in {l, NoListing}
      /\ worker'[w].step = "select" => worker'[w].left # {}
      /\ \A v \in Workers \ {w} : worker'[v] = worker[v]
  BY DEF TakeJob, Waiting, MatchInv, MatchTypes
<1>2. /\ queue' \in [Listings -> [{0, 1} -> Nat]] /\ queue[l][k] > 0
      /\ queue'[l][k] = queue[l][k] - 1
      /\ \A j \in {0, 1} \ {k} : queue'[l][j] = queue[l][j]
      /\ \A m \in Listings \ {l} : queue'[m] = queue[m]
      /\ UNCHANGED <<dispatched, failedJobs>>
  BY DEF TakeJob, JobsInv
<1>3. queue'[l][0] + queue'[l][1] = queue[l][0] + queue[l][1] - 1
  BY <1>2 DEF JobsInv
<1>4. On(l)' \subseteq On(l) \cup {w} /\ \A m \in Listings \ {l} : On(m)' \subseteq On(m)
  BY <1>1, ListingsAssumption DEF On
<1>5. Cardinality(On(l)') \in Nat /\ Cardinality(On(l)') <= Cardinality(On(l)) + 1
  <2>1. IsFiniteSet(On(l) \cup {w}) /\ Cardinality(On(l) \cup {w}) \in Nat
        /\ Cardinality(On(l) \cup {w})
              = IF w \in On(l) THEN Cardinality(On(l)) ELSE Cardinality(On(l)) + 1
    BY OnIsFinite, FS_AddElement, FS_CardinalityType
  <2>2. Cardinality(On(l)') \in Nat /\ Cardinality(On(l)') <= Cardinality(On(l) \cup {w})
    BY <1>4, <2>1, FS_Subset, FS_CardinalityType
  <2> QED BY <2>1, <2>2, OnIsFinite
<1>6. ASSUME NEW m \in Listings
      PROVE  queue'[m][0] + queue'[m][1] + Cardinality(On(m)') <= dispatched'
  <2>0. queue[m][0] \in Nat /\ queue[m][1] \in Nat /\ dispatched \in Nat
        /\ queue[m][0] + queue[m][1] + Cardinality(On(m)) <= dispatched
        /\ Cardinality(On(m)) \in Nat
    BY OnIsFinite, ListingsAssumption DEF JobsInv
  <2>1. CASE m = l
    BY <1>2, <1>3, <1>5, <2>0, <2>1
  <2>2. CASE m # l
    <3>1. Cardinality(On(m)') \in Nat /\ Cardinality(On(m)') <= Cardinality(On(m))
      BY <1>4, <2>2, OnIsFinite
    <3> QED BY <1>2, <2>0, <2>2, <3>1
  <2> QED BY <2>1, <2>2
<1> QED BY <1>1, <1>2, <1>6 DEF JobsInv

\* The job of a worker that dies waits again, or fails.
LEMMA JobStalls ==
  ASSUME MatchInv, JobsInv, NEW w \in Workers, WorkerDies(w)
  PROVE  JobsInv'
<1> PICK l \in Listings : worker[w].job = l
  BY DEF WorkerDies, MatchInv, CustomerOK
<1>1. worker'[w] = Waiting /\ \A v \in Workers \ {w} : worker'[v] = worker[v]
  BY DEF WorkerDies, MatchInv, MatchTypes
<1>2. worker'[w].job = NoListing /\ worker'[w].step # "select" /\ UNCHANGED dispatched
  BY <1>1 DEF Waiting, WorkerDies
<1>3. CASE worker[w].stalls # 0
  BY <1>1, <1>2, <1>3, JobGoesOn DEF WorkerDies, JobsInv
<1>4. CASE worker[w].stalls = 0
  <2>1. /\ queue' = [queue EXCEPT ![l][1] = @ + 1] /\ UNCHANGED failedJobs
    BY <1>4 DEF WorkerDies
  <2>2. /\ queue' \in [Listings -> [{0, 1} -> Nat]]
        /\ queue'[l][0] = queue[l][0] /\ queue'[l][1] = queue[l][1] + 1
        /\ \A m \in Listings \ {l} : queue'[m] = queue[m]
    BY <1>1, <2>1 DEF JobsInv
  <2>3. /\ On(l)' = On(l) \ {w} /\ w \in On(l)
        /\ \A m \in Listings \ {l} : On(m)' = On(m)
    BY <1>1, <1>2, ListingsAssumption DEF On
  <2>4. Cardinality(On(l)') = Cardinality(On(l)) - 1
    BY <2>3, OnIsFinite, FS_RemoveElement
  <2>5. ASSUME NEW m \in Listings
        PROVE  queue'[m][0] + queue'[m][1] + Cardinality(On(m)') <= dispatched'
    <3>0. queue[m][0] \in Nat /\ queue[m][1] \in Nat /\ dispatched \in Nat
          /\ queue[m][0] + queue[m][1] + Cardinality(On(m)) <= dispatched
          /\ Cardinality(On(m)) \in Nat
      BY OnIsFinite, ListingsAssumption DEF JobsInv
    <3>1. CASE m = l
      BY <1>2, <2>2, <2>4, <3>0, <3>1
    <3>2. CASE m # l
      BY <1>2, <2>2, <2>3, <3>0, <3>2
    <3> QED BY <3>1, <3>2
  <2> QED BY <1>1, <1>2, <2>1, <2>2, <2>5 DEF JobsInv
<1> QED BY <1>3, <1>4

\* So is every other step of a worker.
LEMMA JobSteps ==
  ASSUME MatchInv, ListInv, JobsInv, NEW w \in Workers, WorkerStep(w) \/ WorkerFault(w)
  PROVE  JobsInv'
<1>0. /\ worker \in [Workers -> WorkerRecords] /\ worker[w] \in WorkerRecords
      /\ worker[w].step # "idle" => worker[w].job \in Listings
      /\ UNCHANGED dispatched
  BY WorkersLeave DEF MatchInv, MatchTypes, CustomerOK
<1>1. \A v \in Workers \ {w} : worker'[v] = worker[v]
  BY WorkerAlone
<1>2. ASSUME NEW k, worker' = [worker EXCEPT ![w] = k],
             k.job \in {worker[w].job, NoListing}, k.step = "select" => k.left # {},
             UNCHANGED queue, failedJobs' \subseteq Listings
      PROVE  JobsInv'
  <2>1. worker'[w] = k
    BY <1>0, <1>2
  <2> QED BY <1>0, <1>1, <1>2, <2>1, JobGoesOn
<1>3. Waiting.job = NoListing /\ Waiting.step # "select"
  BY DEF Waiting
<1>4. /\ Continued(w).job \in {worker[w].job, NoListing}
      /\ Continued(w).step = "select" => Continued(w).left # {}
  <2> DEFINE k == [worker[w] EXCEPT !.step = "select", !.to = Null, !.credit = 0]
  <2>1. k.job = worker[w].job /\ k.left = worker[w].left
    BY <1>0 DEF WorkerRecords
  <2>2. Continued(w) = IF worker[w].left = {} THEN Waiting ELSE k
    BY DEF Continued
  <2> HIDE DEF k
  <2> QED BY <1>3, <2>1, <2>2
<1>5. ASSUME NEW c \in Customers, CheckAlreadySent(w, c) PROVE JobsInv'
  <2> DEFINE rest == [worker[w] EXCEPT !.left = @ \ {c}]
             credit == [rest EXCEPT !.step = "credit", !.to = c]
             k == IF Sent(c, worker[w].job) = {} THEN credit
                  ELSE IF rest.left = {} THEN Waiting ELSE rest
  <2>1. rest.job = worker[w].job /\ credit.job = worker[w].job /\ credit.step = "credit"
    BY <1>0 DEF WorkerRecords
  <2>2. worker' = [worker EXCEPT ![w] = k] /\ UNCHANGED <<queue, failedJobs>>
    BY <1>5 DEF CheckAlreadySent, listingVars
  <2>3. k.job \in {worker[w].job, NoListing} /\ (k.step = "select" => k.left # {})
    BY <1>3, <2>1
  <2> HIDE DEF k
  <2> QED BY <1>2, <2>2, <2>3 DEF JobsInv
<1>6. CASE NoCredit(w) \/ NoteSent(w) \/ Refund(w)
  BY <1>2, <1>4, <1>6 DEF NoCredit, NoteSent, Refund, listingVars, JobsInv
<1>7. CASE JobThrows(w)
  BY <1>0, <1>2, <1>3, <1>7 DEF JobThrows, listingVars, JobsInv
<1>8. CASE \/ TakeCredit(w) \/ LogQueued(w) \/ NoteSentThrows(w) \/ NoteFailed(w)
           \/ \E outcome : Send(w, outcome)
  <2>1. worker'[w].job = worker[w].job /\ worker'[w].step # "select"
    BY <1>0, <1>8
       DEF TakeCredit, LogQueued, NoteSentThrows, NoteFailed, Send, WorkerRecords
  <2>2. UNCHANGED <<queue, failedJobs>>
    BY <1>8 DEF TakeCredit, LogQueued, NoteSentThrows, NoteFailed, Send, listingVars
  <2> QED BY <1>0, <1>1, <2>1, <2>2, JobGoesOn DEF JobsInv
<1> QED BY <1>5, <1>6, <1>7, <1>8, JobTaken, JobStalls DEF WorkerStep, WorkerFault

\* Rows, calls, workers, messages and the queue keep their types: a job that
\* stalls is moved, never doubled, so no more wait than were dispatched.
THEOREM MatchingTypeCorrect == MatchSpec => []MatchingTypeOK
<1>1. MatchInit => JobsInv
  <2> SUFFICES ASSUME MatchInit PROVE JobsInv
    OBVIOUS
  <2>1. \A l \in Listings : On(l) = {}
    BY ListingsAssumption DEF MatchInit, On, Waiting
  <2>2. \A l \in Listings : queue[l][0] = 0 /\ queue[l][1] = 0 /\ Cardinality(On(l)) = 0
    BY <2>1, FS_EmptySet DEF MatchInit, ListingsInit
  <2>3. dispatched = 0 /\ 0 \in 0..MaxJobs
    BY ListingsAssumption DEF MatchInit, ListingsInit
  <2>4. queue \in [Listings -> [{0, 1} -> Nat]] /\ failedJobs \subseteq Listings
        /\ \A w \in Workers : worker[w].step # "select"
    BY DEF MatchInit, ListingsInit, Waiting
  <2> QED BY <2>2, <2>3, <2>4 DEF JobsInv
<1>2. MatchInv /\ ListInv /\ JobsInv /\ [MatchNext]_allVars => JobsInv'
  <2> SUFFICES ASSUME MatchInv, ListInv, JobsInv, [MatchNext]_allVars PROVE JobsInv'
    OBVIOUS
  <2>1. CASE UNCHANGED allVars
    BY <2>1 DEF allVars, listingVars, matchVars, JobsInv, On
  <2> QED BY <2>1, DispatchedJobs, JobSteps DEF MatchNext
<1>3. MatchInv /\ AnswerInv /\ ListInv /\ JobsInv => MatchingTypeOK
  <2> SUFFICES ASSUME MatchInv, AnswerInv, ListInv, JobsInv PROVE MatchingTypeOK
    OBVIOUS
  <2>1. queue \in [Listings -> [{0, 1} -> 0..MaxJobs]]
    <3> SUFFICES ASSUME NEW l \in Listings, NEW k \in {0, 1} PROVE queue[l][k] \in 0..MaxJobs
      BY DEF JobsInv
    <3>1. queue[l][0] \in Nat /\ queue[l][1] \in Nat /\ Cardinality(On(l)) \in Nat
          /\ queue[l][0] + queue[l][1] + Cardinality(On(l)) <= dispatched
          /\ dispatched \in 0..MaxJobs /\ MaxJobs \in Nat
      BY OnIsFinite, ListingsAssumption DEF JobsInv
    <3> QED BY <3>1
  <2>2. ListingsTypeOK
    BY <2>1 DEF ListInv, ListingTypes, CallOK, JobsInv, ListingsTypeOK
  <2> QED BY <2>2 DEF MatchInv, MatchTypes, AnswerInv, JobsInv, MatchingTypeOK
<1> QED BY <1>1, <1>2, <1>3, MatchInvariant, AnswerInvariant, ListingsInvariant, PTL
     DEF MatchSpec
=============================================================================
