---------------------------- MODULE Subscriptions ----------------------------
(***************************************************************************)
(* One tenant's row of tenant_subscriptions and the handlers of            *)
(* subscriptions.service.ts that change it.                                *)
(*                                                                         *)
(* Every handler except deductSmsCredit loads the row into an entity,      *)
(* changes the entity and saves it.  save() is two statements: a SELECT of *)
(* the row, and an UPDATE of the columns in which the entity differs from  *)
(* what the SELECT returned, those another handler has changed since the   *)
(* load included.  A request is therefore three actions: one that loads    *)
(* the row and computes the entity, CompareWithRow and CompleteSave, and   *)
(* any other handler may run between them.  The period columns are left    *)
(* out: no code reads them.                                                *)
(***************************************************************************)
EXTENDS Integers, FiniteSets

CONSTANTS
    Plans,          \* rows of subscription_plans, never changed after seeding
    Price,          \* priceMonthly of each plan
    Credits,        \* smsCreditsIncluded of each plan
    NoPlan,         \* null in pending_plan_id
    NoRow,          \* the tenant has no subscription row
    NoEntity,       \* a request that has nothing to save
    Requests,       \* subscription requests the server may have in flight
    MaxSends,       \* bound on the SMS messages paid with credits
    BillingCycle    \* TRUE: some job calls applyPendingPlan (none does)

Statuses == {"active", "past_due", "cancelled"}

Rows == [planId : Plans, status : Statuses, credits : Nat,
         pendingPlanId : Plans \cup {NoPlan}]

\* A TenantSubscription object: its columns, the relation object `plan`, and
\* whether it came from the table (an UPDATE) or is new (an INSERT).
Entities == [stored : BOOLEAN, planId : Plans, plan : Plans,
             status : Statuses, credits : Nat,
             pendingPlanId : Plans \cup {NoPlan}]

Ops == {"idle", "subscribe_free", "downgrade", "cancel", "mark_past_due",
        "apply_pending"}

ASSUME PlansAssumption ==
    /\ Price \in [Plans -> Nat]
    /\ Credits \in [Plans -> Nat]
    /\ NoPlan \notin Plans
ASSUME NullsAssumption ==
    /\ NoRow \notin Rows
    /\ NoEntity \notin Entities
ASSUME BoundsAssumption ==
    /\ MaxSends \in Nat
    /\ BillingCycle \in BOOLEAN

VARIABLES
    sub,        \* the row, or NoRow
    request,    \* what each request in flight saves, and the row save() read
    sending,    \* messages whose credit is deducted and whose outcome is open
    issued      \* messages that have ever taken a credit

subVars == <<sub, request, sending, issued>>

Idle == [op |-> "idle", entity |-> NoEntity, seen |-> NoRow]

SubscriptionsTypeOK ==
    /\ sub \in Rows \cup {NoRow}
    /\ request \in [Requests -> [op : Ops, entity : Entities \cup {NoEntity},
                                 seen : Rows \cup {NoRow}]]
    /\ \A r \in Requests : request[r].op # "idle" => request[r].entity \in Entities
    /\ sending \in Nat
    /\ issued \in 0..MaxSends

-----------------------------------------------------------------------------
(* Loading and saving a row (TypeORM).                                     *)

IsFree(p) == Price[p] = 0

\* findOne: the columns of the row and the eager relation plan.
Loaded(row) ==
    [stored |-> TRUE, planId |-> row.planId, plan |-> row.planId,
     status |-> row.status, credits |-> row.credits,
     pendingPlanId |-> row.pendingPlanId]

\* An object literal with no id: save() inserts it.
Fresh(p, status, credits) ==
    [stored |-> FALSE, planId |-> p, plan |-> p, status |-> status,
     credits |-> credits, pendingPlanId |-> NoPlan]

\* The columns save() takes from an entity.  plan and planId are one column:
\* while the relation object is present TypeORM takes the column from it.
Written(e) ==
    [planId |-> e.plan, status |-> e.status, credits |-> e.credits,
     pendingPlanId |-> e.pendingPlanId]

\* A column of the UPDATE: left as it is now unless the entity's value differs
\* from the one the SELECT returned.
Column(new, seen, now) == IF new = seen THEN now ELSE new

\* The row after save(): an INSERT of a new object, else the partial UPDATE.
Saved(e, seen) ==
    IF e.stored
    THEN [planId |-> Column(e.plan, seen.planId, sub.planId),
          status |-> Column(e.status, seen.status, sub.status),
          credits |-> Column(e.credits, seen.credits, sub.credits),
          pendingPlanId |->
              Column(e.pendingPlanId, seen.pendingPlanId, sub.pendingPlanId)]
    ELSE Written(e)

\* An INSERT meets UNIQUE (tenant_id); an UPDATE follows its SELECT.
Savable(e, seen) == IF e.stored THEN seen # NoRow ELSE sub = NoRow

Accept(r, op, e) ==
    /\ request[r] = Idle
    /\ request' = [request EXCEPT ![r] = [op |-> op, entity |-> e, seen |-> NoRow]]
    /\ UNCHANGED <<sub, sending, issued>>

-----------------------------------------------------------------------------
(* Requests up to their save.                                              *)

\* subscribe() with a free plan: applied at once, the row created if missing.
SubscribeFree(r, p) ==
    /\ IsFree(p)
    /\ Accept(r, "subscribe_free",
              IF sub = NoRow
              THEN Fresh(p, "active", Credits[p])
              ELSE [stored |-> TRUE, planId |-> p, plan |-> p,
                    status |-> "active", credits |-> Credits[p],
                    pendingPlanId |-> NoPlan])

\* subscribe() with a paid plan: refused without a row or for an upgrade, a
\* cheaper plan is noted for the next billing cycle.
ScheduleDowngrade(r, p) ==
    /\ ~IsFree(p)
    /\ sub # NoRow
    /\ Price[p] < Price[sub.planId]
    /\ Accept(r, "downgrade", [Loaded(sub) EXCEPT !.pendingPlanId = p])

Cancel(r) ==
    /\ sub # NoRow
    /\ Accept(r, "cancel", [Loaded(sub) EXCEPT !.status = "cancelled"])

MarkPastDue(r) ==
    /\ sub # NoRow
    /\ sub.status = "active"
    /\ Accept(r, "mark_past_due", [Loaded(sub) EXCEPT !.status = "past_due"])

\* applyPendingPlan(): planId and plan both become the pending plan; the status
\* is kept.
ApplyPendingPlan(r) ==
    /\ BillingCycle
    /\ sub # NoRow
    /\ sub.pendingPlanId # NoPlan
    /\ LET p == sub.pendingPlanId
       IN  Accept(r, "apply_pending",
                  [Loaded(sub) EXCEPT !.planId = p, !.plan = p,
                                      !.pendingPlanId = NoPlan,
                                      !.credits = Credits[p]])

-----------------------------------------------------------------------------
(* The save that ends a request, or its failure.                           *)

CompareWithRow(r) ==
    /\ request[r].op # "idle"
    /\ request[r].entity.stored
    /\ request[r].seen = NoRow
    /\ request' = [request EXCEPT ![r].seen = sub]
    /\ UNCHANGED <<sub, sending, issued>>

CompleteSave(r) ==
    /\ request[r].op # "idle"
    /\ Savable(request[r].entity, request[r].seen)
    /\ sub' = Saved(request[r].entity, request[r].seen)
    /\ request' = [request EXCEPT ![r] = Idle]
    /\ UNCHANGED <<sending, issued>>

\* The INSERT is refused, the database is unreachable or the process dies:
\* nothing is written.
AbortRequest(r) ==
    /\ request[r].op # "idle"
    /\ request' = [request EXCEPT ![r] = Idle]
    /\ UNCHANGED <<sub, sending, issued>>

-----------------------------------------------------------------------------
(* SMS credits, as MatchingService spends them.                            *)

\* Mutant: the UPDATE has lost its sms_credits_remaining > 0.
DeductAnyBalance ==
    /\ issued < MaxSends
    /\ sub # NoRow
    /\ sub.status = "active"
    /\ sub' = [sub EXCEPT !.credits = @ - 1]
    /\ sending' = sending + 1
    /\ issued' = issued + 1
    /\ UNCHANGED request

\* deductSmsCredit(): one conditional UPDATE on the current row.
DeductSmsCredit ==
    /\ issued < MaxSends
    /\ sub # NoRow
    /\ sub.credits > 0
    /\ sub.status = "active"
    /\ sub' = [sub EXCEPT !.credits = @ - 1]
    /\ sending' = sending + 1
    /\ issued' = issued + 1
    /\ UNCHANGED request

\* The message is sent, or the job dies before it knows: the credit stays spent.
KeepSmsCredit ==
    /\ sending > 0
    /\ sending' = sending - 1
    /\ UNCHANGED <<sub, request, issued>>

\* Mutant: a failed message is refunded and stays open, to be refunded again.
RefundAgain ==
    /\ sending > 0
    /\ sub' = [sub EXCEPT !.credits = @ + 1]
    /\ UNCHANGED <<request, sending, issued>>

\* The provider threw: one UPDATE gives the credit back, whatever the status.
RefundSmsCredit ==
    /\ sending > 0
    /\ sending' = sending - 1
    /\ sub' = [sub EXCEPT !.credits = @ + 1]
    /\ UNCHANGED <<request, issued>>

-----------------------------------------------------------------------------
\* A tenant without a row, or with one as an activation leaves it.
Init ==
    /\ sub \in {NoRow} \cup {Written(Fresh(p, "active", Credits[p])) : p \in Plans}
    /\ request = [r \in Requests |-> Idle]
    /\ sending = 0
    /\ issued = 0

RequestStep ==
    \E r \in Requests :
        \/ \E p \in Plans : SubscribeFree(r, p)
        \/ \E p \in Plans : ScheduleDowngrade(r, p)
        \/ Cancel(r)
        \/ MarkPastDue(r)
        \/ ApplyPendingPlan(r)
        \/ CompareWithRow(r)
        \/ CompleteSave(r)
        \/ AbortRequest(r)

CreditStep == DeductSmsCredit \/ KeepSmsCredit \/ RefundSmsCredit

Next == RequestStep \/ CreditStep

Spec == Init /\ [][Next]_subVars

\* The event loop resumes every handler whose load has answered, and a billing
\* cycle, where there is one, runs.
FairSpec ==
    /\ Spec
    /\ \A r \in Requests : WF_subVars(CompareWithRow(r)) /\ WF_subVars(CompleteSave(r))
    /\ WF_subVars(\E r \in Requests : ApplyPendingPlan(r))

-----------------------------------------------------------------------------
(* Properties.                                                             *)

\* The balance together with the messages still in flight never exceeds some
\* plan's allowance plus the deductions made: whatever order deductions, refunds
\* and overlapping saves run in, a refund only returns what one deduction took.
CreditsCovered ==
    sub # NoRow => \E p \in Plans : sub.credits + sending <= Credits[p] + issued

\* The save of a request of kind op is the step taken.
Saves(op) == \E r \in Requests : request[r].op = op /\ request'[r] = Idle

\* The balance rises only when a plan is granted or a failed message is
\* refunded: a credit that was deducted stays deducted.
CreditsRiseOnlyByGrantOrRefund ==
    [][(sub # NoRow /\ sub'.credits > sub.credits)
         => \/ RefundSmsCredit
            \/ Saves("subscribe_free")
            \/ Saves("apply_pending")]_subVars

\* A scheduled downgrade takes effect, or another request replaces it.
DowngradeTakesEffect ==
    \A p \in Plans :
        (sub # NoRow /\ sub.pendingPlanId = p)
            ~> (sub # NoRow /\ (sub.planId = p \/ sub.pendingPlanId # p))
=============================================================================
