------------------------------ MODULE Payments ------------------------------
(***************************************************************************)
(* Bookings, the payments table, the gateways as their adapters see them,  *)
(* and payments.service.ts: createIntent, createSubscriptionIntent and     *)
(* handleWebhookEvent.  Extends Subscriptions: the subscription intent and *)
(* the webhook write the same row as the handlers there.                   *)
(*                                                                         *)
(* A handler is a record that moves from await to await, so that intents,  *)
(* webhook deliveries and subscription requests interleave, and any of     *)
(* them may fail at any await.  Notices are kept once sent: a gateway may  *)
(* deliver one never, late, twice, or after a newer one.                   *)
(***************************************************************************)
EXTENDS Subscriptions

CONSTANTS
    Bookings,       \* ids of the bookings that may be created
    Amounts,        \* rents a booking may copy from its listing
    Subscription,   \* id of the tenant's subscription row
    Gateways,       \* values of dto.gateway that clients use
    Refs,           \* ids Stripe and Khalti give to the sessions they open
    Intents,        \* intent requests in flight
    Hooks,          \* webhook deliveries in flight
    NoBooking, NoSession, NoPayment, NoKey      \* null values

Payables == Bookings \cup {Subscription}
AllRefs  == Refs \cup Payables
Providers == {"stripe", "khalti", "esewa"}
AllGateways == Providers \cup {"fonepay"}
Keys == AllGateways \X AllRefs      \* UNIQUE (gateway, gateway_transaction_id)
Outcomes == {"success", "failed"}

BookingRows ==
    [status : {"pending", "confirmed"}, amountDue : Nat, amountPaid : Nat]
PaymentRows ==
    [payable : Payables, amount : Nat, status : {"pending"} \cup Outcomes]
Sessions == [provider : Providers, payable : Payables, amount : Nat,
             plan : Plans \cup {NoPlan}, charged : BOOLEAN]
Notices == [ref : AllRefs, outcome : Outcomes]

ASSUME PaymentsAssumption ==
    /\ Amounts \subseteq Nat
    /\ Gateways \subseteq AllGateways
    /\ Subscription \notin Bookings
    /\ Refs \cap Payables = {}
ASSUME PaymentNullsAssumption ==
    /\ NoBooking \notin BookingRows
    /\ NoSession \notin Sessions
    /\ NoPayment \notin PaymentRows
    /\ NoKey \notin Keys

VARIABLES
    booking,    \* rows of bookings
    payment,    \* rows of payments, by gateway and transaction id
    session,    \* what each gateway knows of a transaction it opened
    notices,    \* Stripe events sent so far
    intent,     \* createIntent and createSubscriptionIntent calls in flight
    hook,       \* handleWebhookEvent calls in flight
    applied     \* history: successes a delivery has handled to its end

payVars == <<booking, payment, session, notices, intent, hook, applied>>
allVars == <<subVars, payVars>>

IdleIntent == [step |-> "idle", payable |-> Subscription, gateway |-> "stripe",
               plan |-> NoPlan, amount |-> 0, key |-> NoKey,
               entity |-> NoEntity, seen |-> NoRow]
IdleHook == [step |-> "idle", key |-> NoKey, outcome |-> "failed",
             entity |-> NoEntity, seen |-> NoRow]

IntentRecords ==
    [step : {"idle", "save", "open", "insert"}, payable : Payables,
     gateway : AllGateways, plan : Plans \cup {NoPlan}, amount : Nat,
     key : Keys \cup {NoKey}, entity : Entities \cup {NoEntity},
     seen : Rows \cup {NoRow}]
HookRecords ==
    [step : {"idle", "save", "write", "apply", "activate"}, key : Keys \cup {NoKey},
     outcome : Outcomes, entity : Entities \cup {NoEntity},
     seen : Rows \cup {NoRow}]

PaymentsTypeOK ==
    /\ SubscriptionsTypeOK
    /\ booking \in [Bookings -> BookingRows \cup {NoBooking}]
    /\ payment \in [Keys -> PaymentRows \cup {NoPayment}]
    /\ session \in [AllRefs -> Sessions \cup {NoSession}]
    /\ notices \subseteq Notices
    /\ intent \in [Intents -> IntentRecords]
    /\ hook \in [Hooks -> HookRecords]
    /\ applied \subseteq Keys

-----------------------------------------------------------------------------
(* The adapters.                                                           *)

\* resolveAdapter(): the switch's default is the Stripe adapter.
Provider(g) == IF g \in Providers THEN g ELSE "stripe"

\* verifyWebhookSignature(): the eSewa adapter reads fields of the callback
\* object, but the service hands it the raw body, so its check never succeeds.
Verified(g) == Provider(g) # "esewa"

\* providerRef: eSewa's is the id of what is paid for, the others' is new.
MayOpen(g, payable, ref) ==
    IF Provider(g) = "esewa"
    THEN ref = payable
    ELSE ref \in Refs /\ session[ref] = NoSession

\* Mutant: a Khalti lookup counts as success whatever state it answers.
ReportsAnyLookup(g, ref, outcome) ==
    IF g = "stripe"
    THEN [ref |-> ref, outcome |-> outcome] \in notices
    ELSE outcome = "success"

\* adapter.handleWebhook(): Stripe's event says what happened, Khalti is asked
\* now and any state but Completed counts as failed, eSewa's callback says it.
Reports(g, ref, outcome) ==
    IF g = "stripe"
    THEN [ref |-> ref, outcome |-> outcome] \in notices
    ELSE outcome = IF session[ref].charged THEN "success" ELSE "failed"

-----------------------------------------------------------------------------
(* The gateways and the customer.                                          *)

\* The client can pay only after the intent's answer, which follows its row.
Payable(ref) ==
    /\ session[ref] # NoSession
    /\ ~session[ref].charged
    /\ \E g \in AllGateways : payment[<<g, ref>>] # NoPayment

Notify(ref, outcome) ==
    notices' = IF session[ref].provider = "stripe"
               THEN notices \cup {[ref |-> ref, outcome |-> outcome]}
               ELSE notices

GatewayCharges(ref) ==
    /\ Payable(ref)
    /\ session' = [session EXCEPT ![ref].charged = TRUE]
    /\ Notify(ref, "success")
    /\ UNCHANGED <<subVars, booking, payment, intent, hook, applied>>

\* A failed attempt: the customer may try again in the same session.
GatewayDeclines(ref) ==
    /\ Payable(ref)
    /\ session[ref].provider = "stripe"
    /\ Notify(ref, "failed")
    /\ UNCHANGED <<subVars, booking, payment, session, intent, hook, applied>>

-----------------------------------------------------------------------------
(* Bookings and payment intents.                                           *)

\* BookingsService.create(): the amount due is the rent the listing has now.
CreateBooking(b, amount) ==
    /\ booking[b] = NoBooking
    /\ booking' = [booking EXCEPT ![b] =
           [status |-> "pending", amountDue |-> amount, amountPaid |-> 0]]
    /\ UNCHANGED <<subVars, payment, session, notices, intent, hook, applied>>

BeginIntent(i, b, g) ==
    /\ intent[i] = IdleIntent
    /\ booking[b] # NoBooking
    /\ intent' = [intent EXCEPT ![i] =
           [IdleIntent EXCEPT !.step = "open", !.payable = b, !.gateway = g,
                              !.amount = booking[b].amountDue]]
    /\ UNCHANGED <<subVars, booking, payment, session, notices, hook, applied>>

\* Mutant: the first intent's row already has the plan's messages.
BeginGrantingIntent(i, p, g) ==
    /\ intent[i] = IdleIntent
    /\ intent' = [intent EXCEPT ![i] =
           [IdleIntent EXCEPT
              !.step = "save", !.gateway = g, !.plan = p, !.amount = Price[p],
              !.entity = IF sub = NoRow
                         THEN Fresh(p, "past_due", Credits[p])
                         ELSE [Loaded(sub) EXCEPT !.pendingPlanId = p]]]
    /\ UNCHANGED <<subVars, booking, payment, session, notices, hook, applied>>

\* createSubscriptionIntent(): an existing row only notes the plan as pending; a
\* first intent prepares a past-due row that already names the plan.
BeginSubscriptionIntent(i, p, g) ==
    /\ intent[i] = IdleIntent
    /\ intent' = [intent EXCEPT ![i] =
           [IdleIntent EXCEPT
              !.step = "save", !.gateway = g, !.plan = p, !.amount = Price[p],
              !.entity = IF sub = NoRow
                         THEN Fresh(p, "past_due", 0)
                         ELSE [Loaded(sub) EXCEPT !.pendingPlanId = p]]]
    /\ UNCHANGED <<subVars, booking, payment, session, notices, hook, applied>>

CompareIntendedPlan(i) ==
    /\ intent[i].step = "save"
    /\ intent[i].entity.stored
    /\ intent[i].seen = NoRow
    /\ intent' = [intent EXCEPT ![i].seen = sub]
    /\ UNCHANGED <<subVars, booking, payment, session, notices, hook, applied>>

SaveIntendedPlan(i) ==
    /\ intent[i].step = "save"
    /\ Savable(intent[i].entity, intent[i].seen)
    /\ sub' = Saved(intent[i].entity, intent[i].seen)
    /\ intent' = [intent EXCEPT ![i] =
           [@ EXCEPT !.step = "open", !.entity = NoEntity, !.seen = NoRow]]
    /\ UNCHANGED <<request, sending, issued>>
    /\ UNCHANGED <<booking, payment, session, notices, hook, applied>>

\* adapter.createPaymentIntent(): eSewa's only signs a URL, so a second one for
\* the same payable leaves the session as it is.
OpenSession(i, ref) ==
    /\ intent[i].step = "open"
    /\ MayOpen(intent[i].gateway, intent[i].payable, ref)
    /\ session' = [session EXCEPT ![ref] =
           IF @ # NoSession THEN @
           ELSE [provider |-> Provider(intent[i].gateway),
                 payable |-> intent[i].payable, amount |-> intent[i].amount,
                 plan |-> intent[i].plan, charged |-> FALSE]]
    /\ intent' = [intent EXCEPT ![i] =
           [@ EXCEPT !.step = "insert", !.key = <<intent[i].gateway, ref>>]]
    /\ UNCHANGED <<subVars, booking, payment, notices, hook, applied>>

InsertPayment(i) ==
    /\ intent[i].step = "insert"
    /\ payment[intent[i].key] = NoPayment
    /\ payment' = [payment EXCEPT ![intent[i].key] =
           [payable |-> intent[i].payable, amount |-> intent[i].amount,
            status |-> "pending"]]
    /\ intent' = [intent EXCEPT ![i] = IdleIntent]
    /\ UNCHANGED <<subVars, booking, session, notices, hook, applied>>

\* The gateway refuses, a unique index refuses the row, or the process dies:
\* what was written before stays.
AbortIntent(i) ==
    /\ intent[i].step # "idle"
    /\ intent' = [intent EXCEPT ![i] = IdleIntent]
    /\ UNCHANGED <<subVars, booking, payment, session, notices, hook, applied>>

-----------------------------------------------------------------------------
(* handleWebhookEvent(), reached by webhook/:gateway and the callbacks.    *)

\* Up to the payment's findOne.  A payment row never changes but in its status,
\* which is overwritten, so reading it here or at the save is the same.
ReceiveNotice(h, g, ref, outcome) ==
    /\ hook[h] = IdleHook
    /\ session[ref] # NoSession
    /\ session[ref].provider = g
    /\ Verified(g)
    /\ Reports(g, ref, outcome)
    /\ payment[<<g, ref>>] # NoPayment
    /\ hook' = [hook EXCEPT ![h] =
           [@ EXCEPT !.step = "save", !.key = <<g, ref>>, !.outcome = outcome]]
    /\ UNCHANGED <<subVars, booking, payment, session, notices, intent, applied>>

\* Where a delivery goes once its payment row is saved.
AfterSave(h) == IF hook[h].outcome = "success"
                THEN [hook[h] EXCEPT !.step = "apply"]
                ELSE IdleHook

\* Mutant: a payment that already has this outcome is not applied again.
SkipKnownOutcome(h) ==
    /\ hook[h].step = "save"
    /\ hook' = [hook EXCEPT ![h] =
           IF payment[hook[h].key].status = hook[h].outcome
           THEN IdleHook
           ELSE [@ EXCEPT !.step = "write"]]
    /\ UNCHANGED <<subVars, booking, payment, session, notices, intent, applied>>

\* save(payment) reads the row again and leaves the status out of its UPDATE when
\* the row already has it.
CompareOutcome(h) ==
    /\ hook[h].step = "save"
    /\ hook' = [hook EXCEPT ![h] =
           IF payment[hook[h].key].status = hook[h].outcome
           THEN AfterSave(h)
           ELSE [@ EXCEPT !.step = "write"]]
    /\ UNCHANGED <<subVars, booking, payment, session, notices, intent, applied>>

\* Mutant: the gateway's word for the outcome is stored instead of the enum's.
SaveForeignStatus(h) ==
    /\ hook[h].step = "write"
    /\ payment' = [payment EXCEPT ![hook[h].key].status = "completed"]
    /\ hook' = [hook EXCEPT ![h] = AfterSave(h)]
    /\ UNCHANGED <<subVars, booking, session, notices, intent, applied>>

\* Mutant: the payable is updated whatever the outcome.
SaveAndAlwaysApply(h) ==
    /\ hook[h].step = "write"
    /\ payment' = [payment EXCEPT ![hook[h].key].status = hook[h].outcome]
    /\ hook' = [hook EXCEPT ![h].step = "apply"]
    /\ UNCHANGED <<subVars, booking, session, notices, intent, applied>>

\* Mutant: a failed outcome sets the booking back to pending.
SaveAndReopen(h) ==
    /\ hook[h].step = "write"
    /\ payment' = [payment EXCEPT ![hook[h].key].status = hook[h].outcome]
    /\ hook' = [hook EXCEPT ![h] = AfterSave(h)]
    /\ booking' =
           IF hook[h].outcome = "success" THEN booking
           ELSE [booking EXCEPT ![payment[hook[h].key].payable].status = "pending"]
    /\ UNCHANGED <<subVars, session, notices, intent, applied>>

SaveOutcome(h) ==
    /\ hook[h].step = "write"
    /\ payment' = [payment EXCEPT ![hook[h].key].status = hook[h].outcome]
    /\ hook' = [hook EXCEPT ![h] = AfterSave(h)]
    /\ UNCHANGED <<subVars, booking, session, notices, intent, applied>>

PaidFor(h) == payment[hook[h].key].payable

ConfirmBooking(h) ==
    /\ hook[h].step = "apply"
    /\ PaidFor(h) \in Bookings
    /\ booking' = [booking EXCEPT ![PaidFor(h)] =
           [@ EXCEPT !.status = "confirmed",
                     !.amountPaid = payment[hook[h].key].amount]]
    /\ hook' = [hook EXCEPT ![h] = IdleHook]
    /\ applied' = applied \cup {hook[h].key}
    /\ UNCHANGED <<subVars, payment, session, notices, intent>>

\* The pending plan, or else the current one, becomes the active plan.  Only
\* planId is set; the relation loaded with the row keeps the old plan.
Activated(e) ==
    LET p == IF e.pendingPlanId = NoPlan THEN e.planId ELSE e.pendingPlanId
    IN  [e EXCEPT !.planId = p, !.pendingPlanId = NoPlan,
                  !.status = "active", !.credits = Credits[p]]

LoadSubscription(h) ==
    /\ hook[h].step = "apply"
    /\ PaidFor(h) = Subscription
    /\ sub # NoRow
    /\ hook' = [hook EXCEPT ![h] =
           [@ EXCEPT !.step = "activate", !.entity = Activated(Loaded(sub))]]
    /\ UNCHANGED <<subVars, booking, payment, session, notices, intent, applied>>

CompareActivation(h) ==
    /\ hook[h].step = "activate"
    /\ hook[h].seen = NoRow
    /\ hook' = [hook EXCEPT ![h].seen = sub]
    /\ UNCHANGED <<subVars, booking, payment, session, notices, intent, applied>>

ActivateSubscription(h) ==
    /\ hook[h].step = "activate"
    /\ Savable(hook[h].entity, hook[h].seen)
    /\ sub' = Saved(hook[h].entity, hook[h].seen)
    /\ hook' = [hook EXCEPT ![h] = IdleHook]
    /\ applied' = applied \cup {hook[h].key}
    /\ UNCHANGED <<request, sending, issued>>
    /\ UNCHANGED <<booking, payment, session, notices, intent>>

\* An await throws or the process dies: the gateway gets no 2xx.
AbortHook(h) ==
    /\ hook[h].step # "idle"
    /\ hook' = [hook EXCEPT ![h] = IdleHook]
    /\ UNCHANGED <<subVars, booking, payment, session, notices, intent, applied>>

-----------------------------------------------------------------------------
\* No plan has been paid for yet: the tenant has no row or a free plan's.
PayInit ==
    /\ Init
    /\ sub # NoRow => IsFree(sub.planId)
    /\ booking = [b \in Bookings |-> NoBooking]
    /\ payment = [k \in Keys |-> NoPayment]
    /\ session = [ref \in AllRefs |-> NoSession]
    /\ notices = {}
    /\ intent = [i \in Intents |-> IdleIntent]
    /\ hook = [h \in Hooks |-> IdleHook]
    /\ applied = {}

GatewayStep == \E ref \in AllRefs : GatewayCharges(ref) \/ GatewayDeclines(ref)

BookingStep == \E b \in Bookings, amount \in Amounts : CreateBooking(b, amount)

IntentStep ==
    \E i \in Intents :
        \/ \E b \in Bookings, g \in Gateways : BeginIntent(i, b, g)
        \/ \E p \in Plans, g \in Gateways : BeginSubscriptionIntent(i, p, g)
        \/ CompareIntendedPlan(i)
        \/ SaveIntendedPlan(i)
        \/ \E ref \in AllRefs : OpenSession(i, ref)
        \/ InsertPayment(i)
        \/ AbortIntent(i)

Advance(h) ==
    \/ CompareOutcome(h)
    \/ SaveOutcome(h)
    \/ ConfirmBooking(h)
    \/ LoadSubscription(h)
    \/ CompareActivation(h)
    \/ ActivateSubscription(h)
    \/ AbortHook(h)

HookStep ==
    \E h \in Hooks :
        \/ \E g \in Providers, ref \in AllRefs, outcome \in Outcomes :
              ReceiveNotice(h, g, ref, outcome)
        \/ Advance(h)

SubscriptionStep == Next /\ UNCHANGED payVars

PayNext ==
    GatewayStep \/ BookingStep \/ IntentStep \/ HookStep \/ SubscriptionStep

PaySpec == PayInit /\ [][PayNext]_allVars

\* A delivery being handled is finished or fails.  Stripe repeats an event until
\* one delivery of it is handled to its end and answered with 2xx, and no longer;
\* not every repetition fails at the same await.  Nothing repeats the browser
\* callbacks of Khalti and eSewa.
DeliversSuccess(ref) ==
    LET Mine(h) == hook[h].key = <<"stripe", ref>> /\ hook[h].outcome = "success"
    IN  /\ SF_allVars(/\ <<"stripe", ref>> \notin applied
                      /\ \E h \in Hooks : ReceiveNotice(h, "stripe", ref, "success"))
        /\ SF_allVars(\E h \in Hooks : Mine(h) /\ CompareOutcome(h))
        /\ SF_allVars(\E h \in Hooks : Mine(h) /\ SaveOutcome(h))
        /\ SF_allVars(\E h \in Hooks :
                          Mine(h) /\ (ConfirmBooking(h) \/ LoadSubscription(h)))
        /\ SF_allVars(\E h \in Hooks : Mine(h) /\ CompareActivation(h))
        /\ SF_allVars(\E h \in Hooks : Mine(h) /\ ActivateSubscription(h))

PayFairSpec ==
    /\ PaySpec
    /\ \A h \in Hooks : WF_allVars(Advance(h))
    /\ \A ref \in Refs : DeliversSuccess(ref)

-----------------------------------------------------------------------------
(* Properties.                                                             *)

\* A payment row that says success belongs to a transaction its gateway has
\* charged, whichever deliveries were lost, repeated or reordered.
SuccessWasCharged ==
    \A g \in AllGateways, ref \in AllRefs :
        (payment[<<g, ref>>] # NoPayment /\ payment[<<g, ref>>].status = "success")
            => session[ref] # NoSession /\ session[ref].charged

ChargedFor(payable, amount) ==
    \E ref \in AllRefs :
        /\ session[ref] # NoSession
        /\ session[ref].payable = payable
        /\ session[ref].amount = amount
        /\ session[ref].charged

\* A confirmed booking has been charged and records as paid exactly what was
\* due and what the gateway took; a pending one records nothing as paid.
ConfirmedIsPaidInFull ==
    \A b \in Bookings :
        booking[b] # NoBooking =>
            IF booking[b].status = "confirmed"
            THEN /\ booking[b].amountPaid = booking[b].amountDue
                 /\ ChargedFor(b, booking[b].amountDue)
            ELSE booking[b].amountPaid = 0

ChargedSubscription(ref) ==
    /\ session[ref] # NoSession
    /\ session[ref].payable = Subscription
    /\ session[ref].charged

SubscriptionCharged == \E ref \in AllRefs : ChargedSubscription(ref)

\* "Only the webhook, after gateway confirmation, may mutate the actual paid
\* state": a paid plan is not active while no gateway has ever charged the tenant.
ActivePaidPlanWasCharged ==
    (sub # NoRow /\ sub.status = "active" /\ ~IsFree(sub.planId))
        => SubscriptionCharged

FreeAllowances == {0} \cup {Credits[p] : p \in {q \in Plans : IsFree(q)}}

\* A tenant no gateway has charged holds a free plan's messages, or none:
\* whatever rows its requests, intents and deliveries load and write back, none
\* brings a paid plan's messages with it.
UnchargedHasFreeCredits ==
    (sub # NoRow /\ ~SubscriptionCharged)
        => \E a \in FreeAllowances : sub.credits + sending <= a + issued

\* What a tenant was charged through Stripe is activated: some delivery of its
\* success saves the activation, however many fail half way.  Stripe sends none
\* after that one, and an intent that loaded the row before it may still write
\* the old row back (IntentsOnlyNoteThePlan).
PaidSubscriptionActivates ==
    \A ref \in Refs :
        ChargedSubscription(ref) ~> <<"stripe", ref>> \in applied

\* The bookings' side of the payment flow keeps the promise.
ChargedBookings ==
    {b \in Bookings : \E ref \in AllRefs : /\ session[ref] # NoSession
                                         /\ session[ref].payable = b
                                         /\ session[ref].charged}

ConfirmedBookings ==
    {b \in Bookings : booking[b] # NoBooking /\ booking[b].status = "confirmed"}

Promise == INSTANCE BookingPromise
    WITH charged <- ChargedBookings, confirmed <- ConfirmedBookings

\* Confirmed only after a charge, and for good.
PromiseSafety == Promise!Safety

\* And confirmed eventually, once charged.
PromiseKept == Promise!Spec

\* "updates Payment + Booking status on success": a confirmed booking has a
\* payment row that says success.
ConfirmedHasSuccessfulPayment ==
    \A b \in Bookings :
        (booking[b] # NoBooking /\ booking[b].status = "confirmed")
            => \E k \in Keys : /\ payment[k] # NoPayment
                              /\ payment[k].payable = b
                              /\ payment[k].status = "success"

\* The plan stored by an activation is the plan the tenant paid for.
PaidPlanIsActivated ==
    [][\A h \in Hooks : ActivateSubscription(h)
          => sub'.planId = session[hook[h].key[2]].plan]_allVars

\* A repeated webhook does not grant the plan's credits and period again.
GrantedOncePerCharge ==
    [][\A h \in Hooks : ActivateSubscription(h) => hook[h].key \notin applied]_allVars

\* "Store intent in pendingPlanId, never overwrite active planId": an intent for
\* a tenant that has a row changes its pending plan and nothing else.
IntentsOnlyNoteThePlan ==
    [][\A i \in Intents :
          (SaveIntendedPlan(i) /\ sub # NoRow)
              => sub' = [sub EXCEPT !.pendingPlanId = intent[i].plan]]_allVars
=============================================================================
