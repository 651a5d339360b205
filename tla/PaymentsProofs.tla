--------------------------- MODULE PaymentsProofs ---------------------------
(***************************************************************************)
(* Proofs about bookings, payments and the subscription row together, for  *)
(* any bookings, plans, gateway sessions and numbers of calls in flight.   *)
(***************************************************************************)
EXTENDS Payments, SubscriptionsProofs

\* A key is a gateway and a transaction id.
LEMMA KeyParts ==
  /\ \A k \in Keys : k[1] \in AllGateways /\ k[2] \in AllRefs /\ k = <<k[1], k[2]>>
  /\ \A g \in AllGateways, ref \in AllRefs : <<g, ref>> \in Keys
  BY DEF Keys

\* The nulls differ from what they stand in for.
LEMMA PaymentNullsDiffer ==
  /\ \A b \in BookingRows : b # NoBooking
  /\ \A s \in Sessions : s # NoSession
  /\ \A p \in PaymentRows : p # NoPayment
  /\ \A k \in Keys : k # NoKey
  BY PaymentNullsAssumption

\* The entity an activation saves is well formed.
LEMMA ActivatedType == ASSUME NEW e \in Entities PROVE Activated(e) \in Entities
  BY PlansAssumption DEF Activated, Entities, Statuses

\* Plans, prices and defaults of intents and hooks have their types.
LEMMA IdleTypes ==
  /\ IdleIntent.step = "idle" /\ IdleHook.step = "idle"
  /\ IdleIntent.seen = NoRow /\ IdleHook.seen = NoRow
  /\ IdleIntent \in IntentRecords
  /\ IdleHook \in HookRecords
  BY DEF IdleIntent, IdleHook, IntentRecords, HookRecords, Payables, AllGateways,
     Providers, Outcomes

-----------------------------------------------------------------------------
(* Types.  Beside the types, what each step of a handler needs of what the *)
(* earlier ones stored.                                                    *)

Exists(payable) == payable \in Bookings => booking[payable] # NoBooking

TypeInv ==
    /\ PaymentsTypeOK
    /\ SubTypeInv
    /\ \A i \in Intents :
          /\ intent[i].seen # NoRow => sub # NoRow
          /\ intent[i].step = "save" =>
                intent[i].entity \in Entities /\ intent[i].payable = Subscription
          /\ intent[i].step = "insert" => intent[i].key \in Keys
          /\ intent[i].step \in {"open", "insert"} => Exists(intent[i].payable)
    /\ \A k \in Keys : payment[k] # NoPayment => Exists(payment[k].payable)
    /\ \A h \in Hooks :
          /\ hook[h].seen # NoRow => sub # NoRow
          /\ hook[h].step # "idle" =>
                hook[h].key \in Keys /\ payment[hook[h].key] # NoPayment
          /\ hook[h].step = "activate" => hook[h].entity \in Entities

\* Initially the types hold.
LEMMA TypeInit == PayInit => TypeInv
<1> SUFFICES ASSUME PayInit PROVE TypeInv
  OBVIOUS
<1>1. SubTypeInv
  BY InitType DEF PayInit
<1> QED BY <1>1, IdleTypes DEF PayInit, SubTypeInv, TypeInv, PaymentsTypeOK

\* A step of the gateways keeps the types.
LEMMA GatewayType == TypeInv /\ GatewayStep => TypeInv'
<1> SUFFICES ASSUME TypeInv, NEW ref \in AllRefs,
                    GatewayCharges(ref) \/ GatewayDeclines(ref)
             PROVE  TypeInv'
  BY DEF GatewayStep
<1>1. session' \in [AllRefs -> Sessions \cup {NoSession}]
  <2>1. session[ref] \in Sessions
    BY DEF GatewayCharges, GatewayDeclines, Payable, TypeInv, PaymentsTypeOK
  <2>2. [session[ref] EXCEPT !.charged = TRUE] \in Sessions
    BY <2>1 DEF Sessions
  <2> QED BY <2>2 DEF GatewayCharges, GatewayDeclines, TypeInv, PaymentsTypeOK
<1>2. notices' \subseteq Notices
  BY DEF GatewayCharges, GatewayDeclines, Notify, Notices, Outcomes, TypeInv,
     PaymentsTypeOK
<1>3. UNCHANGED <<subVars, booking, payment, intent, hook, applied>>
  BY DEF GatewayCharges, GatewayDeclines
<1> QED BY <1>1, <1>2, <1>3
     DEF subVars, TypeInv, PaymentsTypeOK, SubTypeInv, SubscriptionsTypeOK, Exists

\* So does creating a booking.
LEMMA BookingType == TypeInv /\ BookingStep => TypeInv'
<1> SUFFICES ASSUME TypeInv, NEW b \in Bookings, NEW amount \in Amounts,
                    CreateBooking(b, amount)
             PROVE  TypeInv'
  BY DEF BookingStep
<1>1. booking' \in [Bookings -> BookingRows \cup {NoBooking}]
  BY PaymentsAssumption DEF CreateBooking, TypeInv, PaymentsTypeOK, BookingRows
<1>2. \A c \in Bookings : booking[c] # NoBooking => booking'[c] # NoBooking
  BY <1>1, PaymentNullsDiffer DEF CreateBooking, TypeInv, PaymentsTypeOK
<1> QED BY <1>1, <1>2
     DEF CreateBooking, subVars, TypeInv, PaymentsTypeOK, SubTypeInv, SubscriptionsTypeOK, Exists

\* So does every step of an intent.
LEMMA IntentType == TypeInv /\ IntentStep => TypeInv'
<1> SUFFICES ASSUME TypeInv, NEW i \in Intents,
                    \/ \E b \in Bookings, g \in Gateways : BeginIntent(i, b, g)
                    \/ \E p \in Plans, g \in Gateways : BeginSubscriptionIntent(i, p, g)
                    \/ CompareIntendedPlan(i)
                    \/ SaveIntendedPlan(i)
                    \/ \E ref \in AllRefs : OpenSession(i, ref)
                    \/ InsertPayment(i)
                    \/ AbortIntent(i)
             PROVE  TypeInv'
  BY DEF IntentStep
<1> USE DEF IntentRecords
<1> DEFINE T == IntentRecords
           Set(r) == intent' = [intent EXCEPT ![i] = r]
           Good(r) == /\ r \in T
                      /\ r.seen # NoRow => sub # NoRow
                      /\ r.step = "save" => r.entity \in Entities /\ r.payable = Subscription
                      /\ r.step = "insert" => r.key \in Keys
                      /\ r.step \in {"open", "insert"} => Exists(r.payable)
<1>0. intent \in [Intents -> T] /\ \A j \in Intents : Good(intent[j])
  BY DEF TypeInv, PaymentsTypeOK
<1>a. ASSUME NEW r, Set(r), Good(r),
             UNCHANGED <<subVars, booking, session, notices, hook, applied>>,
             UNCHANGED payment
      PROVE  TypeInv'
  <2>1. intent' \in [Intents -> T] /\ \A j \in Intents : Good(intent'[j])
    BY <1>0, <1>a
  <2> QED BY <1>a, <2>1
             DEF subVars, TypeInv, PaymentsTypeOK, SubTypeInv,
             SubscriptionsTypeOK, Exists
<1>1. ASSUME NEW b \in Bookings, NEW g \in Gateways, BeginIntent(i, b, g) PROVE TypeInv'
  <2> DEFINE r == [IdleIntent EXCEPT !.step = "open", !.payable = b, !.gateway = g,
                                     !.amount = booking[b].amountDue]
  <2>1. booking[b] \in BookingRows
    BY <1>1 DEF BeginIntent, TypeInv, PaymentsTypeOK
  <2>2. Good(r)
    BY <1>1, <2>1, IdleTypes, PaymentsAssumption
    DEF BeginIntent, BookingRows, Payables, IdleIntent, Exists
  <2>3. Set(r)
    BY <1>1 DEF BeginIntent
  <2> HIDE DEF r, Good, Set
  <2> QED BY <1>1, <1>a, <2>2, <2>3 DEF BeginIntent
<1>2. ASSUME NEW p \in Plans, NEW g \in Gateways, BeginSubscriptionIntent(i, p, g)
      PROVE  TypeInv'
  <2> DEFINE e == IF sub = NoRow THEN Fresh(p, "past_due", 0)
                  ELSE [Loaded(sub) EXCEPT !.pendingPlanId = p]
             r == [IdleIntent EXCEPT !.step = "save", !.gateway = g, !.plan = p,
                                     !.amount = Price[p], !.entity = e]
  <2>1. e \in Entities
    <3>1. CASE sub = NoRow
      BY <3>1, FreshType DEF Statuses
    <3>2. CASE sub # NoRow
      <4>1. Loaded(sub) \in Entities
        BY <3>2, LoadedType DEF TypeInv, PaymentsTypeOK, SubscriptionsTypeOK
      <4> QED BY <3>2, <4>1 DEF Entities
    <3> QED BY <3>1, <3>2
  <2>2. Set(r)
    BY <1>2 DEF BeginSubscriptionIntent
  <2> HIDE DEF e
  <2>3. Good(r)
    BY <2>1, IdleTypes, PaymentsAssumption, PlansAssumption DEF Payables, IdleIntent
  <2> HIDE DEF r, Good, Set
  <2> QED BY <1>2, <1>a, <2>2, <2>3 DEF BeginSubscriptionIntent
<1>3. ASSUME SaveIntendedPlan(i) PROVE TypeInv'
  <2>1. intent[i].entity \in Entities /\ intent[i].seen \in Rows \cup {NoRow}
    BY <1>0, <1>3 DEF SaveIntendedPlan
  <2>2. sub' \in Rows /\ sub' # NoRow
    BY <1>0, <1>3, <2>1, SavedType, NullsDiffer
       DEF SaveIntendedPlan, TypeInv, SubTypeInv
  <2>3. /\ intent' \in [Intents -> T]
        /\ \A j \in Intents :
              /\ intent'[j].step = "save" =>
                    intent'[j].entity \in Entities /\ intent'[j].payable = Subscription
              /\ intent'[j].step = "insert" => intent'[j].key \in Keys
              /\ intent'[j].step \in {"open", "insert"} => Exists(intent'[j].payable)
    <3> DEFINE r == [intent[i] EXCEPT !.step = "open", !.entity = NoEntity, !.seen = NoRow]
    <3>1. Set(r)
      BY <1>3 DEF SaveIntendedPlan
    <3>2. Good(r)
      BY <1>0, <1>3, PaymentsAssumption DEF SaveIntendedPlan, Exists
    <3> HIDE DEF r
    <3> QED BY <1>0, <3>1, <3>2
  <2> QED BY <1>3, <2>2, <2>3
       DEF SaveIntendedPlan, TypeInv, PaymentsTypeOK, SubTypeInv, SubscriptionsTypeOK, Exists
<1>4. ASSUME NEW ref \in AllRefs, OpenSession(i, ref) PROVE TypeInv'
  <2>1. session' \in [AllRefs -> Sessions \cup {NoSession}]
    <3>1. intent[i] \in T
      BY <1>0
    <3>2. Provider(intent[i].gateway) \in Providers
      BY DEF Provider, Providers
    <3>3. [provider |-> Provider(intent[i].gateway),
           payable |-> intent[i].payable, amount |-> intent[i].amount,
           plan |-> intent[i].plan, charged |-> FALSE] \in Sessions
      BY <3>1, <3>2 DEF Sessions
    <3> QED BY <1>4, <3>3 DEF OpenSession, TypeInv, PaymentsTypeOK
  <2>2. intent' \in [Intents -> T] /\ \A j \in Intents : Good(intent'[j])
    <3>1. <<intent[i].gateway, ref>> \in Keys
      BY <1>0, KeyParts
    <3> DEFINE r == [intent[i] EXCEPT !.step = "insert",
                                      !.key = <<intent[i].gateway, ref>>]
    <3>2. Set(r)
      BY <1>4 DEF OpenSession
    <3>3. Good(r)
      BY <1>0, <1>4, <3>1 DEF OpenSession
    <3> HIDE DEF r
    <3> QED BY <1>0, <3>2, <3>3
  <2> QED BY <1>4, <2>1, <2>2
       DEF OpenSession, subVars, TypeInv, PaymentsTypeOK, SubTypeInv, SubscriptionsTypeOK, Exists
<1>5. ASSUME InsertPayment(i) PROVE TypeInv'
  <2>1. intent[i] \in T /\ intent[i].key \in Keys
    BY <1>0, <1>5 DEF InsertPayment
  <2>2. [payable |-> intent[i].payable, amount |-> intent[i].amount,
         status |-> "pending"] \in PaymentRows
    BY <2>1 DEF PaymentRows
  <2>3. /\ payment' \in [Keys -> PaymentRows \cup {NoPayment}]
        /\ \A k \in Keys : payment[k] # NoPayment => payment'[k] # NoPayment
        /\ \A k \in Keys : payment'[k] # NoPayment => Exists(payment'[k].payable)
    BY <1>0, <1>5, <2>1, <2>2, PaymentNullsDiffer
       DEF InsertPayment, TypeInv, PaymentsTypeOK
  <2>4. intent' \in [Intents -> T] /\ \A j \in Intents : Good(intent'[j])
    BY <1>0, <1>5, IdleTypes DEF InsertPayment
  <2> QED BY <1>5, <2>3, <2>4
       DEF InsertPayment, subVars, TypeInv, PaymentsTypeOK, SubTypeInv, SubscriptionsTypeOK, Exists
<1>6. ASSUME AbortIntent(i) PROVE TypeInv'
  <2>1. Set(IdleIntent) /\ Good(IdleIntent)
    BY <1>6, IdleTypes DEF AbortIntent
  <2> HIDE DEF Set, Good
  <2> QED BY <1>6, <1>a, <2>1 DEF AbortIntent
<1>7. ASSUME CompareIntendedPlan(i) PROVE TypeInv'
  <2> DEFINE r == [intent[i] EXCEPT !.seen = sub]
  <2>1. Set(r)
    BY <1>7 DEF CompareIntendedPlan
  <2>2. Good(r)
    BY <1>0, <1>7 DEF CompareIntendedPlan, TypeInv, SubTypeInv, SubscriptionsTypeOK
  <2> HIDE DEF r, Set, Good
  <2> QED BY <1>7, <1>a, <2>1, <2>2 DEF CompareIntendedPlan
<1> QED BY <1>1, <1>2, <1>3, <1>4, <1>5, <1>6, <1>7

\* So does every step of a webhook delivery.
LEMMA HookType == TypeInv /\ HookStep => TypeInv'
<1> SUFFICES ASSUME TypeInv, NEW h \in Hooks,
                    \/ \E g \in Providers, ref \in AllRefs, outcome \in Outcomes :
                         ReceiveNotice(h, g, ref, outcome)
                    \/ Advance(h)
             PROVE  TypeInv'
  BY DEF HookStep
<1> USE DEF HookRecords
<1> DEFINE T == HookRecords
           Set(r) == hook' = [hook EXCEPT ![h] = r]
           Good(r) == /\ r \in T
                      /\ r.seen # NoRow => sub # NoRow
                      /\ r.step # "idle" => r.key \in Keys /\ payment[r.key] # NoPayment
                      /\ r.step = "activate" => r.entity \in Entities
           TypesHold == hook' \in [Hooks -> T] /\ \A j \in Hooks : Good(hook'[j])
<1>0. hook \in [Hooks -> T] /\ \A j \in Hooks : Good(hook[j])
  BY DEF TypeInv, PaymentsTypeOK
<1>a. ASSUME NEW r, Set(r), Good(r) PROVE TypesHold
  BY <1>0, <1>a
<1>b. Good(IdleHook)
  BY IdleTypes
<1>c. ASSUME TypesHold,
             UNCHANGED <<subVars, booking, payment, session, notices, intent, applied>>
      PROVE  TypeInv'
  BY <1>c
     DEF subVars, TypeInv, PaymentsTypeOK, SubTypeInv, SubscriptionsTypeOK, Exists
<1>d. hook[h].step # "idle" => Good(AfterSave(h))
  BY <1>0, <1>b DEF AfterSave
<1>1. ASSUME NEW g \in Providers, NEW ref \in AllRefs, NEW outcome \in Outcomes,
             ReceiveNotice(h, g, ref, outcome)
      PROVE  TypeInv'
  <2> DEFINE r == [hook[h] EXCEPT !.step = "save", !.key = <<g, ref>>,
                                  !.outcome = outcome]
  <2>1. <<g, ref>> \in Keys
    BY KeyParts DEF AllGateways
  <2>2. Good(r)
    BY <1>0, <1>1, <2>1 DEF ReceiveNotice
  <2>3. Set(r)
    BY <1>1 DEF ReceiveNotice
  <2> HIDE DEF r, Set, Good, TypesHold
  <2>4. TypesHold
    BY <1>a, <2>2, <2>3
  <2> QED BY <1>1, <1>c, <2>4 DEF ReceiveNotice
<1>2. ASSUME SaveOutcome(h) PROVE TypeInv'
  <2> DEFINE k == hook[h].key
             r == AfterSave(h)
  <2>1. k \in Keys /\ payment[k] \in PaymentRows /\ hook[h].outcome \in Outcomes
    BY <1>0, <1>2 DEF SaveOutcome, TypeInv, PaymentsTypeOK
  <2>2. [payment[k] EXCEPT !.status = hook[h].outcome] \in PaymentRows
    BY <2>1 DEF PaymentRows
  <2>3. /\ payment' \in [Keys -> PaymentRows \cup {NoPayment}]
        /\ \A l \in Keys : payment[l] # NoPayment => payment'[l] # NoPayment
        /\ \A l \in Keys : payment'[l] # NoPayment =>
              payment[l] # NoPayment /\ payment'[l].payable = payment[l].payable
    BY <1>0, <1>2, <2>1, <2>2, PaymentNullsDiffer
       DEF SaveOutcome, TypeInv, PaymentsTypeOK
  <2>4. Set(r)
    BY <1>2 DEF SaveOutcome
  <2>5. Good(r)
    BY <1>0, <1>2, <1>d DEF SaveOutcome
  <2> HIDE DEF r
  <2>6. TypesHold
    BY <1>a, <2>4, <2>5
  <2> QED BY <1>2, <2>3, <2>6
       DEF SaveOutcome, subVars, TypeInv, PaymentsTypeOK, SubTypeInv, SubscriptionsTypeOK, Exists
<1>3. ASSUME ConfirmBooking(h) PROVE TypeInv'
  <2> DEFINE b == PaidFor(h)
  <2>1. /\ b \in Bookings
        /\ payment[hook[h].key].amount \in Nat
    BY <1>0, <1>3 DEF ConfirmBooking, TypeInv, PaymentsTypeOK, PaymentRows
  <2>2. [booking[b] EXCEPT !.status = "confirmed",
                           !.amountPaid = payment[hook[h].key].amount] \in BookingRows
    <3>1. booking[b] \in BookingRows
      BY <1>0, <1>3, <2>1
         DEF ConfirmBooking, PaidFor, TypeInv, PaymentsTypeOK, Exists
    <3> QED BY <2>1, <3>1 DEF BookingRows
  <2>4. /\ booking' \in [Bookings -> BookingRows \cup {NoBooking}]
        /\ \A c \in Bookings : booking[c] # NoBooking => booking'[c] # NoBooking
    BY <1>3, <2>1, <2>2, PaymentNullsDiffer
       DEF ConfirmBooking, TypeInv, PaymentsTypeOK
  <2>3. TypesHold
    BY <1>3, <1>a, <1>b DEF ConfirmBooking
  <2> QED BY <1>3, <2>3, <2>4
       DEF ConfirmBooking, subVars, TypeInv, PaymentsTypeOK, SubTypeInv, SubscriptionsTypeOK, Exists
<1>4. ASSUME LoadSubscription(h) PROVE TypeInv'
  <2> DEFINE r == [hook[h] EXCEPT !.step = "activate", !.entity = Activated(Loaded(sub))]
  <2>1. Activated(Loaded(sub)) \in Entities
    BY <1>4, LoadedType, ActivatedType
       DEF LoadSubscription, TypeInv, PaymentsTypeOK, SubscriptionsTypeOK
  <2>2. Good(r)
    BY <1>0, <1>4, <2>1 DEF LoadSubscription
  <2>3. Set(r)
    BY <1>4 DEF LoadSubscription
  <2> HIDE DEF r, Set, Good, TypesHold
  <2>4. TypesHold
    BY <1>a, <2>2, <2>3
  <2> QED BY <1>4, <1>c, <2>4 DEF LoadSubscription
<1>5. ASSUME ActivateSubscription(h) PROVE TypeInv'
  <2>1. /\ hook[h].entity \in Entities /\ hook[h].seen \in Rows \cup {NoRow}
        /\ hook[h].key \in Keys
    BY <1>0, <1>5 DEF ActivateSubscription
  <2>2. sub' \in Rows /\ sub' # NoRow
    BY <1>0, <1>5, <2>1, SavedType, NullsDiffer
    DEF ActivateSubscription, TypeInv, SubTypeInv
  <2>3. TypesHold
    BY <1>5, <1>a, <1>b DEF ActivateSubscription
  <2> QED BY <1>5, <2>1, <2>2, <2>3
       DEF ActivateSubscription, TypeInv, PaymentsTypeOK, SubTypeInv,
           SubscriptionsTypeOK, Exists
<1>6. ASSUME AbortHook(h) PROVE TypeInv'
  <2>1. TypesHold
    BY <1>6, <1>a, <1>b DEF AbortHook
  <2> HIDE DEF TypesHold
  <2> QED BY <1>6, <1>c, <2>1 DEF AbortHook
<1>7. ASSUME CompareOutcome(h) PROVE TypeInv'
  <2> DEFINE r == IF payment[hook[h].key].status = hook[h].outcome
                  THEN AfterSave(h) ELSE [hook[h] EXCEPT !.step = "write"]
  <2>1. Set(r)
    BY <1>7 DEF CompareOutcome
  <2>2. Good(r)
    BY <1>0, <1>7, <1>d DEF CompareOutcome
  <2> HIDE DEF r, Set, Good, TypesHold
  <2>3. TypesHold
    BY <1>a, <2>1, <2>2
  <2> QED BY <1>7, <1>c, <2>3 DEF CompareOutcome
<1>8. ASSUME CompareActivation(h) PROVE TypeInv'
  <2> DEFINE r == [hook[h] EXCEPT !.seen = sub]
  <2>1. Set(r)
    BY <1>8 DEF CompareActivation
  <2>2. Good(r)
    BY <1>0, <1>8 DEF CompareActivation, TypeInv, SubTypeInv, SubscriptionsTypeOK
  <2> HIDE DEF r, Set, Good, TypesHold
  <2>3. TypesHold
    BY <1>a, <2>1, <2>2
  <2> QED BY <1>8, <1>c, <2>3 DEF CompareActivation
<1> QED BY <1>1, <1>2, <1>3, <1>4, <1>5, <1>6, <1>7, <1>8 DEF Advance

\* So do the requests of the subscriptions module.
LEMMA SubscriptionType == TypeInv /\ SubscriptionStep => TypeInv'
<1> SUFFICES ASSUME TypeInv, Next, UNCHANGED payVars PROVE TypeInv'
  BY DEF SubscriptionStep
<1>1. SubTypeInv'
  BY RequestStepType, CreditStepType DEF TypeInv, Next
<1>2. sub # NoRow => sub' # NoRow
  <2>1. CASE RequestStep
    <3> SUFFICES ASSUME NEW r \in Requests, CompleteSave(r) PROVE sub' # NoRow
      BY <2>1
         DEF RequestStep, SubscribeFree, ScheduleDowngrade, Cancel, MarkPastDue,
                  ApplyPendingPlan, CompareWithRow, CompleteSave, AbortRequest, Accept
    <3> QED BY SavedType, NullsDiffer
             DEF CompleteSave, TypeInv, SubTypeInv, SubscriptionsTypeOK
  <2>2. CASE CreditStep
    BY <2>2, NullsDiffer DEF CreditStep, DeductSmsCredit, KeepSmsCredit,
       RefundSmsCredit, TypeInv, SubTypeInv, SubscriptionsTypeOK, Rows
  <2> QED BY <2>1, <2>2 DEF Next
<1> QED BY <1>1, <1>2 DEF payVars, TypeInv, PaymentsTypeOK, SubTypeInv, Exists

\* A step that changes nothing keeps the types.
LEMMA TypeStutter == TypeInv /\ UNCHANGED allVars => TypeInv'
  BY DEF allVars, subVars, payVars, TypeInv, PaymentsTypeOK, SubTypeInv,
     SubscriptionsTypeOK, Exists

\* So every step keeps them.
LEMMA TypeNext == TypeInv /\ [PayNext]_allVars => TypeInv'
  BY GatewayType, BookingType, IntentType, HookType, SubscriptionType, TypeStutter
  DEF PayNext

\* And every reachable state has them.
LEMMA TypeAlways == PaySpec => []TypeInv
  BY TypeInit, TypeNext, PTL DEF PaySpec

\* Every table, gateway session and call in flight keeps its type, whatever
\* intents, deliveries and requests overlap.
THEOREM PaymentsTypeCorrect == PaySpec => []PaymentsTypeOK
<1>1. TypeInv => PaymentsTypeOK
  BY DEF TypeInv
<1> QED BY <1>1, TypeAlways, PTL

-----------------------------------------------------------------------------
(* Where money came from.  A session is what a gateway knows; everything   *)
(* the server stores about an outcome traces back to a charged session.    *)

Charged(ref) == session[ref] # NoSession /\ session[ref].charged

Backs(ref, payable) == session[ref] # NoSession /\ session[ref].payable = payable

RefsFit == \A ref \in Payables : session[ref] # NoSession => session[ref].payable = ref

NoticesTrue == \A n \in notices : n.outcome = "success" => Charged(n.ref)

IntentsBacked ==
    \A i \in Intents :
        intent[i].step = "insert" => Backs(intent[i].key[2], intent[i].payable)

PaymentsBacked ==
    \A k \in Keys :
        payment[k] # NoPayment =>
            /\ Backs(k[2], payment[k].payable)
            /\ payment[k].status = "success" => Charged(k[2])

HooksBacked ==
    \A h \in Hooks :
        hook[h].step # "idle" =>
            /\ hook[h].outcome = "success" => Charged(hook[h].key[2])
            /\ hook[h].step \in {"apply", "activate"} => hook[h].outcome = "success"
            /\ hook[h].step = "activate" =>
                  payment[hook[h].key].payable = Subscription

FlowInv == RefsFit /\ NoticesTrue /\ IntentsBacked /\ PaymentsBacked /\ HooksBacked

\* A gateway's session is never forgotten, changed or refunded.
SessionsPersist ==
    \A ref \in AllRefs :
        session[ref] # NoSession =>
            /\ session'[ref] # NoSession
            /\ session'[ref].payable = session[ref].payable
            /\ session'[ref].amount = session[ref].amount
            /\ session[ref].charged => session'[ref].charged

\* No step takes a session back.
LEMMA SessionsStep == TypeInv /\ [PayNext]_allVars => SessionsPersist
<1> SUFFICES ASSUME TypeInv, [PayNext]_allVars PROVE SessionsPersist
  OBVIOUS
<1>0. session \in [AllRefs -> Sessions \cup {NoSession}]
  BY DEF TypeInv, PaymentsTypeOK, IntentRecords, HookRecords
<1>1. ASSUME NEW ref \in AllRefs, GatewayCharges(ref) PROVE SessionsPersist
  <2>1. [session[ref] EXCEPT !.charged = TRUE] \in Sessions
    BY <1>0, <1>1 DEF GatewayCharges, Payable, Sessions
  <2> QED BY <1>0, <1>1, <2>1, PaymentNullsDiffer
           DEF GatewayCharges, SessionsPersist, Sessions
<1>2. ASSUME NEW i \in Intents, NEW ref \in AllRefs, OpenSession(i, ref)
      PROVE  SessionsPersist
  BY <1>0, <1>2 DEF OpenSession, SessionsPersist
<1>3. ASSUME UNCHANGED session PROVE SessionsPersist
  BY <1>3 DEF SessionsPersist
<1> QED BY <1>1, <1>2, <1>3
     DEF PayNext, allVars, payVars, GatewayStep, BookingStep, IntentStep, HookStep,
         Advance, SubscriptionStep, GatewayDeclines, CreateBooking, BeginIntent,
         BeginSubscriptionIntent, CompareIntendedPlan, SaveIntendedPlan,
         InsertPayment, AbortIntent, ReceiveNotice, CompareOutcome, SaveOutcome,
         ConfirmBooking, LoadSubscription, CompareActivation, ActivateSubscription,
         AbortHook

\* Sessions that persist stay charged and keep backing what they backed.
LEMMA ChargedStays ==
  ASSUME SessionsPersist, NEW ref \in AllRefs
  PROVE  /\ Charged(ref) => Charged(ref)'
         /\ \A payable : Backs(ref, payable) => Backs(ref, payable)'
  BY DEF SessionsPersist, Charged, Backs

\* Initially nothing has happened that would need a charge.
LEMMA FlowInit == PayInit => FlowInv
  BY IdleTypes DEF PayInit, FlowInv, RefsFit, NoticesTrue, IntentsBacked,
     PaymentsBacked, HooksBacked, AllRefs

\* What a step leaves alone stays backed.
LEMMA FlowFrame ==
  ASSUME TypeInv, FlowInv, SessionsPersist
  PROVE  /\ UNCHANGED notices => NoticesTrue'
         /\ UNCHANGED intent => IntentsBacked'
         /\ UNCHANGED payment => PaymentsBacked'
         /\ UNCHANGED <<hook, payment>> => HooksBacked'
         /\ UNCHANGED session => RefsFit'
<1>1. UNCHANGED notices => NoticesTrue'
  <2>1. \A n \in notices : n.ref \in AllRefs
    BY DEF TypeInv, PaymentsTypeOK, Notices
  <2> QED BY <2>1, ChargedStays DEF FlowInv, NoticesTrue
<1>2. UNCHANGED intent => IntentsBacked'
  BY ChargedStays, KeyParts DEF FlowInv, IntentsBacked, TypeInv
<1>3. UNCHANGED payment => PaymentsBacked'
  BY ChargedStays, KeyParts DEF FlowInv, PaymentsBacked
<1>4. UNCHANGED <<hook, payment>> => HooksBacked'
  BY ChargedStays, KeyParts DEF FlowInv, HooksBacked, TypeInv
<1>5. UNCHANGED session => RefsFit'
  BY DEF FlowInv, RefsFit
<1> QED BY <1>1, <1>2, <1>3, <1>4, <1>5

\* A gateway announces a success only after charging.
LEMMA FlowGateway == TypeInv /\ FlowInv /\ GatewayStep => FlowInv'
<1> SUFFICES ASSUME TypeInv, FlowInv, NEW ref \in AllRefs,
                    GatewayCharges(ref) \/ GatewayDeclines(ref)
             PROVE  FlowInv'
  BY DEF GatewayStep
<1>0. SessionsPersist
  <2>1. PayNext
    BY DEF PayNext, GatewayStep
  <2> QED BY <2>1, SessionsStep
<1>1. UNCHANGED <<payment, intent, hook>>
  BY DEF GatewayCharges, GatewayDeclines
<1>2. \A r \in AllRefs : session'[r] # NoSession => session[r] # NoSession
  BY DEF GatewayCharges, GatewayDeclines, Payable, TypeInv, PaymentsTypeOK,
     IntentRecords, HookRecords
<1>3. RefsFit'
  BY <1>0, <1>2 DEF FlowInv, RefsFit, SessionsPersist, AllRefs
<1>4. CASE GatewayCharges(ref)
  <2>1. session[ref] \in Sessions
    BY <1>4
       DEF GatewayCharges, Payable, TypeInv, PaymentsTypeOK, IntentRecords,
       HookRecords
  <2>2. [session[ref] EXCEPT !.charged = TRUE] \in Sessions
    BY <2>1 DEF Sessions
  <2>3. session'[ref] = [session[ref] EXCEPT !.charged = TRUE]
    BY <1>4 DEF GatewayCharges, TypeInv, PaymentsTypeOK, IntentRecords, HookRecords
  <2>4. Charged(ref)'
    BY <2>1, <2>2, <2>3, PaymentNullsDiffer DEF Sessions, Charged
  <2>5. \A n \in notices' : n \in notices \/ n.ref = ref
    BY <1>4 DEF GatewayCharges, Notify
  <2>6. \A n \in notices : n.ref \in AllRefs
    BY DEF TypeInv, PaymentsTypeOK, Notices
  <2>7. NoticesTrue'
    BY <1>0, <2>4, <2>5, <2>6, ChargedStays DEF FlowInv, NoticesTrue
  <2> QED BY <1>0, <1>1, <1>3, <2>7, FlowFrame DEF FlowInv
<1>5. CASE GatewayDeclines(ref)
  <2>1. \A n \in notices' : n \in notices \/ n.outcome = "failed"
    BY <1>5 DEF GatewayDeclines, Notify
  <2>2. UNCHANGED session
    BY <1>5 DEF GatewayDeclines
  <2>3. NoticesTrue'
    BY <2>1, <2>2 DEF FlowInv, NoticesTrue, Charged
  <2> QED BY <1>0, <1>1, <1>3, <2>3, FlowFrame DEF FlowInv
<1> QED BY <1>4, <1>5

\* An intent opens a session for what it is about to insert a payment for.
LEMMA FlowIntent == TypeInv /\ FlowInv /\ IntentStep => FlowInv'
<1> SUFFICES ASSUME TypeInv, FlowInv, IntentStep PROVE FlowInv'
  OBVIOUS
<1>0. SessionsPersist /\ UNCHANGED <<notices, hook>>
  <2>1. SessionsPersist
    BY SessionsStep DEF PayNext
  <2> QED BY <2>1 DEF IntentStep, BeginIntent, BeginSubscriptionIntent,
              CompareIntendedPlan, SaveIntendedPlan, OpenSession, InsertPayment,
              AbortIntent
<1> PICK i \in Intents :
           \/ \E b \in Bookings, g \in Gateways : BeginIntent(i, b, g)
           \/ \E p \in Plans, g \in Gateways : BeginSubscriptionIntent(i, p, g)
           \/ CompareIntendedPlan(i)
           \/ SaveIntendedPlan(i)
           \/ \E ref \in AllRefs : OpenSession(i, ref)
           \/ InsertPayment(i)
           \/ AbortIntent(i)
  BY DEF IntentStep
<1>1. ASSUME UNCHANGED <<payment, session>>,
             NEW r, intent' = [intent EXCEPT ![i] = r], r.step # "insert"
      PROVE  FlowInv'
  <2>1. IntentsBacked'
    BY <1>1
       DEF FlowInv, IntentsBacked, Backs, TypeInv, PaymentsTypeOK, IntentRecords,
       HookRecords
  <2> QED BY <1>0, <1>1, <2>1, FlowFrame DEF FlowInv
<1>2. ASSUME NEW b \in Bookings, NEW g \in Gateways, BeginIntent(i, b, g) PROVE FlowInv'
  <2> DEFINE r == [IdleIntent EXCEPT !.step = "open", !.payable = b, !.gateway = g,
                                     !.amount = booking[b].amountDue]
  <2>1. r.step = "open"
    BY DEF IdleIntent
  <2>2. intent' = [intent EXCEPT ![i] = r] /\ UNCHANGED <<payment, session>>
    BY <1>2 DEF BeginIntent
  <2> HIDE DEF r
  <2> QED BY <1>1, <2>1, <2>2
<1>3. ASSUME NEW p \in Plans, NEW g \in Gateways, BeginSubscriptionIntent(i, p, g)
      PROVE  FlowInv'
  <2> DEFINE e == IF sub = NoRow THEN Fresh(p, "past_due", 0)
                  ELSE [Loaded(sub) EXCEPT !.pendingPlanId = p]
             r == [IdleIntent EXCEPT !.step = "save", !.gateway = g, !.plan = p,
                                     !.amount = Price[p], !.entity = e]
  <2>1. r.step = "save"
    BY DEF IdleIntent
  <2>2. intent' = [intent EXCEPT ![i] = r] /\ UNCHANGED <<payment, session>>
    BY <1>3 DEF BeginSubscriptionIntent
  <2> HIDE DEF r
  <2> QED BY <1>1, <2>1, <2>2
<1>4. ASSUME SaveIntendedPlan(i) PROVE FlowInv'
  <2> DEFINE r == [intent[i] EXCEPT !.step = "open", !.entity = NoEntity, !.seen = NoRow]
  <2>1. r.step = "open"
    BY DEF TypeInv, PaymentsTypeOK, IntentRecords
  <2>2. intent' = [intent EXCEPT ![i] = r] /\ UNCHANGED <<payment, session>>
    BY <1>4 DEF SaveIntendedPlan
  <2> HIDE DEF r
  <2> QED BY <1>1, <2>1, <2>2
<1>5. ASSUME NEW ref \in AllRefs, OpenSession(i, ref) PROVE FlowInv'
  <2> DEFINE s == [provider |-> Provider(intent[i].gateway),
                   payable |-> intent[i].payable, amount |-> intent[i].amount,
                   plan |-> intent[i].plan, charged |-> FALSE]
             r == [intent[i] EXCEPT !.step = "insert",
                                    !.key = <<intent[i].gateway, ref>>]
  <2>1. UNCHANGED payment
    BY <1>5 DEF OpenSession
  <2>2. session' = [session EXCEPT ![ref] = IF @ # NoSession THEN @ ELSE s]
    BY <1>5 DEF OpenSession
  <2>3. intent[i].payable \in Payables
    BY DEF TypeInv, PaymentsTypeOK, IntentRecords, HookRecords
  <2>4. s # NoSession /\ s.payable = intent[i].payable
    <3>1. s \in Sessions
      <4>1. Provider(intent[i].gateway) \in Providers
        BY DEF Provider, Providers
      <4> QED BY <4>1
                 DEF Sessions, TypeInv, PaymentsTypeOK, IntentRecords, HookRecords
    <3> QED BY <3>1, PaymentNullsDiffer
  <2>5. ref \in Payables => ref = intent[i].payable
    BY <1>5, PaymentsAssumption DEF OpenSession, MayOpen
  <2>6. session[ref] = NoSession \/ ref \in Payables
    BY <1>5, <2>3 DEF OpenSession, MayOpen
  <2> HIDE DEF s
  <2>a. session \in [AllRefs -> Sessions \cup {NoSession}]
    BY DEF TypeInv, PaymentsTypeOK, IntentRecords, HookRecords
  <2>b. session'[ref] = IF session[ref] # NoSession THEN session[ref] ELSE s
    BY <2>2, <2>a
  <2>c. \A q \in AllRefs : q # ref => session'[q] = session[q]
    BY <2>2, <2>a
  <2>d. session[ref] # NoSession => Backs(ref, intent[i].payable)
    BY <2>5, <2>6 DEF Backs, FlowInv, RefsFit
  <2>8. Backs(ref, intent[i].payable)'
    <3>1. session'[ref] # NoSession /\ session'[ref].payable = intent[i].payable
      BY <2>4, <2>b, <2>d DEF Backs
    <3>2. intent'[i].payable = intent[i].payable
      BY <1>5 DEF OpenSession, TypeInv, PaymentsTypeOK, IntentRecords, HookRecords
    <3> QED BY <3>1, <3>2 DEF Backs
  <2>7. RefsFit'
    <3> SUFFICES ASSUME NEW q \in Payables, session'[q] # NoSession
                 PROVE  session'[q].payable = q
      BY DEF RefsFit
    <3>1. CASE q = ref
      BY <2>4, <2>5, <2>b, <2>d, <3>1 DEF Backs
    <3>2. CASE q # ref
      BY <2>c, <3>2 DEF FlowInv, RefsFit, AllRefs
    <3> QED BY <3>1, <3>2
  <2>9. IntentsBacked'
    <3> SUFFICES ASSUME NEW j \in Intents, intent'[j].step = "insert"
                 PROVE  Backs(intent[j].key[2], intent[j].payable)'
      BY DEF IntentsBacked
    <3>1. CASE j = i
      <4>1. intent'[i] = r
        BY <1>5 DEF OpenSession, TypeInv, PaymentsTypeOK, IntentRecords, HookRecords
      <4>2. r.key[2] = ref /\ r.payable = intent[i].payable
        BY DEF TypeInv, PaymentsTypeOK, IntentRecords, HookRecords
      <4>3. intent'[i].payable = intent[i].payable
        BY <4>1, <4>2
      <4> QED BY <2>8, <3>1, <4>1, <4>2, <4>3 DEF Backs
    <3>2. CASE j # i
      <4>1. intent'[j] = intent[j]
        BY <1>5, <3>2
           DEF OpenSession, TypeInv, PaymentsTypeOK, IntentRecords, HookRecords
      <4>2. intent[j].key[2] \in AllRefs
        BY <4>1, KeyParts DEF TypeInv
      <4> QED BY <1>0, <4>1, <4>2, ChargedStays DEF FlowInv, IntentsBacked, Backs
    <3> QED BY <3>1, <3>2
  <2> QED BY <1>0, <2>1, <2>7, <2>9, FlowFrame DEF FlowInv
<1>6. ASSUME InsertPayment(i) PROVE FlowInv'
  <2> DEFINE k == intent[i].key
             row == [payable |-> intent[i].payable, amount |-> intent[i].amount,
                     status |-> "pending"]
  <2>1. k \in Keys /\ Backs(k[2], intent[i].payable)
    BY <1>6 DEF InsertPayment, TypeInv, FlowInv, IntentsBacked
  <2>2. UNCHANGED session /\ payment[k] = NoPayment
    BY <1>6 DEF InsertPayment
  <2>3. payment' = [payment EXCEPT ![k] = row]
    BY <1>6 DEF InsertPayment
  <2>4. row.status = "pending" /\ row.payable = intent[i].payable
    OBVIOUS
  <2> HIDE DEF row, k
  <2>5. PaymentsBacked'
    BY <2>1, <2>2, <2>3, <2>4
       DEF FlowInv, PaymentsBacked, Backs, Charged, TypeInv, PaymentsTypeOK, IntentRecords, HookRecords
  <2>6. IntentsBacked'
    BY <1>6, <2>2, IdleTypes
       DEF InsertPayment, FlowInv, IntentsBacked, Backs, TypeInv, PaymentsTypeOK, IntentRecords, HookRecords
  <2>7. HooksBacked'
    <3>1. \A h \in Hooks : hook[h].step # "idle" => hook[h].key # k /\ hook[h].key \in Keys
      BY <2>2 DEF TypeInv
    <3>2. \A h \in Hooks : hook[h].step # "idle" => payment'[hook[h].key] = payment[hook[h].key]
      BY <2>3, <3>1 DEF TypeInv, PaymentsTypeOK, IntentRecords, HookRecords
    <3> QED BY <1>0, <2>2, <3>2 DEF FlowInv, HooksBacked, Charged
  <2> QED BY <1>0, <2>2, <2>5, <2>6, <2>7, FlowFrame DEF FlowInv
<1>7. ASSUME AbortIntent(i) PROVE FlowInv'
  BY <1>1, <1>7, IdleTypes DEF AbortIntent
<1>8. ASSUME CompareIntendedPlan(i) PROVE FlowInv'
  <2> DEFINE r == [intent[i] EXCEPT !.seen = sub]
  <2>1. r.step = "save"
    BY <1>8 DEF CompareIntendedPlan, TypeInv, PaymentsTypeOK, IntentRecords
  <2>2. intent' = [intent EXCEPT ![i] = r] /\ UNCHANGED <<payment, session>>
    BY <1>8 DEF CompareIntendedPlan
  <2> HIDE DEF r
  <2> QED BY <1>1, <2>1, <2>2
<1> QED BY <1>2, <1>3, <1>4, <1>5, <1>6, <1>7, <1>8

\* A delivery acts on success only when the gateway's answer or event says so.
LEMMA FlowHook == TypeInv /\ FlowInv /\ HookStep => FlowInv'
<1> SUFFICES ASSUME TypeInv, FlowInv, HookStep PROVE FlowInv'
  OBVIOUS
<1>0. SessionsPersist /\ UNCHANGED <<session, notices, intent>>
  <2>1. SessionsPersist
    BY SessionsStep DEF PayNext
  <2> QED BY <2>1 DEF HookStep, Advance, ReceiveNotice, CompareOutcome, SaveOutcome,
              ConfirmBooking, LoadSubscription, CompareActivation, ActivateSubscription,
              AbortHook
<1> PICK h \in Hooks :
           \/ \E g \in Providers, ref \in AllRefs, outcome \in Outcomes :
                ReceiveNotice(h, g, ref, outcome)
           \/ Advance(h)
  BY DEF HookStep
<1> DEFINE Fine(r) == r.step # "idle" =>
             /\ r.outcome = "success" => Charged(r.key[2])
             /\ r.step \in {"apply", "activate"} => r.outcome = "success"
             /\ r.step = "activate" => payment[r.key].payable = Subscription
<1>1. ASSUME UNCHANGED payment,
             NEW r, hook' = [hook EXCEPT ![h] = r], Fine(r)
      PROVE  FlowInv'
  <2>1. HooksBacked'
    <3>1. \A j \in Hooks : Fine(hook'[j])
      BY <1>1
         DEF FlowInv, HooksBacked, TypeInv, PaymentsTypeOK, IntentRecords,
         HookRecords
    <3> QED BY <1>0, <1>1, <3>1 DEF HooksBacked, Charged
  <2> QED BY <1>0, <1>1, <2>1, FlowFrame DEF FlowInv
<1>2. Fine(IdleHook)
  BY IdleTypes
<1>3. ASSUME NEW g \in Providers, NEW ref \in AllRefs, NEW outcome \in Outcomes,
             ReceiveNotice(h, g, ref, outcome)
      PROVE  FlowInv'
  <2> DEFINE r == [hook[h] EXCEPT !.step = "save", !.key = <<g, ref>>,
                                  !.outcome = outcome]
  <2>1. outcome = "success" => Charged(ref)
    <3>1. CASE g = "stripe"
      BY <1>3, <3>1 DEF ReceiveNotice, Reports, FlowInv, NoticesTrue
    <3>2. CASE g # "stripe"
      BY <1>3, <3>2 DEF ReceiveNotice, Reports, Charged
    <3> QED BY <3>1, <3>2
  <2>2. r.step = "save" /\ r.key[2] = ref /\ r.outcome = outcome
    BY DEF TypeInv, PaymentsTypeOK, IntentRecords, HookRecords
  <2>3. hook' = [hook EXCEPT ![h] = r] /\ UNCHANGED payment
    BY <1>3 DEF ReceiveNotice
  <2> HIDE DEF r
  <2> QED BY <1>1, <2>1, <2>2, <2>3
<1>4. ASSUME SaveOutcome(h) PROVE FlowInv'
  <2> DEFINE k == hook[h].key
             row == [payment[k] EXCEPT !.status = hook[h].outcome]
             r == AfterSave(h)
  <2>1. /\ k \in Keys /\ payment[k] \in PaymentRows
        /\ hook[h].outcome = "success" => Charged(k[2])
    BY <1>4 DEF SaveOutcome, TypeInv, FlowInv, HooksBacked, PaymentsTypeOK
  <2>2. row.payable = payment[k].payable /\ row.status = hook[h].outcome
    BY <2>1 DEF PaymentRows
  <2>3. payment' = [payment EXCEPT ![k] = row] /\ hook' = [hook EXCEPT ![h] = r]
    BY <1>4 DEF SaveOutcome
  <2>4. /\ r.step = "idle" \/ r.step = "apply"
        /\ r.step = "apply" => r.key = k /\ r.outcome = "success"
                              /\ hook[h].outcome = "success"
    BY IdleTypes DEF AfterSave, TypeInv, PaymentsTypeOK, HookRecords
  <2>5. \A j \in Hooks : hook[j].step # "idle" =>
           hook[j].key \in Keys /\ payment[hook[j].key] # NoPayment
    BY DEF TypeInv
  <2> HIDE DEF row, r, k
  <2>6. PaymentsBacked'
    <3>1. payment[k] # NoPayment
      BY <2>1, PaymentNullsDiffer
    <3> QED BY <1>0, <2>1, <2>2, <2>3, <3>1
         DEF FlowInv, PaymentsBacked, Backs, Charged, TypeInv, PaymentsTypeOK, IntentRecords, HookRecords
  <2>7. \A l \in Keys : payment'[l].payable = payment[l].payable
    BY <2>2, <2>3 DEF TypeInv, PaymentsTypeOK, IntentRecords, HookRecords
  <2>8. HooksBacked'
    <3>1. Fine(r)
      BY <2>1, <2>4
    <3>2. \A j \in Hooks : Fine(hook'[j])
      BY <2>3, <3>1
         DEF FlowInv, HooksBacked, TypeInv, PaymentsTypeOK, IntentRecords,
         HookRecords
    <3>3. \A j \in Hooks : hook'[j].step # "idle" => hook'[j].key \in Keys
      BY <2>1, <2>3, <2>4, <2>5
         DEF TypeInv, PaymentsTypeOK, IntentRecords, HookRecords
    <3> QED BY <1>0, <2>7, <3>2, <3>3 DEF HooksBacked, Charged
  <2> QED BY <1>0, <2>6, <2>8, FlowFrame DEF FlowInv
<1>5. ASSUME ConfirmBooking(h) \/ ActivateSubscription(h) \/ AbortHook(h) PROVE FlowInv'
  BY <1>1, <1>2, <1>5 DEF ConfirmBooking, ActivateSubscription, AbortHook
<1>6. ASSUME LoadSubscription(h) PROVE FlowInv'
  <2> DEFINE r == [hook[h] EXCEPT !.step = "activate", !.entity = Activated(Loaded(sub))]
  <2>1. r.step = "activate" /\ r.key = hook[h].key /\ r.outcome = hook[h].outcome
    BY DEF TypeInv, PaymentsTypeOK, IntentRecords, HookRecords
  <2>2. hook[h].outcome = "success" /\ Charged(hook[h].key[2])
        /\ payment[hook[h].key].payable = Subscription
    BY <1>6 DEF LoadSubscription, PaidFor, FlowInv, HooksBacked
  <2>3. hook' = [hook EXCEPT ![h] = r] /\ UNCHANGED payment
    BY <1>6 DEF LoadSubscription
  <2> HIDE DEF r
  <2> QED BY <1>1, <2>1, <2>2, <2>3
<1>7. ASSUME CompareOutcome(h) PROVE FlowInv'
  <2> DEFINE r == IF payment[hook[h].key].status = hook[h].outcome
                  THEN AfterSave(h) ELSE [hook[h] EXCEPT !.step = "write"]
  <2>1. /\ r.step \in {"idle", "apply", "write"}
        /\ r.step # "idle" => r.key = hook[h].key /\ r.outcome = hook[h].outcome
        /\ r.step = "apply" => hook[h].outcome = "success"
    BY <1>7, IdleTypes DEF AfterSave, TypeInv, PaymentsTypeOK, HookRecords
  <2>2. hook[h].outcome = "success" => Charged(hook[h].key[2])
    BY <1>7 DEF CompareOutcome, FlowInv, HooksBacked
  <2>3. hook' = [hook EXCEPT ![h] = r] /\ UNCHANGED payment
    BY <1>7 DEF CompareOutcome
  <2> HIDE DEF r
  <2> QED BY <1>1, <2>1, <2>2, <2>3
<1>8. ASSUME CompareActivation(h) PROVE FlowInv'
  <2> DEFINE r == [hook[h] EXCEPT !.seen = sub]
  <2>1. r.step = hook[h].step /\ r.key = hook[h].key /\ r.outcome = hook[h].outcome
    BY DEF TypeInv, PaymentsTypeOK, HookRecords
  <2>2. hook' = [hook EXCEPT ![h] = r] /\ UNCHANGED payment
    BY <1>8 DEF CompareActivation
  <2> HIDE DEF r
  <2> QED BY <1>1, <2>1, <2>2 DEF FlowInv, HooksBacked
<1> QED BY <1>3, <1>4, <1>5, <1>6, <1>7, <1>8 DEF Advance

\* Creating bookings and subscription requests touch nothing of this.
LEMMA FlowOther ==
  FlowInv /\ (BookingStep \/ SubscriptionStep \/ UNCHANGED allVars) => FlowInv'
<1> SUFFICES ASSUME FlowInv, UNCHANGED <<session, notices, intent, payment, hook>>
             PROVE  FlowInv'
  BY DEF BookingStep, CreateBooking, SubscriptionStep, payVars, allVars
<1> QED BY DEF FlowInv, RefsFit, NoticesTrue, IntentsBacked, PaymentsBacked,
            HooksBacked, Backs, Charged

\* So every charge the server believes in was made.
LEMMA FlowAlways == PaySpec => [](TypeInv /\ FlowInv)
<1>1. PayInit => TypeInv /\ FlowInv
  BY TypeInit, FlowInit
<1>2. TypeInv /\ FlowInv /\ [PayNext]_allVars => (TypeInv /\ FlowInv)'
  BY TypeNext, FlowGateway, FlowIntent, FlowHook, FlowOther DEF PayNext
<1> QED BY <1>1, <1>2, PTL DEF PaySpec

\* Whatever deliveries are lost, repeated or reordered, a payment recorded as
\* successful was charged by its gateway.
THEOREM SuccessIsCharged == PaySpec => []SuccessWasCharged
<1>1. TypeInv /\ FlowInv => SuccessWasCharged
  <2> SUFFICES ASSUME FlowInv, NEW g \in AllGateways, NEW ref \in AllRefs,
                      payment[<<g, ref>>] # NoPayment,
                      payment[<<g, ref>>].status = "success"
               PROVE  session[ref] # NoSession /\ session[ref].charged
    BY DEF SuccessWasCharged
  <2>1. <<g, ref>> \in Keys /\ <<g, ref>>[2] = ref
    BY KeyParts
  <2> QED BY <2>1 DEF FlowInv, PaymentsBacked, Charged
<1> QED BY <1>1, FlowAlways, PTL

-----------------------------------------------------------------------------
(* Messages of a tenant that has not been charged.  As in                  *)
(* SubscriptionsProofs, issued - sending counts the messages settled and   *)
(* only grows, so that a balance a free plan covered when an entity was    *)
(* loaded is still covered when the entity is saved.                       *)

Held(credits) == \E a \in FreeAllowances : credits <= a + (issued - sending)

FreeInv ==
    /\ sub # NoRow => Held(sub.credits)
    /\ \A r \in Requests :
          request[r].op # "idle" => Held(request[r].entity.credits)
    /\ \A i \in Intents :
          intent[i].step = "save" => Held(intent[i].entity.credits)

UnchargedInv == sending <= issued /\ (SubscriptionCharged \/ FreeInv)

\* Allowances and the counters are natural numbers.
LEMMA FreeNumbers ==
  /\ FreeAllowances \subseteq Nat
  /\ 0 \in FreeAllowances
  /\ \A p \in Plans : IsFree(p) => Credits[p] \in FreeAllowances
  /\ TypeInv => issued \in Nat /\ sending \in Nat
  BY PlansAssumption, BoundsAssumption
     DEF FreeAllowances, TypeInv, SubTypeInv, SubscriptionsTypeOK

\* A free plan's allowance is held, and so is no message at all.
LEMMA FreeHeld ==
  ASSUME TypeInv, sending <= issued, NEW a \in FreeAllowances PROVE Held(a)
<1>1. a \in Nat /\ issued \in Nat /\ sending \in Nat
  BY FreeNumbers
<1> QED BY <1>1 DEF Held

\* What is held stays held while messages are settled.
LEMMA HeldGrows ==
  ASSUME TypeInv, TypeInv', NEW credits \in Nat, Held(credits),
         issued - sending <= issued' - sending'
  PROVE  Held(credits)'
<1>1. PICK a \in FreeAllowances : credits <= a + (issued - sending)
  BY DEF Held
<1>2. /\ a \in Nat /\ issued \in Nat /\ sending \in Nat
      /\ issued' \in Nat /\ sending' \in Nat
  BY FreeNumbers DEF TypeInv, SubTypeInv, SubscriptionsTypeOK
<1>3. credits <= a + (issued' - sending')
  <2>1. \A m, n \in Int : m <= n /\ credits <= a + m => credits <= a + n
    BY <1>2
  <2>2. issued - sending \in Int /\ issued' - sending' \in Int
    BY <1>2
  <2> QED BY <1>1, <2>1, <2>2
<1> QED BY <1>3 DEF Held, FreeAllowances

\* At first the tenant has no row or a free plan's.
LEMMA UnchargedInit == PayInit => UnchargedInv
<1> SUFFICES ASSUME PayInit PROVE UnchargedInv
  OBVIOUS
<1>1. TypeInv
  BY TypeInit
<1>2. sending <= issued
  BY DEF PayInit, Init
<1>3. ASSUME sub # NoRow PROVE Held(sub.credits)
  <2>1. PICK p \in Plans : sub = Written(Fresh(p, "active", Credits[p]))
    BY <1>3 DEF PayInit, Init
  <2>2. sub.planId = p /\ sub.credits = Credits[p]
    BY <2>1 DEF Written, Fresh
  <2>3. IsFree(p)
    BY <1>3, <2>2 DEF PayInit
  <2> QED BY <1>1, <1>2, <2>2, <2>3, FreeNumbers, FreeHeld
<1> QED BY <1>2, <1>3, IdleTypes DEF PayInit, Init, UnchargedInv, FreeInv, Idle

\* A charge of the tenant stays.
LEMMA SubscriptionStaysCharged ==
  ASSUME SessionsPersist, SubscriptionCharged PROVE SubscriptionCharged'
  BY DEF SessionsPersist, SubscriptionCharged, ChargedSubscription

\* An activation in flight follows a charge.
LEMMA ActivationIsCharged ==
  ASSUME TypeInv, FlowInv, NEW h \in Hooks, hook[h].step = "activate"
  PROVE  SubscriptionCharged
<1> DEFINE k == hook[h].key
<1>1. k \in Keys /\ payment[k] # NoPayment
  BY DEF TypeInv
<1>2. payment[k].payable = Subscription /\ Charged(k[2])
  BY DEF FlowInv, HooksBacked
<1>3. Backs(k[2], Subscription)
  BY <1>1, <1>2 DEF FlowInv, PaymentsBacked
<1> QED BY <1>1, <1>2, <1>3, KeyParts
     DEF Charged, Backs, SubscriptionCharged, ChargedSubscription

\* A step that settles no message keeps the invariant if each balance it writes,
\* in the row or in an entity, was held before.
LEMMA FreeFrame ==
  ASSUME FreeInv, UNCHANGED <<sending, issued>>,
         sub' # NoRow => Held(sub'.credits),
         \A r \in Requests :
            request'[r].op # "idle" => Held(request'[r].entity.credits),
         \A i \in Intents :
            intent'[i].step = "save" => Held(intent'[i].entity.credits)
  PROVE  FreeInv'
<1>1. \A credits : Held(credits) => \E a \in FreeAllowances :
                                       credits <= a + (issued' - sending')
  BY DEF Held
<1> QED BY <1>1 DEF FreeInv, Held, FreeAllowances

\* A row that is saved has the entity's balance or keeps its own.
LEMMA SavedCredits ==
  ASSUME NEW e \in Entities, NEW seen, Savable(e, seen), seen # NoRow => sub # NoRow
  PROVE  \/ Saved(e, seen).credits = e.credits
         \/ sub # NoRow /\ Saved(e, seen).credits = sub.credits
  BY DEF Savable, Saved, Column, Written

\* Requests load a balance, take a free plan's, or save what they hold.
LEMMA FreeRequestStep ==
  ASSUME BillingCycle = FALSE, TypeInv, sending <= issued, FreeInv,
         RequestStep, UNCHANGED payVars
  PROVE  FreeInv'
<1> PICK r \in Requests :
       \/ \E p \in Plans : SubscribeFree(r, p)
       \/ \E p \in Plans : ScheduleDowngrade(r, p)
       \/ Cancel(r)
       \/ MarkPastDue(r)
       \/ ApplyPendingPlan(r)
       \/ CompareWithRow(r)
       \/ CompleteSave(r)
       \/ AbortRequest(r)
  BY DEF RequestStep
<1>0. /\ request \in [Requests -> [op : Ops, entity : Entities \cup {NoEntity},
                                   seen : Rows \cup {NoRow}]]
      /\ intent' = intent
  BY DEF TypeInv, SubTypeInv, SubscriptionsTypeOK, payVars
<1>1. ASSUME NEW op, NEW e, Accept(r, op, e), Held(e.credits) PROVE FreeInv'
  <2>1. /\ UNCHANGED <<sub, sending, issued>>
        /\ request' = [request EXCEPT ![r] = [op |-> op, entity |-> e, seen |-> NoRow]]
    BY <1>1 DEF Accept
  <2>2. \A s \in Requests :
           request'[s].op # "idle" => Held(request'[s].entity.credits)
    BY <1>0, <1>1, <2>1 DEF FreeInv
  <2> QED BY <1>0, <2>1, <2>2, FreeFrame DEF FreeInv
<1>2. ASSUME NEW p \in Plans, SubscribeFree(r, p) PROVE FreeInv'
  <2> DEFINE e == IF sub = NoRow THEN Fresh(p, "active", Credits[p])
                  ELSE [stored |-> TRUE, planId |-> p, plan |-> p,
                        status |-> "active", credits |-> Credits[p],
                        pendingPlanId |-> NoPlan]
  <2>1. e.credits = Credits[p]
    BY DEF Fresh
  <2>2. Accept(r, "subscribe_free", e) /\ IsFree(p)
    BY <1>2 DEF SubscribeFree
  <2> HIDE DEF e
  <2>3. Held(e.credits)
    BY <2>1, <2>2, FreeNumbers, FreeHeld
  <2> QED BY <1>1, <2>2, <2>3
<1>3. ASSUME NEW p \in Plans, ScheduleDowngrade(r, p) PROVE FreeInv'
  <2>1. [Loaded(sub) EXCEPT !.pendingPlanId = p].credits = sub.credits
    BY DEF Loaded
  <2> QED BY <1>1, <1>3, <2>1 DEF ScheduleDowngrade, FreeInv
<1>4. ASSUME Cancel(r) PROVE FreeInv'
  <2>1. [Loaded(sub) EXCEPT !.status = "cancelled"].credits = sub.credits
    BY DEF Loaded
  <2> QED BY <1>1, <1>4, <2>1 DEF Cancel, FreeInv
<1>5. ASSUME MarkPastDue(r) PROVE FreeInv'
  <2>1. [Loaded(sub) EXCEPT !.status = "past_due"].credits = sub.credits
    BY DEF Loaded
  <2> QED BY <1>1, <1>5, <2>1 DEF MarkPastDue, FreeInv
<1>6. ASSUME CompareWithRow(r) PROVE FreeInv'
  <2>1. /\ UNCHANGED <<sub, sending, issued>>
        /\ \A s \in Requests : /\ request'[s].op = request[s].op
                               /\ request'[s].entity = request[s].entity
    BY <1>0, <1>6 DEF CompareWithRow
  <2> QED BY <1>0, <2>1, FreeFrame DEF FreeInv
<1>7. ASSUME CompleteSave(r) PROVE FreeInv'
  <2> DEFINE e == request[r].entity
             seen == request[r].seen
  <2>1. /\ e \in Entities
        /\ seen # NoRow => sub # NoRow
        /\ Savable(e, seen) /\ sub' = Saved(e, seen)
        /\ Held(e.credits)
        /\ UNCHANGED <<sending, issued>>
    BY <1>7 DEF CompleteSave, TypeInv, SubTypeInv, SubscriptionsTypeOK, FreeInv
  <2>2. \A s \in Requests : request'[s].op # "idle" => request'[s] = request[s]
    BY <1>0, <1>7 DEF CompleteSave, Idle
  <2> HIDE DEF e, seen
  <2>3. Held(sub'.credits)
    BY <2>1, SavedCredits DEF FreeInv
  <2> QED BY <1>0, <2>1, <2>2, <2>3, FreeFrame DEF FreeInv
<1>8. ASSUME AbortRequest(r) PROVE FreeInv'
  <2>1. /\ UNCHANGED <<sub, sending, issued>>
        /\ \A s \in Requests : request'[s].op # "idle" => request'[s] = request[s]
    BY <1>0, <1>8 DEF AbortRequest, Idle
  <2> QED BY <1>0, <2>1, FreeFrame DEF FreeInv
<1> QED BY <1>2, <1>3, <1>4, <1>5, <1>6, <1>7, <1>8 DEF ApplyPendingPlan

\* Messages take a credit, keep it or give it back.
LEMMA FreeCreditStep ==
  ASSUME TypeInv, TypeInv', sending <= issued, FreeInv, CreditStep, UNCHANGED payVars
  PROVE  FreeInv'
<1> USE BoundsAssumption
<1>1. /\ issued \in Nat /\ sending \in Nat /\ FreeAllowances \subseteq Nat
      /\ request' = request /\ intent' = intent
  BY FreeNumbers DEF CreditStep, DeductSmsCredit, KeepSmsCredit, RefundSmsCredit, payVars
<1>2. sub # NoRow => sub \in Rows /\ sub.credits \in Nat
  BY DEF TypeInv, SubTypeInv, SubscriptionsTypeOK, Rows
<1>3. /\ \A r \in Requests : request[r].op # "idle" => request[r].entity.credits \in Nat
      /\ \A i \in Intents : intent[i].step = "save" => intent[i].entity.credits \in Nat
  BY DEF TypeInv, SubTypeInv, SubscriptionsTypeOK, Entities
<1>4. issued - sending <= issued' - sending'
  BY <1>1 DEF CreditStep, DeductSmsCredit, KeepSmsCredit, RefundSmsCredit
<1>5. /\ \A r \in Requests : (request[r].op # "idle" => Held(request[r].entity.credits))'
      /\ \A i \in Intents : (intent[i].step = "save" => Held(intent[i].entity.credits))'
  BY <1>1, <1>3, <1>4, HeldGrows DEF FreeInv
<1>6. ASSUME DeductSmsCredit PROVE Held(sub.credits)'
  <2>1. PICK a \in FreeAllowances : sub.credits <= a + (issued - sending)
    BY <1>6 DEF DeductSmsCredit, FreeInv, Held
  <2>2. sub'.credits = sub.credits - 1 /\ issued' - sending' = issued - sending
    BY <1>1, <1>2, <1>6 DEF DeductSmsCredit, Rows
  <2>3. sub'.credits <= a + (issued' - sending')
    BY <1>1, <1>2, <1>6, <2>1, <2>2 DEF DeductSmsCredit
  <2> QED BY <2>3 DEF Held, FreeAllowances
<1>7. ASSUME KeepSmsCredit PROVE sub' # NoRow => Held(sub.credits)'
  BY <1>2, <1>4, <1>7, HeldGrows DEF KeepSmsCredit, FreeInv
<1>8. ASSUME RefundSmsCredit PROVE Held(sub.credits)'
  <2>1. sub # NoRow
    BY <1>1, <1>8 DEF RefundSmsCredit, TypeInv, SubTypeInv
  <2>2. PICK a \in FreeAllowances : sub.credits <= a + (issued - sending)
    BY <2>1 DEF FreeInv, Held
  <2>3. sub'.credits = sub.credits + 1 /\ issued' - sending' = (issued - sending) + 1
    BY <1>1, <1>2, <1>8, <2>1 DEF RefundSmsCredit, Rows
  <2>4. sub'.credits <= a + (issued' - sending')
    BY <1>1, <1>2, <2>1, <2>2, <2>3
  <2> QED BY <2>4 DEF Held, FreeAllowances
<1> QED BY <1>5, <1>6, <1>7, <1>8 DEF CreditStep, FreeInv

\* An intent loads a balance, or prepares a row without messages.
LEMMA FreeIntentStep ==
  ASSUME TypeInv, sending <= issued, FreeInv, IntentStep PROVE FreeInv'
<1> PICK i \in Intents :
           \/ \E b \in Bookings, g \in Gateways : BeginIntent(i, b, g)
           \/ \E p \in Plans, g \in Gateways : BeginSubscriptionIntent(i, p, g)
           \/ CompareIntendedPlan(i)
           \/ SaveIntendedPlan(i)
           \/ \E ref \in AllRefs : OpenSession(i, ref)
           \/ InsertPayment(i)
           \/ AbortIntent(i)
  BY DEF IntentStep
<1>0. intent \in [Intents -> IntentRecords]
  BY DEF TypeInv, PaymentsTypeOK
<1>1. ASSUME UNCHANGED subVars, NEW rec, intent' = [intent EXCEPT ![i] = rec],
             rec.step = "save" => Held(rec.entity.credits)
      PROVE  FreeInv'
  <2>1. \A j \in Intents : intent'[j] = IF j = i THEN rec ELSE intent[j]
    BY <1>0, <1>1
  <2> QED BY <1>1, <2>1, FreeFrame DEF FreeInv, subVars
<1>2. ASSUME NEW b \in Bookings, NEW g \in Gateways, BeginIntent(i, b, g)
      PROVE  FreeInv'
  <2> DEFINE rec == [IdleIntent EXCEPT !.step = "open", !.payable = b, !.gateway = g,
                                       !.amount = booking[b].amountDue]
  <2>1. rec.step = "open"
    BY DEF IdleIntent
  <2>2. intent' = [intent EXCEPT ![i] = rec] /\ UNCHANGED subVars
    BY <1>2 DEF BeginIntent
  <2> HIDE DEF rec
  <2> QED BY <1>1, <2>1, <2>2
<1>3. ASSUME NEW p \in Plans, NEW g \in Gateways, BeginSubscriptionIntent(i, p, g)
      PROVE  FreeInv'
  <2> DEFINE e == IF sub = NoRow THEN Fresh(p, "past_due", 0)
                  ELSE [Loaded(sub) EXCEPT !.pendingPlanId = p]
             rec == [IdleIntent EXCEPT !.step = "save", !.gateway = g, !.plan = p,
                                       !.amount = Price[p], !.entity = e]
  <2>1. rec.entity = e
    BY DEF IdleIntent
  <2>2. e.credits = IF sub = NoRow THEN 0 ELSE sub.credits
    BY DEF Fresh, Loaded
  <2>3. intent' = [intent EXCEPT ![i] = rec] /\ UNCHANGED subVars
    BY <1>3 DEF BeginSubscriptionIntent
  <2> HIDE DEF rec, e
  <2>4. Held(e.credits)
    BY <2>2, FreeNumbers, FreeHeld DEF FreeInv
  <2> QED BY <1>1, <2>1, <2>3, <2>4
<1>4. ASSUME CompareIntendedPlan(i) PROVE FreeInv'
  <2> DEFINE rec == [intent[i] EXCEPT !.seen = sub]
  <2>1. rec.entity = intent[i].entity /\ rec.step = intent[i].step
    BY <1>0 DEF IntentRecords
  <2>2. intent' = [intent EXCEPT ![i] = rec] /\ UNCHANGED subVars
    BY <1>4 DEF CompareIntendedPlan
  <2> HIDE DEF rec
  <2> QED BY <1>1, <2>1, <2>2 DEF FreeInv
<1>5. ASSUME SaveIntendedPlan(i) PROVE FreeInv'
  <2> DEFINE e == intent[i].entity
             seen == intent[i].seen
  <2>1. /\ e \in Entities
        /\ seen # NoRow => sub # NoRow
        /\ Savable(e, seen) /\ sub' = Saved(e, seen)
        /\ Held(e.credits)
        /\ UNCHANGED <<request, sending, issued>>
    BY <1>5 DEF SaveIntendedPlan, TypeInv, FreeInv
  <2>2. \A j \in Intents : intent'[j].step = "save" => intent'[j] = intent[j]
    BY <1>0, <1>5 DEF SaveIntendedPlan, IntentRecords
  <2> HIDE DEF e, seen
  <2>3. Held(sub'.credits)
    BY <2>1, SavedCredits DEF FreeInv
  <2> QED BY <2>1, <2>2, <2>3, FreeFrame DEF FreeInv
<1>6. ASSUME NEW ref \in AllRefs, OpenSession(i, ref) PROVE FreeInv'
  <2> DEFINE rec == [intent[i] EXCEPT !.step = "insert",
                                      !.key = <<intent[i].gateway, ref>>]
  <2>1. rec.step = "insert"
    BY <1>0 DEF IntentRecords
  <2>2. intent' = [intent EXCEPT ![i] = rec] /\ UNCHANGED subVars
    BY <1>6 DEF OpenSession
  <2> HIDE DEF rec
  <2> QED BY <1>1, <2>1, <2>2
<1>7. ASSUME InsertPayment(i) \/ AbortIntent(i) PROVE FreeInv'
  BY <1>1, <1>7, IdleTypes DEF InsertPayment, AbortIntent
<1> QED BY <1>2, <1>3, <1>4, <1>5, <1>6, <1>7

\* Whatever requests, intents and deliveries overlap, a tenant that no gateway
\* has charged holds no more messages than a free plan gives.  Nothing calls
\* applyPendingPlan(), so no billing cycle is assumed.
THEOREM UnchargedCreditsAreFree ==
  ASSUME BillingCycle = FALSE PROVE PaySpec => []UnchargedHasFreeCredits
<1>1. TypeInv /\ FlowInv /\ UnchargedInv /\ [PayNext]_allVars => UnchargedInv'
  <2> SUFFICES ASSUME TypeInv, FlowInv, UnchargedInv, [PayNext]_allVars
               PROVE  UnchargedInv'
    OBVIOUS
  <2>1. TypeInv'
    BY TypeNext
  <2>2. sending' <= issued'
    <3>1. issued \in Nat /\ sending \in Nat /\ sending <= issued
      BY FreeNumbers DEF UnchargedInv
    <3>2. CASE CreditStep
      BY <3>1, <3>2 DEF CreditStep, DeductSmsCredit, KeepSmsCredit, RefundSmsCredit
    <3>3. CASE UNCHANGED <<sending, issued>>
      BY <3>1, <3>3
    <3> QED BY <3>2, <3>3
         DEF PayNext, GatewayStep, GatewayCharges, GatewayDeclines, BookingStep,
             CreateBooking, IntentStep, BeginIntent, BeginSubscriptionIntent,
             CompareIntendedPlan, SaveIntendedPlan, OpenSession, InsertPayment,
             AbortIntent, HookStep, Advance, ReceiveNotice, CompareOutcome,
             SaveOutcome, ConfirmBooking, LoadSubscription, CompareActivation,
             ActivateSubscription, AbortHook, SubscriptionStep, Next, RequestStep,
             SubscribeFree, ScheduleDowngrade, Cancel, MarkPastDue, ApplyPendingPlan,
             Accept, CompareWithRow, CompleteSave, AbortRequest, subVars, allVars
  <2>3. SubscriptionCharged => SubscriptionCharged'
    BY SessionsStep, SubscriptionStaysCharged
  <2> SUFFICES ASSUME ~SubscriptionCharged PROVE FreeInv'
    BY <2>2, <2>3 DEF UnchargedInv
  <2>4. FreeInv /\ sending <= issued
    BY DEF UnchargedInv
  <2>5. CASE IntentStep
    BY <2>4, <2>5, FreeIntentStep
  <2>6. CASE SubscriptionStep
    BY <2>1, <2>4, <2>6, FreeRequestStep, FreeCreditStep DEF SubscriptionStep, Next
  <2>7. ASSUME UNCHANGED <<subVars, intent>> PROVE FreeInv'
    BY <2>4, <2>7, FreeFrame DEF FreeInv, subVars
  <2>8. CASE HookStep
    <3>1. \A h \in Hooks : ~ActivateSubscription(h)
      BY ActivationIsCharged DEF ActivateSubscription
    <3> QED BY <2>7, <2>8, <3>1
         DEF HookStep, Advance, ReceiveNotice, CompareOutcome, SaveOutcome,
             ConfirmBooking, LoadSubscription, CompareActivation, AbortHook
  <2>9. CASE GatewayStep \/ BookingStep \/ UNCHANGED allVars
    BY <2>7, <2>9 DEF GatewayStep, GatewayCharges, GatewayDeclines, BookingStep,
                      CreateBooking, allVars, payVars
  <2> QED BY <2>5, <2>6, <2>8, <2>9 DEF PayNext
<1>2. TypeInv /\ UnchargedInv => UnchargedHasFreeCredits
  <2> SUFFICES ASSUME TypeInv, UnchargedInv, sub # NoRow, ~SubscriptionCharged
               PROVE  \E a \in FreeAllowances : sub.credits + sending <= a + issued
    BY DEF UnchargedHasFreeCredits
  <2>1. PICK a \in FreeAllowances : sub.credits <= a + (issued - sending)
    BY DEF UnchargedInv, FreeInv, Held
  <2>2. sub.credits \in Nat /\ a \in Nat /\ issued \in Nat /\ sending \in Nat
    BY FreeNumbers DEF TypeInv, SubTypeInv, SubscriptionsTypeOK, Rows
  <2> QED BY <2>1, <2>2
<1> QED BY <1>1, <1>2, UnchargedInit, FlowAlways, PTL DEF PaySpec

-----------------------------------------------------------------------------
(* Bookings: a confirmed one is paid in full, and together they implement  *)
(* the safety part of BookingPromise.                                      *)

\* No step deletes a booking or changes what is due for it.
BookingsPersist ==
    \A b \in Bookings :
        booking[b] # NoBooking =>
            /\ booking'[b] # NoBooking
            /\ booking'[b].amountDue = booking[b].amountDue

\* What a confirmation leaves of a booking's row.
LEMMA ConfirmedRow ==
  ASSUME TypeInv, NEW h \in Hooks, ConfirmBooking(h)
  PROVE  LET b == PaidFor(h) IN
         /\ hook[h].key \in Keys /\ payment[hook[h].key] \in PaymentRows
         /\ booking[b] \in BookingRows
         /\ booking'[b] \in BookingRows
         /\ booking'[b].status = "confirmed"
         /\ booking'[b].amountDue = booking[b].amountDue
         /\ booking'[b].amountPaid = payment[hook[h].key].amount
         /\ \A c \in Bookings : c # b => booking'[c] = booking[c]
<1> DEFINE b == PaidFor(h)
           row == [booking[b] EXCEPT !.status = "confirmed",
                                     !.amountPaid = payment[hook[h].key].amount]
<1>1. hook[h].key \in Keys /\ payment[hook[h].key] # NoPayment
  BY DEF ConfirmBooking, TypeInv
<1>2. payment[hook[h].key] \in PaymentRows
  BY <1>1 DEF TypeInv, PaymentsTypeOK
<1>3. b \in Bookings /\ booking[b] # NoBooking
  BY <1>1 DEF ConfirmBooking, PaidFor, TypeInv, Exists
<1>4. booking[b] \in BookingRows
  BY <1>3 DEF TypeInv, PaymentsTypeOK
<1>5. /\ row \in BookingRows
      /\ row.status = "confirmed"
      /\ row.amountDue = booking[b].amountDue
      /\ row.amountPaid = payment[hook[h].key].amount
  BY <1>2, <1>4 DEF BookingRows, PaymentRows
<1>6. booking' = [booking EXCEPT ![b] = row]
  BY DEF ConfirmBooking
<1> HIDE DEF row
<1> QED BY <1>1, <1>2, <1>3, <1>4, <1>5, <1>6 DEF TypeInv, PaymentsTypeOK

\* Bookings persist under every step.
LEMMA BookingsStep == TypeInv /\ [PayNext]_allVars => BookingsPersist
<1> SUFFICES ASSUME TypeInv, [PayNext]_allVars PROVE BookingsPersist
  OBVIOUS
<1>1. ASSUME NEW b \in Bookings, NEW amount \in Amounts, CreateBooking(b, amount)
      PROVE  BookingsPersist
  BY <1>1 DEF CreateBooking, BookingsPersist, TypeInv, PaymentsTypeOK
<1>2. ASSUME NEW h \in Hooks, ConfirmBooking(h) PROVE BookingsPersist
  BY <1>2, ConfirmedRow, PaymentNullsDiffer DEF BookingsPersist
<1>3. ASSUME UNCHANGED booking PROVE BookingsPersist
  BY <1>3 DEF BookingsPersist
<1> QED BY <1>1, <1>2, <1>3
     DEF PayNext, allVars, payVars, GatewayStep, BookingStep, IntentStep, HookStep,
         Advance, SubscriptionStep, GatewayCharges, GatewayDeclines, BeginIntent,
         BeginSubscriptionIntent, CompareIntendedPlan, SaveIntendedPlan,
         OpenSession, InsertPayment, AbortIntent, ReceiveNotice, CompareOutcome,
         SaveOutcome, LoadSubscription, CompareActivation, ActivateSubscription,
         AbortHook

-----------------------------------------------------------------------------
(* Amounts.  What is due for a booking is copied to the intent, to the     *)
(* gateway's session and to the payment row, and from there to amountPaid. *)

Due(payable, amount) ==
    payable \in Bookings => /\ booking[payable] # NoBooking
                            /\ amount = booking[payable].amountDue

IntentsDue ==
    \A i \in Intents :
        intent[i].step \in {"open", "insert"} => Due(intent[i].payable, intent[i].amount)

SessionsDue ==
    \A ref \in AllRefs :
        session[ref] # NoSession => Due(session[ref].payable, session[ref].amount)

PaymentsDue ==
    \A k \in Keys :
        payment[k] # NoPayment => Due(payment[k].payable, payment[k].amount)

AmountInv == IntentsDue /\ SessionsDue /\ PaymentsDue /\ ConfirmedIsPaidInFull

\* What is due stays due.
LEMMA DueStays ==
  ASSUME BookingsPersist, NEW payable, NEW amount, Due(payable, amount)
  PROVE  payable \in Bookings => /\ booking'[payable] # NoBooking
                                 /\ amount = booking'[payable].amountDue
  BY DEF BookingsPersist, Due

\* What was charged for stays charged for.
LEMMA ChargedForStays ==
  ASSUME SessionsPersist, NEW b, NEW amount, ChargedFor(b, amount)
  PROVE  \E ref \in AllRefs : /\ session'[ref] # NoSession
                              /\ session'[ref].payable = b
                              /\ session'[ref].amount = amount
                              /\ session'[ref].charged
  BY DEF SessionsPersist, ChargedFor

\* Initially there are no amounts.
LEMMA AmountInit == PayInit => AmountInv
  BY IdleTypes DEF PayInit, AmountInv, IntentsDue, SessionsDue, PaymentsDue,
     ConfirmedIsPaidInFull

\* Intents carry the amount due for their booking.
LEMMA IntentsDueStep ==
  ASSUME TypeInv, IntentsDue, BookingsPersist, [PayNext]_allVars PROVE IntentsDue'
<1>1. ASSUME UNCHANGED intent PROVE IntentsDue'
  BY <1>1, DueStays DEF IntentsDue, Due
<1>2. ASSUME NEW i \in Intents, NEW r, intent' = [intent EXCEPT ![i] = r],
             r.step \in {"open", "insert"} => Due(r.payable, r.amount)
      PROVE  IntentsDue'
  <2> SUFFICES ASSUME NEW j \in Intents, intent'[j].step \in {"open", "insert"},
                      intent'[j].payable \in Bookings
               PROVE  /\ booking'[intent'[j].payable] # NoBooking
                      /\ intent'[j].amount = booking'[intent'[j].payable].amountDue
    BY DEF IntentsDue, Due
  <2>1. intent'[j] = IF j = i THEN r ELSE intent[j]
    BY <1>2 DEF TypeInv, PaymentsTypeOK
  <2>2. CASE j = i
    <3>1. Due(r.payable, r.amount)
      BY <1>2, <2>1, <2>2
    <3> QED BY <2>1, <2>2, <3>1, DueStays
  <2>3. CASE j # i
    <3>1. Due(intent[j].payable, intent[j].amount)
      BY <2>1, <2>3 DEF IntentsDue
    <3> QED BY <2>1, <2>3, <3>1, DueStays
  <2> QED BY <2>2, <2>3
<1>3. ASSUME NEW i \in Intents, NEW b \in Bookings, NEW g \in Gateways,
             BeginIntent(i, b, g)
      PROVE  IntentsDue'
  <2> DEFINE r == [IdleIntent EXCEPT !.step = "open", !.payable = b, !.gateway = g,
                                     !.amount = booking[b].amountDue]
  <2>1. r.payable = b /\ r.amount = booking[b].amountDue
    BY DEF IdleIntent
  <2>2. intent' = [intent EXCEPT ![i] = r] /\ booking[b] # NoBooking
    BY <1>3 DEF BeginIntent
  <2> HIDE DEF r
  <2> QED BY <1>2, <2>1, <2>2 DEF Due
<1>4. ASSUME NEW i \in Intents, NEW p \in Plans, NEW g \in Gateways,
             BeginSubscriptionIntent(i, p, g)
      PROVE  IntentsDue'
  <2> DEFINE e == IF sub = NoRow THEN Fresh(p, "past_due", 0)
                  ELSE [Loaded(sub) EXCEPT !.pendingPlanId = p]
             r == [IdleIntent EXCEPT !.step = "save", !.gateway = g, !.plan = p,
                                     !.amount = Price[p], !.entity = e]
  <2>1. r.step = "save"
    BY DEF IdleIntent
  <2>2. intent' = [intent EXCEPT ![i] = r]
    BY <1>4 DEF BeginSubscriptionIntent
  <2> HIDE DEF r
  <2> QED BY <1>2, <2>1, <2>2
<1>5. ASSUME NEW i \in Intents, CompareIntendedPlan(i) PROVE IntentsDue'
  <2> DEFINE r == [intent[i] EXCEPT !.seen = sub]
  <2>1. r.step = "save"
    BY <1>5 DEF CompareIntendedPlan, TypeInv, PaymentsTypeOK, IntentRecords
  <2>2. intent' = [intent EXCEPT ![i] = r]
    BY <1>5 DEF CompareIntendedPlan
  <2> HIDE DEF r
  <2> QED BY <1>2, <2>1, <2>2
<1>6. ASSUME NEW i \in Intents, SaveIntendedPlan(i) PROVE IntentsDue'
  <2> DEFINE r == [intent[i] EXCEPT !.step = "open", !.entity = NoEntity,
                                    !.seen = NoRow]
  <2>1. r.payable = Subscription
    BY <1>6 DEF SaveIntendedPlan, TypeInv, PaymentsTypeOK, IntentRecords
  <2>2. intent' = [intent EXCEPT ![i] = r]
    BY <1>6 DEF SaveIntendedPlan
  <2> HIDE DEF r
  <2> QED BY <1>2, <2>1, <2>2, PaymentsAssumption DEF Due
<1>7. ASSUME NEW i \in Intents, NEW ref \in AllRefs, OpenSession(i, ref)
      PROVE  IntentsDue'
  <2> DEFINE r == [intent[i] EXCEPT !.step = "insert",
                                    !.key = <<intent[i].gateway, ref>>]
  <2>1. r.payable = intent[i].payable /\ r.amount = intent[i].amount
    BY DEF TypeInv, PaymentsTypeOK, IntentRecords
  <2>2. intent' = [intent EXCEPT ![i] = r] /\ intent[i].step = "open"
    BY <1>7 DEF OpenSession
  <2> HIDE DEF r
  <2> QED BY <1>2, <2>1, <2>2 DEF IntentsDue
<1>8. ASSUME NEW i \in Intents, InsertPayment(i) \/ AbortIntent(i) PROVE IntentsDue'
  BY <1>2, <1>8, IdleTypes DEF InsertPayment, AbortIntent
<1> QED BY <1>1, <1>3, <1>4, <1>5, <1>6, <1>7, <1>8
     DEF PayNext, allVars, payVars, GatewayStep, BookingStep, IntentStep, HookStep,
         Advance, SubscriptionStep, GatewayCharges, GatewayDeclines, CreateBooking,
         ReceiveNotice, CompareOutcome, SaveOutcome, ConfirmBooking,
         LoadSubscription, CompareActivation, ActivateSubscription, AbortHook

\* A gateway's session carries the amount due for its booking.
LEMMA SessionsDueStep ==
  ASSUME TypeInv, IntentsDue, SessionsDue, BookingsPersist, [PayNext]_allVars
  PROVE  SessionsDue'
<1>1. ASSUME \A ref \in AllRefs :
               session'[ref] # NoSession => Due(session'[ref].payable, session'[ref].amount)
      PROVE  SessionsDue'
  BY <1>1, DueStays DEF SessionsDue, Due
<1>2. ASSUME UNCHANGED session PROVE SessionsDue'
  BY <1>1, <1>2 DEF SessionsDue
<1>3. ASSUME NEW ref \in AllRefs, GatewayCharges(ref) PROVE SessionsDue'
  <2> DEFINE s == [session[ref] EXCEPT !.charged = TRUE]
  <2>1. session[ref] \in Sessions /\ session[ref] # NoSession
    BY <1>3 DEF GatewayCharges, Payable, TypeInv, PaymentsTypeOK
  <2>2. s.payable = session[ref].payable /\ s.amount = session[ref].amount
    BY <2>1 DEF Sessions
  <2>3. session' = [session EXCEPT ![ref] = s]
    BY <1>3 DEF GatewayCharges
  <2> HIDE DEF s
  <2>4. \A q \in AllRefs : session'[q] = IF q = ref THEN s ELSE session[q]
    BY <2>3 DEF TypeInv, PaymentsTypeOK
  <2> QED BY <1>1, <2>1, <2>2, <2>4 DEF SessionsDue
<1>4. ASSUME NEW i \in Intents, NEW ref \in AllRefs, OpenSession(i, ref)
      PROVE  SessionsDue'
  <2> DEFINE s == [provider |-> Provider(intent[i].gateway),
                   payable |-> intent[i].payable, amount |-> intent[i].amount,
                   plan |-> intent[i].plan, charged |-> FALSE]
  <2>1. s.payable = intent[i].payable /\ s.amount = intent[i].amount
    OBVIOUS
  <2>2. session' = [session EXCEPT ![ref] = IF @ # NoSession THEN @ ELSE s]
    BY <1>4 DEF OpenSession
  <2>3. Due(intent[i].payable, intent[i].amount)
    BY <1>4 DEF OpenSession, IntentsDue
  <2> HIDE DEF s
  <2>4. \A q \in AllRefs : session'[q] = session[q] \/ session'[q] = s
    BY <2>2 DEF TypeInv, PaymentsTypeOK
  <2>5. ASSUME NEW q \in AllRefs, session'[q] # NoSession
        PROVE  Due(session'[q].payable, session'[q].amount)
    <3>1. CASE session'[q] = s
      BY <2>1, <2>3, <3>1
    <3>2. CASE session'[q] = session[q]
      BY <2>5, <3>2 DEF SessionsDue
    <3> QED BY <2>4, <3>1, <3>2
  <2> QED BY <1>1, <2>5
<1> QED BY <1>2, <1>3, <1>4
     DEF PayNext, allVars, payVars, GatewayStep, BookingStep, IntentStep, HookStep,
         Advance, SubscriptionStep, GatewayDeclines, CreateBooking, BeginIntent,
         BeginSubscriptionIntent, CompareIntendedPlan, SaveIntendedPlan,
         InsertPayment, AbortIntent, ReceiveNotice, CompareOutcome, SaveOutcome,
         ConfirmBooking, LoadSubscription, CompareActivation, ActivateSubscription,
         AbortHook

\* So does a payment row, whatever becomes of its status.
LEMMA PaymentsDueStep ==
  ASSUME TypeInv, IntentsDue, PaymentsDue, BookingsPersist, [PayNext]_allVars
  PROVE  PaymentsDue'
<1>1. ASSUME \A k \in Keys :
               payment'[k] # NoPayment => Due(payment'[k].payable, payment'[k].amount)
      PROVE  PaymentsDue'
  BY <1>1, DueStays DEF PaymentsDue, Due
<1>2. ASSUME UNCHANGED payment PROVE PaymentsDue'
  BY <1>1, <1>2 DEF PaymentsDue
<1>3. ASSUME NEW k \in Keys, NEW row, payment' = [payment EXCEPT ![k] = row],
             Due(row.payable, row.amount)
      PROVE  PaymentsDue'
  <2>1. \A l \in Keys : payment'[l] = IF l = k THEN row ELSE payment[l]
    BY <1>3 DEF TypeInv, PaymentsTypeOK
  <2> QED BY <1>1, <1>3, <2>1 DEF PaymentsDue
<1>4. ASSUME NEW i \in Intents, InsertPayment(i) PROVE PaymentsDue'
  <2> DEFINE row == [payable |-> intent[i].payable, amount |-> intent[i].amount,
                     status |-> "pending"]
  <2>1. row.payable = intent[i].payable /\ row.amount = intent[i].amount
    OBVIOUS
  <2>2. Due(intent[i].payable, intent[i].amount)
    BY <1>4 DEF InsertPayment, IntentsDue
  <2>3. intent[i].key \in Keys /\ payment' = [payment EXCEPT ![intent[i].key] = row]
    BY <1>4 DEF InsertPayment, TypeInv
  <2> HIDE DEF row
  <2> QED BY <1>3, <2>1, <2>2, <2>3
<1>5. ASSUME NEW h \in Hooks, SaveOutcome(h) PROVE PaymentsDue'
  <2> DEFINE k == hook[h].key
             row == [payment[k] EXCEPT !.status = hook[h].outcome]
  <2>1. k \in Keys /\ payment[k] # NoPayment
    BY <1>5 DEF SaveOutcome, TypeInv
  <2>2. payment[k] \in PaymentRows
    BY <2>1 DEF TypeInv, PaymentsTypeOK
  <2>3. row.payable = payment[k].payable /\ row.amount = payment[k].amount
    BY <2>2 DEF PaymentRows
  <2>4. payment' = [payment EXCEPT ![k] = row]
    BY <1>5 DEF SaveOutcome
  <2>5. Due(payment[k].payable, payment[k].amount)
    BY <2>1 DEF PaymentsDue
  <2> HIDE DEF row, k
  <2> QED BY <1>3, <2>1, <2>3, <2>4, <2>5
<1> QED BY <1>2, <1>4, <1>5
     DEF PayNext, allVars, payVars, GatewayStep, BookingStep, IntentStep, HookStep,
         Advance, SubscriptionStep, GatewayCharges, GatewayDeclines, CreateBooking,
         BeginIntent, BeginSubscriptionIntent, CompareIntendedPlan,
         SaveIntendedPlan, OpenSession, AbortIntent, ReceiveNotice, CompareOutcome,
         ConfirmBooking, LoadSubscription, CompareActivation, ActivateSubscription,
         AbortHook

\* A delivery that confirms a booking found a charge of exactly what is due.
LEMMA ConfirmationIsDue ==
  ASSUME TypeInv, FlowInv, SessionsDue, PaymentsDue,
         NEW h \in Hooks, ConfirmBooking(h)
  PROVE  LET b == PaidFor(h) IN
         /\ b \in ChargedBookings
         /\ payment[hook[h].key].amount = booking[b].amountDue
         /\ ChargedFor(b, booking[b].amountDue)
<1> DEFINE b == PaidFor(h)
           k == hook[h].key
           ref == k[2]
<1>1. /\ k \in Keys /\ payment[k] # NoPayment
      /\ b = payment[k].payable /\ b \in Bookings
  BY DEF ConfirmBooking, PaidFor, TypeInv
<1>2. ref \in AllRefs
  BY <1>1, KeyParts
<1>3. Charged(ref)
  BY DEF ConfirmBooking, FlowInv, HooksBacked
<1>4. Backs(ref, b)
  BY <1>1 DEF FlowInv, PaymentsBacked
<1>5. payment[k].amount = booking[b].amountDue
  BY <1>1 DEF PaymentsDue, Due
<1>6. session[ref].amount = booking[b].amountDue
  BY <1>1, <1>2, <1>4 DEF SessionsDue, Due, Backs
<1> HIDE DEF b, k, ref
<1>7. ChargedFor(b, booking[b].amountDue) /\ b \in ChargedBookings
  BY <1>1, <1>2, <1>3, <1>4, <1>6 DEF ChargedFor, ChargedBookings, Charged, Backs
<1> QED BY <1>5, <1>7 DEF b, k

\* What is confirmed is paid in full after every step.
LEMMA ConfirmedStep ==
  ASSUME TypeInv, FlowInv, AmountInv, [PayNext]_allVars
  PROVE  ConfirmedIsPaidInFull'
<1> DEFINE Settled(row, paid) ==
             IF row.status = "confirmed"
             THEN row.amountPaid = row.amountDue /\ paid
             ELSE row.amountPaid = 0
           Paid(b, amount) == \E ref \in AllRefs : /\ session'[ref] # NoSession
                                                  /\ session'[ref].payable = b
                                                  /\ session'[ref].amount = amount
                                                  /\ session'[ref].charged
<1>0. SessionsPersist
  BY SessionsStep
<1>1. ASSUME \A b \in Bookings : booking'[b] # NoBooking =>
               Settled(booking'[b], Paid(b, booking'[b].amountDue))
      PROVE  ConfirmedIsPaidInFull'
  BY <1>1 DEF ConfirmedIsPaidInFull, ChargedFor
<1>2. ASSUME NEW b \in Bookings, booking[b] # NoBooking, booking'[b] = booking[b]
      PROVE  Settled(booking'[b], Paid(b, booking'[b].amountDue))
  BY <1>0, <1>2, ChargedForStays DEF AmountInv, ConfirmedIsPaidInFull
<1> HIDE DEF Settled, Paid
<1>3. ASSUME UNCHANGED booking PROVE ConfirmedIsPaidInFull'
  BY <1>1, <1>2, <1>3
<1>4. ASSUME NEW b \in Bookings, NEW amount \in Amounts, CreateBooking(b, amount)
      PROVE  ConfirmedIsPaidInFull'
  <2> DEFINE row == [status |-> "pending", amountDue |-> amount, amountPaid |-> 0]
  <2>1. Settled(row, Paid(b, row.amountDue))
    BY DEF Settled
  <2>2. booking' = [booking EXCEPT ![b] = row]
    BY <1>4 DEF CreateBooking
  <2> HIDE DEF row
  <2>3. \A c \in Bookings : booking'[c] = IF c = b THEN row ELSE booking[c]
    BY <2>2 DEF TypeInv, PaymentsTypeOK
  <2> QED BY <1>1, <1>2, <2>1, <2>3
<1>5. ASSUME NEW h \in Hooks, ConfirmBooking(h) PROVE ConfirmedIsPaidInFull'
  <2> DEFINE b == PaidFor(h)
  <2>1. /\ booking'[b].status = "confirmed"
        /\ booking'[b].amountPaid = booking'[b].amountDue
        /\ booking'[b].amountDue = booking[b].amountDue
    BY <1>5, ConfirmedRow, ConfirmationIsDue DEF AmountInv
  <2>2. Paid(b, booking[b].amountDue)
    BY <1>0, <1>5, ConfirmationIsDue, ChargedForStays DEF AmountInv, Paid
  <2>3. \A c \in Bookings : c # b => booking'[c] = booking[c]
    BY <1>5, ConfirmedRow
  <2> HIDE DEF b
  <2>4. Settled(booking'[b], Paid(b, booking'[b].amountDue))
    BY <2>1, <2>2 DEF Settled
  <2> QED BY <1>1, <1>2, <2>3, <2>4
<1> QED BY <1>3, <1>4, <1>5
     DEF PayNext, allVars, payVars, GatewayStep, BookingStep, IntentStep, HookStep,
         Advance, SubscriptionStep, GatewayCharges, GatewayDeclines, BeginIntent,
         BeginSubscriptionIntent, CompareIntendedPlan, SaveIntendedPlan,
         OpenSession, InsertPayment, AbortIntent, ReceiveNotice, CompareOutcome,
         SaveOutcome, LoadSubscription, CompareActivation, ActivateSubscription,
         AbortHook

\* So the amounts agree throughout.
LEMMA AmountAlways == PaySpec => [](TypeInv /\ FlowInv /\ AmountInv)
<1>1. TypeInv /\ FlowInv /\ AmountInv /\ [PayNext]_allVars => AmountInv'
  BY BookingsStep, IntentsDueStep, SessionsDueStep, PaymentsDueStep, ConfirmedStep
  DEF AmountInv
<1> QED BY <1>1, AmountInit, FlowAlways, PTL DEF PaySpec

\* A confirmed booking was charged, and records as paid what was due and what
\* the gateway took, for any number of intents, sessions and deliveries.
THEOREM ConfirmedIsPaid == PaySpec => []ConfirmedIsPaidInFull
<1>1. AmountInv => ConfirmedIsPaidInFull
  BY DEF AmountInv
<1> QED BY <1>1, AmountAlways, PTL

-----------------------------------------------------------------------------
(* Refinement of the safety part of BookingPromise.                        *)

\* Initially no booking is charged or confirmed.
LEMMA PromiseInit == PayInit => Promise!Init
  BY DEF PayInit, Promise!Init, ChargedBookings, ConfirmedBookings

\* A step that adds no charge leaves the charged bookings alone.
LEMMA ChargedFrame ==
  ASSUME TypeInv, SessionsPersist,
         \A ref \in AllRefs :
            session'[ref] # NoSession /\ session'[ref].charged => Charged(ref)
  PROVE  ChargedBookings' = ChargedBookings
<1>1. ASSUME NEW b \in Bookings, NEW ref \in AllRefs
      PROVE  /\ session'[ref] # NoSession /\ session'[ref].payable = b
                /\ session'[ref].charged
             <=> /\ session[ref] # NoSession /\ session[ref].payable = b
                 /\ session[ref].charged
  BY DEF SessionsPersist, Charged
<1> QED BY <1>1 DEF ChargedBookings

\* A gateway's charge is a Charge of its booking, or nothing to the promise.
LEMMA PromiseCharge ==
  ASSUME TypeInv, NEW ref \in AllRefs, GatewayCharges(ref)
  PROVE  [Promise!Next]_(Promise!vars)
<1> DEFINE s == [session[ref] EXCEPT !.charged = TRUE]
           b == session[ref].payable
<1>1. session[ref] \in Sessions /\ session[ref] # NoSession
  BY DEF GatewayCharges, Payable, TypeInv, PaymentsTypeOK
<1>2. s # NoSession /\ s.payable = b /\ s.charged
  <2>1. s \in Sessions /\ s.payable = b /\ s.charged
    BY <1>1 DEF Sessions
  <2> QED BY <2>1, PaymentNullsDiffer
<1>3. session' = [session EXCEPT ![ref] = s] /\ UNCHANGED booking
  BY DEF GatewayCharges
<1> HIDE DEF s
<1>4. \A q \in AllRefs : session'[q] = IF q = ref THEN s ELSE session[q]
  BY <1>3 DEF TypeInv, PaymentsTypeOK
<1>5. ConfirmedBookings' = ConfirmedBookings
  BY <1>3 DEF ConfirmedBookings
<1> HIDE DEF b
<1>6. \A c \in Bookings : c \in ChargedBookings' <=> c \in ChargedBookings \/ c = b
  BY <1>1, <1>2, <1>4 DEF ChargedBookings, b
<1>7. ChargedBookings \subseteq Bookings /\ ChargedBookings' \subseteq Bookings
  BY DEF ChargedBookings
<1>8. CASE b \in Bookings
  <2>1. ChargedBookings' = ChargedBookings \cup {b}
    BY <1>6, <1>7, <1>8
  <2> QED BY <1>5, <1>8, <2>1 DEF Promise!Next, Promise!Charge
<1>9. CASE b \notin Bookings
  <2>1. ChargedBookings' = ChargedBookings
    BY <1>6, <1>7, <1>9
  <2> QED BY <1>5, <2>1 DEF Promise!vars
<1> QED BY <1>8, <1>9

\* A confirmation is a Confirm of its booking, charged before.
LEMMA PromiseConfirm ==
  ASSUME TypeInv, FlowInv, AmountInv, NEW h \in Hooks, ConfirmBooking(h)
  PROVE  [Promise!Next]_(Promise!vars)
<1> DEFINE b == PaidFor(h)
<1>1. b \in ChargedBookings
  BY ConfirmationIsDue DEF AmountInv
<1>2. b \in Bookings /\ UNCHANGED session
  BY DEF ConfirmBooking
<1>3. /\ booking'[b] \in BookingRows /\ booking'[b].status = "confirmed"
      /\ \A c \in Bookings : c # b => booking'[c] = booking[c]
  BY ConfirmedRow
<1> HIDE DEF b
<1>4. ConfirmedBookings' = ConfirmedBookings \cup {b}
  BY <1>2, <1>3, PaymentNullsDiffer DEF ConfirmedBookings
<1>5. ChargedBookings' = ChargedBookings
  BY <1>2 DEF ChargedBookings
<1> QED BY <1>1, <1>2, <1>4, <1>5 DEF Promise!Next, Promise!Confirm

\* Every other step is a stutter of the promise.
LEMMA PromiseStep ==
  ASSUME TypeInv, FlowInv, AmountInv, [PayNext]_allVars
  PROVE  [Promise!Next]_(Promise!vars)
<1>0. SessionsPersist
  BY SessionsStep
<1>1. ASSUME UNCHANGED <<booking, session>> PROVE [Promise!Next]_(Promise!vars)
  BY <1>1 DEF Promise!vars, ChargedBookings, ConfirmedBookings
<1>2. ASSUME NEW b \in Bookings, NEW amount \in Amounts, CreateBooking(b, amount)
      PROVE  [Promise!Next]_(Promise!vars)
  <2>1. /\ booking[b] = NoBooking
        /\ booking'[b].status = "pending"
        /\ \A c \in Bookings : c # b => booking'[c] = booking[c]
    BY <1>2 DEF CreateBooking, TypeInv, PaymentsTypeOK
  <2>2. ConfirmedBookings' = ConfirmedBookings
    BY <2>1 DEF ConfirmedBookings
  <2>3. ChargedBookings' = ChargedBookings
    BY <1>2 DEF CreateBooking, ChargedBookings
  <2> QED BY <2>2, <2>3 DEF Promise!vars
<1>3. ASSUME NEW i \in Intents, NEW ref \in AllRefs, OpenSession(i, ref)
      PROVE  [Promise!Next]_(Promise!vars)
  <2> DEFINE s == [provider |-> Provider(intent[i].gateway),
                   payable |-> intent[i].payable, amount |-> intent[i].amount,
                   plan |-> intent[i].plan, charged |-> FALSE]
  <2>1. ~s.charged
    OBVIOUS
  <2>2. /\ session' = [session EXCEPT ![ref] = IF @ # NoSession THEN @ ELSE s]
        /\ UNCHANGED booking
    BY <1>3 DEF OpenSession
  <2> HIDE DEF s
  <2>3. \A q \in AllRefs : session'[q] = session[q] \/ session'[q] = s
    BY <2>2 DEF TypeInv, PaymentsTypeOK
  <2>4. ChargedBookings' = ChargedBookings
    BY <1>0, <2>1, <2>3, ChargedFrame DEF Charged
  <2>5. ConfirmedBookings' = ConfirmedBookings
    BY <2>2 DEF ConfirmedBookings
  <2> QED BY <2>4, <2>5 DEF Promise!vars
<1> QED BY <1>1, <1>2, <1>3, PromiseCharge, PromiseConfirm
     DEF PayNext, allVars, payVars, GatewayStep, BookingStep, IntentStep, HookStep,
         Advance, SubscriptionStep, GatewayDeclines, BeginIntent,
         BeginSubscriptionIntent, CompareIntendedPlan, SaveIntendedPlan,
         InsertPayment, AbortIntent, ReceiveNotice, CompareOutcome, SaveOutcome,
         LoadSubscription, CompareActivation, ActivateSubscription, AbortHook

\* The payment flow implements what it promises about bookings: confirmed only
\* after a charge, and for good.
THEOREM PromiseImplemented == PaySpec => PromiseSafety
<1>1. PayInit => Promise!Init
  BY PromiseInit
<1>2. TypeInv /\ FlowInv /\ AmountInv /\ [PayNext]_allVars
        => [Promise!Next]_(Promise!vars)
  BY PromiseStep
<1> QED BY <1>1, <1>2, AmountAlways, PTL DEF PaySpec, PromiseSafety, Promise!Safety
=============================================================================
