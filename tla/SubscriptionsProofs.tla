------------------------- MODULE SubscriptionsProofs -------------------------
(***************************************************************************)
(* Proofs about the subscription row, for any plans, prices, number of     *)
(* requests in flight and number of messages.                              *)
(***************************************************************************)
EXTENDS Subscriptions, TLAPS

\* A row loaded by findOne is a well-formed entity.
LEMMA LoadedType == ASSUME NEW row \in Rows PROVE Loaded(row) \in Entities
  BY DEF Loaded, Rows, Entities

\* So is a new one made for a plan.
LEMMA FreshType ==
  ASSUME NEW p \in Plans, NEW status \in Statuses, NEW credits \in Nat
  PROVE  Fresh(p, status, credits) \in Entities
  BY DEF Fresh, Entities

\* What save() takes from an entity is a row.
LEMMA WrittenType == ASSUME NEW e \in Entities PROVE Written(e) \in Rows
  BY DEF Written, Rows, Entities

\* So is what save() leaves behind.
LEMMA SavedType ==
  ASSUME SubscriptionsTypeOK, NEW e \in Entities, NEW seen \in Rows \cup {NoRow},
         seen # NoRow => sub # NoRow, Savable(e, seen)
  PROVE  Saved(e, seen) \in Rows
<1>1. CASE ~e.stored
  BY <1>1, WrittenType DEF Saved
<1>2. CASE e.stored
  <2>1. sub \in Rows /\ seen \in Rows
    BY <1>2 DEF Savable, SubscriptionsTypeOK
  <2> QED BY <1>2, <2>1 DEF Saved, Column, Rows, Entities
<1> QED BY <1>1, <1>2 DEF Entities

\* The nulls differ from what they stand in for.
LEMMA NullsDiffer ==
  /\ \A row \in Rows : row # NoRow
  /\ \A e \in Entities : e # NoEntity
  BY NullsAssumption

\* Beside the types: only a row that exists is compared with or refunded to.
SubTypeInv ==
    /\ SubscriptionsTypeOK
    /\ sending > 0 => sub # NoRow
    /\ \A r \in Requests : request[r].seen # NoRow => sub # NoRow

\* Taking a request keeps the types.
LEMMA AcceptType ==
  ASSUME SubTypeInv, NEW r \in Requests, NEW op \in Ops \ {"idle"},
         NEW e \in Entities, Accept(r, op, e)
  PROVE  SubTypeInv'
  BY DEF Accept, SubTypeInv, SubscriptionsTypeOK, Ops

\* Initially the variables have their types.
LEMMA InitType == Init => SubTypeInv
<1> SUFFICES ASSUME Init PROVE SubTypeInv
  OBVIOUS
<1>1. sub \in Rows \cup {NoRow}
  <2>1. \A p \in Plans : Written(Fresh(p, "active", Credits[p])) \in Rows
    BY FreshType, WrittenType, PlansAssumption DEF Statuses
  <2> QED BY <2>1 DEF Init
<1>2. /\ Idle.op = "idle" /\ Idle.seen = NoRow
      /\ Idle \in [op : Ops, entity : Entities \cup {NoEntity}, seen : Rows \cup {NoRow}]
  BY DEF Idle, Ops
<1> QED BY <1>1, <1>2, BoundsAssumption DEF Init, SubTypeInv, SubscriptionsTypeOK

\* Every request keeps the types.
LEMMA RequestStepType == SubTypeInv /\ RequestStep => SubTypeInv'
<1> SUFFICES ASSUME SubTypeInv, NEW r \in Requests,
                    \/ \E p \in Plans : SubscribeFree(r, p)
                    \/ \E p \in Plans : ScheduleDowngrade(r, p)
                    \/ Cancel(r)
                    \/ MarkPastDue(r)
                    \/ ApplyPendingPlan(r)
                    \/ CompareWithRow(r)
                    \/ CompleteSave(r)
                    \/ AbortRequest(r)
             PROVE  SubTypeInv'
  BY DEF RequestStep
<1> USE PlansAssumption
<1>0. sub # NoRow => sub \in Rows /\ Loaded(sub) \in Entities
  BY LoadedType DEF SubTypeInv, SubscriptionsTypeOK
<1>1. ASSUME NEW p \in Plans, SubscribeFree(r, p) PROVE SubTypeInv'
  <2> DEFINE e == IF sub = NoRow THEN Fresh(p, "active", Credits[p])
                  ELSE [stored |-> TRUE, planId |-> p, plan |-> p,
                        status |-> "active", credits |-> Credits[p],
                        pendingPlanId |-> NoPlan]
  <2>1. e \in Entities
    BY FreshType DEF Entities, Statuses
  <2>2. Accept(r, "subscribe_free", e)
    BY <1>1 DEF SubscribeFree
  <2> HIDE DEF e
  <2> QED BY <2>1, <2>2, AcceptType DEF Ops
<1>2. ASSUME NEW p \in Plans, ScheduleDowngrade(r, p) PROVE SubTypeInv'
  <2>1. [Loaded(sub) EXCEPT !.pendingPlanId = p] \in Entities
    BY <1>0, <1>2 DEF ScheduleDowngrade, Entities
  <2> QED BY <1>2, <2>1, AcceptType DEF ScheduleDowngrade, Ops
<1>3. ASSUME Cancel(r) PROVE SubTypeInv'
  <2>1. [Loaded(sub) EXCEPT !.status = "cancelled"] \in Entities
    BY <1>0, <1>3 DEF Cancel, Entities, Statuses
  <2> QED BY <1>3, <2>1, AcceptType DEF Cancel, Ops
<1>4. ASSUME MarkPastDue(r) PROVE SubTypeInv'
  <2>1. [Loaded(sub) EXCEPT !.status = "past_due"] \in Entities
    BY <1>0, <1>4 DEF MarkPastDue, Entities, Statuses
  <2> QED BY <1>4, <2>1, AcceptType DEF MarkPastDue, Ops
<1>5. ASSUME ApplyPendingPlan(r) PROVE SubTypeInv'
  <2> DEFINE p == sub.pendingPlanId
             e == [Loaded(sub) EXCEPT !.planId = p, !.plan = p,
                                      !.pendingPlanId = NoPlan,
                                      !.credits = Credits[p]]
  <2>1. p \in Plans
    BY <1>0, <1>5 DEF ApplyPendingPlan, Rows
  <2>2. e \in Entities
    BY <1>0, <1>5, <2>1 DEF ApplyPendingPlan, Entities
  <2>3. Accept(r, "apply_pending", e)
    BY <1>5 DEF ApplyPendingPlan
  <2> HIDE DEF e
  <2> QED BY <2>2, <2>3, AcceptType DEF Ops
<1>6. ASSUME CompareWithRow(r) PROVE SubTypeInv'
  BY <1>6 DEF CompareWithRow, SubTypeInv, SubscriptionsTypeOK
<1>7. ASSUME CompleteSave(r) PROVE SubTypeInv'
  <2>1. /\ request[r].entity \in Entities
        /\ request[r].seen \in Rows \cup {NoRow}
        /\ request[r].seen # NoRow => sub # NoRow
    BY <1>7 DEF CompleteSave, SubTypeInv, SubscriptionsTypeOK
  <2>2. sub' \in Rows
    BY <1>7, <2>1, SavedType DEF CompleteSave, SubTypeInv
  <2> QED BY <1>7, <2>2, NullsDiffer
       DEF CompleteSave, SubTypeInv, SubscriptionsTypeOK, Idle, Ops
<1>8. ASSUME AbortRequest(r) PROVE SubTypeInv'
  BY <1>8 DEF AbortRequest, SubTypeInv, SubscriptionsTypeOK, Idle, Ops
<1> QED BY <1>1, <1>2, <1>3, <1>4, <1>5, <1>6, <1>7, <1>8

\* Deductions and refunds keep the types.
LEMMA CreditStepType == SubTypeInv /\ CreditStep => SubTypeInv'
<1> SUFFICES ASSUME SubTypeInv, CreditStep PROVE SubTypeInv'
  OBVIOUS
<1> USE BoundsAssumption
<1>1. sub # NoRow => sub \in Rows
  BY DEF SubTypeInv, SubscriptionsTypeOK
<1>2. CASE DeductSmsCredit
  <2>1. sub' \in Rows
    BY <1>1, <1>2 DEF DeductSmsCredit, Rows
  <2>2. sending' \in Nat /\ issued' \in 0..MaxSends
    BY <1>2 DEF DeductSmsCredit, SubTypeInv, SubscriptionsTypeOK
  <2> QED BY <1>2, <2>1, <2>2, NullsDiffer
       DEF DeductSmsCredit, SubTypeInv, SubscriptionsTypeOK
<1>3. CASE KeepSmsCredit
  <2>1. sending' \in Nat
    BY <1>3 DEF KeepSmsCredit, SubTypeInv, SubscriptionsTypeOK
  <2> QED BY <1>3, <2>1 DEF KeepSmsCredit, SubTypeInv, SubscriptionsTypeOK
<1>4. CASE RefundSmsCredit
  <2>1. sub' \in Rows
    BY <1>1, <1>4 DEF RefundSmsCredit, SubTypeInv, Rows
  <2>2. sending' \in Nat
    BY <1>4 DEF RefundSmsCredit, SubTypeInv, SubscriptionsTypeOK
  <2> QED BY <1>4, <2>1, <2>2, NullsDiffer
       DEF RefundSmsCredit, SubTypeInv, SubscriptionsTypeOK
<1> QED BY <1>2, <1>3, <1>4 DEF CreditStep

-----------------------------------------------------------------------------
(* Credits.  issued - sending is the number of messages settled; it only   *)
(* grows, so a balance covered when an entity was loaded is still covered  *)
(* when the entity is saved, however many messages were settled meanwhile. *)

Covered(credits) == \E p \in Plans : credits <= Credits[p] + (issued - sending)

CreditsInv ==
    /\ SubTypeInv
    /\ sending <= issued
    /\ sub # NoRow => Covered(sub.credits)
    /\ \A r \in Requests :
          request[r].op # "idle" => Covered(request[r].entity.credits)

\* A plan's own allowance is covered.
LEMMA AllowanceCovered ==
  ASSUME CreditsInv, NEW p \in Plans PROVE Covered(Credits[p])
<1>1. issued \in Nat /\ sending \in Nat /\ sending <= issued /\ Credits[p] \in Nat
  BY PlansAssumption, BoundsAssumption
     DEF CreditsInv, SubTypeInv, SubscriptionsTypeOK
<1> QED BY <1>1 DEF Covered

\* Coverage survives any step that does not lower the number of settled messages.
LEMMA CoveredGrows ==
  ASSUME NEW credits \in Nat, Covered(credits), SubscriptionsTypeOK,
         SubscriptionsTypeOK', issued - sending <= issued' - sending'
  PROVE  Covered(credits)'
<1>1. PICK p \in Plans : credits <= Credits[p] + (issued - sending)
  BY DEF Covered
<1>2. /\ Credits[p] \in Nat /\ issued \in Int /\ sending \in Int
      /\ issued' \in Int /\ sending' \in Int
  BY PlansAssumption, BoundsAssumption DEF SubscriptionsTypeOK
<1>3. credits <= Credits[p] + (issued' - sending')
  <2>1. \A i, j \in Int : i <= j /\ credits <= Credits[p] + i => credits <= Credits[p] + j
    BY <1>2
  <2>2. issued - sending \in Int /\ issued' - sending' \in Int
    BY <1>2
  <2> QED BY <1>1, <2>1, <2>2
<1> QED BY <1>3 DEF Covered

\* The new entity of each request is covered, so taking the request keeps the
\* invariant.
LEMMA AcceptCovered ==
  ASSUME CreditsInv, SubTypeInv', NEW r \in Requests, NEW op, NEW e,
         Accept(r, op, e), Covered(e.credits)
  PROVE  CreditsInv'
  BY DEF Accept, CreditsInv, Covered, SubTypeInv, SubscriptionsTypeOK

\* Initially nothing is spent and the balance is a plan's allowance.
LEMMA CreditsInit == Init => CreditsInv
<1> SUFFICES ASSUME Init PROVE CreditsInv
  OBVIOUS
<1>1. SubTypeInv
  BY InitType
<1>2. sub # NoRow => Covered(sub.credits)
  <2>1. \A p \in Plans :
           LET row == Written(Fresh(p, "active", Credits[p]))
           IN  row.credits = Credits[p] /\ Credits[p] \in Nat
    BY PlansAssumption DEF Written, Fresh
  <2>2. issued - sending = 0
    BY DEF Init
  <2> QED BY <2>1, <2>2 DEF Init, Covered
<1> QED BY <1>1, <1>2 DEF Init, CreditsInv, Idle

\* No request saves more credits than are covered.
LEMMA CreditsRequestStep ==
  CreditsInv /\ RequestStep => CreditsInv'
<1> SUFFICES ASSUME CreditsInv, RequestStep PROVE CreditsInv'
  OBVIOUS
<1>0. SubTypeInv'
  BY RequestStepType DEF CreditsInv
<1> PICK r \in Requests :
       \/ \E p \in Plans : SubscribeFree(r, p)
       \/ \E p \in Plans : ScheduleDowngrade(r, p)
       \/ Cancel(r)
       \/ MarkPastDue(r)
       \/ ApplyPendingPlan(r)
       \/ CompareWithRow(r)
       \/ CompleteSave(r)
       \/ AbortRequest(r)
  BY DEF RequestStep
<1>1. ASSUME NEW p \in Plans, SubscribeFree(r, p) PROVE CreditsInv'
  <2> DEFINE e == IF sub = NoRow THEN Fresh(p, "active", Credits[p])
                  ELSE [stored |-> TRUE, planId |-> p, plan |-> p,
                        status |-> "active", credits |-> Credits[p],
                        pendingPlanId |-> NoPlan]
  <2>1. e.credits = Credits[p]
    BY DEF Fresh
  <2>2. Accept(r, "subscribe_free", e)
    BY <1>1 DEF SubscribeFree
  <2> HIDE DEF e
  <2> QED BY <1>0, <2>1, <2>2, AllowanceCovered, AcceptCovered
<1>2. ASSUME NEW p \in Plans, ScheduleDowngrade(r, p) PROVE CreditsInv'
  <2>1. [Loaded(sub) EXCEPT !.pendingPlanId = p].credits = sub.credits
    BY DEF Loaded
  <2> QED BY <1>0, <1>2, <2>1, AcceptCovered DEF ScheduleDowngrade, CreditsInv
<1>3. ASSUME Cancel(r) PROVE CreditsInv'
  <2>1. [Loaded(sub) EXCEPT !.status = "cancelled"].credits = sub.credits
    BY DEF Loaded
  <2> QED BY <1>0, <1>3, <2>1, AcceptCovered DEF Cancel, CreditsInv
<1>4. ASSUME MarkPastDue(r) PROVE CreditsInv'
  <2>1. [Loaded(sub) EXCEPT !.status = "past_due"].credits = sub.credits
    BY DEF Loaded
  <2> QED BY <1>0, <1>4, <2>1, AcceptCovered DEF MarkPastDue, CreditsInv
<1>5. ASSUME ApplyPendingPlan(r) PROVE CreditsInv'
  <2> DEFINE p == sub.pendingPlanId
             e == [Loaded(sub) EXCEPT !.planId = p, !.plan = p,
                                      !.pendingPlanId = NoPlan,
                                      !.credits = Credits[p]]
  <2>1. p \in Plans
    BY <1>5 DEF ApplyPendingPlan, CreditsInv, SubTypeInv, SubscriptionsTypeOK, Rows
  <2>2. e.credits = Credits[p]
    BY DEF Loaded
  <2>3. Accept(r, "apply_pending", e)
    BY <1>5 DEF ApplyPendingPlan
  <2> HIDE DEF e
  <2> QED BY <1>0, <2>1, <2>2, <2>3, AllowanceCovered, AcceptCovered
<1>6. ASSUME CompareWithRow(r) PROVE CreditsInv'
  BY <1>0, <1>6
     DEF CompareWithRow, CreditsInv, Covered, SubTypeInv, SubscriptionsTypeOK
<1>7. ASSUME CompleteSave(r) PROVE CreditsInv'
  <2> DEFINE e == request[r].entity
             seen == request[r].seen
  <2>1. seen # NoRow => sub # NoRow
    BY DEF CreditsInv, SubTypeInv
  <2>2. \/ sub'.credits = e.credits
        \/ sub # NoRow /\ sub'.credits = sub.credits
    BY <1>7, <2>1 DEF CompleteSave, Savable, Saved, Column, Written
  <2>3. Covered(sub'.credits)
    BY <1>7, <2>2 DEF CompleteSave, CreditsInv
  <2>4. Covered(sub.credits)'
    BY <1>7, <2>3 DEF CompleteSave, Covered
  <2> QED BY <1>0, <1>7, <2>4
       DEF CompleteSave, CreditsInv, Covered, Idle, SubTypeInv, SubscriptionsTypeOK
<1>8. ASSUME AbortRequest(r) PROVE CreditsInv'
  BY <1>0, <1>8
  DEF AbortRequest, CreditsInv, Covered, Idle, SubTypeInv, SubscriptionsTypeOK
<1> QED BY <1>1, <1>2, <1>3, <1>4, <1>5, <1>6, <1>7, <1>8

\* Deductions, settlements and refunds keep the invariant and the types.
LEMMA CreditsCreditStep == CreditsInv /\ CreditStep => CreditsInv'
<1> SUFFICES ASSUME CreditsInv, CreditStep PROVE CreditsInv'
  OBVIOUS
<1> USE BoundsAssumption
<1>0. SubTypeInv'
  BY CreditStepType DEF CreditsInv
<1>1. sending \in Nat /\ issued \in Nat /\ sending <= issued
  BY DEF CreditsInv, SubTypeInv, SubscriptionsTypeOK
<1>2. sub # NoRow => sub \in Rows /\ sub.credits \in Nat
  BY DEF CreditsInv, SubTypeInv, SubscriptionsTypeOK, Rows
<1>3. \A r \in Requests : request[r].op # "idle" => request[r].entity.credits \in Nat
  BY DEF CreditsInv, SubTypeInv, SubscriptionsTypeOK, Entities
<1>4. ASSUME DeductSmsCredit PROVE CreditsInv'
  <2>1. sub'.credits = sub.credits - 1
    BY <1>2, <1>4 DEF DeductSmsCredit, Rows
  <2>4. issued' - sending' = issued - sending /\ sending' <= issued'
    BY <1>1, <1>4 DEF DeductSmsCredit
  <2>5. Covered(sub.credits)'
    <3>1. PICK p \in Plans : sub.credits <= Credits[p] + (issued - sending)
      BY <1>4 DEF DeductSmsCredit, CreditsInv, Covered
    <3>2. sub'.credits <= Credits[p] + (issued' - sending')
      BY <1>1, <1>2, <1>4, <2>1, <2>4, <3>1, PlansAssumption DEF DeductSmsCredit
    <3> QED BY <3>2 DEF Covered
  <2>6. \A r \in Requests :
           (request[r].op # "idle" => Covered(request[r].entity.credits))'
    BY <1>4, <2>4 DEF DeductSmsCredit, CreditsInv, Covered
  <2> QED BY <1>0, <2>4, <2>5, <2>6 DEF CreditsInv
<1>5. ASSUME KeepSmsCredit PROVE CreditsInv'
  <2>1. SubscriptionsTypeOK /\ SubscriptionsTypeOK'
    BY <1>0 DEF CreditsInv, SubTypeInv
  <2>2. issued - sending <= issued' - sending' /\ sending' <= issued'
    BY <1>1, <1>5 DEF KeepSmsCredit
  <2>3. sub' # NoRow => Covered(sub.credits)'
    BY <1>2, <1>5, <2>1, <2>2, CoveredGrows DEF KeepSmsCredit, CreditsInv
  <2>4. \A r \in Requests :
           (request[r].op # "idle" => Covered(request[r].entity.credits))'
    BY <1>3, <1>5, <2>1, <2>2, CoveredGrows DEF KeepSmsCredit, CreditsInv
  <2> QED BY <1>0, <2>2, <2>3, <2>4 DEF CreditsInv
<1>6. ASSUME RefundSmsCredit PROVE CreditsInv'
  <2>1. sub # NoRow /\ sub'.credits = sub.credits + 1
    BY <1>1, <1>2, <1>6 DEF RefundSmsCredit, CreditsInv, SubTypeInv, Rows
  <2>2. SubscriptionsTypeOK /\ SubscriptionsTypeOK'
    BY <1>0 DEF CreditsInv, SubTypeInv
  <2>3. issued' - sending' = (issued - sending) + 1 /\ sending' <= issued'
    BY <1>1, <1>6 DEF RefundSmsCredit
  <2>4. Covered(sub.credits)'
    <3>1. PICK p \in Plans : sub.credits <= Credits[p] + (issued - sending)
      BY <2>1 DEF CreditsInv, Covered
    <3>2. sub'.credits <= Credits[p] + (issued' - sending')
      BY <1>1, <1>2, <2>1, <2>3, <3>1, PlansAssumption
    <3> QED BY <3>2 DEF Covered
  <2>5. issued - sending <= issued' - sending'
    BY <1>1, <2>3
  <2>6. \A r \in Requests :
           (request[r].op # "idle" => Covered(request[r].entity.credits))'
    BY <1>3, <1>6, <2>2, <2>5, CoveredGrows DEF RefundSmsCredit, CreditsInv
  <2> QED BY <1>0, <2>3, <2>4, <2>6 DEF CreditsInv
<1> QED BY <1>4, <1>5, <1>6 DEF CreditStep

\* Stuttering keeps the invariant.
LEMMA CreditsStutter == CreditsInv /\ UNCHANGED subVars => CreditsInv'
  BY DEF CreditsInv, SubTypeInv, SubscriptionsTypeOK, Covered, subVars

\* So the invariant holds of every reachable state.
LEMMA CreditsAlways == Spec => []CreditsInv
<1>1. CreditsInv /\ [Next]_subVars => CreditsInv'
  BY CreditsRequestStep, CreditsCreditStep, CreditsStutter DEF Next
<1> QED BY CreditsInit, <1>1, PTL DEF Spec

\* The row and every entity about to be saved keep their types, the balance
\* included: no order of deductions and overlapping saves takes it below zero.
THEOREM SubscriptionsTypeCorrect == Spec => []SubscriptionsTypeOK
<1>1. CreditsInv => SubscriptionsTypeOK
  BY DEF CreditsInv, SubTypeInv
<1> QED BY CreditsAlways, <1>1, PTL

\* Refunds never return more than deductions took, whatever saves overlap them.
THEOREM CreditsAreCovered == Spec => []CreditsCovered
<1>1. CreditsInv => CreditsCovered
  <2> SUFFICES ASSUME CreditsInv, sub # NoRow
               PROVE  \E p \in Plans : sub.credits + sending <= Credits[p] + issued
    BY DEF CreditsCovered
  <2>1. PICK p \in Plans : sub.credits <= Credits[p] + (issued - sending)
    BY DEF CreditsInv, Covered
  <2>2. sub.credits \in Nat /\ sending \in Nat /\ issued \in Nat /\ Credits[p] \in Nat
    BY PlansAssumption, BoundsAssumption
       DEF CreditsInv, SubTypeInv, SubscriptionsTypeOK, Rows
  <2> QED BY <2>1, <2>2
<1> QED BY CreditsAlways, <1>1, PTL

=============================================================================
