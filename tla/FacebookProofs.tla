---------------------------- MODULE FacebookProofs ----------------------------
(***************************************************************************)
(* Proofs about tenants and their accounts, pages and deliveries, for any  *)
(* numbers of them and of requests that overlap.                           *)
(***************************************************************************)
EXTENDS Facebook, TLAPS

-----------------------------------------------------------------------------
(* Accounts.  A key in a transaction belongs to nobody yet, and to one      *)
(* transaction only.                                                        *)

Onboarding == {"insert_tenant", "insert_admin", "commit"}

ReqOK(r) ==
    /\ req[r].step \in Onboarding => req[r].tenant \in Subdomains /\ req[r].email \in Emails
    /\ req[r].step \in {"insert_admin", "commit"} => tenant[req[r].tenant] = None
    /\ req[r].step = "commit" => user[req[r].email] = None
    /\ req[r].step = "insert_user" => /\ req[r].tenant \in Subdomains /\ req[r].email \in Emails
                                      /\ tenant[req[r].tenant] # None /\ req[r].role \in Roles
    /\ req[r].step \in {"diff_user", "save_user"} =>
           req[r].email \in Emails /\ user[req[r].email] # None /\ req[r].new \in UserStatuses
    /\ req[r].step \in {"diff_tenant", "save_tenant"} =>
           /\ req[r].tenant \in Subdomains /\ tenant[req[r].tenant] # None
           /\ req[r].new \in TenantStatuses

\* The keys that a request at its step has inserted.
Held(k) ==
    IF k.step = "insert_admin" THEN {k.tenant}
    ELSE IF k.step = "commit" THEN {k.tenant, k.email} ELSE {}

RowsOK ==
    /\ tenant \in [Subdomains -> TenantStatuses \cup {None}]
    /\ user \in [Emails -> UserRows \cup {None}]

AccountsInv ==
    /\ RowsOK
    /\ req \in [Requests -> ReqRecords]
    /\ open \in [Requests -> SUBSET (Subdomains \cup Emails)]
    /\ \A r \in Requests : open[r] = Held(req[r]) /\ ReqOK(r)
    /\ \A r, s \in Requests : r # s => open[r] \cap open[s] = {}
    /\ TenantHasAdmin

\* The invariant contains the type invariant.
LEMMA AccountsTypes == AccountsInv => AccountsTypeOK
<1> SUFFICES ASSUME AccountsInv, NEW r \in Requests
             PROVE  open[r] = CASE req[r].step = "insert_admin" -> {req[r].tenant}
                                [] req[r].step = "commit" -> {req[r].tenant, req[r].email}
                                [] OTHER -> {}
  BY DEF AccountsInv, RowsOK, AccountsTypeOK
<1> QED BY DEF AccountsInv, Held

\* A request that goes on leaves the others what they rely on.
LEMMA OthersKeep ==
  ASSUME AccountsInv, NEW r \in Requests, NEW k \in ReqRecords,
         req' = [req EXCEPT ![r] = k],
         open' = [open EXCEPT ![r] = Held(k)],
         Held(k) \subseteq Subdomains \cup Emails,
         \A q \in Requests \ {r} : open[q] \cap Held(k) = {},
         RowsOK', TenantHasAdmin',
         \A t \in Subdomains : tenant[t] # None => tenant'[t] # None,
         \A e \in Emails : user[e] # None => user'[e] # None,
         \A q \in Requests \ {r} :
             /\ \A t \in open[q] \cap Subdomains : tenant'[t] = tenant[t]
             /\ \A e \in open[q] \cap Emails : user'[e] = user[e],
         ReqOK(r)'
  PROVE  AccountsInv'
<1>1. req' \in [Requests -> ReqRecords] /\ open' \in [Requests -> SUBSET (Subdomains \cup Emails)]
  BY DEF AccountsInv
<1>2. ASSUME NEW q \in Requests PROVE open'[q] = Held(req'[q])
  BY DEF AccountsInv
<1>3. ASSUME NEW q \in Requests, NEW s \in Requests, q # s
      PROVE  open'[q] \cap open'[s] = {}
  <2>1. CASE q = r
    BY <1>3, <2>1 DEF AccountsInv
  <2>2. CASE s = r
    BY <1>3, <2>2 DEF AccountsInv
  <2>3. CASE q # r /\ s # r
    BY <1>3, <2>3 DEF AccountsInv
  <2> QED BY <2>1, <2>2, <2>3
<1>4. ASSUME NEW q \in Requests \ {r} PROVE ReqOK(q)'
  <2>1. req'[q] = req[q] /\ open[q] = Held(req[q]) /\ ReqOK(q)
    BY DEF AccountsInv
  <2>2. req[q].step \in {"insert_admin", "commit"} => tenant'[req[q].tenant] = None
    BY <2>1 DEF ReqOK, Held, Onboarding
  <2>3. req[q].step = "commit" => user'[req[q].email] = None
    BY <2>1 DEF ReqOK, Held, Onboarding
  <2> QED BY <2>1, <2>2, <2>3 DEF ReqOK
<1> QED BY <1>1, <1>2, <1>3, <1>4 DEF AccountsInv

\* A request that is over, or that holds no key and writes no row.
LEMMA FreeRecord == Free \in ReqRecords /\ Free.step = "free" /\ Held(Free) = {}
  BY DEF Free, ReqRecords, ReqSteps, Roles, Values, Held

\* Steps that hold no key before and after, and leave the rows.
LEMMA QuietStep ==
  ASSUME AccountsInv, NEW r \in Requests, NEW k \in ReqRecords,
         req' = [req EXCEPT ![r] = k], Held(k) = {},
         open' = [open EXCEPT ![r] = {}], UNCHANGED <<tenant, user>>,
         ReqOK(r)'
  PROVE  AccountsInv'
<1>1. RowsOK' /\ TenantHasAdmin'
  BY DEF AccountsInv, RowsOK, TenantHasAdmin
<1> QED BY <1>1, OthersKeep

\* Without a key of its own, a request leaves the table of keys as it is.
LEMMA NoKeys ==
  ASSUME AccountsInv, NEW r \in Requests, req[r].step \notin {"insert_admin", "commit"},
         UNCHANGED open
  PROVE  open' = [open EXCEPT ![r] = {}]
  BY DEF AccountsInv, Held

\* Nobody has anything at first.
LEMMA AccountsStart == AccountsInit => AccountsInv
  BY FreeRecord DEF AccountsInit, AccountsInv, RowsOK, ReqOK, Onboarding, TenantHasAdmin

\* Requests that arrive, and those that end without a trace.
LEMMA ArrivalStep ==
  ASSUME AccountsInv, NEW r \in Requests, Arrival(r)
  PROVE  AccountsInv'
<1>0. /\ RowsOK /\ req \in [Requests -> ReqRecords]
      /\ Asked \subseteq TenantStatuses /\ None \notin TenantStatuses
  BY AccountsAssumption DEF AccountsInv
<1>1. ASSUME NEW s \in Subdomains, NEW e \in Emails, Onboard(r, s, e) PROVE AccountsInv'
  <2> DEFINE k == [Free EXCEPT !.step = "insert_tenant", !.tenant = s, !.email = e,
                               !.role = "company_admin"]
  <2>1. k \in ReqRecords /\ Held(k) = {}
    BY DEF Free, ReqRecords, ReqSteps, Roles, Values, Held
  <2>2. k.step = "insert_tenant" /\ k.tenant = s /\ k.email = e
    BY DEF Free
  <2>3. req' = [req EXCEPT ![r] = k] /\ UNCHANGED <<tenant, user, open>>
    BY <1>1 DEF Onboard
  <2>4. req[r] = Free
    BY <1>1 DEF Onboard
  <2> HIDE DEF k
  <2>5. open' = [open EXCEPT ![r] = {}]
    BY <2>3, <2>4, FreeRecord, NoKeys
  <2>6. ReqOK(r)'
    BY <1>0, <2>2, <2>3 DEF ReqOK, Onboarding
  <2> QED BY <2>1, <2>3, <2>5, <2>6, QuietStep
<1>2. ASSUME NEW s \in Subdomains, NEW e \in Emails, NEW role \in {"staff", "agent"},
             Invite(r, s, e, role)
      PROVE  AccountsInv'
  <2> DEFINE k == [Free EXCEPT !.step = "insert_user", !.tenant = s, !.email = e, !.role = role]
  <2>1. k \in ReqRecords /\ Held(k) = {}
    BY DEF Free, ReqRecords, ReqSteps, Roles, Values, Held
  <2>2. k.step = "insert_user" /\ k.tenant = s /\ k.email = e /\ k.role \in Roles
    BY DEF Free, Roles
  <2>3. req' = [req EXCEPT ![r] = k] /\ UNCHANGED <<tenant, user, open>>
    BY <1>2 DEF Invite
  <2>4. req[r] = Free
    BY <1>2 DEF Invite
  <2>5. MayManage(s)
    BY <1>2 DEF Invite
  <2> HIDE DEF k
  <2>6. open' = [open EXCEPT ![r] = {}]
    BY <2>3, <2>4, FreeRecord, NoKeys
  <2>7. tenant[s] # None
    BY <2>5 DEF MayManage, AccountsInv, TenantHasAdmin
  <2>8. ReqOK(r)'
    BY <1>0, <2>2, <2>3, <2>7 DEF ReqOK, Onboarding
  <2> QED BY <2>1, <2>3, <2>6, <2>8, QuietStep
<1>3. ASSUME NEW s \in Subdomains, NEW e \in Emails, NEW status \in {"active", "disabled"},
             SetStatus(r, s, e, status)
      PROVE  AccountsInv'
  <2> DEFINE k == [Free EXCEPT !.step = "diff_user", !.email = e, !.new = status]
  <2>1. k \in ReqRecords /\ Held(k) = {}
    BY DEF Free, ReqRecords, ReqSteps, Roles, Values, Held, UserStatuses
  <2>2. k.step = "diff_user" /\ k.email = e /\ k.new \in UserStatuses
    BY DEF Free, UserStatuses
  <2>3. req' = [req EXCEPT ![r] = k] /\ UNCHANGED <<tenant, user, open>>
    BY <1>3 DEF SetStatus
  <2>4. req[r] = Free /\ user[e] # None
    BY <1>3 DEF SetStatus
  <2> HIDE DEF k
  <2>5. open' = [open EXCEPT ![r] = {}]
    BY <2>3, <2>4, FreeRecord, NoKeys
  <2>6. ReqOK(r)'
    BY <1>0, <2>2, <2>3, <2>4 DEF ReqOK, Onboarding
  <2> QED BY <2>1, <2>3, <2>5, <2>6, QuietStep
<1>4. ASSUME NEW s \in Subdomains, NEW role \in {"super_admin", "company_admin"},
             NEW status \in Asked \cup {tenant[s]}, UpdateTenant(r, s, role, status)
      PROVE  AccountsInv'
  <2> DEFINE k == [Free EXCEPT !.step = "diff_tenant", !.tenant = s, !.role = role,
                               !.new = status]
  <2>0. tenant[s] \in TenantStatuses /\ status \in TenantStatuses
    BY <1>0, <1>4 DEF UpdateTenant, RowsOK
  <2>1. k \in ReqRecords /\ Held(k) = {}
    BY <2>0 DEF Free, ReqRecords, ReqSteps, Roles, Values, Held
  <2>2. k.step = "diff_tenant" /\ k.tenant = s /\ k.new = status
    BY DEF Free
  <2>3. req' = [req EXCEPT ![r] = k] /\ UNCHANGED <<tenant, user, open>>
    BY <1>4 DEF UpdateTenant
  <2>4. req[r] = Free
    BY <1>4 DEF UpdateTenant
  <2> HIDE DEF k
  <2>5. open' = [open EXCEPT ![r] = {}]
    BY <2>3, <2>4, FreeRecord, NoKeys
  <2>6. ReqOK(r)'
    BY <1>0, <2>0, <2>2, <2>3 DEF ReqOK, Onboarding
  <2> QED BY <2>1, <2>3, <2>5, <2>6, QuietStep
<1> QED BY <1>1, <1>2, <1>3, <1>4 DEF Arrival

\* Requests on their way.
LEMMA TenantSteps ==
  ASSUME AccountsInv, NEW r \in Requests, InsertTenant(r) \/ InsertAdmin(r) \/ Commit(r)
  PROVE  AccountsInv'
<1>0. /\ RowsOK /\ TenantHasAdmin /\ ReqOK(r) /\ open[r] = Held(req[r])
      /\ req \in [Requests -> ReqRecords]
      /\ open \in [Requests -> SUBSET (Subdomains \cup Emails)]
  BY DEF AccountsInv
<1> DEFINE t == req[r].tenant
           e == req[r].email
<1>1. CASE InsertTenant(r) /\ tenant[t] = None
  <2> DEFINE k == [req[r] EXCEPT !.step = "insert_admin"]
  <2>1. t \in Subdomains /\ e \in Emails /\ ~HeldByOther(r, t)
    BY <1>0, <1>1 DEF InsertTenant, ReqOK, Onboarding
  <2>2. k \in ReqRecords /\ Held(k) = {t} /\ k.step = "insert_admin" /\ k.tenant = t /\ k.email = e
    BY <1>0 DEF ReqRecords, ReqSteps, Held
  <2>3. /\ req' = [req EXCEPT ![r] = k] /\ open' = [open EXCEPT ![r] = {t}]
        /\ UNCHANGED <<tenant, user>>
    BY <1>0, <1>1 DEF InsertTenant
  <2>4. \A q \in Requests \ {r} : open[q] \cap {t} = {}
    BY <2>1 DEF HeldByOther
  <2>5. RowsOK' /\ TenantHasAdmin'
    BY <1>0, <2>3 DEF RowsOK, TenantHasAdmin
  <2> HIDE DEF k
  <2>6. ReqOK(r)'
    BY <1>0, <1>1, <2>1, <2>2, <2>3 DEF ReqOK, Onboarding
  <2> HIDE DEF t, e
  <2> QED BY <2>1, <2>2, <2>3, <2>4, <2>5, <2>6, OthersKeep
<1>2. CASE InsertTenant(r) /\ tenant[t] # None
  <2>1. req' = [req EXCEPT ![r] = Free] /\ UNCHANGED <<tenant, user, open>>
    BY <1>2 DEF InsertTenant, End
  <2>2. open' = [open EXCEPT ![r] = {}]
    BY <1>2, <2>1, NoKeys DEF InsertTenant
  <2>3. ReqOK(r)'
    BY <1>0, <2>1, FreeRecord DEF ReqOK, Onboarding
  <2> QED BY <2>1, <2>2, <2>3, FreeRecord, QuietStep
<1>3. CASE InsertAdmin(r) /\ user[e] = None
  <2> DEFINE k == [req[r] EXCEPT !.step = "commit"]
  <2>1. t \in Subdomains /\ e \in Emails /\ ~HeldByOther(r, e) /\ tenant[t] = None
    BY <1>0, <1>3 DEF InsertAdmin, ReqOK, Onboarding
  <2>2. k \in ReqRecords /\ Held(k) = {t, e} /\ k.step = "commit" /\ k.tenant = t /\ k.email = e
    BY <1>0 DEF ReqRecords, ReqSteps, Held
  <2>3. open[r] = {t}
    BY <1>0, <1>3 DEF InsertAdmin, Held
  <2>4. /\ req' = [req EXCEPT ![r] = k] /\ open' = [open EXCEPT ![r] = {t, e}]
        /\ UNCHANGED <<tenant, user>>
    BY <1>0, <1>3, <2>3 DEF InsertAdmin
  <2>5. \A q \in Requests \ {r} : open[q] \cap {t, e} = {}
    BY <2>1, <2>3 DEF HeldByOther, AccountsInv
  <2>6. RowsOK' /\ TenantHasAdmin'
    BY <1>0, <2>4 DEF RowsOK, TenantHasAdmin
  <2> HIDE DEF k
  <2>7. ReqOK(r)'
    BY <1>0, <1>3, <2>1, <2>2, <2>4 DEF ReqOK, Onboarding
  <2> HIDE DEF t, e
  <2> QED BY <2>1, <2>2, <2>4, <2>5, <2>6, <2>7, OthersKeep
<1>4. CASE InsertAdmin(r) /\ user[e] # None
  <2>1. /\ req' = [req EXCEPT ![r] = Free] /\ open' = [open EXCEPT ![r] = {}]
        /\ UNCHANGED <<tenant, user>>
    BY <1>4 DEF InsertAdmin, End
  <2>2. ReqOK(r)'
    BY <1>0, <2>1, FreeRecord DEF ReqOK, Onboarding
  <2> QED BY <2>1, <2>2, FreeRecord, QuietStep
<1>5. CASE Commit(r)
  <2> DEFINE row == [tenant |-> t, role |-> "company_admin", status |-> "active"]
  <2>1. t \in Subdomains /\ e \in Emails /\ tenant[t] = None /\ user[e] = None
    BY <1>0, <1>5 DEF Commit, ReqOK, Onboarding
  <2>2. open[r] = {t, e}
    BY <1>0, <1>5 DEF Commit, Held
  <2>3. /\ req' = [req EXCEPT ![r] = Free] /\ open' = [open EXCEPT ![r] = {}]
        /\ tenant' = [tenant EXCEPT ![t] = "trial"]
        /\ user' = [user EXCEPT ![e] = row]
    BY <1>5 DEF Commit, Committed, End
  <2>4. row \in UserRows /\ row # None /\ row.tenant = t /\ row.role = "company_admin"
    BY <2>1, AccountsAssumption DEF UserRows, Roles, UserStatuses
  <2>5. "trial" \in TenantStatuses /\ "trial" # None
    BY AccountsAssumption DEF TenantStatuses
  <2> HIDE DEF t, e, row
  <2>6. RowsOK'
    BY <1>0, <2>1, <2>3, <2>4, <2>5 DEF RowsOK
  <2>7. /\ \A s \in Subdomains : tenant[s] # None => tenant'[s] # None
        /\ \A f \in Emails : user[f] # None => user'[f] # None
    BY <1>0, <2>1, <2>3, <2>4, <2>5 DEF RowsOK
  <2>8. \A q \in Requests \ {r} :
            /\ \A s \in open[q] \cap Subdomains : tenant'[s] = tenant[s]
            /\ \A f \in open[q] \cap Emails : user'[f] = user[f]
    BY <1>0, <2>1, <2>2, <2>3 DEF RowsOK, AccountsInv
  <2>9. TenantHasAdmin'
    <3>1. ASSUME NEW s \in Subdomains, tenant'[s] # None
          PROVE  \E f \in Emails : /\ user'[f] # None /\ user'[f].tenant = s
                                   /\ user'[f].role = "company_admin"
      <4>1. CASE s = t
        BY <1>0, <2>1, <2>3, <2>4, <4>1 DEF RowsOK
      <4>2. CASE s # t
        <5>1. tenant[s] # None
          BY <1>0, <2>3, <3>1, <4>2 DEF RowsOK
        <5>2. PICK f \in Emails : /\ user[f] # None /\ user[f].tenant = s
                                  /\ user[f].role = "company_admin"
          BY <1>0, <5>1 DEF TenantHasAdmin
        <5>3. user'[f] = user[f]
          BY <1>0, <2>1, <2>3, <5>2 DEF RowsOK
        <5> QED BY <5>2, <5>3
      <4> QED BY <4>1, <4>2
    <3>2. ASSUME NEW f \in Emails, user'[f] # None PROVE tenant'[user'[f].tenant] # None
      <4>1. CASE f = e
        <5>1. user'[f].tenant = t
          BY <1>0, <2>3, <2>4, <4>1 DEF RowsOK
        <5> QED BY <1>0, <2>1, <2>3, <2>5, <5>1 DEF RowsOK
      <4>2. CASE f # e
        <5>1. user'[f] = user[f] /\ user[f] \in UserRows
          BY <1>0, <2>3, <3>2, <4>2 DEF RowsOK
        <5>2. user[f].tenant \in Subdomains /\ tenant[user[f].tenant] # None
          BY <1>0, <3>2, <5>1 DEF TenantHasAdmin, UserRows
        <5> QED BY <2>7, <5>1, <5>2
      <4> QED BY <4>1, <4>2
    <3> QED BY <3>1, <3>2 DEF TenantHasAdmin
  <2>10. ReqOK(r)'
    BY <1>0, <2>3, FreeRecord DEF ReqOK, Onboarding
  <2> QED BY <2>3, <2>6, <2>7, <2>8, <2>9, <2>10, FreeRecord, OthersKeep
<1> QED BY <1>1, <1>2, <1>3, <1>4, <1>5 DEF InsertTenant, InsertAdmin

\* A key in a transaction has no committed row.
LEMMA HeldKeysAreNew ==
  ASSUME AccountsInv, NEW q \in Requests
  PROVE  /\ \A t \in open[q] \cap Subdomains : tenant[t] = None
         /\ \A e \in open[q] \cap Emails : user[e] = None
<1>1. open[q] = Held(req[q]) /\ ReqOK(q)
  BY DEF AccountsInv
<1> QED BY <1>1, AccountsAssumption DEF Held, ReqOK, Onboarding

\* Invitations and changes of a status.
LEMMA UserSteps ==
  ASSUME AccountsInv, NEW r \in Requests, InsertUser(r) \/ DiffUser(r) \/ SaveUser(r)
  PROVE  AccountsInv'
<1>0. /\ RowsOK /\ TenantHasAdmin /\ ReqOK(r) /\ req \in [Requests -> ReqRecords]
      /\ req[r] \in ReqRecords
  BY DEF AccountsInv
<1> DEFINE e == req[r].email
<1>1. CASE InsertUser(r) /\ user[e] # None
  <2>1. req' = [req EXCEPT ![r] = Free] /\ UNCHANGED <<tenant, user, open>>
    BY <1>1 DEF InsertUser, End
  <2>2. open' = [open EXCEPT ![r] = {}]
    BY <1>1, <2>1, NoKeys DEF InsertUser
  <2>3. ReqOK(r)'
    BY <1>0, <2>1, FreeRecord DEF ReqOK, Onboarding
  <2> QED BY <2>1, <2>2, <2>3, FreeRecord, QuietStep
<1>2. CASE InsertUser(r) /\ user[e] = None
  <2> DEFINE row == [tenant |-> req[r].tenant, role |-> req[r].role, status |-> "invited"]
  <2>1. e \in Emails /\ ~HeldByOther(r, e)
    BY <1>0, <1>2 DEF InsertUser, ReqOK, Onboarding
  <2>2. /\ req' = [req EXCEPT ![r] = Free] /\ UNCHANGED <<tenant, open>>
        /\ user' = [user EXCEPT ![e] = row]
    BY <1>2 DEF InsertUser, End
  <2>3. open' = [open EXCEPT ![r] = {}]
    BY <1>2, <2>2, NoKeys DEF InsertUser
  <2>4. /\ row \in UserRows /\ row # None /\ row.tenant \in Subdomains
        /\ tenant[row.tenant] # None
    BY <1>0, <1>2, AccountsAssumption DEF InsertUser, ReqOK, ReqRecords, UserRows, UserStatuses
  <2> HIDE DEF e, row
  <2>5. RowsOK'
    BY <1>0, <2>1, <2>2, <2>4 DEF RowsOK
  <2>6. \A f \in Emails : user[f] # None => user'[f] = user[f]
    BY <1>0, <1>2, <2>1, <2>2 DEF RowsOK
  <2>6a. /\ \A f \in Emails : user[f] # None => user'[f] # None
         /\ \A s \in Subdomains : tenant[s] # None => tenant'[s] # None
    BY <2>2, <2>6
  <2>7. \A q \in Requests \ {r} :
            /\ \A s \in open[q] \cap Subdomains : tenant'[s] = tenant[s]
            /\ \A f \in open[q] \cap Emails : user'[f] = user[f]
    BY <1>0, <2>1, <2>2 DEF RowsOK, HeldByOther
  <2>8. TenantHasAdmin'
    <3>1. ASSUME NEW s \in Subdomains, tenant'[s] # None
          PROVE  \E f \in Emails : /\ user'[f] # None /\ user'[f].tenant = s
                                   /\ user'[f].role = "company_admin"
      <4>1. PICK f \in Emails : /\ user[f] # None /\ user[f].tenant = s
                                /\ user[f].role = "company_admin"
        BY <1>0, <2>2, <3>1 DEF TenantHasAdmin
      <4> QED BY <2>6, <4>1
    <3>2. ASSUME NEW f \in Emails, user'[f] # None PROVE tenant'[user'[f].tenant] # None
      <4>1. CASE f = e
        <5>1. user'[f] = row
          BY <1>0, <2>1, <2>2, <4>1 DEF RowsOK
        <5> QED BY <2>2, <2>4, <5>1
      <4>2. CASE f # e
        <5>1. user'[f] = user[f]
          BY <1>0, <2>2, <4>2 DEF RowsOK
        <5> QED BY <1>0, <2>2, <3>2, <5>1 DEF TenantHasAdmin
      <4> QED BY <4>1, <4>2
    <3> QED BY <3>1, <3>2 DEF TenantHasAdmin
  <2>9. ReqOK(r)'
    BY <1>0, <2>2, FreeRecord DEF ReqOK, Onboarding
  <2> QED BY <2>2, <2>3, <2>5, <2>6a, <2>7, <2>8, <2>9, FreeRecord, OthersKeep
<1>3. CASE DiffUser(r)
  <2> DEFINE k == [req[r] EXCEPT !.step = "save_user", !.seen = user[e].status]
  <2>1. e \in Emails /\ user[e] \in UserRows /\ user[e] # None /\ req[r].new \in UserStatuses
    BY <1>0, <1>3 DEF DiffUser, ReqOK, RowsOK
  <2>2. k \in ReqRecords /\ Held(k) = {}
    BY <1>0, <2>1 DEF ReqRecords, ReqSteps, Values, UserRows, Held
  <2>3. k.step = "save_user" /\ k.email = e /\ k.new = req[r].new
    BY <1>0 DEF ReqRecords
  <2>4. req' = [req EXCEPT ![r] = k] /\ UNCHANGED <<tenant, user, open>>
    BY <1>0, <1>3 DEF DiffUser
  <2>5. open' = [open EXCEPT ![r] = {}]
    BY <1>3, <2>4, NoKeys DEF DiffUser
  <2> HIDE DEF k
  <2>6. ReqOK(r)'
    BY <1>0, <2>1, <2>3, <2>4 DEF ReqOK, Onboarding
  <2> QED BY <2>2, <2>4, <2>5, <2>6, QuietStep
<1>4. CASE SaveUser(r)
  <2> DEFINE row == [user[e] EXCEPT !.status = req[r].new]
  <2>1. e \in Emails /\ user[e] \in UserRows /\ user[e] # None /\ req[r].new \in UserStatuses
    BY <1>0, <1>4 DEF SaveUser, ReqOK, RowsOK
  <2>2. /\ req' = [req EXCEPT ![r] = Free] /\ UNCHANGED <<tenant, open>>
        /\ user' = user \/ user' = [user EXCEPT ![e] = row]
    BY <1>4 DEF SaveUser, End
  <2>3. open' = [open EXCEPT ![r] = {}]
    BY <1>4, <2>2, NoKeys DEF SaveUser
  <2>4. /\ row \in UserRows /\ row # None
        /\ row.tenant = user[e].tenant /\ row.role = user[e].role
    BY <2>1, AccountsAssumption DEF UserRows
  <2> HIDE DEF e, row
  <2>5. RowsOK'
    BY <1>0, <2>1, <2>2, <2>4 DEF RowsOK
  <2>6. \A f \in Emails : /\ user[f] # None <=> user'[f] # None
                          /\ user'[f].tenant = user[f].tenant /\ user'[f].role = user[f].role
    BY <1>0, <2>1, <2>2, <2>4 DEF RowsOK
  <2>6a. /\ \A f \in Emails : user[f] # None => user'[f] # None
         /\ \A s \in Subdomains : tenant[s] # None => tenant'[s] # None
    BY <2>2, <2>6
  <2>7. ASSUME NEW q \in Requests \ {r}
        PROVE  /\ \A s \in open[q] \cap Subdomains : tenant'[s] = tenant[s]
               /\ \A f \in open[q] \cap Emails : user'[f] = user[f]
    <3>1. \A f \in open[q] \cap Emails : f # e
      BY <2>1, HeldKeysAreNew
    <3> QED BY <1>0, <2>2, <3>1 DEF RowsOK
  <2>8. TenantHasAdmin'
    BY <1>0, <2>2, <2>6 DEF TenantHasAdmin
  <2>9. ReqOK(r)'
    BY <1>0, <2>2, FreeRecord DEF ReqOK, Onboarding
  <2> QED BY <2>2, <2>3, <2>5, <2>6a, <2>7, <2>8, <2>9, FreeRecord, OthersKeep
<1> QED BY <1>1, <1>2, <1>3, <1>4

\* Other settings of a tenant, and errors.
LEMMA SettingsSteps ==
  ASSUME AccountsInv, NEW r \in Requests, DiffTenant(r) \/ SaveTenant(r) \/ Abort(r)
  PROVE  AccountsInv'
<1>0. /\ RowsOK /\ TenantHasAdmin /\ ReqOK(r) /\ req \in [Requests -> ReqRecords]
      /\ req[r] \in ReqRecords
  BY DEF AccountsInv
<1> DEFINE t == req[r].tenant
<1>1. CASE DiffTenant(r)
  <2> DEFINE k == [req[r] EXCEPT !.step = "save_tenant", !.seen = tenant[t]]
  <2>1. t \in Subdomains /\ tenant[t] # None /\ req[r].new \in TenantStatuses
    BY <1>0, <1>1 DEF DiffTenant, ReqOK
  <2>1a. tenant[t] \in Values
    BY <1>0, <2>1 DEF RowsOK, Values
  <2>2. k \in ReqRecords /\ Held(k) = {}
    BY <1>0, <2>1a DEF ReqRecords, ReqSteps, Held
  <2>3. k.step = "save_tenant" /\ k.tenant = t /\ k.new = req[r].new
    BY <1>0 DEF ReqRecords
  <2>4. req' = [req EXCEPT ![r] = k] /\ UNCHANGED <<tenant, user, open>>
    BY <1>0, <1>1 DEF DiffTenant
  <2>5. open' = [open EXCEPT ![r] = {}]
    BY <1>1, <2>4, NoKeys DEF DiffTenant
  <2> HIDE DEF k
  <2>6. ReqOK(r)'
    BY <1>0, <2>1, <2>3, <2>4 DEF ReqOK, Onboarding
  <2> QED BY <2>2, <2>4, <2>5, <2>6, QuietStep
<1>2. CASE SaveTenant(r)
  <2>1. t \in Subdomains /\ tenant[t] # None /\ req[r].new \in TenantStatuses
    BY <1>0, <1>2 DEF SaveTenant, ReqOK
  <2>2. /\ req' = [req EXCEPT ![r] = Free] /\ UNCHANGED <<user, open>>
        /\ tenant' = tenant \/ tenant' = [tenant EXCEPT ![t] = req[r].new]
    BY <1>2 DEF SaveTenant, End
  <2>3. open' = [open EXCEPT ![r] = {}]
    BY <1>2, <2>2, NoKeys DEF SaveTenant
  <2>4. req[r].new # None
    BY <2>1, AccountsAssumption
  <2> HIDE DEF t
  <2>5. RowsOK'
    BY <1>0, <2>1, <2>2 DEF RowsOK
  <2>6. \A s \in Subdomains : tenant[s] # None <=> tenant'[s] # None
    BY <1>0, <2>1, <2>2, <2>4 DEF RowsOK
  <2>6a. /\ \A f \in Emails : user[f] # None => user'[f] # None
         /\ \A s \in Subdomains : tenant[s] # None => tenant'[s] # None
    BY <2>2, <2>6
  <2>7. ASSUME NEW q \in Requests \ {r}
        PROVE  /\ \A s \in open[q] \cap Subdomains : tenant'[s] = tenant[s]
               /\ \A f \in open[q] \cap Emails : user'[f] = user[f]
    <3>1. \A s \in open[q] \cap Subdomains : s # t
      BY <2>1, HeldKeysAreNew
    <3> QED BY <1>0, <2>2, <3>1 DEF RowsOK
  <2>8. TenantHasAdmin'
    <3>1. \A f \in Emails : user[f] # None => user[f].tenant \in Subdomains
      BY <1>0 DEF RowsOK, UserRows
    <3> QED BY <1>0, <2>2, <2>6, <3>1 DEF TenantHasAdmin
  <2>9. ReqOK(r)'
    BY <1>0, <2>2, FreeRecord DEF ReqOK, Onboarding
  <2> QED BY <2>2, <2>3, <2>5, <2>6a, <2>7, <2>8, <2>9, FreeRecord, OthersKeep
<1>3. CASE Abort(r)
  <2>1. /\ req' = [req EXCEPT ![r] = Free] /\ open' = [open EXCEPT ![r] = {}]
        /\ UNCHANGED <<tenant, user>>
    BY <1>3 DEF Abort, End
  <2>2. ReqOK(r)'
    BY <1>0, <2>1, FreeRecord DEF ReqOK, Onboarding
  <2> QED BY <2>1, <2>2, FreeRecord, QuietStep
<1> QED BY <1>1, <1>2, <1>3

\* Every step of the accounts, and those of the pages, which leave them alone.
LEMMA AccountsSteps == AccountsInv /\ [Next]_vars => AccountsInv'
<1>1. ASSUME AccountsInv, NEW r \in Requests, Progress(r) \/ Arrival(r) \/ Abort(r)
      PROVE  AccountsInv'
  BY <1>1, ArrivalStep, TenantSteps, UserSteps, SettingsSteps DEF Progress
<1>2. ASSUME AccountsInv, UNCHANGED accountVars PROVE AccountsInv'
  BY <1>2 DEF accountVars, AccountsInv, RowsOK, ReqOK, TenantHasAdmin
<1> QED BY <1>1, <1>2 DEF Next, AccountsStep, vars

\* The inductive invariant of the accounts, in the composed system.
LEMMA AccountsInvariant == Spec => []AccountsInv
<1>1. Init => AccountsInv
  BY AccountsStart DEF Init
<1> QED BY <1>1, AccountsSteps, PTL DEF Spec

\* Whatever requests overlap and wherever they fail, a tenant has a company
\* admin and an account has a tenant (onboard(), invite(), setStatus()).
THEOREM TenantsHaveAdmins == Spec => []TenantHasAdmin
<1>1. AccountsInv => TenantHasAdmin
  BY DEF AccountsInv
<1> QED BY <1>1, AccountsInvariant, PTL

\* Inserts wait for the indexes of subdomains and emails, and never in a
\* circle: onboard() takes the two keys in one order.
THEOREM NoCircleOfWaits == Spec => []NobodyWaitsInACircle
<1>1. AccountsInv => NobodyWaitsInACircle
  <2> SUFFICES ASSUME AccountsInv, NEW r \in Requests, Waits(r)
               PROVE  \E s \in Requests : req[s].step # "free" /\ open[s] # {} /\ ~Waits(s)
    BY DEF NobodyWaitsInACircle
  <2>0. \A q \in Requests : open[q] = Held(req[q]) /\ ReqOK(q)
    BY DEF AccountsInv
  <2>1. ASSUME NEW q \in Requests, req[q].step = "commit"
        PROVE  req[q].step # "free" /\ open[q] # {} /\ ~Waits(q)
    BY <2>0, <2>1 DEF Held, Waits
  <2>2. ASSUME NEW q \in Requests, NEW e \in Emails, HeldByOther(q, e)
        PROVE  \E s \in Requests : req[s].step # "free" /\ open[s] # {} /\ ~Waits(s)
    <3>1. PICK s \in Requests : e \in open[s]
      BY <2>2 DEF HeldByOther
    <3>2. req[s].step = "commit"
      <4>1. open[s] = Held(req[s]) /\ ReqOK(s)
        BY <2>0
      <4>2. req[s].step = "insert_admin" => req[s].tenant # e
        BY <4>1, AccountsAssumption DEF ReqOK, Onboarding
      <4> QED BY <3>1, <4>1, <4>2 DEF Held
    <3> QED BY <2>1, <3>2
  <2>3. ASSUME NEW q \in Requests, req[q].step = "insert_admin"
        PROVE  \E s \in Requests : req[s].step # "free" /\ open[s] # {} /\ ~Waits(s)
    <3>1. req[q].email \in Emails /\ open[q] # {}
      BY <2>0, <2>3 DEF ReqOK, Onboarding, Held
    <3>2. CASE HeldByOther(q, req[q].email)
      BY <2>2, <3>1, <3>2
    <3>3. CASE ~HeldByOther(q, req[q].email)
      BY <2>3, <3>1, <3>3 DEF Waits
    <3> QED BY <3>2, <3>3
  <2>4. CASE req[r].step \in {"insert_admin", "insert_user"}
    <3>1. req[r].email \in Emails /\ HeldByOther(r, req[r].email)
      BY <2>0, <2>4 DEF ReqOK, Onboarding, Waits
    <3> QED BY <2>2, <3>1
  <2>5. CASE req[r].step = "insert_tenant" /\ HeldByOther(r, req[r].tenant)
    <3>1. PICK s \in Requests : req[r].tenant \in open[s]
      BY <2>5 DEF HeldByOther
    <3>2. req[s].step \in {"insert_admin", "commit"}
      BY <2>0, <3>1 DEF Held
    <3> QED BY <2>1, <2>3, <3>2
  <2> QED BY <2>4, <2>5 DEF Waits
<1> QED BY <1>1, AccountsInvariant, PTL

-----------------------------------------------------------------------------
(* Pages and deliveries.                                                   *)

LinkRecords == [step : LinkSteps, tenant : Subdomains \cup {None}, method : Methods,
                page : Pages \cup {None}]

\* A request between its calls knows its tenant and its page.
LinkOK(r) ==
    /\ linking[r].step # "free" => linking[r].tenant \in Subdomains
    /\ linking[r].step \in {"owner", "upsert", "subscribe"} => linking[r].page \in Pages

LinksInv ==
    /\ conn \in [Subdomains -> Connections \cup {None}]
    /\ hooked \subseteq Pages
    /\ linking \in [Requests -> LinkRecords]
    /\ \A r \in Requests : LinkOK(r)

\* What a delivery has stored so far and what it has left make up the whole.
Balanced(d) ==
    /\ delivery[d].step = "storing" =>
           /\ delivery[d].tenant \in Subdomains /\ delivery[d].left > 0
           /\ leads[d][delivery[d].tenant] + delivery[d].left >= Messages
    /\ (delivery[d].step = "accepted" /\ delivery[d].tenant # None) =>
           /\ delivery[d].tenant \in Subdomains
           /\ leads[d][delivery[d].tenant] >= Messages

DeliveriesInv ==
    /\ delivery \in [Deliveries -> DeliveryRecords]
    /\ leads \in [Deliveries -> [Subdomains -> Nat]]
    /\ \A d \in Deliveries : Balanced(d)

\* No tenant and no connection is None.
LEMMA RowsAreNotNone == None \notin Subdomains /\ None \notin Pages
  BY AccountsAssumption, FacebookAssumption

\* A request that goes on leaves the others' steps.
LEMMA LinkGoesOn ==
  ASSUME LinksInv, NEW r \in Requests, NEW l \in LinkRecords,
         linking' = [linking EXCEPT ![r] = l],
         conn' \in [Subdomains -> Connections \cup {None}], hooked' \subseteq Pages,
         l.step # "free" => l.tenant \in Subdomains,
         l.step \in {"owner", "upsert", "subscribe"} => l.page \in Pages
  PROVE  LinksInv'
BY DEF LinksInv, LinkOK

\* A request that is over.
LEMMA UnlinkedRecord == Unlinked \in LinkRecords /\ Unlinked.step = "free"
  BY DEF Unlinked, LinkRecords, LinkSteps, Methods

\* connectByo(), handleOAuthCallback(), disconnect().
LEMMA LinkingSteps ==
  ASSUME LinksInv, NEW r \in Requests, LinkStep(r)
  PROVE  LinksInv'
<1>0. /\ conn \in [Subdomains -> Connections \cup {None}] /\ hooked \subseteq Pages
      /\ linking \in [Requests -> LinkRecords] /\ linking[r] \in LinkRecords /\ LinkOK(r)
  BY DEF LinksInv
<1>1. ASSUME NEW t \in Subdomains, NEW p \in Pages, ConnectByo(r, t, p) \/ OAuthCallback(r, t, p)
      PROVE  LinksInv'
  <2> DEFINE l == [step |-> "owner", tenant |-> t, method |-> "byo_app", page |-> p]
             m == [step |-> "upsert", tenant |-> t, method |-> "oauth_shared_app", page |-> p]
  <2>1. l \in LinkRecords /\ l.tenant = t /\ l.page = p
    BY DEF LinkRecords, LinkSteps, Methods
  <2>2. m \in LinkRecords /\ m.tenant = t /\ m.page = p
    BY DEF LinkRecords, LinkSteps, Methods
  <2>3. /\ linking' = [linking EXCEPT ![r] = l] \/ linking' = [linking EXCEPT ![r] = m]
        /\ UNCHANGED <<conn, hooked>>
    BY <1>1 DEF ConnectByo, OAuthCallback
  <2> HIDE DEF l, m
  <2> QED BY <1>0, <2>1, <2>2, <2>3, LinkGoesOn
<1>2. CASE CheckOwner(r)
  <2> DEFINE l == [linking[r] EXCEPT !.step = "upsert"]
  <2>1. l \in LinkRecords /\ l.step = "upsert" /\ l.tenant = linking[r].tenant
        /\ l.page = linking[r].page
    BY <1>0 DEF LinkRecords, LinkSteps
  <2>2. /\ linking' = [linking EXCEPT ![r] = l] \/ linking' = [linking EXCEPT ![r] = Unlinked]
        /\ UNCHANGED <<conn, hooked>> /\ linking[r].step = "owner"
    BY <1>0, <1>2 DEF CheckOwner
  <2> HIDE DEF l
  <2>3. l.tenant \in Subdomains /\ l.page \in Pages
    BY <1>0, <2>1, <2>2 DEF LinkOK
  <2>4. CASE linking' = [linking EXCEPT ![r] = l]
    BY <1>0, <2>1, <2>2, <2>3, <2>4, LinkGoesOn
  <2>5. CASE linking' = [linking EXCEPT ![r] = Unlinked]
    BY <1>0, <2>2, <2>5, UnlinkedRecord, LinkGoesOn
  <2> QED BY <2>2, <2>4, <2>5
<1>3. CASE Upsert(r)
  <2> DEFINE l == [linking[r] EXCEPT !.step = "subscribe"]
             row == [method |-> linking[r].method, page |-> linking[r].page]
  <2>1. l \in LinkRecords /\ l.step = "subscribe" /\ l.tenant = linking[r].tenant
        /\ l.page = linking[r].page
    BY <1>0 DEF LinkRecords, LinkSteps
  <2>2. /\ linking' = [linking EXCEPT ![r] = l] \/ linking' = [linking EXCEPT ![r] = Unlinked]
        /\ conn' = conn \/ conn' = [conn EXCEPT ![linking[r].tenant] = row]
        /\ UNCHANGED hooked /\ linking[r].step = "upsert"
    BY <1>0, <1>3 DEF Upsert, AfterUpsert, Unlink
  <2>3. l.tenant \in Subdomains /\ l.page \in Pages /\ row \in Connections
    BY <1>0, <2>1, <2>2 DEF LinkOK, Connections, LinkRecords
  <2> HIDE DEF l, row
  <2>4. conn' \in [Subdomains -> Connections \cup {None}]
    BY <1>0, <2>2, <2>3
  <2>5. CASE linking' = [linking EXCEPT ![r] = l]
    BY <1>0, <2>1, <2>2, <2>3, <2>4, <2>5, LinkGoesOn
  <2>6. CASE linking' = [linking EXCEPT ![r] = Unlinked]
    BY <1>0, <2>2, <2>4, <2>6, UnlinkedRecord, LinkGoesOn
  <2> QED BY <2>2, <2>5, <2>6
<1>4. ASSUME NEW works \in BOOLEAN, Subscribe(r, works) PROVE LinksInv'
  <2>1. hooked' \subseteq Pages /\ conn' = conn /\ linking' = [linking EXCEPT ![r] = Unlinked]
    BY <1>0, <1>4 DEF Subscribe, Unlink, LinkOK
  <2> QED BY <1>0, <2>1, UnlinkedRecord, LinkGoesOn
<1>5. ASSUME NEW t \in Subdomains, Disconnect(r, t) PROVE LinksInv'
  <2> DEFINE l == [Unlinked EXCEPT !.step = "delete", !.tenant = t]
  <2>1. l \in LinkRecords /\ l.tenant = t /\ l.step = "delete"
    BY DEF Unlinked, LinkRecords, LinkSteps, Methods
  <2>2. linking' = [linking EXCEPT ![r] = l] /\ UNCHANGED <<conn, hooked>>
    BY <1>5 DEF Disconnect
  <2> HIDE DEF l
  <2> QED BY <1>0, <2>1, <2>2, LinkGoesOn
<1>6. CASE DeleteConnection(r) \/ AbortLink(r)
  <2>1. /\ conn' \in [Subdomains -> Connections \cup {None}] /\ UNCHANGED hooked
        /\ linking' = [linking EXCEPT ![r] = Unlinked]
    BY <1>0, <1>6 DEF DeleteConnection, AbortLink, Unlink
  <2> QED BY <1>0, <2>1, UnlinkedRecord, LinkGoesOn
<1> QED BY <1>1, <1>2, <1>3, <1>4, <1>5, <1>6 DEF LinkStep

\* Only connecting and disconnecting change a connection, and deliveries
\* change nothing but their rows.
LEMMA LinksSteps == LinksInv /\ [Next]_vars => LinksInv'
<1>1. ASSUME LinksInv, UNCHANGED <<conn, hooked, linking>> PROVE LinksInv'
  BY <1>1 DEF LinksInv, LinkOK
<1>2. ASSUME NEW d \in Deliveries, DeliveryStep(d) PROVE UNCHANGED <<conn, hooked, linking>>
  BY <1>2 DEF DeliveryStep, Receive, StoreLead, StoreFails, MetaGivesUp
<1> QED BY <1>1, <1>2, LinkingSteps DEF Next, FacebookStep, fbVars, vars

\* The one delivery that moves, and the others that do not.
LEMMA DeliveryGoesOn ==
  ASSUME DeliveriesInv, NEW d \in Deliveries, NEW k \in DeliveryRecords,
         delivery' = [delivery EXCEPT ![d] = k],
         leads' \in [Deliveries -> [Subdomains -> Nat]],
         \A e \in Deliveries \ {d} : leads'[e] = leads[e],
         Balanced(d)'
  PROVE  DeliveriesInv'
<1>1. delivery' \in [Deliveries -> DeliveryRecords]
  BY DEF DeliveriesInv
<1>2. ASSUME NEW e \in Deliveries \ {d} PROVE Balanced(e)'
  BY DEF DeliveriesInv, Balanced
<1> QED BY <1>1, <1>2 DEF DeliveriesInv

\* receive() and processEvent().
LEMMA DeliverySteps ==
  ASSUME DeliveriesInv, NEW d \in Deliveries, DeliveryStep(d)
  PROVE  DeliveriesInv'
<1>0. /\ delivery \in [Deliveries -> DeliveryRecords] /\ delivery[d] \in DeliveryRecords
      /\ leads \in [Deliveries -> [Subdomains -> Nat]] /\ Balanced(d)
      /\ Messages \in Nat \ {0} /\ MaxTries \in Nat /\ None \notin Subdomains
  BY FacebookAssumption, RowsAreNotNone DEF DeliveriesInv
<1>1. CASE Receive(d)
  <2>1. PICK step \in {"storing", "accepted", "waiting"}, to \in Subdomains \cup {None} :
            /\ Posted(d, step, to)
            /\ step = "storing" => to \in Subdomains
            /\ step # "storing" => to = None
    BY <1>1 DEF Receive, Owner
  <2> DEFINE k == [step |-> step, tenant |-> to, left |-> Messages,
                   tries |-> delivery[d].tries + 1]
  <2>2. delivery[d].tries < MaxTries /\ UNCHANGED leads
    BY <1>1 DEF Receive, MetaPosts
  <2>3. delivery[d].tries + 1 \in 0..MaxTries
    BY <1>0, <2>2 DEF DeliveryRecords
  <2>4. k \in DeliveryRecords /\ k.step = step /\ k.tenant = to /\ k.left = Messages
    BY <1>0, <2>3 DEF DeliveryRecords
  <2>5. delivery' = [delivery EXCEPT ![d] = k]
    BY <1>0, <2>1 DEF Posted
  <2> HIDE DEF k
  <2>6. Balanced(d)'
    BY <1>0, <2>1, <2>2, <2>4, <2>5 DEF Balanced
  <2> QED BY <1>0, <2>2, <2>4, <2>5, <2>6, DeliveryGoesOn
<1>2. CASE StoreLead(d)
  <2> DEFINE to == delivery[d].tenant
             more == delivery[d].left > 1
             k == [delivery[d] EXCEPT !.left = @ - 1,
                                      !.step = IF more THEN "storing" ELSE "accepted"]
             rows == [leads[d] EXCEPT ![to] = @ + 1]
  <2>1. /\ to \in Subdomains /\ delivery[d].left \in 1..Messages
        /\ leads[d][to] + delivery[d].left >= Messages /\ leads[d] \in [Subdomains -> Nat]
    BY <1>0, <1>2 DEF StoreLead, Balanced, DeliveryRecords
  <2>2. delivery[d].left - 1 \in 0..Messages
    BY <1>0, <2>1
  <2>3. /\ k \in DeliveryRecords /\ k.tenant = to /\ k.left = delivery[d].left - 1
        /\ k.step = IF more THEN "storing" ELSE "accepted"
    BY <1>0, <2>2 DEF DeliveryRecords
  <2>4. delivery' = [delivery EXCEPT ![d] = k] /\ leads' = [leads EXCEPT ![d] = rows]
    BY <1>0, <1>2 DEF StoreLead
  <2>5. rows \in [Subdomains -> Nat] /\ rows[to] = leads[d][to] + 1
    BY <2>1
  <2>6. more => k.left > 0
    BY <1>0, <2>1, <2>3
  <2>7. rows[to] + k.left >= Messages /\ (~more => rows[to] >= Messages)
    BY <1>0, <2>1, <2>3, <2>5
  <2> HIDE DEF to, more, k, rows
  <2>8. leads' \in [Deliveries -> [Subdomains -> Nat]] /\ leads'[d] = rows
        /\ \A e \in Deliveries \ {d} : leads'[e] = leads[e]
    BY <1>0, <2>4, <2>5
  <2>9. delivery'[d] = k
    BY <1>0, <2>4
  <2>10. Balanced(d)'
    BY <2>1, <2>3, <2>6, <2>7, <2>8, <2>9 DEF Balanced
  <2> QED BY <2>3, <2>4, <2>8, <2>10, DeliveryGoesOn
<1>3. CASE StoreFails(d) \/ MetaGivesUp(d)
  <2>1. PICK k \in DeliveryRecords :
            /\ delivery' = [delivery EXCEPT ![d] = k] /\ k.step \in {"waiting", "given_up"}
    <3>1. CASE StoreFails(d)
      <4> DEFINE k == [delivery[d] EXCEPT !.step = "waiting", !.left = 0, !.tenant = None]
      <4>0. 0 \in 0..Messages
        BY <1>0
      <4>1. k \in DeliveryRecords /\ k.step = "waiting"
        BY <1>0, <4>0 DEF DeliveryRecords
      <4>2. delivery' = [delivery EXCEPT ![d] = k]
        BY <1>0, <3>1 DEF StoreFails
      <4> QED BY <4>1, <4>2
    <3>2. CASE MetaGivesUp(d)
      <4> DEFINE k == [delivery[d] EXCEPT !.step = "given_up"]
      <4>1. k \in DeliveryRecords /\ k.step = "given_up"
        BY <1>0 DEF DeliveryRecords
      <4>2. delivery' = [delivery EXCEPT ![d] = k]
        BY <1>0, <3>2 DEF MetaGivesUp
      <4> QED BY <4>1, <4>2
    <3> QED BY <1>3, <3>1, <3>2
  <2>2. UNCHANGED leads
    BY <1>3 DEF StoreFails, MetaGivesUp
  <2>3. Balanced(d)'
    BY <1>0, <2>1 DEF Balanced
  <2> QED BY <1>0, <2>1, <2>2, <2>3, DeliveryGoesOn
<1> QED BY <1>1, <1>2, <1>3 DEF DeliveryStep

\* Connecting leaves the deliveries, as the accounts do.
LEMMA DeliveriesSteps == DeliveriesInv /\ [Next]_vars => DeliveriesInv'
<1>1. ASSUME DeliveriesInv, UNCHANGED <<delivery, leads>> PROVE DeliveriesInv'
  BY <1>1 DEF DeliveriesInv, Balanced
<1>2. ASSUME NEW r \in Requests, LinkStep(r) PROVE UNCHANGED <<delivery, leads>>
  BY <1>2 DEF LinkStep, ConnectByo, OAuthCallback, CheckOwner, Upsert, Subscribe, Disconnect,
              DeleteConnection, AbortLink
<1> QED BY <1>1, <1>2, DeliverySteps DEF Next, FacebookStep, fbVars, vars

\* The inductive invariant of pages and deliveries, in the composed system.
LEMMA PagesInvariant == Spec => [](LinksInv /\ DeliveriesInv)
<1>1. Init => LinksInv /\ DeliveriesInv
  <2> SUFFICES ASSUME FacebookInit PROVE LinksInv /\ DeliveriesInv
    BY DEF Init
  <2>1. LinksInv
    BY UnlinkedRecord DEF FacebookInit, LinksInv, LinkOK
  <2>2. DeliveriesInv
    <3> DEFINE k == [step |-> "waiting", tenant |-> None, left |-> 0, tries |-> 0]
    <3>0. 0 \in 0..Messages /\ 0 \in 0..MaxTries
      BY FacebookAssumption
    <3>1. k \in DeliveryRecords /\ k.step = "waiting"
      BY <3>0 DEF DeliveryRecords
    <3>2. delivery = [d \in Deliveries |-> k]
      BY DEF FacebookInit
    <3> HIDE DEF k
    <3>3. leads \in [Deliveries -> [Subdomains -> Nat]]
      BY DEF FacebookInit
    <3>4. \A d \in Deliveries : Balanced(d)
      BY <3>1, <3>2 DEF Balanced
    <3> QED BY <3>1, <3>2, <3>3, <3>4 DEF DeliveriesInv
  <2> QED BY <2>1, <2>2
<1> QED BY <1>1, LinksSteps, DeliveriesSteps, PTL DEF Spec

\* Tenants, accounts, connections, requests and deliveries keep their types.
THEOREM FacebookTypeCorrect == Spec => []FacebookTypeOK
<1>1. AccountsInv /\ LinksInv /\ DeliveriesInv => FacebookTypeOK
  BY AccountsTypes DEF LinksInv, LinkRecords, DeliveriesInv, Balanced, FacebookTypeOK
<1> QED BY <1>1, AccountsInvariant, PagesInvariant, PTL

\* What Meta is told to stop repeating was stored in full, although a failed
\* post stores again what it had stored (receive()).
THEOREM AcceptedDeliveriesAreStored == Spec => []AcceptedIsStored
<1>1. DeliveriesInv => AcceptedIsStored
  BY DEF DeliveriesInv, Balanced, AcceptedIsStored
<1> QED BY <1>1, PagesInvariant, PTL

\* A page has one owner at most.
OneOwner == \A p \in Pages, s, t \in Subdomains : (s \in Owner(p) /\ t \in Owner(p)) => s = t

\* The row of one tenant that a step writes, and whose call it is.
LEMMA ConnectionSteps ==
  ASSUME LinksInv, [Next]_vars, conn' # conn
  PROVE  \E r \in Requests :
            /\ linking[r].step \in {"upsert", "delete"} /\ linking'[r] # linking[r]
            /\ linking[r].tenant \in Subdomains
            /\ \A s \in Subdomains \ {linking[r].tenant} : conn'[s] = conn[s]
            /\ LET row == conn'[linking[r].tenant]
               IN  row = None \/ Owner(row.page) \subseteq {linking[r].tenant}
<1>0. PICK r \in Requests : LinkStep(r)
  BY DEF Next, FacebookStep, DeliveryStep, Receive, StoreLead, StoreFails, MetaGivesUp,
         fbVars, vars
<1>1. /\ conn \in [Subdomains -> Connections \cup {None}]
      /\ linking \in [Requests -> LinkRecords] /\ linking[r] \in LinkRecords /\ LinkOK(r)
  BY DEF LinksInv
<1>2. CASE Upsert(r)
  <2> DEFINE row == [method |-> linking[r].method, page |-> linking[r].page]
             t == linking[r].tenant
  <2>1. /\ linking[r].step = "upsert" /\ t \in Subdomains
        /\ Owner(linking[r].page) \subseteq {t}
        /\ conn' = [conn EXCEPT ![t] = row] /\ AfterUpsert(r)
    BY <1>1, <1>2 DEF Upsert, LinkOK
  <2>2. linking'[r].step # "upsert"
    BY <1>1, <2>1 DEF AfterUpsert, Unlinked, LinkRecords
  <2>3. conn'[t] = row /\ row.page = linking[r].page
    BY <1>1, <2>1
  <2>4. \A s \in Subdomains \ {t} : conn'[s] = conn[s]
    BY <1>1, <2>1
  <2> QED BY <2>1, <2>2, <2>3, <2>4
<1>3. CASE DeleteConnection(r)
  <2>1. /\ linking[r].step = "delete" /\ linking[r].tenant \in Subdomains
        /\ conn' = [conn EXCEPT ![linking[r].tenant] = None]
        /\ linking'[r] = Unlinked
    BY <1>1, <1>3 DEF DeleteConnection, LinkOK, Unlink
  <2>2. linking'[r] # linking[r]
    BY <2>1 DEF Unlinked
  <2> QED BY <1>1, <2>1, <2>2
<1> QED BY <1>0, <1>2, <1>3
     DEF LinkStep, ConnectByo, OAuthCallback, CheckOwner, Subscribe, Disconnect, AbortLink

\* The unique index keeps one owner, whatever calls overlap.
LEMMA OneOwnerInvariant == Spec => []OneOwner
<1>1. Init => OneOwner
  BY DEF Init, FacebookInit, OneOwner, Owner
<1>2. LinksInv /\ OneOwner /\ [Next]_vars => OneOwner'
  <2> SUFFICES ASSUME LinksInv, OneOwner, [Next]_vars, conn' # conn PROVE OneOwner'
    BY DEF OneOwner, Owner
  <2>1. PICK r \in Requests :
            /\ linking[r].tenant \in Subdomains
            /\ \A s \in Subdomains \ {linking[r].tenant} : conn'[s] = conn[s]
            /\ LET row == conn'[linking[r].tenant]
               IN  row = None \/ Owner(row.page) \subseteq {linking[r].tenant}
    BY ConnectionSteps
  <2> QED BY <2>1 DEF OneOwner, Owner
<1> QED BY <1>1, <1>2, PagesInvariant, PTL DEF Spec

\* A page keeps its owner until that tenant's own call lets it go, and never has
\* two (upsertConnection(), the unique index of fb_page_id, disconnect()).
THEOREM PagesAreNotTakenOver == Spec => PageIsNotTakenOver
<1>1. ASSUME LinksInv, OneOwner, [Next]_vars, NEW p \in Pages, Owner(p)' # Owner(p)
      PROVE  \/ Owner(p) = {} /\ \E t \in Subdomains : Owner(p)' = {t}
             \/ /\ Owner(p)' = {}
                /\ \E r \in Requests : /\ linking[r].step \in {"upsert", "delete"}
                                       /\ linking'[r] # linking[r]
                                       /\ Owner(p) = {linking[r].tenant}
  <2>1. conn' # conn
    BY <1>1 DEF Owner
  <2>2. PICK r \in Requests :
            /\ linking[r].step \in {"upsert", "delete"} /\ linking'[r] # linking[r]
            /\ linking[r].tenant \in Subdomains
            /\ \A s \in Subdomains \ {linking[r].tenant} : conn'[s] = conn[s]
            /\ LET row == conn'[linking[r].tenant]
               IN  row = None \/ Owner(row.page) \subseteq {linking[r].tenant}
    BY <1>1, <2>1, ConnectionSteps
  <2> DEFINE t == linking[r].tenant
  <2>3. CASE t \in Owner(p)'
    <3>1. t \notin Owner(p)
      BY <1>1, <2>2, <2>3 DEF Owner
    <3>2. Owner(p) \subseteq {t}
      BY <2>2, <2>3 DEF Owner
    <3>3. Owner(p) = {}
      BY <3>1, <3>2
    <3>4. Owner(p)' = {t}
      BY <2>2, <2>3, <3>3 DEF Owner
    <3> QED BY <2>2, <3>3, <3>4
  <2>4. CASE t \notin Owner(p)'
    <3>1. t \in Owner(p)
      BY <1>1, <2>2, <2>4 DEF Owner
    <3>2. Owner(p) = {t}
      BY <1>1, <3>1 DEF OneOwner, Owner
    <3>3. Owner(p)' = {}
      BY <2>2, <2>4, <3>2 DEF Owner
    <3> QED BY <2>2, <3>2, <3>3
  <2> QED BY <2>3, <2>4
<1>2. LinksInv /\ OneOwner /\ [Next]_vars =>
        [\A p \in Pages :
            \/ Owner(p)' = Owner(p)
            \/ Owner(p) = {} /\ \E t \in Subdomains : Owner(p)' = {t}
            \/ /\ Owner(p)' = {}
               /\ \E r \in Requests : /\ linking[r].step \in {"upsert", "delete"}
                                      /\ linking'[r] # linking[r]
                                      /\ Owner(p) = {linking[r].tenant}]_vars
  BY <1>1
<1> QED BY <1>2, PagesInvariant, OneOwnerInvariant, PTL DEF Spec, PageIsNotTakenOver
=============================================================================
