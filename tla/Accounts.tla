------------------------------- MODULE Accounts -------------------------------
(***************************************************************************)
(* The tenants of the platform and their staff accounts: onboarding by a   *)
(* transaction (tenants.service.ts), invitations and status changes        *)
(* (users.service.ts).  A tenant is its subdomain, an account its email:   *)
(* both have a unique index, whose inserts wait for the transaction that   *)
(* has inserted the same key and not ended.                                *)
(***************************************************************************)
EXTENDS Naturals, FiniteSets

CONSTANTS
    Subdomains,
    Emails,
    Requests,       \* requests in flight at a time
    Asked,          \* bound: statuses of a tenant that a super admin asks for
    Services,       \* bound: the handlers (and deliveries) that one behaviour uses
    None            \* no tenant, no row, no value

VARIABLES
    serving,        \* bound: the handlers in use, chosen from Services
    tenant,         \* status of each committed tenant, or None
    user,           \* each committed account, or None
    open,           \* open[r]: the keys that request r's transaction inserted
    req             \* requests in flight

accountVars == <<serving, tenant, user, open, req>>

TenantStatuses == {"trial", "active", "suspended", "cancelled"}
UserStatuses == {"active", "invited", "disabled"}
Roles == {"company_admin", "staff", "agent"}

UserRows == [tenant : Subdomains, role : Roles, status : UserStatuses]

ReqSteps == {"free", "insert_tenant", "insert_admin", "commit", "insert_user",
             "diff_user", "save_user", "diff_tenant", "save_tenant"}

Values == TenantStatuses \cup UserStatuses \cup {None}

\* role: of the account to insert, or of who changes a tenant's settings.
ReqRecords == [step : ReqSteps, tenant : Subdomains \cup {None}, email : Emails \cup {None},
               role : Roles \cup {"super_admin"}, new : Values, seen : Values]

Free == [step |-> "free", tenant |-> None, email |-> None, role |-> "staff",
         new |-> None, seen |-> None]

ASSUME AccountsAssumption ==
    /\ None \notin Subdomains \cup Emails \cup TenantStatuses \cup UserStatuses \cup UserRows
    /\ Asked \subseteq TenantStatuses
    /\ Subdomains \cap Emails = {}      \* keys of two indexes

\* A transaction holds keys only while its request runs.
AccountsTypeOK ==
    /\ tenant \in [Subdomains -> TenantStatuses \cup {None}]
    /\ user \in [Emails -> UserRows \cup {None}]
    /\ req \in [Requests -> ReqRecords]
    /\ \A r \in Requests :
           open[r] = CASE req[r].step = "insert_admin" -> {req[r].tenant}
                       [] req[r].step = "commit" -> {req[r].tenant, req[r].email}
                       [] OTHER -> {}

HeldByOther(r, key) == \E s \in Requests \ {r} : key \in open[s]

End(r) == req' = [req EXCEPT ![r] = Free]

-----------------------------------------------------------------------------
(* onboard(): check the subdomain, then a transaction of two inserts.      *)

Onboard(r, s, e) ==
    /\ "onboard" \in serving
    /\ req[r] = Free
    /\ tenant[s] = None
    /\ req' = [req EXCEPT ![r] = [Free EXCEPT !.step = "insert_tenant", !.tenant = s,
                                              !.email = e, !.role = "company_admin"]]
    /\ UNCHANGED <<serving, tenant, user, open>>

InsertTenant(r) ==
    LET s == req[r].tenant
    IN  /\ req[r].step = "insert_tenant"
        /\ ~HeldByOther(r, s)
        /\ IF tenant[s] = None
           THEN /\ open' = [open EXCEPT ![r] = {s}]
                /\ req' = [req EXCEPT ![r].step = "insert_admin"]
           ELSE End(r) /\ UNCHANGED open
        /\ UNCHANGED <<serving, tenant, user>>

InsertAdmin(r) ==
    LET e == req[r].email
    IN  /\ req[r].step = "insert_admin"
        /\ ~HeldByOther(r, e)
        /\ IF user[e] = None
           THEN /\ open' = [open EXCEPT ![r] = @ \cup {e}]
                /\ req' = [req EXCEPT ![r].step = "commit"]
           ELSE open' = [open EXCEPT ![r] = {}] /\ End(r)
        /\ UNCHANGED <<serving, tenant, user>>

\* The tenant's status is the column's default.
Committed(r) ==
    /\ tenant' = [tenant EXCEPT ![req[r].tenant] = "trial"]
    /\ user' = [user EXCEPT ![req[r].email] =
                   [tenant |-> req[r].tenant, role |-> "company_admin", status |-> "active"]]

Commit(r) ==
    /\ req[r].step = "commit"
    /\ Committed(r)
    /\ open' = [open EXCEPT ![r] = {}]
    /\ End(r)
    /\ UNCHANGED serving

\* Mutant: what was inserted before the error is kept.
KeepInserted(r) ==
    /\ req[r].step # "free"
    /\ tenant' = [s \in Subdomains |-> IF s \in open[r] THEN "trial" ELSE tenant[s]]
    /\ open' = [open EXCEPT ![r] = {}]
    /\ End(r)
    /\ UNCHANGED <<serving, user>>

\* Mutant: an error does not end the transaction.
LeaveOpen(r) ==
    /\ req[r].step # "free"
    /\ End(r)
    /\ UNCHANGED <<serving, tenant, user, open>>

\* A query throws or the process dies; the transaction is rolled back.
Abort(r) ==
    /\ req[r].step # "free"
    /\ open' = [open EXCEPT ![r] = {}]
    /\ End(r)
    /\ UNCHANGED <<serving, tenant, user>>

-----------------------------------------------------------------------------
(* invite() and setStatus() by a company admin, update() of a tenant.      *)

\* An active company admin, whose token names the tenant.
MayManage(s) == \E e \in Emails : user[e] # None /\ user[e].tenant = s
                                  /\ user[e].role = "company_admin" /\ user[e].status = "active"

\* The plan's staff limit is not asked for.
Invite(r, s, e, role) ==
    /\ "invite" \in serving
    /\ req[r] = Free
    /\ MayManage(s) /\ user[e] = None
    /\ req' = [req EXCEPT ![r] = [Free EXCEPT !.step = "insert_user", !.tenant = s,
                                              !.email = e, !.role = role]]
    /\ UNCHANGED <<serving, tenant, user, open>>

InsertUser(r) ==
    LET e == req[r].email
    IN  /\ req[r].step = "insert_user"
        /\ ~HeldByOther(r, e)
        /\ user' = IF user[e] # None THEN user
                   ELSE [user EXCEPT ![e] = [tenant |-> req[r].tenant, role |-> req[r].role,
                                             status |-> "invited"]]
        /\ End(r)
        /\ UNCHANGED <<serving, tenant, open>>

SetStatus(r, s, e, status) ==
    /\ "invite" \in serving
    /\ req[r] = Free
    /\ MayManage(s) /\ user[e] # None /\ user[e].tenant = s
    /\ req' = [req EXCEPT ![r] = [Free EXCEPT !.step = "diff_user", !.email = e,
                                              !.new = status]]
    /\ UNCHANGED <<serving, tenant, user, open>>

\* save(): SELECT, and an UPDATE if the status differs from what it read.
DiffUser(r) ==
    /\ req[r].step = "diff_user"
    /\ req' = [req EXCEPT ![r].step = "save_user", ![r].seen = user[req[r].email].status]
    /\ UNCHANGED <<serving, tenant, user, open>>

SaveUser(r) ==
    /\ req[r].step = "save_user"
    /\ user' = IF req[r].new = req[r].seen THEN user
               ELSE [user EXCEPT ![req[r].email].status = req[r].new]
    /\ End(r)
    /\ UNCHANGED <<serving, tenant, open>>

\* The whole row is loaded and what the body names is assigned.  A super admin
\* may name the status; a company admin's body has it deleted, and the loaded
\* one is saved with the rest.
UpdateTenant(r, s, role, status) ==
    /\ "update" \in serving
    /\ req[r] = Free
    /\ tenant[s] # None
    /\ role = "company_admin" => MayManage(s) /\ status = tenant[s]
    /\ req' = [req EXCEPT ![r] = [Free EXCEPT !.step = "diff_tenant", !.tenant = s,
                                              !.role = role, !.new = status]]
    /\ UNCHANGED <<serving, tenant, user, open>>

DiffTenant(r) ==
    /\ req[r].step = "diff_tenant"
    /\ req' = [req EXCEPT ![r].step = "save_tenant", ![r].seen = tenant[req[r].tenant]]
    /\ UNCHANGED <<serving, tenant, user, open>>

SaveTenant(r) ==
    /\ req[r].step = "save_tenant"
    /\ tenant' = IF req[r].new = req[r].seen THEN tenant
                 ELSE [tenant EXCEPT ![req[r].tenant] = req[r].new]
    /\ End(r)
    /\ UNCHANGED <<serving, user, open>>

-----------------------------------------------------------------------------
AccountsInit ==
    /\ serving \in Services
    /\ tenant = [s \in Subdomains |-> None]
    /\ user = [e \in Emails |-> None]
    /\ open = [r \in Requests |-> {}]
    /\ req = [r \in Requests |-> Free]

Progress(r) ==
    \/ InsertTenant(r) \/ InsertAdmin(r) \/ Commit(r)
    \/ InsertUser(r) \/ DiffUser(r) \/ SaveUser(r)
    \/ DiffTenant(r) \/ SaveTenant(r)

Arrival(r) ==
    \/ \E s \in Subdomains, e \in Emails :
        \/ Onboard(r, s, e)
        \/ \E role \in {"staff", "agent"} : Invite(r, s, e, role)
        \/ \E status \in {"active", "disabled"} : SetStatus(r, s, e, status)
    \/ \E s \in Subdomains, role \in {"super_admin", "company_admin"} :
           \E status \in Asked \cup {tenant[s]} : UpdateTenant(r, s, role, status)

AccountsStep == \E r \in Requests : Progress(r) \/ Arrival(r) \/ Abort(r)

-----------------------------------------------------------------------------
(* Properties.                                                             *)

\* Onboarding leaves a tenant and its company admin, or neither, whatever runs
\* beside it and wherever it fails; and no account belongs to a tenant that was
\* rolled back.
TenantHasAdmin ==
    /\ \A s \in Subdomains :
           tenant[s] # None => \E e \in Emails : /\ user[e] # None
                                                 /\ user[e].tenant = s
                                                 /\ user[e].role = "company_admin"
    /\ \A e \in Emails : user[e] # None => tenant[user[e].tenant] # None

\* Onboardings and invitations of one subdomain or one email wait for each
\* other in the indexes, and never in a circle: a key that a request waits for
\* is held by one that is running and waits for nothing.
Waits(r) ==
    \/ req[r].step = "insert_tenant" /\ HeldByOther(r, req[r].tenant)
    \/ req[r].step \in {"insert_admin", "insert_user"} /\ HeldByOther(r, req[r].email)

NobodyWaitsInACircle ==
    \A r \in Requests : Waits(r) =>
        \E s \in Requests : req[s].step # "free" /\ open[s] # {} /\ ~Waits(s)

\* Only a super admin changes the status of a tenant.  It fails: a company
\* admin's save of other settings writes the status it loaded back over one that
\* a super admin has set since, and so ends a suspension.
StatusIsSetBySuperAdmin ==
    [][\A s \in Subdomains :
           (tenant[s] # None /\ tenant'[s] # tenant[s]) =>
               \E r \in Requests : /\ req[r].step = "save_tenant" /\ req[r].tenant = s
                                   /\ req[r].role = "super_admin"
      ]_accountVars
=============================================================================
