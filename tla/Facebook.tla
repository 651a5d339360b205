------------------------------- MODULE Facebook -------------------------------
(***************************************************************************)
(* The Facebook Page of each tenant (facebook-connection.service.ts) and   *)
(* the messages Meta delivers to the webhook (facebook.controller.ts,      *)
(* facebook.service.ts).  A page's messages come from an app: the shared   *)
(* one, or the tenant's own, whose secret is stored with the connection.   *)
(* Connecting, disconnecting and receiving stop at every await.            *)
(***************************************************************************)
EXTENDS Accounts

CONSTANTS
    Pages,
    Deliveries,     \* deliveries of Meta: each is repeated until it is accepted
    PageOf,         \* the page of each delivery (of its first entry)
    OwnApp,         \* deliveries that the tenant's own app signs
    Messages,       \* text messages in a delivery
    MaxTries        \* bound on the times a delivery is posted

VARIABLES
    conn,           \* the row of each tenant in tenant_facebook_connections, or None
    hooked,         \* pages subscribed to the shared app's webhook
    linking,        \* requests that connect or disconnect, in flight
    delivery,       \* the deliveries
    leads           \* leads[d][t]: rows of fb_page_leads of tenant t from delivery d

fbVars == <<conn, hooked, linking, delivery, leads>>
vars == <<accountVars, fbVars>>

Methods == {"oauth_shared_app", "byo_app"}

Connections == [method : Methods, page : Pages]

ASSUME FacebookAssumption ==
    /\ PageOf \in [Deliveries -> Pages] /\ OwnApp \subseteq Deliveries
    /\ Messages \in Nat \ {0} /\ MaxTries \in Nat
    /\ None \notin Pages \cup Connections

LinkSteps == {"free", "owner", "upsert", "subscribe", "delete"}

Unlinked == [step |-> "free", tenant |-> None, method |-> "byo_app", page |-> None]

\* waiting: to be posted by Meta.  tenant: whom the post was resolved to.
DeliveryRecords == [step : {"waiting", "storing", "accepted", "given_up"},
                    tenant : Subdomains \cup {None}, left : 0..Messages, tries : 0..MaxTries]

FacebookTypeOK ==
    /\ AccountsTypeOK
    /\ conn \in [Subdomains -> Connections \cup {None}]
    /\ hooked \subseteq Pages
    /\ linking \in [Requests -> [step : LinkSteps, tenant : Subdomains \cup {None},
                                 method : Methods, page : Pages \cup {None}]]
    /\ delivery \in [Deliveries -> DeliveryRecords]
    /\ \A d \in Deliveries : delivery[d].step = "storing" => delivery[d].left > 0
    /\ leads \in [Deliveries -> [Subdomains -> Nat]]

Owner(p) == {t \in Subdomains : conn[t] # None /\ conn[t].page = p}

Unlink(r) == linking' = [linking EXCEPT ![r] = Unlinked]

-----------------------------------------------------------------------------
(* connectByo(), handleOAuthCallback(), disconnect().                      *)

\* The tenant has no connection yet.
ConnectByo(r, t, p) ==
    /\ "connect" \in serving
    /\ linking[r] = Unlinked
    /\ conn[t] = None
    /\ linking' = [linking EXCEPT ![r] = [step |-> "owner", tenant |-> t,
                                          method |-> "byo_app", page |-> p]]
    /\ UNCHANGED <<conn, hooked, delivery, leads>>

CheckOwner(r) ==
    /\ linking[r].step = "owner"
    /\ linking' = [linking EXCEPT ![r] =
                      IF Owner(@.page) \subseteq {@.tenant} THEN [@ EXCEPT !.step = "upsert"]
                                                            ELSE Unlinked]
    /\ UNCHANGED <<conn, hooked, delivery, leads>>

\* The code is exchanged and Meta lists the user's pages: the first is taken,
\* and neither the tenant's connection nor the page's owner is asked for.
OAuthCallback(r, t, p) ==
    /\ "connect" \in serving
    /\ linking[r] = Unlinked
    /\ linking' = [linking EXCEPT ![r] = [step |-> "upsert", tenant |-> t,
                                          method |-> "oauth_shared_app", page |-> p]]
    /\ UNCHANGED <<conn, hooked, delivery, leads>>

AfterUpsert(r) ==
    linking' = [linking EXCEPT ![r] =
                   IF @.method = "byo_app" THEN Unlinked ELSE [@ EXCEPT !.step = "subscribe"]]

\* Mutant: the unique index of fb_page_id is missing.
UpsertUnindexed(r) ==
    LET l == linking[r]
    IN  /\ l.step = "upsert"
        /\ conn' = [conn EXCEPT ![l.tenant] = [method |-> l.method, page |-> l.page]]
        /\ AfterUpsert(r)
        /\ UNCHANGED <<hooked, delivery, leads>>

\* The row of the tenant is inserted or replaced; a page that another tenant
\* has meets the unique index of fb_page_id, and the request fails.
Upsert(r) ==
    LET l == linking[r]
    IN  /\ l.step = "upsert"
        /\ IF Owner(l.page) \subseteq {l.tenant}
           THEN /\ conn' = [conn EXCEPT ![l.tenant] = [method |-> l.method, page |-> l.page]]
                /\ AfterUpsert(r)
           ELSE Unlink(r) /\ UNCHANGED conn
        /\ UNCHANGED <<hooked, delivery, leads>>

\* An error of the subscription is only logged.
Subscribe(r, works) ==
    /\ linking[r].step = "subscribe"
    /\ hooked' = IF works THEN hooked \cup {linking[r].page} ELSE hooked
    /\ Unlink(r)
    /\ UNCHANGED <<conn, delivery, leads>>

Disconnect(r, t) ==
    /\ "connect" \in serving
    /\ linking[r] = Unlinked
    /\ conn[t] # None
    /\ linking' = [linking EXCEPT ![r] = [Unlinked EXCEPT !.step = "delete", !.tenant = t]]
    /\ UNCHANGED <<conn, hooked, delivery, leads>>

\* The DELETE names the tenant, not the row that was found.
DeleteConnection(r) ==
    /\ linking[r].step = "delete"
    /\ conn' = [conn EXCEPT ![linking[r].tenant] = None]
    /\ Unlink(r)
    /\ UNCHANGED <<hooked, delivery, leads>>

AbortLink(r) ==
    /\ linking[r].step # "free"
    /\ Unlink(r)
    /\ UNCHANGED <<conn, hooked, delivery, leads>>

-----------------------------------------------------------------------------
(* receive(): resolve the page, verify, and a lead for every message.      *)

\* The secret that signed the delivery is the one that the row selects.
Verifies(d, t) == (d \in OwnApp) = (conn[t].method = "byo_app")

MetaPosts(d) ==
    /\ d \in serving
    /\ delivery[d].step = "waiting" /\ delivery[d].tries < MaxTries
    /\ d \in OwnApp \/ PageOf[d] \in hooked

Posted(d, step, to) ==
    delivery' = [delivery EXCEPT ![d] = [step |-> step, tenant |-> to, left |-> Messages,
                                         tries |-> @.tries + 1]]

\* Mutant: the answer does not wait for the messages to be stored.
AcceptAtOnce(d) ==
    /\ MetaPosts(d)
    /\ IF Owner(PageOf[d]) = {}
       THEN Posted(d, IF d \in OwnApp THEN "waiting" ELSE "accepted", None)
       ELSE \E t \in Owner(PageOf[d]) :
                Posted(d, IF Verifies(d, t) THEN "accepted" ELSE "waiting", t)
    /\ UNCHANGED <<conn, hooked, linking, leads>>

\* A page nobody has is verified with the shared secret and acknowledged; a
\* signature that does not verify is refused, and Meta tries again.
Receive(d) ==
    /\ MetaPosts(d)
    /\ IF Owner(PageOf[d]) = {}
       THEN Posted(d, IF d \in OwnApp THEN "waiting" ELSE "accepted", None)
       ELSE \E t \in Owner(PageOf[d]) :
                IF Verifies(d, t) THEN Posted(d, "storing", t) ELSE Posted(d, "waiting", None)
    /\ UNCHANGED <<conn, hooked, linking, leads>>

\* Mutant: the end of the entry is noticed one message late.
StoreLeadPastEnd(d) ==
    LET more == delivery[d].left > 0
    IN  /\ delivery[d].step = "storing"
        /\ leads' = [leads EXCEPT ![d][delivery[d].tenant] = @ + 1]
        /\ delivery' = [delivery EXCEPT ![d].left = @ - 1,
                                        ![d].step = IF more THEN "storing" ELSE "accepted"]
        /\ UNCHANGED <<conn, hooked, linking>>

\* processEvent(): the tenant was resolved before, and is not looked up again.
StoreLead(d) ==
    LET more == delivery[d].left > 1
    IN  /\ delivery[d].step = "storing"
        /\ leads' = [leads EXCEPT ![d][delivery[d].tenant] = @ + 1]
        /\ delivery' = [delivery EXCEPT ![d].left = @ - 1,
                                        ![d].step = IF more THEN "storing" ELSE "accepted"]
        /\ UNCHANGED <<conn, hooked, linking>>

\* An insert throws or the process dies: Meta gets no 200 and posts all again.
StoreFails(d) ==
    /\ delivery[d].step = "storing"
    /\ delivery' = [delivery EXCEPT ![d].step = "waiting", ![d].left = 0, ![d].tenant = None]
    /\ UNCHANGED <<conn, hooked, linking, leads>>

MetaGivesUp(d) ==
    /\ d \in serving
    /\ delivery[d].step = "waiting"
    /\ delivery' = [delivery EXCEPT ![d].step = "given_up"]
    /\ UNCHANGED <<conn, hooked, linking, leads>>

-----------------------------------------------------------------------------
FacebookInit ==
    /\ conn = [t \in Subdomains |-> None]
    /\ hooked = {}
    /\ linking = [r \in Requests |-> Unlinked]
    /\ delivery = [d \in Deliveries |-> [step |-> "waiting", tenant |-> None, left |-> 0,
                                         tries |-> 0]]
    /\ leads = [d \in Deliveries |-> [t \in Subdomains |-> 0]]

LinkStep(r) ==
    \/ \E t \in Subdomains, p \in Pages : ConnectByo(r, t, p) \/ OAuthCallback(r, t, p)
    \/ CheckOwner(r) \/ Upsert(r)
    \/ \E works \in BOOLEAN : Subscribe(r, works)
    \/ \E t \in Subdomains : Disconnect(r, t)
    \/ DeleteConnection(r) \/ AbortLink(r)

DeliveryStep(d) == Receive(d) \/ StoreLead(d) \/ StoreFails(d) \/ MetaGivesUp(d)

FacebookStep ==
    /\ "connect" \in serving
    /\ (\E r \in Requests : LinkStep(r)) \/ (\E d \in Deliveries : DeliveryStep(d))

Init == AccountsInit /\ FacebookInit

Next ==
    \/ AccountsStep /\ UNCHANGED fbVars
    \/ FacebookStep /\ UNCHANGED accountVars

Spec == Init /\ [][Next]_vars

-----------------------------------------------------------------------------
(* Properties.                                                             *)

\* A page never gets a second owner, and a tenant that has it keeps it until a
\* call of its own connects another page or disconnects: two tenants that find
\* the page free at once, or an OAuth callback that does not ask, end with the
\* first of them.
PageIsNotTakenOver ==
    [][\A p \in Pages :
           \/ Owner(p)' = Owner(p)
           \/ Owner(p) = {} /\ \E t \in Subdomains : Owner(p)' = {t}
           \/ /\ Owner(p)' = {}
              /\ \E r \in Requests : /\ linking[r].step \in {"upsert", "delete"}
                                     /\ linking'[r] # linking[r]
                                     /\ Owner(p) = {linking[r].tenant}]_vars

\* Meta is only told to stop once every message of the delivery is stored for
\* the tenant that was resolved, if one was; a failed post stores again what it
\* had stored.
AcceptedIsStored ==
    \A d \in Deliveries :
        (delivery[d].step = "accepted" /\ delivery[d].tenant # None) =>
            leads[d][delivery[d].tenant] >= Messages
=============================================================================
