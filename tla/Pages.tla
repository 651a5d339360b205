--------------------------------- MODULE Pages ---------------------------------
(***************************************************************************)
(* The pages of the admin console and of the customer web app that change  *)
(* what they show: the queries each opens, its mutations, and the cache of *)
(* react-query between them.  A fetch and a mutation are two awaits, so a  *)
(* page may show what was read before its own change.  Data of the server  *)
(* are version numbers: one change is one version more.                    *)
(***************************************************************************)
EXTENDS Naturals, Sequences, FiniteSets, FiniteSetsExt, SequencesExt

CONSTANTS
    Routes,         \* the pages looked at, out of the domain of Page
    Slots,          \* for the mutations in flight at once
    MaxVersion,     \* bound on the changes of what one query reads
    MaxLoadFailures,    \* bound on the fetches that fail
    NoData

ASSUME PagesAssumption ==
    /\ IsFiniteSet(Slots)
    /\ MaxVersion \in Nat /\ MaxLoadFailures \in Nat /\ NoData \notin Nat

VARIABLES
    route,          \* the page; it stays
    version,        \* version[k]: changes at the server of what query k reads
    data,           \* data[k]: the version in the cache, or NoData
    stale,          \* the queries that are invalidated or older than staleTime
    loading,        \* loading[k]: the fetch of k in flight
    open,           \* the queries of mounted components
    call,           \* call[s]: the mutation in flight
    own,            \* history: the last version of k that an own mutation was told of
    missed,         \* history: why that did not make k load again, or "no"
    loadFailures

pagesVars == <<route, version, data, stale, loading, open, call, own, missed, loadFailures>>

-----------------------------------------------------------------------------
(* The pages: queries, panels that open and close, and mutations.  A        *)
(* mutation needs data on the screen, changes what some queries read, and   *)
(* invalidates by prefix.  atOnce: its button is disabled during a call;    *)
(* buttons that do the same to the cache are one entry, of 2 or 3 at once.  *)

Mutation(needs, writes, invalidates, atOnce) ==
    [needs |-> needs, writes |-> writes, invalidates |-> invalidates, atOnce |-> atOnce]

Unguarded == Cardinality(Slots)

\* Most pages have one list, forms that add to it and buttons in its rows.
Form(key, atOnce) == Mutation({}, {key}, {key}, atOnce)
RowButton(key, atOnce) == Mutation({key}, {key}, {key}, atOnce)
ListPage(key, mutations) == [queries |-> {key}, panels |-> {}, mutations |-> mutations]

Listings == <<"listings", "filter">>
Availability == <<"availability", "id">>

\* newListing and uploadCsv; publish and archive; saveDate, markOccupied, markVacant.
ListingsPage ==
    [queries |-> {Listings},
     panels |-> {Availability},
     mutations |->
        {Mutation({}, {Listings}, {<<"listings">>}, 2),
         Mutation({Listings}, {Listings, Availability}, {<<"listings">>}, Unguarded),
         Mutation({Availability}, {Availability, Listings}, {Availability, <<"listings">>}, 3)}]

ImageList == <<"images", "id">>

\* The panel of a listing's images, and that of a customer's.
ImagesPanel ==
    [queries |-> {}, panels |-> {ImageList}, mutations |-> {Form(ImageList, 1)}]

Customers == <<"customers">>
CustomersPage == ListPage(Customers, {Form(Customers, 1)})

\* invite; disable and enable.
Users == <<"users">>
UsersPage == ListPage(Users, {Form(Users, 1), RowButton(Users, 1)})

\* create; update and remove, of several cards.
SmsTemplates == <<"sms-templates">>
SmsTemplatesPage ==
    ListPage(SmsTemplates, {Form(SmsTemplates, Unguarded), RowButton(SmsTemplates, Unguarded)})

\* create; changeStatus.
SupportTickets == <<"support-tickets">>
SupportPage ==
    ListPage(SupportTickets, {Form(SupportTickets, 1), RowButton(SupportTickets, Unguarded)})

\* create; suspend and activate.
Tenants == <<"tenants">>
TenantsPage == ListPage(Tenants, {Form(Tenants, 1), RowButton(Tenants, 2)})

\* save: the form is only there with the settings.
Tenant == <<"tenant", "id">>
BrandingPage == ListPage(Tenant, {RowButton(Tenant, 1)})

\* submit.
Reviews == <<"reviews", "id">>
ListingDetailPage == ListPage(Reviews, {Form(Reviews, 1)})

CurrentPlan == <<"subscription", "current">>
AllPlans == <<"subscription", "plans">>

\* freeSwitch and downgrade, of which one is pending; cancel.
SubscriptionPage ==
    [queries |-> {CurrentPlan, AllPlans},
     panels |-> {},
     mutations |->
        {Mutation({CurrentPlan, AllPlans}, {CurrentPlan}, {<<"subscription">>}, 1),
         Mutation({CurrentPlan}, {CurrentPlan}, {<<"subscription">>}, 1)}]

FbStatus == <<"fb-status">>

\* ByoForm; disconnect.  Nothing on the page changes the leads.
FbLeadsPage == ListPage(FbStatus, {RowButton(FbStatus, 1), RowButton(FbStatus, Unguarded)})

Favorites == <<"favorites">>
FavoriteListings == <<"favorites", "listings">>

FavoritesPage ==
    [queries |-> {Favorites, FavoriteListings},
     panels |-> {},
     mutations |-> {Mutation({FavoriteListings}, {Favorites, FavoriteListings},
                             {Favorites, FavoriteListings}, Unguarded)}]

\* toggleFavorite; the hearts are there before the favorites are.
SearchPage == ListPage(Favorites, {Form(Favorites, Unguarded)})

Page ==
    [listings |-> ListingsPage, images |-> ImagesPanel, customers |-> CustomersPage,
     users |-> UsersPage, templates |-> SmsTemplatesPage, support |-> SupportPage,
     subscription |-> SubscriptionPage, facebook |-> FbLeadsPage,
     tenants |-> TenantsPage, branding |-> BrandingPage,
     detail |-> ListingDetailPage, favorites |-> FavoritesPage, search |-> SearchPage]

ASSUME RoutesAssumption == Routes \subseteq DOMAIN Page

QueryKeys == Page[route].queries \cup Page[route].panels

NotLoading == [step |-> "none", version |-> 0]
NoCall == [mutation |-> NoData, step |-> "none", told |-> <<>>]

PagesTypeOK ==
    /\ route \in Routes
    /\ version \in [QueryKeys -> 0..MaxVersion]
    /\ data \in [QueryKeys -> 0..MaxVersion \cup {NoData}]
    /\ stale \subseteq QueryKeys
    /\ loading \in [QueryKeys -> [step : {"none", "sent", "answered"}, version : 0..MaxVersion]]
    /\ Page[route].queries \subseteq open /\ open \subseteq QueryKeys
    /\ \A s \in Slots : call[s].mutation \in Page[route].mutations \cup {NoData}
                        /\ call[s].step \in {"none", "sent", "done"}
    /\ own \in [QueryKeys -> 0..MaxVersion]
    /\ missed \in [QueryKeys -> {"no", "first load", "closed", "not named"}]
    /\ loadFailures \in 0..MaxLoadFailures

-----------------------------------------------------------------------------
(* Fetches.                                                                *)

Sent(f, keys) == [k \in QueryKeys |-> IF k \in keys THEN [NotLoading EXCEPT !.step = "sent"] ELSE f[k]]

Forget(keys) == [k \in QueryKeys |-> IF k \in keys THEN "no" ELSE missed[k]]

Idle(k) == loading[k] = NotLoading

ServerReads(k) ==
    /\ loading[k].step = "sent"
    /\ loading' = [loading EXCEPT ![k] = [step |-> "answered", version |-> version[k]]]
    /\ UNCHANGED <<route, version, data, stale, open, call, own, missed, loadFailures>>

DataArrives(k) ==
    /\ loading[k].step = "answered"
    /\ data' = [data EXCEPT ![k] = loading[k].version]
    /\ stale' = stale \ {k}
    /\ loading' = [loading EXCEPT ![k] = NotLoading]
    /\ UNCHANGED <<route, version, open, call, own, missed, loadFailures>>

\* After one retry.  The data stay, and so does the mark of an invalidated query.
FetchFails(k) ==
    /\ ~Idle(k) /\ loadFailures < MaxLoadFailures
    /\ loading' = [loading EXCEPT ![k] = NotLoading]
    /\ loadFailures' = loadFailures + 1
    /\ UNCHANGED <<route, version, data, stale, open, call, own, missed>>

\* staleTime passes.
GoStale(k) ==
    /\ data[k] # NoData /\ k \notin stale
    /\ stale' = stale \cup {k}
    /\ UNCHANGED <<route, version, data, loading, open, call, own, missed, loadFailures>>

Wanted(keys) == {k \in keys : Idle(k) /\ (k \in stale \/ data[k] = NoData)}

\* The window gets the focus again.
Focus ==
    /\ Wanted(open) # {}
    /\ loading' = Sent(loading, Wanted(open))
    /\ missed' = Forget(Wanted(open))
    /\ UNCHANGED <<route, version, data, stale, open, call, own, loadFailures>>

OpenPanel(k) ==
    /\ k \in Page[route].panels \ open
    /\ open' = open \cup {k}
    /\ loading' = Sent(loading, Wanted({k}))
    /\ missed' = Forget(Wanted({k}))
    /\ UNCHANGED <<route, version, data, stale, call, own, loadFailures>>

\* A fetch goes on.
ClosePanel(k) ==
    /\ k \in Page[route].panels \cap open
    /\ open' = open \ {k}
    /\ UNCHANGED <<route, version, data, stale, loading, call, own, missed, loadFailures>>

-----------------------------------------------------------------------------
(* Mutations.                                                              *)

Mutate(s, m) ==
    /\ call[s] = NoCall
    /\ \A k \in m.needs : k \in open /\ data[k] # NoData
    /\ m.writes \cap open # {}
    /\ Cardinality({other \in Slots : call[other].mutation = m}) < m.atOnce
    /\ call' = [call EXCEPT ![s] = [NoCall EXCEPT !.mutation = m, !.step = "sent"]]
    /\ UNCHANGED <<route, version, data, stale, loading, open, own, missed, loadFailures>>

ServerWrites(s) ==
    LET written == [k \in call[s].mutation.writes |-> version[k] + 1]
    IN  /\ call[s].step = "sent"
        /\ \A k \in DOMAIN written : version[k] < MaxVersion
        /\ version' = [k \in QueryKeys |-> IF k \in DOMAIN written THEN written[k] ELSE version[k]]
        /\ call' = [call EXCEPT ![s].step = "done", ![s].told = written]
        /\ UNCHANGED <<route, data, stale, loading, open, own, missed, loadFailures>>

\* The server refuses, or its answer is lost: the page shows an error.
MutationFails(s) ==
    /\ call[s] # NoCall
    /\ call' = [call EXCEPT ![s] = NoCall]
    /\ UNCHANGED <<route, version, data, stale, loading, open, own, missed, loadFailures>>

Named(m) == {k \in QueryKeys : \E prefix \in m.invalidates : IsPrefix(prefix, k)}

\* Mutant: a fetch under way is thought to be good enough.
RestartedIfIdle(keys) == {k \in keys \cap open : Idle(k)}

\* A fetch under way is cancelled and sent again, if there are data already.
Restarted(keys) == {k \in keys \cap open : Idle(k) \/ data[k] # NoData}

\* onSuccess: invalidateQueries().
Succeed(s) ==
    LET m == call[s].mutation
        restarted == Restarted(Named(m))
        reason(k) == IF k \notin Named(m) THEN "not named"
                     ELSE IF k \notin open THEN "closed"
                     ELSE IF data[k] = NoData THEN "first load" ELSE "no"
    IN  /\ call[s].step = "done"
        /\ call' = [call EXCEPT ![s] = NoCall]
        /\ stale' = stale \cup {k \in Named(m) : data[k] # NoData}
        /\ loading' = Sent(loading, restarted)
        /\ own' = [k \in QueryKeys |->
                      IF k \in m.writes THEN Max({own[k], call[s].told[k]}) ELSE own[k]]
        /\ missed' = [k \in QueryKeys |->
                         IF k \in restarted THEN "no"
                         ELSE IF k \in m.writes THEN reason(k) ELSE missed[k]]
        /\ UNCHANGED <<route, version, data, open, loadFailures>>

-----------------------------------------------------------------------------
PagesInit ==
    /\ route \in Routes
    /\ version = [k \in QueryKeys |-> 0]
    /\ data = [k \in QueryKeys |-> NoData]
    /\ stale = {} /\ open = Page[route].queries
    /\ loading = Sent([k \in QueryKeys |-> NotLoading], open)
    /\ call = [s \in Slots |-> NoCall]
    /\ own = [k \in QueryKeys |-> 0]
    /\ missed = [k \in QueryKeys |-> "no"]
    /\ loadFailures = 0

PagesStep ==
    \/ \E k \in QueryKeys : \/ ServerReads(k) \/ DataArrives(k) \/ FetchFails(k) \/ GoStale(k)
                            \/ OpenPanel(k) \/ ClosePanel(k)
    \/ Focus
    \/ \E s \in Slots, m \in Page[route].mutations : Mutate(s, m)
    \/ \E s \in Slots : ServerWrites(s) \/ Succeed(s) \/ MutationFails(s)

-----------------------------------------------------------------------------
(* Properties.                                                             *)

\* A query that is neither loading nor stale shows what the page itself changed
\* and was told of, whatever was in flight then; unless the change came during
\* the first load, which no invalidation cancels, while its panel was closed, or
\* from a mutation that does not name the panel's query.  The queries of the
\* page itself are named by every mutation that changes what they read.
OwnWritesShown ==
    /\ \A k \in open :
           \/ ~Idle(k) \/ k \in stale \/ data[k] = NoData \/ missed[k] # "no"
           \/ data[k] >= own[k]
    /\ \A k \in Page[route].queries : missed[k] \in {"no", "first load"}
===============================================================================
