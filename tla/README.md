# A verification development for the room-rental service

The repository is a multi-tenant room-rental service: a NestJS backend over
PostgreSQL (TypeORM 0.3) and BullMQ, an admin console and a customer web app.
Companies (tenants) publish listings, customers book rooms and pay through
Stripe, Khalti or eSewa, tenants pay for a subscription plan the same way, and a
matching job tells customers about new listings by SMS, at one credit a message.

This directory holds TLA+ modules translated from that code, TLC configurations
that check them on small instances, and TLAPS proofs of the results that hold
for every size. Money and plans come first: they are where overlapping handlers,
late notices and half-finished work do damage a test would hardly reach. Then
come the matching jobs that spend the credits, the handlers that check a row and
write it later, the sessions, and what the two web apps show.

    tlc -workers 2 -config booking_safety.cfg MCPayments
    tlapm PaymentsProofs.tla

## 1. Inventory

Paths are below `apps/backend/src/modules/` unless they start with `apps/`.

| Component | State | Operations | Modelled |
|---|---|---|---|
| Subscriptions (`subscriptions/`) | one `tenant_subscriptions` row per tenant: plan, status, SMS credits, pending plan | `subscribe`, `applyPendingPlan`, `cancel`, `markPastDue`, `deductSmsCredit` | `Subscriptions` |
| Payments (`payments/payments.service.ts`) | `payments` rows, unique by gateway and transaction id | `createIntent`, `createSubscriptionIntent`, `handleWebhookEvent` | `Payments` |
| Payment adapters (`payments/adapters/`) | none; sessions at the gateways | open a session, verify a delivery, report an outcome | `Payments` |
| Bookings (`payments/bookings.service.ts`) | `bookings` rows: status, amounts | `create`; confirmed by the webhook | `Payments` |
| SMS matching (`matching/`) | BullMQ jobs, `sms_logs` | find preferences, check, deduct, log, send, note, refund | `Matching` |
| SMS routing and adapters (`sms/`) | none | route by phone prefix and keys, send | `Matching` |
| SMS templates (`sms/`) | one default row per trigger | create, update, remove, resolve | the console's page, in `Pages` |
| Listings (`listings/`) | `listings`, `listing_images` | create, bulk upload, update, archive, availability, owner submission, images, search | `Listings`, `Images`, `Search` |
| Sessions (`auth/`) | refresh token hash of a user or customer | login, refresh, logout, guard | `Sessions` |
| One-time codes (`auth/`) | `phone_otp_codes` | request, verify | `Customers` |
| Customers and preferences (`customers/`) | one row per phone, one preference each, images | upsert, create, update, upsert preference, images | `Customers`, `Images` |
| Reviews, favorites | one row per customer and listing | check, then insert; remove | `Customers` |
| Users and invitations (`users/`) | one row per e-mail | invite, set the status | `Accounts` |
| Tenants (`tenants/`) | one row per subdomain | onboard in a transaction, update | `Accounts` |
| Facebook (`facebook-integration/`) | one connection per tenant and page, leads | connect, OAuth callback, disconnect, receive messages | `Facebook` |
| Admin console (`apps/admin-console`) | access token, queue of requests waiting for a refresh, query cache | refresh once, release the queue; fetch, mutate, invalidate | `Sessions`, `Pages` |
| Customer web app (`apps/customer-web`) | pages of search results, query cache | endless scroll, favorites, reviews | `Search`, `Pages` |
| Tenant context, guards | per-request storage | resolve the tenant, check the role | no |
| Amenities, analytics, support, shared packages, migrations | read-only queries, single-row writes, presentation | | no (`Pages` has the support page) |
| Storage and encryption | objects by key | put, encrypt | the object of a key, in `Images` |
| Jobs (`apps/backend/jobs`) | stubs that nothing starts | | see `BillingCycle` |

How they interact. All handlers run on one event loop per process (several
processes in production) and meet only in the database. A handler runs without
interruption from one `await` to the next; nothing takes a lock, and apart from
tenant onboarding nothing opens a transaction of its own. The tenant's
subscription row is written by five handlers of `SubscriptionsService`, by the
subscription intent, by the payment webhook and by the matching job. The webhook
also writes payments and bookings. Creating a listing reads the plan's limit off
the subscription; publishing one queues a matching job, whose workers (other
processes, perhaps) read the listing and the preferences, and spend credits. A
customer's row is written by logins and by the tenant's staff. Meta and the
gateways call webhooks and repeat a call that is not answered. The admin console
refreshes its access token when a request is answered 401; both web apps keep
what they read in a cache that their own mutations invalidate.

What is hard. Rows read before an `await` and saved after it; gateways that
deliver a notice never, late, twice or after a newer one; a failure or a restart
between two writes of one handler; checks (limit, uniqueness, ownership, a code
that is unused, a message not yet sent) done before an insert; a plan that waits
in one column for two different events; a queue of requests behind one refresh;
a cursor that loses the precision of the column it is compared with; a fetch
that began before the page's own change.

What makes each component correct, in a line:

- Subscriptions: credits are neither invented nor lost, a plan or a status
  changes only for a reason that allows it.
- Payments and bookings: a success was charged, a confirmed booking is paid in
  full and stays confirmed, what was charged is applied in the end.
- Matching: as few messages per customer and listing as the code's check gives,
  one credit each, a refund once and only for a failure, and a message handed to
  the provider for whoever fits.
- Listings: never more than the plan allows, but for calls that overlap; what is
  published is offered to the queue; images keep their order;
  the search shows every listing once.
- Sessions: rotation does not lock anyone out by itself, no request waits for
  ever.
- Codes: guesses and logins of a code are bounded whatever overlaps, and only a
  code gives a session.
- Accounts and tenants: a tenant has an admin or does not exist; nobody waits in
  a circle; only a super admin sets a tenant's status (the code does not keep
  this one).
- Facebook: a page keeps its tenant until that tenant lets it go, an accepted
  delivery is stored.
- Web apps: a page shows its own changes.

The hazards themselves, each at its line, are listed in `PROJECT.json`.

## 2. Modules

| Module | What it is |
|---|---|
| `Subscriptions` | the row, the requests that change it, the SMS credits |
| `Payments` | extends it with bookings, payments, gateways, intents, webhooks |
| `BookingPromise` | what the payment flow promises about bookings (abstract) |
| `Listings` | extends `Subscriptions` with the listings' handlers and the queue |
| `Matching` | extends `Listings` with the workers, the log and the adapters |
| `MatchingPromise` | the messages that reach a customer and the notes of them (abstract) |
| `Sessions` | a staff account's refresh token and the console's tabs |
| `Customers` | one phone: codes, logins, the customer's row, rows that exist once |
| `LoginPromise` | what the codes promise about a customer's session (abstract) |
| `Accounts` | tenants and staff accounts |
| `Facebook` | extends `Accounts` with pages, connections and deliveries |
| `Search`, `Images`, `Pages` | the search and its scroll, uploads, the pages' cache |
| `Web` | one of the three, chosen at the start |
| `MC...` | instances for TLC: plans, preferences, files, symmetry |
| `SubscriptionsProofs`, `PaymentsProofs` | theorems on plans and credits; on payments and bookings |
| `MatchingProofs` | on listings, their limit and the queue; on workers and messages |
| `CustomersProofs`, `SessionsProofs`, `FacebookProofs` | on codes and logins; on refreshes; on tenants, accounts, pages and deliveries |
| `SearchProofs`, `WebProofs` | on the pages of a search; on images, the pages' caches and all of `Web` |

### Subscriptions

One tenant. `sub` is the row or `NoRow`. The tenants' rows are independent, so
one tenant is enough. The period columns are left out: nothing reads them.

The essential part is `save()`. TypeORM saves an entity that has an id with a
`SELECT` of the row and then an `UPDATE` of the columns in which the entity
differs from what this `SELECT` returned. Each is its own step, and the entity
was loaded earlier still. So a request is

1. the load and the computation (`SubscribeFree`, `ScheduleDowngrade`, `Cancel`,
   `MarkPastDue`, `ApplyPendingPlan`), which leaves the entity in
   `request[r].entity`;
2. `CompareWithRow`, the `SELECT`, which leaves the row in `request[r].seen`;
3. `CompleteSave`, the `UPDATE`: `Column(new, seen, now)` writes a column where
   the entity differs from `seen` and leaves it as it is *now* elsewhere;

and anything may happen between them, `AbortRequest` included. Two more facts of
TypeORM matter. An object literal without id is inserted directly, and meets
`UNIQUE (tenant_id)` (`Savable`). And `planId` and the eager relation `plan` are
one column, whose value `save()` takes from the relation while it is present
(`Written`): `subscribe()` and `applyPendingPlan()` set both, the webhook sets
only `planId`.

Credits are spent by `deductSmsCredit()`, a single conditional `UPDATE`
(`DeductSmsCredit`), and given back by one (`RefundSmsCredit`); `sending` counts
the messages in between and `issued` those ever sent, up to `MaxSends`.

`BillingCycle` says whether some job calls `applyPendingPlan()`. Nothing in the
repository does, so `FALSE` is the code as it is; `TRUE` checks the function as
its comment says it is to be used.

### Payments

`booking` and `payment` are the tables, `session` is what a gateway knows of a
transaction, `notices` the Stripe events ever sent. An event stays in `notices`,
so that it may be delivered never, late, twice or after a newer one. Khalti is
asked at the time of the callback, so its outcome is read off the session
(`Reports`); eSewa's callback would say it, but is refused by `Verified`, because
the service hands the adapter a buffer where it looks for fields.

`intent[i]` and `hook[h]` are calls in flight, as records with the `step` they
have reached:

    createIntent               BeginIntent, OpenSession, InsertPayment
    createSubscriptionIntent   BeginSubscriptionIntent, CompareIntendedPlan,
                               SaveIntendedPlan, OpenSession, InsertPayment
    handleWebhookEvent         ReceiveNotice, CompareOutcome, SaveOutcome, then
                               ConfirmBooking, or LoadSubscription,
                               CompareActivation, ActivateSubscription

`AbortIntent` and `AbortHook` end a call at any of its awaits: a throw, a refused
insert or the end of the process. What was written stays written.
`ReceiveNotice` is everything up to the payment's `findOne`: a payment row never
changes but in its status, which is overwritten, so reading it there or at the
save makes no difference. `amount` is a natural number for the decimal that is
copied from the booking to the session and the payment row without arithmetic.
`applied` is a history variable.

Customers are abstracted: any customer may pay in any session whose payment row
exists, since the client gets the session's secret or URL only with the answer,
after the row was inserted.

### Listings

One tenant's listings; of a row its status. `call[c]` is a handler in flight, as
far as its `step`:

    create                        CreateListing, CheckLimit, InsertListing, DispatchMatchJob
    bulkUpload, for each row      BulkRow, CheckLimit, InsertListing, DispatchMatchJob
    update, archive, availability UpdateListing / ArchiveListing / UpdateAvailability,
                                  CompareListing, SaveListing, DispatchMatchJob

`create()` counts the rows, then `assertListingLimit()` reads the subscription,
then the row is inserted. Saving is the load, `SELECT` and partial `UPDATE` of
`Subscriptions`, through the same operator `Column`. `update()` tests whether it
published by comparing the body with the status it *loaded*. The dispatch swallows
errors of the queue; a full disk of the bound `MaxJobs` looks the same. `queue[l][k]`
counts the waiting jobs of a listing that stalled `k` times. `marks` is a history
variable: who submitted the row, and whether an offer to the queue was made or is
not to be expected.

### Matching

`Matching` adds the processes that run `MatchingProcessor`, one job at a time
(BullMQ's default concurrency): `worker[w]` is the job and the await of
`sendMatchSms()` it has reached, `log[n]` the `sms_logs` row written for the
`n`-th credit. A credit is taken and kept or refunded by the actions of
`Subscriptions` themselves (`DeductSmsCredit`, `KeepSmsCredit`,
`RefundSmsCredit`), so that the accounting there and the steps here are one
state. `Fits` is the query of `findMatchingPreferences()`; `Wants` says the same
in other words and is only used in a property.

A send may be accepted or refused, throw with the message gone nowhere, or throw
although the provider took it (`unanswered`, a timeout), as the adapter that
`Adapter` routes to allows (`Answers`). The service does not read the status that
an adapter returns: only a throw counts as a failure. The history variable
`answer` keeps what happened to each message, whatever its row says. Two faults:
`JobThrows` (a query outside the `try`; the job has no further attempt and fails)
and `WorkerDies` (the queue hands the job out once more, and fails it the second
time, as `maxStalledCount` has it). `RoomForJob` keeps the bound `MaxSends` from
stopping a job half way: a job is only taken while there is room for all it may
send.

`MatchingPromise` is what this comes to. Its `told` are the messages about a
listing that reached a customer, `noted` those of them the log holds as `SENT`,
and `lost` those that are not and will not be noted, because the answer, the
`UPDATE` or the worker was lost. A customer is told again only while fewer than
`Limit` of the messages are not lost, and a note that is made stays. The
refinement maps the three to `Arrived`, `Sent` and `Lost`, and `Limit` to the
number of workers, since workers that overlap do not see one another's rows. So
one worker sends a second message only when the note of the first was lost; that
this does happen shows `told_twice.cfg`.

### Sessions

One staff account and one browser. The tokens an account gets differ only in the
second they were signed, so a token *is* that second, and two logins in one
second give the same token, as in the code. `hash` is the column; `cookie` and
`stored` are the browser's, which its tabs share; `refreshing`, `req` and the
queue are each tab's own (`isRefreshing`, `refreshQueue` of `api/client.ts`). A
refresh has two halves. The client's is `req[r]`: the request leaves with the
cookie the jar has, and the answer sets the cookie and resumes the queue
(`RefreshAnswered`), or there is none (`RefreshFails`). The server's is
`handler[r]`: it compares (`CheckRefresh`) and then stores the new hash
(`StoreRefresh`). A client may give up while the handler is at it; the handler
then goes on alone (`GiveUp`), and may store its hash after a later login.

The guard asks for the account's status at every request, `refresh()` does not.
`setStatus()` is a load, a `SELECT` and an `UPDATE` of the whole row (`LoadUser`,
`SeeUser`, `SaveUser`, with the row it loaded in `update`): a token that is stored
between the first two is replaced by the older one.

The console calls the backend itself (`VITE_API_URL`), so the cookie's path
`/auth/refresh` matches the refresh and nothing else: `logout()` gets no cookie
and the hash stays. `disturbed` is a history variable, true once the jar and the
row may have parted for a reason outside rotation itself.

### Customers

One phone of one tenant. `code` is `phone_otp_codes` in the order of creation,
`customer` the row, `rows` the tables with one row per customer (and listing),
and `call[c]` a handler at one of its awaits:

    requestOtp          RequestOtp, DeleteUnused, InsertCode
    verifyOtp           VerifyOtp, CompareCode, CountAttempt or MarkUsed,
                        FindByPhone, VerifyPhone or InsertVerified, IssueSession
    create / update     CreateCustomer, InsertCustomer / LoadCustomer,
                        DiffCustomer, SaveCustomer
    preference, favorite, review    LookUpRow, InsertRow

A code is its number; a guess is the number of a code that was sent, or 0. The
update and the login write different columns of one row, and `save()` may write
back an older value of a column it did not mean to touch (`restored` notes it).
`LoginPromise` is what all this means for the session in the row: a login by a
code that has given fewer sessions than calls overlap, a logout, or an older
session that such a save writes back. `Session` maps the row to it.

### Accounts

A tenant is its subdomain, an account its e-mail; both have a unique index.
`onboard()` is the repository's only transaction: `open[r]` are the keys it has
inserted and not committed. An insert of a key that another open transaction
holds waits (`HeldByOther`), as PostgreSQL's unique indexes do; one that meets a
committed key fails and rolls back. `update()` of a tenant and `setStatus()` of
an account are load, `SELECT`, `UPDATE` again; the body of a company admin's
update loses its status, and the tenant it loaded keeps it. `serving` limits the
handlers one
behaviour uses to one of the sets `Services`, so that TLC can check pairs of
handlers over the whole state without their product.

### Facebook

`conn` is the tenants' connections, with a unique index on the page. Connecting
by credentials checks the owner and upserts two awaits later; the OAuth callback
upserts without a check and then subscribes the page to the shared app's
webhook. A delivery of Meta is resolved to the tenant of its page, verified with
the secret of that row, stored message by message and answered; one that is not
answered 200 is posted again, whole.

### Search, Images, Pages and Web

`Search` is the query of `findAll()`, ordered by `created_at` and id, and the
cursor that `toISOString()` cuts to milliseconds while the column has
microseconds; around it the list of `SearchPage.tsx`: a first page, next pages,
refetches of all pages one after another, with listings that are created (some
with an older `created_at`, since `now()` is the time of the transaction's
start), published and taken off between any two fetches. A filter is a reason
for a row not to be published.

`Images` is `addImages()` of listings and of customers, which are the same steps:
the last sort order is read once, then each file is stored under a key of the
milliseconds and its name, and inserted.

`Pages` is a table of the pages that change what they show (`Page`): the queries
each opens, the panels that open and close, and its mutations with what they
need, write and invalidate. What the server has is a version number per query.
Fetches, focus, staleness, cancelled and restarted fetches, first loads that are
not restarted, and failures are react-query's behaviour, modelled once for all
pages as the code uses it.

`Web` runs one of the three per behaviour; they meet only at the server, whose
side each of them has.

## 3. Runs

| Run | Instance | Shows |
|---|---|---|
| `subscriptions_overlap` | 3 plans, 2 overlapping requests, 2 messages, billing cycle | types (the balance is never negative) and `CreditsCovered` under every mix of partial updates |
| `booking_safety` | 1 booking, rents 1 and 2, 3 gateways, 2 references, 2 deliveries | types, `SuccessWasCharged`, `ConfirmedIsPaidInFull`, and `PromiseSafety`: the bookings implement `BookingPromise!Safety` |
| `subscription_payments` | 2 plans, 1 request, 1 intent, 1 delivery, 1 message on the same row, until the first charge | `UnchargedHasFreeCredits`: whatever stale rows are saved, none brings a paid plan's messages |
| `payment_liveness` | 1 booking and 2 plans, 1 intent, 1 delivery, Stripe | `PromiseKept` (all of `BookingPromise!Spec`) and `PaidSubscriptionActivates`: the activation of a charged plan is saved |
| `listings` | 3 listings, 2 calls, a plan of one listing, files of 2 rows | `ListingsWithinLimit`: overlap passes the limit by at most one per further call; `PublishedWasOffered`, with the two exceptions it names |
| `matching` | 1 listing, 2 customers (it fits 1), 2 workers, balance 2, 2 jobs waiting, 3 credits | types, `BalanceIsAccounted`, `SentAtMostOncePerWorker`, the refinement `PromiseSafety`, and `MatchesAreHandedOver` |
| `sessions` | 2 tabs with a request and a logout, a change of status at a time, 2 seconds | types and `RefusedOnlyIfDisturbed` |
| `session_queue` | 1 tab, 3 requests, one a logout, the account disabled | `QueueIsServed` and `RequestsEnd` |
| `customers` | 2 calls, 2 codes, 2 attempts, 3 tables | types, `GuessesAreBounded`, `UnusedCodesAreBounded`, `LoggedInIsVerified`, the refinement `SessionsAsPromised` |
| `tenancy` | 2 subdomains, 3 e-mails, 2 requests; 2 pages, 2 deliveries of 2 messages, 2 tries | types, `TenantHasAdmin`, `NobodyWaitsInACircle`; `PageIsNotTakenOver`, `AcceptedIsStored` |
| `web` | 3 listings on pages of one, 2 microseconds a millisecond; 3 uploads of 5 files; every page with 2 mutations | types, `NoneTwice`, `SkippedOnlyInTheMillisecond`, `ScrollsToTheEnd`; `OrderIsKept`; `OwnWritesShown` |
| `search_skips_rows` | the search of `web` | **violated**: the product document promises that cursor pagination skips no row (section 14.1); two listings created in one millisecond, with a page's end between them, and the second is on no page (`listings.service.ts:64`) |

Further configurations lie beside these, each of one property that a document or
a comment states, or that one would expect, and that TLC refutes:

| Configuration (module) | What happens |
|---|---|
| `unpaid_plan_activates` (`MCPayments`) | a tenant's first intent has left an unpaid plan's row; another intent loads it, `subscribe(free)` and `cancel()` run, the intent's save restores plan and `PAST_DUE`, and the save of a `subscribe(free)` whose `SELECT` saw the free plan writes only the status: the unpaid plan is active (`payments.service.ts:94`). Its messages do not come with it, which `UnchargedHasFreeCredits` shows. The product document has only a confirmed webhook change the paid state (line 811) |
| `stale_intent` (`MCPayments`) | of two intents that overlap, the later save writes back columns of the row it loaded, against the comment "store intent in pendingPlanId, never overwrite active planId" (`payments.service.ts:89,94`); in the same way an intent that loaded the row before an activation undoes it |
| `repeated_webhook_regrants` (`MCPayments`) | a repeated success event resets credits and period again (`payments.service.ts:163`); the product document asks for a check before processing (line 905) |
| `downgrade_never_applied` (`MCSubscriptions`) | a scheduled downgrade waits for ever: nothing calls `applyPendingPlan()` (`subscriptions.service.ts:94`), which the comment has run at the next billing cycle (line 34) |
| `told_twice` (`MCMatching`) | one worker: the message arrives, its row never says `SENT`, and the job run again sends a second (`matching.service.ts:125`); "a retried job never double-sends", says the product document (line 896) |
| `refused_logged_sent` (`MCMatching`) | an adapter returns `failed`, and the row says `SENT` (`matching.service.ts:125`) |
| `suspension_reverted` (`MCFacebook`) | a company admin's save of other settings writes back the status it loaded, over a suspension (`tenants.service.ts:90`); "only super admin", says `tenants.controller.ts:72` |
| `credits_restored` (`MCSubscriptions`) | `cancel()` loads the row, a message takes a credit, and the save writes the old balance back (`subscriptions.service.ts:113`) |
| `late_failure_notice` (`MCPayments`) | a declined attempt's event, delivered after the success, turns the payment to failed while the booking stays confirmed (`payments.service.ts:153`) |
| `esewa_never_confirms` (`MCPayments`) | every eSewa callback is refused, so a paid booking stays pending (`payments.service.ts:140`) |
| `paid_plan_not_stored` (`MCPayments`) | the activation sets `planId` beside the relation of the old plan, and `plan_id` does not change (`payments.service.ts:169`) |

Where an instance's limit is what makes a property hold, the limit is part of the
statement:

- `UnchargedHasFreeCredits` is run until the first charge (`NotYetCharged`), which
  is never taken back and after which it says nothing. It counts the messages
  sent on top of an allowance, as `CreditsCovered` does, since an entity may have
  been loaded before they were.
- `PaidSubscriptionActivates` says that some delivery saves the activation, and
  not that it lasts: once a delivery is answered with 2xx Stripe sends no other,
  and a save of a row loaded before the activation takes it back (`stale_intent`).
- `PromiseKept` needs Stripe. With `Gateways = {"fonepay"}` it fails as with
  eSewa: the router's default opens the session at Stripe, the row says fonepay,
  and the event comes to `webhook/stripe`.
- `ListingsWithinLimit`, `GuessesAreBounded`, `UnusedCodesAreBounded`,
  `PromiseSafety` of `Matching`, `SentAtMostOncePerWorker` and `SessionsAsPromised`
  give the limit the code keeps when calls overlap: the intended one plus the
  number of further calls in flight. With one call at a time each is the intended
  limit, for `PromiseSafety` one message whose note is not lost.
- `BalanceIsAccounted` counts the credit of a worker that died as taken: the code
  has no path that gives it back. `MatchesAreHandedOver` speaks of jobs that were
  queued; a dispatch that fails is only logged (`listings.service.ts:363`).
- `RefusedOnlyIfDisturbed` names what may part cookie and row: a login, a logout, a
  refresh the client gave up on while the server was at it, a refresh of another
  tab, and an older token that `setStatus()` wrote back.

Bounds. `Requests`, `Intents`, `Hooks`, `Calls` and `Slots` bound the calls in
flight *at a time*; each is reused without limit. Two overlapping calls are
enough for every lost update between a load, a `SELECT` and an `UPDATE`: a third
party would have to write a value neither of the two can. Two references allow a
booking to be paid twice over different gateways. Three plans (free, basic, pro)
give a downgrade, an upgrade and a free plan; allowances 1, 1 and 2 let a balance
run out. `MaxSends = 2` lets two messages be open at once; in `matching`, three
credits over a balance of two let a refunded credit be spent again and a customer
be sent a third message, and two waiting jobs let one be repeated while another
runs. Three listings let two creations and a file pass a limit of one. The code
allows three attempts at a code, the instance two, and a guess beyond the limit
still shows with two. Three rows on pages of one give a page's end between two rows of a millisecond and a row after
them. `MaxFailures`, `MaxLoadFailures`, `MaxTries`, `MaxClock`, `MaxMillis`,
`MaxVersion` and `MaxNow` bound what repeats; each lets the thing it counts
happen before, during and after an overlap. Symmetry is used where only
invariants are checked, and in `customers`, whose `SessionsAsPromised` is a safety
property that names no call.

Fairness. `PayFairSpec` assumes that a delivery being handled is finished or
fails (the event loop resumes a handler whose query has answered), and that
Stripe repeats an event until one delivery of it is handled to its end and
answered with 2xx, and no longer, and that not every repetition fails at the same
await. The second is strong fairness on each await of the deliveries of a success
event, since every repetition may be cut off at another one; the receipt itself is
fair only while `applied` does not have the event. Nothing
repeats the browser callbacks of Khalti and eSewa, so nothing is promised for
them, and the liveness run pays with Stripe. `FairSpec` of `Subscriptions` adds a
billing cycle that runs when there is one. `MatchFairSpec` is weak fairness on
the steps of each worker: a worker that lives goes on with its job and polls the
queue for the next. No assumption keeps it from dying. `Sessions!Spec` assumes
that a request or a refresh that was sent is answered or fails at the client,
which the browser's timeouts give; nothing is assumed of the server's half, and
nobody has to log in or send anything. `WebFairSpec`
assumes that a search is answered and that the customer keeps scrolling while
there is a next page.

Deadlock is checked where the system goes on for ever. In `customers`, `tenancy`
and `web` it is not: there the codes, tries and versions of the instance are
used up in the end.

## 4. Proofs

Eight modules hold the theorems; each is proved for every value of the constants
that meets the named `ASSUME`s. These say that plans have natural prices and
allowances, that the null values are not values, that bounds are naturals, that
keys of different indexes differ (`Refs` and payables, `Subdomains` and
`Emails`), and that finitely many calls, workers and uploads run at a time
(`Calls`, `Workers`, `Uploads`), which the counting needs. A search is over
finitely many listings (`Ids`), an upload has one file or more, and the routes are
some of the table `Page`. Customers, the listings of a tenant, tenants, pages,
tabs, requests, deliveries and mutations in flight may be any sets.

Subscriptions (`Spec`):

- `SubscriptionsTypeCorrect`, by `SubTypeInv`, which adds to the types that a
  `seen` row means the row still exists: no handler deletes it.
- `CreditsAreCovered`, by `CreditsInv`. The property alone is not inductive: an
  entity in flight carries a balance that may be written at any time. The
  invariant says that it too, like the row's, is at most some plan's allowance
  plus the messages settled so far (`issued - sending`), a number that never
  falls; a partial update then writes one covered balance or the other.

Payments and bookings (`PaySpec`):

- `PaymentsTypeCorrect`, by `TypeInv`: what each step of a handler needs of what
  the earlier ones stored (the payment a delivery works on exists, a booking that
  is paid for exists).
- `SuccessIsCharged`, by `FlowInv`: everything the server stores about an outcome
  traces back to a charged session. Each reference fits its payable, each success
  event comes from a charge, each intent about to insert has a session, each
  payment row has one and, if it says success, a charged one, and so has each
  delivery in flight that acts on a success. Sessions never forget
  (`SessionsPersist`), which keeps all of it true under every step.
- `UnchargedCreditsAreFree`, under `BillingCycle = FALSE` (nothing calls
  `applyPendingPlan()`), by `UnchargedInv` beside `FlowInv`. Entities in flight
  carry balances that may be written at any time, in requests and in intents, so
  the invariant asks of each that a free plan's allowance plus the messages
  settled so far covers it, as `CreditsInv` does; a message refunded twice would
  break it too. The other writer is an activation, which `FlowInv` puts after a
  charge.
- `ConfirmedIsPaid`, by `AmountInv` beside `FlowInv`. A confirmation copies its
  amount from the payment row, which has it from the intent, which read it off
  the booking three awaits earlier; so the amount in every intent, session and
  payment row of a booking is what the booking has as due, and this never changes
  (`BookingsPersist`). `FlowInv` supplies the charged session.
- `PromiseImplemented`, from the same invariant: a gateway's charge is a `Charge`
  of `BookingPromise`, a `ConfirmBooking` a `Confirm` of a booking charged
  before, and every other step leaves `ChargedBookings` and `ConfirmedBookings`
  as they are.

Listings and matching (`MatchSpec`):

- `LimitIsKept`, by `ListInv`. The count a call works with may be stale by any
  number of inserts, so the property is not inductive. `WithinOverlap` counts, with
  the listings, the calls that are `Permitted`: at their insert, or before the
  check with a count that will pass it. A call is permitted only by a count of all
  rows, which is below the limit then, and an insert trades a permission for a row.
- `PublishedAreOffered`, by the same invariant: `Accounted` listings only grow,
  and a save that finds nothing to publish (`was`) loaded a listing that was
  published, hence accounted for, when it was loaded.
- `MatchingTypeCorrect`, by `JobsInv`: what waits and what runs of a listing's
  jobs are together at most what was dispatched, through stalls and deaths.
- `MatchInv`, on which the rest relies: each worker's credit is its own, its row
  is `QUEUED` or `FAILED` as the worker's step says, and credits not yet issued
  have no row and no refund.
- `BalanceAddsUp`, by `BalanceInv`: a deduction moves one unit from the balance to
  the credits `Spent`, a refund moves one back. `MatchInv` says what this needs (a
  new credit has no refund yet, one that is refunded was not refunded before) and
  has the other part, `RefundMeansFailed`, as a conjunct.
- `SentOncePerWorker`: a worker passes the check only for a customer without a
  `SENT` row, and trades its place past the check for one such row, so rows and
  workers past the check never exceed the workers.
- `PromiseIsKept`, by `AnswerInv` beside it: a message that is about to be sent has
  no answer yet, so it is a new one. The messages that are not lost are `SENT` or
  held by a worker at its note, hence past the check, and the sending worker is
  one more that is past it: they are fewer than the workers (`RoomToTell`). An
  answer is a `Tell`, the update to `SENT` a `Note`, its throw or the worker's death
  a `Lose`; every other step changes none of the three.

Codes and logins (`Customers!Spec`):

- `CustomersTypeCorrect`, by `TypeInv`: what a call's step needs of the code it
  compares and the row it loaded.
- `GuessesStayBounded`: the property counts guesses under way and is inductive
  as it stands; the proof is the counting of calls that join and leave.
- `UnusedStayBounded`: the same, with `Saving`, whose calls stand for the codes
  they are about to save.
- `LoginsStayBounded` (`LoginsPerCode`), by `LoginInv`: a call that may still log
  in with a code (`Verifying`) counts as a login, nobody begins to verify a code
  that is used, and an unused one has given no login.
- `LoginsAreVerified`, by `VerifiedInv`: a call about to issue a session has
  verified the row, and only a `restored` column undoes that.
- `SessionsKeepThePromise`, by `SessionInv`: the row's session, and the one in
  every row an update has loaded or its `SELECT` has seen, is none or one that a
  code has given. A login is then a `Login` of `LoginPromise`, because its call is
  one that `LoginsStayBounded` counts; a save is a `WriteBack` or leaves the
  session; every other step leaves it too.

Sessions (`Sessions!Spec`):

- `SessionsTypeCorrect`.
- `QueuesAreServed`, by `QueueInv`: the refreshes of a tab are exactly one
  request while its flag is set and none otherwise.
- `RefusalsAreDisturbed`, by `AgreedInv`: while nothing has disturbed them, there
  is one refresh at most, its client waits for it, and the cookie is the row's
  token, except between the store of a new token and its answer, when the handler
  carries it. A refresh the client gave up on, a login, a logout and a save of
  `setStatus()` that changes the hash are disturbances, and nothing else parts
  them. `AskedInv` says that a client that waits has a handler.

Tenants, accounts, pages (`Facebook!Spec`):

- `TenantsHaveAdmins` and `NoCircleOfWaits`, by `AccountsInv`: an open
  transaction holds exactly the keys its step has inserted (`Held`), no two hold
  one key, and a held key has no committed row. Who holds a subdomain commits
  or waits for an e-mail, and who holds an e-mail commits: the two keys are taken
  in one order.
- `FacebookTypeCorrect` and `AcceptedDeliveriesAreStored`, by `LinksInv` and
  `DeliveriesInv`: what a delivery has stored and what it has left make up at
  least the whole.
- `PagesAreNotTakenOver`, by `OneOwner` beside `LinksInv`: no page has two owners.
  A step writes one tenant's row, for a call of that tenant, and leaves it empty or
  with a page that no other tenant has: the unique index refuses the rest, whatever
  the check two awaits earlier saw (`ConnectionSteps`).

Search, images, page caches (`WebSpec`). `WebInv` joins the invariants of the
three parts; a step of one leaves the others.

- `NoListingTwice` and `SkipsStayInTheMillisecond`, by `SearchInv`. The pages were
  read from different states of the table, so nothing relates them but their
  cursors. `Chain` says what does: no row of a page is beyond the page's next
  cursor, and every row and cursor of a later page is beyond the next cursor of
  every earlier one (`Before` is a strict order on cursors although they have
  lost the microseconds, and `created_at` never changes, `RowsStay`). `Complete`
  says of the rows that stayed published that the list is not past them, or has
  them, or has a cursor in their millisecond. `PageOfCursor` is the argument for
  one page: the last row of a page exists because the set is finite, and a row
  that lies between it and its rounded cursor is of its millisecond
  (`SameMillisecond`). `ChainGrows` adds a page. Both hold of what is shown and
  of what a fetch has got, whether it goes on or starts anew.
- `WebTypeCorrect` needs counting (`Counted`): every page but the last has a row
  that no other has, so a refetch asks for at most one page more than there are
  listings.
- `ImageOrderIsKept`, by `ImagesInv`. `SortInv`: an upload's next order is above
  all it has seen and all it has inserted. `MetInv`: of two uploads one saw what
  the other inserted, or they overlapped. `CountInv` bounds the orders by the
  images stored. `NextSortIsAbove` says of the model's maximum that it
  exists and exceeds its set.
- `OwnChangesAreShown`, by `PagesInv`. `Fresh` is said of each query that is not
  `missed`, whether or not it loads: what it has is at least what the page was told
  of, or it is stale or empty, and an answer under way is at least that too. That the page's own queries miss only the
  first load is a fact of the table `Page` (`ListPagesFit`, `OtherPagesFit`,
  `PanelsApart`): each mutation invalidates the queries that read what it writes.

Only model-checked: liveness (`PromiseKept`, `PaidSubscriptionActivates`,
`MatchesAreHandedOver`, `RequestsEnd` and `ScrollsToTheEnd`),
since the prover has no rules for fairness and `ENABLED`. Every invariant and
every safety part of a refinement that a passing run checks is a theorem.

## 5. Not modelled, and the plan

Left out for good: presentation, analytics queries, the cipher, message wording,
signatures as such, and PostgreSQL's crash behaviour (a statement happens or does
not). Currency is copied, never converted, and is left out; so is
`raw_response`. Further:

- Sessions: the refresh cookie's age of seven days, and the refresh of a
  customer, which no page of the web app calls. A customer's login by e-mail
  cannot succeed: `setPasswordHash()` has no caller. The console's development
  proxy (`/api`), under which the cookie's path would match nothing.
- Facebook: a webhook call with entries of several pages. The controller resolves
  the tenant of the first entry only (`facebook.controller.ts:67`); deliveries
  are modelled with one.
- Search: the server's time zone is taken to be UTC, as the cursor is.
- Templates, support, amenities: one row by its id; nothing else depends on it.
  `assertStaffLimit()` has no caller.
- Tenant context and guards: a pure function of the request and per-request
  storage; the models are of one tenant or name it.
- Dashboards, analytics, payment and login pages, which read or make one call,
  and the local state of forms (the settings form overwrites what is typed when
  its query is fetched again, `BrandingPage.tsx:41`).
- Migrations, seeds and the stubs under `jobs/`: nothing starts them. Their
  unique indexes and plans are what the models use.


What could follow: a refresh by customers once a page calls it, webhook calls
with entries of several pages, and an abstract specification of the scroll, which
the invariants of its proof nearly state.
