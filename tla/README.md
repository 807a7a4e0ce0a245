# A verification project for the sales CRM

The repository is a NestJS server (TypeScript, `src/src/`) over PostgreSQL
(Prisma) and Redis (BullMQ). A tenant's owner and managers use it to work on
leads, turn them into deals that take goods out of warehouses, quote deliveries,
and pay the managers' commissions. This directory holds TLA+ models of it, the
TLC configurations that check them on small instances, and proofs checked by
TLAPS that hold for every size.

Paths below are relative to the repository (`src/deals/...` is the server,
`prisma/` the schema, `test/` the end-to-end tests).

## 1. The system

Every HTTP request is handled by one asynchronous function. Node runs one
function at a time but switches at every `await`, and several server processes
may share the database; so between two database statements of a request anything
may happen. PostgreSQL runs at READ COMMITTED, and the code neither raises the
isolation level nor locks rows explicitly. What makes an operation atomic is
either a single conditional statement, a constraint of the schema, or
`$transaction`; a check made by an earlier statement protects nothing.

| Component | State | Operations | Interacts with | Hard about it |
|---|---|---|---|---|
| **Deals** `deals/deals.service.ts` | `Deal` and `DealItem` rows, `Stock.quantity` | `create`, `changeStatus`; reads | leads, users, warehouses, products, delivery quotes (reads them before its transaction), stock (writes) | concurrent reservations, lock order, rollback between items, stale reads |
| **Deal life cycle** `deals/deal-status-transitions.ts` | none | tables of statuses | deals, payouts, analytics | the tables have to fit each other |
| **Payouts** `payouts/payouts.service.ts` | `Payout` rows, `Deal.payoutId` | `preview`, `generate`, `update`, `approve`, `markPaid`, `sendEmail`, `sendBulk` | deals (reads, links), users (salary), mail queue | a deal must be paid for once; status and amounts are checked before they are written |
| **Stock, warehouses** `catalog/stock`, `catalog/warehouses` | `Stock`, `Warehouse.isActive` | `setQuantity`, `create`, `update`, `deactivate`, `reactivate` | deals, delivery | a count against running reservations; an upsert against another |
| **Products, categories, delivery options, scripts** `catalog/...`, `scripts/...` | their rows | create, update, (de)activate, remove | deals copy names and prices at creation; delivery reads | a row goes between find and write; foreign keys |
| **Leads** `leads/leads.service.ts` | `Lead` rows | `create`, `update`, `changeStatus`, `assign`, `remove` | users, deals, SLA check | `firstResponseAt` is stamped after a read |
| **Users** `users/users.service.ts` | `User` rows | create, update, block, unblock, delete managers | auth (sessions), leads, deals, payouts | the account is blocked first, its sessions end later |
| **Auth** `auth/auth.service.ts` | refresh and reset tokens | `login`, `refresh`, `logout`, `forgotPassword`, `resetPassword` | users, mail queue | rotation of tokens, in two writes, against everything that ends sessions |
| **Guards and routes** `common/guards/...`, the controllers, `app.module.ts` | none | authenticate, establish the tenant, check the role, dispatch | every handler | order of declaration decides which handler a path reaches |
| **Tenant scoping** `common/prisma/tenant.extension.ts` | the tenant of the current request, in its CLS store | adds a condition to every statement | everybody | rows without a tenant of their own, raw SQL, background jobs |
| **Notifications** `notifications/...` | `Notification` rows, two repeating jobs | SLA check, daily digest, `notify`, `markRead`, `markAllRead` | leads, users, Telegram, mail queue | one notification per lead; row first, delivery later; one job for all tenants |
| **Mailer** `mailer/...` | the BullMQ queue | `enqueue`, job with three attempts | everybody who mails | retries |
| **Delivery calculation** `delivery-calc/...` | `DeliveryQuote` rows, Redis cache | `quote` fans out over the warehouses that have everything; `createManualQuote` | stock, warehouses, options (reads), the estimator's API; deals link the quotes | one of several variants fails; requests share the cache |
| **Analytics** `analytics/analytics.service.ts` | none | six reports | deals, leads (reads) | tenant filtered by hand in raw SQL; a report of many queries |
| **Configuration, seed** `common/config/env.validation.ts`, `prisma/seed.ts`, `main.ts` | first tenant and owner | validate the environment, create the owner once, mail the password | mail, auth | stopping halfway, restarts |

What makes them correct:

- Deals: goods are never oversold, lost or invented; a deal takes all of its
  goods or is not created; returned goods come back once; the commission terms
  are frozen at creation; a quote prices one deal; no deal loses its lead; no
  request waits for ever.
- Payouts: a deal is counted once, by a payout of its own manager and period; a
  payout's commission is the sum of the deals it lists; the status goes forward,
  approved amounts stay; the manager is told the truth.
- Leads and notifications: the first response of a lead is on record once it has
  left `NEW`; a late lead is reported, once, and nobody who answered in time is; a
  recorded notification goes out by Telegram or by mail.
- Mails: a job is completed only when its mail left, and given up only after all
  attempts, or its worker's second death.
- Auth: what ended a session ended it for good; a refresh token buys one new
  pair and a mailed link one new password; the owner can always come back.
- Requests: the handler that was meant serves it; it reaches rows of its user's
  tenant, a manager only what is the manager's, a blocked user nothing.
- Delivery: every warehouse that is offered had everything; a failing estimator
  fails no request; a quote was made for its own route and weight; every request
  is answered. Catalog: two editors break no reference and are told of the race.
- Analytics: the reports agree with each other and with the SLA check.
- Start and digest: one tenant and owner, whatever died on the way; every owner
  gets the digest of the day.

`PROJECT.json` lists each component with what is modelled of it, and under
`hazards` the places in the code where things can go wrong in ways tests hardly
reach.

## 2. The modules

| Module | Models |
|---|---|
| `DealStatus` | the tables of `deal-status-transitions.ts` |
| `DealLedger` | abstract: what deals promise to a reader of the database |
| `Deals` | `DealsService` step by step, with the writes of other services it races with |
| `DealsProofs` | theorems about `Deals`, and that it implements `DealLedger` |
| `PayoutLedger` | abstract: what payouts promise to a reader of the database |
| `Payouts` | `PayoutsService` step by step |
| `PayoutsProofs` | theorems about `Payouts`, and that it implements `PayoutLedger` |
| `Leads` | `LeadsService` step by step, with the manager accounts it reads |
| `LeadsProofs` | theorems about `Leads` |
| `MailQueue` | the mail queue: `MailQueueService`, `MailProcessor`, BullMQ's attempts |
| `Notifications` | the SLA check and `notify`, composed with `Leads` and `MailQueue` |
| `Boot` | the container: `prisma/seed.ts`, the validation of the environment, restarts |
| `Sessions` | `AuthService` and the account operations of `UsersService`, on the server that `Boot` brings up |
| `Requests` | routes, guards, tenant scoping: the way of any request to the rows |
| `Digest` | the daily digest, and the reading of notifications |
| `Catalog` | the CRUD services of the catalog and the scripts |
| `Delivery` | `DeliveryCalcService` over the `Catalog` that is edited meanwhile |
| `Reports` | `AnalyticsService` over deals and leads that change |
| `NotificationsProofs` | theorems about `MailQueue` and `Notifications`, and that this implements `Leads` and `MailQueue` |
| `SessionsProofs` | theorems about `Boot` and `Sessions`, and that this implements `Boot` |
| `PlatformProofs` | theorems about `Requests` and `Digest` |
| `OffersProofs` | theorems about `Catalog`, `Delivery` and `Reports` |
| `Sums` | a library of lemmas: induction over finite sets, sums over them, sizes of groups |
| `MCDeals`, `MCPayouts`, `MCNotifications`, `MCPlatform`, `MCOffers` | values and restrictions for TLC |

### Deals

A *handler* is a request in flight. `pc[h]` says before which `await` it stands:

| `pc` | code | actions |
|---|---|---|
| `idle` | the request arrives; `getAccessibleLead` / `findOrThrow` | `CreateBegin`, `StatusBegin` |
| `warehouse` | lookup of an active warehouse | `CreateReadWarehouse` |
| `manager` | the manager's commission percent | `CreateReadManager` |
| `delivery` | `resolveDelivery` | `CreateReadDelivery` |
| `reserve` | the transaction of `create` | `ReserveItem`, `ReserveShort`, `InsertDeal`, `InsertFails` |
| `change` | the transaction of `changeStatus` | `RestoreItem`, `WriteStatus` |

`form[h]` is the `Deal` row a create puts together, or the row a status change
has read and still believes in; `goal[h]` is what the status change will write.
Validation errors that depend on the request's data only are one action,
`CreateRejected`. `SetQuantity`, `SetActive`, `AssignLead`, `RemoveLead` and
`SetRate` are the writes of the stock, warehouses, leads and users services.

Transactions. `ReserveItem` is the conditional `updateMany` of the code: it waits
for the row lock, reads the committed quantity again, and takes the goods only if
they suffice. A row has therefore two versions, `stock` (committed) and `draft`
(the version of the transaction that holds `lock`), and a commit publishes the
drafts of the rows held. `Abort` ends a transaction at any moment: deadlock
victim, transaction timeout of Prisma, death of the process.

`restored`, `supply` and `paidRates` are history variables, written beside the
code's assignments and read by no guard.

Data left out: names, addresses, prices, discounts, notes (copied into the deal
and never decided upon after the validation), pagination, response objects. A
deal's totals are part of the snapshot that never changes and need no variable.

### Payouts

`pc[h]` is `generate`, `update`, `approve`, `pay`, `tellApproved`, `tellPaid`,
`send` or `idle`; `req[h]` is what the request has read so far. `generate` reads
the managers with their salaries (`GenerateBegin`), sums the unclaimed
commissionable deals of each (`CalcManager`, one `findMany` per manager), and then
writes one payout and its links per manager (`WriteManager`) or skips a manager
with nothing to pay (`SkipManager`). `update`, `approve` and `markPaid` read and
check the row (`...Begin`) and write it in a later step (`...Write`). `Tell` hands
the optional message to the mail queue. `sendBulk` queues statements one by one
(`SendOne`) and stamps them together (`SendStamp`). `Fail` ends a request between
any two steps. Deals move along the tables of `DealStatus`, which is what
`DealLedger` promises about them.

The transactions of this service are single steps, unlike those of `Deals`: they
contain no statement whose result decides another, and two `updateMany` on the
same deals end in the state that some serial order ends in.

`counted` (the deals summed into a payout, whatever happens to their links) and
`written` (which writes of a payout were made: adjusted amounts, `APPROVED`, `PAID`)
are history variables. `SendOne` is the whole of `enqueueStatementEmail`: what it
reads for the text of the mail decides on nothing here.

### Leads, notifications, mails

`Leads` has the handlers of `Deals` again: `status`, `assignee`, `assign`,
`remove` and `idle` are the `await`s of `changeStatus`, `assign` and `remove`. What
`changeStatus` decides (`req[h].stamp`: is this the first response?) it decides on
the row it has read, and `StatusWrite` writes it to the row as it is then. Leads
are created, accounts blocked, unblocked and deleted, and deals inserted by single
statements, which are single actions. The foreign key refuses to remove a lead
that has a deal.

`MailQueue` follows a job through `waiting`, `active`, `sent`/`failing` and
`completed`/`failed`. `SendFails` covers templates, connections, and servers that
took the mail but whose answer was lost; `GiveBack` is `logDeliveryFailure` with
the rethrown error, after which BullMQ counts an attempt. `Stall` is the death of
the process: BullMQ runs a job that stalled once again, without counting an
attempt, and fails it when it stalls a second time (`stalls`, `MaxStalled`).

`Notifications` EXTENDS both and interleaves them. A worker runs one query for all
late leads (`SlaBegin`: `todo` keeps the managers it found), then lead by lead
looks for an earlier row (`SlaSkip`, `SlaTake`) and runs `notify`: `RecordRow`,
`ReadRecipient`, `TelegramSent` or `TelegramFails`, `EnqueueMail`. `JobFails` ends
the job at any step. `GrowLate` is the clock: a lead becomes older than
`slaMinutes`. The mail of a lead and a worker is one of `Mails`.

`responses` (how often a lead was stamped), `accepted` (mails the server took),
`dropped` (leads in hand when a job failed) and `inTime` (leads answered before
they were late) are history variables. Contact data, the texts of messages and the
other lead statuses are left out: nothing in these modules tells the statuses
besides `NEW` apart.

### Start and sessions

`Boot`: the container goes from `down` through `seed`, `create`, `mail` and `start`
to `serving`, as `docker-compose.prod.yml` and the `Dockerfile` order the seed and
the server; `EditEnv` is the operator. Variables of `.env` are in four groups,
each of which is set or not. `secret` says who has the owner's first password:
it exists in clear in the seed's process and its mail alone.

`Sessions` EXTENDS `Boot`: no request runs unless it serves, and `Install` joins
each step of the container with what it does to requests in flight and to the
owner's account. `spc[a]` is what an asker does next:

| `spc` | code | actions |
|---|---|---|
| `idle` | the request arrives and does its first statement | `LoginBegin`, `RefreshBegin`, `Logout`, `ForgotCreate`, `ResetBegin`, `CreateManager`, `Deactivate`, `Unblock` |
| `owner`, `rotate`, `reuse` | `refresh`: read the user, revoke the token; or end all sessions | `RefreshReadUser`, `RefreshRotate`, `RefreshReuse` |
| `issue`, `fill` | `issueTokens`: the row without a hash, then the hash | `IssuePlaceholder`, `IssueFill` |
| `mail` | `forgotPassword` hands the link to the queue | `ForgotMail` |
| `reset` | the transaction of `resetPassword` | `ResetCommit` |
| `end` | block or delete: `updateMany` over the tokens | `RevokeAll` |

Hashes, mail addresses and JWT signatures are left out: a client presents a token
that was issued, and it verifies until it expires. `swaps` (exchanges of a token
or uses of a link), `contested` (two requests were at one token or link at the
same time) and a token's `ended` (some step was to end all of its user's
sessions) are history.

### Requests

`Routes` lists what the controllers declare, in the order in which Nest registers
them: verb, path, roles, and the accesses of the handler to the database in
their order (`Get`, `Mine`, `List`, `Put`, ...). `Dispatch` picks the first route
that matches the path of a request. A request then passes `Authenticate`,
`EstablishTenant` and `CheckRole`, and makes one access at a time, between those
of other requests. `InScope` is the condition the tenant extension adds from the
CLS store of that request; `Below`, `SetBelow` and `Shift` are accesses the
extension does not scope, which reach rows through a parent that was found: a
read, a write by hand (a count of stock, the tokens of an account), and the goods
a deal takes or returns. `SetSelf` is the write of one's own profile, `Ask` a
look whether a row is there, `Hand` raw SQL with its own condition. Reads of the
user's own `Tenant` row are left out. Background jobs (`StartJob`) bring their tenant.

A row stands for the rows of all models with one id, and an access says of which
model it is. What handlers write is in the other modules; here it counts whose
rows they reach. `reached`, `got`, `theirs` (leads that were the user's at some
time during the request) and `admitted` (the user was active at some time during
it) are history.

### Digest

`job` goes through `due`, `firm`, `count`, `owner` and `deliver`: all active
tenants, their owners and the counts, then `notify` for each owner. One of the
four counts, that of new leads, stands for all; the delivery of a recorded row is
one step, since `Notifications` has its parts. `DigestFails` is an error, after
which nobody tries again (the job has one attempt); `DigestDies` is the death of
the process, after which BullMQ runs the stalled job once more from its start.
`MarkRead` and `MarkAllRead` are the users. `owed` is history.

### Catalog and delivery

`Catalog`: an editor's request finds its row (`FindOrThrow`) and writes it in a
later statement (`WriteRow`), which the other editor may have made impossible;
`StatusOf` is what the exception filter makes of the error. `setQuantity` finds
both parents (`FindParents`) and upserts, which is a look and an insert or update
(`LookForStock`, `PutStock`). A row keeps what others depend on: whether it is
there, active, its category, and a price of two values.

`Delivery` EXTENDS `Catalog`. `qpc[c]` follows a quote request through the stock
query, the query of the included warehouses (`QuoteReadActive`: Prisma loads them
by a second statement) and the fan-out; `vpc[c][w]` follows the variant of one
warehouse, as the promises of `Promise.all` run side by side: `cache`, `estimate`,
`store`, `insert`, `done`. When one throws, the request fails at once and the
others run on. A goods list is one piece of each product with a weight; an
estimate is a price, a term, and whether these fit the columns of `DeliveryQuote`.
The row also holds the weight of the goods, which no check bounds, so the insert
succeeds only if the estimate and the weight fit (`Stores`, `MaxKg` for
`Decimal(6, 2)`). A key of the cache is a triple, where the code joins its parts
with `:`; cities whose names contain that sign are left out.
`had` and `open` are history.

### Reports

The reports of one query are operators on the rows (`Revenue`, `TopProducts`,
`PurchaseDistribution`, `Funnel`, `SlaMetrics`); `managersComparison` is a sequence
of actions, four queries per manager, between which deals and leads change.
Instants, hours, days and weeks form a small calendar. A deal's facts (tenant,
manager, total, items) never change, which `SnapshotFixed` of `Deals` says; its
status moves along `DealStatus`.

### The abstractions

`DealLedger` knows neither requests, locks nor drafts. A deal opens by taking all
of its goods in one step, moves along the table, and gives everything back in the
step that enters `CANCELLED` or `REFUNDED`. The mapping takes `stock` as it is
(the committed versions), a deal's status from its row and its items from its
row. Row-by-row updates inside a transaction become stutters and the commit
becomes the abstract step.

`PayoutLedger` knows neither requests nor what they have read. A payout is issued
in one step over deals that no payout claims, with the sum of their commissions;
an adjustment of a draft starts from the amounts the draft has; approval and
payment follow each other. `Payouts` maps its rows to these without `approvedAt`
and `emailSentAt` (`Statements`), and `Deal.payoutId` to the claims of each payout
(`Claims`). The step that writes becomes the abstract step; every read before it,
every mail handed to
the queue and every move of a deal is invisible.

## 3. The runs

| Run | Question | Instance |
|---|---|---|
| `deals_races` | Do overlapping reservations, returns and counts keep the goods in order, and do the rows a create has read change under it without harm? | 2 requests, 2 deals, 1 warehouse with 2 products (two rows to lock, in either order), counts of 1 or 2, carts of one or both, everything but `SHIPPED` and `COMPLETED`; or 1 lead, 1 manager, 2 rates, 1 quote, creates and cancellations; 479,000 states |
| `deals_serial` | Do the committed rows implement `DealLedger` as long as no two status changes of a deal overlap? | 2 requests, 2 deals, 2 stock rows |
| `deals_live` | Is every request answered, whatever order it locks its rows in? | 2 requests, 1 deal, 2 stock rows, no symmetry |
| `deals_double_restore` | May a deal's goods come back twice? (yes) | 2 requests, 1 deal, 1 row |
| `payouts_overlap` | Do overlapping generations and mailings keep a payout's claims and stamps right, and do overlapping adjustments, approvals and payments keep its story straight? | 2 requests, 2 managers with a deal each, overlapping periods, 2 payouts, a new salary or a total of zero; 456,000 states |
| `payouts_serial` | One generate, and one settling request of a payout, at a time: is every deal paid once, does a payout only go forward, and do the committed rows implement `PayoutLedger`? | 2 requests, 2 managers, 2 deals, 2 payouts |
| `payouts_double_claim` | May two payouts count one deal? (yes) | 2 requests, 1 deal, 2 payouts |
| `payouts_late_adjust` | May an approved payout change its amounts? (yes) | 2 requests, 1 payout |
| `notifications_check` | Are late leads reported once, no lead answered in time, and no notification lost but by a failed job? | 2 requests on a lead, 1 manager who may be blocked or deleted, 1 worker, 1 failed job, mails with 3 attempts; 726,000 states |
| `notifications_live` | Is every lead that stays late reported, and every mail settled? | 2 leads, 1 worker, 1 failed job, mails with 2 attempts, no symmetry; 88,000 states |
| `platform_check` | Does an installation come up with one owner, are sessions used once and ended for good, does every route serve the right user the right rows, is everybody sent the digest? | 1 death of the container; 2 askers, 2 accounts, 2 refresh tokens, 1 reset link; 2 requests or a job, 2 tenants with 4 users; 3 tenants of which one has no owner, 1 lead, 1 day of digests; 360,000 states |
| `offers_check` | Do two editors keep the catalog sound, is every quote right and every request answered, do the reports agree? | 2 editors, 2 warehouses, 1 product, 1 category, option and script; 2 quote requests, 2 destinations, 3 weights of which one does not fit the database, 4 estimates of which one is refused and one does not fit either; 3 deals of 2 tenants, 3 leads, 2 managers, 3 instants; 123,000 states |

Bounds. Two requests are enough for every race listed as a hazard: each is one
request overtaking another between its read and its write. Two stock rows are
the least that gives lock cycles and transactions rolled back halfway; two deals
the least for a competition for goods or for a quote. `DealIds` and `PayoutIds`
bound how many rows are ever created, and `Counts`, `Carts`, `Rates`, `Salaries`
and `Patches` the values that requests carry. `MaxFailures` bounds the jobs of the
SLA check that fail, and one is enough to lose a notification and to start over;
two mail attempts are enough to tell a retry from giving up.

Two refresh tokens are one before and one after a rotation, or one for each of
two logins; the second request at a token needs no third. `MaxCrashes` of 1 lets the container die at each step of the
seed, of the start and of any request, once, and it goes down as often as a step
fails besides. Four quote rows (`MaxQuotes`) are two requests with two variants
each, which is the least for cache entries shared by requests of one route. The
weights 5 and 6 are the last of one bucket and the first of the next, and 7 shares
the bucket of 6, and so its cache entry, but exceeds `MaxKg`. Three
instants with days of two hours and weeks of two days put deals into
different hours and days; a lead of instant 0 becomes late at instant 2.

The restrictions in the MC modules leave out some actions in one run so that
others can be combined fully: `RacesSpec` lets a behaviour be about goods or about
the rows a deal refers to (`GoodsMove`, `RefsMove`); `OverlapSpec` lets requests
either claim deals or settle a payout; `MCSerialSpec` and `LiveSpec` narrow the
requests. `MCPlatform` and `MCOffers` hold three modules each that share no
variable that matters; a behaviour is about one of them, its `part`, and the
others stay as they start. Within a part, requests are combined by the races they
can have: logins, refreshes and changes of accounts, or logins and refreshes beside a
password reset, with a refresh only if the container has not died (`Running`); any request of any route beside a job of the other tenant or an
assignment of leads (`TwoAtATime`); editors at one product and its category, one
warehouse and its stock, or an option and a script (`Topics`); two quote requests
that share a cache, or one during edits (`TwoQuotes`, `QuoteAndEdit`); reports
over deals or over leads (`DealsMove`, `LeadsMove`). Every action happens in some run, and the theorems below need no such
restriction.

`CHECK_DEADLOCK` is off: when all ids are used and nobody sends a request the
bounded instance may stop. The same holds where rows to create, quotes, days or
instants run out.

### Properties

Deals, whatever overlaps: `LockDiscipline` (uncommitted quantities belong to open
transactions and are exactly what these take or give), `StockNonNegative`,
`Conservation` (a row's quantity is its last count minus the goods out with
deals), `QuoteLinkedOnce`, `LeadKept`, `RateOfOwnManager`, `SnapshotFixed`,
`RequestsAnswered`. As long as status changes of one deal do not
overlap: `RestoredExactlyOnce`, `ReturnedIsFinal`, `ImplementsLedger`.

Payouts, whatever overlaps: `LinkedToOwnPayout`, `PaidWasApproved`,
`SentWasQueued`, `ToldTheTruth`. One request of a kind at a time:
`NeverDoubleCounted`, `StatementAddsUp`, `FrozenAfterApproval`,
`ImplementsLedger`. The last one also says that the status only goes forward, and
that the amounts of a payout adjusted by hand are what the adjustments, one on top
of the other, make of them.

Leads: `AnsweredIsStamped` (a lead that has left `NEW`, if only for a while, has a
first response on record, for that is all the SLA check asks). Notifications:
`OneNotificationPerLead`, `NothingLostQuietly`, `InTimeIsNotReported`,
`BreachReported`. Mails: `OutcomeIsTrue`, `MailSettled`.

Sessions: `SessionsHold` is `EndedStaysEnded` (what was to end all sessions of a
user leaves no token of his usable, those being issued included) and `UsedOnce`
(unless two requests were at it together, a token or link is used once). Start:
`OwnerKept` is `SeededOnce` and `OwnerCanReturn` (whenever the server runs the owner
can have his password reset, also if the mail with the first one never came);
`ComesUp`: with a complete `.env` the server comes up.

Requests: `RowsOfOwn` is `OwnTenantOnly` and `KeptToTheirOwn`; `GuardsHold` is
`RightHandler` (no route with a literal segment is taken for one with a
parameter; a fact about the declared table), `BlockedStaysOut` and
`ManagersOnlySell`, all for every declared route. `ForManagers` says what a
handler may do for a manager: change leads, deals, scripts, notifications and
quotes, move stock for a deal and set his own name, but write nothing of the
catalog, the stock, the accounts, the payouts or the assignment of leads, and be
shown neither the staff, nor the figures of the deals, nor leads, deals, payouts
and notifications that are not narrowed to his own.

Digest: `DigestHolds` is `DigestReachesAll` and `DigestIsOwn`.

Catalog: `CatalogHolds` is `RacesAnswered` (no race of two editors is answered by a
500) and `CategoriesResolve`. Delivery: `OffersHold` is `OfferedHadAll`,
`SortedForClient` and `QuoteIsOwn`; `FailsForReason` (with a database that answers, a request
fails only because the cache cannot be read, or an estimate or a weight not be
stored; a failing estimator fails none); `QuotesAnswered`. Reports: `ReportsHold` is `ReportsAgree`, `TopIsTop` and
`SlaMetricsFair`; `ComparisonHolds`.

`NothingLostQuietly` excepts the lead a failed job had in hand: its row is written
before the delivery, and the next check skips it. That is a weakness of the code
which no document denies; the property shows that it is the only one, and that
Telegram failing in any way is not another.

`Conservation` holds even when a deal is cancelled twice, because it counts how
often goods came back (`restored`); that they come back once is a property of its
own, and it is the one that fails.

Each property of a passing run has a mutant (`Mut_...`, next to the definition it
replaces): a plausible bug, such as a dropped condition or a lock not released,
which the run then catches. `GuardsHold` has two: a blocked user let in, and the stock
opened to every role.

### Environment assumptions

`SerialSpec` in `Deals` and in `Payouts` restricts the environment to requests
that do not overlap on the same deal or payout (`NoOverlap`). Nothing in the code
enforces it; one owner with one browser window mostly does. The serial results
say what the code guarantees to such a user; the findings say what happens
otherwise.

`notifications_check` and `notifications_live` have one worker. The production
compose file (`docker-compose.prod.yml`) starts one `api` container, and a BullMQ
worker of the default concurrency runs one job at a time. With two workers both
may find no notification for a lead and write one each: `OneNotificationPerLead`
is a property of this deployment.

`BlockedStaysOut` and `KeptToTheirOwn` speak of the time of the whole request: a
user who is blocked after `JwtStrategy` has read his row still gets his answer, and
a manager may read a lead that is being assigned away.

Fairness. For deals, `FairSpec` assumes weak fairness of `Handle(h)`, the server taking the
next step of a request it has accepted, and of `Abort(h)`: a transaction that
stays able to be aborted is aborted in the end. PostgreSQL's deadlock detection
and Prisma's limit on interactive transactions do that. Without the second,
two requests that lock two rows in opposite orders wait for ever. Clients owe
nothing: no request has to arrive.

For notifications, `Fairness` assumes weak fairness of `Check(w)` (BullMQ starts
the job every minute, and the worker takes its next step) and of `Process(x)` (the
mail worker keeps running). Nothing is assumed of deliveries: Telegram and SMTP
may fail for ever, but jobs end with an error only `MaxFailures` times, since a
database that always fails lets nothing happen.

`BootFairness` is weak fairness of the steps of the container: its restart policy
is `unless-stopped`, and each step either succeeds or fails. `MaxCrashes` bounds
the deaths besides; a mail that fails needs no bound, since the seed does not
repeat it. `DeliveryFairness` is weak fairness of every step of a quote request:
the event loop goes on with every promise that is settled, and each call out of
the process is settled in the end (`fetch` has a default timeout, Redis and the
database answer or fail).

### Findings

- `deals_double_restore`: `changeStatus` checks the transition on a row read
  before its transaction, and its `update` does not repeat the check. Two
  overlapping cancellations both pass and both give the goods back. The same gap
  lets a change to `WAITING_PAYMENT` write over a cancellation, so that a deal
  goes on whose goods were returned (`ReturnedIsFinal` fails outside the serial
  environment).
- `payouts_double_claim`: the filter `payoutId: null` is evaluated when the
  commissions are calculated and not repeated when the deals are linked. Two
  overlapping generations both sum the deal, and the second takes over the link,
  so that the first statement no longer adds up.
- `payouts_late_adjust`: an adjustment that has read a `DRAFT` writes its amounts
  after the approval. In the same way a slow approval writes `APPROVED` over a
  payment (`StatusForwardOnly` fails outside the serial environment), while
  `PaidWasApproved` survives both races.

A conditional update (`updateMany` with the expected status, as `create` already
does for stock) would close all three.

What else the models show, where the repository promises nothing else:

- Of two overlapping first changes of a lead's status both stamp
  `firstResponseAt`, and the later time stays. `AnsweredIsStamped` survives.
- A login or a refresh that is under way while its user is blocked or his
  password reset still gets a session; the access token is judged again on every
  request, so a blocked user can do nothing with it.
- A client that lost the answer to a refresh and repeats it ends all of its
  sessions: the repetition looks like a stolen token.
- A deal is accepted for a warehouse that was deactivated after `create` read it.
- A deal that is refunded after its commission was summed is still paid for, and
  a second `generate` for a period pays the base salary again.
- The digest of 08:00 counts the day from 00:00 to 24:00, so that what happens
  after 08:00 is in no digest. An error for one owner ends the job for all that
  come after him; a death of the process may give owners a second digest.
- An estimate that passes the checks but does not fit the columns of
  `DeliveryQuote` is cached before its row is refused; until the entry expires,
  every request with this route fails. Goods of more than 9999.99 kg fail each
  request that has a delivery to estimate, whatever the estimate.
- The stock of an offer and the activity of its warehouse are read by two
  queries: they may never have held at the same moment.
- A lead that is assigned anew between two queries of `managersComparison` counts
  for both managers or for neither.

## 4. The proofs

TLAPS checks `Sums` and seven modules of theorems completely. They rest on the named
`ASSUME`s of the modules they are about and on nothing else:

- values that stand for nothing (`Free`, `NoQuote`, `Unassigned`, `Keep`, `Nobody`,
  `NoFirm`, `Missing`, ...) are told apart from the ids they stand beside; carts, counts,
  amounts, weights and terms are natural numbers;
- ids of different tables are different where a model keeps several tables in one
  function (`Tokens` and `Links`; the rows of the `Catalog`), and the owners of two
  tenants are different users;
- where something is summed or counted, the rows are finitely many: `DealIds`, `Sales`,
  `Goods`, `Prospects`, `Visitors`;
- the deals of the tenant that asks belong to its managers or its owner, as the
  foreign key and `DealsService.create` have it (`Reports`);
- a term that fits the column of `DeliveryQuote` is below `Unranked`, the
  `MAX_SAFE_INTEGER` that offers without a quote are sorted by.

Nothing is assumed about how many handlers, workers, users, tenants, warehouses or rows
there are.

`Sums` gets induction over a finite set out of the well-foundedness of its strict subsets
(`SubsetInduction`), with the statement given as the set of subsets it holds of. From it
follow what a fold depends on (`FoldsSplit`: the order does not matter), how a sum changes
with one of its terms (`SumUpdate`), that a sum over groups is the sum over all
(`SumOfGroups`, `CountOfGroups`), and that sums of natural numbers are such.

Deals:

- `TypeCorrect`, one step per action.
- `NeverOversold`: `StockNonNegative` is inductive together with the types, since
  `ReserveItem` compares with the committed quantity under the lock.
- `LocksBelongToTransactions`: `LockDiscipline` needs that a handler outside a
  transaction holds no row, which it states itself.
- `QuoteUnique`, `LeadNeverLost`, `SnapshotNeverChanges`: from the constraint the
  INSERT checks, and from who writes `deal` at all (`DealSteps`).
- `RateIsOwn` needs `RateInv`: a create past the manager's lookup carries a rate
  its manager has had.
- `SerialRestores` and `SerialCloses` need `SerialInv`: a create still carries a
  fresh row (`CreateIsNew`), and the row a status change has read is the current
  one (`ReadIsCurrent`). That is what overlapping changes break.
- `SerialImplementsLedger` uses these and `LockDiscipline`: at the commit of a
  create the drafts are exactly the stock less the order (`CommitOfReserve`), at
  the commit of a status change the stock plus the deal's items
  (`CommitOfChange`); every other step leaves the abstract variables alone.

- `SerialReturnsAreFinal`: the transition a status change has checked is one of the
  current row, and there is none out of `CANCELLED` or `REFUNDED`.
- `GoodsConserved` needs `ConservationInv`: an id without a deal has given nothing back,
  and a status change carries the items of the deal it closes, since items never
  change. The goods out of a row are a sum over the deals of which a commit changes
  one term (`SumUpdate`). It holds whatever overlaps.

Payouts:

- `TypeCorrect`: what a request remembers fits where it stands, and the payouts
  it is about exist, because payouts are never deleted.
- `ClaimsAreOwn` needs `CalcInv`: what a generation has summed is its manager's
  and in its period.
- `NothingPaidUnapproved` needs `TellInv`: payouts about to be paid or told about
  have been approved. Approval is never undone.
- `NoFalseNotice` needs `RecordedInv`: a request about to tell of an approval or a
  payment follows the write of just that, whatever other requests wrote since
  (`NewTellers`, `WrittenGrows`).
- `StampsAreEarned` needs `SendInv`: what left a batch has been queued.
- `SerialGoesForward`, `SerialAmountsFreeze` need `CheckedInv`: the status a
  settling request has checked still holds.
- `SerialCountsOnce`, `SerialAddsUp` need `CountedIsLinked` (the deals a payout
  counted are the ones linked to it), `StillUnclaimed` (what a generation has
  summed is still unclaimed, which overlapping generations break) and `SumsInv`.
- `SerialImplementsLedger` uses all of these (`LedgerInv`), that an adjustment has
  read the amounts the payout still has (`ReadIsCurrent`), and that a generation
  carries salaries (`BaseIsSalary`). `WriteManager` is `Issue` because what it
  links is unclaimed (`WriteIssues`), `UpdateWrite` is `Adjust` because what it
  read is current (`UpdateAdjusts`), the writes of `approve` and `markPaid` are
  `Approve` and `Pay` because what they checked still holds, and a mailing is
  invisible (`StampInvisible`).

Leads:

- `LeadTypeCorrect`: what a request remembers fits where it stands.
- `AnswersAreStamped` needs `StampDecided`: a status change that has decided not
  to stamp has read an answered lead (or stays in `NEW`), and the lead it read is
  answered still, because nothing withdraws an answer (`LeadSteps`) and no id is
  used again. `LeavingNew` and `ResponsesStep` then say that a lead leaves `NEW`
  and is counted as answered only with a stamp.

Mails and notifications:

- `MailOutcome` needs that a mail that counts as sent was taken by the server
  (`SentWasTaken`). It says when a job is failed and when not: after `Attempts`
  failed attempts or the second death of its worker, and not before.
- `ImplementsLeads`, `ImplementsMailQueue`: every step of the composition is a step of
  the part or leaves it alone, so that `AnswersStayStamped` and
  `MailsOfChecksSettle` follow from the theorems about the parts.
- `NothingIsLostQuietly`: a recorded lead is with some worker, told, mailed or dropped
  with a job; `InTimeStaysUnreported` needs `InTimeInv`: no worker has ever found a lead
  that is not late, nor one that was answered before it was (`Untouched`). Both hold
  for any number of workers.
- `JobsApartNotifyOnce`: as long as no two jobs overlap (`OneAtATime`), the worker that
  found no notification for a lead is still right when it records one
  (`RecordIsFirst`). `OneWorkerNotifiesOnce` is the case of one worker.

Start and sessions:

- `SeedsOnce` needs `SeedInv`: the seed is about to create the tenant only while there
  is none. `ImplementsBoot` takes this to `Sessions`.
- `RowsReferToRows`: tokens, links and whatever a request remembers refer to rows that
  exist and belong to its user.
- `SessionsEndForGood`: of `EndedStaysEnded`, every step keeps what is ended
  (`TokensKept`) and new rows are not of an ended generation; `UsedOnce` needs `OnceInv`: a token
  or link outside `contested` has been used at most once, is spent if it was, and is
  in the hands of one request at most, and of none after its use.
- `OwnerIsKept` needs `ChiefInv`: the owner's account comes with the tenant and stays
  active and known by its email, since no operation reaches it.

Requests:

- `GuardsAreKept`: that the right handler takes a request is a fact about `Routes`
  alone (`InOrder`, by comparing the declared paths in groups). The rest and
  `RowsStayApart` come from `RequestInv`: the CLS store holds the tenant of the request
  or nothing (`InTenant`), every row in hand is of that tenant, a manager's handler
  consists of steps that keep to his rows (`Allowed`, `Shown`), and nothing is reached
  before the guards have let the request in (`Guarded`, `LetIn`). That the routes a
  manager gets past `CheckRole` to consist of steps `ForManagers` allows is again a fact
  about the declared table, controller by controller.

Digest:

- `DigestsAreWhole` needs `DigestInv`: during a job every owner but those of the tenants
  and owners still to come (`Missing`) has his digest (`Reached`), and none has more than
  `Allowance` gives him: one, or two if the process has died.

Catalog, delivery, reports:

- `EditorsAreAnswered` needs `CatalogInv`: a product refers to a category that is there,
  and an editor about to write has found a row of the kind it writes.
- `OffersAreTrue` and `RequestsFailForReason` need `DeliveryInv`: what a request has
  found had everything at some time of it (`Seen`), variants only run for warehouses
  found (`Placed`), what a variant carries is an estimate for its own route
  (`Holds`), which a cache entry is, too (`Cached`), quotes are of their route
  (`RowsOwn`), no two variants have the same (`RowsApart`), and the answer is in order
  (`Replied`).
- `ComparisonIsFair` needs `ComparisonInv`: between the two counts a manager has not got
  more leads than were counted, unless he is in `unsteady` (`CountStands`), and those
  still to come have won nothing (`Unwon`).
- `ReportsAreRight`: given the types of the rows (`RowsSound`), the reports agree, because each groups
  the same rows (`GroupsCounted`, `SumOfGroups`) and every counted deal is of a manager
  or the owner (`ManagersHaveAll`); what `ORDER BY` and `sort` return is a sorted
  permutation, which exists (`SortedExists`, by induction over the set) and from which
  follow the top list (`FirstOfSorted`) and the halves on either side of the median (`HalvesMeet`).

`DeliveryInv` and `ComparisonInv` were found with TLC as invariants of the parts of
`offers_check` before they were proved.

Only model-checked: the liveness properties (`RequestsAnswered`, `BreachReported`,
`MailSettled`, `ComesUp`, `QuotesAnswered`), which are beyond this prover; and what the
violation runs find. `OneNotificationPerLead` is proved under `OneAtATime` or for one
worker, and not true of two (see the assumptions on the environment). Every invariant and
every other action property that a run checks is a theorem. `SerialCloses`,
`SerialGoesForward` and `SeedsOnce` are only proved: no run checks `ClosedIffTerminal`,
`StatusForwardOnly` (which `ImplementsLedger` contains) or, by itself, `SeededOnce`.

## 5. Not modelled, and why

- Validation of requests: the DTO classes constrain and copy fields, and what they
  let through is the set of inputs each module enumerates.
- Mail templates, `renderScriptTemplate`, the SMTP, Telegram and DeepSeek clients:
  formatting and network calls, present as the outcomes they may have.
- CORS, helmet, Swagger, logging, the shape of responses and pagination: nothing
  in the system decides on them.
- The ranking of the product search; the averages and percentages of reports,
  which are quotients of what is counted here.
- The category a product is given: `ProductsService` stores the `categoryId` of the
  request under the foreign key alone, without looking it up through the tenant
  extension. `Catalog` has one tenant, and `Requests` follows rows that are read or
  written, not references between them.
- A change of a warehouse's city, which affects the routes of later quotes only.
- A database error outside a transaction in `Deals` is the same as a rejected
  request there.

Telegram, SMTP, PostgreSQL, Redis and the estimator are external and appear as the
steps they allow.

## 6. Plan

Done: every part that keeps or decides on state is modelled, and every invariant and
action property of the runs is proved. What is left, in this order:

1. `Deals` and `Payouts` composed: a payout against real status changes instead of the
   moves that `DealLedger` promises, and the refinement of both parts.
2. An abstract specification of sessions: a chain of tokens, of which the last is
   good.
3. The liveness arguments on paper, as ranking functions that a lemma states step by
   step.
