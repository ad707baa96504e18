# BetterBundle: specifications, checks and proofs

BetterBundle recommends products in Shopify stores and charges the merchant a
commission on the sales it can attribute to a recommendation. This directory
specifies the part of the repository where that can go wrong without anybody
noticing: background workers that take events from Kafka, talk to Shopify and
write to Postgres, and hourly sweeps that repair what the events missed.

Paths below are relative to `src/python-worker/app/` unless they begin with
`better-bundle/`.

## 1. The system

    storefront extensions ──orders, impressions──▶ Shopify
    Shopify ──webhooks──▶ admin app (Remix, better-bundle/app) ──▶ Kafka, Postgres
    Kafka ──▶ Python workers, one process per replica, all consumers in each
       shopify-events, data-collection-jobs ─▶ data collection consumer
       normalization-jobs                   ─▶ normalization consumer
       purchase-attribution-jobs            ─▶ attribution consumer
       shopify-usage-events                 ─▶ usage consumer ──▶ Shopify billing
    periodic loops in every worker (main.py:75-143), each under claim(name):
       commission, attribution, entity and billing reconcilers,
       ingestion backstop, FX refresher, enrichment sweeper, holdout tuner

| Component | State it keeps | Operations | Interacts with | What makes it correct |
|---|---|---|---|---|
| Commission charging (`domains/billing/services/commission_service_v2.py`, `shopify_usage_billing_service_v2.py`, `consumers/kafka/shopify_usage_consumer.py`) | `commission_records.status`, `shopify_usage_record_id`, `shop_subscriptions.paused` | create a commission and publish its event; take the event; Phase 1 read, Phase 2 call, Phase 3 write | Kafka, Shopify, the admin app that rewrites subscriptions | nobody is billed twice; a verdict is final and true; no commission is forgotten |
| Kafka client (`core/kafka/`, `core/config/kafka_settings.py`) | position, committed offset, assignment | send, consume, commit, restart of a failed consumer | every consumer | what is committed was handled |
| Commission reconciler (`commission_reconciler.py`, `billing/api/billing_api.py`) | `last_seen_period_end` in the subscription's metadata | Sweep 1 reopens CAPPED commissions, Sweep 2 republishes stale PENDING ones | charging, by rows and events; Shopify | undoes no verdict but CAPPED; what is stuck gets moving |
| Single-run claim (`core/single_run.py`, `core/database/engine.py`) | a session-level advisory lock, a pooled connection | claim, run the body, release | all periodic loops, Postgres, the pool | one body at a time; a leaked lock does not stop the job |
| Data collection consumer (`consumers/kafka/data_collection_consumer.py`) | reader task, bounded queue, current batch | read, put, take, flush on a timeout, run concurrently, commit | Kafka, collection | nothing is lost by batching; nothing waits for ever |
| Collection, storage, normalization (`domains/shopify/services/`) | raw rows, `product_data`, `collection_data`, `customer_data`, `order_data` | collect by id or in full, store raw, upsert, soft-delete | data collection consumer, Shopify | the local copy follows Shopify |
| Entity reconciler (`entity_reconciler.py`) | none between sweeps; an API budget within one | compare counts, page ids, read local ids, deactivate | Shopify, the rows above, racing webhooks | deactivates what is gone and nothing else |
| Attribution and its reconciler (`billing_service_v2.py`, `attribution_engine.py`, `attribution_reconciler.py`, `purchase_attribution_consumer.py`) | `order_data.attribution_state`, attempts, `purchase_attributions` | owe, attribute, retry, give up after five attempts | storage, charging | every order that owes an attribution gets one, and every one that earns a commission |
| Trial gate (`billing_repository_v2.py:298-461`, `commission_service_v2.py:52-358`) | TRIAL commissions, `shop_subscriptions.status` | record an order, sum, count, end the trial | commission creation, the admin app | the trial ends on evidence, and soon after it; nobody's approval is undone |
| Ingestion backstop (`domains/shopify/services/ingestion_backstop.py`) | none between sweeps | list recent orders, compare, republish | Shopify, `order_data`, the shopify-events topic | what webhooks, jobs or writes lost is made good |
| Billing reconciler, FX refresher, DLQ | reconciled cycles, rates, one topic | daily sweeps | Shopify, Postgres | see PROJECT.json |
| Subscription lifecycle, dunning, suspension (`better-bundle/app/routes/*billing*`, `services/dunning.service.ts`, `middleware/serviceSuspension.ts`) | `shop_subscriptions`, metadata, a Redis cache | activate, update, fail a payment, suspend, uninstall | charging, by the subscription row | an approved subscription serves the shop; what is billed is served |
| Recommendation engine, holdout and lift, storefront extensions, dashboards | scores, embeddings, statistics | read-only serving and numeric jobs | | not protocol state |

What is hard here:

* **Two workers with one event.** Kafka delivers at least once, the producer is
  not idempotent, the reconciler republishes, and a worker that lost its
  partition keeps working. Charging makes its Shopify call between two
  transactions.
* **Commits of positions.** `KafkaConsumer.commit` ignores the message it is
  given (`core/kafka/consumer.py:248`) and commits the whole position.
* **Errors turned into values.** Exceptions become `None`, `None` becomes a
  final verdict; commits and publishes fail by a return value nobody reads.
* **Sweeps that race what they repair**: reads of Shopify and of Postgres
  minutes apart, followed by an update based on both.
* **Locks that belong to a connection**, which a pool hands around.

`PROJECT.json` lists each hazard at its line, with the properties that answer
for it or the reason none does.

## 2. The modules

| Module | Models | Uses |
|---|---|---|
| `KafkaPartition` | one partition as one consumer group uses it: append, assign, fetch, commit of the position, leave | |
| `ChargeOnce` | abstract: a commission is billed at most once and decided at most once between two reopenings, RECORDED only if billed | |
| `CommissionCharging` | creation of a commission, its event, the usage consumer's three phases | `KafkaPartition`, implements `ChargeOnce` |
| `CommissionReconciler` | both sweeps over `CommissionCharging`, overlapping | `CommissionCharging`, implements `ChargeOnce` |
| `SingleRun` | `claim()` and the pool | |
| `BatchCollector` | reader, queue, batcher and commits of the data collection consumer | `KafkaPartition` |
| `CatalogSync` | one shop's local catalog: webhooks, backfill, normalization, deletion, and the entity reconciler's sweep | |
| `OrderIngestion` | one shop's orders from webhook to `order_data`: collection, raw upsert, normalization, and the ingestion backstop | |
| `OrderAttribution` | from a stored order to its commission: the debt, the job, the attribution, the reconciler | its `Bill` is the creation that `CommissionCharging` details |
| `TrialGate` | the transactions that record trial orders and end the trial | its `Approve` and `Close` are `ShopSubscription`'s |
| `ShopSubscription` | one shop's subscription rows and flag: webhooks, page loads, dunning, onboarding | |
| `*Proofs` | theorems about the module of that name (`CommissionProofs`: charging and its reconciler) | the module, `TLAPS` |
| `MC*` | values of the constants for the runs | the module |

Operators that begin a comment with "Seeded fault" are bugs a maintainer could
plausibly introduce. No specification uses them; `PROJECT.json` pairs each with
the property that must fail when it replaces the real definition.

### CommissionCharging

`status`, `usageRecord` and `paused` are columns; `sub` is what Phase 1's lookup
of an active subscription would find, which the admin app may change at any
time. `pc` and `cur` are what a worker is doing; an outcome in `pc` is a Phase 3
that has yet to run. `publishing` holds commissions committed but not yet
published (`commission_service_v2.py:120-148`). A SUSPENDED shop's commission is
created PENDING and not published (:126-133, as `test_stateless_billing.py:341-387`
asserts); `withheld` is a history variable of those, `dropped` one of the
commissions for which the code logged an error and went on. Phase 1 asks for an
active row with a line item and not for its status, so a suspended shop is
charged for what was published before (`Chargeable`). Each phase is one
action because each is one transaction or one awaited call; the early returns of
a phase are actions of their own (`SkipSettled`, `RejectUnchargeable`,
`SettleTooLate`). Shopify carries a call out or not, and its answer may be lost
either way. Amounts are left out; the TRIAL branch of
`create_commission_record` is in `TrialGate`.

`UserErrorOutcomes` is what a Shopify user error becomes. At this commit
`_classify_shopify_user_error` calls every one of them permanent, hence
`{"FAILED"}`; CAPPED is declared, read and reset by the code but no longer
produced. Runs with `{"FAILED", "CAPPED"}` cover rows written before, and a
classification restored; the violation run about charging uses `{"FAILED"}`.

### CommissionReconciler

One process `p \in Passes` per pass: hourly passes exclude each other by
`claim`, but `POST /reconcile-commissions` takes no claim, so the main run has
two. Each transaction and each awaited call is a step. A shop may have several
subscription rows (`SubRows`, `RowShop`), of which those with a Shopify id
(`Bound`) are candidates, active or not. A baseline goes to whichever row of the
shop the `LIMIT 1` without an order gives (:195-202): the one that was read,
another candidate, or one that is never read. `RaisedCapReopens` therefore speaks
of the baseline that a row carries itself. `cap` is what Shopify
returns as `cappedAmount.amount`, which the code remembers as
`last_seen_period_end`, for each candidate row; `LexAfter` is the comparison of its strings: the runs
use 90 and 200, for which `"90" > "200"`. `aged` abstracts `updated_at < now() -
1 hour`. The cutoff of Sweep 1 is SQL's `now()` and so excludes nothing.
`func.text("interval '1 hour'")` (:233) may itself make the query of Sweep 2
fail; `AbortPass` allows for that, and fairness assumes, in the code's favour,
that it does not fail every time. Shops that a pass cannot reach because of
`MAX_SHOPS_PER_SWEEP` are left out.

### SingleRun

`depth` is how often a session has taken the lock: advisory locks are
re-entrant in a session and survive the return of the connection to the pool.
`broken` are connections whose session Postgres has dropped without the client
knowing. `Recycle` is `pool_recycle`: a connection that is not checked out is
replaced when it is too old.

### BatchCollector

An event is its offset. `held` is what the reader is putting on the queue,
`End` being the marker its `finally` leaves; `phase` is where the batcher is. A
batch that is full runs at once, a partial one when the wait for the queue times
out, the last one in the `finally` clause (`closing`), after which the consumer
manager calls `start_consuming` again on the same consumer. `interrupted` is a
history variable: events in the hands of a process when it died. Shutdown does
not wait for the pipeline and is a `Crash`. The commit at :190 is left out: both
shop lookups before it return active shops only, so it is not reached.

### CatalogSync

Entities are ids that Shopify hands out in order and never reuses, each of one
kind (`ENTITY_CONFIGS`). `active` are local rows with `is_active = true`; `raw`
rows of the raw tables, which nothing deletes; `jobs` normalizations on their
way, which may run after the entity is gone. `Drafts` are products whose status
is not ACTIVE: stored inactive, but counted by `productsCount`; the status of an
entity does not change. A `Backfill` is one step that stores any part of what
Shopify lists; the job it publishes (`batchJob`) reads the raw rows when it is
taken up (`NormalizeBatch`), and each row is still stored by a step of its own.
A webhook's fetch may fail, after which nothing is stored or published
(`data_collection.py:916`, :974); a batch that cannot be stored is only logged and
the job published all the same (`data_storage.py:165`, although the comment at
:146 says what swallowing it did), so a job may find no raw row. Publishing is
best effort (`data_collection.py:672`), so is the normalization of one row. Webhooks for creation and deletion may be lost. The sweep has a step for each
await: local count, remote count, each page, local ids, update. `atStart` is
a history variable. One shop, and one sweep at a time (`claim`).
`api_budget_exhausted` (:276) is left out: `sweep_once` never calls with an
empty budget. So is a response without the expected connection (:180), after
which what was read so far is taken for the whole, as when the budget ends.

### OrderIngestion

An order's content is its version. A collector fetches the order as it is when
it asks, not as the event had it, and stores the raw row under the upsert's
WHERE (`Newer`). A normaliser reads the raw row in one session (`ReadRaw`) and
looks for the order row in another (`FindNoRow`, `OverwriteRow`), so both can be
stale by the time it writes. `rows[o][n]` is the row that normaliser `n`
inserted for `o`: more than one means duplicates, with which every look-up
raises and nothing can be written (`UpsertFails`). `owner` is the process that
Kafka gives the shop's partition; `overtaken` is a history variable that records
a rebalance under a job. A batch of normalizations (full collections) uses the
same rows by another method, `upsert_orders_batch`, and is left out, as is a
shop beyond the first page or the first 25 shops of a sweep.

### OrderAttribution

`state` and `attempts` are columns of `order_data`; an order is yet to come or was
imported with nothing to attribute. A normaliser finds the row in one statement
and writes it in another; what it found is in `nstate`, what its version of the
order owes in `nowes`. A second normaliser gets the same order only by a
rebalance, a mishap here and a step of Kafka's in `OrderIngestion`; whoever is
overtaken so is in `overtaken`, a history variable. Two that both insert the
order are `OrderIngestion`'s duplicates and left out here. `evident` are orders whose
line items carry a stamp or a click; `Tracked` have apollo or mercury tracking
data, for which the already-processed check always answers no, because the rows
it looks for are never written (`billing_service_v2.py:246-284`). `outdated`
are orders whose line items were replaced after their attribution (the upsert
deletes and inserts them). A worker computes in one step and stores in another;
`Store` is one transaction: the attribution, the impressions paid and the debt
cleared. `Bill` is the second transaction. `forgone` is a history variable:
orders whose billing was cut short. The early returns, the tries and the
swallowed errors have steps of their own; one mishap may outlast all tries of a
job, which is then dropped. `turnedAway` and `aged` record
that a job met an inactive shop, or 14 days passed.

### TrialGate

The statements of the transaction that records an order are separate steps, at
READ COMMITTED: `seen` is what the sum read; `Insert` waits for another
transaction's row of the same attribution, as a unique index does; `EndTrial`
waits for the row's lock and looks at the committed status again. `status` and
the rows are the committed state; `ending` are uncommitted updates. Revenue is
any monotone predicate of a set of orders. `late` counts free orders recorded
after the evidence was complete.

### ShopSubscription

Every handler's `findFirst` and `update` is a step; what a request found is in
`task`. `rows` are ordered by `created_at`. `dunning` is "over" once ten days
have passed. A webhook that is answered 500 is sent again; an uninstallation
answers 200 whatever happened. `Decline` is a second approval that is offered and
refused (`api.billing.setup.tsx`, at any time, also beside an active
subscription): Shopify's DECLINED goes the way of CANCELLED
(`webhooks.billing.subscription_update.tsx:70`), with an id that no row has, so
its handler takes the active row, binds it to that id and closes it. All such ids
are one, `Declined`. A shop that comes back was onboarded before, and nothing but
`createOrUpdateShop` resets `onboarding_completed`; the loader of
`app.onboarding.tsx` then leads past onboarding (`Reinstall`), but its action does
not ask, so `Onboard` stays possible. Since the handlers run without a transaction and
Shopify's webhooks come in any order, much can go wrong here: the properties
speak of histories in which a request that opens the shop and one that closes it
do not overlap, and no webhook is handled after Shopify's state has moved on
(`spoilt`); the model ends where that happens. It also ends where the handler of
a declined approval fails between row and shop: its repetition finds another row
or none. `NoneOvertaken` says more: no
webhook that still waits has been overtaken either. What happens outside these
histories is described in section 3. The cache of the suspension, invoices,
cycles, plans and currencies are left out; the branch of onboarding for a
subscription that is active already cannot be taken, since uninstalling ends the
subscription.

## 3. The runs

| Run | Question | Bounds | Answer |
|---|---|---|---|
| `charging` | can anyone be billed twice, a verdict change or lie, a PENDING commission be without its event, an event wait for ever? | 1 commission with up to 2 copies of its event, 2 workers, 3 crashes or forced rebalances | no, unless an error was logged or the shop suspended at creation; and it implements `ChargeOnce` |
| `charging_failed` | does FAILED mean not charged? | the same, no disruption | **no** |
| `reconciler` | can overlapping passes undo a verdict or bill twice, and does a cap that compares greater than its row's baseline reopen? | 1 commission, 1 consumer, 2 passes, 1 row with a Shopify id and 1 without, active or suspended, 2 amounts, 2 records | no, and it implements `ChargeOnce`; yes |
| `reconciler_stale` | is a lost event published again? | the same, 1 pass, no CAPPED | **no** |
| `single_run` | do bodies exclude each other, does the lock come free and the job go on? | 3 loops, 2 processes, 3 connections, 2 faults | yes, while their sessions live |
| `batch` | does batching lose anything, how far ahead is the commit, does an event wait for ever? | 2 workers, batches of 2, queue of 1, 5 events, 1 disruption | nothing; by at most what a reader prefetches; no |
| `batch_commit` | is what is committed done? | the same, no disruption | **no** |
| `catalog` | does a complete scan cost an entity that stayed, does a removed one end up inactive? | 3 entities, 2 kinds, a draft, pages of 1, budget 2, 4 changes, 1 failure | no; yes, if its kind has no count query |
| `ingestion` | does an order get two rows, does one go back, is what was lost made good? | 1 order, 3 versions, 2 collectors, 2 normalisers, 2 events, 2 faults | not unless a normaliser was overtaken; yes, but for duplicates |
| `attribution` | is a debt paid with its attribution, does it stay settled, is what earns billed, what is owed attributed? | 2 orders, 2 normalisers, 2 workers, 2 tries, 2 attempts, sweeps of 1 order, 2 writes, 1 mishap | yes; unless a normaliser was overtaken; unless billing was cut short; yes |
| `subscription` | is what is billed served, is there one active row, is what is paid for kept, does an approval arrive? | 2 handlers, 2 subscriptions, 2 rows, 3 events, 1 failure | yes; up to the first approval, and later while no webhook is overtaken; yes, but for declined approvals; yes, unless a declined one takes the row |
| `trial` | does the trial end on evidence, and in time; is an approval undone, an order free and charged? | 2 workers, 5 orders, 2 faults | yes; no |

The answers "no" in bold are the `findings` of `PROJECT.json`, each against a
line of the repository that says otherwise:

* `charging_failed`. A timeout after Shopify made the usage record becomes
  `None` and then FAILED, for good, with the charge on the invoice.
* `reconciler_stale`. Without a CAPPED commission somewhere the pass returns
  before Sweep 2, so stale PENDING commissions stay; so do those withheld from a
  suspended shop, which `commission_service_v2.py:127` leaves to the reconciler.
* `batch_commit`. Prefetched events are committed with the batch before them.

Further observations have no run of their own.

* The body of `claim` is not told when its session, and with it the lock, is
  gone: `OneRunsWhileConnected` is what remains of the docstring's "True in
  exactly one process cluster-wide, for the duration".
* What Sweep 1 compares as the end of the period is the capped amount
  (`commission_reconciler.py:189`): a new billing cycle reopens nothing, although
  the docstring (:5) says it "detects Shopify cycle rollovers". In a shop with
  several rows the baseline may go to another than the one that was read, again
  and again; then a raised cap reopens nothing, and a baseline may be that of
  another row's cap.
* Entity reconciler: with a count query, a draft that Shopify counts and the
  local count leaves out hides a deletion for ever (:266); what the budget does
  not reach is deactivated (:165); an entity created and stored between the last
  page and the local read is deactivated until something updates it. And the
  budget is charged one per entity type (:360-362 says one per page), so a sweep
  may make nearly three times the calls it allows; charged by the page, as the
  seeded fault `NextKindPerPage` does, one type could starve the next for ever.
* Orders: nothing makes (shop_id, order_id) unique, and two rows stop an order's
  updates for good, the backstop's included.
* A commission that a missing rate prevented is not "picked up once rates
  refresh" (`commission_service_v2.py:89`): the attribution is stored, the debt
  cleared and every later job finds the order processed. So it
  is with a crash or an error between the two transactions. `UnbilledIsAccounted`
  names these as its exceptions and says that there are no others; it does not
  guard against them.
* A debt that is settled can come back: a normaliser that was overtaken in a
  rebalance writes 'pending' from the NULL it has read over 'done' or 'failed'
  (`normalization_data_storage_service.py:182-189`), although the comment there
  says that neither is ever reset. The order is then attributed once more or
  given up again.
* An order that was given up and then attributed after all stays 'failed'. A
  suspended shop's jobs are turned away, and each counts as an attempt.
* Trial revenue and orders are summed by shop: a second trial after a
  reinstallation starts with the first one's. `billing_repository_v2.py:450` says
  the shop keeps serving after the trial; `middleware/serviceSuspension.ts` treats
  TRIAL_COMPLETED as suspended.
* Subscriptions, all in `better-bundle/app/`. A second approval's webhook takes
  the newest row not bound to another subscription, which may be the unbound
  trial of an earlier installation beside today's active row: two active rows,
  with which `get_shop_subscription` raises and nothing is billed. If there is no
  such row it finds none, although the comment says "Find OR upsert". Declining
  an approval cancels the active row, also one of a subscription that the
  merchant keeps and pays for: the shop is switched off, and when the merchant
  approves another, the row is bound to the declined id and the ACTIVE webhook
  does not find it. A late CANCELLED matches the active row and cancels the
  subscription that replaced it; a late uninstallation does the same to a
  reinstallation; overlapping approvals and cancellations can end with either
  half of both; a failed payment handled beside a successful one can suspend the
  row that was just paid for. After a completed dunning period a payment does not
  bring the shop back, because it looks for an active row, and a reinstallation
  returns the suspended row; a new approval does. If the statement that suspends
  the shop fails after the one that suspends the row, the repeated webhook finds
  no active row and the shop stays open. A webhook repeated within a minute of
  one that failed is dropped. The metadata column is read and written back whole,
  so a baseline the commission reconciler writes in between is lost.

**Why the bounds are enough.** Charging: the hazards are between two handlers of
one commission, so two workers, a doubled event and a disruption produce them
all, the commit of a position past another record included; three disruptions let
a retry be disturbed again. Commissions share nothing but the partition and the
pause of their shop, which gates no charge. Two commissions were checked without
the liveness property while the model was written (640,000 states); the theorems
hold for any number. Reconciler: one row that passes read and one that they do
not are the two places a baseline can go (two that are both read, with their
baselines crossed, were checked with one pass: 52,656 states). Whatever else may
be found of a shop than active and suspended stops a handler in Phase 1, which
`charging` covers. What two passes and a consumer can do to each other they do
over one row; two records are the original or its duplicate and a republished
one. SingleRun: two loops of one process share a pool, a third competes from
outside; two faults are a leak and a failure while it lasts. BatchCollector: with
batches of two and a queue of one, one reader is three events ahead, and five
events leave a batch behind and one in the making. CatalogSync: two products, one
of them a draft, need two pages and the whole budget, the third entity is of a
kind without a count query; four changes are, for example, two creations, a
backfill and a removal. OrderIngestion: orders share nothing but the page of the
backstop; three versions let one be stored, one be late and one be current, and
two faults are a rebalance under a job and a loss after it. OrderAttribution: two
orders compete for a sweep of one; one carries tracking data, so that it is
computed again and again; two writes are two versions of one order, in two
normalisers after a rebalance, or one of each; with one mishap and two attempts
the reconciler succeeds, with more it may give up. ShopSubscription: an approval,
its replacement and a cancellation, with a reinstallation, need two subscriptions
and two rows; a refusal, which counts as two events, leaves one for a payment or
a page load beside it. TrialGate: two workers at the gate, an order recorded
twice and revenue that is reached by two orders or by four. The theorems below
hold for all values.

`CHECK_DEADLOCK FALSE` is set where the model really ends: all events published
and handled and the disruptions used up (`batch*`), all orders written and
attributed (`attribution`), or the history at an end (`subscription`).

### Fairness

* **Charging.** Weak, for each worker: taking the next record, the handler that
  was started, the commit after it; and for the takeover of an orphaned
  partition. The event loop runs what can run, `ConsumerManager._run_consumer`
  restarts a consumer whatever ended it, and the group coordinator reassigns.
  Nothing makes a commission, an error or a rebalance happen.
* **Reconciler.** Weak for going on with some pass; strong for a detection and
  for a reset of CAPPED rows, which Shopify or the database may fail, but not
  each hourly time. `reconciler_stale` assumes the same of every step, in the
  code's favour.
* **SingleRun.** `run_forever` claims again and again. Strong for the lock: of
  many attempts some fall when it is free. Strong for `Recycle`: the pool hands
  its connections out in turn, and replaces each that is older than
  `pool_recycle`.
* **BatchCollector.** Weak for the reader, the batcher (its wait has a timeout),
  the handlers (three attempts, each bounded) and the takeover.
* **CatalogSync.** Weak for the sweep, which runs hourly, and for each event or
  job, which Kafka delivers. `MaxFailures` bounds failures: they do not go on
  for ever.
* **OrderIngestion.** Weak for collectors and normalisers that have begun, for
  the events and for the backstop's next step. Strong for the jobs: the partition
  moves from process to process, but does not always move before a job is read.
  `MaxFaults` bounds failures; nothing is assumed of Shopify.
* **OrderAttribution.** Weak for taking jobs, for a handler that has begun and
  for the sweeps, which `JobKeepsRunning` of `SingleRun` brings round again.
* **ShopSubscription.** Weak for each webhook, which Shopify repeats until it is
  accepted, and for each handler that has begun.

## 4. The theorems

All hold for every value of the constants that the named `ASSUME`s allow; TLC
evaluates those in every run. Nothing else is assumed.

| Module | Theorem | States |
|---|---|---|
| `CommissionProofs` | `TypeCorrect` | `[]TypeOK` |
| | `ChargedAtMostOnce` | `[]NoDoubleCharge` |
| | `RecordedMeansCharged` | `[]RecordedIsCharged` |
| | `VerdictsAreFinal` | `VerdictIsFinal` |
| | `ChargingRefinesChargeOnce` | `ImplementsChargeOnce` |
| | `PendingComes` | `[]PendingIsOnItsWay` |
| | `ReconcilerTypes` | `[]RTypeOK` |
| | `ReconciledChargedAtMostOnce` | `RSpec => []NoDoubleCharge` |
| | `ReconciledMeansCharged` | `RSpec => []RecordedIsCharged` |
| | `ReconciledVerdictsAreFinal` | `RVerdictIsFinal` |
| | `ReconcilingRefinesChargeOnce` | `ImplementsChargeOnce` |
| `SingleRunProofs` | `SingleRunTypes` | `[]TypeOK` |
| | `OneBodyPerLock` | `[]OneRunsWhileConnected` |
| `BatchCollectorProofs` | `CollectorTypes` | `[]TypeOK` |
| | `NothingIsLost` | `[]NothingVanishes` |
| | `CommitNotFarAhead` | `[]CommitAheadBounded` |
| `CatalogSyncProofs` | `CatalogTypes` | `[]TypeOK` |
| | `SteadyRowsAreKept` | `SteadyIsKept` |
| `OrderIngestionProofs` | `IngestionTypes` | `[]TypeOK` |
| | `OneRow` | `[]OneRowUnlessOvertaken` |
| | `RowsNeverGoBack` | `RowsGoForward` |
| `OrderAttributionProofs` | `AttributionTypes` | `[]TypeOK` |
| | `DoneOnlyIfAttributed` | `[]DoneIsAttributed` |
| | `UnbilledAccounted` | `[]UnbilledIsAccounted` |
| | `SettledStays` | `SettledUnlessOvertaken` |
| `TrialGateProofs` | `TrialTypes` | `[]TypeOK` |
| | `TrialEndsOnEvidence` | `[]EndsOnEvidence` |
| | `ApprovalStands` | `PaidStaysPaid` |
| | `FreeOrCharged` | `[]OneCommission` |
| | `TrialEndsSoon` | `[]OvershootBounded` |
| `ShopSubscriptionProofs` | `SubscriptionTypes` | `[]TypeOK` |
| | `OneRowIsActive` | `[]OneActiveRow` |
| | `BilledShopIsServed` | `[]BilledIsServed` |
| | `PaidIsServed` | `PaidForIsServed` |

**Charging.** `TypeInv` adds to the types that a worker beyond `idle` has a
commission. `ChargeInv`: a commission has one usage record if its key is used
and none otherwise, and whoever is about to write RECORDED, or has, used the
key. Without the first part a second charge could not be excluded from
`charges[c] <= 1` alone; the second is what makes the verdict true. `DeliveryInv`
is needed for `PendingIsOnItsWay`, which speaks of the committed offset
although the commit covers the position: everything the owner has taken from
the partition is handled, except the record it is busy with
(`TakenIsHandled`), and a row that exists is still to be published, on the
topic, dropped or withheld (`Traceable`). The refinement maps a Phase 2 that makes a
usage record to `Bill`, a Phase 3 that writes to `Decide`, `ResetCapped` to
`Reopen`, and every other step to a stutter.

**Reconciler.** `PassSteps` reduces every step of a pass to reopening CAPPED
rows, lifting a pause, appending a record or nothing; each of these keeps
`ChargeInv`, so the arguments about charging carry over.

**SingleRun.** `LockInv`: no connection is checked out twice, a loop past the
acquisition whose session lives has the lock on it, and at most one session,
never a dead one, has it.

**BatchCollector.** `NothingVanishes` is not inductive: a commit raises the
committed offset to the position. `CoverInv` says the same of the owner's
position. `BatchInv` bounds the batch. `EndInv` says that nothing is behind the
end marker in a queue and that a closing batcher has taken it, so that
`Restart`, which replaces the queue, throws nothing away. `CommitAheadBounded`
needs `AheadInv`: what the owner's next commit passes and the owner does not
have in hand is at most `QueueSize + 1` per disruption. Reading and handling only
shrink that set; a commit adds what is prefetched (`PrefetchBounded`); a crash or
a change of owner turns what was committed too early into it and pays for it
with one more disruption.

**CatalogSync.** `ScanInv`: of the entities that Shopify had when the scan began
and still has, those up to the cursor, or all after the last page, are among the
ids; so none of them is in `stale`. The lemma `PageIsPrefix` shows that a page
holds the smallest of what remains, using the library's facts about
cardinality. `BudgetInv` ties the phases to the budget, and `DeletionInv` says
that a deletion is announced only of what is gone, so that the webhook pipeline
cannot deactivate a steady entity either.

**OrderIngestion.** `Behindhand`: neither a row nor the version a normaliser
holds is newer than the raw row, which only moves forward (`NewerBounds`).
`SingleWriter`: until a normaliser is overtaken, only the owner of the partition
has a job in hand, what it holds is not older than the row it will write, and
where it is about to insert nobody else has.

**OrderAttribution.** A worker reaches `bill` only through `Store`, and leaves it
with a commission or as `forgone`, so `DoneIsAttributed` and
`UnbilledIsAccounted` carry over each step with the types. `SettledUnlessOvertaken`
needs `NoDebtMeanwhile`: a row that the upsert found without a debt, or not at
all, is still so when it is written, unless another normaliser wrote it in
between, since only normalisers insert a row or take on a debt; and
`InsertsAlone`: who inserts is alone at the order. So promoting a row overwrites a
settled one only in the hands of an overtaken normaliser.

**TrialGate.** `Read`: what a worker has seen was committed and stays so; hence
revenue that is met by what it saw is met by what is there when it commits, and
so is the count (`Evidence`). `Locked` ties an uncommitted end of the trial to
one worker, whom the admin app and the others wait for. `Distinct`: uncommitted
records are of new and different orders. `Late` counts for the bound: once the
evidence is complete, the orders recorded late and the workers that will still
record one and leave the trial on (`Stale`) are together no more than the other
workers and the faults; a commit turns one into the other (`CommitLate`), and a
worker that reads the sum afterwards ends the trial (`FreshEnds`).

**ShopSubscription.** Everything holds until the history is `spoilt`, and the
model says no more after that (`StaysSpoilt`). `SubsInv` and `TaskInv`: Shopify
holds the newest subscription or none, requests that open the shop are about that
one, and none that closes it is under way beside them; so no row is appended
while a request has picked one (`QuietOnboard`). `OneActiveRow` needs two
arguments. Up to the first approval all happens in the last row that is not bound to a
declined one (`Usable`, `LastActive`); a cancellation may pick an older one, but
none after the active row.
After it the row that a request found must still be the right one when, some
statements later, it is written (`RightRows`): an activation has picked the
newest unbound row (`PickedNewest`), all before which are closed (`NewerBound`),
or the row of its subscription, which is the active one if there is any
(`HeldIsActive`) and the only one (`OneBound`); a cancellation or a completed
dunning period has picked the only active one. What an active row may be bound to
is in `Live`: the current subscription and those whose cancellation has yet to
reach a row, never a declined one. `StaysOvertaken` makes that argument stable: a webhook that is
overtaken stays so until it is handled, and then the history is spoilt.
`BilledIsServed` follows from `Opens`: while a shop with an active row is off,
an ACTIVE webhook or request is on its way. `PaidForIsServed` needs that what a
failed payment read about its dunning period is still true when it acts on it
(`DunningInv`), and that a cancellation or uninstallation under way concerns no
row of the current subscription (`CloseInTime`; of a declined approval nothing of
the kind holds, hence the exception), without assuming that no webhook is
overtaken.

**Only model-checked**: liveness (`EveryEventHandled`, `EventuallyHandled`,
`RaisedCapReopens`, `JobKeepsRunning`, `GoneIsDeactivated`, `BackstopCatchesUp`,
`OwedIsAttributed`, `ApprovalArrives`), since the prover does not handle fairness
and `ENABLED`. Every invariant and action property of the runs is proved. No
induction over data is needed: no definition here is recursive.

## 5. What is not modelled

* **Amounts**: revenue shares, rates, currencies and the conversion between
  them. An attribution earns something or nothing; a trial's revenue reaches its
  threshold or not; a missing rate is one of the ways a billing is forgone.
* **Conversion of Shopify's JSON**, prompts, scores, embeddings, lift and holdout
  statistics: functions of their input that keep no protocol state. The
  enrichment sweeper and the LLM budget write caches that may be wrong without
  harm.
* **Billing reconciler**: it sums two columns per closed cycle, logs a difference
  and marks the cycle in the same transaction; nothing reads the mark but itself.
* **Dead-letter queue**: its producer has no `publish` method, so at this commit
  nothing is ever written to it; the models lose what is sent there.
* **Clients**: rate limiting and retries of single calls, health checks, topic
  administration. Calls fail or lose their answer in the models.
* **Several shops**: limits per sweep (25 shops, 250 orders) choose among shops
  and orders in an order that the queries do not determine.
* **Read caches**: the suspension state is cached for five minutes; a read begun
  before an invalidation can fill it with the old state after it.
* **Screens, storefront extensions, seed scripts, dashboards and the outreach
  tool**: presentation and tools beside the running system.

## 6. Running it

    tlc -config charging.cfg MCCommissionCharging.tla
    tlapm CommissionProofs.tla

and so on for the other runs and proofs. The largest run has about 710,000
states; none takes more than two or three minutes.
