# Formal models of the price monitoring service

The service watches product pages: a user creates a *monitor* (a URL, a target
price, an interval), a worker fetches the page from time to time, and an e-mail
is sent when the price falls to the target. This directory holds TLA+ models of
the parts of `src/backend/app` in which the order of events matters, the TLC
configurations that check them on small instances, and proofs of the central
properties that the TLA+ proof system checks for all instances.

`PROJECT.json` lists the components, the runs, the lines each definition models,
the hazards and the theorems.

## 1. Inventory

| Component | Code | State it keeps | Operations |
|---|---|---|---|
| Scheduling and URL lock | `workers/tasks.py`, `workers/arq_settings.py`, `scheduler/enqueue.py`, `infra/redis_lock.py`, `repositories/monitor_repository.py` | `monitors.status`, `monitors.next_check_at`; Redis keys `lock:price-check:<hash>`; the arq queue and its kept results; `dead:price_checks` | cron job `run_due_monitor_checks` (`claim_due`, enqueue), arq job `run_monitor_check` (lock, check, reschedule, dead letter, error mark), the manual check |
| Monitor editing | `services/monitor_service.py`, `repositories/monitor_repository.py`, `api/v1/monitors.py`, `web/router.py` | `monitors` | create, update, pause, resume, retry, soft delete |
| Price check | `services/price_check_service.py`, `repositories/{product,price_check,notification}_repository.py` | `product_sources`, `price_checks`, `parser_errors`, new `notifications`, the check's columns of `monitors` | `run_check_with_result` (worker), `run_check` (internal API) |
| Notification delivery | `workers/tasks.py` (`send_notification`), `repositories/notification_repository.py`, `notifications/*`, `services/notification_service.py` | `notifications.status`, the arq job `send_notification:<id>`, `dead:notifications`, an SMTP thread | `mark_processing`, `send`, `mark_sent`, `mark_failed`, `mark_skipped`, retry |
| Product fetching | `product_fetching/*` | none that outlives a call: attempt, endpoint, elapsed time | `fetch_product` of four providers under `ExponentialBackoffRetryPolicy`; reading price, currency and stock from a page |
| Schema migrations | `alembic/env.py`, `alembic/versions/*`, `docker-compose.yml` (`migrate`) | the schema, `alembic_version`, which release is deployed | `alembic upgrade head` before each deployment, or by hand |
| Accounts | `services/auth_service.py`, `repositories/{user,password_reset_token}_repository.py`, `web/router.py` (administration) | `users.status`, `users.role`, `password_reset_tokens` | register, login, request and confirm a reset, the administrator's user form |
| Runtime settings | `services/runtime_settings.py`, `repositories/service_setting_repository.py`, `product_fetching/factory.py`, the token page of `web/router.py` | `service_settings`, the environment of the processes | save and clear an override (plain or encrypted); resolve the settings for a check or an internal call |
| URL normalisation | `domain/url_normalization.py`, `services/monitor_service.py` | none; its result is `monitors.url`, the key of the URL lock and of `product_sources` | link to the URL of its product card |
| HTTP API, web pages | `main.py`, `api/*`, `web/router.py` | sessions, CSRF tokens | routing, validation, rendering |
| Security primitives, metrics, legacy parsers, deployment scripts | see `PROJECT.json` | | |

### How the parts interact

* **Database.** Every request and every job session is one MariaDB transaction
  (REPEATABLE READ). The first read opens a read view. The deployed server
  (`docker-compose.yml:63`, MariaDB 11.8) has `innodb_snapshot_isolation` on: a
  locking read or an update of a row that changed after the view was opened
  fails with error 1020. Plain reads, and updates of *other* rows, are not
  protected. `with_for_update` does not refresh an instance SQLAlchemy has
  loaded already, so what a check decides on is what it read before the fetch.
* **Redis.** The URL lock (`SET NX EX`, released by a script that compares the
  token) and the dead-letter lists.
* **arq.** A job that raises an ordinary exception or times out is *not* run
  again; one that raises `Retry`, is cancelled by a worker's shutdown, or loses
  its process is. A job whose `job_try` exceeds its maximum is dropped. An
  enqueue under an id that is queued, running, or has a kept result (an hour) is
  dropped silently.
* **Call chain.** cron job → `claim_due` (commit) → enqueue → `run_monitor_check`
  → URL lock → `PriceCheckService` → provider → one commit of check, monitor,
  source and alert → enqueue `send_notification` → SMTP.
* **Deployments.** `docker compose up` runs `migrate` and starts the new `api` and
  `worker` only when it has succeeded; those of the release before keep running, and
  writing, meanwhile. MariaDB commits each DDL statement by itself, and alembic reads
  the version once, at the start.
* **A second door.** `POST /internal/check-monitor/{monitor_id}` runs a check in the
  API process, without the URL lock and without enqueueing what it creates.

### What is hard

Concurrency: two jobs of one URL; a job and the internal API on one monitor; two
monitors of one source; a user's edit during a check; two administrators.
Failure: every pair of adjacent commits (lease / enqueue, check / enqueue of the
alert, `processing` / send / `sent`, `failed` / dead letter) may be separated by
a crash; so may two statements of a migration. Time: the job timeout, the lock's TTL and the lease are all
`check_lock_ttl_seconds`, and a fetch with retries may take longer. The hazards
are listed one by one, with their lines, in `PROJECT.json`.

### What makes each component correct

* *Scheduling*: two workers never act on one URL; a holder never outlives its
  key; an active monitor has a next check, a stopped one has none; a check lands
  on an active monitor only; nothing but a user restarts a stopped monitor; an
  active monitor is never forgotten, even when more are due than a tick may take.
* *Price check*: one alert per dedupe window; an alert suppressed only by one
  that says the same; alerts compare with the target the user has set *now*, and
  in the currency of the source; monitor and source show the outcome of one check as a
  whole, the monitor that of its newest.
* *Delivery*: a second copy only after a reported error; nothing after the end;
  failures are dead-lettered; without faults every alert of a worker is settled.
* *Fetching*: refusals are not repeated; a product is missing only when all endpoints
  say so; a slow provider is reported as slow; price and stock are those of the page,
  whatever layout it comes in.
* *Migrations*: the version of the database is never ahead of its schema; services
  never run without a part of theirs; upgrades that overlap do no harm, and one of
  them finishes.
* *Accounts*: one usable link per user, the newest, once; resets and promotions
  land on active accounts; an administrator remains.
* *Runtime settings*: an override wins over the environment, even when it cannot be
  decrypted; what a check uses, through its last retry, was in force together at one
  moment since it began, so one that begins after a change never uses what was
  replaced, and none mixes old and new; of two administrators who change one setting neither
  overwrites what it has not seen.
* *URLs*: the lock and the source of a monitor go by the same URL; one source has
  one product; the spellings of a Wildberries link have one source.

## 2. Modules

| Module | Models | Checked by | Proved in |
|---|---|---|---|
| `UrlLock` | abstract: what a job may rely on from the URL lock | as `LockIsKept` | |
| `CheckScheduling` | who checks a monitor, when, under which lock | `MCCheckScheduling` | `CheckSchedulingProofs` |
| `SerialChecks` | abstract: checks that read and write at one moment | as `ChecksAreSerial` | |
| `PriceCheck` | what a check reads and writes | `MCPriceCheck` | `PriceCheckProofs` |
| `AlertDelivery` | abstract: what happens to an alert | as `KeepsPromise` | |
| `NotificationDelivery` | a notification row and its job | `MCNotificationDelivery` | `NotificationDeliveryProofs` |
| `ProductUrls` | which links name a card, and the URL that is kept (operators) | `MCProductFetch` | `ProductFetchProofs` |
| `ProductPayload` | what is read from a page (operators) | `MCProductFetch` | `ProductPagesProofs` |
| `ProductPages` | external: what the pages of the shops say (operators) | `MCProductFetch` | |
| `ProductFetch` | one fetch with its retries, for a stored URL; extends `ProductUrls`, uses `ProductPayload` and `ProductPages` | `MCProductFetch` | `ProductFetchProofs` |
| `SchemaRevisions` | the statements of the five revisions (data) | `MCMigrations` | |
| `Migrations` | upgrades and deployments, for any chain of revisions | `MCMigrations` | `MigrationsProofs` |
| `RuntimeSettings` | overrides of settings and who uses them | `MCRuntimeSettings` | `RuntimeSettingsProofs` |
| `Accounts` | roles, statuses, reset links | `MCAccounts` | `AccountsProofs` |

### `CheckScheduling`

Time is kept as countdowns in minutes (`next`, `ttl`, `left`), so the state space
is finite without a bound on the clock. An overdue `next` tells only the order in which
monitors fell due (`Aged`): that is what `claim_due` sorts by (`LongestOverdue`). `status` is the column, with `"absent"`
before the row and `"deleted"` for `deleted_at`; `"disabled"` stands for every
status the code treats as merely not active. A job's `phase` follows
`run_monitor_check`: `starting` (first session), `locked`, `fetching` (a read view
is open), `committed`, `dying` and `marking` (the `except` clause of the last
try), `releasing` and `cancelled` (the `finally` of `acquire_redis_lock`),
`lost` (the lock is held elsewhere), `kept` (finished, the result blocks the id),
`orphan` (its process died). A transaction that reads and writes at once is one
action. One that reads, waits and writes keeps its read view in `view`/`rview`: the
status it read, or `"stale"` when another commit has written the row since, and then
the database refuses its write. `JobTimeout` and `Leased` both use `LockTtl`
because the code uses one setting for the three.

`UrlLock` is the lock as the jobs see it: it has an owner and the set of jobs at work on
the URL, and no tokens, time to live or crashes. `Lock` maps the key's token to the
owner, and the jobs that may still act (`Holds`) to those at work.

### `PriceCheck`

A check is `Begin` (read view), `Fetch` (the provider's answer, any of `Page`),
then one of `CommitCheck`, `RefuseInactive`, `Abort`, or `LoseInsert` and again.
`seen` is a copy of what the view shows: the monitor, the source and which alerts
were live. An update changes only the columns to which the session assigned new
values (`Update`), which is why two checks of one source may both commit parts of
it only if the database lets them. Prices are small numbers, compared by value.
`lastCheck` is what the newest check of a monitor wrote to `price_checks` and
`parser_errors`; `MarkError` is the error mark of a worker job that failed.

`SerialChecks` has only the tables. A check reads and writes everything in one step, an
edit or a delivery is another. `Serial` maps each table to itself: the views and the
phases of the checks are what it forgets. One thing cannot be forgotten: an alert may be
suppressed by one that was live when the check began and ended before it committed, so
the abstract check may do that too.

### `NotificationDelivery` and `AlertDelivery`

Each commit of `send_notification`, the call of the provider and each Redis call is
a step, and a fault (`Break`, `TimeOut`, `Cancel`, `Crash`, `ProducerDies`) may fall
between any two of them. The SMTP dialogue runs in a thread, which a timed-out or
cancelled job leaves behind (`thread`). `AlertDelivery` forgets rows, jobs and
threads: an alert is open, sent, skipped or abandoned, and copies leave. The
refinement mapping is `Outcome`.

### `ProductFetch`

The state is that of one call: the stored URL, the attempt, the endpoint, the time used. Answers
are classes of HTTP responses; `CardVerdict`, `BasketVerdict`, `ApifyVerdict` and
`ZyteVerdict` and `MockVerdict` give what each provider's code makes of each class and
of a page, `Raise` is the retry policy with the conversion into a failure snapshot,
`Snapshot` what a success is made of. `Refusal` says which URLs are never asked about.

### `ProductPayload`

A page is the place where the product lies, its fields by path, and marks: whether the
text contains a marker of a block or of a missing product. `DirectValues`,
`ApifyValues` and `GenericValues` read price, old price, currency and availability from
the fields as the three mappings do: the first path whose value is a number, kopecks or
roubles by path, the sum over sizes, words for stock. Pages carry in `sold` what they
say to a reader, which the model compares with the snapshot; no code reads it.

`ProductPages` says when the fields of a page and `sold` agree, without using what
`ProductPayload` computes: every filled price field says the price, in kopecks if its name
or its place says so, as a number or as a text in a notation that is read; `priceU` is the
price before the discount, and a discounted page shows the price in a field that is read
earlier; a code or sign of the currency, roubles if a price has none; each flag, number
or word about stock agrees with the stock (`isSoldOut`: a flag that is set when nothing is
left), and the stocks of the sizes add up to it. Fields
may be there or not, in any combination, and sizes may be any in number. `PageAssumption`
requires it of the pages where a provider finds a product; TLC evaluates it for `Pages`.

### `ProductUrls`

`normalize_product_url` over classes of links: the host by name and spelling, the
path as segments of a word and a number with capitals and percent escapes. A
`Normalized` link is what `create_monitor` stores; a monitor's URL is normalised
once more when it is fetched. `Card` is the reference: the marketplace and the number.

### `RuntimeSettings`

`row` is the table, `deployed` the environment of the processes, `req` the requests
of administrators. A save reads the row of its key (`OpenSave`) and writes it in a
later commit (`CommitSave`), which the database refuses when the row has changed; a
save that looks unchanged to the session writes nothing (`CommitSame`). The audit row
comes in a second commit. `call` has the checks of the worker and the calls of the
internal API. `Check` resolves all settings and builds the provider
(`tasks.py:64-74`); an internal call reads the token in one step (`Call`,
`deps.py:166-175`) and the settings in a later one of the same session and read view
(`Configure`, `deps.py:87-110`). `Send` is any request of the fetch, a retry too, which
uses what the provider was built from while the rows change beside it; a deployment
ends them all. Two histories serve the property: `used`, the values used so
far, and `since`, every state of the settings in force since the call began. An encrypted value remembers the
`ADMIN_SECRETS_KEY` it was encrypted with, and `Deploy` may change that key.

### `SchemaRevisions` and `Migrations`

`SchemaRevisions` lists every statement of `alembic/versions` by what it creates and
what it needs. `Migrations` runs such a chain: an upgrade has a place (`rev`, `pc`),
`Execute` runs one statement and commits it, `Fail` ends at the first one refused,
`SetVersion` writes the version row where it still names the revision before, `Finish`
lets the deployment replace the services. `Kill` ends an upgrade anywhere. `LateRow` is
the release before that writes a notification without a dedupe key after the backfill.
`RevisionsInOrder` says what a chain must be for this to work; TLC evaluates it for the
real one.

### `Accounts`

A request opens (reads and evaluates its guards in one view) and commits later;
`stale` tells that the database will refuse the commit because a row it writes has
changed. Rows only read are not protected, which is the point of `last_admin`.

## 3. Runs

| Run | Shows | Bounds |
|---|---|---|
| `monitor_row` | `LockExclusion`, `LockIsKept`: the refinement of `UrlLock`, `NextFollowsStatus`, `CheckLandsOnActive`, `StoppedStaysStopped` | one monitor, two jobs, two requests, TTL 2, two tries, one fault |
| `never_forgotten` | `NeverForgotten` | two monitors of one URL, a tick takes one, two jobs, one fault, no requests |
| `alert_once` | `OneAlertPerWindow`, `SuppressedByTwin`, `AlertWithinTarget`, `MonitorShowsNewestCheck`, and `ChecksAreSerial`: the refinement of `SerialChecks` | one monitor, two checks, two alerts, one edit or error mark |
| `shared_source` | `AlertInSourceCurrency`, `SourceShowsOneCheck` | two monitors of one source, two checks, two currencies, one alert |
| `delivery` | `ResentOnlyAfterError`, `FailureIsDeadLettered`, `DeliveredWithoutFaults`, and `KeepsPromise`: the refinement of `AlertDelivery` with its liveness | two notifications, two tries, two faults |
| `fetch` | `RefusalEndsFetch`, `NotFoundIsExhaustive`; `PriceAsSold`, `StockAsSold`; `StoredUrlIsFinal`, `SourceIsOneCard`, `CardHasOneSource` | the default times, one basket host, the pages of `Pages`; links of four marketplace hosts and a foreign one, two products, all spellings that `Spelled` lists |
| `settings` | `UsedWasInForce`, `NothingOverwrittenUnseen` | two administrators, one check or internal call at a time, four keys, three environments, three changes in all |
| `reset_links` | `OneUsableLink`, `NewestLinkOnce`, `LandsOnActive` | two users, two requests, two links |
| `migrations` | `VersionMeansSchema`, `ServesOnItsSchema`, `NothingHalfDone`, `OneOfThemFinishes` | the five revisions, two upgrades at a time, three in all, to any release from any version, one kill or late row |

Each of these also checks the module's `TypeOK`, except `alert_once` and
`never_forgotten`, whose modules have it checked by another run.

Why these bounds are enough to meet the interesting cases: exclusion, lost updates
and double inserts need two actors on one row, and a third only repeats what the
second may do; a lock expires under a crashed holder with one fault, and a delayed
release needs the second job only (two monitors of one URL behave to the lock as two
jobs of one monitor, and the proof covers every `UrlOf`); two monitors and a tick that
takes one are the least instance in which one could be passed over for ever; three
upgrades let one start after a failed one while another overlaps; the pages hold the
product in every place, with every group of price fields alone and beside the others,
texts in every notation that is read, and stock in every form; three changes of settings
allow an override, a change of the master key and a clearing, in any order, before or
during a check, and the proof covers any number of changes and of checks, which do not
act on each other; two faults allow a fault during recovery from
the first; two tries distinguish the last try from the others. `SYMMETRY` is used
only in safety runs over interchangeable slots. `CHECK_DEADLOCK FALSE` stands where
the system may really stop: a bound used up, a call that is over.

### Disagreements with the documentation

Each has a run in which TLC finds the violation.

| Run | What happens |
|---|---|
| `processing_ends` | a fault while sending leaves the row in `processing` for ever |
| `timeout_reported` | three timeouts exceed the job timeout, so `provider_timeout` is not recorded |
| `last_admin` | two administrators who demote each other leave none |

Disagreements that no run shows, because it would only restate the line:

* A check of the internal API enqueues nothing (`api/v1/internal.py:31`,
  `price_check_service.py:50`): its alerts stay `pending` for ever and suppress later
  ones in the window, although `docs/NOTIFICATION_SERVICE.md:10` says that a pending row
  is written and `send_notification` is enqueued. `NotificationDelivery` has these alerts
  (committed with producer `"nobody"`).
* The failure row for a monitor that is no longer active is never written
  (`RefuseInactive`): `session.rollback()` at `price_check_service.py:83` expires the
  monitor, and reading `monitor.status` for the message at `:88` then raises, because
  an expired attribute cannot be loaded outside an await.
  `docs/OBSERVABILITY.md:23` lists `monitor_not_active` among the recorded errors.
* A page for Apify whose only field about the stock is `isSoldOut: true` is recorded as in
  stock, and `isSoldOut: false` as unavailable: the flag stands among those of
  what is available (`wildberries/mapping.py:124`) and is read like them (`:319-320`),
  although the same function takes the word `sold_out` as unavailable (`:334`) and the user
  is shown "В наличии", in stock (`web/router.py:1353`). `Pages` has such pages, and
  `SoldOutIsInverted` proves it of all of them.
* `_extract_currency` takes a price without a currency to be in roubles
  (`mapping.py:103`), although `MVP_PRICE_MONITORING_SPEC.md:505` forbids comparing
  prices in an unknown currency.
* Alerts repeat after a sent one without a re-activation
  (`price_check_service.py:300`; `MVP_PRICE_MONITORING_SPEC.md:215`), and neither
  `triggered` (`:214`) nor `error` after five failures (`:216`) is ever set by a check.
* The documented rollback (`docs/DEPLOYMENT.md:126`) checks out the previous commit and
  starts its services. After a release with a new migration its `migrate` does not know
  the version of the database and fails, so nothing is deployed (`Start`).
* A marker such as `429` or `404` is looked for in the text of the whole page
  (`wildberries/mapping.py:353`), before the product is: a price or an id with these
  digits makes a product blocked or missing. `docs/OBSERVABILITY.md:154` describes
  `provider_blocked` as a captcha, a 403 or a block.
* The dedupe key holds `str(current_price)` (`price_check_service.py:266`), so `99.9`
  (9990 kopecks divided by 100) and `99.90` make different groups.

## 4. Fairness

`CheckScheduling!Fairness`: the clock runs (`Tick`), the cron job fires each minute
(`ClaimDue`) and enqueues what it claimed, arq polls its queue and an async job
goes on (`JobStep`), and arq runs an orphaned job again once its in-progress key has
expired. These are the schedules of `WorkerSettings`; nothing is assumed of users,
of `Raise` (a failure is possible, never required), of `Crash` or `Cancel`, or of the
order in which queued jobs are taken. A kept result of a job expires (`ResultExpires`: arq keeps it for an hour), for while it
is kept the monitor's next job is dropped. One crash is allowed and then no more, as
a liveness property under unlimited crashes would be false for any program.
`NotificationDelivery!Fairness` is the same for its jobs. `Migrations!Fairness`: an upgrade
that is not killed runs its next statement.

Liveness holds for an active monitor because the lease itself is the recovery:
`claim_due` sets `next_check_at` to the end of the lease, so a monitor whose job was
lost falls due again.

## 5. Proofs

Proved with TLAPS for any sets and any values that satisfy the named assumptions on
the constants, which TLC evaluates in the runs: `SchedulingAssumption`,
`DeliveryAssumption`, `SettingsAssumption`, `MigrationsAssumption`,
`PriceCheckAssumption`, `LinkAssumption`, `FetchAssumption`, `AccountsAssumption`, and
`NullAssumption` and `ResultAssumption`, which say that NULL is none of the values
beside it. `PowerAssumption` is no assumption on the code but a fact of
arithmetic (a power of two is a natural number) that none of the provers knows.
`PageAssumption` is the one assumption on what is outside the program: section 2 says what
it requires of a page, and section 6 which real pages do not meet it.

* **Lock.** `LockExclusion` is not inductive: it says nothing of the key. The
  inductive invariant is `TypeOK /\ HolderOwnsLock`: a job that may still act owns
  the key, and its deadline is not later than the key's expiry. `HolderOwnsLock` is
  preserved by `Tick` because both countdowns fall together, by `Acquire` because
  TTL and timeout are equal, and by a late `Release` because the script compares
  tokens. Exclusion follows, since a key has one owner. `LockRefined` shows that the
  module implements `UrlLock`: `Acquire` is `Take`, since a free key means that nobody is
  at work, and every other step lets go. That a key never goes while its
  job works is `HolderOwnsLock` before and after the step.
* **Monitor row.** `RowInv` joins the two halves of `NextFollowsStatus`
  (`ActiveIsScheduled`, `StoppedIsIdle`), `ViewsAgree`
  (a view that the database would still accept shows the row as it is) and
  `ViewsPresent`. Without `ViewsAgree` a commit decided on a status read minutes ago
  could not be shown to land on an active row. `CheckLandsOnActive` follows from it.
  So does `StoppedStaysStopped`, with `LastTryMarks`: the only job that writes a
  stopped row is one whose last try has failed, which marks the error.
* **Price check.** `OneAlertPerWindow` is not inductive: a check decides on alerts it
  read before the provider answered. `ViewInv` says what is left of that reading when it
  commits: what it shows of the monitor and the source is their row as it is, or the
  database will refuse the write (`ViewsAgree`), and it has seen every alert of its
  monitor that counts (`LiveSeen`). `LiveSeen` holds because each commit of an alert
  also writes the monitor, which stales the other checks of that monitor. The alert of a
  commit is therefore the first of its group, or suppressed by one that was seen;
  `SuppressedByTwin` needs `LiveCounts` besides, for the alert seen may have been delivered,
  or have left the window, since. `AlertWithinTarget` and `AlertInSourceCurrency` are
  `ViewsAgree` at the commit. `MonitorShowsNewestCheck` and `SourceShowsOneCheck` hold
  although `Update` writes changed columns only, because what a check compares with is
  the row as it is: the columns it leaves alone have the values it would write.
  `ChecksSerial` says the same of everything a check writes: a commit is a `Check` of
  `SerialChecks` on the tables as they are at that moment (`CommitMakesRows`,
  `CommitMakesAlerts`), although it was computed from `seen`, and every other step writes as
  an edit or a delivery does, or nothing.
* **Accounts.** `LinkInv`: an unused link is its user's newest and has reset nothing, none
  has reset a password twice, and a request that may still commit finds its account
  active and its link unused, as it read them. `OneUsableLink`, `NewestLinkOnce` and
  `LandsOnActive` follow. `AdminRemainsAlone` puts `last_admin` in its place: where no two
  requests overlap (`Request` has at most one element) an administrator remains, so the
  loss that TLC finds is due to the overlap alone, not to a guard of one handler. Its
  invariant `AdminLeft` says that an open request leaves the row of an administrator
  as it is, or knows of another.
* **URLs.** `NormalizedIsFinal`, for every link: `Normalized` is accepted again, is
  its own normal form, and keeps marketplace and card. `StoredUrlIsFinal` and
  `SourceIsOneCard` are this fact for the stored URL of a fetch, which never changes
  (`UrlStays`). `CardHasOneSource` needs in addition that the normal form of a
  Wildberries link is made of its number alone (`WildberriesIsByNumber`).
* **Fetch.** `NotFoundIsExhaustive` is not inductive: `asked` must be known before the
  last endpoint answers. `FetchInv` adds that an attempt has asked exactly the endpoints
  before the present one (`AsksInOrder`) and that it follows only an error worth it
  (`GoesOn`), which is also `RefusalEndsFetch`. It rests on `VerdictTyped`: whatever the
  answer and the page, a provider with several endpoints does not conclude from one of
  them that a product is missing. `RequestsAreBounded` counts the requests by attempt
  and endpoint: at most `MaxAttempts * Endpoints`.
* **Pages.** `PriceAsSold` and `StockAsSold` for every page that meets `PageAssumption`,
  so for any fields in any combination and any number of sizes. `StockAsSold` excepts the
  pages for Apify that have `isSoldOut` alone (`OnlySoldOutFlag`), and `SoldOutIsInverted`
  proves that all of those are read the wrong way round: the exception is exact. No induction over the
  fields is needed: the first filled field is the least element of a set of naturals
  (`LeastIsIn`, by well-foundedness), and which one it is does not matter as long as all
  that could be first agree. It does for `priceU`, which is read as the price only
  if none of the fields of a discount is filled (`WildberriesPricesRead`); that a price in
  kopecks is divided and no other is `UnitUndone`. The stock is a quantity, a flag or a
  word (`StockSaid`), and each provider's cases keep to it. A success has a product to be read
  from (`SuccessHasProduct`), and `SnapshotRead` joins the three.
* **Delivery.** `DeliveryInv` adds to the types what row each phase of the job
  implies (`RowOfPhase`) and an account of the copies (`Account`): a copy is paid by
  a reported error or by the one run that is, or was, past its send.
  `NothingAfterTheEnd` and `FailureIsDeadLettered` follow with small extensions.
  `SettledWithoutFaults` puts `processing_ends` in its place: as long as no fault has struck,
  a job that is over has left its row sent, skipped or dead-lettered, never in
  `processing`, for any number of tries.
* **Refinement.** `Refinement == Spec => Promise!Spec`: every step of the job is a
  step of `AlertDelivery` or a stutter; a crash abandons a set of alerts at once.

* **Settings.** `UsedWasInForce` is not inductive: it does not say which moment a call
  belongs to. `UseInv` names it (`Moment`): what was in force in the view of an
  internal call until its settings are resolved, and then those settings. It is one of
  `since`, and all that was used is of it. Resolving keeps the moment because what
  resolves without an error is what is in force (`ResolutionIsInForce`), in the view as
  in the table. The proof needs `TypeCorrect`. `NothingOverwrittenUnseen` needs `ViewInv`: a request that the database would
  still let write has seen the row as it is now. It is preserved because each write
  stales the other requests for its key, and a request that found no row may insert
  only while there is none. `TypeOK`, which says that a secret is stored encrypted and
  nothing else is, needs `SaveIsAllowed`: a save under way has a value the form
  accepts, and a master key is deployed if its key is a secret.

* **Migrations.** For any chain of revisions in order, any number of overlapping
  upgrades and any number of faults. `VersionMeansSchema` is not inductive: nothing in it
  says that an upgrade at the end of a revision has made all of it. `SchemaInv` adds what
  each upgrade has behind it (`UpgradesOnSchema`: the schema contains what the statements
  before its `pc` add, and its revision is at most the one after the version).
  `ServedSchema` follows because `Finish` is reached only past the last revision. `OverlapIsHarmless` needs `OnePartAtWork`: without
  a fault the schema is that of the version and what one upgrade has executed of the
  next revision. It is only one, as each revision opens by creating something, which a
  second upgrade is refused.

Only model-checked:

* all liveness, which needs fairness and ENABLED: `NeverForgotten`,
  `DeliveredWithoutFaults`, `OneOfThemFinishes` and the liveness of `KeepsPromise` (its
  safety part is `Refinement`);
* the three violations.

`NothingAfterTheEnd` (proved as `EndIsFinal`) is in no run of its own, as the refinement
that `delivery` checks implies it. No module has a RECURSIVE operator.

## 6. Abstractions and omissions

* How long a monitor is overdue, apart from the order; the delay of a retry.
* Of `price_checks` and `parser_errors` only what the newest check of a monitor wrote is
  kept; `products`, the audit log and mails of reset links are left out.
* In `PriceCheck` a URL is its product source (`SourceOf`), a page a price, a currency
  or an error. In `ProductUrls` numbers are compared as written: with leading zeros an
  article is another card. An Ozon or Yandex card with two slugs has two sources, so
  `CardHasOneSource` speaks of Wildberries only.
* Of a page: title, seller and image, a price that is an object with a currency of its
  own, and which texts contain a marker (`marks` says so). Amounts whose thousands are
  set off by a dot, or by a comma without kopecks, are read a thousand times too small
  (`ReadText`); the pages of `ProductPages` have none (`Says`), so `PriceAsSold` does not
  speak of them. A
  Zyte stock other than 0 and 1 is read as unknown. Texts that hold a quantity are left out. A price that is `true` or `false` raises and is left out.
* Downgrades (MariaDB refuses to drop an index that a foreign key needs, after earlier
  statements have been committed; no document promises them) and alembic's offline mode.
  `uq_monitors_user_source_deleted` binds nothing while `deleted_at` is NULL.
* A page fetched before another check committed may be written after it when the insert
  of the source fails (`LoseInsert`). A source whose currency changed keeps the old one
  and never recovers (`SourceAfter`). A price that is not found leaves the source in error
  without a code. `_create_unconfigured_failure` is unreachable as the code is wired
  (`api/deps.py:99-107`, `workers/tasks.py:65-76`).
* Four setting keys stand for the eleven. Not modelled: the token page itself, which
  lists nothing as soon as one secret cannot be decrypted
  (`web/router.py:784-788`), so that the setting can be cleared only by a request
  made without its button.
* The trimming of dead-letter lists.
* `NotificationDelivery` keeps one flag for the SMTP threads that cancelled or timed-out
  runs of one notification leave behind (`thread`), not their number. In `Migrations` the
  version table is there from the start: the race of two first upgrades to create
  `alembic_version` is left out.
* `api/v1/checks.py` and its router are not mounted (`api/v1/router.py:6-9`).
* Rendering, routing, metrics, logs, password hashing, sessions.
* MariaDB, arq, asyncio and SQLAlchemy are modelled from how the code uses them;
  those definitions are marked external.

## 7. Plan

1. Done: the components of section 2, each with its runs, and proofs of every safety
   property of the runs and of the refinements of `UrlLock`, `SerialChecks` and
   `AlertDelivery`.
2. Extend: `PriceCheck` composed with `NotificationDelivery` (an alert suppressed by one
   that is never delivered); `RuntimeSettings` composed with the schedule: an override such
   as `wildberries_basket_max_host = "many"` is stored as it is
   (`runtime_settings.py:52-63`) and then makes every check raise before it records
   anything; the bound of the dead-letter lists.
