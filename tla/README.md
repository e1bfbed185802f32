# RunLedger in TLA+

RunLedger records what AI agents do and what it costs. A FastAPI control plane
(`src/apps/api`) takes events and serves the console; Celery workers and beat
do the rest in the background; a Rust gateway (`src/apps/gateway-rs`) forwards
model calls. Postgres is the truth, Redis holds counters, caches and queues.

This directory models the parts of it whose correctness depends on order:
database sessions that read, decide and write later, workers that run twice or
die half way, batches that arrive out of order, and two stores that no
transaction spans. The API paths below are relative to
`src/apps/api/runledger_api/`.

## What runs concurrently, and on what terms

Four facts about the platform shape every module.

- **Sessions.** A request handler gets its session from `get_db`
  (`core/db.py`), which closes it without a commit: what a handler has not
  committed is rolled back. Postgres runs at READ COMMITTED, and almost no code
  takes a lock when it reads: a check and the write it guards are two steps.
- **Workers.** `core/celery_app.py` sets `task_acks_late`: a task is
  acknowledged after it ran, so a lost or slow worker's task is delivered
  again. Delivery is at least once; nothing is retried because it failed
  unless the code says so, and the tasks modelled here do not.
- **Beat** enqueues periodic tasks by the clock, whether or not the last run
  has ended. Two runs of a task may overlap, and a run always follows a run
  that died.
- **Redis** loses keys: by TTL, by eviction, by restart.

## Inventory

| Component | State | Operations | What is hard |
|---|---|---|---|
| Budget overrides (`routers/budgets.py`, `workers/budget_overrides.py`) | `budget_overrides.status` and window | create, activate, revoke, deny, cancel, expire | five writers, each with a check of its own, some guarded again in SQL and some not |
| Approvals (`routers/approvals.py`) | `approvals.status`, `audit_events` | request, approve, deny, cancel | the decision and its effect on an override; what follows the commit |
| Spend counter (`services/budgets.py`, `workers/budgets.py`) | a Redis key per budget and period | increment, sync, check, evict | two stores, overlapping syncs, midnight |
| Cost enrichment (`workers/metering.py`) | `provider_calls.cost_usd` | select, price, commit, replay | bounded batches, death between Redis and Postgres |
| Rollups (`workers/metering.py`) | `usage_hourly`, `usage_daily` | hourly, daily, replay_backfill | DELETE and INSERT without a unique key, overlapping transactions |
| Kafka export (`services/kafka_export.py`) | `kafka_export_deliveries`, two topics | publish, retry by hand, retry by beat, dead-letter | sessions that overlap on one row; lost acknowledgements |
| Ingest pipeline (`routers/ingest.py`, `workers/pipeline.py`) | `agent_runs`, `spans`, calls, the queue | accept, handle six kinds of event | repeated, reordered and failing batches |
| Closing of runs (`workers/otlp_finalize.py`, `workers/budgets.py`, `routers/runs.py`) | `agent_runs.status` | finalize, runaway cancel, manual cancel | closers that race with `run_end` and with each other |
| Gateway data plane (`src/apps/gateway-rs`) | one request at a time | preflight, attempts, fallbacks, finalize | every call to the control plane or a provider may be lost or late, and may have had its effect |
| Gateway control plane (`routers/gateway_runtime.py`, `services/gateway.py`, `services/gateway_controls.py`) | `prompt_cache`, `cooldown_until`, `gateway_requests` | plan, report, store, record, mirror | requests share the cache, the cooldowns and the caps |
| Gateway route health (`workers/gateway_health.py`, `routers/gateway_routing.py`) | four columns of `gateway_routes` | check, report, edit | three writers with stale rows |
| Billing (`services/billing.py`, `workers/billing.py`) | periods, snapshots, adjustments | open, close, adjust, create daily | two closers; adjustments after the check |
| Python SDK (`src/packages/sdk`) | a bounded queue, one thread | enqueue, flush, retry, stop, restart | tasks that interleave at awaits; what is held at a stop |
| Ledger (`services/ledger.py`) | signing keys, daily snapshots | rotate, sign, verify | creation on first use |
| Backups, alerts, rate limits, retention | their own tables and keys | see `PROJECT.json` | crash between two steps; check then insert |
| Sidecars, web console, TypeScript SDK, analytics, authentication | | | computations, reads and conditions: no protocol |

How they interact: the SDKs and the gateway feed the pipeline; the pipeline's
calls are priced by enrichment and rolled up by hour and day; their sum is synced to the counter; the check
compares the counter with a limit that an override may raise; an approval
decides the override. The pipeline, the approvals and the budgets publish to
the Kafka export from inside their own transactions. A gateway request is planned over
the routes that route health keeps in rotation. Billing sums the calls of a month.

What makes each component correct is listed as properties below; the hazards
that no property covers yet are in `PROJECT.json` with a note each.

## Modules

| Module | Models | Used by |
|---|---|---|
| `TimeBoxedGrant` | the abstract promise of an override: asked for once, in force at most once, ended for good | `BudgetOverrides`, as its refinement |
| `BudgetOverrides` | overrides and the approvals that gate them | `MCBudgetOverrides`, `Budgets_proofs` |
| `BudgetSpend` | calls, their costs, prices and one budget's counter | `MCBudgetSpend`, `Budgets_proofs` |
| `Budgets_proofs` | the theorems of both | |
| `KafkaDelivery` | the delivery log and its sessions | `MCKafkaDelivery`, `KafkaDelivery_proofs` |
| `KafkaDelivery_proofs` | its theorems | |
| `RunIngest` | queue, transactions and closers of runs | `MCRunIngest`, `RunIngest_proofs` |
| `RunIngest_proofs` | its theorems | |
| `GatewayRoutes` | the routes, which the next two share | `GatewayRequest`, `RouteHealth` |
| `GatewayRequest` | chat completions through both planes of the gateway | `MCGatewayRequest`, `Gateway_proofs` |
| `RouteHealth` | which routes are in rotation | `MCRouteHealth`, `Gateway_proofs` |
| `Gateway_proofs` | the theorems of both | |
| `UsageRollups` | the usage tables and the backfill | `MCUsageRollups`, `UsageRollups_proofs` |
| `UsageRollups_proofs` | its theorems | |
| `SdkTransport` | the Python SDK's queue, tasks and thread | `MCSdkTransport`, `SdkTransport_proofs` |
| `SdkTransport_proofs` | its theorems | |
| `BillingPeriods` | periods, adjustments, closes, the daily task | `MCBillingPeriods`, `BillingPeriods_proofs` |
| `BillingPeriods_proofs` | its theorems | |
| `SumTheorems` | what sums over finite sets are, for the proofs | `Budgets_proofs`, `UsageRollups_proofs`, `BillingPeriods_proofs` |

Each `MC` module only gives values to constants. `Budgets_proofs` and
`Gateway_proofs` extend two specifications each, so `BudgetSpend` and
`RouteHealth` put `Spend` or `Health` before the names that both would use
(`SpendInit`, `SpendTypeOK`, `HealthSpec`). In each module an operator
whose comment begins with "Mutant:" is the next operator with a plausible bug
in it; no specification uses it. It is there to show that a property depends on
the code: with the mutant in place of the operator, TLC finds the property
violated.

### BudgetOverrides

A session is `idle`, then `checked` (it has read the row and passed the 409),
then `committed`, then `idle` again. `CheckDecision` and `CheckRevoke` are the
SELECT and the early return; `ApproveApproval`, `DenyApproval`,
`CancelApproval` and `RevokeOverride` are the writes up to the commit, with the
SQL guards the code has: activation and cancellation say
`WHERE status = 'pending'`, denial and revocation go by id alone.
`CreateOverride` inserts the override and, if one is required, the approval.
`FinishRequest` is what follows the commit: the audit event, which the budgets
router commits and the approvals router does not. `SelectExpired` and
`ExpireOverrides` are the worker's SELECT and UPDATE. `Abort` is the death of a
process at any point.

Assumed: an approval names an override only if `create_override` wrote it. The
body of `POST /approvals` is free-form, and a request that is made to name an
override is outside the model. The statements of one transaction are one step,
because its row locks are held to the commit.

### BudgetSpend

One budget, daily or total (`periodType`): a daily one has a key per day, a
total one a single key (`PeriodKey`). `Ingest` inserts a call, with the cost its event or the
gateway reports, or without. `SelectCalls` takes the oldest uncosted calls with
tokens up to the batch limit; `CommitCosts` prices those for which
`calculate_cost` finds a row of the model that was effective when the call was
made (`Priceable`), and
`EnricherDies` is a run that ends before its commit. `CreatePrice` and
`DeletePrice` are the routes that edit prices. `MeterHotPath` is the
`try` block that was meant to move the counter. `today` is the clock, `LastDay`
its bound. `SyncSum` and `SyncSet` are the
two halves of the sync of one budget. `CheckBudget` is `check_budgets` for the
action `block`. `peak` is a history variable: the most the spend of a
period has been.
`created` is abstracted to the day, and the order of calls to their numbers;
amounts are small integers. The workspace has one budget, so a sync of several
is several syncs.

### KafkaDelivery

A session loads rows as objects, changes them while it talks to the broker,
and commits. `Merged` is the part SQLAlchemy plays: an UPDATE sets the columns
whose value differs from the one loaded, and no version is compared, so
overlapping sessions mix their columns. `Send`, `SendFails` and `SendGivesUp`
are the three ways through `_deliver_once`; a send that raises may have reached
the topic. `PublishEvent`, `RetryDelivery` and `ProcessPendingDeliveries` are
the three callers, which differ in how they count attempts and in whether they
catch the last exception. Backoff is left out: a `next_retry_at` that is set
comes. `test_config` is a publish. `MaxOpen` bounds how many sessions have rows
loaded at a time.

Met on the way, and kept in the model: retries that overlap can leave a row that
says `retry_scheduled` without a time. One session fails after another succeeded:
the row says `success` and has a time. Two more load it; one fails and writes
`retry_scheduled`; the other succeeds, which changes nothing about the status it
loaded and clears the time. The retry task looks for a time that has come, so it
never takes the row again.

### RunIngest

Every transaction is a list of statements; a step executes one. `Seen` is what
a statement sees: its own writes over what is committed. `Write` waits for rows
that another open transaction has written, `BreakDeadlock` fails one statement
of a circle. `Fail` is an error: Postgres aborts the transaction, the loop in
`_process_events` catches the exception and goes on, and the COMMIT at the end
is a rollback. `LoseAck`, `LoseWorker` and `VisibilityTimeout` are the three
ways a task is delivered again. A provider call in a span has an id derived
from run and span, a call outside any span and a tool call a random one.
`SelectStale`, `SelectRunaway` and `CancelRun` begin the other transactions
that close runs; "older than five minutes" and the thresholds of a runaway are
nondeterministic choices among the running runs.

Not in the model: events that cannot be parsed (skipped without a statement),
outcome events (rows like those of tool calls), capture policy and scrubbing
(payload only), and the Kafka events published along the way.

### GatewayRequest

One record per request holds what both planes know of it: `phase` is where its
control flow is, `plan` the execution steps the control plane returned, `tries`
the attempts of each. `AnswerFromCache`, `BlockPrompt`, `ChooseRoutes` and
`PlanRoute` are the preflight; a route whose cooldown runs or whose cost cap is
reached is left out of the plan, one route at a time, while other requests go
on. `CallProvider` is one attempt, with five outcomes that differ in what they
trigger and in whether the provider charges; `Report` is the report of it, whose
own loss is ignored, and the decision of `execute_step` to retry, to fall back
or to end. `CheckStored` and `StoreAnswer` are the two halves of `store_cache`,
`RecordRequest` the commit of the row, `AnswerClient` the response and the
mirror. `PreflightFails`, `FinalizeFails` and `GatewayDies` are what breaks.
`billed` is a history variable.

A prompt arrives as one string and is cached as another: the context compiler
and the guardrails prepare it (`PreparedAs`), the cache is read under what
arrived and filled under what was prepared. Strategies of route selection are a
choice among `Queues`; latencies, tokens and amounts are left out, a cap counts
answers.

### RouteHealth

`window` is what the last ten minutes of `gateway_requests` say of a route.
`LoadRoutes`, `CheckRoute`, `CommitRun` are one run of the health check: it
decides on rows as it loaded them and keeps every row it has updated locked
until its one commit. `ReadReported` and `CommitReport` are
`gateway_runtime_route_result`, `ReadRoute` and `UpdateRoute` a PUT; both write
the columns that differ from what they loaded, and wait for locked rows. The
counter stops at the threshold, with which it is only compared. `suspended` is a
history variable: the routes a run has disabled and no run enabled since. A run
notes it when it loads the routes.

### UsageRollups

A row of a usage table is known by its period and the run that inserted it.
`StartHourly` and `StartDaily` begin a rollup and fix which rows its DELETE
sees; `DeleteRows` waits for transactions that are deleting one of them;
`InsertRows` reads the calls, or the hours, anew, as READ COMMITTED does; rows of others that were
inserted meanwhile stay. `ReplayClear`, `ReplayEnrich` and `ReplayRollup` are
`replay_backfill`: it clears costs in a commit of its own and then runs the
same jobs, the hourly one with a window as long as the range but ending now.
Its enrichment prices some of the uncosted calls, whichever 500 those with
tokens and a price are. `been` is a history variable: every sum the calls of
each hour have come to. The steps that change calls note it, not those that
read them.

### SdkTransport

A step of the event loop runs to its next `await`, which makes taking the queue
one step. `Enqueue` starts the thread if there is none, `LoopFlush`, `Flush` and
an `Enqueue` at the threshold take the queue into a batch of their own task,
`SendSucceeds`, `SendFails` and `Retry` are `_send_with_retry`. `Shutdown`,
`ShutdownTimesOut`, `LoopStops`, `LoopEnds` and `ThreadEnds` are the ways a
thread ends; the application may go on and start another. `tries`, `received`,
`dropped` and `cut` are history variables.

Met on the way, and kept in the model: `shutdown` cancels the batch the flush
loop is sending; `flush` does not wait for batches in flight; three attempts
with their waits may last longer than the 30 s `shutdown` waits, which leaves a
thread without a flush loop (`halted`); and the queue is emptied at 100 events,
so its limit of 500 is never reached, while the batches in flight, to
which events move, have no limit.

### BillingPeriods

A close is `read`, `locked`, `totalled`, `summed`: the SELECT, the UPDATE to
`closing` that locks the row, and the two sums. Its commit writes the snapshot
and the figures together. `BeginEdit` and `FinishEdit` are the check of the
status and the write of an adjustment, `DeleteAdjustment` has no check.
`StartScan`, `LookAt` and `FinishScan` are the daily task, `AbortScan` its death
before the one commit. The snapshot
remembers, as history, the adjustments that stood all along and are not in it
(`missed`). One month; refunds and prepaid deductions count as credits.

## Runs

| Run | Shows | Bounds |
|---|---|---|
| `BudgetOverrides` | four invariants, the refinement of `TimeBoxedGrant`, and that every override leaves force after its window | two overrides, two handlers, one expiry run, clock 0..1, three windows |
| `BudgetOverridesCancelled` | finding: a cancelled request with its override in force | one override, two handlers |
| `BudgetSpend` | the counter never exceeds what the spend has been; no unfounded refusal; a total budget's counter reconciles; enrichment reaches every call with tokens and a price of its time | four calls, two models, one price that begins on the second day, batch of two, one sync at a time, two days, one replay |
| `KafkaDelivery` | the log claims nothing that did not happen; retries end | one delivery, a publisher, two admins, two workers, any two of them at a time, three retries |
| `RunIngest` | no double billing, atomic batches, closed runs stay closed, stale traces close | two runs, one span, two batches, two workers, one closer of each kind, one redelivery |
| `GatewayRequest` | answers are recorded once and rows paid for; attempts and fallbacks in order; the cache holds what passed; every request is answered | two requests whose prompts are prepared to the same one, three routes: one with a retry, a cooldown, a cap and a mirror, one on timeout, one spare |
| `GatewayRequestStored` | finding: filling the cache costs a request its answer | the same |
| `RouteHealth` | a route comes back only by an operator, or by a run if a run had disabled it; a failing route leaves | one route, one run at a time, one report, one operator, threshold 3 |
| `UsageRollups` | every hourly row is a sum its hour came to; the recent hours come right again and again | one call that counts, one that failed, three hours of two days, a rollup and a backfill, one death |
| `SdkTransport` | batches are disjoint, copies come from retries, nothing is given up early, every event is answered for | three events, a flush, batches of two, three attempts, two shutdowns |
| `BillingPeriods` | closed periods show what was signed, of sums that grow and miss no adjustment; the daily task creates periods | two workspaces, three periods of which one is closed and adjusted, two closers, one editor and adjustment, two closes |
| `BillingPeriodsShared` | finding: one workspace with two periods keeps all the others from getting one | two workspaces, four periods |

Why the bounds are enough to be interesting. *Overrides*: any two requests and
an expiry can interleave on the same row, which is every race of a check with
one write in between, and the expiry can hold a list of two. The clock passes
the end of a window while sessions are open. *Spend*: a call whose model has no
price, one whose price may begin too late for it, one without tokens, and one of
another key; midnight falls between any two steps; a batch
can be full, and a batch full of calls without a price comes before one with; a sync may die and its
successor write. *Kafka*:
any two of five sessions on one row, an admin with the other or with a worker
among them, and attempts run from the first through the retries
past the last; the row without a time is reached. *Ingest*: both batches touch both runs, in different orders, so
that transactions block each other, fail foreign keys and deadlock; either
batch may be delivered a second time while the first delivery is still open.
*Gateway*: the second request may hit what the first stored, find its cooldown
or its cap, or fill the cache at the same moment; every kind of step of a plan,
conditional, retried, mirrored, occurs. Both requests use the cache
(`Caching`); one that does not is a request that reads and stores nothing. *Route health*: the counter goes from
zero past the threshold by either writer, and all three writers hold stale rows
at once. *Rollups*: a rollup and a backfill overlap in either order on both
tables, over the boundary of a day, with a call that comes late or changes its
price. *SDK*: one event may fill a batch while another is in flight, retried or
cancelled, and the thread may end, be left halted, and start anew. *Billing*:
two closes and an edit of the same period in every order; the daily task meets
no, one or two periods.

`CHECK_DEADLOCK FALSE` is set where a system may stop: once every batch is
handled and every run closed (`RunIngest`), every request answered
(`GatewayRequest`), the application done (`SdkTransport`), the rows of the
model used up (`BillingPeriods`). The other modules have a step in every state.

## What the properties say

- `SettledTogether`: an override waits exactly as long as its approval. It
  needs the approval's commit and the override's to be one, and every effect of
  a decision to leave `pending`.
- `InForceWasApproved`: a denial on record means the override is not in force,
  although approve and deny may both have read `pending`. It holds because
  denial is *not* guarded by the status: guarded like the other two, it would
  be lost after an approval.
- `RevocationSticks`, `ExpiredIsPastDue`: what is on record is so, although it
  was written from an earlier read.
- `ImplementsGrant`: nothing that ended is in force again.
- `PastDueLeavesForce`, `CounterReconciles`, `EnrichmentReachesAll`,
  `RetriesEnd`, `StaleTraceCloses`, `FailingRouteLeaves`,
  `HourlyComesRight`, `PeriodsAreCreated`: what beat is for.
- `CounterNeverAhead`, `DeniedOnlyIfSpent`: the counter is a sum that was true
  when it was read, stored under the day it was read for.
- `SuccessWasReceived`, `DeadLetterWasWritten`: the log does not claim more
  than the broker has.
- `CallsCountedOnce`, `BatchIsAtomic`, `NeverReopens`: what at-least-once
  delivery must not break.
- `AnsweredIsRecorded`, `RecordedWasBilled`: the client has its answer only
  after the row is committed, and the row only after the provider was paid. The
  converse of either does not hold: an answer may be paid for and lost.
- `RoutesAreExhaustedInOrder`: every unconditional route gets all its attempts
  before the next, whatever cooldowns are set meanwhile.
- `CachedAnswersPassed`: a hit skips all guardrails, so only what has passed
  them may be stored, under whatever key.
- `EveryRequestIsAnswered`, `EventsAreSettled`: nobody waits for ever.
- `CounterReconciles` is about total budgets. The sync runs once a day and the
  hot path never moves the counter, so a daily key that is evicted after its
  sync reads as zero for the rest of its day, and a monthly one that is evicted
  after the last sync of the month for the rest of that. The promise "so a Redis
  eviction can't lose accounting" (`docs/finops/budgets.mdx:40`) is kept only for
  keys that a later sync sets again.
- `EnrichmentReachesAll` is about calls with tokens and with a price that was
  effective when they were made: the others are never selected, or never
  priced, whatever happens.
- `RetriesEnd`: no delivery is due for ever. That every scheduled delivery is
  settled is *not* so: see the row without a time, above.
- `OnlyAutoDisabledRecover`: although report, run and PUT all write what they
  decided on stale rows, a report never brings a route back, and a run only one
  that a run had disabled. It holds because an ORM session writes changed
  columns only, and because the run reads the reason along with the flag. It
  does not say that the last word is the operator's: a PUT leaves
  `disabled_reason`, so a route that a run disabled, an operator enabled and
  then took out is brought back by the next good window.
- `RowsWereTrue`: overlapping rollups may double the row of an hour until the
  next one, but each row is a sum the calls came to at some moment. It says
  nothing of `usage_daily`: the daily rollup runs once for a day and adds up
  whatever rows the hours have then, so an hour that is doubled at that moment
  stays in the day until somebody runs a backfill over it.
- `BatchesAreDisjoint`, `CopiesAreRetries`, `DroppedAfterRetries`: an event is
  in one place, and what arrives twice was sent twice.
- `ClosedAsSigned`, `SignedTotalsGrow`, `AcceptedIsCounted`: two closers both
  pass the check that the period is not closed, and both sign; the later
  signature then is the one shown, and it is of a later sum.

`TypeOK` of `BudgetOverrides`, `KafkaDelivery` and `SdkTransport` is proved and
in no run; the others are checked.

The findings are in `PROJECT.json`, each with the sentence it contradicts. In
`BudgetOverridesCancelled` two requests that each passed its check leave a
combination neither would have allowed; in `GatewayRequestStored` the handler of
an exception fails itself; in `BillingPeriodsShared` one row too many stops a
task for everybody. Other disagreements are kept in the models without a run of
their own: the daily key that stays wrong, above; `DELETE` of an adjustment
(`routers/billing.py:581`) does not look at the status of its period, although
`docs/finops/billing.mdx:51` limits it to open periods (`DeleteAdjustment` has
no such guard); and a fallback with a policy or context trigger is never taken,
because a refusal ends the request (`AfterAttempt`), although
`docs/gateway/gateway-rs-spec.mdx:135` says that fallbacks are activated on
matching failures.

## Fairness

Every fairness condition is about a task that beat enqueues for ever, one the
broker delivers for as long as it is not acknowledged, or a step that the
runtime takes sooner or later. Weak fairness of a *select* step: a run is
started again and again. Strong fairness of a *commit* step: a run may die, but
not every run dies. No request of a user is assumed to happen, and nothing
about failures.

- `BudgetSpend`: enrichment is always started again (weak) and not every run
  dies before its commit (strong). The same is assumed of the sync for a total
  budget only: beat starts it once per 86,400 s, which is again and again for a
  key that does not change, and once for a daily one.
- `KafkaDelivery`: a request that has loaded rows commits or ends. A delivery
  that stays due is taken by a run of the retry task, which makes its attempts
  and commits, though other runs die.
- `GatewayRequest`: each plane takes the next step of a request, unless it
  breaks: a provider call has a timeout, a connection answers or ends.
- `RouteHealth`: a run is started again; not every run dies before a check or
  its commit; the old rows of a route without traffic leave the window.
- `UsageRollups`: the hourly rollup is started again and again, the daily one
  once a day; a transaction goes on once its locks are free, which Postgres sees to by ending
  deadlocks (`AbortRollup`).
- `SdkTransport`: the event loop runs every task that can run; a request has a
  timeout of 10 s. The application may do nothing more.
- `BillingPeriods`: the daily task is started again and again, and not every run
  dies at the same point, whatever it has looked at by then.

Some properties carry a premise. `EnrichmentReachesAll` assumes that from some
point on fewer uncosted calls than a batch lack a price: otherwise they starve
the others; and that prices come to rest. `RetriesEnd` assumes the export stays
enabled, since the retry task skips disabled configurations, and that retries by
hand end, each of which gives a row new attempts. `CounterReconciles` assumes
that calls and costs come to rest.
`FailingRouteLeaves` assumes that no operator interferes and no call of the
route succeeds from some point on, since a success resets the counter the
health check raises; `HourlyComesRight` is about the last hours of the clock,
the only ones that remain in the lookback; `PeriodsAreCreated` excludes the
finding; `EventsAreSettled` excludes the halted thread.

## Proofs

Theorems hold for all constants that satisfy the named assumptions, whatever
the instance TLC checks. Every proof goes the same way: an invariant that is
inductive, one lemma per action or group of actions, and the property from it.

### Overrides

`Budgets_proofs` proves of `BudgetOverrides` for every set of overrides,
handlers and workers, every clock bound and every set of windows in
`Nat \X Nat`:

| Theorem | Property |
|---|---|
| `TypeCorrect` | `TypeOK` |
| `RequestAndOverrideSettleTogether` | `SettledTogether` |
| `DenialPrevails` | `InForceWasApproved` |
| `RevocationIsFinal` | `RevocationSticks` |
| `NothingExpiresEarly` | `ExpiredIsPastDue` |
| `ImplementsTimeBoxedGrant` | `ImplementsGrant` |

The assumptions are `HorizonAssumption` and `WindowsAssumption` of
`BudgetOverrides`, which TLC evaluates on every run.

The properties are not inductive: from a state in which a session holds a list
for expiry that names a pending override, the next step breaks three of them.
The inductive invariant `IInv` adds what makes writing without looking again
harmless. `MemoryHolds` says what remains true of the row a session has read,
however many others commit before it writes: a decision is about an override
that has an approval; a revocation or expiry is about one that has left
`pending`, to which no operation returns; an expiry's window stays over, since
the clock does not go back. `ApprovalHasOverride` says that an approval is
never older than its override. With `IInv`, `StepPreserves` is one case per
action; `StepRefines` maps each step to a step of `TimeBoxedGrant` or to none.

### Spend

`Budgets_proofs` proves of `BudgetSpend` for every finite set of calls, all
models, enrichment runs and syncs, every batch size, limit and set of amounts
in `Nat`, daily and total budgets, any edits of prices, and any number of days
and replays:

| Theorem | Property |
|---|---|
| `SpendTypeCorrect` | `SpendTypeOK` |
| `CounterIsNeverAhead` | `CounterNeverAhead`, if `FilterIsComplete` |
| `NothingIsDeniedBelowTheLimit` | `DeniedOnlyIfSpent`, if `FilterIsComplete` |

The counter is not bounded by the spend: a replay clears costs, and the counter
keeps what it was. It is bounded by `peak`. `SpendInv` adds `PeakCovers`, that
the spend of a period is at most the peak of that period, and `ReadSumsWereTrue`, that
what a sync holds between its SELECT and its SET is at most the peak of the period
it holds it for; peaks only rise, so it stays true for as long as the sync is
late. The one fact it needs of sums is that they do not grow when costs are
cleared (`ClearedIsLess`). `FilterIsComplete` says that the budget's scope is
the workspace, an end user or an API key: for any other scope type
`workers/budgets.py:244` leaves the filter out, the sync writes the spend of
the whole workspace, and TLC finds both properties violated (set `ScopeType` to
`"team"` in `BudgetSpend.cfg`). The run's budget, of an API key, meets it.

### Sums

What the database adds up is a fold over a finite set in the models. A fold has
no value until it is known that its recursion has a solution, and the
induction theorems of the library take a predicate, which no prover here
instantiates. `SumTheorems` puts a set in its place: a set of numbers that has
0 and each successor is `Nat` (`CountingUp`, from a least counterexample), so a
collection of subsets that has the empty set, and a set with one element more
whenever it has the set, has every finite set (`AddingUp`). From that it follows that
a solution exists (`SumsExist`), that it is the same whichever element is taken
first (`AnyElementFirst`), and the facts the proofs cite: a sum of natural
numbers is one (`SumIsNat`), an element adds its number (`SumWithOneMore`), and
fewer and smaller numbers have no larger sum (`SumIsMonotonic`).

### Kafka

`KafkaDelivery_proofs` proves for every set of deliveries, publishers, admins
and workers and every number of retries (`MaxRetriesAssumption`):

| Theorem | Property |
|---|---|
| `TypeCorrect` | `TypeOK` |
| `SuccessIsTrue` | `SuccessWasReceived` |
| `DeadLetterIsTrue` | `DeadLetterWasWritten` |

What the log claims is not inductive either: a session writes what it has
noted during earlier sends. `IInv` says that the objects of every session are
truthful as well. The lemma it rests on is `MergedIsTruthful`: a row that mixes
the columns of a truthful row and a truthful object, in whatever way the
columns a session loaded decide, is truthful. That is why overlapping commits,
which do lose attempts and leave rows stuck, never make the log claim a
delivery that did not happen.

### SDK

`SdkTransport_proofs` proves for every set of events and flushes and all limits
with `Threshold <= MaxQueue` (`LimitsAssumption`), if the tasks of enqueued
events are not those of flushes (`TasksAssumption`):

| Theorem | Property |
|---|---|
| `TypeCorrect` | `TypeOK` |
| `NoEventIsHeldTwice` | `BatchesAreDisjoint` |
| `CopiesComeFromRetries` | `CopiesAreRetries` |
| `NothingIsDroppedEarly` | `DroppedAfterRetries` |

The invariant `Inv` adds to the properties that what is queued was never sent
and that the queue is shorter than the threshold (`Queued`), and that the
events of a batch have been sent as often as its attempt says, and, as long as
the answer to the last attempt is out, received fewer times than that
(`Holding`). Almost every action gives
one task a batch, ends some others, or both; `Moves` proves once that such a
step keeps `Inv`, and `LettingGo` the same of steps that send nothing.

### Billing

`BillingPeriods_proofs` proves for every set of workspaces, rows, closers,
editors and runs, every finite set of adjustments and every amount in `Nat`
(`AmountsAssumption`, `IdsAssumption`):

| Theorem | Property |
|---|---|
| `TypeCorrect` | `TypeOK` |
| `ClosedPeriodsShowWhatWasSigned` | `ClosedAsSigned` |
| `LaterSnapshotsAreNotLess` | `SignedTotalsGrow` |
| `ClosesCountWhatWasAccepted` | `AcceptedIsCounted` |

`Closing` says that one close at a time has the lock of a period: two may have
read it open. `SignedWasSpent` and `Signed` bind the snapshots to the spend: a
total that was signed is no more than what is spent now, and the total a locked
close has read is no less than any signed one, since nobody can sign in
between. `StillThere` follows the adjustments a close has to count: they are
there, and counted once the sum is read, unless they are deleted. These three
do not depend on what the sums come to. `TypeCorrect` does: on top of the
invariant, `Figures` says that sums are numbers, so that no period shows a
negative net, whatever its credits (`NetIsNat`), and that a period names a
snapshot there is.

### Ingest

`RunIngest_proofs` proves for every finite set of runs, every set of spans and
events, all batches, any number of workers and closers and of losses
(`EventsAssumption`: events have passed the schema; `RowsAssumption`,
`RunsAssumption`, `WorkersAssumption`: ids of different kinds differ):

| Theorem | Property |
|---|---|
| `TypeCorrect` | `TypeOK` |
| `SpanCallsCountOnce` | `CallsCountedOnce` |
| `ClosedRunsStayClosed` | `NeverReopens`, if `EndsEnd` |
| `BatchesAreAtomic` | `BatchIsAtomic`, if `OwnIds` |

`Locks` says that a row written by an open transaction is written by no other;
`WritesOK` that a run which a transaction has written as running was absent and
still is. So what is inserted as running meets no row at the commit, and what
an UPDATE leaves is an end. That needs `EndsEnd`: the schema accepts a
`run_end` whose status is `running`, although no client sends one, and such an
event would reopen its run. Atomicity rests on a second invariant, `Whole`: the
calls a transaction has written, with those it has still to write and those
that were there before, are always all the calls of its batch. It needs
`OwnIds`, that no two calls share an id: two calls of one span derive the same
one (the hazard at `workers/pipeline.py:282`), and a batch then finds its
second call recorded by another. TLC's instance meets both premises.

### Gateway

`Gateway_proofs` proves of `GatewayRequest` for every set of requests, routes
and prompts, every `Queues`, retry count and cap, and any pattern of mirrors,
cooldowns and preparation of prompts:

| Theorem | Property |
|---|---|
| `TypeCorrect` | `TypeOK` |
| `AnswersAreRecordedOnce` | `AnsweredIsRecorded`, if `MirrorsElsewhere` |
| `RowsAreBilled` | `RecordedWasBilled` |
| `RoutesInOrder` | `RoutesAreExhaustedInOrder` |
| `CacheIsPaidFor` | `CachedAnswersPassed` |

The invariant says four things of each request. `Told`: what its client knows,
by phase. `Tried`: every unconditional step before the current one has had all
its attempts, and none after it has had one. `Paid`: how many answers a provider has charged for
is, by phase, enough for the rows there are and the one about to be written.
`Cached` and `Hits`: an entry of the cache has a request that stored it, and
that request passed. Each action moves one request, so the lemma `Locally`
reduces a step to the request it moves. `MirrorsElsewhere`, that no route is its own
mirror, is what makes the row of an answer the only one of its route. What the
caps count is never expanded.

It proves of `RouteHealth` for every set of routes, workers, reports and
operators and every threshold:

| Theorem | Property |
|---|---|
| `HealthTypeCorrect` | `HealthTypeOK` |
| `OnlyAutoDisabledRoutesRecover` | `OnlyAutoDisabledRecover` |

`HealthInv` is about the rows and about everybody's copies of them: the worker's
reason is on a row only if the route is in `suspended`, and on a run's copy only
if it was there when the run began (`Marked`); a run enables only what was there
then, and clears the reason with the flag (`Update`);
reports and PUTs write the columns that are theirs (`ReportOK`,
`PutOK`). A run's copy is compared with the run's own snapshot of `suspended`,
so what others commit meanwhile does not disturb it.

### Rollups

`UsageRollups_proofs` proves for every finite set of calls and of workers, any
number of hours, any length of a day and any number of backfills and deaths:

| Theorem | Property |
|---|---|
| `TypeCorrect` | `TypeOK` |
| `RowsAreSumsThatWere` | `RowsWereTrue` |

What an hour comes to now has been noted (`SumsNoted`): the steps of ingest,
enrichment and backfill note it, and no other changes a call. So a sum that an
hourly rollup reads is one of those, and remains one while the transaction is
open and others price or clear (`RowsTrueOf`), since history only grows. `TypeCorrect` expands the sums: `Types` adds to `TypeOK`
that the rows an open run holds are numbers, which is what a sum of rows and a
sum of calls have to be.

### What is only model-checked

The ten liveness properties, since the prover has no rule for fairness, and
the three findings, which are counterexamples. Every safety property of a
passing run is a theorem above, in three modules under premises that are named
with it (`FilterIsComplete`, `EndsEnd` and `OwnIds`, `MirrorsElsewhere`).

## Not modelled

- Most of the code by lines reads: analytics, listings and reports, whose
  routers and schemas are a third of the API, compute answers from the tables
  and change nothing. Scenario scripts, migrations, the console and tests are
  not behaviour of the system, or have no state of their own. What is modelled
  is small beside them, and is what can go wrong by its order.
- Streaming requests of the gateway: none of them is finalized, so there is
  nothing to race with. The semantic cache, address rules and required
  metadata are conditions on a request. Rate limits count in one key per
  minute, which no step depends on later. Cost caps have one window here.
- `RouteHealth` has one run of the worker at a time; beat starts one every five
  minutes, and a second would only wait for the locks of the first.
  Creation and deletion of routes are edits of a list.
- In `BillingPeriods` only some periods are closed and adjusted (`Handled`), so
  that the others can be there for the daily task. Reconciliation compares a
  sum with a figure and writes a report; chargeback computes shares.
- Span and run totals follow the costs in a second commit, from the same calls;
  a run that dies in between leaves them to the next call of the run.
- Signing keys and ledger snapshots, backups, alerts, and the definitions cache
  of budgets have a race or two each and remain planned, below.
- The kafka message of an event that its caller then rolls back: no module has
  both the caller's transaction and the topic.
- The TypeScript SDK is a second client of the same API; the sidecars keep
  stores that nothing modelled here reads.

## Plan

In this order; each step comes with its runs, mutants and findings.

1. `BudgetCache`: the definitions cache between `BudgetOverrides` and
   `CheckBudget`, composed of both: how long after a revocation the higher
   limit may be granted.
2. `SdkTransport` composed with `RunIngest`: an event is recorded, or reported
   as dropped.
3. `LedgerKeys`, `BackupRuns`, `AlertRules`.
4. A second call in one span (`workers/pipeline.py:282`), an event whose status
   is `running`, and a budget whose scope the sync cannot filter by
   (`workers/budgets.py:244`), as instances outside the premises of the theorems.
5. That `SpendInv`'s `ReadSumsWereTrue` and the rollups' `RowsWereTrue` are one
   abstract specification, a figure that is read in one step and written in a
   later one, which both refine.
