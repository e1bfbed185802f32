---------------------------- MODULE BudgetSpend -----------------------------
(* One budget's spend counter: provider calls are ingested, the cost         *)
(* enrichment worker (workers/metering.py) prices them, the spend sync       *)
(* (workers/budgets.py) copies their sum into Redis, and the hot-path check  *)
(* (services/budgets.py) reads the counter.  The budget is a daily one, with *)
(* a key a day, or a total one, with one key.  (A monthly one is a daily one *)
(* whose days are months.)                                                   *)
(*                                                                           *)
(* Postgres holds the costs, Redis the counter: no transaction spans both.   *)
(* Workers overlap (beat enqueues by the clock, and a lost worker's task is  *)
(* delivered again), die between two steps, and Redis may evict the key.     *)
EXTENDS Integers, FiniteSets, FiniteSetsExt

CONSTANTS
  Calls,        \* provider calls, numbered in created_at order
  Models,       \* what a price is configured for
  ModelOf,      \* the model of each call
  WithTokens,   \* the calls that report input tokens
  PriceRows,    \* pricing rows there can be: a model, and the day it is effective from
  Scoped,       \* the calls the budget's scope_type and scope_id select
  ScopeType,    \* the budget's scope_type
  Amounts,      \* costs a call can come to, in units
  Limit,        \* the budget's limit_usd, in units
  BatchLimit,   \* calls one enrichment run takes (500)
  Enrichers,    \* concurrent runs of metering.cost_enrichment
  Syncs,        \* concurrent runs of budgets.budget_spend_sync
  LastDay,      \* bound on the clock: the last day
  MaxReplays,   \* bound on replay_backfill
  Null          \* SQL NULL, or a missing key

ASSUME CallsAssumption   == Calls \subseteq Nat /\ IsFiniteSet(Calls)
ASSUME ModelsAssumption  == ModelOf \in [Calls -> Models] /\ WithTokens \subseteq Calls
                            /\ PriceRows \subseteq [model : Models, from : 0 .. LastDay]
ASSUME AmountsAssumption == Amounts \subseteq Nat /\ Null \notin Nat
ASSUME BoundsAssumption  == Limit \in Nat /\ BatchLimit \in Nat \ {0}
                            /\ LastDay \in Nat /\ MaxReplays \in Nat
ASSUME ScopeAssumption   == Scoped \subseteq Calls /\ (ScopeType = "workspace" => Scoped = Calls)

VARIABLES
  periodType, \* the budget's period_type, which is never edited
  today,     \* the day
  created,   \* created_at of each call, to the day; Null until it is ingested
  cost,      \* provider_calls.cost_usd
  priced,    \* provider_pricing
  batch,     \* what each enrichment run has selected
  sync,      \* the period and the sum each spend sync is about to write
  counter,   \* the Redis key of each period
  denied,    \* periods in which the check refused a request
  peak,      \* history: the most the scoped calls of each period have come to
  replays    \* history: replay_backfill runs so far

spendVars ==
  <<periodType, today, created, cost, priced, batch, sync, counter, denied, peak, replays>>

Days == 0 .. LastDay
NoSync == [key |-> Null, sum |-> 0]

\* The period a day is in: the day itself, or the one period of a total budget.
PeriodKey(day) == IF periodType = "daily" THEN day ELSE 0

InPeriod(day, key) == day # Null /\ PeriodKey(day) = key

\* Cost of a set of calls, as SUM(cost_usd) ... WHERE cost_usd IS NOT NULL.
SumOf(calls, costs) == SumFunctionOnSet(costs, {c \in calls : costs[c] # Null})

CallsOf(key) == {c \in Calls : InPeriod(created[c], key)}

\* What the budget's calls of a period have come to.
Spend(key) == SumOf(CallsOf(key) \cap Scoped, cost)

Highest(a, b) == IF a > b THEN a ELSE b

Raise(times, costs) ==
  peak' = [d \in Days |->
             Highest(peak[d], SumOf({c \in Scoped : InPeriod(times[c], d)}, costs))]

SpendTypeOK ==
  /\ periodType \in {"daily", "total"}
  /\ today \in Days
  /\ created \in [Calls -> Days \cup {Null}]
  /\ cost \in [Calls -> Amounts \cup {Null}]
  /\ priced \subseteq PriceRows
  /\ batch \in [Enrichers -> SUBSET Calls]
  /\ sync \in [Syncs -> [key : Days \cup {Null}, sum : Nat]]
  /\ counter \in [Days -> Nat \cup {Null}]
  /\ denied \subseteq Days
  /\ peak \in [Days -> Nat]
  /\ replays \in 0 .. MaxReplays

SpendInit ==
  /\ periodType \in {"daily", "total"}
  /\ today = 0
  /\ created = [c \in Calls |-> Null]
  /\ cost = [c \in Calls |-> Null]
  /\ priced = {}
  /\ batch = [e \in Enrichers |-> {}]
  /\ sync = [y \in Syncs |-> NoSync]
  /\ counter = [d \in Days |-> Null]
  /\ denied = {}
  /\ peak = [d \in Days |-> 0]
  /\ replays = 0

-----------------------------------------------------------------------------
(* The environment: ingest, pricing, time, Redis. *)

\* The pipeline inserts a call, with the cost its event reports if it has one.
Ingest(c, reported) ==
  /\ created[c] = Null
  /\ created' = [created EXCEPT ![c] = today]
  /\ cost' = [cost EXCEPT ![c] = reported]
  /\ Raise([created EXCEPT ![c] = today], [cost EXCEPT ![c] = reported])
  /\ UNCHANGED <<periodType, today, priced, batch, sync, counter, denied, replays>>

\* A pricing row is created or imported.  Nothing ever sets its effective_to.
CreatePrice(row) ==
  /\ row \notin priced
  /\ priced' = priced \cup {row}
  /\ UNCHANGED <<periodType, today, created, cost, batch, sync, counter, denied, peak, replays>>

DeletePrice(row) ==
  /\ row \in priced
  /\ priced' = priced \ {row}
  /\ UNCHANGED <<periodType, today, created, cost, batch, sync, counter, denied, peak, replays>>

Midnight ==
  /\ today < LastDay
  /\ today' = today + 1
  /\ UNCHANGED <<periodType, created, cost, priced, batch, sync, counter, denied, peak, replays>>

\* A day's key reaches its TTL, or Redis evicts it or restarts without it.
Evict(d) ==
  /\ counter[d] # Null
  /\ counter' = [counter EXCEPT ![d] = Null]
  /\ UNCHANGED <<periodType, today, created, cost, priced, batch, sync, denied, peak, replays>>

-----------------------------------------------------------------------------
(* workers/metering.py: _run_cost_enrichment *)

\* Mutant: the filter on cost_usd is left out, and priced calls are taken again.
Uncosted_all == {c \in WithTokens : created[c] # Null}

\* A call without input tokens is never taken.
Uncosted == {c \in WithTokens : created[c] # Null /\ cost[c] = Null}

\* ORDER BY created_at LIMIT BatchLimit: the oldest uncosted calls, whether or
\* not a price exists for them.
Oldest(calls) ==
  {c \in calls : Cardinality({older \in calls : older < c}) < BatchLimit}

SelectCalls(e) ==
  /\ batch[e] = {}
  /\ batch' = [batch EXCEPT ![e] = Oldest(Uncosted)]
  /\ UNCHANGED <<periodType, today, created, cost, priced, sync, counter, denied, peak, replays>>

\* calculate_cost: None, and the call is skipped, while no price of its model
\* was effective when it was made.
Priceable(c) == \E row \in priced : row.model = ModelOf[c] /\ row.from <= created[c]

\* Mutant: the counter of the current period is incremented for each call, as
\* incr_budget_spend would, in Redis and before the costs are committed.
MeterHotPath_increments(calls, costs) ==
  counter' = [counter EXCEPT ![PeriodKey(today)] =
                (IF @ = Null THEN 0 ELSE @) + SumOf(calls \cap Scoped, costs)]

\* For each priced call the worker calls _matching_budgets without four of its
\* parameters.  The TypeError is caught and logged as budget_incr_failed, and
\* neither incr_budget_spend nor fire_breach runs.
MeterHotPath(calls, costs) == UNCHANGED counter

\* The batch's costs are committed together.  MeterHotPath runs call by call
\* before the commit, and is a step of its own when the commit never happens.
CommitCosts(e) ==
  \E costs \in [batch[e] -> Amounts] :
    LET calls    == {c \in batch[e] : Priceable(c)}
        newCosts == [c \in Calls |-> IF c \in calls THEN costs[c] ELSE cost[c]]
    IN /\ batch[e] # {}
       /\ cost' = newCosts
       /\ Raise(created, newCosts)
       /\ MeterHotPath(calls, newCosts)
       /\ batch' = [batch EXCEPT ![e] = {}]
       /\ UNCHANGED <<periodType, today, created, priced, sync, denied, replays>>

\* The worker dies after metering and before its commit: the costs roll back.
EnricherDies(e) ==
  \E costs \in [batch[e] -> Amounts] :
    /\ batch[e] # {}
    /\ MeterHotPath({c \in batch[e] : Priceable(c)},
                    [c \in Calls |-> IF c \in batch[e] THEN costs[c] ELSE Null])
    /\ batch' = [batch EXCEPT ![e] = {}]
    /\ UNCHANGED <<periodType, today, created, cost, priced, sync, denied, peak, replays>>

\* replay_backfill clears the costs of a window, and commits, before it prices
\* them again like any other enrichment run.
ReplayClear(from, to) ==
  /\ replays < MaxReplays
  /\ cost' = [c \in Calls |-> IF from <= c /\ c < to THEN Null ELSE cost[c]]
  /\ replays' = replays + 1
  /\ UNCHANGED <<periodType, today, created, priced, batch, sync, counter, denied, peak>>

-----------------------------------------------------------------------------
(* workers/budgets.py: _run_budget_spend_sync *)

\* The scope filter has a clause for end_user and for api_key; with any other
\* scope type the sum is the whole workspace's.
SyncedCalls == IF ScopeType \in {"end_user", "api_key"} THEN Scoped ELSE Calls

\* Mutant: SUM without COALESCE, which is NULL over no rows.
SyncSum_null(y) ==
  /\ sync[y] = NoSync
  /\ LET key   == PeriodKey(today)
         calls == {c \in CallsOf(key) \cap SyncedCalls : cost[c] # Null}
     IN sync' = [sync EXCEPT ![y] =
          [key |-> key, sum |-> IF calls = {} THEN Null ELSE SumOf(calls, cost)]]
  /\ UNCHANGED <<periodType, today, created, cost, priced, batch, counter, denied, peak, replays>>

\* The period key and the window come from one reading of the clock.
SyncSum(y) ==
  /\ sync[y] = NoSync
  /\ LET key == PeriodKey(today)
     IN sync' = [sync EXCEPT ![y] =
          [key |-> key, sum |-> SumOf(CallsOf(key) \cap SyncedCalls, cost)]]
  /\ UNCHANGED <<periodType, today, created, cost, priced, batch, counter, denied, peak, replays>>

\* Mutant: the key is built from the clock at the time of writing.
SyncSet_todaysKey(y) ==
  /\ sync[y] # NoSync
  /\ counter' = [counter EXCEPT ![PeriodKey(today)] = sync[y].sum]
  /\ sync' = [sync EXCEPT ![y] = NoSync]
  /\ UNCHANGED <<periodType, today, created, cost, priced, batch, denied, peak, replays>>

\* Mutant: SETNX instead of SET, so that a counter once written stays.
SyncSet_ifMissing(y) ==
  /\ sync[y] # NoSync
  /\ counter' = [counter EXCEPT ![sync[y].key] = IF @ = Null THEN sync[y].sum ELSE @]
  /\ sync' = [sync EXCEPT ![y] = NoSync]
  /\ UNCHANGED <<periodType, today, created, cost, priced, batch, denied, peak, replays>>

\* SET overwrites whatever the counter holds.
SyncSet(y) ==
  /\ sync[y] # NoSync
  /\ counter' = [counter EXCEPT ![sync[y].key] = sync[y].sum]
  /\ sync' = [sync EXCEPT ![y] = NoSync]
  /\ UNCHANGED <<periodType, today, created, cost, priced, batch, denied, peak, replays>>

SyncDies(y) ==
  /\ sync[y] # NoSync
  /\ sync' = [sync EXCEPT ![y] = NoSync]
  /\ UNCHANGED <<periodType, today, created, cost, priced, batch, counter, denied, peak, replays>>

-----------------------------------------------------------------------------
(* services/budgets.py: check_budgets for a budget whose action is block *)

\* get_budget_spend: zero if the key is missing.
BudgetSpent ==
  LET found == counter[PeriodKey(today)] IN IF found = Null THEN 0 ELSE found

CheckBudget ==
  /\ denied' = IF BudgetSpent >= Limit THEN denied \cup {PeriodKey(today)} ELSE denied
  /\ UNCHANGED <<periodType, today, created, cost, priced, batch, sync, counter, peak, replays>>

-----------------------------------------------------------------------------
SpendNext ==
  \/ \E c \in Calls, reported \in Amounts \cup {Null} : Ingest(c, reported)
  \/ \E row \in PriceRows : CreatePrice(row) \/ DeletePrice(row)
  \/ Midnight
  \/ \E d \in Days : Evict(d)
  \/ \E e \in Enrichers : SelectCalls(e) \/ CommitCosts(e) \/ EnricherDies(e)
  \/ \E from, to \in Calls : ReplayClear(from, to)
  \/ \E y \in Syncs : SyncSum(y) \/ SyncSet(y) \/ SyncDies(y)
  \/ CheckBudget

\* Beat enqueues the enrichment every minute, for ever: a run that dies is
\* followed by another, and not every run dies.  The sync has its turn once a
\* day.  For the key of a total budget there is a turn on every later day, for
\* which the last day stands; for a day's key there is none to count on.
SpendFairness ==
  /\ \A e \in Enrichers : WF_spendVars(SelectCalls(e)) /\ SF_spendVars(CommitCosts(e))
  /\ WF_spendVars(periodType = "total" /\ \E y \in Syncs : SyncSum(y))
  /\ SF_spendVars(periodType = "total" /\ \E y \in Syncs : SyncSet(y))

SpendSpec == SpendInit /\ [][SpendNext]_spendVars /\ SpendFairness

-----------------------------------------------------------------------------
(* Properties *)

\* The counter of a period never claims more than the budget's calls of that
\* period came to at some moment: overlapping, dying and late sync runs only
\* ever write sums that were true when they were read, under the period they
\* were read for.
CounterNeverAhead ==
  \A d \in Days : counter[d] # Null => counter[d] <= peak[d]

\* A request is refused only in a period whose spend did reach the limit:
\* neither yesterday's spend nor another scope's can block today's requests.
DeniedOnlyIfSpent == \A d \in denied : peak[d] >= Limit

\* "reconciled from Postgres on a schedule (so a Redis eviction can't lose
\* accounting)": once calls and their costs are at rest, the counter of a total
\* budget comes back to its spend again and again, however often the key is
\* evicted and the sync dies.  (A day's key has one turn of the sync in its day,
\* and what is evicted after it stays lost.)
CounterReconciles ==
  (periodType = "total" /\ <>[][FALSE]_<<created, cost>>) => []<>(counter[0] = Spend(0))

\* Once prices are at rest, and fewer calls than a batch wait without one, every
\* call with tokens and a price gets its cost, and again after a replay: the
\* calls at the head of the queue that cannot be priced do not keep the others
\* out, and dying runs lose none.
UnpricedBelowBatch == Cardinality({c \in Uncosted : ~Priceable(c)}) < BatchLimit

EnrichmentReachesAll ==
  (<>[][FALSE]_priced /\ <>[]UnpricedBelowBatch) =>
    \A c \in WithTokens : <>[](created[c] # Null /\ Priceable(c)) => []<>(cost[c] # Null)
=============================================================================
