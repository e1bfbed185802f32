---------------------------- MODULE UsageRollups ----------------------------
(* The usage tables (workers/metering.py): usage_hourly is computed from     *)
(* provider_calls, usage_daily from usage_hourly, and replay_backfill        *)
(* computes both again after a pricing correction.                           *)
(*                                                                           *)
(* A rollup is one READ COMMITTED transaction of a DELETE and an INSERT.     *)
(* Neither table has a unique key: a DELETE removes the rows its own         *)
(* statement saw, waits for a transaction that is deleting one of them, and  *)
(* does not see what that transaction inserted.                              *)
EXTENDS Integers, FiniteSets, FiniteSetsExt, Sequences

CONSTANTS
  Calls,       \* provider calls of one workspace, model and feature
  Failed,      \* the calls whose status is not success
  Amounts,     \* costs a call can come to
  HoursPerDay, \* 24
  Lookback,    \* lookback_hours of the scheduled hourly rollup
  LastHour,    \* bound on the clock
  Workers,     \* concurrent rollups started by beat
  Replayer,    \* the run of replay_backfill
  MaxReplays,  \* bound on replay_backfill
  MaxDeaths,   \* bound on rollups that do not finish
  Null         \* SQL NULL

ASSUME CallsAssumption == /\ IsFiniteSet(Calls) /\ Failed \subseteq Calls
                          /\ Amounts \subseteq Nat /\ Null \notin Nat
ASSUME ClockAssumption == HoursPerDay \in Nat \ {0} /\ Lookback \in Nat /\ LastHour \in Nat
ASSUME RunsAssumption  == /\ IsFiniteSet(Workers) /\ Replayer \notin Workers
                          /\ MaxReplays \in Nat /\ MaxDeaths \in Nat

VARIABLES
  now,      \* the hour
  hour,     \* created_at of each call, to the hour; Null until it is ingested
  cost,     \* provider_calls.cost_usd
  table,    \* the committed rows: by table, period and the run that inserted them
  run,      \* the transaction of each rollup
  rolled,   \* the day on which beat last started the daily rollup
  backfill, \* what replay_backfill has still to do
  replays,  \* history: replay_backfill runs so far
  deaths,   \* history: rollups that did not finish
  been      \* history: what the calls of each hour have come to so far

vars == <<now, hour, cost, table, run, rolled, backfill, replays, deaths, been>>

Hours   == 0 .. LastHour
Day(h)  == h \div HoursPerDay
Days    == 0 .. Day(LastHour)
Rollups == Workers \cup {Replayer}
Tables  == {"hourly", "daily"}

\* A rollup deletes its own earlier row of a period or finds it deleted, so a
\* row is known by its period and the rollup.
Periods == [hourly |-> Hours, daily |-> Days]

NoRun == [at |-> "idle", table |-> "hourly", periods |-> {}, victims |-> {}, rows |-> <<>>]

\* Rows of a table for some periods.
RowsOf(t, periods) ==
  {row \in (periods \cap Periods[t]) \X Rollups : table[t][row[1]][row[2]] # Null}

\* What a table says of a period: SUM(cost_usd) over its rows.
Says(t, p) == SumFunctionOnSet(table[t][p], {w \in Rollups : table[t][p][w] # Null})

\* Calls the hourly rollup counts.
Counted(h) == {c \in Calls \ Failed : hour[c] = h}

SumOf(calls, costs) == SumFunctionOnSet(costs, {c \in calls : costs[c] # Null})

\* COALESCE(SUM(cost_usd), 0) of an hour's calls, SUM(cost_usd) of a day's hours.
Aggregate(t, p) ==
  IF t = "hourly" THEN SumOf(Counted(p), cost)
  ELSE SumFunctionOnSet([h \in Hours |-> Says("hourly", h)], {h \in Hours : Day(h) = p})

\* A step of ingest, enrichment or backfill changes what the hours come to.
Note == been' = [h \in Hours |-> been[h] \cup {SumOf(Counted(h), cost)'}]

TypeOK ==
  /\ now \in Hours
  /\ hour \in [Calls -> Hours \cup {Null}]
  /\ cost \in [Calls -> Amounts \cup {Null}]
  /\ \A t \in Tables : table[t] \in [Periods[t] -> [Rollups -> Nat \cup {Null}]]
  /\ \A w \in Rollups :
       /\ run[w].at \in {"idle", "deleting", "deleted", "inserted"} /\ run[w].table \in Tables
       /\ run[w].periods \subseteq Periods[run[w].table]
       /\ run[w].victims \subseteq run[w].periods \X Rollups
       /\ DOMAIN run[w].rows \subseteq run[w].periods
  /\ replays \in 0 .. MaxReplays
  /\ deaths \in 0 .. MaxDeaths
  /\ rolled \in Days
  /\ been \in [Hours -> SUBSET Nat]

Init ==
  /\ now = 0
  /\ hour = [c \in Calls |-> Null]
  /\ cost = [c \in Calls |-> Null]
  /\ table = [t \in Tables |-> [p \in Periods[t] |-> [w \in Rollups |-> Null]]]
  /\ run = [w \in Rollups |-> NoRun]
  /\ backfill = <<>>
  /\ replays = 0
  /\ deaths = 0
  /\ rolled = 0
  /\ been = [h \in Hours |-> {SumOf(Counted(h), cost)}]

-----------------------------------------------------------------------------
(* The clock, ingest and cost enrichment *)

Tick ==
  /\ now < LastHour
  /\ now' = now + 1
  /\ UNCHANGED <<hour, cost, table, run, rolled, backfill, replays, deaths, been>>

\* The pipeline inserts a call, with the cost its event reports if it has one.
Ingest(c, reported) ==
  /\ hour[c] = Null
  /\ hour' = [hour EXCEPT ![c] = now]
  /\ cost' = [cost EXCEPT ![c] = reported]
  /\ UNCHANGED <<now, table, run, rolled, backfill, replays, deaths>>
  /\ Note

\* cost_enrichment commits the cost of a call, at any time after its creation.
Price(c, amount) ==
  /\ hour[c] # Null /\ cost[c] = Null
  /\ cost' = [cost EXCEPT ![c] = amount]
  /\ UNCHANGED <<now, hour, table, run, rolled, backfill, replays, deaths>>
  /\ Note

-----------------------------------------------------------------------------
(* _run_rollup_hourly, _run_rollup_daily *)

\* Mutant: the window ends an hour late.
Window_late(lookback) == now - lookback .. now + 1

\* The current hour and the lookback before it.
Window(lookback) == {h \in Hours : now - lookback <= h /\ h <= now}

\* The statement sees the rows that are committed when it starts.
StartDelete(w, t, periods) ==
  /\ run[w].at = "idle"
  /\ run' = [run EXCEPT ![w] = [at |-> "deleting", table |-> t, periods |-> periods,
                                victims |-> RowsOf(t, periods), rows |-> <<>>]]
  /\ UNCHANGED <<now, hour, cost, table, replays, deaths, been>>

\* Every half an hour.
StartHourly(w) ==
  StartDelete(w, "hourly", Window(Lookback)) /\ UNCHANGED <<rolled, backfill>>

\* Once a day, for yesterday.
StartDaily(w) ==
  /\ rolled < Day(now)
  /\ StartDelete(w, "daily", {Day(now) - 1})
  /\ rolled' = Day(now)
  /\ UNCHANGED backfill

Holds(v, t, rows) ==
  run[v].at \in {"deleted", "inserted"} /\ run[v].table = t /\ run[v].victims \cap rows # {}

\* The rows are locked, those that a rollup it waited for deleted are skipped.
DeleteRows(w) ==
  /\ run[w].at = "deleting"
  /\ \A v \in Rollups \ {w} : ~Holds(v, run[w].table, run[w].victims)
  /\ run' = [run EXCEPT ![w].at = "deleted"]
  /\ UNCHANGED <<now, hour, cost, table, rolled, backfill, replays, deaths, been>>

\* GROUP BY yields no row for a period without calls, or hours.
HasRows(t, p) ==
  IF t = "hourly" THEN Counted(p) # {}
  ELSE RowsOf("hourly", {h \in Hours : Day(h) = p}) # {}

InsertRows(w) ==
  LET t == run[w].table
  IN /\ run[w].at = "deleted"
     /\ run' = [run EXCEPT ![w].at = "inserted",
          ![w].rows = [p \in {p \in run[w].periods : HasRows(t, p)} |-> Aggregate(t, p)]]
     /\ UNCHANGED <<now, hour, cost, table, rolled, backfill, replays, deaths, been>>

\* Mutant: the rows are not deleted.
NewRow_kept(w, p, u) ==
  IF w = u /\ p \in DOMAIN run[w].rows THEN run[w].rows[p] ELSE table[run[w].table][p][u]

\* Mutant: the new sum is added to the rows, as ON CONFLICT DO UPDATE might do.
NewRow_onTop(w, p, u) ==
  IF w = u /\ p \in DOMAIN run[w].rows THEN run[w].rows[p] + Says(run[w].table, p) ELSE Null

\* The row of run u for a period once run w has committed.
NewRow(w, p, u) ==
  CASE w = u /\ p \in DOMAIN run[w].rows -> run[w].rows[p]
    [] ~(w = u /\ p \in DOMAIN run[w].rows) /\ <<p, u>> \in run[w].victims -> Null
    [] OTHER -> table[run[w].table][p][u]

CommitRollup(w) ==
  LET t == run[w].table
  IN /\ run[w].at = "inserted"
     /\ table' = [table EXCEPT ![t] =
          [p \in Periods[t] |-> [u \in Rollups |-> NewRow(w, p, u)]]]
     /\ run' = [v \in Rollups |->
          IF v = w THEN NoRun
          ELSE IF run[v].table = t THEN [run[v] EXCEPT !.victims = @ \ run[w].victims]
          ELSE run[v]]
     /\ UNCHANGED <<now, hour, cost, rolled, backfill, replays, deaths, been>>

\* A worker dies, or its transaction is chosen to end a deadlock.
AbortRollup(w) ==
  /\ run[w].at # "idle" /\ deaths < MaxDeaths
  /\ run' = [run EXCEPT ![w] = NoRun]
  /\ deaths' = deaths + 1
  /\ backfill' = IF w = Replayer THEN <<>> ELSE backfill
  /\ UNCHANGED <<now, hour, cost, table, rolled, replays, been>>

-----------------------------------------------------------------------------
(* _run_replay_backfill for the hours from .. to - 1 *)

\* The jobs after the clearing: the enrichment, one hourly rollup whose window
\* has the length of the range but ends now, and a daily rollup of each day.
Jobs(from, to) ==
  <<[do |-> "enrich", lookback |-> 0, day |-> 0],
    [do |-> "hourly", lookback |-> (to - from) + 2, day |-> 0]>>
  \o [i \in 1 .. Day(to) - Day(from) + 1 |->
        [do |-> "daily", lookback |-> 0, day |-> Day(from) + i - 1]]

ReplayClear(from, to) ==
  /\ backfill = <<>> /\ run[Replayer].at = "idle" /\ replays < MaxReplays
  /\ from < to /\ to <= now
  /\ cost' = [c \in Calls |-> IF hour[c] # Null /\ from <= hour[c] /\ hour[c] < to
                              THEN Null ELSE cost[c]]
  /\ backfill' = Jobs(from, to)
  /\ replays' = replays + 1
  /\ UNCHANGED <<now, hour, table, run, rolled, deaths>>
  /\ Note

\* _run_cost_enrichment: 500 calls at most, those with tokens and a price.
ReplayEnrich ==
  /\ backfill # <<>> /\ Head(backfill).do = "enrich"
  /\ \E priced \in SUBSET {c \in Calls : hour[c] # Null /\ cost[c] = Null} :
       \E costs \in [priced -> Amounts] :
         cost' = [c \in Calls |-> IF c \in priced THEN costs[c] ELSE cost[c]]
  /\ backfill' = Tail(backfill)
  /\ UNCHANGED <<now, hour, table, run, rolled, replays, deaths>>
  /\ Note

\* _run_rollup_hourly or _run_rollup_daily, within the backfill.
ReplayRollup ==
  /\ backfill # <<>> /\ Head(backfill).do # "enrich"
  /\ LET job == Head(backfill)
     IN IF job.do = "hourly" THEN StartDelete(Replayer, "hourly", Window(job.lookback))
        ELSE StartDelete(Replayer, "daily", {job.day} \cap Days)
  /\ backfill' = Tail(backfill)
  /\ UNCHANGED rolled

-----------------------------------------------------------------------------
Next ==
  \/ Tick
  \/ \E c \in Calls, reported \in Amounts \cup {Null} : Ingest(c, reported)
  \/ \E c \in Calls, amount \in Amounts : Price(c, amount)
  \/ \E w \in Workers : StartHourly(w) \/ StartDaily(w)
  \/ \E w \in Rollups : DeleteRows(w) \/ InsertRows(w) \/ CommitRollup(w) \/ AbortRollup(w)
  \/ \E from, to \in Hours : ReplayClear(from, to)
  \/ ReplayEnrich
  \/ ReplayRollup

\* Beat starts the rollups again and again, a transaction goes on once its
\* locks are free, and so does a backfill.
Fairness ==
  /\ \A w \in Workers : SF_vars(StartHourly(w)) /\ WF_vars(StartDaily(w))
  /\ \A w \in Rollups : WF_vars(DeleteRows(w) \/ InsertRows(w) \/ CommitRollup(w))
  /\ WF_vars(ReplayEnrich \/ ReplayRollup)

Spec == Init /\ [][Next]_vars /\ Fairness

-----------------------------------------------------------------------------
(* Properties *)

\* Every row of usage_hourly is a sum the calls of its hour came to at some
\* moment: rollups that overlap, die or read between two steps of a backfill
\* may leave two rows, but no row is itself a mixture (_run_rollup_hourly).
RowsWereTrue ==
  \A h \in Hours, w \in Rollups :
    table.hourly[h][w] # Null => table.hourly[h][w] \in been[h]

\* What overlapping or dead runs leave behind does not last: as long as an hour
\* is in the lookback, usage_hourly comes back to what its calls cost ("Full
\* recompute of usage_hourly for the last N hours").
HourlyComesRight ==
  \A h \in LastHour - Lookback .. LastHour :
    []<>(Says("hourly", h) = SumOf(Counted(h), cost) \/ now < LastHour)
=============================================================================
