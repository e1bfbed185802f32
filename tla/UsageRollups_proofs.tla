------------------------ MODULE UsageRollups_proofs ------------------------
(* Proofs about UsageRollups.  What the hours came to is noted by the steps  *)
(* that change calls, so a sum that a rollup reads is one that was noted.    *)
EXTENDS UsageRollups, SumTheorems, TLAPS

RunShape(r) ==
  /\ DOMAIN r = {"at", "table", "periods", "victims", "rows"}
  /\ r.table \in Tables

Shapes ==
  /\ DOMAIN table = Tables
  /\ \A t \in Tables : /\ DOMAIN table[t] = Periods[t]
                       /\ \A p \in Periods[t] : DOMAIN table[t][p] = Rollups
  /\ DOMAIN run = Rollups /\ \A w \in Rollups : RunShape(run[w])
  /\ DOMAIN been = Hours

\* What an hour comes to has been noted.
SumsNoted == \A h \in Hours : SumOf(Counted(h), cost) \in been[h]

\* What an hourly rollup is about to commit was true when it was read.
RowsTrueOf(r) == r.table = "hourly" => \A h \in DOMAIN r.rows \cap Hours : r.rows[h] \in been[h]

Inv == Shapes /\ SumsNoted /\ (\A w \in Rollups : RowsTrueOf(run[w])) /\ RowsWereTrue

-----------------------------------------------------------------------------
\* The transaction of a rollup that does not run.
LEMMA NoRunShape == RunShape(NoRun) /\ DOMAIN NoRun.rows = {}
  BY DEF RunShape, NoRun, Tables

\* The inductive invariant holds at the start.
LEMMA InitInv == Init => Inv
<1> SUFFICES ASSUME Init  PROVE Inv
  OBVIOUS
<1>1. Shapes
  BY NoRunShape, ClockAssumption DEF Init, Shapes, Hours
<1>2. SumsNoted
  BY DEF Init, SumsNoted
<1>3. \A w \in Rollups : RowsTrueOf(run[w])
  BY NoRunShape DEF Init, RowsTrueOf
<1>4. RowsWereTrue
  BY DEF Init, RowsWereTrue, Tables, Periods
<1>5. QED  BY <1>1, <1>2, <1>3, <1>4 DEF Inv

\* A step that leaves the calls alone leaves what the hours come to alone.
LEMMA SumsKept ==
  ASSUME Inv, UNCHANGED <<hour, cost, been>>
  PROVE  SumsNoted'
<1>1. SumsNoted
  BY DEF Inv
<1>2. \A h : SumOf(Counted(h), cost)' = SumOf(Counted(h), cost)
  BY DEF SumOf, Counted
<1>3. QED  BY <1>1, <1>2 DEF SumsNoted

\* A step of some rollups that leaves the calls and the tables alone.
LEMMA RunsInv ==
  ASSUME Inv, UNCHANGED <<hour, cost, table, been>>,
         DOMAIN run' = Rollups,
         \A w \in Rollups : run'[w] = run[w] \/ (RunShape(run'[w]) /\ RowsTrueOf(run'[w]))
  PROVE  Inv'
<1>1. Shapes'
  BY DEF Inv, Shapes
<1>2. RowsWereTrue'
  BY DEF Inv, RowsWereTrue
<1>3. \A w \in Rollups : RowsTrueOf(run[w])'
  BY DEF Inv, RowsTrueOf
<1>4. QED  BY <1>1, <1>2, <1>3, SumsKept DEF Inv

\* A step that gives one rollup a transaction.
LEMMA RunInv ==
  ASSUME Inv, UNCHANGED <<hour, cost, table, been>>, NEW w \in Rollups, NEW r,
         RunShape(r), RowsTrueOf(r), run' = [run EXCEPT ![w] = r]
  PROVE  Inv'
<1>1. DOMAIN run' = Rollups /\ run'[w] = r /\ \A v \in Rollups \ {w} : run'[v] = run[v]
  BY DEF Inv, Shapes
<1>2. QED  BY <1>1, RunsInv

\* A rollup begins.
LEMMA StartDeleteInv ==
  ASSUME Inv, NEW w \in Rollups, NEW t \in Tables, NEW periods, StartDelete(w, t, periods)
  PROVE  Inv'
<1> DEFINE r == [at |-> "deleting", table |-> t, periods |-> periods,
                 victims |-> RowsOf(t, periods), rows |-> <<>>]
<1>1. run' = [run EXCEPT ![w] = r] /\ UNCHANGED <<hour, cost, table, been>>
  BY DEF StartDelete
<1>2. RunShape(r) /\ RowsTrueOf(r)
  BY DEF RunShape, RowsTrueOf
<1> HIDE DEF r
<1>3. QED  BY <1>1, <1>2, RunInv

\* The rollups of beat, and those within a backfill.
LEMMA StartInv ==
  ASSUME Inv, (\E w \in Workers : StartHourly(w) \/ StartDaily(w)) \/ ReplayRollup
  PROVE  Inv'
<1>1. \E w \in Rollups, t \in Tables : \E periods : StartDelete(w, t, periods)
  BY DEF StartHourly, StartDaily, ReplayRollup, Rollups, Tables
<1>2. QED  BY <1>1, StartDeleteInv

\* The rows are locked.
LEMMA DeleteRowsInv ==
  ASSUME Inv, NEW w \in Rollups, DeleteRows(w)  PROVE Inv'
<1> DEFINE r == [run[w] EXCEPT !.at = "deleted"]
<1>1. run' = [run EXCEPT ![w] = r] /\ UNCHANGED <<hour, cost, table, been>>
  BY DEF DeleteRows
<1>2. RunShape(run[w]) /\ RowsTrueOf(run[w])
  BY DEF Inv, Shapes
<1>3. RunShape(r) /\ RowsTrueOf(r)
  BY <1>2 DEF RunShape, RowsTrueOf
<1> HIDE DEF r
<1>4. QED  BY <1>1, <1>3, RunInv

\* The sums are read: what an hour comes to now is one of those it came to.
LEMMA InsertRowsInv ==
  ASSUME Inv, NEW w \in Rollups, InsertRows(w)  PROVE Inv'
<1> DEFINE t == run[w].table
           rows == [p \in {p \in run[w].periods : HasRows(t, p)} |-> Aggregate(t, p)]
           r == [[run[w] EXCEPT !.at = "inserted"] EXCEPT !.rows = rows]
<1>1. run' = [run EXCEPT ![w] = r] /\ UNCHANGED <<hour, cost, table, been>>
  BY DEF InsertRows
<1>2. RunShape(run[w])
  BY DEF Inv, Shapes
<1>3. RunShape(r) /\ r.rows = rows /\ r.table = t
  BY <1>2 DEF RunShape
<1>4. t = "hourly" => \A h \in DOMAIN rows : rows[h] = SumOf(Counted(h), cost)
  BY DEF Aggregate
<1> HIDE DEF r, rows
<1>5. RowsTrueOf(r)
  BY <1>3, <1>4 DEF RowsTrueOf, Inv, SumsNoted
<1>6. QED  BY <1>1, <1>3, <1>5, RunInv

\* A rollup commits: its rows become rows of the table.
LEMMA CommitRollupInv ==
  ASSUME Inv, NEW w \in Rollups, CommitRollup(w)  PROVE Inv'
<1> DEFINE t == run[w].table
<1>1. /\ table' = [table EXCEPT ![t] = [p \in Periods[t] |-> [u \in Rollups |-> NewRow(w, p, u)]]]
      /\ run' = [v \in Rollups |->
           IF v = w THEN NoRun
           ELSE IF run[v].table = t THEN [run[v] EXCEPT !.victims = @ \ run[w].victims]
           ELSE run[v]]
      /\ UNCHANGED <<hour, cost, been>>
  BY DEF CommitRollup
<1>2. /\ DOMAIN table = Tables /\ t \in Tables
      /\ \A s \in Tables : /\ DOMAIN table[s] = Periods[s]
                           /\ \A p \in Periods[s] : DOMAIN table[s][p] = Rollups
  BY DEF Inv, Shapes, RunShape
<1>3. /\ DOMAIN run' = Rollups
      /\ \A v \in Rollups :
           /\ RunShape(run'[v])
           /\ \/ run'[v] = NoRun
              \/ run'[v].rows = run[v].rows /\ run'[v].table = run[v].table
  <2> SUFFICES ASSUME NEW v \in Rollups
               PROVE  /\ RunShape(run'[v])
                      /\ \/ run'[v] = NoRun
                         \/ run'[v].rows = run[v].rows /\ run'[v].table = run[v].table
    BY <1>1
  <2>1. RunShape(run[v])
    BY DEF Inv, Shapes
  <2>2. CASE v = w
    BY <1>1, <2>2, NoRunShape
  <2>3. CASE v # w /\ run[v].table = t
    <3>1. run'[v] = [run[v] EXCEPT !.victims = @ \ run[w].victims]
      BY <1>1, <2>3
    <3>2. QED  BY <2>1, <3>1 DEF RunShape
  <2>4. CASE v # w /\ run[v].table # t
    BY <1>1, <2>1, <2>4
  <2>5. QED  BY <2>2, <2>3, <2>4
<1>4. DOMAIN table' = Tables
      /\ \A s \in Tables : /\ DOMAIN table'[s] = Periods[s]
                           /\ \A p \in Periods[s] : DOMAIN table'[s][p] = Rollups
  BY <1>1, <1>2
<1>5. Shapes'
  BY <1>1, <1>3, <1>4 DEF Shapes, Inv
<1>6. \A v \in Rollups : RowsTrueOf(run[v])'
  <2> SUFFICES ASSUME NEW v \in Rollups, run'[v].table = "hourly",
                      NEW h \in DOMAIN run'[v].rows \cap Hours
               PROVE  run'[v].rows[h] \in been'[h]
    BY DEF RowsTrueOf
  <2>1. run'[v].rows = run[v].rows /\ run'[v].table = run[v].table
    BY <1>3, NoRunShape
  <2>2. QED  BY <1>1, <2>1 DEF Inv, RowsTrueOf
<1>7. RowsWereTrue'
  <2> SUFFICES ASSUME NEW h \in Hours, NEW u \in Rollups, table'["hourly"][h][u] # Null
               PROVE  table'["hourly"][h][u] \in been[h]
    BY <1>1 DEF RowsWereTrue
  <2>1. table["hourly"][h][u] # Null => table["hourly"][h][u] \in been[h]
    BY DEF Inv, RowsWereTrue
  <2>2. CASE t # "hourly"
    BY <1>1, <1>2, <2>1, <2>2 DEF Tables
  <2>3. CASE t = "hourly"
    <3>1. table'["hourly"][h][u] = NewRow(w, h, u)
      BY <1>1, <1>2, <2>3 DEF Tables, Periods
    <3>2. CASE w = u /\ h \in DOMAIN run[w].rows
      <4>1. NewRow(w, h, u) = run[w].rows[h]
        BY <3>2 DEF NewRow
      <4>2. QED  BY <2>3, <3>1, <3>2, <4>1 DEF Inv, RowsTrueOf
    <3>3. CASE ~(w = u /\ h \in DOMAIN run[w].rows)
      <4>1. NewRow(w, h, u) = Null \/ NewRow(w, h, u) = table[t][h][u]
        BY <3>3 DEF NewRow
      <4>2. QED  BY <2>1, <2>3, <3>1, <4>1
    <3>4. QED  BY <3>2, <3>3
  <2>4. QED  BY <2>2, <2>3
<1>8. QED  BY <1>1, <1>5, <1>6, <1>7, SumsKept DEF Inv

\* A rollup dies.
LEMMA AbortRollupInv ==
  ASSUME Inv, NEW w \in Rollups, AbortRollup(w)  PROVE Inv'
<1>1. run' = [run EXCEPT ![w] = NoRun] /\ UNCHANGED <<hour, cost, table, been>>
  BY DEF AbortRollup
<1>2. RunShape(NoRun) /\ RowsTrueOf(NoRun)
  BY NoRunShape DEF RowsTrueOf
<1>3. QED  BY <1>1, <1>2, RunInv

\* A step of ingest, enrichment or backfill: what was noted stays, and what the
\* hours come to now is noted.
LEMMA CallsInv ==
  ASSUME Inv, Note, UNCHANGED <<table, run>>
  PROVE  Inv'
<1>1. been' = [h \in Hours |-> been[h] \cup {SumOf(Counted(h), cost)'}]
  BY DEF Note
<1>2. SumsNoted' /\ \A h \in Hours : been[h] \subseteq been'[h]
  BY <1>1 DEF SumsNoted
<1>3. Shapes'
  BY <1>1 DEF Inv, Shapes
<1>4. \A w \in Rollups : RowsTrueOf(run[w])'
  BY <1>2 DEF Inv, RowsTrueOf
<1>5. RowsWereTrue'
  BY <1>2 DEF Inv, RowsWereTrue
<1>6. QED  BY <1>2, <1>3, <1>4, <1>5 DEF Inv

\* Every step keeps the inductive invariant.
LEMMA NextInv == Inv /\ [Next]_vars => Inv'
<1> SUFFICES ASSUME Inv, [Next]_vars  PROVE Inv'
  OBVIOUS
<1>1. CASE Tick
  BY <1>1, RunsInv DEF Tick, Inv, Shapes
<1>2. ASSUME NEW c \in Calls, NEW reported \in Amounts \cup {Null}, Ingest(c, reported)
      PROVE  Inv'
  BY <1>2, CallsInv DEF Ingest
<1>3. ASSUME NEW c \in Calls, NEW amount \in Amounts, Price(c, amount)  PROVE Inv'
  BY <1>3, CallsInv DEF Price
<1>4. ASSUME NEW w \in Workers, StartHourly(w) \/ StartDaily(w)  PROVE Inv'
  BY <1>4, StartInv
<1>5. ASSUME NEW w \in Rollups, DeleteRows(w) \/ InsertRows(w) \/ CommitRollup(w) \/ AbortRollup(w)
      PROVE  Inv'
  BY <1>5, DeleteRowsInv, InsertRowsInv, CommitRollupInv, AbortRollupInv
<1>6. ASSUME NEW from \in Hours, NEW to \in Hours, ReplayClear(from, to)  PROVE Inv'
  BY <1>6, CallsInv DEF ReplayClear
<1>7. CASE ReplayEnrich
  BY <1>7, CallsInv DEF ReplayEnrich
<1>8. CASE ReplayRollup
  BY <1>8, StartInv
<1>9. CASE UNCHANGED vars
  BY <1>9, RunsInv DEF vars, Inv, Shapes
<1>10. QED
  BY <1>1, <1>2, <1>3, <1>4, <1>5, <1>6, <1>7, <1>8, <1>9 DEF Next

-----------------------------------------------------------------------------
\* For any number of rollups and backfills that overlap, die and read between
\* each other's steps, every row of usage_hourly is a sum the calls of its hour
\* came to at some moment (_run_rollup_hourly).
THEOREM RowsAreSumsThatWere == Spec => []RowsWereTrue
<1>1. Inv => RowsWereTrue
  BY DEF Inv
<1>2. QED  BY <1>1, InitInv, NextInv, PTL DEF Spec
-----------------------------------------------------------------------------
(* Types, and the numbers that the rows and the sums are. *)

RunType(r) ==
  /\ RunShape(r)
  /\ r.at \in {"idle", "deleting", "deleted", "inserted"}
  /\ r.periods \subseteq Periods[r.table]
  /\ r.victims \subseteq r.periods \X Rollups
  /\ DOMAIN r.rows \subseteq r.periods
  /\ \A p \in DOMAIN r.rows : r.rows[p] \in Nat

CallTypes ==
  /\ now \in Hours /\ rolled \in Days
  /\ hour \in [Calls -> Hours \cup {Null}]
  /\ cost \in [Calls -> Amounts \cup {Null}]
  /\ replays \in 0 .. MaxReplays /\ deaths \in 0 .. MaxDeaths

TableTypes ==
  /\ DOMAIN table = Tables
  /\ \A t \in Tables : table[t] \in [Periods[t] -> [Rollups -> Nat \cup {Null}]]

RunTypes == DOMAIN run = Rollups /\ \A w \in Rollups : RunType(run[w])

BeenTypes == been \in [Hours -> SUBSET Nat]

Types == CallTypes /\ TableTypes /\ RunTypes /\ BeenTypes

-----------------------------------------------------------------------------
\* The day of an hour is a day, whatever the length of a day.
LEMMA DayOfHour ==
  /\ \A h \in Hours : Day(h) \in Days /\ Day(h) \in Nat
  /\ IsFiniteSet(Hours) /\ LastHour \in Nat
<1> SUFFICES ASSUME NEW h \in Hours  PROVE Day(h) \in Days /\ Day(h) \in Nat
  BY ClockAssumption, FS_Interval DEF Hours
<1>1. h \in Nat /\ LastHour \in Nat /\ h <= LastHour /\ HoursPerDay \in Nat /\ HoursPerDay > 0
  BY ClockAssumption DEF Hours
<1> DEFINE a == h \div HoursPerDay
           b == LastHour \div HoursPerDay
<1>2. /\ a \in Int /\ b \in Int
      /\ HoursPerDay * a <= h /\ h < HoursPerDay * (a + 1)
      /\ HoursPerDay * b <= LastHour /\ LastHour < HoursPerDay * (b + 1)
  BY <1>1
<1> HIDE DEF a, b
<1>3. a >= 0
  BY <1>1, <1>2
<1>4. a <= b
  BY <1>1, <1>2
<1>5. QED  BY <1>2, <1>3, <1>4 DEF Day, Days, a, b

\* Runs are as many as the workers and one.
LEMMA RollupsFinite == IsFiniteSet(Rollups)
  BY RunsAssumption, FS_AddElement DEF Rollups

\* The cost of calls is a number.
LEMMA SumOfIsNat ==
  ASSUME NEW calls \in SUBSET Calls, NEW costs \in [Calls -> Amounts \cup {Null}]
  PROVE  SumOf(calls, costs) \in Nat
<1> DEFINE S == {c \in calls : costs[c] # Null}
<1>1. IsFiniteSet(S)
  BY CallsAssumption, FS_Subset
<1>2. \A c \in S : costs[c] \in Nat
  BY CallsAssumption
<1> HIDE DEF S
<1>3. SumFunctionOnSet(costs, S) \in Nat
  BY <1>1, <1>2, SumIsNat
<1>4. QED  BY <1>3 DEF SumOf, S

\* What a table says of a period is a number, for any number of rows.
LEMMA SaysIsNat ==
  ASSUME TableTypes, NEW t \in Tables, NEW p \in Periods[t]
  PROVE  Says(t, p) \in Nat
<1> DEFINE S == {w \in Rollups : table[t][p][w] # Null}
           f == table[t][p]
<1>1. IsFiniteSet(S)
  BY RollupsFinite, FS_Subset
<1>2. \A w \in S : f[w] \in Nat
  BY DEF TableTypes
<1> HIDE DEF S, f
<1>3. SumFunctionOnSet(f, S) \in Nat
  BY <1>1, <1>2, SumIsNat
<1>4. QED  BY <1>3 DEF Says, S, f

\* So is what a period comes to.
LEMMA AggregateIsNat ==
  ASSUME CallTypes, TableTypes, NEW t \in Tables, NEW p
  PROVE  Aggregate(t, p) \in Nat
<1>1. CASE t = "hourly"
  <2>1. Counted(p) \in SUBSET Calls
    BY DEF Counted
  <2>2. SumOf(Counted(p), cost) \in Nat
    BY <2>1, SumOfIsNat DEF CallTypes
  <2>3. QED  BY <1>1, <2>2 DEF Aggregate
<1>2. CASE t # "hourly"
  <2> DEFINE S == {h \in Hours : Day(h) = p}
             f == [h \in Hours |-> Says("hourly", h)]
  <2>1. IsFiniteSet(S)
    BY DayOfHour, FS_Subset
  <2>2. \A h \in S : f[h] \in Nat
    BY SaysIsNat DEF Tables, Periods
  <2> HIDE DEF S, f
  <2>3. SumFunctionOnSet(f, S) \in Nat
    BY <2>1, <2>2, SumIsNat
  <2>4. QED  BY <1>2, <2>3 DEF Aggregate, S, f
<1>3. QED  BY <1>1, <1>2

\* What is noted is a number.
LEMMA NoteTypes ==
  ASSUME Types, Note, CallTypes'
  PROVE  BeenTypes'
<1>1. \A h \in Hours : SumOf(Counted(h), cost)' \in Nat
  <2> SUFFICES ASSUME NEW h \in Hours  PROVE SumOf(Counted(h)', cost') \in Nat
    BY DEF SumOf
  <2>1. Counted(h)' \in SUBSET Calls /\ cost' \in [Calls -> Amounts \cup {Null}]
    BY DEF Counted, CallTypes
  <2>2. QED  BY <2>1, SumOfIsNat
<1>2. been' = [h \in Hours |-> been[h] \cup {SumOf(Counted(h), cost)'}]
  BY DEF Note
<1>3. \A h \in Hours : been[h] \cup {SumOf(Counted(h), cost)'} \in SUBSET Nat
  BY <1>1 DEF Types, BeenTypes
<1>4. QED  BY <1>2, <1>3 DEF BeenTypes

-----------------------------------------------------------------------------
\* The transaction of a rollup that does not run.
LEMMA NoRunType == RunType(NoRun)
  BY DEF RunType, RunShape, NoRun, Tables

\* The variables have their types at the start.
LEMMA InitTypes == Init => Types
<1> SUFFICES ASSUME Init  PROVE Types
  OBVIOUS
<1>1. CallTypes
  <2>1. 0 \in Hours /\ Day(0) \in Days /\ 0 \in Days
    BY DayOfHour, ClockAssumption DEF Hours, Days
  <2>2. QED  BY <2>1, RunsAssumption DEF Init, CallTypes
<1>2. TableTypes
  BY DEF Init, TableTypes
<1>3. RunTypes
  BY NoRunType DEF Init, RunTypes
<1>4. BeenTypes
  <2>1. \A h \in Hours : SumOf(Counted(h), cost) \in Nat
    BY <1>1, SumOfIsNat DEF Counted, CallTypes
  <2>2. QED  BY <2>1 DEF Init, BeenTypes
<1>5. QED  BY <1>1, <1>2, <1>3, <1>4 DEF Types

\* A rollup begins.
LEMMA StartDeleteTypes ==
  ASSUME Types, NEW w \in Rollups, NEW t \in Tables, NEW periods \in SUBSET Periods[t],
         StartDelete(w, t, periods), rolled' \in Days
  PROVE  Types'
<1> DEFINE r == [at |-> "deleting", table |-> t, periods |-> periods,
                 victims |-> RowsOf(t, periods), rows |-> <<>>]
<1>1. run' = [run EXCEPT ![w] = r] /\ UNCHANGED <<now, hour, cost, table, replays, deaths, been>>
  BY DEF StartDelete
<1>2. RowsOf(t, periods) \subseteq periods \X Rollups
  BY DEF RowsOf
<1>3. RunType(r)
  BY <1>2 DEF RunType, RunShape
<1> HIDE DEF r
<1>4. RunTypes'
  BY <1>1, <1>3 DEF Types, RunTypes
<1>5. QED  BY <1>1, <1>4 DEF Types, CallTypes, TableTypes, BeenTypes

\* The rollups of beat, and those within a backfill: yesterday is a day.
LEMMA StartTypes ==
  ASSUME Types, (\E w \in Workers : StartHourly(w) \/ StartDaily(w)) \/ ReplayRollup
  PROVE  Types'
<1>1. \A lookback : Window(lookback) \in SUBSET Periods["hourly"]
  BY DEF Window, Periods
<1>2. rolled \in Days /\ "hourly" \in Tables /\ "daily" \in Tables /\ Periods["daily"] = Days
  BY DEF Types, CallTypes, Tables, Periods
<1>3. ASSUME NEW w \in Workers, StartHourly(w)  PROVE Types'
  <2>1. w \in Rollups /\ StartDelete(w, "hourly", Window(Lookback)) /\ rolled' \in Days
    BY <1>2, <1>3 DEF StartHourly, Rollups
  <2>2. QED  BY <1>1, <1>2, <2>1, StartDeleteTypes
<1>4. ASSUME NEW w \in Workers, StartDaily(w)  PROVE Types'
  <2>1. /\ w \in Rollups /\ StartDelete(w, "daily", {Day(now) - 1}) /\ rolled' = Day(now)
        /\ rolled < Day(now)
    BY <1>4 DEF StartDaily, Rollups
  <2>2. Day(now) \in Days
    BY DayOfHour DEF Types, CallTypes
  <2>3. {Day(now) - 1} \in SUBSET Days
    <3>1. LastHour \in Hours
      BY DayOfHour DEF Hours
    <3>2. Day(LastHour) \in Nat /\ Day(now) \in Nat
      BY <3>1, DayOfHour DEF Types, CallTypes
    <3>3. QED  BY <1>2, <2>1, <2>2, <3>2 DEF Days
  <2>4. QED  BY <1>2, <2>1, <2>2, <2>3, StartDeleteTypes
<1>5. CASE ReplayRollup
  <2>1. Replayer \in Rollups /\ rolled' \in Days
    BY <1>2, <1>5 DEF ReplayRollup, Rollups
  <2>2. \/ \E lookback : StartDelete(Replayer, "hourly", Window(lookback))
        \/ \E day : StartDelete(Replayer, "daily", {day} \cap Days)
    BY <1>5 DEF ReplayRollup
  <2>3. QED  BY <1>1, <1>2, <2>1, <2>2, StartDeleteTypes
<1>6. QED  BY <1>3, <1>4, <1>5

\* A rollup goes on: its rows are locked, or its sums are read.
LEMMA RollupTypes ==
  ASSUME Types, NEW w \in Rollups, DeleteRows(w) \/ InsertRows(w)
  PROVE  Types'
<1>1. RunType(run[w]) /\ DOMAIN run = Rollups
  BY DEF Types, RunTypes
<1>2. \E r : RunType(r) /\ run' = [run EXCEPT ![w] = r]
  <2>1. CASE DeleteRows(w)
    <3> DEFINE r == [run[w] EXCEPT !.at = "deleted"]
    <3>1. run' = [run EXCEPT ![w] = r]
      BY <2>1 DEF DeleteRows
    <3>2. RunType(r)
      BY <1>1 DEF RunType, RunShape
    <3>3. QED  BY <3>1, <3>2
  <2>2. CASE InsertRows(w)
    <3> DEFINE t == run[w].table
               rows == [p \in {p \in run[w].periods : HasRows(t, p)} |-> Aggregate(t, p)]
               r == [[run[w] EXCEPT !.at = "inserted"] EXCEPT !.rows = rows]
    <3>1. run' = [run EXCEPT ![w] = r]
      BY <2>2 DEF InsertRows
    <3>2. t \in Tables
      BY <1>1 DEF RunType, RunShape
    <3>3. DOMAIN rows \subseteq run[w].periods /\ \A p \in DOMAIN rows : rows[p] \in Nat
      BY <3>2, AggregateIsNat DEF Types
    <3> HIDE DEF rows
    <3>4. RunType(r)
      BY <1>1, <3>3 DEF RunType, RunShape
    <3>5. QED  BY <3>1, <3>4
  <2>3. QED  BY <2>1, <2>2
<1>3. RunTypes'
  BY <1>1, <1>2 DEF Types, RunTypes
<1>4. QED  BY <1>3 DEF DeleteRows, InsertRows, Types, CallTypes, TableTypes, BeenTypes

\* A rollup commits its sums.
LEMMA CommitRollupTypes ==
  ASSUME Types, NEW w \in Rollups, CommitRollup(w)  PROVE Types'
<1> DEFINE t == run[w].table
<1>1. /\ table' = [table EXCEPT ![t] = [p \in Periods[t] |-> [u \in Rollups |-> NewRow(w, p, u)]]]
      /\ run' = [v \in Rollups |->
           IF v = w THEN NoRun
           ELSE IF run[v].table = t THEN [run[v] EXCEPT !.victims = @ \ run[w].victims]
           ELSE run[v]]
      /\ UNCHANGED <<now, hour, cost, rolled, backfill, replays, deaths, been>>
  BY DEF CommitRollup
<1>2. RunType(run[w]) /\ t \in Tables /\ table[t] \in [Periods[t] -> [Rollups -> Nat \cup {Null}]]
  BY DEF Types, RunTypes, TableTypes, RunType, RunShape
<1>3. \A p \in Periods[t], u \in Rollups : NewRow(w, p, u) \in Nat \cup {Null}
  BY <1>2 DEF NewRow, RunType
<1>4. TableTypes'
  BY <1>1, <1>2, <1>3 DEF Types, TableTypes
<1>5. ASSUME NEW v \in Rollups  PROVE RunType(run'[v])
  <2>1. RunType(run[v])
    BY DEF Types, RunTypes
  <2>2. CASE v = w
    BY <1>1, <2>2, NoRunType
  <2>3. CASE v # w /\ run[v].table = t
    <3>1. run'[v] = [run[v] EXCEPT !.victims = @ \ run[w].victims]
      BY <1>1, <2>3
    <3>2. QED  BY <2>1, <3>1 DEF RunType, RunShape
  <2>4. CASE v # w /\ run[v].table # t
    BY <1>1, <2>1, <2>4
  <2>5. QED  BY <2>2, <2>3, <2>4
<1>6. RunTypes'
  BY <1>1, <1>5 DEF RunTypes
<1>7. QED  BY <1>1, <1>4, <1>6 DEF Types, CallTypes, BeenTypes

\* A rollup dies.
LEMMA AbortRollupTypes ==
  ASSUME Types, NEW w \in Rollups, AbortRollup(w)  PROVE Types'
<1>1. RunTypes'
  BY NoRunType DEF AbortRollup, Types, RunTypes
<1>2. deaths' \in 0 .. MaxDeaths
  BY RunsAssumption DEF AbortRollup, Types, CallTypes
<1>3. QED  BY <1>1, <1>2 DEF AbortRollup, Types, CallTypes, TableTypes, BeenTypes

\* A step of ingest, of enrichment or of the clock.
LEMMA CallsTypes ==
  ASSUME Types, Note \/ UNCHANGED been, UNCHANGED <<table, run>>, CallTypes'
  PROVE  Types'
<1>1. BeenTypes'
  BY NoteTypes DEF Types, BeenTypes
<1>2. QED  BY <1>1 DEF Types, TableTypes, RunTypes

\* Every step keeps the types.
LEMMA NextTypes == Types /\ [Next]_vars => Types'
<1> SUFFICES ASSUME Types, [Next]_vars  PROVE Types'
  OBVIOUS
<1>1. CallTypes
  BY DEF Types
<1>2. CASE Tick
  <2>1. now' \in Hours
    BY <1>1, <1>2, ClockAssumption DEF Tick, CallTypes, Hours
  <2>2. QED  BY <1>1, <1>2, <2>1, CallsTypes DEF Tick, CallTypes
<1>3. ASSUME NEW c \in Calls, NEW reported \in Amounts \cup {Null}, Ingest(c, reported)
      PROVE  Types'
  <2>1. CallTypes'
    BY <1>1, <1>3 DEF Ingest, CallTypes
  <2>2. QED  BY <1>3, <2>1, CallsTypes DEF Ingest
<1>4. ASSUME NEW c \in Calls, NEW amount \in Amounts, Price(c, amount)  PROVE Types'
  <2>1. CallTypes'
    BY <1>1, <1>4 DEF Price, CallTypes
  <2>2. QED  BY <1>4, <2>1, CallsTypes DEF Price
<1>5. ASSUME NEW from \in Hours, NEW to \in Hours, ReplayClear(from, to)  PROVE Types'
  <2>1. replays' \in 0 .. MaxReplays
    BY <1>1, <1>5, RunsAssumption DEF ReplayClear, CallTypes
  <2>2. CallTypes'
    BY <1>1, <1>5, <2>1 DEF ReplayClear, CallTypes
  <2>3. QED  BY <1>5, <2>2, CallsTypes DEF ReplayClear
<1>6. CASE ReplayEnrich
  <2>1. CallTypes'
    BY <1>1, <1>6 DEF ReplayEnrich, CallTypes
  <2>2. QED  BY <1>6, <2>1, CallsTypes DEF ReplayEnrich
<1>7. CASE UNCHANGED vars
  BY <1>7 DEF vars, Types, CallTypes, TableTypes, RunTypes, BeenTypes
<1>8. QED
  BY <1>2, <1>3, <1>4, <1>5, <1>6, <1>7, StartTypes, RollupTypes, CommitRollupTypes,
     AbortRollupTypes DEF Next

\* For any number of calls, rollups and backfills the usage tables hold numbers
\* of periods there are, and a rollup writes within its window
\* (_run_rollup_hourly, _run_rollup_daily).
THEOREM TypeCorrect == Spec => []TypeOK
<1>1. Types => TypeOK
  BY DEF Types, CallTypes, TableTypes, RunTypes, RunType, RunShape, BeenTypes, TypeOK
<1>2. QED  BY <1>1, InitTypes, NextTypes, PTL DEF Spec
=============================================================================
