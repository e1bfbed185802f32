\* Three hours of two days, a rollup and a backfill, of which one dies.
SPECIFICATION Spec
CONSTANTS
  Calls = {c1, c2}
  Failed = {c2}
  Amounts = {1}
  HoursPerDay = 2
  Lookback = 1
  LastHour = 2
  Workers = {w1}
  Replayer = replay
  MaxReplays = 1
  MaxDeaths = 1
  Null = Null
INVARIANTS
  TypeOK
  RowsWereTrue
PROPERTY
  HourlyComesRight
