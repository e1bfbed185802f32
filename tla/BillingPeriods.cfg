\* Two closes and an adjustment; one run of the daily task at a time; one of the three periods is handled.  Rows run out.
SPECIFICATION Spec
CONSTANTS
  Workspaces = {w1, w2}
  Ids = {p1, p2, p3}
  Handled = {p1}
  Adjustments = {a1}
  Closers = {c1, c2}
  Editors = {e1}
  Workers = {k1}
  Amounts = {1}
  MaxSpend = 1
  MaxCloses = 2
  Null = Null
INVARIANTS
  TypeOK
  ClosedAsSigned
  SignedTotalsGrow
  AcceptedIsCounted
PROPERTIES
  PeriodsAreCreated
CHECK_DEADLOCK FALSE
