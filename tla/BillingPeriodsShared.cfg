\* Two workspaces, one of which may get two periods of the month.
SPECIFICATION Spec
CONSTANTS
  Workspaces = {w1, w2}
  Ids = {p1, p2, p3, p4}
  Handled = {}
  Adjustments = {}
  Closers = {}
  Editors = {}
  Workers = {k1}
  Amounts = {}
  MaxSpend = 0
  MaxCloses = 0
  Null = Null
PROPERTY
  EveryWorkspaceGetsAPeriod
CHECK_DEADLOCK FALSE
