\* One route with the worker, a report and an operator around it.
SPECIFICATION HealthSpec
CONSTANTS
  Routes = {r1}
  Workers = {w1}
  Reports = {s1}
  Operators = {o1}
  Threshold = 3
  Null = Null
INVARIANTS
  HealthTypeOK
PROPERTIES
  OnlyAutoDisabledRecover
  FailingRouteLeaves
