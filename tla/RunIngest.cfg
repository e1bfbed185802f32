\* Two runs in two batches, one of which may come back, and one closer of each kind.
SPECIFICATION Spec
CONSTANTS
  r1 = r1
  r2 = r2
  s1 = s1
  b1 = b1
  b2 = b2
  Runs = {r1, r2}
  OtlpRuns = {r1, r2}
  Spans = {s1}
  RunOf <- SpanOfR1
  Batches = {b1, b2}
  EventsOf <- TwoTraces
  Workers = {w1, w2}
  Finalizers = {f1}
  Guards = {g1}
  Admins = {a1}
  NoBatch = NoBatch
  NoSpan = NoSpan
  MaxLosses = 1
INVARIANTS
  TypeOK
  CallsCountedOnce
  BatchIsAtomic
PROPERTIES
  NeverReopens
  StaleTraceCloses
CHECK_DEADLOCK FALSE
