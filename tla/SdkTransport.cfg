\* Three events and a flush, batches of two, two shutdowns.  The application may be done.
SPECIFICATION Spec
CONSTANTS
  Events = {e1, e2, e3}
  Flushers = {f1}
  Threshold = 2
  MaxQueue = 3
  MaxRetries = 3
  Stops = 2
INVARIANTS
  BatchesAreDisjoint
  CopiesAreRetries
  DroppedAfterRetries
PROPERTIES
  EventsAreSettled
CHECK_DEADLOCK FALSE
