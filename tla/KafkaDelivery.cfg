\* One delivery, two admins and two runs of the retry task, any two at a time.
SPECIFICATION Spec
CONSTANTS
  Deliveries = {d1}
  Publishers = {p1}
  Admins = {a1, a2}
  Workers = {w1, w2}
  MaxRetries = 3
  MaxOpen = 2
INVARIANTS
  SuccessWasReceived
  DeadLetterWasWritten
PROPERTY
  RetriesEnd
