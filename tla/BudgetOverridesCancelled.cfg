\* Approve and cancel race on one request.
SPECIFICATION Spec
CONSTANTS
  Overrides = {o1}
  Handlers = {h1, h2}
  Workers = {w1}
  Horizon = 1
  Windows <- MCWindows
INVARIANT
  CancelledNotInForce
