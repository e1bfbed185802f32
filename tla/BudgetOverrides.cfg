\* Two requests and one run of the expiry task, racing on two overrides.
SPECIFICATION Spec
CONSTANTS
  Overrides = {o1, o2}
  Handlers = {h1, h2}
  Workers = {w1}
  Horizon = 1
  Windows <- MCWindows
INVARIANTS
  SettledTogether
  InForceWasApproved
  RevocationSticks
  ExpiredIsPastDue
PROPERTIES
  ImplementsGrant
  PastDueLeavesForce
