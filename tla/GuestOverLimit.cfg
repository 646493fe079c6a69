SPECIFICATION Spec
CONSTANTS
  Requests = {r1, r2, r3, r4, r5}
  Limit = 3
  MaxRetries = 2
  LateRequests = FALSE
SYMMETRY Symmetry
CHECK_DEADLOCK FALSE
INVARIANT TrialWithinLimit
