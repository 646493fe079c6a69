SPECIFICATION Spec
CONSTANTS
  Requests = {r1, r2, r3, r4}
  Limit = 2
  MaxRetries = 2
  LateRequests = TRUE
SYMMETRY Symmetry
CHECK_DEADLOCK FALSE
INVARIANT StoredWithinLimit
INVARIANT NoSlotLost
INVARIANT SuccessCountedOnce
