SPECIFICATION Spec
CONSTANTS
  Web = {w1, w2}
  Pollers = {}
  Requests = {"complete", "retry", "cancel", "upgrade", "reconcile", "setup"}
  Tiers = {1, 2}
  MaxOrders = 2
  MaxTime = 3
  Month = 2
  OpenInView = TRUE
  AbortedVisible = {}
  LateDeclines = FALSE
SYMMETRY Symmetry
CHECK_DEADLOCK FALSE
INVARIANT AtMostOnePending
INVARIANT GrantedIsPaid
PROPERTY ImplementsPaidOrders
