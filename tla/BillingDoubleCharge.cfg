SPECIFICATION Spec
CONSTANTS
  Web = {w1, w2}
  Pollers = {p1}
  Requests = {"complete", "retry", "cancel"}
  Tiers = {1}
  MaxOrders = 2
  MaxTime = 3
  Month = 2
  OpenInView = TRUE
  AbortedVisible = {}
  LateDeclines = FALSE
CHECK_DEADLOCK FALSE
INVARIANT TermsPaidOnce
