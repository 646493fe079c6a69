SPECIFICATION Spec
CONSTANTS
  Web = {w1, w2}
  Pollers = {p1}
  Requests = {"complete", "retry", "cancel", "upgrade", "reconcile"}
  Tiers = {1, 2}
  MaxOrders = 2
  MaxTime = 3
  Month = 2
  OpenInView = FALSE
  AbortedVisible = {}
  LateDeclines = TRUE
SYMMETRY Symmetry
CHECK_DEADLOCK FALSE
INVARIANT TermsPaidOnce
PROPERTY CancelSticks
PROPERTY SettledIsFinal
