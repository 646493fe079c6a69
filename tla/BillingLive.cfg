SPECIFICATION FairSpec
CONSTANTS
  Web = {w1}
  Pollers = {p1}
  Requests = {"complete", "retry"}
  Tiers = {1}
  MaxOrders = 2
  MaxTime = 3
  Month = 2
  OpenInView = FALSE
  AbortedVisible = {1}
  LateDeclines = FALSE
CHECK_DEADLOCK FALSE
PROPERTY DueOrderSettles
PROPERTY PaidIsGranted
