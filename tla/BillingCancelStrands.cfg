SPECIFICATION FairSpec
CONSTANTS
  Web = {w1}
  Pollers = {p1}
  Requests = {"complete", "cancel"}
  Tiers = {1}
  MaxOrders = 1
  MaxTime = 2
  Month = 2
  OpenInView = FALSE
  AbortedVisible = {}
  LateDeclines = FALSE
CHECK_DEADLOCK FALSE
PROPERTY PaidIsGranted
