SPECIFICATION RSpec
CONSTANTS
  Web = {w1}
  Pollers = {}
  Reviewers = {r1, r2}
  Requests = {"complete","retry","upgrade"}
  Tiers = {1,2}
  MaxOrders = 2
  MaxTime = 2
  Month = 1
  OpenInView = FALSE
  AbortedVisible = {1, 2}
  LateDeclines = TRUE
SYMMETRY Symmetry
CHECK_DEADLOCK FALSE
INVARIANT RefundIsReal
INVARIANT ReturnedIsApproved
INVARIANT NoUseWhileCanceling
INVARIANT ActiveIsEntitled
PROPERTY NoOrderDuringReview
