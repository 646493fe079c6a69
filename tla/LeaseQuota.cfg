SPECIFICATION Spec
CONSTANTS
  Workers = {w1, w2, w3, w4}
  Admins = {a1}
  NoOne = NoOne
  QuotaEnabled = TRUE
  RequestLimit = 2
  OpenInView = TRUE
  LateWorkers = FALSE
SYMMETRY Symmetry
CHECK_DEADLOCK FALSE
INVARIANT OneCallAtATime
INVARIANT CostIsVisible
INVARIANT QuotaHolds
