SPECIFICATION FairSpec
CONSTANTS
  o1 = o1  o2 = o2  o3 = o3  r1 = r1  r2 = r2  w1 = w1  w2 = w2
  k1 = k1  k2 = k2  k3 = k3  x1 = x1
  Orders = {o1, o2}
  Requests = {r1}
  Workers = {w1, w2}
  CreateKeys = {k1, k2}
  CancelKeys = {}
  Payloads <- MarketPayloads
  Scenarios = {"PARTIAL_THEN_FILL", "EXPIRE", "REJECT"}
  Price = 1000
  Fee = 1
  InitBalance = 10005
  Inline = TRUE
  MaxAborts = 1
  MaxReviews = 2
CHECK_DEADLOCK FALSE
INVARIANTS
  LedgerMatchesTrades
  ReservationsCovered
  OnlyDenialsHoldBack
PROPERTY
  EventuallyProcessed
