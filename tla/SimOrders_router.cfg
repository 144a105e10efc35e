SPECIFICATION Spec
CONSTANTS
  o1 = o1  o2 = o2  o3 = o3  r1 = r1  r2 = r2  w1 = w1  w2 = w2
  k1 = k1  k2 = k2  k3 = k3  x1 = x1
  Orders = {o1, o2, o3}
  Requests = {r1, r2}
  Workers = {w1, w2}
  CreateKeys = {k1, k2, k3}
  CancelKeys = {x1}
  Payloads <- BookPayloads
  Scenarios = {"PARTIAL_THEN_FILL", "OPEN_THEN_CANCEL", "IMMEDIATE_FULL_FILL"}
  Price = 1000
  Fee = 1
  InitBalance = 10010
  Inline = FALSE
  MaxAborts = 0
  MaxReviews = 0
SYMMETRY Symmetry
CHECK_DEADLOCK FALSE
INVARIANTS
  TypeOK
  FillsMatchTrades
  LiveReservationCovers
  LedgerMatchesTrades
  ReservationsCovered
  NoSelfCross
  OneOrderPerKey
PROPERTY
  TerminalNeverRegresses
