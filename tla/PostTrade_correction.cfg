SPECIFICATION PostTradeSpec
CONSTANTS
  Accounts = {a1}
  Executions = {e1, e2}
  Quantities = {1, 2}
  Prices = {2}
  UnitFee = 1
  Corrections = {c1}
  Tickets = {}
  Analysts = {n1}
  TradeManagers = {g1}
  Nobody = Nobody
SYMMETRY Symmetry
CHECK_DEADLOCK FALSE
INVARIANTS PositionMatchesEffects
