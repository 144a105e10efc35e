SPECIFICATION BooksSpec
CONSTANTS
  w1 = w1  w2 = w2  u1 = u1  u2 = u2  m1 = m1
  k1 = k1  k2 = k2  t1 = t1  d1 = d1  d2 = d2
  NoWallet = NoWallet
  Wallets = {w1, w2}
  Members = {u1, u2, m1}
  Owner <- MCOwner
  Withdrawals = {k1, k2}
  Transfers = {t1}
  Deposits = {d1, d2}
  Amounts = {1, 2}
  Required = 1
  Nobody = Nobody
  Accounts = {a1}
  Executions = {e1, e2, e3}
  Quantities = {1, 2}
  Prices = {2, 3}
  UnitFee = 1
  Corrections = {c1}
  Tickets = {x1}
  Analysts = {n1}
  TradeManagers = {g1}
  NoPayload = NoPayload
  OutboxIds = {o1}
  WebhookIds = {h1}
  Payloads = {y1, y2}
  Publishers = {p1, p2}
  MaxAttempts = 3
  MaxRetries = 1
SYMMETRY Symmetry
CHECK_DEADLOCK FALSE
INVARIANTS
  TypeOK
  HeldIsActiveHolds
  MoneyConserved
  LedgerExplainsBalance
  SignedByTwo
  BooksAgree
  FifoExplainsPnL
  CriticalResolvedByTwo
  SentOnceHandledOnce
