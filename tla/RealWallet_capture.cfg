SPECIFICATION Spec
CONSTANTS
  w1 = w1  w2 = w2  u1 = u1  u2 = u2  m1 = m1  m2 = m2
  k1 = k1  k2 = k2  t1 = t1  NoWallet = NoWallet  d1 = d1  d2 = d2
  Wallets = {w1}
  Members = {u1, u2, m1, m2}
  Owner <- MCOwner
  Withdrawals = {k1}
  Transfers = {}
  Deposits = {d1}
  Amounts = {1}
  Required = 1
SYMMETRY Symmetry
CHECK_DEADLOCK FALSE
INVARIANT
  CompletionCapturesHold
