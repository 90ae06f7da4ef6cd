CONSTANTS
  t1 = t1
  t2 = t2
  r1 = r1
  s1 = s1
  s2 = s2
  a1 = a1
  a2 = a2
  k1 = k1
  k2 = k2
  h1 = h1
  h2 = h2
  None = None
  Transactions = {t1, t2}
  Refunds = {}
  Outcomes = {}
  TransactionOf <- MCTransactionOf
  Gross <- MCGross
  Fee <- MCFee
  Refunded <- MCRefunded
  Settlements = {s1, s2}
  Minimum = 1
  PeriodEnds = {"now"}
  Keys <- MCKeys
  MaxTransfers = 1
  Calls = {k1}
  Hooks = {}
  Types = {}
SPECIFICATION Spec
CHECK_DEADLOCK FALSE
PROPERTY
  RefusedBelowThreshold
