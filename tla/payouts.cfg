CONSTANTS
  t1 = t1
  t2 = t2
  r1 = r1
  s1 = s1
  s2 = s2
  a1 = a1
  a2 = a2
  k1 = k1
  k2 = k2
  h1 = h1
  h2 = h2
  None = None
  Transactions = {t1}
  Refunds = {r1}
  Outcomes = {"CAPTURED"}
  TransactionOf <- MCTransactionOf
  Gross <- MCGross
  Fee <- MCFee
  Refunded <- MCRefunded
  Settlements = {s1, s2}
  Minimum = 1
  PeriodEnds = {"now", "later"}
  Keys <- MCKeys
  MaxTransfers = 2
  Calls = {k1, k2}
  Hooks = {h1}
  Types = {"paid", "failed", "returned"}
SYMMETRY MCSymmetry
SPECIFICATION Spec
CHECK_DEADLOCK FALSE
INVARIANTS
  TypeOK
  SettledOnce
  ConfirmedByProvider
  LedgerTellsPayout
PROPERTY
  HistoryKept
