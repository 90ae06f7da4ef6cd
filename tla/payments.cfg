CONSTANTS
  c1 = c1
  c2 = c2
  r1 = r1
  r2 = r2
  k1 = k1
  k2 = k2
  h1 = h1
  h2 = h2
  None = None
  Checkouts = {c1}
  Refunds = {r1, r2}
  PaymentOf <- MCPaymentOf
  Price = 2
  Calls = {k1, k2}
  Hooks = {h1, h2}
  Types = {"captured", "failed", "disputed", "dispute_won", "dispute_lost"}
SPECIFICATION FairSpec
CHECK_DEADLOCK FALSE
INVARIANTS
  TypeOK
  RefundsWithinCapture
  RecordsHappened
  CapturedIsRecorded
PROPERTY
  CaptureRecorded
