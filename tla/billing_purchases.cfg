CONSTANTS
  s1 = s1
  s2 = s2
  p1 = p1
  p2 = p2
  k1 = k1
  k2 = k2
  o1 = o1
  Subscriptions = {s1}
  Paid = {"PLUS"}
  Allowance <- MCAllowance
  Packs = {p1, p2}
  PackCredits = 2
  Deliveries = {1}
  Requests = {k1}
  Quantity <- MCQuantity
  Readers = {}
  Moves = {"renew", "past_due", "cancel"}
  Bindings = {TRUE, FALSE}
  MaxClock = 4
  None = None
SPECIFICATION FairSpec
CHECK_DEADLOCK FALSE
PROPERTIES
  PurchaseEventuallyCredited
