CONSTANTS
  ack = ack
  email = email
  export = export
  w1 = w1
  w2 = w2
  s1 = s1
  s2 = s2
  p1 = p1
  p2 = p2
  Consumers = {ack, export}
  Email = email
  External = {export}
  Workers = {w1}
  Slots = {s1}
  Passes = {p1}
  MaxAttempts = 2
  VisibleJob = TRUE
  Faults = {"crash", "redis_error", "db_error", "ack_lost"}
  MaxFaults = 1
  None = None
SPECIFICATION FairSpec
CHECK_DEADLOCK FALSE
PROPERTIES
  ImplementsDelivery
  EventuallyTerminal
  OutboxEventuallyAgrees
  JobEventuallyAgrees
