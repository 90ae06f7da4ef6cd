CONSTANTS
  ack = ack
  email = email
  export = export
  w1 = w1
  w2 = w2
  s1 = s1
  s2 = s2
  p1 = p1
  p2 = p2
  Consumers = {email}
  Email = email
  External = {email}
  Workers = {w1, w2}
  Slots = {s1}
  Passes = {p1, p2}
  MaxAttempts = 2
  VisibleJob = FALSE
  Faults = {"crash", "redis_error", "db_error", "ack_lost"}
  MaxFaults = 3
  None = None
SPECIFICATION Spec
CHECK_DEADLOCK FALSE
SYMMETRY DispatchSymmetry
INVARIANTS
  CommandKeptWhileNeeded
  SingleRun
  AttemptsPaidByFaults
  RepeatsPaidByFaults
PROPERTIES
  TerminalIsFinal
