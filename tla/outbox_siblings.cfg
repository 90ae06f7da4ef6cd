CONSTANTS
  ack = ack
  email = email
  export = export
  w1 = w1
  w2 = w2
  s1 = s1
  s2 = s2
  p1 = p1
  p2 = p2
  Consumers = {ack, email}
  Email = email
  External = {email}
  Workers = {w1}
  Slots = {s1, s2}
  Passes = {p1}
  MaxAttempts = 2
  VisibleJob = TRUE
  Faults = {"redis_error", "commit_lost", "stall", "redis_loss"}
  MaxFaults = 1
  None = None
SPECIFICATION Spec
CHECK_DEADLOCK FALSE
SYMMETRY SlotSymmetry
INVARIANTS
  TerminalScrubsCommand
  CompletedWasPerformed
  TypeOK
  ProcessedExactly
