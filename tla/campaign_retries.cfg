CONSTANTS
  r1 = r1
  r2 = r2
  Recipients = {r1, r2}
  MaxSends = 2
  MaxAttempts = 2
  Events = {"failed"}
  Operations = {"schedule"}
  Reminder = FALSE
  Faults = {"crash"}
  MaxFaults = 1
  None = None
SPECIFICATION Spec
CHECK_DEADLOCK FALSE
SYMMETRY RecipientSymmetry
INVARIANTS
  QueuedHasDelivery
PROPERTIES
  NoSuccessfulResend
