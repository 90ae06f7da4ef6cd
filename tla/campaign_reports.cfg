CONSTANTS
  r1 = r1
  r2 = r2
  Recipients = {r1, r2}
  MaxSends = 1
  MaxAttempts = 2
  Events = {"failed", "delivered", "opened"}
  Operations = {"cancel", "archive"}
  Reminder = TRUE
  Faults = {"crash", "db_error", "tx_timeout"}
  MaxFaults = 1
  None = None
SPECIFICATION Spec
CHECK_DEADLOCK FALSE
SYMMETRY RecipientSymmetry
INVARIANTS
  CancelledIsSettled
  TypeOK
  CompletedMeansSettled
  RepeatsPaidByFaults
