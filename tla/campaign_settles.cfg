CONSTANTS
  r1 = r1
  r2 = r2
  Recipients = {r1, r2}
  MaxSends = 1
  MaxAttempts = 2
  Events = {"failed", "delivered", "opened"}
  Operations = {"cancel", "schedule", "unpublish", "publish"}
  Reminder = TRUE
  Faults = {}
  MaxFaults = 0
  None = None
SPECIFICATION FairSpec
CHECK_DEADLOCK FALSE
PROPERTIES
  NothingSentAfterWithdrawal
  EverySendSettles
