SPECIFICATION Spec
CONSTANTS
  Uploads = {u1, u2}
  Earlier = {u2}
  Cancellable = {u1}
  Original = "sanitized"
  None = None
  MaxTries = 2
  MaxFaults = 0
INVARIANT OwnersAreCounted
CHECK_DEADLOCK FALSE
