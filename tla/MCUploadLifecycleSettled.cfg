SPECIFICATION Spec
CONSTANTS
  Uploads = {u1, u2}
  Earlier = {u2}
  Cancellable = {u1}
  Original = "raw"
  None = None
  MaxTries = 2
  MaxFaults = 0
INVARIANT FinishedJobsSettleUploads
CHECK_DEADLOCK FALSE
