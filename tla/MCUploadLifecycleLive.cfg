SPECIFICATION FairSpec
CONSTANTS
  Uploads = {u1, u2}
  Earlier = {}
  Cancellable = {u1}
  Original = "raw"
  None = None
  MaxTries = 1
  MaxFaults = 1
PROPERTY UploadSettles
CHECK_DEADLOCK FALSE
