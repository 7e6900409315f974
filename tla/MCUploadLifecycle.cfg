SPECIFICATION Spec
CONSTANTS
  Uploads = {u1, u2}
  Earlier = {u2}
  Cancellable = {u1}
  Original = "raw"
  None = None
  MaxTries = 3
  MaxFaults = 2
INVARIANTS TypeOK NothingCleanAfterCancellation OwnersAreCountedOnFirstRun NothingLeaks
PROPERTIES CancellationIsFinal CountsAreReferences
CHECK_DEADLOCK FALSE
