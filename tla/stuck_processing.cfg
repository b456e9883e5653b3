SPECIFICATION Spec
CONSTANTS
  w1 = w1
  r1 = r1
  Workers = {w1}
  Requests = {r1}
  JobIds = {1, 2, 3, 4, 5}
  NumFrames = 1
  MaxAttempts = 2
  UploadWindow = 1
  SourceRetention = 1
  DerivedRetention = 2
  FailedRetention = 2
  TombstoneRetention = 2
  None = None
  Backend = "local"
  Operations = {"create", "put", "complete", "delete"}
  Faults = {"error", "crash"}
  MaxFaults = 2
INVARIANTS ProcessingHasJob
SYMMETRY Symmetry
CHECK_DEADLOCK FALSE
