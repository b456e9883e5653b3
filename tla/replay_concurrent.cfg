SPECIFICATION Spec
CONSTANTS
  w1 = w1
  w2 = w2
  r1 = r1
  r2 = r2
  Workers = {w1,w2}
  Requests = {r1,r2}
  JobIds = {1, 2, 3, 4, 5}
  NumFrames = 1
  MaxAttempts = 2
  UploadWindow = 1
  SourceRetention = 1
  DerivedRetention = 2
  FailedRetention = 2
  TombstoneRetention = 2
  None = None
  Backend = "local"
  Operations = {"create", "put", "complete", "retry", "delete"}
  Faults = {}
  MaxFaults = 0
INVARIANTS ReadyIsComplete NothingLeft
SYMMETRY Symmetry
CHECK_DEADLOCK FALSE
