SPECIFICATION Spec
CONSTANTS
  w1 = w1
  w2 = w2
  r1 = r1
  Workers = {w1,w2}
  Requests = {r1}
  JobIds = {1, 2, 3, 4, 5}
  NumFrames = 1
  MaxAttempts = 2
  UploadWindow = 1
  SourceRetention = 1
  DerivedRetention = 1
  FailedRetention = 2
  TombstoneRetention = 1
  None = None
  Backend = "local"
  Operations = {"create", "put", "complete", "retry", "delete"}
  Faults = {"crash", "silence"}
  MaxFaults = 2
INVARIANTS ReadyIsComplete TombstoneIsScrubbed
SYMMETRY Symmetry
CHECK_DEADLOCK FALSE
