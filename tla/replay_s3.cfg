SPECIFICATION Spec
CONSTANTS
  w1 = w1
  r1 = r1
  r2 = r2
  Workers = {w1}
  Requests = {r1,r2}
  JobIds = {1, 2, 3, 4, 5}
  NumFrames = 1
  MaxAttempts = 1
  UploadWindow = 1
  SourceRetention = 1
  DerivedRetention = 2
  FailedRetention = 2
  TombstoneRetention = 2
  None = None
  Backend = "s3"
  Operations = {"create", "put", "complete", "delete"}
  Faults = {"error"}
  MaxFaults = 1
INVARIANTS TypeOK ProcessingHasJob 
PROPERTIES LifecycleSpec
SYMMETRY Symmetry
CHECK_DEADLOCK FALSE
