SPECIFICATION Spec
CONSTANTS
  TotalTimeout = 3
  MaxDelay = 1
  MaxAfter = 2
  None = None
  Puuids = {p1}
  Names = {n1, n2}
  MatchIds = {m1, m2}
  Contents = {c1, c2}
  Requests = {r1}
  Loads = {l1, l2}
  MaxMoves = 1
  MaxConcurrency = 1
INVARIANTS OneLoad
PROPERTIES LoadsAreShared MatchIsImmutable CallsEnd FailureForgotten
CHECK_DEADLOCK FALSE
