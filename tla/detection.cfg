SPECIFICATION Spec
CONSTANTS
  TotalTimeout = 3
  MaxDelay = 1
  MaxAfter = 2
  None = None
  Keys = {k1}
  Puuids = {p1}
  Platforms = {euw, kr}
  NumRegions = 2
  MaxConcurrency = 1
  Requests = {r1, r2}
  Tasks = {t1, t2}
  Ids = {i1, i2}
  MaxMoves = 1
INVARIANTS TypeOK SingleFlight VerdictIsTrue CallsBounded
PROPERTIES DetectionsAreShared CallsEnd
CHECK_DEADLOCK FALSE
