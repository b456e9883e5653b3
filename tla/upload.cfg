SPECIFICATION Spec
CONSTANTS
  Clients = {c1}
  Uploads = {u1, u2, u3}
  RequestLimit = 3
  CreateLimit = 1
  Second = 2
  Window = 6
  SlotLimit = 2
  MaxBytes = 1
  BusyTime = 1
  MaxTime = 7
  None = None
INVARIANTS WindowBound SecondWaitIsEnough SlotsMatch SizeBounded NoPartLeft
CONSTRAINT BusyEarly
SYMMETRY Symmetry
CHECK_DEADLOCK FALSE
