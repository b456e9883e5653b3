SPECIFICATION Spec
CONSTANTS
  Interval = 3
  Margin = 1
  MaxFrames = 4
  MinDuration = 5
  MaxDuration = 9
  Tolerance = 1
  Durations = {4, 5, 7, 8, 9, 10}
  Zeros = {0, 1, 7}
  Matches = {2, 6, 12}
  OutTimes = {1, 3, 6, 9}
  MinGap = 1
  None = None
INVARIANTS NoOrphan SeekIsSafe CoverageIsSampled
PROPERTIES ProgressForward AttemptEnds
CHECK_DEADLOCK FALSE
