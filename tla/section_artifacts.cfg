SPECIFICATION Spec
CONSTANTS
  MaxReplays = 1
  MaxChains = 1
  MaxClicks = 1
  MaxFaults = 0
  None = None
PROPERTIES ReadyShowsArtifacts
CHECK_DEADLOCK FALSE
