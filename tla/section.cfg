SPECIFICATION Spec
CONSTANTS
  MaxReplays = 2
  MaxChains = 2
  MaxClicks = 4
  MaxFaults = 1
  None = None
INVARIANTS TypeOK PollsStop Held
PROPERTIES TokenKept Followed
CHECK_DEADLOCK FALSE
