SPECIFICATION Spec
CONSTANTS
  NumSessions = 2
  Options <- TimedOut
CHECK_DEADLOCK FALSE
PROPERTY EventuallyFinishes
