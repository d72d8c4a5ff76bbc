SPECIFICATION Spec
CONSTANTS
  NumSessions = 2
  Options <- CutShort
INVARIANTS QueuesFollowRing
