CONSTANTS
  Blocks = {t1, t2, t3}
  Clients = {c1, c2}
  None = None
  Delays <- MCDelays
  UseTimerCache = FALSE
  MaxTime = 2
SPECIFICATION FairSpec
INVARIANTS TypeOK HandlesAreLive
PROPERTIES ImplementsService WalkShrinks ArmedTimersEnd
