CONSTANTS
  NumCalls = 6
  BurstLen = 3
  Timeout = TRUE
  ThinkTimeout = TRUE
  Backend = "select"
  ReqSize = 2
  TxMax = 3
  RxMax = 3
  ServerFails = TRUE
SPECIFICATION Spec
INVARIANTS TypeOK ConnectionSafety PolledForItsWork
