CONSTANTS
  NumCalls = 2
  BurstLen = 2
  Timeout = TRUE
  ThinkTimeout = FALSE
  Backend = "select"
  ReqSize = 2
  TxMax = 1
  RxMax = 1
  ServerFails = FALSE
SPECIFICATION Spec
INVARIANT WatchedWhileSending
