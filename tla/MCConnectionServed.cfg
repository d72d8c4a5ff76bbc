CONSTANTS
  NumCalls = 6
  BurstLen = 3
  Timeout = FALSE
  ThinkTimeout = FALSE
  Backend = "select"
  ReqSize = 2
  TxMax = 1
  RxMax = 2
  ServerFails = FALSE
SPECIFICATION ServedSpec
PROPERTY EventuallyClosed
