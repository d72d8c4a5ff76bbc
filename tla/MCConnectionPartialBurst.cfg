CONSTANTS
  NumCalls = 3
  BurstLen = 2
  Timeout = FALSE
  ThinkTimeout = FALSE
  Backend = "epoll"
  ReqSize = 1
  TxMax = 2
  RxMax = 2
  ServerFails = FALSE
SPECIFICATION ServedSpec
PROPERTY EventuallyClosed
CHECK_DEADLOCK FALSE
