CONSTANTS
  NumCalls = 6
  BurstLen = 3
  Timeout = TRUE
  ThinkTimeout = FALSE
  Backend = "epoll"
  ReqSize = 3
  TxMax = 4
  RxMax = 4
  ServerFails = TRUE
SPECIFICATION ClientSpec
INVARIANTS ClosedIsQuiet NoCallOnClosing ListensForProgress Watched
PROPERTIES ImplementsPipeline EventuallyClosed
