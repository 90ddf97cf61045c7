SPECIFICATION FairSpec
CONSTANTS
  Tags = {t1, t2, t3, t4}
  ReqLen = 3
  RespLen = 1
  Chunk = 1
  ChanCap = 1
  NetCap = 1
  SockCap = 1
  MayDisconnect = FALSE
  Watched = {t1}
CHECK_DEADLOCK FALSE
PROPERTIES RequestsAnswered
