SPECIFICATION FairSpec
CONSTANTS
  Tags = {t1, t2, t3}
  ReqLen = 2
  RespLen = 2
  Chunk = 2
  ChanCap = 1
  NetCap = 1
  SockCap = 3
  MayDisconnect = TRUE
  Watched = {t1}
CHECK_DEADLOCK FALSE
INVARIANTS RelayInv OnlyEndsLost
PROPERTIES RelayEnds
