SPECIFICATION Spec
CONSTANTS
  Tags = {t1, t2}
  ReqLen = 1
  RespLen = 2
  Chunk = 1
  ChanCap = 1
  NetCap = 1
  SockCap = 3
  MayDisconnect = FALSE
  Watched = {t1}
CHECK_DEADLOCK FALSE
INVARIANTS ResponsesWhole
