SPECIFICATION FairSpec
CONSTANTS
  Outs = {"stdout"}
  MaxOut = 1
  MaxIn = 1
  PipeCap = 1
  ChanCap = 1
  NetCap = 1
  MayDisconnect = FALSE
  MayFailLocally = FALSE
  ReadsToEof = TRUE
PROPERTIES CodeObtained
CHECK_DEADLOCK FALSE
