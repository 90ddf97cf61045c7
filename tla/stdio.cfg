SPECIFICATION FairSpec
CONSTANTS
  Outs = {"stdout"}
  MaxOut = 2
  MaxIn = 2
  PipeCap = 1
  ChanCap = 1
  NetCap = 1
  MayDisconnect = TRUE
  MayFailLocally = TRUE
  ReadsToEof = FALSE
INVARIANTS StreamsInv AllOutputAtReturn
PROPERTIES InputArrives WaitReturns
CHECK_DEADLOCK FALSE
