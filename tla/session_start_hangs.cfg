SPECIFICATION FairSpec
CONSTANTS
  Sids = {s1}
  Starts = {c1}
  Waits = {w1}
  Streams = {r1}
  Forwards = {}
  NoSession = NoSession
  NoCall = NoCall
  NoTask = NoTask
  FreshIds = TRUE
  LauncherMayAbort = TRUE
  MayCancel = FALSE
PROPERTIES StartReturns
CHECK_DEADLOCK FALSE
