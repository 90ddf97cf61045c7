SPECIFICATION FairSpec
CONSTANTS
  Sids = {s1}
  Starts = {c1, c2}
  Waits = {w1}
  Streams = {r1}
  Forwards = {f1}
  NoSession = NoSession
  NoCall = NoCall
  NoTask = NoTask
  FreshIds = FALSE
  LauncherMayAbort = FALSE
  MayCancel = FALSE
PROPERTIES LiveSessionNotReplaced CallsReturn
CHECK_DEADLOCK FALSE
