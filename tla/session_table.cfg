SPECIFICATION Spec
CONSTANTS
  Sids = {s1, s2}
  Starts = {c1, c2}
  Waits = {w1, w2}
  Streams = {r1}
  Forwards = {}
  NoSession = NoSession
  NoCall = NoCall
  NoTask = NoTask
  FreshIds = TRUE
  LauncherMayAbort = TRUE
  MayCancel = TRUE
SYMMETRY Symmetry
INVARIANTS TypeOK RunningIsRegistered OneLaunchPerId WaitDrains PanicNeedsSecondWait
PROPERTIES ImplementsLifecycle
CHECK_DEADLOCK FALSE
