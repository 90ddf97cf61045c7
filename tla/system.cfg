SPECIFICATION FairSpec
CONSTANTS
  TmpMnt <- MCTmp
  Links <- MCLinks
  WalkMax = 8
  Sids = {1, 2}
  NoCmd = NoCmd
  NoSid = NoSid
  Plans <- MCPlans
INVARIANTS LaunchInv ShowsClient NamespaceLines ForwardedFirst OrphansNeedFaults OkMeansZero TerminalRestored
PROPERTIES ImplementsLifecycle CallsReturn
CHECK_DEADLOCK FALSE
