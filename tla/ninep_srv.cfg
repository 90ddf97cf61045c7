SPECIFICATION FairSpec
CONSTANTS
  Tags = {t1, t2, t3}
  Fids = {f1, f2}
  Paths = {root, a}
  Root = root
  NoPath = NoPath
  NoFid = NoFid
INVARIANTS TypeOK NoBadFid ViewMatches NoFidLeak
PROPERTIES ImplementsFidTable Answered
