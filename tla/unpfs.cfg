SPECIFICATION FairSpec
CONSTANTS
  f1 = f1
  f2 = f2
  f3 = f3
  Fids = {f1, f2, f3}
  Names = {"a", "b", "d"}
  Inos = {1, 2, 3, 4, 5, 6, 7}
  Tree <- MCTree
  Files <- MCFiles
  Loads <- MCLoads
  Walks <- MCWalks
  Wants <- MCWants
  Count = 2
  MaxTasks = 2
  NoFid = NoFid
  NoFile = NoFile
INVARIANTS UnpfsInv MadeEntryStands SetattrPrefix ListingExact ReadYourWrites WritesInOrder
PROPERTIES RequestsEnd
CHECK_DEADLOCK FALSE
