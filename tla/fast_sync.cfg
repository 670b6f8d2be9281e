\* The worker serves at most MaxJobs submissions and exits after stop().
CHECK_DEADLOCK FALSE
SPECIFICATION SyncSpec
CONSTANTS
  me = me  p = p  none = none
  root = root  a1 = a1  a2 = a2  b1 = b1  b2 = b2  bad = bad 
  Blocks <- MCBlocks
  Genesis = root
  ParentOf <- MCParentOf
  HeightOf <- MCHeightOf
  MinerOf <- MCMinerOf
  Miners <- MCMiners
  NoBlock = none
  EpochLength = 2
  BadBlocks <- MCBadBlocks
  StorageFaults = TRUE
  ActiveCounts = {1}
  Requests <- Growing
  LocalMiner = me
  MaxSize = 2
  MaxJobs = 3
INVARIANTS SurvivesFastSync
PROPERTIES SeenFloorHolds
