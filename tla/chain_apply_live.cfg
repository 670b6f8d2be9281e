\* The worker serves at most MaxJobs submissions and exits after stop() or dies.
CHECK_DEADLOCK FALSE
SPECIFICATION FairSpec
CONSTANTS
  me = me  p = p  none = none
  root = root  a1 = a1  a2 = a2  b1 = b1  b2 = b2  bad = bad 
  Blocks <- MCBlocks
  Genesis = root
  ParentOf <- MCParentOf
  HeightOf <- MCHeightOf
  MinerOf <- MCMinerOf
  Miners <- MCMiners
  NoBlock = none
  EpochLength = 2
  BadBlocks <- MCBadBlocks
  StorageFaults = FALSE
  ActiveCounts = {1}
  Requests <- FewLanes
  LocalMiner = me
  MaxSize = 2
  MaxJobs = 3
PROPERTIES EveryCallReturns QueueDrains StopEndsWorker
