\* The worker serves at most MaxJobs submissions and exits after stop() or dies.
CHECK_DEADLOCK FALSE
SPECIFICATION Spec
CONSTANTS
  me = me  p = p  none = none
  root = root  a1 = a1  a2 = a2  b1 = b1  b2 = b2  bad = bad 
  Blocks <- MCBlocks
  Genesis = root
  ParentOf <- MCParentOf
  HeightOf <- MCHeightOf
  MinerOf <- MCMinerOf
  Miners <- MCMiners
  NoBlock = none
  EpochLength = 2
  BadBlocks <- MCBadBlocks
  StorageFaults = TRUE
  ActiveCounts = {1, 2}
  Requests <- AllLanes
  LocalMiner = me
  MaxSize = 2
  MaxJobs = 3
INVARIANT QueueInv
PROPERTIES NoStartAfterTimeout AnswerMatchesChain ImplementsLedger
