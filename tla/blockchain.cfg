SPECIFICATION ChainSpec
CONSTANTS
  me = me  p = p  q = q  none = none
  root = root  a1 = a1  a2 = a2  a3 = a3  a4 = a4  b1 = b1
  c2 = c2  c3 = c3  c4 = c4  gap = gap  bad = bad
  Blocks <- MCBlocks
  Genesis = root
  ParentOf <- MCParentOf
  HeightOf <- MCHeightOf
  MinerOf <- MCMinerOf
  Miners <- MCMiners
  NoBlock = none
  EpochLength = 2
  BadBlocks <- MCBadBlocks
  StorageFaults = TRUE
  ActiveCounts = {0, 1, 2}
INVARIANTS ChainInv SlashedEquivocated
PROPERTIES FinalizedPrefixStable
