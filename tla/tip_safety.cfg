CONSTANTS
    Blocks <- MCBlocks
    Genesis = "g"
    ParentOf <- MCParentOf
    HeightOf <- MCHeightOf
    MinerOf <- MCMinerOf
    Miners = {"m"}
    NoBlock = "none"
    Threads = {t1, t2}
    Mine = {"a1"}
    WindowMax = 2
    MaxFaults = 1
SPECIFICATION FairSpec
INVARIANT TypeOK
PROPERTIES RefusalHasCause ImportsResume
