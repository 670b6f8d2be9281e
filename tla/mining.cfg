CONSTANTS
    Txs <- MCTxs
    Senders = {"a", "b"}
    PoolMax = 2
    Cleaned = 1
    Limit = 1
    Fetch = 1
    Peers = {p1}
    MinMesh = 1
    MaxLag = 4
    MaxFaults = 2
SPECIFICATION FairSpec
INVARIANTS TypeOK NoncesInOrder PeersKeepUp
PROPERTIES NoneVanishes 
CHECK_DEADLOCK FALSE
