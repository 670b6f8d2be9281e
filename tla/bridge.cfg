\* Two requests at a time; a lock the caller names and one that is minted.
CONSTANTS
    Workers = 2
    LockHashes = {"h", "m"}
    Minted = {"m"}
    NoL1 = "-"
    Claims <- MCClaims
    Funds = 3
    Amount = 2
    Net = 1
    Burn = 1
    Credit = 1
    Modes = {"dev", "rpc", "prod"}
    QueueMax = 1
    MaxCalls = 2
    MaxFaults = 2
SPECIFICATION FairSpec
INVARIANTS TypeOK Backed NothingDropped
PROPERTY EntriesServed

CHECK_DEADLOCK FALSE
