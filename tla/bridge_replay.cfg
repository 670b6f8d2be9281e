\* No fault, and nobody but the relayer leaves the L1 transaction out.
CONSTANTS
    Workers = 1
    LockHashes = {"h", "m"}
    Minted = {"m"}
    NoL1 = "-"
    Claims <- MCReplay
    Funds = 3
    Amount = 2
    Net = 1
    Burn = 1
    Credit = 1
    Modes = {"dev", "rpc", "prod"}
    QueueMax = 1
    MaxCalls = 1
    MaxFaults = 0
SPECIFICATION Spec
INVARIANT TransferCreditedOnce

CHECK_DEADLOCK FALSE
