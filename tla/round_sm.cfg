SPECIFICATION Spec
CONSTANTS
  v1 = v1  v2 = v2  v3 = v3  A = A  B = B  C = C
  Validators <- Three
  Founders <- Two
  Joiners <- Late
  Stake <- EqualStake
  Hashes <- ABC
  ChainHeight <- HashHeights
  MaxHeight = 2
  Ballots <- RoundOneVotes
  Miner = v3
  SlashFaults = TRUE
  NoHash = NoHash
  Nobody = Nobody
INVARIANTS TypeOK CertifiedByQuorum AccountableSafety
