SPECIFICATION Spec
CONSTANTS
  p1 = p1
  p2 = p2
  k1 = k1
  k2 = k2
  w1 = w1
  w2 = w2
  Processes = {p1, p2}
  Clients = {k1, k2}
  Wallets = {w1, w2}
  Wallet = w1
  WalletAddress <- MCWalletAddress
  Names = {"name"}
  Hashes <- MCHashes
  Addresses = {}
  Grants <- MCGrants
  Untils = {0}
  MaxU64 = 2
  Page = 1
  Shares <- MCShares
INVARIANTS
  
  LockedOnlyByTear
  RowsBacked
  OneHandle
  PublishedIsRead
CHECK_DEADLOCK FALSE
SYMMETRY Symmetry
