\* Settlement keepers: two on a group of two accounts, or on one of one with a fault,
\* or one on both; the liquidation bot with two buckets, a market move or a fault.
CONSTANTS
  near = near
  far = far
  alice = alice
  bob = bob
  k1 = k1
  k2 = k2
  btc = btc
  eth = eth
  Accounts = {alice, bob}
  Groups = {near, far}
  ExpiryOf <- MCExpiry
  Keepers = {k1, k2}
  Faulty = {k1}
  Catalog <- MCCatalog
  AccountOrder <- MCOrder
  FinalizeDelay = 1
  StalledDelay = 1
  BatchSize = 1
  NoCount = NoCount
  NoTx = NoTx
  Holders <- MCHolders
  MaxTime = 2
  MaxFaults = 1
  Debtors <- MCDebtors
  Buckets <- MCBuckets
  Offers <- MCOffers
  MaxQuantity = 2
  MaxAge = 2
  MinProfit = 1
  SlippageBps = 100
  MaxSlices = 2
  NoAuction = NoAuction
  NoCall = NoCall
  MaxMoves = 1
  MaxBotFaults = 1
SPECIFICATION KeepersSpec
INVARIANTS
  KeepersSafe
PROPERTIES
  GroupsComplete
  SliceKeepsQuote
  LiquidationCompletes
CHECK_DEADLOCK FALSE
