\* A position closed by its owner in the block in which the account settles: the
\* indexer, which has no transactions, takes it for settled.
CONSTANTS
  Modes = {"history"}
  Wallets = {w1, w2}
  AccountIds = {1, 2, 3}
  None = None
  Forms = {"setup", "deposit", "write"}
  StorageKinds = {TRUE, FALSE}
  MaxSwitches = 1
  MaxPresses <- MCPresses
  MaxEvents = 5
  MaxHeld = 2
  Strike = 5
  Prices = {4, 9}
  Transfers = TRUE
  PerBlock = 2
  Cashes = {10, 1000}
  Books <- MCBooks
  Bids <- MCBids
  Budgets = {1682, 5000, 9000, 20000}
  Quantities = {25, 1000, 2000}
  LimitPrices = {4, 3315}
  Slips = {50, 100, 300}
  TakerFee = 30
  BuyerFees = {50, 80}
  Depth = 2
  MaxMoves = 2
  OICap = 3
  ShortCap = 6
  Size = 2
  MaxChanges = 3
  MaxAbnormal = 1
  Participants = {1, 2}
  Batch = 1
  MaxFlips = 1
  Underlyings = {1, 2}
  BufferTenths = 1
  StartDebtors <- MCDebtors
  MaxDebtCash = 7
  MaxQty = 2
  MaxTurns = 1
  Spot = 100
  Edges <- MCEdges
  Ranges <- MCRanges
  NoSpot = NoSpot
  Strikes = {1, 2, 3}
  Expiries = {1, 2, 3}
  MinStrike = 1
  MaxStrike = 2
  MinTime = 1
  MaxTime = 2
  ListingConfigs = {c1, c2}
  RiskIds = {r1, r2}
  ContractSizes = {1}
  MaxPerGroup = 2
  MaxListed = 3
  MaxSteps = 3
SPECIFICATION MCSpec
INVARIANT IndexerServes
CHECK_DEADLOCK FALSE
