\* One group with a call and a put: shortfall, netting, rounding, redemption
\* in pieces.  Denom 3 and Wad 7 make every division leave a remainder.
CONSTANTS
  alice = alice
  bob = bob
  btc = btc
  eth = eth
  usdc = usdc
  near = near
  far = far
  call = call
  put = put
  late = late
  high = high
  Accounts = {alice, bob}
  Series = {call, put}
  Info <- MCOneGroup
  Bps = 10000
  Denom = 3
  Wad = 7
  Prices = {2, 6}
  SurfaceStates = {}
  Black76 <- MCBlack76
  MaintenanceSet <- MCShocks
  InitialSet <- MCNoShocks
  ImBufferBps = 1000
  MinQty = 1
  MaxSeriesPerAccount = 2
  MaxBucketsPerAccount = 1
  SellerFeeBps = 0
  MinSellerFee = 0
  InsuranceSplitBps = 6000
  KeeperSplitBps = 1000
  MinInsuranceSeed = 0
  MinKeeperReserve = 0
  MaxOpenInterest = 2
  MaxShortNotional = 4
  MaxTokens = 0
  MaxQty = 2
  Amounts = {1}
  StartBonusBps = 0
  MaxBonusBps = 1000
  AuctionDuration = 1
  MinSliceBps = 500
  MaxSliceBps = 2500
  TargetHealthBufferBps = 500
  LiquidationPenaltyBps = 200
  MaxInsurance = 1
  SliceSizes = {}
  FinalizeDelay = 1
  StalledDelay = 1
  MaxUnitPayoff = 100
  FinalizeReward = 1
  SettleReward = 1
  Hour = 1
  EscalationBps = 2500
  MaxMultipleBps = 40000
  InitCash <- MCCash
  InitInsurance = 1
  InitReserve = 2
  EmergencyProducts = {}
  PausableBits = {}
  CloseOnlyProducts = {}
  MaxTime = 2
  MaxReports = 2
SPECIFICATION Spec
INVARIANTS
  BooksBalance
  ClaimsCovered
  PoolCoversClaims
PROPERTIES
  SettledForGood
CHECK_DEADLOCK FALSE
