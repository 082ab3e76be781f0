\* Guardian, fees, fund deposits and oracle outages around one call.
CONSTANTS
  alice = alice
  bob = bob
  btc = btc
  eth = eth
  usdc = usdc
  near = near
  far = far
  call = call
  put = put
  late = late
  high = high
  Accounts = {alice, bob}
  Series = {call}
  Info <- MCOneCall
  Bps = 10000
  Denom = 1
  Wad = 7
  Prices = {0, 2, 4}
  SurfaceStates = {"NONE", "FRESH", "EXPIRED_DATA"}
  Black76 <- MCBlack76
  MaintenanceSet <- MCShocks
  InitialSet <- MCNoShocks
  ImBufferBps = 1000
  MinQty = 1
  MaxSeriesPerAccount = 2
  MaxBucketsPerAccount = 1
  SellerFeeBps = 5000
  MinSellerFee = 2
  InsuranceSplitBps = 6000
  KeeperSplitBps = 1000
  MinInsuranceSeed = 1
  MinKeeperReserve = 1
  MaxOpenInterest = 2
  MaxShortNotional = 4
  MaxTokens = 8
  MaxQty = 1
  Amounts = {1}
  StartBonusBps = 0
  MaxBonusBps = 1000
  AuctionDuration = 1
  MinSliceBps = 500
  MaxSliceBps = 2500
  TargetHealthBufferBps = 500
  LiquidationPenaltyBps = 200
  MaxInsurance = 1
  SliceSizes = {}
  FinalizeDelay = 5
  StalledDelay = 5
  MaxUnitPayoff = 100
  FinalizeReward = 1
  SettleReward = 1
  Hour = 1
  EscalationBps = 2500
  MaxMultipleBps = 40000
  InitCash <- MCWriterCash
  InitInsurance = 0
  InitReserve = 0
  EmergencyProducts = {btc}
  PausableBits = {"MINT"}
  CloseOnlyProducts = {btc}
  MaxTime = 1
  MaxReports = 1
SPECIFICATION Spec
PROPERTIES
  TokensConserved
  RiskGrowsOnlyWhenOpen
CHECK_DEADLOCK FALSE
