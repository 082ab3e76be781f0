\* An auction nobody ends slices an account that is above maintenance again.
CONSTANTS
  alice = alice
  bob = bob
  btc = btc
  eth = eth
  usdc = usdc
  near = near
  far = far
  call = call
  put = put
  late = late
  high = high
  Accounts = {alice, bob}
  Series = {call, high}
  Info <- MCLarge
  Bps = 10000
  Denom = 1
  Wad = 7
  Prices = {2, 4, 6}
  SurfaceStates = {}
  Black76 <- MCBlack76
  MaintenanceSet <- MCShocks
  InitialSet <- MCNoShocks
  ImBufferBps = 6000
  MinQty = 1
  MaxSeriesPerAccount = 2
  MaxBucketsPerAccount = 1
  SellerFeeBps = 0
  MinSellerFee = 0
  InsuranceSplitBps = 6000
  KeeperSplitBps = 1000
  MinInsuranceSeed = 0
  MinKeeperReserve = 0
  MaxOpenInterest = 2
  MaxShortNotional = 0
  MaxTokens = 0
  MaxQty = 2
  Amounts = {}
  StartBonusBps = 0
  MaxBonusBps = 1000
  AuctionDuration = 1
  MinSliceBps = 5000
  MaxSliceBps = 5000
  TargetHealthBufferBps = 500
  LiquidationPenaltyBps = 1500
  MaxInsurance = 3
  SliceSizes = {5000, 10000}
  FinalizeDelay = 0
  StalledDelay = 1
  MaxUnitPayoff = 100
  FinalizeReward = 0
  SettleReward = 0
  Hour = 1
  EscalationBps = 2500
  MaxMultipleBps = 40000
  InitCash <- MCCash
  InitInsurance = 4
  InitReserve = 0
  EmergencyProducts = {}
  PausableBits = {}
  CloseOnlyProducts = {}
  MaxTime = 3
  MaxReports = 3
SPECIFICATION BookSpec
PROPERTIES
  OnlyUnhealthyLiquidated
CHECK_DEADLOCK FALSE
