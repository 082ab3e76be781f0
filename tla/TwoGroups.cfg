\* Two groups of one underlying that expire one after the other and share the
\* cash of their accounts and the insurance fund.
CONSTANTS
  alice = alice
  bob = bob
  btc = btc
  eth = eth
  usdc = usdc
  near = near
  far = far
  call = call
  put = put
  late = late
  high = high
  Accounts = {alice, bob}
  Series = {call, late}
  Info <- MCTwoGroups
  Bps = 10000
  Denom = 3
  Wad = 7
  Prices = {2, 6}
  SurfaceStates = {}
  Black76 <- MCBlack76
  MaintenanceSet <- MCShocks
  InitialSet <- MCNoShocks
  ImBufferBps = 1000
  MinQty = 1
  MaxSeriesPerAccount = 2
  MaxBucketsPerAccount = 1
  SellerFeeBps = 0
  MinSellerFee = 0
  InsuranceSplitBps = 6000
  KeeperSplitBps = 1000
  MinInsuranceSeed = 0
  MinKeeperReserve = 0
  MaxOpenInterest = 1
  MaxShortNotional = 4
  MaxTokens = 0
  MaxQty = 1
  Amounts = {2}
  StartBonusBps = 0
  MaxBonusBps = 1000
  AuctionDuration = 1
  MinSliceBps = 500
  MaxSliceBps = 2500
  TargetHealthBufferBps = 500
  LiquidationPenaltyBps = 200
  MaxInsurance = 1
  SliceSizes = {}
  FinalizeDelay = 1
  StalledDelay = 1
  MaxUnitPayoff = 100
  FinalizeReward = 1
  SettleReward = 1
  Hour = 1
  EscalationBps = 2500
  MaxMultipleBps = 40000
  InitCash <- MCCash
  InitInsurance = 1
  InitReserve = 2
  EmergencyProducts = {}
  PausableBits = {}
  CloseOnlyProducts = {}
  MaxTime = 3
  MaxReports = 0
SPECIFICATION FairSpec
INVARIANTS
  TypeOK
PROPERTIES
  SettlementCompletes
  ImplementsLifecycle
CHECK_DEADLOCK FALSE
