\* Spot prices, surface reports and the keepers that push them.
CONSTANTS
  mon = mon
  usdc = usdc
  signedPair = signedPair
  pythPair = pythPair
  s1 = s1
  s2 = s2
  rogue = rogue
  kraken = kraken
  coinbase = coinbase
  okx = okx
  A = A
  B = B
  monFeed = monFeed
  ethFeed = ethFeed
  Products = {signedPair, pythPair}
  Horizon = 2
  Assets = {mon}
  Usdc = usdc
  Direct = {kraken, coinbase}
  Tether = {okx}
  Levels = {200, 400}
  WrongAnswers = {1}
  StableRates = {96, 100}
  FaultyLimit = 1
  MaxDeviationBps = 200
  MinSources = 2
  CacheTime = 1
  AnswerTime = 1
  Isolates = {w1}
  MaxWaiting = 2
  w1 = w1
  Base <- MCBase
  QuoteFeed <- MCQuote
  NoFeed = NoFeed
  NodeSigners = {s1, s2}
  Rogues = {rogue}
  RogueValues = {1}
  SignerSets <- MCSigners
  MaxSpotAge = 2
  MaxConfidenceBps = 20000
  MaxFutureSkew = 0
  Unit = 10
  Publishers = {A, B}
  FaultyPublishers = {B}
  Independent = {A}
  Cosigners <- MCCosigners
  Quorum = 2
  Expiries <- MCExpiries
  Ivs = {10, 20}
  MaxIvMoveBps = 5000
  MaxReportLifetime = 2
  SurfaceStaleAfter = 0
  MaxSurfaceStale = 1
  Interval = 1
  Publishes <- MCPublishes
  Remembered = 1
  MaxSeq = 2
  MaxRivals = 1
  OpenInterest = {signedPair}
  RefreshSeconds = 1
  ActiveSeconds = 0
  PublisherUrl = A
  PushFeeds <- MCPushFeeds
  IntervalSeconds = 1
  MaxFaults = 2
SPECIFICATION MCSpec
INVARIANTS
  SignedNearMarket
  SpotFromHonestLegs
  SurfacesClean
PROPERTIES
  MarketStaysFresh
CHECK_DEADLOCK FALSE
