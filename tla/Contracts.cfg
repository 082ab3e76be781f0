\* The ledger: one user, two accounts, two assets, three series; arrays with
\* |q| <= 1 and two limits, quanta with |q| <= 3 and the minimum 3 lowered to 1.
\* Long histories of one feed, and a quotient of two feeds with its fallback; who
\* may do what; upgrades under seats, allowlists and code that change.
CONSTANTS
  usdc = usdc
  ausd = ausd
  btc = btc
  eth = eth
  near = near
  far = far
  b1 = b1
  b2 = b2
  e1 = e1
  NoOne = NoOne
  Accounts <- MCAccounts
  Series = {b1, b2, e1}
  Info <- MCInfo
  Users = {"u1"}
  Assets = {usdc, ausd}
  MaxSeriesCap = 3
  MaxBucketsCap = 2
  InitLimits <- MCLimits
  InitMinQty = 3
  MaxCash = 1
  MaxQty = 3
  main = main
  quote = quote
  Feeds = {main, quote}
  Answers = {0, 1, 3}
  PhaseSteps = {1, 2}
  Answered = {TRUE, FALSE}
  Outages = {"NONE", "LATEST", "ALL"}
  MaxTimestamp = 3
  MaxRounds = 5
  Expiry = 2
  Candidates <- MCCandidates
  MaxOffset = 7
  MaxFinalizationDelay = 90
  Wad = 4
  NoFeed = NoFeed
  NoRound = NoRound
  NoPrice = NoPrice
  governor = governor
  council = council
  calls = calls
  v1 = v1
  v2 = v2
  Addresses = {governor, council}
  UpgradeAdminAddress = upgradeAdmin
  Bits = {"MINT"}
  ControlledAssets = {usdc}
  ControlledProducts = {calls}
  Roles = {"GOVERNANCE", "GUARDIAN"}
  Global = global
  Proxies = {proxy}
  Implementations = {v1, v2}
  CodeHashes = {hash}
  NoCode = noCode
  Nobody = nobody
  Governance0 = governor
  Council0 = council
  Deployer0 = governor
  UpgradeDelay = 2
  EmergencyDelay = 1
  MaxClock = 2
  MaxOperations = 2
SPECIFICATION MCSpec
INVARIANTS
  LedgerSound
  ListsExact
  OnlyInForce
  KeepersAgree
  KeeperFindsProof
PROPERTIES
  ImplementsLedger
  OnlyGovernanceAddsRisk
  UpgradesAnnounced
SYMMETRY MCSymmetry
CHECK_DEADLOCK FALSE
