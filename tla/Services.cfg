\* The indexer, the scans of the SDK, the monitor and the watchdog.
CONSTANTS
  alice = alice
  bob = bob
  call = call
  put = put
  holder = holder
  buyer = buyer
  o1 = o1
  o2 = o2
  keeper = keeper
  pusher = pusher
  rpc = rpc
  feed = feed
  Accounts = {alice, bob}
  Series = {call, put}
  Holders = {holder, buyer}
  Orders = {o1, o2}
  MaxBlocks = 6
  MaxForks = 1
  MaxRepeats = 1
  Callers = {keeper, pusher}
  Chunk = 1
  LogChunk = 2
  MaxRetries = 1
  Patience = 2
  Checks = {rpc, feed}
  MaxChanges = 4
  MaxFailures = 2
  BidIds = {1}
  AskIds = {2}
  OrderSize = 2
  VisibleRows = 1
  MaxFlips = 1
  Modes = {"ledger", "settlement", "liquidation", "orders", "products", "catalog", "directory", "health", "reconcile", "watch", "kuru"}
  Length <- MCLength
SPECIFICATION MCSpec
INVARIANTS
  IndexExact
  ReadersExact
PROPERTIES
  HealthFollows
  AlarmsTold
  FundsReturn
CHECK_DEADLOCK FALSE
