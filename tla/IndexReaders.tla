----------------------------- MODULE IndexReaders -----------------------------
(***************************************************************************)
(* Who reads the index.  The monitor beside the indexer (indexer/api): a   *)
(* health loop that caches riskOf of every account with positions, a loop  *)
(* that reconciles the tables with the contracts, and the alerts computed  *)
(* from both; each read of the chain or of a table sees the state of its   *)
(* own moment.                                                             *)
(*                                                                         *)
(* And the web app's lists, from their two sources: the routes of the API  *)
(* (indexer/api/server.ts), and what the app rebuilds from the chain's     *)
(* logs when there is no indexer or it does not answer                     *)
(* (lib/optara/reads.ts): the accounts, the running auctions, the orders   *)
(* of a user on the order book, and who has written a series.  A scan      *)
(* reads the head once and then asks for the logs in chunks, each kind of  *)
(* event by a request of its own, so that within a chunk the order of the  *)
(* kinds is the order they are applied in, not the chain's.                *)
(***************************************************************************)
EXTENDS Indexer

CONSTANT Patience     \* ticks below the maintenance margin before an alert

ASSUME MonitorAssumption == Patience \in Nat \ {0}

VARIABLES
  health,    \* [accounts cached -> "below" or "covered"]
  since,     \* [accounts below -> ticks, up to Patience]
  todo,      \* accounts the health pass has still to read
  recon,     \* the reconciliation in flight, or NoRecon
  mismatches \* [found, moved]: the last result, and whether anything moved

monitorVars == <<health, since, todo, recon, mismatches>>

NoRecon == [st |-> "idle"]
Clean == [found |-> {}, moved |-> FALSE]

MonitorInit ==
  /\ health = NoRows /\ since = NoRows /\ todo = {}
  /\ recon = NoRecon /\ mismatches = Clean

\* The margin of an account with positions falls or recovers with a price: a
\* block without logs.
Reprice == \E a \in Accounts :
  /\ InGroup(Now, a)
  /\ Mine([Start EXCEPT !.world.below = IF a \in @ THEN @ \ {a} ELSE @ \cup {a}])

-----------------------------------------------------------------------------
(* refreshHealth *)

AccountsWithPositions == {a \in Accounts :
  \E s \in Series : Row(tables.position, <<a, s>>, 0) # 0}

Keep(rows, ids) == [a \in DOMAIN rows \cap ids |-> rows[a]]

StartHealth ==
  /\ todo = {}
  /\ todo' = AccountsWithPositions
  /\ health' = Keep(health, AccountsWithPositions)
  /\ since' = Keep(since, AccountsWithPositions)
  /\ <<todo', health', since'>> # <<todo, health, since>>
  /\ UNCHANGED <<recon, mismatches>>

IsBelow(w, a) == a \in w.below /\ InGroup(w, a)

\* Mutant: every reading below starts the time anew.
BelowSince_Again(a) == Put(since, a, 0)

BelowSince(a) == IF a \in DOMAIN since THEN since ELSE Put(since, a, 0)

ReadHealth(a) ==
  /\ a \in todo /\ todo' = todo \ {a}
  /\ health' = Put(health, a, IF IsBelow(Now, a) THEN "below" ELSE "covered")
  /\ since' = IF IsBelow(Now, a) THEN BelowSince(a) ELSE Keep(since, DOMAIN since \ {a})
  /\ UNCHANGED <<recon, mismatches>>

\* Time since the first reading below, as far as the alert tells it apart.
Wait ==
  /\ \E a \in DOMAIN since : since[a] < Patience
  /\ since' = [a \in DOMAIN since |-> IF since[a] < Patience THEN since[a] + 1 ELSE since[a]]
  /\ UNCHANGED <<health, todo, recon, mismatches>>

Liquidatable == {a \in DOMAIN health : health[a] = "below"}

AuctionRows == {a \in DOMAIN tables.auction : tables.auction[a].active}

\* BELOW_MM_NO_AUCTION
Alerting == {a \in DOMAIN since : since[a] = Patience} \ AuctionRows

-----------------------------------------------------------------------------
(* reconcile: the tables at one moment, then the chain value by value.     *)

Ids == [n \in 1..Tip |-> blocks[n].id]
Moment == <<mined, Ids>>

StartReconcile ==
  /\ recon = NoRecon
  /\ recon' = [st |-> "rows", at |-> Moment, level |-> seen = Ids, rows |-> NoRows,
               left |-> {"account", "series", "group"}, found |-> {}]
  /\ UNCHANGED <<health, since, todo, mismatches>>

\* Three queries, each answered on its own.
ReadRows == \E table \in {"account", "series", "group"} :
  /\ recon.st = "rows" /\ table \in recon.left
  /\ recon' = [recon EXCEPT !.rows = Put(@, table, tables[table]), !.left = @ \ {table},
                            !.st = IF recon.left = {table} THEN "accounts" ELSE @]
  /\ UNCHANGED <<health, since, todo, mismatches>>

\* The comparisons of one stage, against the chain as it is now.
Differences(stage) ==
  CASE stage = "accounts" ->
         {a \in DOMAIN recon.rows.account : Now.cash[a] # recon.rows.account[a]}
         \cup (IF Cardinality(Now.opened) # Cardinality(DOMAIN recon.rows.account) THEN {"accounts"} ELSE {})
    [] stage = "series" ->
         {s \in DOMAIN recon.rows.series : LET row == recon.rows.series[s] IN
            \/ row.long # SumOver(Accounts, LAMBDA a : Max0(Now.bal[a][s]))
            \/ row.short # SumOver(Accounts, LAMBDA a : Max0(-Now.bal[a][s]))
            \/ row.supply # SumOver(Holders, LAMBDA h : Now.held[h][s])}
    [] stage = "groups" ->
         {g \in DOMAIN recon.rows.group : Now.group.parts # recon.rows.group[g].parts}
    [] stage = "custody" ->
         IF SumOver(Accounts, LAMBDA a : Now.cash[a])
              # SumOver(DOMAIN recon.rows.account, LAMBDA a : recon.rows.account[a])
         THEN {"custody"} ELSE {}

After == [accounts |-> "series", series |-> "groups", groups |-> "custody"]

Compare ==
  /\ recon.st \in DOMAIN After
  /\ recon' = [recon EXCEPT !.st = After[@], !.found = @ \cup Differences(recon.st)]
  /\ UNCHANGED <<health, since, todo, mismatches>>

Report ==
  /\ recon.st = "custody"
  /\ mismatches' = [found |-> recon.found \cup Differences("custody"),
                    moved |-> ~recon.level \/ recon.at # Moment]
  /\ recon' = NoRecon
  /\ UNCHANGED <<health, since, todo>>

HealthLoop == StartHealth \/ Wait \/ \E a \in Accounts : ReadHealth(a)
ReconcileLoop == StartReconcile \/ ReadRows \/ Compare \/ Report

\* The chain moves, the indexer follows, the monitor looks at both.
MonitorNext ==
  \/ (ChainNext \/ Reprice) /\ UNCHANGED <<indexVars, monitorVars>>
  \/ Indexing /\ UNCHANGED monitorVars
  \/ (HealthLoop \/ ReconcileLoop) /\ UNCHANGED <<chainVars, indexVars>>

MonitorSpec == IndexInit /\ MonitorInit /\ [][MonitorNext]_<<chainVars, indexVars, monitorVars>>

-----------------------------------------------------------------------------
\* INVARIANT.  A mismatch is never the index's own fault: the index was behind
\* or the chain moved during the pass (the tables are read at one moment, the
\* contracts at later ones).  While nothing moves a report is clean.
MismatchMeansMoved == mismatches.found # {} => mismatches.moved

\* LIVENESS.  Once the chain is quiet, the cache comes to hold exactly the
\* accounts with positions, with the health they have, and an alert stands for
\* exactly those that stay below without an auction.
HealthRight ==
  /\ DOMAIN health = {a \in Accounts : InGroup(Now, a)}
  /\ Liquidatable = {a \in Accounts : IsBelow(Now, a)}
  /\ Alerting = {a \in Liquidatable : ~Now.auction[a].active}

-----------------------------------------------------------------------------
(* The app's lists                                                         *)

CONSTANT LogChunk
ASSUME ReadsAssumption == LogChunk \in Nat \ {0}

\* The logs of the c-th chunk.
ChunkLogs(c) == LogsIn((c - 1) * LogChunk + 1, IF c * LogChunk < Tip THEN c * LogChunk ELSE Tip)

Chunks == 1..((Tip + LogChunk - 1) \div LogChunk)

\* Every log of a kind, with its place on the chain: scanLogs.
Places == UNION {{n} \X DOMAIN blocks[n].logs : n \in 1..Tip}
LogAt(at) == blocks[at[1]].logs[at[2]]
Scan(ev) == {at \in Places : LogAt(at).ev = ev}

Later(x, y) == x[1] > y[1] \/ (x[1] = y[1] /\ x[2] > y[2])

-----------------------------------------------------------------------------
(* Orders on the order book: getKuruUserOrders                             *)

NoOrder == [status |-> "none", size |-> 0, filled |-> 0, left |-> 0]
NoOrders == [o \in Orders |-> NoOrder]

AddOrder(m, log) == [m EXCEPT ![log.order] = [status |-> "open", size |-> log.size, filled |-> 0, left |-> log.size]]

FillOf(m, log) == LET r == m[log.order] IN
  IF r = NoOrder THEN m
  ELSE [m EXCEPT ![log.order] =
         [@ EXCEPT !.left = log.left, !.filled = r.size - log.left,
                   !.status = IF log.left = 0 THEN "filled" ELSE IF r.size > log.left THEN "partial" ELSE "open"]]

CancelOf(m, log) == [o \in Orders |->
  IF o \in log.orders /\ m[o] # NoOrder /\ m[o].status # "filled"
  THEN [m[o] EXCEPT !.left = 0, !.status = "cancelled"] ELSE m[o]]

\* A log met by the scan for its kind.
Apply(kind, m, log) == IF log.ev # kind THEN m ELSE
  CASE kind = "OrderCreated" -> AddOrder(m, log)
    [] kind = "Trade" -> FillOf(m, log)
    [] kind = "OrdersCanceled" -> CancelOf(m, log)

ReadKind(kind, m, logs) == FoldLeft(LAMBDA r, log : Apply(kind, r, log), m, logs)

\* Mutant: the cancellations of a chunk are applied before its trades.
ReadChunk_CancelsFirst(m, c) == LET logs == ChunkLogs(c) IN
  ReadKind("Trade", ReadKind("OrdersCanceled", ReadKind("OrderCreated", m, logs), logs), logs)

\* The kinds are read beside each other and applied one after the other.
ReadChunk(m, c) == LET logs == ChunkLogs(c) IN
  ReadKind("OrdersCanceled", ReadKind("Trade", ReadKind("OrderCreated", m, logs), logs), logs)

UserOrders == FoldLeft(ReadChunk, NoOrders, [c \in Chunks |-> c])

-----------------------------------------------------------------------------
(* Accounts, auctions, writers                                             *)

\* getAccounts.
AccountsRead == {LogAt(at).acct : at \in Scan("SubAccountCreated")}

\* getRunningAuctions: an account whose last start is after its last end.
RunningAuctions ==
  LET places(a, ev) == {at \in Scan(ev) : LogAt(at).acct = a}
  IN {a \in Accounts : \E s \in places(a, "AuctionStarted") : \A e \in places(a, "AuctionEnded") : Later(s, e)}

\* getHolders: the accounts whose last balance in the series is not zero.
HoldersRead(s) ==
  LET updates(a) == {at \in Scan("BalanceUpdated") : LogAt(at).acct = a /\ LogAt(at).series = s}
  IN {a \in Accounts : \E at \in updates(a) : /\ LogAt(at).balance # 0
                                              /\ \A u \in updates(a) : u = at \/ Later(at, u)}

\* getBacking: the balances are then read from the ledger.
Backing(s) ==
  LET writers == {a \in HoldersRead(s) : Now.bal[a][s] < 0}
  IN [writers |-> writers, written |-> SumOver(writers, LAMBDA a : -Now.bal[a][s]),
      inWallets |-> SumOver(Holders, LAMBDA h : Now.held[h][s])]

-----------------------------------------------------------------------------
\* INVARIANT.  Whatever the size of the chunks, the scans give what the chain
\* holds: which orders are open, partly or wholly filled or cancelled and how
\* much is left of each, the accounts, the auctions that run; and as long as a
\* group is not settled, the options written cover those in the wallets.
ReadsMatchChain ==
  /\ \A o \in Orders : LET r == UserOrders[o] IN
       /\ r.status = [none |-> "none", OPEN |-> "open", PARTIAL |-> "partial", FILLED |-> "filled",
                      CANCELLED |-> "cancelled"][Now.orders[o]]
       /\ r.left = Now.left[o]
  /\ AccountsRead = Now.opened
  /\ RunningAuctions = {a \in Accounts : Now.auction[a].active}
  /\ \A s \in Series : Live => Backing(s).written >= Backing(s).inWallets

-----------------------------------------------------------------------------
(* The routes of the API, as queries of the tables *)

\* The rows of the Position table that are not zero.
OpenRows == {key \in DOMAIN tables.position : tables.position[key] # 0}

\* GET /series, /positions, /series/:id/positions, /groups/:id, /accounts/:owner.
SeriesRoute == DOMAIN tables.series
PositionsRoute == {key[1] : key \in OpenRows}
SeriesPositions(s) == {key[1] : key \in {key \in OpenRows : key[2] = s}}

ParticipantIds == {key[1] : key \in {key \in OpenRows : key[2] \in DOMAIN tables.series}}
AccountsRoute == DOMAIN tables.account

\* GET /auctions/active.
ActiveAuctions == {a \in DOMAIN tables.auction : tables.auction[a].active}

\* GET /kuru-orders/:owner, with the statuses as the app names them.
StatusNames == [none |-> "none", OPEN |-> "open", PARTIAL |-> "partial", FILLED |-> "filled", CANCELLED |-> "cancelled"]
OrderRow(o) == [status |-> StatusNames[o.status], size |-> o.size, left |-> o.left]
KuruOrdersRoute == [o \in DOMAIN tables.order |-> OrderRow(tables.order[o])]

\* GET /history/:owner.
Told == {"ExternalLongMinted", "BalanceUpdated", "AccountSettled", "WrapperRedeemed",
         "SliceLiquidated", "WrapperLiquidated"}
HistoryRoute == {at \in tables.history : LogAt(at).ev \in Told}

\* GET /accounts/:id/health: the monitor's cache, or riskOf as the chain has it now.
HealthRoute(a) == IF a \in DOMAIN health THEN health[a]
                  ELSE IF IsBelow(Now, a) THEN "below" ELSE "covered"

HealthServed == \A a \in Accounts : HealthRoute(a) = IF IsBelow(Now, a) THEN "below" ELSE "covered"

\* GET /markets, /system, /surfaces/:productId/latest.
MarketsRoute == Row(tables.market, "market", "none")
SystemRoute == [product |-> tables.product, insurance |-> tables.fund, progress |-> Progress]
LatestSurface == IF DOMAIN tables.surface = {} THEN 0 ELSE CHOOSE n \in DOMAIN tables.surface : \A m \in DOMAIN tables.surface : m <= n

-----------------------------------------------------------------------------
(* The reads of the app, with an indexer that answers or does not.         *)

\* getHolders falls back to the ledger's logs.
Holding(s, answers) == IF answers THEN SeriesPositions(s) ELSE HoldersRead(s)

\* getBacking with an indexer: its balances; without an answer the list is empty,
\* and the page shows an option that nobody has written.
BackingWithIndexer(s, answers) ==
  LET writers == IF answers THEN {a \in SeriesPositions(s) : tables.position[<<a, s>>] < 0} ELSE {}
  IN [writers |-> writers, written |-> SumOver(writers, LAMBDA a : -tables.position[<<a, s>>]),
      inWallets |-> SumOver(Holders, LAMBDA h : Now.held[h][s])]

\* INVARIANT.  Once the indexer has the whole chain, its routes tell the app and
\* the keepers what the app's own scans of the logs tell: accounts, participants,
\* who has written how much, auctions, orders, history, the product and the surface.
SourcesAgree == seen = Ids =>
  /\ AccountsRoute = AccountsRead /\ SeriesRoute = Now.listed
  /\ \A s \in Series : Holding(s, TRUE) = Holding(s, FALSE) /\ BackingWithIndexer(s, TRUE) = Backing(s)
  /\ ParticipantIds = {a \in Accounts : InGroup(Now, a)} /\ PositionsRoute = ParticipantIds
  /\ ActiveAuctions = RunningAuctions
  /\ LET orders == {o \in Orders : UserOrders[o] # NoOrder} IN
       KuruOrdersRoute = [o \in orders |-> [f \in {"status", "size", "left"} |-> UserOrders[o][f]]]
  /\ HistoryRoute = UNION {Scan(ev) : ev \in Told}
  /\ MarketsRoute = Now.market /\ LatestSurface = Now.seq /\ SystemRoute.progress = Tip

=============================================================================
