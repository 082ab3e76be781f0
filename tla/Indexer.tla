------------------------------ MODULE Indexer ------------------------------
(***************************************************************************)
(* The indexer (indexer/src): one handler per event, over tables that      *)
(* Postgres holds.  A block's logs and the progress are committed at once; *)
(* a dropped block is rolled back to the last common one (Envio does both  *)
(* for the handlers).  The last log may be delivered once more.            *)
(*                                                                         *)
(* `stuck' stands for a handler that throws because a row is missing:      *)
(* indexing stops there.                                                   *)
(***************************************************************************)
EXTENDS EventChain, Functions

CONSTANT MaxRepeats     \* bound: repeated deliveries

VARIABLES
  tables,    \* the rows, without those that only add a time or a name
  seen,      \* ids of the blocks processed, in order
  repeats

indexVars == <<tables, seen, repeats>>

NoRows == [x \in {} |-> 0]

EmptyTables == [
  account |-> NoRows, position |-> NoRows, series |-> NoRows, wrapped |-> NoRows,
  group |-> NoRows, auction |-> NoRows, fund |-> NoRows, market |-> NoRows, order |-> NoRows,
  product |-> NoRows, surface |-> NoRows, history |-> {}, processed |-> {}, stuck |-> FALSE ]

\* Rows by id: get with a default, and set.
Row(rows, id, absent) == IF id \in DOMAIN rows THEN rows[id] ELSE absent
Put(rows, id, row) == [x \in DOMAIN rows \cup {id} |-> IF x = id THEN row ELSE rows[x]]
Patch(rows, id, row) == IF id \in DOMAIN rows THEN Put(rows, id, row) ELSE rows

Max0(x) == IF x > 0 THEN x ELSE 0

\* Mutant: nothing remembers the applied logs.
Once_Always(t, id, t1) == t1

\* Delta-based updates are applied once per log.
Once(t, id, t1) == IF id \in t.processed THEN t ELSE [t1 EXCEPT !.processed = @ \cup {id}]

History(t, id) == [t EXCEPT !.history = @ \cup {id}]
Throw(t) == [t EXCEPT !.stuck = TRUE]

-----------------------------------------------------------------------------
(* The ledger (SubAccounts.ts) and the registry (Registry.ts).             *)

OnSubAccountCreated(t, e) == [t EXCEPT !.account = Put(@, e.acct, 0)]

OnCashUpdated(t, e) ==
  IF e.acct \notin DOMAIN t.account THEN Throw(t)
  ELSE [t EXCEPT !.account = Put(@, e.acct, e.cash)]

\* The totals of the series move by the difference to the balance stored.
OnBalanceUpdated(t, e, id) ==
  LET prev == Row(t.position, <<e.acct, e.series>>, 0)
      t1 == History([t EXCEPT !.position = Put(@, <<e.acct, e.series>>, e.balance)], id)
  IN IF prev = e.balance THEN t1
     ELSE IF e.series \notin DOMAIN t.series THEN Throw(t1)
     ELSE [t1 EXCEPT !.series[e.series].long = @ + Max0(e.balance) - Max0(prev),
                     !.series[e.series].short = @ + Max0(-e.balance) - Max0(-prev)]

OnParticipantsUpdated(t, e) ==
  IF t.group = NoRows THEN Throw(t) ELSE [t EXCEPT !.group["group"].parts = e.parts]

OnGroupCreated(t) == [t EXCEPT !.group = Put(@, "group", FreshGroup)]

OnSeriesCreated(t, e) ==
  [t EXCEPT !.series = Put(@, e.series, [long |-> 0, short |-> 0, supply |-> 0])]

\* An approval again keeps what the product's other events have set.
OnProductApproved(t) == LET old == Row(t.product, "product", [closeOnly |-> FALSE, seq |-> 0]) IN
  [t EXCEPT !.product = Put(@, "product", [enabled |-> TRUE, closeOnly |-> old.closeOnly, seq |-> old.seq])]

OnProductEnabled(t, e) == IF t.product = NoRows THEN t
  ELSE [t EXCEPT !.product["product"].enabled = e.enabled]

OnProductCloseOnlySet(t, e, id) == History(IF t.product = NoRows THEN t
  ELSE [t EXCEPT !.product["product"].closeOnly = e.closeOnly], id)

-----------------------------------------------------------------------------
(* Wrappers (Wrapper.ts): supply and holders by differences.               *)

Held(t, e, h) == Row(t.wrapped, <<h, e.series>>, 0)

OnTransfer(t, e, id) ==
  IF e.series \notin DOMAIN t.series THEN t
  ELSE LET t1 == IF e.from = Zero THEN [t EXCEPT !.series[e.series].supply = @ + 1]
                 ELSE [t EXCEPT !.wrapped = Put(@, <<e.from, e.series>>, Held(t, e, e.from) - 1)]
           t2 == IF e.to = Zero THEN [t1 EXCEPT !.series[e.series].supply = @ - 1]
                 ELSE [t1 EXCEPT !.wrapped = Put(@, <<e.to, e.series>>, Held(t1, e, e.to) + 1)]
       IN Once(t, id, t2)

-----------------------------------------------------------------------------
(* Settlement groups, auctions, fees and insurance.                        *)

SetGroup(t, field, value) == IF t.group = NoRows THEN Throw(t)
  ELSE [t EXCEPT !.group["group"][field] = value]

OnGroupFinalized(t, e) == SetGroup(SetGroup(t, "final", TRUE), "atFinal", e.parts)

OnAuctionStarted(t, e) == [t EXCEPT !.auction = Put(@, e.acct, [FreshAuction EXCEPT !.active = TRUE])]

OnSliceLiquidated(t, e, id) == LET a == Row(t.auction, e.acct, FreshAuction) IN
  Once(History(t, id), id,
       [History(t, id) EXCEPT !.auction = Patch(@, e.acct, [a EXCEPT !.slices = @ + 1])])

\* Counted while the auction runs: liquidations with wrappers need none.
OnWrapperLiquidated(t, e, id) == LET a == Row(t.auction, e.acct, FreshAuction) IN
  Once(History(t, id), id,
       IF a.active THEN [History(t, id) EXCEPT !.auction = Put(@, e.acct, [a EXCEPT !.wraps = @ + 1])]
       ELSE History(t, id))

OnAuctionEnded(t, e) == LET a == Row(t.auction, e.acct, FreshAuction) IN
  [t EXCEPT !.auction = Patch(@, e.acct, [a EXCEPT !.active = FALSE])]

AddFund(t, id, field, x) == LET f == Row(t.fund, "fund", FreshFund) IN
  Once(t, id, [t EXCEPT !.fund = Put(@, "fund", [f EXCEPT ![field] = @ + x])])

OnFeeSplit(t, e, id) == AddFund(History(t, id), id, "fees", e.toInsurance)

-----------------------------------------------------------------------------
(* Surfaces (Oracles.ts), markets (Governance.ts) and orders (Kuru.ts).    *)

OnSurfaceAccepted(t, e) ==
  LET t1 == [t EXCEPT !.surface = Put(@, e.seq, Row(@, e.seq, 0))]
  IN IF t.product = NoRows THEN t1 ELSE [t1 EXCEPT !.product["product"].seq = e.seq]

OnNodeProven(t, e, id) ==
  Once(t, id, [t EXCEPT !.surface = Patch(@, e.seq, Row(@, e.seq, 0) + 1)])

OnMarketRegistered(t) == [t EXCEPT !.market = Put(@, "market", "active")]
OnMarketStatusSet(t, e) == [t EXCEPT !.market = Patch(@, "market", e.status)]

OnOrderCreated(t, e) == IF t.market = NoRows THEN t
  ELSE [t EXCEPT !.order = Put(@, e.order, [size |-> e.size, left |-> e.size, status |-> "OPEN"])]

\* The log carries what is left of the order.
OnTrade(t, e) == LET o == Row(t.order, e.order, [size |-> 0, left |-> 0, status |-> "none"]) IN
  IF o.status \in {"none", "CANCELLED"} THEN t
  ELSE [t EXCEPT !.order = Put(@, e.order, [o EXCEPT !.left = e.left,
         !.status = IF e.left = 0 THEN "FILLED" ELSE IF e.left < o.size THEN "PARTIAL" ELSE "OPEN"])]

OnOrdersCanceled(t, e) == [t EXCEPT !.order =
  [o \in DOMAIN @ |-> IF o \in e.orders /\ @[o].status # "FILLED"
                      THEN [@[o] EXCEPT !.left = 0, !.status = "CANCELLED"] ELSE @[o]]]

-----------------------------------------------------------------------------
(* Dispatch: the handlers registered for each event.                       *)

HistoryOnly == {"ExternalLongMinted", "AccountSettled", "WrapperRedeemed", "BadDebtCovered",
                "SellerFeeCharged"}

Handle(t, e, id) ==
  CASE e.ev = "SubAccountCreated" -> OnSubAccountCreated(t, e)
    [] e.ev = "CashUpdated" -> OnCashUpdated(t, e)
    [] e.ev = "BalanceUpdated" -> OnBalanceUpdated(t, e, id)
    [] e.ev = "ParticipantsUpdated" -> OnParticipantsUpdated(t, e)
    [] e.ev = "GroupCreated" -> OnGroupCreated(t)
    [] e.ev = "SeriesCreated" -> OnSeriesCreated(t, e)
    [] e.ev = "ProductApproved" -> OnProductApproved(t)
    [] e.ev = "ProductEnabled" -> OnProductEnabled(t, e)
    [] e.ev = "ProductCloseOnlySet" -> OnProductCloseOnlySet(t, e, id)
    [] e.ev = "Transfer" -> OnTransfer(t, e, id)
    [] e.ev = "GroupFinalized" -> OnGroupFinalized(t, e)
    [] e.ev = "RecoveryRatioSet" -> SetGroup(t, "ratio", TRUE)
    [] e.ev = "DustSwept" -> SetGroup(t, "swept", TRUE)
    [] e.ev = "AuctionStarted" -> OnAuctionStarted(t, e)
    [] e.ev = "SliceLiquidated" -> OnSliceLiquidated(t, e, id)
    [] e.ev = "WrapperLiquidated" -> OnWrapperLiquidated(t, e, id)
    [] e.ev = "AuctionEnded" -> OnAuctionEnded(t, e)
    [] e.ev = "FeeSplit" -> OnFeeSplit(t, e, id)
    [] e.ev = "InsuranceDeposited" -> AddFund(t, id, "deposited", e.amount)
    [] e.ev = "InsurancePaid" -> AddFund(t, id, "paid", e.amount)
    [] e.ev = "SurfaceAccepted" -> OnSurfaceAccepted(t, e)
    [] e.ev = "NodeProven" -> OnNodeProven(t, e, id)
    [] e.ev = "MarketRegistered" -> OnMarketRegistered(t)
    [] e.ev = "MarketStatusSet" -> OnMarketStatusSet(t, e)
    [] e.ev = "OrderCreated" -> OnOrderCreated(t, e)
    [] e.ev = "Trade" -> OnTrade(t, e)
    [] e.ev = "OrdersCanceled" -> OnOrdersCanceled(t, e)
    [] e.ev \in HistoryOnly -> History(t, id)

\* The logs of block n, applied in order.  A log's id is its block and
\* index.  (The sets of one element have TLC evaluate each table once.)
HandleBlock(t, n) == LET logs == blocks[n].logs IN
  FoldLeft(LAMBDA u, i : CHOOSE v \in {Handle(w, logs[i], <<n, i>>) : w \in {u}} : TRUE,
           t, [i \in 1..Len(logs) |-> i])

TablesAt(n) == FoldLeft(LAMBDA t, i : HandleBlock(t, i), EmptyTables, [i \in 1..n |-> i])

-----------------------------------------------------------------------------
Progress == Len(seen)

\* The chain still has every block that was processed.
OnChain == Progress <= Tip /\ \A n \in 1..Progress : blocks[n].id = seen[n]

IndexInit ==
  /\ blocks = <<>> /\ mined = 0
  /\ tables = EmptyTables /\ seen = <<>> /\ repeats = 0

\* A block is handled and committed with the progress in one transaction.
Commit ==
  /\ OnChain /\ Progress < Tip /\ ~tables.stuck
  /\ tables' = HandleBlock(tables, Progress + 1)
  /\ seen' = Append(seen, blocks[Progress + 1].id)
  /\ UNCHANGED <<repeats, chainVars>>

Redeliver ==
  /\ OnChain /\ Progress > 0 /\ repeats < MaxRepeats
  /\ LET logs == blocks[Progress].logs
     IN logs # <<>> /\ tables' = Handle(tables, Last(logs), <<Progress, Len(logs)>>)
  /\ repeats' = repeats + 1
  /\ UNCHANGED <<seen, chainVars>>

\* Back to the last block that is still on the chain.
Rollback ==
  /\ ~OnChain
  /\ LET common == CHOOSE n \in 0..Progress :
           /\ n <= Tip /\ \A i \in 1..n : blocks[i].id = seen[i]
           /\ n < Progress => n = Tip \/ blocks[n + 1].id # seen[n + 1]
     IN tables' = TablesAt(common) /\ seen' = SubSeq(seen, 1, common)
  /\ UNCHANGED <<repeats, chainVars>>

Indexing == Commit \/ Redeliver \/ Rollback

-----------------------------------------------------------------------------
\* The ids of the logs up to the progress that the index keeps as history.
Kept(log) == log.ev \in HistoryOnly \cup
  {"BalanceUpdated", "ProductCloseOnlySet", "SliceLiquidated", "WrapperLiquidated", "FeeSplit"}

Recorded == UNION {{<<n, i>> : i \in {i \in DOMAIN blocks[n].logs : Kept(blocks[n].logs[i])}} :
                     n \in 1..Progress}

SumOver(S, f(_)) == FoldSet(LAMBDA x, sum : f(x) + sum, 0, S)

\* INVARIANT.  The tables are the contracts' state after the last block that
\* was processed: cash, balances, totals, wrappers, groups, auctions, funds,
\* markets, orders, flags and history, through repeated logs and dropped
\* blocks; and no handler ever misses the row it needs.
IndexExact == LET w == WorldAt(Progress) IN OnChain =>
  /\ ~tables.stuck /\ tables.history = Recorded
  /\ tables.account = [a \in w.opened |-> w.cash[a]]
  /\ \A a \in Accounts, s \in Series : Row(tables.position, <<a, s>>, 0) = w.bal[a][s]
  /\ \A h \in Holders, s \in Series : Row(tables.wrapped, <<h, s>>, 0) = w.held[h][s]
  /\ tables.series = [s \in w.listed |->
       [long |-> SumOver(Accounts, LAMBDA a : Max0(w.bal[a][s])),
        short |-> SumOver(Accounts, LAMBDA a : Max0(-w.bal[a][s])),
        supply |-> SumOver(Holders, LAMBDA h : w.held[h][s])]]
  /\ Row(tables.group, "group", FreshGroup) = w.group
  /\ \A a \in Accounts : LET row == Row(tables.auction, a, FreshAuction) IN
       row.active = w.auction[a].active /\ (row.active => row = w.auction[a])
  /\ Row(tables.fund, "fund", FreshFund) = w.fund
  /\ Row(tables.market, "market", "none") = w.market
  /\ \A o \in Orders : Row(tables.order, o, [size |-> 0, left |-> 0, status |-> "none"])
                         = [size |-> w.size[o], left |-> w.left[o], status |-> w.orders[o]]
  /\ Row(tables.product, "product", [enabled |-> FALSE, closeOnly |-> FALSE, seq |-> 0])
       = [enabled |-> w.enabled, closeOnly |-> w.closeOnly, seq |-> w.seq]
  /\ w.seq > 0 => tables.surface[w.seq] = w.nodes

\* The handlers beside every transaction of the protocol.
IndexNext == (ChainNext /\ UNCHANGED indexVars) \/ Indexing

IndexSpec == IndexInit /\ [][IndexNext]_<<chainVars, indexVars>>

=============================================================================
