----------------------------- MODULE MCServices -----------------------------
(***************************************************************************)
(* The off-chain services beside each other, one in each `mode': the       *)
(* handlers of the indexer over the transactions of five parts of the      *)
(* protocol, the scans of the SDK and of the web app, the monitor, and the *)
(* watchdog.                                                               *)
(***************************************************************************)
EXTENDS LogScans, Watchdog, IndexReaders, KuruOrders

CONSTANTS alice, bob, call, put, holder, buyer, o1, o2, keeper, pusher, rpc, feed,
          Modes, Length

VARIABLE mode

vars == <<chainVars, indexVars, scanVars, monitorVars, watchVars, kuruVars, mode>>

MCLength == "ledger" :> 4 @@ "settlement" :> 6 @@ "liquidation" :> 4 @@ "orders" :> 4
         @@ "products" :> 4 @@ "catalog" :> 4 @@ "directory" :> 5 @@ "health" :> 3 @@ "reconcile" :> 2 @@ "watch" :> 1 @@ "kuru" :> 0

\* Logs are delivered again where only the handlers are looked at.
Repeating == {"ledger", "settlement", "liquidation", "orders", "products"}

\* Before the first action: accounts with cash and a listed series; then, but
\* for the ledger, a short position whose wrapper a holder has.
Opened == [world |-> [Genesis EXCEPT !.opened = {alice}, !.cash = [a \in Accounts |-> IF a = alice THEN 2 ELSE 0],
                                     !.listed = {call}],
           logs |-> <<[ev |-> "SubAccountCreated", acct |-> alice], [ev |-> "CashUpdated", acct |-> alice, cash |-> 2],
                      [ev |-> "GroupCreated"], [ev |-> "SeriesCreated", series |-> call]>>]
Minted == LET d == Emit([Opened EXCEPT !.world.opened = Accounts], [ev |-> "SubAccountCreated", acct |-> bob])
          IN MoveWrapper(SellerFee(ApplyDelta(d, alice, call, -1), alice), call, Zero, holder)

MCInit ==
  /\ mode \in Modes
  /\ blocks = IF mode \in {"orders", "products", "watch", "kuru"} THEN <<>>
              ELSE LET d == IF mode \in {"ledger", "catalog", "directory"} THEN Opened ELSE Minted
                   IN <<[id |-> 0, logs |-> d.logs, world |-> d.world]>>
  /\ mined = Len(blocks)
  /\ tables = EmptyTables /\ seen = <<>> /\ repeats = 0
  /\ ScansInit /\ MonitorInit /\ WatchInit /\ KuruInit

Transaction ==
  \/ mode = "ledger" /\
       (CreateAccount \/ Deposit \/ CreateSeries \/ Mint \/ TransferWrapper \/ UnwrapLong \/ WrapLong
          \/ CloseShortWithInternalLong)
  \/ mode = "settlement" /\
       (CreateSeries \/ Mint \/ FinalizeGroup \/ SettleAccount \/ ComputeRecoveryRatio \/ RedeemWrapper \/ SweepDust)
  \/ mode = "liquidation" /\
       (StartAuction \/ LiquidateSlice \/ LiquidateWithWrapper \/ EndAuction \/ Deposit)
  \/ mode = "orders" /\ (RegisterMarket \/ SetMarketStatus \/ PlaceOrder \/ FillOrder \/ CancelOrders)
  \/ mode = "products" /\ (ApproveProduct \/ SetProductEnabled \/ SetProductCloseOnly \/ SubmitReport \/ ProveNode)
  \/ mode = "catalog" /\ (CreateSeries \/ CreateAccount \/ Deposit)
  \/ mode = "directory" /\ (CreateSeries \/ Mint \/ UnwrapLong)
  \/ mode = "health" /\ (Reprice \/ StartAuction \/ UnwrapLong)
  \/ mode = "reconcile" /\ (UnwrapLong \/ Deposit)

Chain == (Transaction \/ (Fork /\ mode \notin {"catalog", "directory"})) /\ Len(blocks') <= Length[mode] /\ UNCHANGED indexVars

OffKuru == UNCHANGED <<chainVars, indexVars, scanVars, monitorVars, watchVars, mode>>

MCNext ==
  /\ \/ (Chain \/ (Indexing /\ mode \notin {"watch", "directory", "kuru"} /\ (mode \in Repeating \/ UNCHANGED repeats))) /\ UNCHANGED <<scanVars, monitorVars, watchVars, kuruVars>>
     \/ mode \in Followers /\ Scanning(mode) /\ UNCHANGED <<chainVars, indexVars, monitorVars, watchVars, kuruVars>>
     \/ mode = "health" /\ HealthLoop /\ UNCHANGED <<chainVars, indexVars, scanVars, watchVars, kuruVars>>
     \/ mode = "reconcile" /\ ReconcileLoop /\ UNCHANGED <<chainVars, indexVars, scanVars, watchVars, kuruVars>>
     \/ mode = "watch" /\ WatchNext
                       /\ UNCHANGED <<chainVars, indexVars, scanVars, monitorVars, kuruVars>>
     \/ mode = "kuru" /\ KuruNext /\ OffKuru
  /\ UNCHANGED mode

Others == UNCHANGED <<chainVars, indexVars, scanVars, watchVars, kuruVars, mode>>

MCSpec ==
  /\ MCInit /\ [][MCNext]_vars
  /\ WF_vars(mode = "health" /\ (Commit \/ Rollback) /\ UNCHANGED <<scanVars, monitorVars, watchVars, kuruVars, mode>>)
  /\ WF_vars(mode = "health" /\ StartHealth /\ Others)
  /\ WF_vars(mode = "health" /\ Wait /\ Others)
  /\ \A a \in Accounts : WF_vars(mode = "health" /\ ReadHealth(a) /\ Others)
  /\ WF_vars(mode = "watch" /\ Watching /\ UNCHANGED <<chainVars, indexVars, scanVars, monitorVars, kuruVars, mode>>)
  /\ WF_vars(mode = "kuru" /\ ReadOrders /\ OffKuru) /\ WF_vars(mode = "kuru" /\ ReadFree /\ OffKuru)
  /\ WF_vars(mode = "kuru" /\ PressCancel /\ OffKuru) /\ WF_vars(mode = "kuru" /\ PressWithdraw /\ OffKuru)

-----------------------------------------------------------------------------
\* The reads of the web app on every chain the five parts of the protocol produce
\* (looked at before the indexer has read any of it).
AppReadsExact == mode \in Repeating /\ seen = <<>> => ReadsMatchChain

\* The routes of the indexer's API beside them, when it has read all of it; that
\* dropped blocks and repeated logs leave no trace in the tables is IndexExact.
ApiAgrees == mode \in Repeating /\ repeats = 0 /\ mined = Tip => SourcesAgree

\* INVARIANT.  Whoever reads the chain or the index sees what is there: the catalog
\* and the directory of the bots, the pages of the app with and without the
\* indexer, the monitor that compares the two, the panel of Kuru orders.
ReadersExact ==
  /\ CatalogGap /\ DirectoryExact
  /\ AppReadsExact /\ ApiAgrees
  /\ MismatchMeansMoved
  /\ LockedIsCancellable

\* PROPERTY.  The health cache and the route that serves it catch up.
HealthFollows == mode = "health" => <>[](HealthRight /\ HealthServed)

\* PROPERTY.  The watchdog tells of what fails and of what comes back, each once.
AlarmsTold == mode = "watch" => []ToldOnce /\ OutagesTold /\ RecoveriesTold

\* PROPERTY.  What is free on Kuru comes back to the user, and what orders lock
\* there if the market stays tradable.
FundsReturn == mode = "kuru" => FundsComeHome

=============================================================================
