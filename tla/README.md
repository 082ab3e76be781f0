# Optara in TLA+

Optara is an options clearing protocol: users post collateral in margin
accounts, write options, trade them as ERC-20 wrappers or inside the margin
ledger, and are liquidated or settled by anyone who calls the contracts. Around
the contracts run a price node, publishers of volatility surfaces, keepers, an
indexer, a watchdog, and a web app.

This directory holds TLA+ models of the contracts (`contract/src`) and of what
runs around them, the instances TLC checks, and theorems about the models that
TLAPS proves for every instance.

Check an instance with `tlc -config Settlement.cfg MCOptara`, the proofs of a
module with `tlapm OptaraProofs.tla`. `PROJECT.json` lists the runs, the lines of
the source behind each definition, one broken variant of the code for every
property, the theorems, and the hazards the properties are for.

## 1. The system

### Contracts

| Component | State | Operations | Talks to |
|---|---|---|---|
| `SubAccounts` | cash and signed positions per account, the list of series and buckets of each account with 1-based index maps, totals per series, participants per group, short notional per product | open an account, set an operator, add and subtract cash, `applyDelta`, change limits and quantum | written by clearing, settlement and liquidation only |
| `OptionClearing` | the tokens in custody | deposit, withdraw, mint, wrap, unwrap, two closes, pay insurance, pay out | ledger, risk, fees, wrappers, insurance |
| `PortfolioRiskManager` | risk sets and their lifecycle | views: equity, margins, `requireHealthy`, `checkOpenRisk` | reads ledger, oracles, settlement, fees, control |
| `LiquidationModule` | start time of each auction | start, slice, liquidate with wrappers, end | ledger, risk, wrappers, insurance through clearing |
| `SettlementWindow` | accounting per group, credit per account and group | finalize, flag, settle, ratio, claim, redeem, sweep | settlement oracle, ledger, fees, insurance, clearing, wrappers |
| `FeeController` | treasury, keeper reserve, parameters | seller and buyer fees, split, rewards, treasury withdrawal | insurance |
| `InsuranceFund` | balance per asset | deposit, `notifyDeposit`, `cover` | clearing |
| `ProtocolControl` | roles, pause masks in three scopes, close-only flags | grant, revoke, pause, unpause, close-only | read by all |
| `ExternalOptionWrapper` | ERC-20 supply of one series | mint, burn, transfers | clearing, settlement, liquidation |
| `OptionSeriesRegistry`, factory | products, groups, series | create, validate, disable | read by all |
| `SettlementOracle` | configurations | verify the round in force at expiry | Chainlink feeds |
| `LiveSpotOracle` | last price per product, signers | refresh from two providers | risk |
| `VolSurfaceOracle` | surfaces, signers, emergency mode | publish, prove nodes, revoke, status | risk |
| `UpgradeAdmin` | operations with eta, allowlist, governance | schedule, execute, cancel, emergency | proxies |
| `VenueRouter`, `VenueRegistry`, `KuruAdapter` | venues, no balances between calls | buy, sell, limit order, mint and sell | clearing, external venues |

### Off chain

| Component | State | Does | Talks to |
|---|---|---|---|
| price node (`pricenode`) | a cache of signed packages | asks exchanges, takes a median without outliers, signs | exchanges; read by publishers and pushers |
| publisher (`publisher`) | drafts, cosigned reports, the last ones served | calibrate, validate, cosign, submit, serve | other publishers, `VolSurfaceOracle` |
| keepers (`keepers`) | per tick: the group or bucket in work | settle groups, liquidate accounts, push prices, surfaces and testnet feeds | all contracts, price node, publishers, SDK |
| indexer (`indexer`) | tables in Postgres, a health cache | one handler per event; API, monitor | logs and views of the contracts |
| watchdog (`watchdog`) | pending and failing checks | tell of failures and recoveries | node, services, Telegram |
| SDK (`sdk`) | scanned logs | catalog, directory of accounts, settlement proofs | logs, feeds |
| web app (`frontend`) | the selected account, queries, local storage | sessions, orders, P&L, pages that offer what the contracts accept | contracts, indexer, Kuru |

The services own no protocol state; what the contracts need of them is that
somebody calls the permissionless operations. They meet only on the chain: a log or
a view read at one moment is acted upon at a later one.

### What is hard here

Contracts run one transaction at a time, so no two handlers interleave
inside a call (every entry point is `nonReentrant`). What is hard on chain is
the order of calls, and arithmetic:

* accounts of a group settle one by one, between deposits, withdrawals and the
  settlement of other groups that draw on the same cash and insurance;
* every payout is rounded, in pieces chosen by its holder, against a pool that
  has to last until the last one;
* several modules move the same short position (mint, wrap, unwrap, close, slice,
  wrapper liquidation, settlement), and the wrapper supply has to follow;
* operations that skip the margin check rely on the shape of the margin;
* auctions outlive the condition that started them;
* prices and surfaces become stale by time alone; signed data arrives late,
  twice, and in any order;
* swap-and-pop lists nested in swap-and-pop lists.

Off chain it is what happens between two awaits: another keeper's transaction is
mined, a receipt comes late, the indexer falls behind or rolls back, a request
fails, a process starts again, a user switches wallets.

What makes each contract correct, by the names of `docs/INVARIANTS.md`: wrapper
backing (INV-1), custody (INV-7), margin (INV-11, INV-12), liquidation (INV-21,
22, 24, 25), the frozen price and claims (INV-26 to 29), full recovery and payouts
(INV-30, 31, 33, 47, 49), rewards that never revert (INV-37), ledger rules (INV-4, 6,
36, 43), oracles (INV-18), upgrades (INV-53), the router (INV-50).

## 2. The modules

```
Book                    series, groups; sums over finite sets, rounded divisions
 |- Ledger              abstract ledger: cash, balances, derived counters
 |- SubAccounts         the contract's arrays, index maps, counters; implements Ledger
 |- Protocol            shared state, option values, margins, ledger moves
     |- OptionClearing, LiquidationModule, SettlementWindow
         |- Optara      all of it over one state, with clock, oracles, guardian;
                        implements GroupLifecycle
GroupLifecycle          abstract: open, finalized, redeemable
 |- SettlementKeepers   settlement keepers over it
 LiquidationBot         the liquidation bot and its rivals
SettlementOracle        configurations and verify over Chainlink feeds (external)
 |- RoundSearch         how the SDK finds the proof
ProtocolControl         roles, pauses in three scopes, close-only
 |- UpgradeAdmin        delayed upgrades, emergency path, seats
PriceNode               exchanges, median, signatures
 |- SpotPrices          LiveSpotOracle
 |- SurfaceReports      publishers and VolSurfaceOracle
     |- MarketPushers   the keepers that bring both on chain
EventChain              blocks of logs, and the state each block left
 |- Indexer             the handlers
     |- LogScans        catalog and directory of the SDK
     |- IndexReaders    the monitor, the API, the reads of the web app
Watchdog, KuruOrders    checks that tell; what a user has on Kuru
AppSession, WalletHistory, OrderTicket, SeriesPage, KeeperPages, SeriesListing
                        the web app

MCContracts, MCOptara, MCKeepers, MCMarketData, MCServices, MCApp
                        instances
SumsProofs, LedgerProofs, OptaraProofs, PeripheryProofs, MarketProofs,
IndexProofs, ReadersProofs, AppProofs
                        theorems
```

### The core

**SubAccounts** keeps every array and counter of the contract: `seriesList`,
`bucketList`, their 1-based indexes, `totals`, `groupSeriesCount`, `participants`,
`productShortNotional`. `ApplyDelta` is the contract's `applyDelta` with all it
calls. **Ledger** is what the other contracts rely on: cash and balances, with
every counter a function of the balances. `ImplementsLedger` shows that
SubAccounts implements it, so Protocol keeps only `cash` and `balances` and
defines the counters from them.

**Protocol** has the state the three user-facing contracts share and the risk
engine as operators: `LiveLegs` and `FinalLegs` are the two branches of
`_collect`, `WorstLoss` the scenario maximum, `InitialMargin` adds the buffer
on the short mark, `RequireHealthy` is strict about oracles where liquidation
accepts a stale surface. **OptionClearing**, **LiquidationModule** and
**SettlementWindow** have one action per external function; a function's inner
calls (fee split, reward, cover, burn) are conjuncts of its action. **Optara**
composes them; its further actions are the clock, oracle reports, the guardian,
insurance and reserve deposits, and treasury withdrawals. A product is close-only
for each reason `isProductCloseOnly` has: its flag, a surface that was never set
(`NONE`), is too old or has low confidence, emergency mode, and reserves below
their minimum (`SetSurface`, `SetEmergencyMode`, `SetCloseOnly`).

**GroupLifecycle** is what settlement promises whoever watches it: a group is open,
then finalized at a price that never changes, then redeemable; from its expiry
on accounts only leave it. `ImplementsLifecycle` shows that Optara implements it,
so the keepers and the settlement page are modelled over it.

**SettlementOracle** has the configurations and `verify`. Calls of a view change
nothing, so `Verify(c)` is the set of all results some call could have now: it
quantifies over the rounds and successors a caller may present (`Proven`) and
over primary and fallback (`Select`). `FinalizeGroup` writes one of them, once, as
SettlementWindow does. The feeds it reads have rounds with a phase
and a number, written at the time they are stamped with (the trust assumption of
`docs/ORACLES.md:227`), a proxy that may skip phases, rounds without an answer of
their own, and reads that fail for a while. **RoundSearch** is
`findRoundInForce` and `buildSettlementProof` of the SDK.

**ProtocolControl** has the roles of the contract and its three pause scopes; the
first argument of an action is the caller. **UpgradeAdmin** shares its state,
since an emergency upgrade closes products in the same call. Code behind an
address may change between scheduling and execution (`ChangeCode`).

### Keepers and market data

**SettlementKeepers**: every await of `tick` is a step, with the label `pc` where it
stands: read the group, flag, prove and finalize, then the settle loop (sync the
directory, count, scan, settle a batch), then the ratio. A transaction goes to a
mempool and its receipt may come after the keeper stopped waiting. Other keepers,
faults (a throw, a restart, a dropped transaction), accounts that join before expiry
and leave, and an indexer that lags move between the steps. **LiquidationBot** is
the same for one account after another; health and offers change under it.

**PriceNode** has a request in two steps, as the await divides it: `Ask` looks at the
cache of its isolate, `Sign` stamps the second it is by then and fills the cache, so
requests overlap and several prices may be signed for one second. What a request can end
with is computed over all answers of honest and faulty exchanges, each from any instant of
the wait, as `Aggregate` of the median and those that agree with it. **SpotPrices** is
LiveSpotOracle over every signature there ever was: anyone submits a point made of
signatures of different answers, at any later time, with rogue signers and changes of
provider. **SurfaceReports** has the publisher from a built report over cosigning and the
check of the quorum to serving, and VolSurfaceOracle with sequence, activation, emergency
mode and proven leaves. **MarketPushers** brings both on chain.

### Services and the web app

**EventChain** emits the logs of the contracts in the order of the code, in blocks
that may be dropped. **Indexer** has one handler per event over its tables;
**LogScans** the chunked scans that several loops of one process share;
**IndexReaders** the monitor's health and reconciliation loops, and the web app's
lists from the API and from the chain. **Watchdog** is one run after another over a
stored state. **KuruOrders** is the panel of the user's orders on Kuru and the page
that withdraws what is free there.

**AppSession**: wallets that are switched while steps run. **WalletHistory**: profit and
loss rebuilt from the logs, whose records have the transaction, and from the indexer,
whose records have the block; a settlement collects a debt as far as the account has cash.
**OrderTicket**: what the user signs from a book that moves, and what the router and Kuru
make of it. **SeriesPage**, **KeeperPages** and **SeriesListing**: what the pages offer
from queries that are refreshed apart, against what the contracts accept; KeeperPages also
has the search for liquidation prices.

### Abstractions

* One settlement asset per instance. Every balance in the code is keyed by asset
  and an account has one; that series and account agree is checked in
  SubAccounts (`AssetsMatch`).
* Values are integers at the contracts' numerator scale, with `Denom` units per
  native token, so every rounding to tokens is kept. The rounding of a leg value
  to 1e-18 inside the risk engine is not.
* Black-76 is a constant operator of series and spot. Scenarios shock the spot;
  volatility and time shocks, and the penalty on a stale surface, are not
  modelled. The properties do not depend on the model of the price: the
  proofs assume only that it is a natural number.
* Series are registered when an instance of the core starts. Risk, fee and auction
  parameters are constants; the setters of SubAccounts are modelled.
* Wrapper holders are abstracted to the supply: anybody may hold any part of it.
  Callers are authorized; bounds that protect a caller (maximum fee, minimum
  proceeds) only make calls revert and are left out of the core (OrderTicket and
  LiquidationBot have them).
* In SettlementWindow the settlement price is any positive price; which one it
  is, is the subject of SettlementOracle. The payoff price is capped as in
  `_snapshot`. A batch of settlements is a sequence of single ones.
* Answers of feeds are at one scale, and the multiplication to 18 decimals does
  not overflow. A read fails for all rounds of a feed or for none. The
  search of the SDK reads one state of a feed; rounds written during a search are
  covered by the check of the contract, after which the keeper starts again.
* In Optara the pause bits of the three scopes are one mask; ProtocolControl has
  all three. An oracle update carried by a call is a step before it.
* The ledger checks limits at each leg; in Protocol they are checked on the table a
  call leaves, which differs only when a call opens and closes positions of one
  account.
* A surface is clean, or faulty in one of three ways; the numbers of its grid are
  those of its maker. Prices of the node are hundredths; they are at least 100 of them,
  so that its roundings stay within the bound of `SignedNearMarket`.
* In EventChain the amounts are the smallest that tell the writes apart; margins and
  rounding are those of the core. Envio's transaction per block and rollback are
  external, and so are Kuru's book and margin account.
* In the page of auctions the discount of a slice and the liquidator's own health are
  left out. Kuru fills whole units of 0.01 option.

## 3. The runs

A run with several parts has a variable `mode`, chosen at the start: the parts share
no state, so each is explored alone in one run.

| Run | Instance | Shows |
|---|---|---|
| `contracts` | 3 series over 2 buckets and 2 groups, \|q\| <= 1; quanta, minimum 3 lowered to 1, \|q\| <= 3; one feed with 5 rounds, or a quotient of two with fallback; roles; two upgrade operations | arrays stay exact (`ListsExact`); types, grid and assets (`LedgerSound`); SubAccounts implements Ledger; any accepted proof gives the round in force, all callers get the same price, the keeper finds a proof whenever there is one; only GOVERNANCE adds risk; announced code only, after its delay, once |
| `settlement` | a call and a put of one group, 2 accounts, `Denom` 3, `Wad` 7 | backing and custody (`BooksBalance`), claims covered by debts and paid in full (`ClaimsCovered`), the pool never short (`PoolCoversClaims`), what is settled stays so (`SettledForGood`) |
| `two_groups` | two groups one tick apart, shared cash and insurance | types; with unpayable debts and a reserve that runs out, every expired group becomes redeemable; Optara implements GroupLifecycle |
| `liquidation` | two books at spot 2, spot to 4 and 6, contracts of size 5 | transfers are zero-sum, slices improve health, unchecked moves never hurt, no healthy account is made unhealthy |
| `control` | one call, guardian, fees, fund deposits, outages, surfaces that are missing, old, of low confidence or in emergency | open interest grows only in an open market; a fee loses no token |
| `keepers` | two keepers on a group of two or with a fault, or one on two groups; the bot with two buckets | no group is forgotten nor given up (`KeepersSafe`), all are completed; slices keep their quotes, accounts are brought back and auctions end |
| `market_data` | 3 exchanges with one liar, two requests at a time, 3 signers with a rogue, 2 publishers with a faulty one | signed prices near the market, spots made of honest legs, surfaces clean and what is served accepted, prices, feeds and surfaces refreshed |
| `services` | chains of 2 to 6 blocks, one dropped, one log repeated | tables are the chain's state, readers agree with the chain, the health cache follows, failures and recoveries are told; free funds return from Kuru, and resting orders if the market stays tradable |
| `frontend` | two wallets, three accounts, histories of both sources, books of up to three levels, slippages of 0.5, 1 and 3 %, caps met by the third option | sessions act for the wallet that pays, P&L is what was earned, orders are kept, pages offer what is accepted and nothing less, visitors alone complete groups and auctions |
| `healthy_sliced`, `starving`, `indexed` | as `liquidation`; one keeper on two groups; histories of `frontend` | the three findings of section 5 |

**Why the bounds are enough.** In settlement the divisions are by `Denom * Wad` = 21, and
every payoff from 1 up leaves a remainder; two accounts and up to two wrappers
give partial redemptions in both orders with a creditor's claim between. Two
groups are the least that share insurance. Liquidation uses contracts of size 5
so that bonus and penalty are several units, and the two books of `BookInit` are
reached by deposits and mints at spot 2; starting there leaves room for
a spike, an auction, slices, recovery and a second slice. Three series over two
buckets are the least for both levels of swap-and-pop. The bounds are
`MaxTokens` (collateral that can come in), `MaxQty`, `Amounts`, `SliceSizes` (arguments),
`MaxTime`, `MaxReports` (clock, spot reports), and `MaxCash` in SubAccounts. Deadlock is
not checked, since clock, cash, tokens, reports, operations, moves and faults are bounded:
an instance stops when all are used.

For the oracle, five rounds allow one missing at the end of a phase, one in a
skipped phase and one after the window, and make the doubling of the search
overshoot and its bisection take both branches; expiry is at 2 of 3, so rounds fall
before, on and after both ends of the window. `KeeperFindsProof` is about registered
configurations with consecutive phases and working reads, because no proof exists across
a skipped phase and none can be read in an outage. Upgrades need a clock up to the longer delay
and two implementations, so that a proxy really changes.

The settlement keeper races a rival over two accounts with batches of one, so that the
count, the scan and the batch can each be overtaken; a fault may hit any step, and
one keeper on two groups shows the order of the catalog. `MaxFaults`, `MaxMoves`,
`MaxTime` bound it. For the bot, a bucket of two slices and one of one show the
loops over both. In `market_data` the clock is bounded by `Horizon`, report numbers by
`MaxSeq`; a request waits for at most `AnswerTime` = 1 tick, and `MaxWaiting` = 2 requests of
one isolate suffice to sign two prices for one second, one of them with an answer from
before the market doubled (`Levels`): a package of three signatures can then mix both with the
rogue's value; a restarted publisher may need one number more, which `OutOfBounds` names: it
is the bound and not a way the code may end. Two publishers with a quorum of two are
the least in which one faulty publisher can neither publish alone nor be outvoted.

A chain of `services` is long enough for every handler of its part and one log
repeated before or after a dropped block; two blocks per request and a chunk of one
give scans with several chunks and a rest. Watchdog: two checks that change four
times, two calls that fail. In `frontend`, two transactions share a block
(`PerBlock`), `Cashes` has an account that cannot pay its debt and one that can, and the
budgets include the least one for which a slippage preset is too small. `MaxPresses` lets
a setup be begun anew after it failed and every other button run once; `MaxChanges`, `MaxMoves`
bound what the user and the world do between two refreshes.

**Fairness.** Core: time passes, and keepers keep trying `FinalizeGroup`,
`SettleAccountGroup` and `ComputeRecoveryRatio`: these calls are open to anyone,
rewarded, and the settlement keeper retries them every round
(`keepers/src/settlementKeeper.ts`). Nobody is obliged to trade, to
liquidate, to flag, to claim or to unpause; `two_groups` has no pausable bits since a
guardian that never unpauses does stop settlement.

Keepers and services are loops on a timer (`keepers/src/main.ts`, `watchdog/src/index.ts`,
`indexer/api/main.ts`), so their own steps are weakly fair, and faults are finitely many;
a transaction that is sent and not dropped is mined. `GroupsComplete` needs proofs that
appear in the end (`ProofsAppear`), and `starving` shows what happens without. The pushers
and publishers keep their timers too. The price node is strongly fair: a cached answer lasts only `CACHE_MS`, so the cache does not keep new requests away for
good, which the whole ticks of the model blur. A refusal of the node counts as a fault of
the push. A user of KuruOrders and a visitor of the pages press what is offered. No rival,
market or user is otherwise obliged to act.

## 4. The theorems

| Theorem | Statement |
|---|---|
| `LedgerProofs!LedgerStaysSound` | `Spec => []LedgerSound` |
| `LedgerProofs!ListsStayExact` | `Spec => []ListsExact` |
| `LedgerProofs!LedgerImplements` | `Spec => ImplementsLedger` |
| `OptaraProofs!TypeCorrect` | `Spec => []TypeOK` |
| `OptaraProofs!BackingInvariant`, `SolvencyInvariant`, `BooksAlwaysBalance` | `Spec => []BooksBalance` and its two parts |
| `OptaraProofs!ClaimsAreCovered` | `Spec => []ClaimsCovered` |
| `OptaraProofs!PoolSuffices` | `Spec => []PoolCoversClaims` |
| `OptaraProofs!SettledStays` | `Spec => SettledForGood` |
| `OptaraProofs!LifecycleImplemented` | `Spec => ImplementsLifecycle` |
| `OptaraProofs!UncheckedHurtsNobody` | `Spec => UncheckedNeverHurts` |
| `OptaraProofs!TransfersAreZeroSum` | `Spec => TransfersZeroSum` |
| `OptaraProofs!HealthFallsByRule` | `Spec => HealthFallsOnlyToHealthy` |
| `OptaraProofs!SlicesHelp` | `Spec => SlicesImproveHealth` |
| `OptaraProofs!TokensStayInside` | `Spec => TokensConserved` |
| `OptaraProofs!RiskNeedsOpenMarket` | `Spec => RiskGrowsOnlyWhenOpen` |
| `PeripheryProofs!InForceOnly` | `OracleSpec => []OnlyInForce` |
| `PeripheryProofs!OnePrice` | `OracleSpec => []KeepersAgree` |
| `PeripheryProofs!ProofIsFound` | `OracleSpec => []KeeperFindsProof` |
| `PeripheryProofs!OthersOnlyReduce` | `ControlSpec => OnlyGovernanceAddsRisk` |
| `PeripheryProofs!UpgradesWait` | `AdminSpec => UpgradesAnnounced` |
| `PeripheryProofs!KeepersStaySafe` | `SettleSpec => []KeepersSafe` |
| `PeripheryProofs!SlicesKeepQuotes` | `LiquidateSpec => SliceKeepsQuote` |
| `PeripheryProofs!AlarmsToldOnce` | `WatchSpec => []ToldOnce` |
| `MarketProofs!SignedStaysNear` | `SpotSpec => []SignedNearMarket` |
| `MarketProofs!SpotStaysHonest` | `SpotSpec => []SpotFromHonestLegs` |
| `MarketProofs!SurfacesStayClean` | `SurfaceSpec => []SurfacesClean` |
| `IndexProofs!IndexStaysExact` | `IndexSpec => []IndexExact` |
| `ReadersProofs!ScansStayExact` | `ScanSpec => [](CatalogGap /\ DirectoryExact)` |
| `ReadersProofs!MismatchesAreExplained` | `MonitorSpec => []MismatchMeansMoved` |
| `ReadersProofs!AppReadsStayExact` | `MonitorSpec => []ReadsMatchChain` |
| `ReadersProofs!SourcesStayAgreed` | `MonitorSpec => []SourcesAgree` |
| `AppProofs!SessionsStaySafe` | `SessionSpec => []SessionSafe` |
| `AppProofs!ListingIsSound` | `ListingSpec => []ListingSound` |
| `AppProofs!PagesAreTrue` | `PagesSpec => []PagesTrue` |
| `AppProofs!FiguresStayExact` | `FiguresSpec => []FiguresExact` |
| `AppProofs!SignedLimitsAreKept` | `TicketSpec => []SignedLimitsHold` |
| `AppProofs!FreshSalesLand` | `TicketSpec => [](outcome.side # "buy" => FreshOrdersLand)` |

They hold for any finite sets of accounts, series, keepers, exchanges, signers and
publishers, any pricer with values in Nat, and any parameters that satisfy the named
assumptions of the modules (`BookAssumption`, `ProtocolAssumption`,
`ClearingAssumption`, `LiquidationAssumption`, `SettlementAssumption`,
`OptaraAssumption`, `SubAccountsAssumption`, `FeedsAssumption`, `OracleAssumption`,
`ControlAssumption`, `UpgradeAssumption`, `LifecycleAssumption`, `KeepersAssumption`,
`BotAssumption`, `PriceNodeAssumption`, `SignerAssumption`, `PublisherAssumption`,
`SessionAssumption`, `PageAssumption`, `CardAssumption`, `AuctionAssumption`,
`ListingAssumption`, `HistoryAssumption`, `SpotsAssumption`, `TicketAssumption`,
`ChainAssumption`).
For the contracts and services these are what initializers, setters and configurations
enforce, or weaker. Three say whom the system trusts: fewer exchanges are
faulty than the node's minimum of sources, fewer than half of a signer quorum sign
anything, and fewer publishers than a quorum are faulty. `PriceNodeAssumption` also
fixes the resolution of prices: a level is at least a hundred units; and
`SpotsAssumption` that of the search for liquidation prices: sixteen halvings tell
two units apart up to a price of 131070 units (in the code, whose prices have 18
decimals, they leave 1/65536 of a step). TLC evaluates the assumptions in each run.

A sum is the cardinality of a set of unit tokens (`Book!Total`), so its update rules
(SumsProofs) follow from the library's theorems on finite sets and need no induction
over data, which the installed provers cannot instantiate. Where the code folds over a
list or searches in a loop, the argument is by a least position at which a claim would
fail (`LeastCount`): the recursive function behind the fold exists (`RunExists`), so the
fold passes through a value at each position (`RunPasses`), and no position is the first
to break what each step keeps.

*The ledger* (`LInv`). ListsExact alone is not inductive: a push or a removal needs
that list and index are inverse to each other (`Arranged`), and the counters are
compared with the table by how one balance changes them. Every step of the
contract then is one step of Ledger or a stutter.

*Types* (`IType`). TypeOK says that cash, supplies, funds and pools are never negative.
It is not inductive: a liquidation with a negative bonus would let the liquidator's
payment exceed the account's cash. `IType` adds that every auction started in
the past, which makes the elapsed time and so the bonus non-negative.

*Backing* (`IBacking`) adds that a group has a ratio only after it is finalized.
Without it a redemption could burn the wrappers of a live series. The proof
follows how one or two balances of a series change its long and short side, and lifts
it to all series a slice moves. *Custody* is inductive given TypeOK.

*Settlement* (`IGroups`, one `GroupSound` per group). At finalization, backing makes
the net payoffs of the group's accounts add up to minus the claim of the wrappers. Each
account that settles turns its net payoff into a debt, rounded up, or a credit, so that
debts + what is left to settle always cover credits + wrappers; when nobody is left,
debts cover claims, and a group with nothing unpaid recovers in full. After the ratio is
fixed each payout, rounded down, takes from the pool no more than its share.
`ImplementsLifecycle` maps the ratio to redeemable and holders of a group's series to
members.

*Valuation.* Equity and the value of a bucket in each scenario are sums of balances
with weights that depend on prices alone. What one account gives another receives, so
transfers are zero-sum; a long leg weighs at least nothing and a short one's loss is
its weight, so more of a series lowers no health. A slice's improvement is the sold
share of the margin less bonus and penalty, up to the two roundings.
`HealthFallsByRule` has one case per operation.

*The settlement price* (`IInv`). A proof names a round and its immediate successor;
that no third round lies between them in time needs `Chronicle`: a feed's rounds
have distinct ids, no gap inside a phase, and times that never fall as ids grow.
With it, `InForce` implies membership in `LastUpTo`, which is `OnlyInForce`. For
`OnePrice`, `LastUpTo` has at most one round per feed, so `Select` has at most one
price; and once the clock is past the window no new round is stamped inside it, so
the set never changes again.

*The search for the proof.* The recursive functions of `RoundSearch` are the ones that
satisfy their equations, so the proof first shows by a closed form that there is one, and
then, at a least argument where it would differ, what each of them computes: bisection of
1..k ends at k (`BisectFinds`), doubling at a number past the last round with half of it
not past (`ProbePasses`), together the last round of a phase (`LastRoundFound`). `Chronicle`
makes the rounds of a phase 1..n (`PhasesComplete`); that there is a last one is
`Bounded`, the second invariant. The descent then reaches the phase of the round in force
and shows its successor (`SearchFinds`), which `InForce` accepts (`AcceptedInForce`).

*Upgrades* (`AdminInv`). `EtasKept` remembers when each operation was scheduled, so
that an execution after its eta is one after the delay.

*Keepers* (`KInv`). A group that a keeper took off its list is redeemable because it was
read as such or its own ratio transaction succeeded. That the settle loop is never
given up rests on `Progress`: the count before a batch exceeds what is left without the
batch, whoever settled in between, because from finalization on members only leave.
`BInv` ties the limits of a slice the bot has sent to its preview.

*The watchdog* (`WatchInv`). What a run will say and save was decided from the state that
is still saved (`RunDecided`), since nothing else writes it. A check was told of at most
once more than calls failed if it is saved as failing or this run has just told of it, and
otherwise at most as often as calls failed.

*Prices* (`NodeInv`, `PInv`). Order statistics of finitely many naturals exist, a
median lies between any bounds of what it is taken of, and where a majority agrees it
is the value of that majority. With fewer faulty exchanges than the node's
minimum of sources, one of those that agree with the median is honest, so the price is
within twice the deviation of the market. In a valid package the rogue signers are fewer
than half, so its median lies between two values the node signed for that second, though it may
be none of them (`PointIsHonest`); a stored price is the quotient of two stored legs, which
the invariant keeps together with their times, and the quotient grows with its base and
falls with its quote, so it lies between quotients of signed values (`ComposedBetween`).

*Surfaces* (`SInv`). A quorum contains an honest publisher (`FaultyHaveNoQuorum`), who
cosigned after validation: so a report on chain is clean (`ChainClean`). What a service
serves was valid over the chain it remembers (`DraftsBuilt`, `GridsBuilt`), with one
report per number (`OnePerNumber`), so it applies while the chain is where it was or at
that report.

*The index* (`IndexSound`). `Tells` says what the tables say of a state of the contracts,
row by row; the totals of a series are sums over accounts and holders, by induction on the
size of a set (`SubsetInduction`). `Steps(u, e, v)`: handling log `e` takes
any tables that tell `u` to tables that tell `v`, and handling it again changes nothing,
because a handler sets what it is told or remembers the logs it has added. A transaction
is a draft of logs that is `Good` while its logs, one step after the other, tell its
whole state; `Emit` and each write keep it so. For that the state needs to be `Sound`:
nothing of an account before it is opened or of a series before it is listed
(`OpenedFirst`, `ListedFirst`), or the handler would miss a row; the counter of
participants counts them (`Counted`); and an order's rest never exceeds its size
(`LeftOver`). So each of the 27 transactions is `Mined` as a block that keeps `Sound`,
the tables follow from block to block (`CommitKeeps`), and a rollback rebuilds them from
the blocks kept (`RollbackKeeps`). Ids of blocks are never used twice, so a block that
was dropped after it was processed is noticed whatever replaced it (`ChainKeeps`).
`IndexSpec` starts with an empty chain and has every transaction but the moves of
prices, which emit no log; `MonitorSpec` has them too (`RepriceMined`).

*The scans* (`ScanInv`). The logs of a chunk of blocks, whatever each transaction in it did,
name every series listed in it and leave each balance they are recorded over either as
the ledger's after the last block or, where no log tells of it, as it was, the ledger's
having rested (`ReadUpTo`, from what each log does to both: `Follows`). Requests in flight
lie on the chain. The catalog only grows, so what it had before a chunk it has after
(`Knows`), whichever of several answers comes last; what a seeding skipped is in `gap`. The
directory is not monotone: an answer that was already recorded writes older
balances over newer ones and sets the position back. `DirectoryKept`
holds as long as no answer did that; section 5 says what happens then. `ScanSpec` drops no
block, as scans never look back at what they read.

*The monitor* (`MonInv`). A pass of the reconciliation remembers the moment it began;
once it is past it never comes again, since a dropped block shortens the chain and ids of
blocks are never reused (`Past`). So a pass that ends at its own moment saw one state
throughout; and if the index was level then, the rows it read are the contracts' state
(`Fits`, from `LevelIndex`) and each comparison finds nothing (`NoDifferences`). The sum of
custody runs over the rows of the accounts on one side and over all accounts on the
other: they are equal because an account that is not opened has nothing (`AddsWithin`).

*The lists of the app.* The logs of a transaction lead from the state before it to the one
after it through states that differ as each log says (`Path`), so a statement about logs at
a set of places and a state passes from log to log and from block to block (`ChainTells`):
who was created, the last balance told for each account and series, whether the last start
of an auction is after its last end. Orders are read in chunks, each kind by a scan of its
own, which is not the order of the chain. `RowRead` says of one order what each
scan leaves: after the creations it is open with its size wherever the chain has it by
then; after the trades it is what the chain has, but for a cancellation still to come; and
the cancellations come last because nothing happens to an order that is cancelled.
A filled order is never cancelled, so the guard of the last scan lets the right ones through.
That what is written covers the wallets needs `Even`: longs plus wrappers are shorts until
the group is settled. It is kept because every transaction that moves a balance by one
moves a wrapper or another balance against it (`NetBy`), block by block, and because a
ratio is only ever set after finalization. The routes of the API are functions of tables
that tell the state (`LevelRows`, `LevelPositions`, `LevelOrders`, `LevelHistory`), so the
two sources agree because each agrees with the contracts.

*The web app.* `SessionInv`: once its first transaction is mined, the account of a setup
belongs to the wallet of that run and has no payment yet (`CreatedIsOwn`, `UnpaidYet`), so
each deposit is one more account that is paid; lists that were read are the wallet's own
(`ReadsAreOwn`), because accounts never change hands; and `Counted` gives every account
without a deposit, or option without a sale, to one failed run or the run that goes on.
`ListingInv`: groups are exactly the listed series of their key (`GroupsExact`) and a market
trades a listed series (`MarketsFit`), which the checks of the registry keep whoever calls.
`PageInv`, `CardInv`, `AuctionInv`: what a page offers is a function of what it has read, so
the proofs compare it with the contract's conditions: the capacity of a series is
positive exactly when both caps admit one more option (`CapacityIsWhatCapsAllow`), whoever
may write stays healthy after it (`WritersAreHealthy`), and the target of an auction is
never below the maintenance margin (`TargetCovers`).

*Profit and loss.* `HistoryInv`: the logs of a transaction share a stamp, whose
transaction no other has and whose block may have others (`StampsFit`); the balances
logged add up to the account's (`AccountQty`); it settles at most once, and then owes
or is owed what the page counts, of which `unpaid` was not collected; and the fills made
of the logs so far tell the cash (`KeptSound`): what was realized less the cost of what is
kept is what the wallet got less what it paid, except for options whose origin no
history tells, which the page counts as unknown. A fill moves quantity and cost together
(`FillMoves`), so the average cost never spends what was not paid. All of it is proved for
both sources; that a balance belongs to a settlement needs `Told`: for the records of the
indexer, that no close shares a block with the settlement of its account (section 5).
*Liquidation prices.* A halving keeps the edge between its two ends (`HalveHolds`) and
halves their distance, so sixteen end at the edge or at a price the views refuse
(`BisectIsEdge`); each probe keeps what the ones before it established (`ProbeRises`,
`ProbeFalls`).
*Orders* (`TicketInv`). At each level Kuru takes no more units than what is left of the
budget pays for, rounded up (`UnitsCost`), so a walk through any asks never spends more
than it was given (`BuyStays`); the fee on what was spent is at most the fee on the
budget, which the router compares with the one signed. `FreshInv` adds what was signed
(`SaleOf`, `LimitOf`): the adapter's quote of the fee of a sale, taken from gross proceeds,
is at least what Kuru keeps (`SaleLands`), and the cash a bid needs, rounded down
plus one, is at least what Kuru locks, rounded up.

**Only model-checked.** Liveness (`SettlementCompletes`, `GroupsComplete`,
`LiquidationCompletes`, `MarketStaysFresh`, `HealthFollows`, `AlarmsTold`, `FundsReturn`,
`ClosingsReached`): there are no rules for ENABLED here. Of the conjuncts of
`ReadersExact` all are proved but the last, the panel of Kuru orders, which filters its
list with `SelectSeq`, a recursive operator. Of `OrdersKept` the part not proved is that a
fresh market buy lands when its slippage has room for Kuru's units and fee (`Roomy`);
without room it need not (section 5).

## 5. Where code and documents differ

`docs/LIQUIDATION.md:14` says that "Healthy and close-only accounts can never be
liquidated". `liquidateSlice` asks for an active auction and equity below the target
(`LiquidationModule.sol:168`), not for equity below maintenance margin. In the run
`healthy_sliced` a spike starts an auction, the price returns, nobody ends the
auction or nobody can since the account is below the target, and the account
is sliced while above its maintenance margin.

`keepers/src/settlementKeeper.ts:2-4` says "for every group past expiry, finalize with
the round-in-force proof [...]". `tick()` awaits `buildSettlementProof` of one group
without a catch (`settlementKeeper.ts:67`): when it throws, the tick ends and the
groups behind it in the catalog are not reached, in this tick and every later one. The
run `starving` shows two expired groups, the first without a proof, the second never
served.

`frontend/src/lib/optara/reads.ts:896-898` says of the history that "the indexer only keeps
the block, which serves: settlement and liquidation both clear positions in the same
block as their own event". `getTradePnl` takes the indexer whenever one is configured and
answers (`reads.ts:963`), and groups its records by block where it groups logs by
transaction. In the run `indexed` a short is closed and its account settled in one block: from the
indexer's records the page takes the close for part of the settlement, counts a debt for
it, leaves the options given back among those that cost something, and shows another profit
than from the logs. `FiguresExact` therefore speaks of the indexer's records only while no
close shares a block with a settlement.

The page counts a writer's debt in full as paid when the account settles
(`reads.ts:1040-1042`), where `pnl.ts:12` counts "writers' debts collected at settlement";
SettlementWindow collects only what the account has. So the total the page shows is what was
earned less what was never collected (`unpaid` in `TotalIsEarned`). (No run of its own.)

`frontend/src/lib/optara/limits.ts:31-32` signs the least quantity of a buy in steps of
0.01 option "so rounding does not turn a valid fill into a false 'price moved'
rejection". The page takes Kuru's fee off the budget, where it costs options at the
dearest level reached, and Kuru takes it off the options bought and fills whole units. At
the default slippage of 1% and a price of 33.00 for one option, a budget of 16.82 is
estimated at 0.507 options and signed for 0.50; Kuru fills 0.50, keeps its fee of 0.3%, and
the order is rejected though the book did not move. TLC refutes `FreshBuysLand` in
OrderTicket with `App.cfg` restricted to `Modes = {"ticket"}`. `FreshOrdersLand`, which the
run `frontend` checks for the three presets, asks of a buy that its slippage has room for one
unit and the fee (`Roomy`) and, if it was estimated at the best ask alone, that as much rests
there (`WithinBook`). (No run of its own.)

`frontend/src/components/KuruBalances.tsx:32-34` tells the user that "funds locked in open
orders appear once you cancel them on the option's Order book page". That page gets its
orders through the market's quote, and the router quotes no market that is paused or
expired (`reads.ts:263`): then the panel shows no book and no order to cancel, and no other
page cancels one. TLC refutes `LockedComesHome` in KuruOrders: an order is placed, its
market is paused or expires, and what it locks stays on Kuru. `FundsReturn` is about what is
free there, and about resting orders if the market stays tradable in the end. (No run of
its own.)

`sdk/src/ledger.ts:14` promises "the ledger rebuilt from `SubAccounts.BalanceUpdated`".
The settle and the liquidate loop of one process share a directory when there is no
indexer (`keepers/src/main.ts:57-59`), and `sync()` sets the position after its await
(`ledger.ts:48`). So two syncs may overlap: an answer that was asked early and comes late
writes the balances of an old chunk over newer ones and sets the position back, and the
next answer of the other loop sets it past the blocks in between, which nobody reads
again. Then a balance is wrong until it changes again. `rewound` tells that a position
was set back; `DirectoryExact` is about the runs in which none was. Without `~rewound`
there, `services` shows the trace. (No run of its own; the catalog only adds, so that a
position set back does no harm there.)

One thing the documents accept is left without a property: credits of a settled
group are no equity until they are claimed (`docs/SETTLEMENT.md:86`), so an account
can be liquidated between the settlement and the claim of its hedge.

## 6. What is not modelled

Black-76 and the transcendental functions, the interpolation of surfaces, and the
calibration of the publisher (SVI fits, quotes): numeric code, tested in the repository
against a reference. The lifecycle of risk sets and the setters of parameters: an
instance has constants. Of the web app the dashboard of the portfolio, the lists of
markets, the texts and documents, the system page and charts; of the indexer page
visits and the alerts that are only logged. Module base, deployment, devnet and test
scripts, the Python reference model, the testnet price feed, vendored libraries.

Two small places are modelled as one would want them and not in every detail: the
publisher counts the signature of a signer that was just removed towards the quorum it
checks before it serves (`publisher/src/publisher.ts:219`; the contract checks again), and
two first visits at once may race in `indexer/api/db.ts:70`.

## 7. Plan

Done: all models above; the safety of every run proved for every instance, but for what section
4 lists as only model-checked.

Next: the lifecycle of risk sets and the setters of parameters as actions of the core; that a
fresh buy with room lands; the overlapping scans of section 5 under a repaired `sync`, which
would let `DirectoryExact` speak of every run.
