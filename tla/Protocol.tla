------------------------------ MODULE Protocol ------------------------------
(***************************************************************************)
(* The state the core contracts share, for one settlement asset, and the   *)
(* risk engine that reads it (PortfolioRiskManager.sol).                   *)
(*                                                                         *)
(* The ledger appears through its abstract specification (module Ledger):  *)
(* cash and signed balances, with totals and participants computed from    *)
(* the balances.  Wrapper tokens are a supply per series: whoever burns    *)
(* holds them.  All values are exact numerators quantity x price x size;   *)
(* Denom of them are one native unit of the asset.                         *)
(***************************************************************************)
EXTENDS Book, FiniteSetsExt

CONSTANTS
  Bps,             \* 10,000 basis points
  Denom,           \* numerator units per native unit (_denominator)
  Wad,             \* the scale of recovery ratios
  Prices,          \* what the price oracles may report; 0: no fresh spot
  SurfaceStates,   \* the statuses a volatility surface takes in the instance
  Black76(_, _),   \* (series, spot) -> price of an unexpired option
  MaintenanceSet,  \* scenarios of the maintenance margin, as shocks in bps
  InitialSet,      \* the further scenarios of the initial margin
  ImBufferBps,     \* short-mark buffer on the initial margin
  MinQty,          \* minPositionQty
  MaxSeriesPerAccount, MaxBucketsPerAccount

Strike(s) == Info[s].strike
Expiry(s) == Info[s].expiry
GroupExpiry(g) == Expiry(CHOOSE s \in Series : Info[s].group = g)

\* A price under a spot shock, and every price an option is valued at.
Shock(price, shock) == (price * (Bps + shock)) \div Bps

SpotDomain ==
  {Shock(p, sh) : p \in Prices,
                  sh \in {0} \cup MaintenanceSet \cup InitialSet}

\* VolSurfaceOracle.surfaceStatus: NONE until the product's first report.
SurfaceStatuses == {"NONE", "FRESH", "STALE", "EXPIRED_DATA"}

ASSUME ProtocolAssumption ==
  /\ Bps \in Nat \ {0} /\ Denom \in Nat \ {0} /\ Wad \in Nat \ {0}
  /\ Prices \subseteq Nat
  /\ SurfaceStates \subseteq SurfaceStatuses
  /\ \A s \in Series : /\ Strike(s) \in Nat
                       /\ Info[s].isCall \in BOOLEAN
                       /\ Expiry(s) \in Nat \ {0}
                       /\ Expiry(s) = GroupExpiry(Info[s].group)
  /\ \A s \in Series, p \in SpotDomain : Black76(s, p) \in Nat
  /\ IsFiniteSet(MaintenanceSet \cup InitialSet)
  /\ \A sc \in MaintenanceSet \cup InitialSet : sc \in Int /\ sc >= -Bps
  /\ ImBufferBps \in Nat
  /\ MinQty \in Nat \ {0}

VARIABLES
  now,                \* block.timestamp
  spot, publishTime,  \* per underlying: fresh spot price (0: none), its report number
  surface,            \* per underlying: surface status
  doubtful,           \* underlyings whose last surface report is of low confidence
  emergency,          \* underlyings whose surface is in emergency mode
  paused, closeOnly,  \* ProtocolControl: pause bits, close-only products
  cash, balances,     \* SubAccounts
  supply,             \* wrapper supply per series
  custody,            \* tokens of the asset held by OptionClearing
  insurance,          \* InsuranceFund balance
  keeperReserve, treasury,  \* FeeController balances
  groups, creditN,    \* SettlementWindow
  auctions            \* LiquidationModule: start time, 0 when there is none

surfaceVars    == <<surface, doubtful, emergency>>
marketVars     == <<now, spot, publishTime, surfaceVars>>
controlVars    == <<paused, closeOnly>>
feeVars        == <<keeperReserve, treasury>>
settlementVars == <<groups, creditN>>
vars == <<marketVars, controlVars, cash, balances, supply, custody, insurance,
          feeVars, settlementVars, auctions>>

-----------------------------------------------------------------------------
(* Option values *)

Intrinsic(s, price) ==
  IF Info[s].isCall THEN Pos(price - Strike(s)) ELSE Pos(Strike(s) - price)

UnitPayoff(s, price) == Intrinsic(s, price) * Info[s].size

Unexpired(s) == now < Expiry(s)
Finalized(s) == groups[Info[s].group].finalized

\* An expired series that is not finalized is worth its intrinsic value.
LivePrice(s, price) ==
  IF Unexpired(s) THEN Black76(s, price) ELSE Intrinsic(s, price)

\* The value of account a's balance in s, in table b, at a unit price.
LegValue(b, a, s, price) == b[a][s] * Info[s].size * price

SignedTotal(S, f) ==
  Total(S, [x \in S |-> Pos(f[x])]) - Total(S, [x \in S |-> Neg(f[x])])

-----------------------------------------------------------------------------
(* Equity and margins of an account, for a table of cash c and balances b *)

InBucket(b, a, u)  == {s \in Held(b, a) : Info[s].underlying = u}
LiveLegs(b, a, u)  == {s \in InBucket(b, a, u) : ~Finalized(s)}
FinalLegs(b, a, u) == {s \in InBucket(b, a, u) : Finalized(s)}

ScenarioValue(b, a, u, shock) ==
  SignedTotal(LiveLegs(b, a, u),
    [s \in LiveLegs(b, a, u) |->
       LegValue(b, a, s, LivePrice(s, Shock(spot[u], shock)))])

BaseValue(b, a, u) == ScenarioValue(b, a, u, 0)

FinalValue(b, a, u) ==
  SignedTotal(FinalLegs(b, a, u),
    [s \in FinalLegs(b, a, u) |->
       LegValue(b, a, s, Intrinsic(s, groups[Info[s].group].price))])

\* The worst loss of the bucket over a set of scenarios, at least zero.
WorstLoss(b, a, u, set) ==
  Max({0} \cup {BaseValue(b, a, u) - ScenarioValue(b, a, u, sh) : sh \in set})

\* What the bucket's short legs would cost to buy back, finalized ones included.
ShortMark(b, a, u) ==
  Total(InBucket(b, a, u),
    [s \in InBucket(b, a, u) |->
       Neg(LegValue(b, a, s,
             IF Finalized(s) THEN Intrinsic(s, groups[Info[s].group].price)
                             ELSE LivePrice(s, spot[u])))])

Equity(c, b, a) ==
  c[a] * Denom
    + SignedTotal(Underlyings,
        [u \in Underlyings |-> BaseValue(b, a, u) + FinalValue(b, a, u)])

MaintenanceMargin(b, a) ==
  Total(Underlyings,
    [u \in Underlyings |-> WorstLoss(b, a, u, MaintenanceSet)])

\* Mutant: the buffer is taken on the loss instead of the short mark.
InitialMargin_LossBuffer(b, a) ==
  Total(Underlyings,
    [u \in Underlyings |->
       DivUp(WorstLoss(b, a, u, MaintenanceSet \cup InitialSet)
               * (Bps + ImBufferBps), Bps)])

InitialMargin(b, a) ==
  Total(Underlyings,
    [u \in Underlyings |->
       WorstLoss(b, a, u, MaintenanceSet \cup InitialSet)
         + DivUp(ShortMark(b, a, u) * ImBufferBps, Bps)])

\* A negative equity never covers anything.
Covers(equity, margin) == equity >= 0 /\ equity >= margin

\* The oracles can be read for every live leg, in a mode that accepts these
\* surface statuses; an expired leg needs a spot but no surface.
OraclesReadable(b, a, statuses) ==
  \A u \in Underlyings :
    /\ LiveLegs(b, a, u) # {} => spot[u] # 0
    /\ (\E s \in LiveLegs(b, a, u) : Unexpired(s)) => surface[u] \in statuses

Strict      == {"FRESH"}
Liquidation == {"FRESH", "STALE"}

\* Mutant: accounts are held to the maintenance margin only.
RequireHealthy_Maintenance(c, b, a) ==
  /\ OraclesReadable(b, a, Strict)
  /\ Covers(Equity(c, b, a), MaintenanceMargin(b, a))

RequireHealthy(c, b, a) ==
  /\ OraclesReadable(b, a, Strict)
  /\ Covers(Equity(c, b, a), InitialMargin(b, a))

-----------------------------------------------------------------------------
(* Moves of the ledger *)

Moved(b, a, s, delta) == [b EXCEPT ![a][s] = @ + delta]

\* What the ledger requires of account a when its balances go from b to b2:
\* positions on the quantity grid, and room for every series it opens.
LedgerAccepts(b, b2, a) ==
  /\ \A s \in Series : b2[a][s] % MinQty = 0
  /\ Held(b2, a) \ Held(b, a) # {} =>
       /\ Cardinality(Held(b2, a)) <= MaxSeriesPerAccount
       /\ Cardinality({Info[s].underlying : s \in Held(b2, a)})
            <= MaxBucketsPerAccount

Credit(c, a, amount) == [c EXCEPT ![a] = @ + amount]
Debit(c, a, amount)  == [c EXCEPT ![a] = @ - amount]

MintWrapper(s, qty) == supply' = [supply EXCEPT ![s] = @ + qty]
BurnWrapper(s, qty) == supply' = [supply EXCEPT ![s] = @ - qty]

=============================================================================
