------------------------------- MODULE Optara -------------------------------
(***************************************************************************)
(* The core protocol: clearing, liquidation and settlement over one state, *)
(* with the clock, the oracles, the guardian and the fund deposits around  *)
(* them.  One action is one transaction.                                   *)
(***************************************************************************)
EXTENDS OptionClearing, LiquidationModule, SettlementWindow

CONSTANTS
  InitCash,                        \* collateral deposited when the instance starts
  InitInsurance, InitReserve,      \* seeded insurance fund and keeper reserve
  PausableBits, CloseOnlyProducts, EmergencyProducts, \* what the guardian may set
  MaxTime, MaxReports              \* bounds of the instance: clock, spot reports

ASSUME OptaraAssumption ==
  /\ InitCash \in [Accounts -> Nat]
  /\ InitInsurance \in Nat /\ InitReserve \in Nat
  /\ CloseOnlyProducts \subseteq Underlyings /\ EmergencyProducts \subseteq Underlyings
  /\ MaxTime \in Nat /\ MaxReports \in Nat

\* The clock starts before every expiry, as the series are registered: the registry
\* refuses a series whose expiry has passed.
Init ==
  /\ now = 0
  /\ spot \in [Underlyings -> Prices \ {0}]
  /\ publishTime = [u \in Underlyings |-> 0]
  /\ surface \in [Underlyings -> {"FRESH"} \cup (SurfaceStates \cap {"NONE"})]
  /\ doubtful = {} /\ emergency = {}
  /\ paused = {} /\ closeOnly = {}
  /\ cash = InitCash
  /\ balances = [a \in Accounts |-> [s \in Series |-> 0]]
  /\ supply = [s \in Series |-> 0]
  /\ custody = Total(Accounts, InitCash)
  /\ insurance = InitInsurance
  /\ keeperReserve = InitReserve /\ treasury = 0
  /\ groups = [g \in Groups |-> NoAccounting]
  /\ creditN = [a \in Accounts |-> [g \in Groups |-> 0]]
  /\ auctions = [a \in Accounts |-> [u \in Underlyings |-> 0]]

-----------------------------------------------------------------------------
(* The surroundings *)

Tick ==
  /\ now < MaxTime
  /\ now' = now + 1
  /\ UNCHANGED <<spot, publishTime, surfaceVars, controlVars, cash, balances, supply, custody,
                 insurance, feeVars, settlementVars, auctions>>

\* The spot oracle stores a strictly newer report: another price, or none that
\* is fresh.
SetSpot(u, price) ==
  /\ publishTime[u] < MaxReports
  /\ publishTime' = [publishTime EXCEPT ![u] = @ + 1]
  /\ spot' = [spot EXCEPT ![u] = price]
  /\ UNCHANGED <<now, surfaceVars, controlVars, cash, balances, supply, custody,
                 insurance, feeVars, settlementVars, auctions>>

\* VolSurfaceOracle.submitReport, of any age and confidence it accepts, or, with the
\* confidence it had, the last report as it ages.
SetSurface(u, status, low) ==
  /\ status # "NONE"
  /\ surface' = [surface EXCEPT ![u] = status]
  /\ doubtful' = IF low THEN doubtful \cup {u} ELSE doubtful \ {u}
  /\ UNCHANGED <<now, spot, publishTime, emergency, controlVars, cash, balances, supply, custody,
                 insurance, feeVars, settlementVars, auctions>>

\* VolSurfaceOracle.setEmergencyMode, in a sharp move of the market.
SetEmergencyMode(u, on) ==
  /\ emergency' = IF on THEN emergency \cup {u} ELSE emergency \ {u}
  /\ UNCHANGED <<now, spot, publishTime, surface, doubtful, controlVars, cash, balances,
                 supply, custody, insurance, feeVars, settlementVars, auctions>>

\* ProtocolControl.pause and unpause, one bit at a time.
SetPaused(bit, on) ==
  /\ paused' = IF on THEN paused \cup {bit} ELSE paused \ {bit}
  /\ UNCHANGED <<marketVars, closeOnly, cash, balances, supply, custody,
                 insurance, feeVars, settlementVars, auctions>>

SetProductCloseOnly(u, on) ==
  /\ closeOnly' = IF on THEN closeOnly \cup {u} ELSE closeOnly \ {u}
  /\ UNCHANGED <<marketVars, paused, cash, balances, supply, custody,
                 insurance, feeVars, settlementVars, auctions>>

\* InsuranceFund.deposit, open to anyone.
DepositInsurance(amount) ==
  /\ RoomFor(amount)
  /\ insurance' = insurance + amount
  /\ UNCHANGED <<marketVars, controlVars, cash, balances, supply, custody,
                 feeVars, settlementVars, auctions>>

FundKeeperReserve(amount) ==
  /\ RoomFor(amount)
  /\ keeperReserve' = keeperReserve + amount
  /\ UNCHANGED <<marketVars, controlVars, cash, balances, supply, custody,
                 insurance, treasury, settlementVars, auctions>>

WithdrawTreasury(amount) ==
  /\ amount <= treasury
  /\ treasury' = treasury - amount
  /\ UNCHANGED <<marketVars, controlVars, cash, balances, supply, custody,
                 insurance, keeperReserve, settlementVars, auctions>>

SurroundingsStep ==
  \/ Tick
  \/ \E u \in Underlyings :
       \/ \E price \in Prices : SetSpot(u, price)
       \/ \E status \in SurfaceStates, low \in BOOLEAN : SetSurface(u, status, low)
  \/ \E on \in BOOLEAN :
       \/ \E bit \in PausableBits : SetPaused(bit, on)
       \/ \E u \in CloseOnlyProducts : SetProductCloseOnly(u, on)
       \/ \E u \in EmergencyProducts : SetEmergencyMode(u, on)
  \/ \E amount \in Amounts :
       \/ DepositInsurance(amount)
       \/ FundKeeperReserve(amount)
       \/ WithdrawTreasury(amount)

Next == ClearingStep \/ LiquidationStep \/ SettlementStep \/ SurroundingsStep

Spec == Init /\ [][Next]_vars

\* Keepers try every permissionless settlement call again and again, and
\* time passes; nobody is obliged to trade, to liquidate or to unpause.
Fairness ==
  /\ WF_vars(Tick)
  /\ \A g \in Groups :
       /\ WF_vars(\E price \in Prices \ {0} : FinalizeGroup(g, price))
       /\ WF_vars(ComputeRecoveryRatio(g))
       /\ \A a \in Accounts : WF_vars(SettleAccountGroup(a, g))

FairSpec == Spec /\ Fairness

-----------------------------------------------------------------------------
(* Type invariant *)

AccountingType ==
  [finalized : BOOLEAN, stalledFlagged : BOOLEAN, price : Nat,
   finalizedAt : Nat, wrapperClaimN : Nat, netCreditN : Nat, collected : Nat,
   unpaid : Nat, insurance : Nat, pool : Nat, unclaimedCredits : Int,
   ratioSet : BOOLEAN, ratio : Nat]

TypeOK ==
  /\ now \in Nat
  /\ spot \in [Underlyings -> Prices]
  /\ publishTime \in [Underlyings -> Nat]
  /\ surface \in [Underlyings -> SurfaceStatuses]
  /\ doubtful \subseteq Underlyings /\ emergency \subseteq Underlyings
  /\ paused \subseteq PausableBits
  /\ closeOnly \subseteq Underlyings
  /\ cash \in [Accounts -> Nat]
  /\ balances \in [Accounts -> [Series -> Int]]
  /\ supply \in [Series -> Nat]
  /\ custody \in Int
  /\ insurance \in Nat
  /\ keeperReserve \in Nat /\ treasury \in Nat
  /\ groups \in [Groups -> AccountingType]
  /\ creditN \in [Accounts -> [Groups -> Nat]]
  /\ auctions \in [Accounts -> [Underlyings -> Nat]]

-----------------------------------------------------------------------------
(* Safety *)

\* Until its group is finalized, every wrapper and every internal long of a
\* series is matched by a short, whatever mints, wraps, closes and
\* liquidations moved them (INV-1).
WrapperBacking ==
  \A s \in Series :
    ~Finalized(s) => LongsOf(balances, s) + supply[s] = ShortsOf(balances, s)

\* The tokens OptionClearing holds are exactly the account cash and the group
\* pools it owes (INV-7), across fees, cover, penalties, payouts and sweeps.
CustodySolvent ==
  custody = Total(Accounts, cash)
              + Total(Groups, [g \in Groups |-> groups[g].pool])

\* When the last account of a group has settled, what the debtors owed covers
\* what the wrappers and the creditors claim (INV-47, INV-49).
DebtsCoverClaims ==
  \A g \in Groups :
    groups[g].finalized /\ Participants(balances, g) = {} =>
      (groups[g].collected + groups[g].unpaid) * Denom >= GrossClaimN(g)

\* A group whose debtors all paid recovers in full (INV-30).
PaidInFull ==
  \A g \in Groups :
    groups[g].ratioSet /\ groups[g].unpaid = 0 => groups[g].ratio = Wad

\* The books of the protocol balance: positions series by series, tokens in all.
BooksBalance == WrapperBacking /\ CustodySolvent

\* Once the ratio is set, the pool is enough for every credit and wrapper not
\* yet paid, in whatever order and pieces they come (INV-31).
OutstandingN(g) ==
  Total(Accounts, [a \in Accounts |-> creditN[a][g]])
    + WrapperClaim(g, groups[g].price)

PoolCoversClaims ==
  \A g \in Groups :
    groups[g].ratioSet =>
      groups[g].pool * Denom * Wad >= groups[g].ratio * OutstandingN(g)

\* The counter that gates the dust sweep counts the unclaimed credits.
UnclaimedExact ==
  \A g \in Groups :
    groups[g].unclaimedCredits = Cardinality({a \in Accounts : creditN[a][g] > 0})

\* What a group collects, and how much of it: claims are counted, matched by
\* debts, and paid in full where the debts were.
ClaimsCovered == UnclaimedExact /\ DebtsCoverClaims /\ PaidInFull

-----------------------------------------------------------------------------
(* Action properties *)

\* A settled group stays settled: no mint, unwrap, close or liquidation puts a
\* position back into a finalized group (INV-27, INV-28).
StaysSettled ==
  \A a \in Accounts, g \in Groups :
    groups[g].finalized /\ Held(balances, a) \cap SeriesIn(g) = {}
      => Held(balances', a) \cap SeriesIn(g) = {}

\* After finalization the wrapper supply only falls, and only by redemptions
\* at a recovery ratio that is already fixed (INV-33).
SupplyOnlyRedeemed ==
  \A s \in Series :
    Finalized(s) /\ supply'[s] # supply[s] =>
      supply'[s] < supply[s] /\ groups[Info[s].group].ratioSet

\* The price, the claims and the ratio are written once (INV-26, INV-29).
WrittenOnce ==
  \A g \in Groups :
    /\ groups[g].finalized =>
         /\ groups'[g].finalized
         /\ groups'[g].price = groups[g].price
         /\ groups'[g].wrapperClaimN = groups[g].wrapperClaimN
    /\ groups[g].ratioSet =>
         /\ groups'[g].ratioSet
         /\ groups'[g].ratio = groups[g].ratio
         /\ groups'[g].netCreditN = groups[g].netCreditN

\* What settlement has fixed no transaction moves again.
SettledForGood == [][StaysSettled /\ SupplyOnlyRedeemed /\ WrittenOnce]_vars

\* Unwrapping a long and closing a short skip the health check because more
\* of a series cannot lower an account's health: where balances only grow and
\* no cash moves, neither equity - IM nor equity - MM falls
\* (OptionClearing.unwrapLong, closeShortWithWrapper, closeShortWithInternalLong).
InitialHealth(c, b, a) == Equity(c, b, a) - InitialMargin(b, a)

UncheckedNeverHurts ==
  [][\A a \in Accounts :
       /\ balances'[a] # balances[a]
       /\ \A s \in Series : balances'[a][s] >= balances[a][s]
       /\ UNCHANGED <<cash, groups>>
       => /\ InitialHealth(cash', balances', a) >= InitialHealth(cash, balances, a)
          /\ Health(cash', balances', a) >= Health(cash, balances, a)]_vars

\* When positions trade, or custody and insurance both move, tokens only
\* change hands inside the protocol: the fee split, penalties, cover and swept
\* dust lose nothing (INV-9, INV-25).
TokensConserved ==
  [][custody' # custody /\ (insurance' # insurance \/ balances' # balances)
       => TokensHeld' = TokensHeld]_vars

\* Moving positions between two accounts, in a slice or a close, is zero-sum
\* between them and insurance: no third account pays, and netting the moved
\* legs against the receiver's creates no value (INV-24).
TransfersZeroSum ==
  [][\A a, l \in Accounts :
       a # l /\ balances'[a] # balances[a] /\ balances'[l] # balances[l] =>
         Equity(cash', balances', a) + Equity(cash', balances', l)
             + insurance' * Denom
           = Equity(cash, balances, a) + Equity(cash, balances, l)
               + insurance * Denom]_vars

\* Open interest in a series grows only while its market is open: a fresh spot, a
\* fresh surface of enough confidence, no emergency, no close-only flag, and seeded
\* funds (INV-12).  No slice, close or unwrap ever adds to it (INV-24).
RiskGrowsOnlyWhenOpen ==
  [][\A s \in Series :
       ShortsOf(balances', s) > ShortsOf(balances, s) =>
         /\ Unexpired(s)
         /\ spot[Info[s].underlying] # 0
         /\ surface[Info[s].underlying] = "FRESH"
         /\ Info[s].underlying \notin doubtful \cup emergency \cup closeOnly
         /\ ReservesHealthy]_vars

\* Whatever a transaction does, it lowers an account's initial health only if
\* the account stays covered, or was below the liquidation target (INV-11).
HealthFallsOnlyToHealthy ==
  [][UNCHANGED <<marketVars, groups>> =>
       \A a \in Accounts :
         InitialHealth(cash', balances', a) < InitialHealth(cash, balances, a) =>
           \/ Covers(Equity(cash', balances', a), InitialMargin(balances', a))
           \/ ~Covers(Equity(cash, balances, a), Target(InitialMargin(balances, a)))]_vars

\* A slice improves the account's maintenance health by what the sold margin is
\* worth after the largest bonus and the penalty, up to rounding: less than one
\* native unit each for discount and penalty (INV-22).
SlicesImproveHealth ==
  [][\A a, l \in Accounts, u \in Underlyings, bps \in SliceSizes :
       LiquidateSlice(a, u, l, bps) =>
         Bps * (Health(cash', balances', a) - Health(cash, balances, a)
                  + 2 * Denom)
           >= (MaintenanceMargin(balances, a) - MaintenanceMargin(balances', a))
                * (Bps - MaxBonusBps - LiquidationPenaltyBps)]_vars

\* A documented promise the code does not keep: "Healthy and close-only
\* accounts can never be liquidated" (docs/LIQUIDATION.md:14).  liquidateSlice
\* asks for an active auction and equity below the target, not below MM.
OnlyUnhealthyLiquidated ==
  [][\A a, l \in Accounts, u \in Underlyings, bps \in SliceSizes :
       LiquidateSlice(a, u, l, bps) =>
         ~Covers(Equity(cash, balances, a), MaintenanceMargin(balances, a))]_vars

-----------------------------------------------------------------------------
(* Refinement *)

StageOf(g) ==
  IF groups[g].ratioSet THEN "REDEEMABLE"
  ELSE IF groups[g].finalized THEN "FINALIZED" ELSE "OPEN"

Lifecycle ==
  INSTANCE GroupLifecycle WITH
    ExpiryOf <- [g \in Groups |-> GroupExpiry(g)],
    now      <- now,
    stage    <- [g \in Groups |-> StageOf(g)],
    members  <- [g \in Groups |-> Participants(balances, g)],
    price    <- [g \in Groups |-> groups[g].price]

\* Whatever else a transaction does, each group goes its way from open to
\* finalized to redeemable, one group and one account at a time, and a finalized
\* group takes nobody in: all that the settlement keepers rely on.
ImplementsLifecycle == Lifecycle!LifecycleSpec

-----------------------------------------------------------------------------
(* Liveness *)

\* Every expired group becomes redeemable (LIV: settlement cannot be blocked
\* by an account, a debt, or an empty keeper reserve).
SettlementCompletes ==
  \A g \in Groups : now >= GroupExpiry(g) ~> groups[g].ratioSet

=============================================================================
