-------------------------- MODULE LiquidationModule --------------------------
(***************************************************************************)
(* LiquidationModule.sol: Dutch-auction liquidation of one risk bucket of  *)
(* an account, and liquidation by burning wrappers.  Values come from the  *)
(* risk engine before and after the moves; amounts owed to the liquidator  *)
(* and the penalty round up, payments by the liquidator round down.        *)
(***************************************************************************)
EXTENDS Protocol

CONSTANTS
  StartBonusBps, MaxBonusBps, AuctionDuration,
  MinSliceBps, MaxSliceBps,
  TargetHealthBufferBps, LiquidationPenaltyBps,
  MaxInsurance,   \* maxInsurancePerLiquidation, native units
  SliceSizes      \* bound of the instance: the sliceBps callers may choose

ASSUME LiquidationAssumption ==
  /\ StartBonusBps \in Nat /\ MaxBonusBps \in Nat
  /\ LiquidationPenaltyBps \in Nat
  /\ StartBonusBps <= MaxBonusBps
  /\ MaxBonusBps + LiquidationPenaltyBps < Bps
  /\ AuctionDuration \in Nat \ {0}
  /\ MinSliceBps \in 1..MaxSliceBps /\ MaxSliceBps \in 1..Bps
  /\ TargetHealthBufferBps \in 0..Bps
  /\ MaxInsurance \in Nat
  /\ SliceSizes \subseteq 1..Bps

UnexpiredLegs(a, u) == {s \in InBucket(balances, a, u) : Unexpired(s)}

Target(margin) == DivUp(margin * (Bps + TargetHealthBufferBps), Bps)

Health(c, b, a) == Equity(c, b, a) - MaintenanceMargin(b, a)

\* The auction has run its course: bonus at the maximum, whole bucket for sale.
WholeBucket(start) == start # 0 /\ now - start >= AuctionDuration

Bonus(start) ==
  IF start = 0 THEN StartBonusBps
  ELSE IF WholeBucket(start) THEN MaxBonusBps
  ELSE StartBonusBps
         + ((MaxBonusBps - StartBonusBps) * (now - start)) \div AuctionDuration

StartAuction(a, u) ==
  /\ "LIQUIDATE" \notin paused
  /\ auctions[a][u] = 0
  /\ UnexpiredLegs(a, u) # {}
  /\ OraclesReadable(balances, a, Liquidation)
  /\ ~Covers(Equity(cash, balances, a), MaintenanceMargin(balances, a))
  /\ auctions' = [auctions EXCEPT ![a][u] = now]
  /\ UNCHANGED <<marketVars, controlVars, cash, balances, supply, custody,
                 insurance, feeVars, settlementVars>>

-----------------------------------------------------------------------------
(* What a liquidation moves *)

\* The cash flows for a given equity drop, margin drop, bonus and cash: the
\* liquidator is paid before the penalty, and insurance tops up a shortfall.
Flows(mark, sliceMM, bonus, available) ==
  LET discount    == DivUp(sliceMM * bonus, Bps)
      owed        == IF mark < 0 THEN DivUp(discount - mark, Denom) ELSE 0
      fromAccount == AtMost(owed, available)
      fromLiq     == IF mark < 0 THEN 0 ELSE Pos(mark - discount) \div Denom
      penalty     == DivUp(DivUp(sliceMM * LiquidationPenaltyBps, Bps), Denom)
  IN [fromAccount    |-> fromAccount,
      topUp          |-> AtMost(owed - fromAccount, AtMost(MaxInsurance, insurance)),
      fromLiquidator |-> fromLiq,
      penalty        |-> AtMost(penalty, available - fromAccount + fromLiq)]

\* Mutant: the insurance top-up never reaches the liquidator.
CashAfter_TopUpLost(a, l, f) ==
  [cash EXCEPT ![a] = @ - f.fromAccount + f.fromLiquidator - f.penalty,
               ![l] = @ + f.fromAccount - f.fromLiquidator]

CashAfter(a, l, f) ==
  [cash EXCEPT ![a] = @ - f.fromAccount + f.fromLiquidator - f.penalty,
               ![l] = @ + f.fromAccount - f.fromLiquidator + f.topUp]

\* Mutant: bonus and penalty are taken on all of the account's margin.
FlowsTo_WholeMargin(a, b, bonus) ==
  Flows(Equity(cash, balances, a) - Equity(cash, b, a),
        MaintenanceMargin(balances, a), bonus, cash[a])

\* The flows of a liquidation of a that leaves the balances b.
FlowsTo(a, b, bonus) ==
  Flows(Equity(cash, balances, a) - Equity(cash, b, a),
        MaintenanceMargin(balances, a) - MaintenanceMargin(b, a),
        bonus, cash[a])

\* What slices and wrapper liquidations of a by l have in common: the
\* maintenance margin drops, the health improves, and cash and balances move.
Liquidate(a, l, b, f) ==
  LET c == CashAfter(a, l, f)
  IN /\ "LIQUIDATE" \notin paused
     /\ a # l
     /\ OraclesReadable(balances, a, Liquidation)
     /\ LedgerAccepts(balances, b, a)
     /\ LedgerAccepts(balances, b, l)
     /\ MaintenanceMargin(b, a) < MaintenanceMargin(balances, a)
     /\ f.fromLiquidator <= cash[l]
     /\ Health(c, b, a) > Health(cash, balances, a)
     /\ cash' = c
     /\ balances' = b
     /\ insurance' = insurance - f.topUp + f.penalty
     /\ custody' = custody + f.topUp - f.penalty
     /\ UNCHANGED <<marketVars, controlVars, feeVars, settlementVars>>

\* The signed quantity of s that leaves a: its share, on the quantity grid.
SliceMove(a, s, sliceBps) ==
  LET share == (Pos(balances[a][s]) + Neg(balances[a][s])) * sliceBps
      moved == ((share \div Bps) \div MinQty) * MinQty
  IN IF balances[a][s] < 0 THEN -moved ELSE moved

Sliced(a, u, l, sliceBps) ==
  [x \in Accounts |-> [s \in Series |->
     LET move == IF s \in UnexpiredLegs(a, u) THEN SliceMove(a, s, sliceBps) ELSE 0
     IN CASE x = a -> balances[x][s] - move
          [] x = l -> balances[x][s] + move
          [] OTHER -> balances[x][s]]]

\* The auction ends by itself when nothing is left to move or a is healthy.
EndedBySlice(a, u, c, b) ==
  \/ \A s \in UnexpiredLegs(a, u) : b[a][s] = 0
  \/ Covers(Equity(c, b, a), Target(InitialMargin(b, a)))

LiquidateSlice(a, u, l, sliceBps) ==
  LET start == auctions[a][u]
      b     == Sliced(a, u, l, sliceBps)
      f     == FlowsTo(a, b, Bonus(start))
      c     == CashAfter(a, l, f)
  IN /\ start # 0
     /\ sliceBps >= MinSliceBps
     /\ sliceBps <= (IF WholeBucket(start) THEN Bps ELSE MaxSliceBps)
     /\ ~Covers(Equity(cash, balances, a), Target(InitialMargin(balances, a)))
     /\ Liquidate(a, l, b, f)
     /\ OraclesReadable(b, l, Liquidation)
     /\ Covers(Equity(c, b, l), InitialMargin(b, l))
     /\ auctions' = [auctions EXCEPT
                       ![a][u] = IF EndedBySlice(a, u, c, b) THEN 0 ELSE @]
     /\ UNCHANGED supply

\* The liquidator burns wrappers of a series the account is short of.
LiquidateWithWrapper(a, s, qty, l) ==
  LET b == Moved(balances, a, s, qty)
      f == FlowsTo(a, b, Bonus(auctions[a][Info[s].underlying]))
  IN /\ Unexpired(s)
     /\ balances[a][s] <= -qty
     /\ qty <= supply[s]
     /\ ~Covers(Equity(cash, balances, a), MaintenanceMargin(balances, a))
     /\ Liquidate(a, l, b, f)
     /\ BurnWrapper(s, qty)
     /\ UNCHANGED auctions

EndAuction(a, u) ==
  /\ auctions[a][u] # 0
  /\ \/ UnexpiredLegs(a, u) = {}
     \/ /\ OraclesReadable(balances, a, Liquidation)
        /\ Covers(Equity(cash, balances, a), Target(InitialMargin(balances, a)))
  /\ auctions' = [auctions EXCEPT ![a][u] = 0]
  /\ UNCHANGED <<marketVars, controlVars, cash, balances, supply, custody,
                 insurance, feeVars, settlementVars>>

LiquidationStep ==
  \/ \E a \in Accounts, u \in Underlyings : StartAuction(a, u) \/ EndAuction(a, u)
  \/ \E a, l \in Accounts, u \in Underlyings, bps \in SliceSizes :
       LiquidateSlice(a, u, l, bps)
  \/ \E a, l \in Accounts, s \in Series : \E qty \in 1..supply[s] :
       LiquidateWithWrapper(a, s, qty, l)

=============================================================================
