-------------------------- MODULE SettlementWindow --------------------------
(***************************************************************************)
(* SettlementWindow.sol: a group of series from expiry to payout, with the *)
(* keeper rewards of FeeController.sol and the cover of InsuranceFund.sol. *)
(* Debts round up; credits, the recovery ratio and payouts round down.     *)
(***************************************************************************)
EXTENDS Protocol

CONSTANTS
  FinalizeDelay,   \* from expiry to the first settlement price (SettlementOracle)
  StalledDelay,    \* from expiry to stalledAfter
  MaxUnitPayoff,   \* MAX_UNIT_PAYOFF
  FinalizeReward, SettleReward,
  Hour, EscalationBps, MaxMultipleBps  \* growth of the settle reward

ASSUME SettlementAssumption ==
  /\ FinalizeDelay \in Nat
  /\ StalledDelay \in Nat
  /\ MaxUnitPayoff \in Nat \ {0}
  /\ FinalizeReward \in Nat /\ SettleReward \in Nat
  /\ Hour \in Nat \ {0} /\ EscalationBps \in Nat /\ MaxMultipleBps \in Nat

NoAccounting ==
  [finalized |-> FALSE, stalledFlagged |-> FALSE, price |-> 0,
   finalizedAt |-> 0, wrapperClaimN |-> 0, netCreditN |-> 0, collected |-> 0,
   unpaid |-> 0, insurance |-> 0, pool |-> 0, unclaimedCredits |-> 0,
   ratioSet |-> FALSE, ratio |-> 0]

\* Mutant: a reward the reserve cannot pay in full reverts the call.
PayReward_InFull(reward) ==
  reward <= keeperReserve /\ keeperReserve' = keeperReserve - reward

PayReward(reward) == keeperReserve' = keeperReserve - AtMost(reward, keeperReserve)

-----------------------------------------------------------------------------
(* Finalization *)

\* The payoff price is capped for the largest contract size of the group.
CappedPrice(g, price) ==
  LET Allowed == {price} \cup {MaxUnitPayoff \div Info[s].size : s \in SeriesIn(g)}
  IN CHOOSE p \in Allowed : \A q \in Allowed : p <= q

WrapperClaim(g, price) ==
  Total(SeriesIn(g), [s \in Series |-> supply[s] * UnitPayoff(s, price)])

\* Mutant: a finalized group can be finalized again.
Finalizable_Again(g) == now >= GroupExpiry(g) + FinalizeDelay

Finalizable(g) == ~groups[g].finalized /\ now >= GroupExpiry(g) + FinalizeDelay

\* The oracle verified a price; it is written once.
FinalizeGroup(g, observed) ==
  LET price == CappedPrice(g, observed)
  IN /\ "FINALIZE" \notin paused
     /\ Finalizable(g)
     /\ groups' = [groups EXCEPT ![g].finalized = TRUE,
                                 ![g].price = price,
                                 ![g].finalizedAt = now,
                                 ![g].wrapperClaimN = WrapperClaim(g, price)]
     /\ PayReward(FinalizeReward)
     /\ UNCHANGED <<marketVars, controlVars, cash, balances, supply, custody,
                    insurance, treasury, creditN, auctions>>

FlagOracleStalled(g) ==
  /\ ~groups[g].finalized
  /\ now >= GroupExpiry(g) + StalledDelay
  /\ groups' = [groups EXCEPT ![g].stalledFlagged = TRUE]
  /\ UNCHANGED <<marketVars, controlVars, cash, balances, supply, custody,
                 insurance, feeVars, creditN, auctions>>

-----------------------------------------------------------------------------
(* Settling the accounts *)

\* The account's net payoff in the group, at the settlement price.
Net(a, g) ==
  SignedTotal(SeriesIn(g),
    [s \in Series |-> balances[a][s] * UnitPayoff(s, groups[g].price)])

\* Mutant: debts round down like credits.
DebtOf_RoundedDown(net) == Neg(net) \div Denom

\* What an account with this net owes, in native units.
DebtOf(net) == DivUp(Neg(net), Denom)

SettleRewardAt(finalizedAt) ==
  LET multiple == AtMost(Bps + EscalationBps * ((now - finalizedAt) \div Hour),
                         MaxMultipleBps)
  IN (SettleReward * multiple) \div Bps

\* One account's positions in the group become a collected debt or a credit.
SettleAccountGroup(a, g) ==
  LET net       == Net(a, g)
      debt      == DebtOf(net)
      collected == AtMost(debt, cash[a])
  IN /\ "SETTLE" \notin paused
     /\ groups[g].finalized
     /\ Held(balances, a) \cap SeriesIn(g) # {}
     /\ balances' = [balances EXCEPT
          ![a] = [s \in Series |-> IF s \in SeriesIn(g) THEN 0 ELSE @[s]]]
     /\ cash' = Debit(cash, a, collected)
     /\ creditN' = [creditN EXCEPT ![a][g] = IF net > 0 THEN net ELSE @]
     /\ groups' = [groups EXCEPT
          ![g].collected = @ + collected,
          ![g].pool = @ + collected,
          ![g].unpaid = @ + (debt - collected),
          ![g].netCreditN = @ + Pos(net),
          ![g].unclaimedCredits = IF net > 0 THEN @ + 1 ELSE @]
     /\ PayReward(SettleRewardAt(groups[g].finalizedAt))
     /\ UNCHANGED <<marketVars, controlVars, supply, custody, insurance,
                    treasury, auctions>>

-----------------------------------------------------------------------------
(* The recovery ratio *)

\* Mutant: the fund pays whatever it is asked for.
Covered_Unlimited(amount) == amount

\* InsuranceFund.cover: what a call for amount pays into OptionClearing.
Covered(amount) == AtMost(amount, insurance)

GrossClaimN(g) == groups[g].wrapperClaimN + groups[g].netCreditN

\* What insurance pays when the debts collected do not cover the claims.
CoverOf(g) == Covered(Pos(DivUp(GrossClaimN(g), Denom) - groups[g].collected))

RatioOf(g, recovered) ==
  IF GrossClaimN(g) = 0 THEN Wad
  ELSE AtMost(Wad, (recovered * Denom * Wad) \div GrossClaimN(g))

ComputeRecoveryRatio(g) ==
  /\ "SETTLE" \notin paused
  /\ groups[g].finalized
  /\ ~groups[g].ratioSet
  /\ Participants(balances, g) = {}
  /\ insurance' = insurance - CoverOf(g)
  /\ custody' = custody + CoverOf(g)
  /\ groups' = [groups EXCEPT
       ![g].insurance = CoverOf(g),
       ![g].pool = @ + CoverOf(g),
       ![g].ratioSet = TRUE,
       ![g].ratio = RatioOf(g, groups[g].collected + CoverOf(g))]
  /\ UNCHANGED <<marketVars, controlVars, cash, balances, supply, feeVars,
                 creditN, auctions>>

-----------------------------------------------------------------------------
(* Payouts *)

\* Mutant: payouts round up.
Payout_RoundedUp(g, claimN) == DivUp(claimN * groups[g].ratio, Denom * Wad)

Payout(g, claimN) == (claimN * groups[g].ratio) \div (Denom * Wad)

Redeemable(g) == "CLAIM_REDEEM" \notin paused /\ groups[g].ratioSet

ClaimSettlement(a, g) ==
  LET amount == Payout(g, creditN[a][g])
  IN /\ Redeemable(g)
     /\ creditN[a][g] # 0
     /\ amount <= groups[g].pool
     /\ creditN' = [creditN EXCEPT ![a][g] = 0]
     /\ groups' = [groups EXCEPT ![g].unclaimedCredits = @ - 1,
                                 ![g].pool = @ - amount]
     /\ cash' = Credit(cash, a, amount)
     /\ UNCHANGED <<marketVars, controlVars, balances, supply, custody,
                    insurance, feeVars, auctions>>

RedeemPayout(s, qty) ==
  LET g == Info[s].group IN Payout(g, qty * UnitPayoff(s, groups[g].price))

RedeemWrapper(s, qty) ==
  LET g == Info[s].group
      payout == RedeemPayout(s, qty)
  IN /\ Redeemable(g)
     /\ qty <= supply[s]
     /\ payout <= groups[g].pool
     /\ BurnWrapper(s, qty)
     /\ groups' = [groups EXCEPT ![g].pool = @ - payout]
     /\ custody' = custody - payout
     /\ UNCHANGED <<marketVars, controlVars, cash, balances, insurance, feeVars,
                    creditN, auctions>>

\* Mutant: the swept pool stays on the books.
SweepDust_PoolKept(g) ==
  /\ Redeemable(g)
  /\ groups[g].unclaimedCredits = 0
  /\ \A s \in SeriesIn(g) : supply[s] = 0
  /\ custody' = custody - groups[g].pool
  /\ insurance' = insurance + groups[g].pool
  /\ UNCHANGED <<marketVars, controlVars, cash, balances, supply, feeVars,
                 settlementVars, auctions>>

\* Once every credit and wrapper is paid, the rest goes to insurance.
SweepDust(g) ==
  /\ Redeemable(g)
  /\ groups[g].unclaimedCredits = 0
  /\ \A s \in SeriesIn(g) : supply[s] = 0
  /\ groups' = [groups EXCEPT ![g].pool = 0]
  /\ custody' = custody - groups[g].pool
  /\ insurance' = insurance + groups[g].pool
  /\ UNCHANGED <<marketVars, controlVars, cash, balances, supply, feeVars,
                 creditN, auctions>>

SettlementStep ==
  \E g \in Groups :
    \/ \E price \in Prices \ {0} : FinalizeGroup(g, price)
    \/ FlagOracleStalled(g)
    \/ \E a \in Accounts : SettleAccountGroup(a, g) \/ ClaimSettlement(a, g)
    \/ ComputeRecoveryRatio(g)
    \/ \E s \in SeriesIn(g) : \E qty \in 1..supply[s] : RedeemWrapper(s, qty)
    \/ SweepDust(g)

=============================================================================
