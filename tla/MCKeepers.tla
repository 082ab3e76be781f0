------------------------------- MODULE MCKeepers -------------------------------
(***************************************************************************)
(* Instances of the keepers: the settle loop and the liquidation bot share  *)
(* a process but neither state nor contracts, so each is explored alone.   *)
(***************************************************************************)
EXTENDS SettlementKeepers, LiquidationBot, TLC

CONSTANTS near, far, alice, bob, k1, k2, btc, eth

MCExpiry == near :> 1 @@ far :> 1
MCCatalog == <<near, far>>
MCOrder == <<alice, bob>>
MCHolders == near :> {alice, bob} @@ far :> {alice}

MCDebtors == <<alice>>
MCBuckets == <<btc, eth>>
MCOffers == {-200, -100, 100}

-----------------------------------------------------------------------------
(* Settling: two keepers race for a group of two accounts, or for a group of *)
(* one with a fault, or one keeper serves both.                              *)

TwoKeepers ==
  /\ running = {k1, k2}
  /\ \/ listed = {near} /\ faults = MaxFaults
     \/ listed = {far} /\ faults = 0
  /\ \A g \in Groups : proof[g] = "REJECTED"

OneKeeper == running = {k1} /\ listed = {near, far} /\ faults = MaxFaults

NothingToLiquidate ==
  /\ \A p \in Positions : quantity[p] = 0 /\ offer[p] = 100
  /\ \A a \in {alice} : health[a] = "AT_TARGET"
  /\ moves = MaxMoves /\ botFaults = MaxBotFaults

-----------------------------------------------------------------------------
(* Liquidating: a bucket of two slices and one of one, and either the market  *)
(* moves or a pass fails.                                                     *)

TwoBuckets ==
  /\ quantity = (<<alice, btc>> :> 2 @@ <<alice, eth>> :> 1)
  /\ offer[<<alice, eth>>] = 100
  /\ {moves, botFaults} = {0, 1}

NothingToSettle ==
  /\ running = {} /\ listed = {} /\ faults = MaxFaults
  /\ \A g \in Groups : proof[g] = "REJECTED"

-----------------------------------------------------------------------------

KeepersInit ==
  /\ SettleInit /\ BotInit
  /\ \/ (TwoKeepers \/ OneKeeper) /\ NothingToLiquidate
     \/ NothingToSettle /\ TwoBuckets

KeepersNext ==
  \/ SettleNext /\ UNCHANGED liquidateVars
  \/ LiquidateNext /\ UNCHANGED settleVars

KeepersSpec ==
  /\ KeepersInit /\ [][KeepersNext]_<<settleVars, liquidateVars>>
  /\ SettleFairness /\ ProofsAppear /\ BotFairness

\* Without the proofs that appear in time.
StarvingSpec ==
  /\ KeepersInit /\ OneKeeper /\ [][KeepersNext]_<<settleVars, liquidateVars>>
  /\ SettleFairness

=============================================================================
