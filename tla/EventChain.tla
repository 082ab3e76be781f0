----------------------------- MODULE EventChain -----------------------------
(***************************************************************************)
(* The chain as the off-chain services see it: blocks of logs.  A          *)
(* transaction writes the contracts' state and emits its logs in the order *)
(* of the code; what the services rebuild from the logs is compared with   *)
(* the state the block left.  The amounts are the smallest that tell the   *)
(* writes apart; margins, prices and rounding are modelled elsewhere.      *)
(***************************************************************************)
EXTENDS Integers, Sequences, FiniteSets, SequencesExt

CONSTANTS
  Accounts, Series, Holders,   \* one settlement group lists all the series
  Orders,                      \* orders on the order book of one series
  MaxBlocks, MaxForks          \* bounds: length of the chain, dropped blocks

VARIABLES
  blocks,    \* sequence of [id, logs, world]
  mined      \* blocks ever mined: the next block's id

chainVars == <<blocks, mined>>

Zero == "zero"     \* the zero address of a mint or a burn

\* Nobody holds a wrapper at the zero address (ERC-20: a mint comes from it, a burn goes to it).
ASSUME ChainAssumption ==
  /\ IsFiniteSet(Accounts) /\ IsFiniteSet(Series) /\ IsFiniteSet(Holders)
  /\ Zero \notin Holders

FreshAuction == [active |-> FALSE, slices |-> 0, wraps |-> 0]
FreshGroup == [parts |-> 0, final |-> FALSE, atFinal |-> 0, ratio |-> FALSE, swept |-> FALSE]
FreshFund == [deposited |-> 0, fees |-> 0, paid |-> 0]

Genesis == [
  opened |-> {}, cash |-> [a \in Accounts |-> 0], listed |-> {},
  bal |-> [a \in Accounts |-> [s \in Series |-> 0]],
  held |-> [h \in Holders |-> [s \in Series |-> 0]],
  group |-> FreshGroup, auction |-> [a \in Accounts |-> FreshAuction], fund |-> FreshFund,
  market |-> "none", size |-> [o \in Orders |-> 0], left |-> [o \in Orders |-> 0],
  orders |-> [o \in Orders |-> "none"],
  approved |-> FALSE, enabled |-> FALSE, closeOnly |-> FALSE, seq |-> 0, nodes |-> 0,
  below |-> {} ]

Tip == Len(blocks)
WorldAt(n) == IF n = 0 THEN Genesis ELSE blocks[n].world
Now == WorldAt(Tip)

\* What a node answers to getLogs.
LogsIn(from, to) == FoldLeft(LAMBDA logs, n : logs \o blocks[n].logs, <<>>,
                             [i \in 1..(to - from + 1) |-> from + i - 1])

-----------------------------------------------------------------------------
(* Writes of a transaction: each takes and returns [world, logs].          *)

Start == [world |-> Now, logs |-> <<>>]

Emit(d, log) == [d EXCEPT !.logs = Append(@, log)]

AddCash(d, a, x) == LET cash == d.world.cash[a] + x IN
  Emit([d EXCEPT !.world.cash[a] = cash], [ev |-> "CashUpdated", acct |-> a, cash |-> cash])

InGroup(w, a) == \E s \in Series : w.bal[a][s] # 0

\* applyDelta: the participant counter is announced before the balance.
ApplyDelta(d, a, s, delta) ==
  LET new == [d.world EXCEPT !.bal[a][s] = @ + delta]
      n == Cardinality({b \in Accounts : InGroup(new, b)})
      d1 == [d EXCEPT !.world = [new EXCEPT !.group.parts = n]]
      d2 == IF InGroup(new, a) # InGroup(d.world, a)
            THEN Emit(d1, [ev |-> "ParticipantsUpdated", parts |-> n]) ELSE d1
  IN Emit(d2, [ev |-> "BalanceUpdated", acct |-> a, series |-> s, balance |-> new.bal[a][s]])

\* A wrapper's Transfer: a mint from, a burn to the zero address.
MoveWrapper(d, s, from, to) ==
  LET moved(h) == d.world.held[h][s] + (IF h = to THEN 1 ELSE 0) - (IF h = from THEN 1 ELSE 0)
      held == [h \in Holders |-> [d.world.held[h] EXCEPT ![s] = moved(h)]]
  IN Emit([d EXCEPT !.world.held = held], [ev |-> "Transfer", series |-> s, from |-> from, to |-> to])

DepositInsurance(d, x) == Emit([d EXCEPT !.world.fund.deposited = @ + x],
                               [ev |-> "InsuranceDeposited", amount |-> x])
Cover(d, x) == Emit([d EXCEPT !.world.fund.paid = @ + x], [ev |-> "InsurancePaid", amount |-> x])

\* The seller fee, of which one unit goes to the insurance fund.
SellerFee(d, a) ==
  LET d1 == Emit(AddCash(d, a, -1), [ev |-> "SellerFeeCharged", acct |-> a])
      d2 == DepositInsurance(d1, 1)
  IN Emit([d2 EXCEPT !.world.fund.fees = @ + 1], [ev |-> "FeeSplit", toInsurance |-> 1])

-----------------------------------------------------------------------------
(* Blocks.  A block holds one transaction; the head block may be replaced. *)

Mine(d) == /\ Tip < MaxBlocks
           /\ blocks' = Append(blocks, [id |-> mined, logs |-> d.logs, world |-> d.world])
           /\ mined' = mined + 1

Fork == /\ Tip > 1 /\ mined - Tip < MaxForks
        /\ blocks' = SubSeq(blocks, 1, Tip - 1)
        /\ UNCHANGED mined

Live == ~Now.group.final

CreateAccount == \E a \in Accounts \ Now.opened :
  Mine(Emit([Start EXCEPT !.world.opened = @ \cup {a}], [ev |-> "SubAccountCreated", acct |-> a]))

Deposit == \E a \in Now.opened : Now.cash[a] < 2 /\ Mine(AddCash(Start, a, 1))

CreateSeries == \E s \in Series \ Now.listed :
  LET d == IF Now.listed = {} THEN Emit(Start, [ev |-> "GroupCreated"]) ELSE Start
  IN Mine(Emit([d EXCEPT !.world.listed = @ \cup {s}], [ev |-> "SeriesCreated", series |-> s]))

Mint == \E a \in Now.opened, s \in Now.listed, h \in Holders :
  /\ Live /\ Now.cash[a] > 0 /\ Now.bal[a][s] > -1
  /\ Mine(Emit(MoveWrapper(SellerFee(ApplyDelta(Start, a, s, -1), a), s, Zero, h),
               [ev |-> "ExternalLongMinted", acct |-> a, series |-> s]))

TransferWrapper == \E s \in Series, h, g \in Holders :
  h # g /\ Now.held[h][s] > 0 /\ Mine(MoveWrapper(Start, s, h, g))

\* Burning a wrapper raises the balance, of a long or of a short.
UnwrapLong == \E a \in Now.opened, s \in Series, h \in Holders :
  Live /\ Now.held[h][s] > 0 /\ Mine(ApplyDelta(MoveWrapper(Start, s, h, Zero), a, s, 1))

WrapLong == \E a \in Now.opened, s \in Series, h \in Holders :
  Live /\ Now.bal[a][s] > 0 /\ Mine(MoveWrapper(ApplyDelta(Start, a, s, -1), s, Zero, h))

CloseShortWithInternalLong == \E a, b \in Now.opened, s \in Series :
  /\ Live /\ Now.bal[a][s] > 0 /\ Now.bal[b][s] < 0
  /\ Mine(ApplyDelta(ApplyDelta(Start, a, s, -1), b, s, 1))

-----------------------------------------------------------------------------
(* Settlement: every short owes one unit, of which its cash pays a part.   *)

FinalizeGroup ==
  /\ Live /\ Now.listed # {}
  /\ Mine(Emit([Start EXCEPT !.world.group.final = TRUE, !.world.group.atFinal = Now.group.parts],
               [ev |-> "GroupFinalized", parts |-> Now.group.parts]))

Zeroed(d, a) == FoldSet(LAMBDA s, e : IF e.world.bal[a][s] = 0 THEN e
                                      ELSE ApplyDelta(e, a, s, -e.world.bal[a][s]), d, Series)

SettleAccount == \E a \in Accounts :
  /\ ~Live /\ InGroup(Now, a)
  /\ LET owes == \E s \in Series : Now.bal[a][s] < 0
         d == Zeroed(Start, a)
     IN Mine(Emit(IF owes /\ Now.cash[a] > 0 THEN AddCash(d, a, -1) ELSE d,
                  [ev |-> "AccountSettled", acct |-> a]))

ComputeRecoveryRatio ==
  /\ ~Live /\ Now.group.parts = 0 /\ ~Now.group.ratio
  /\ \E d \in {Start} \cup (IF Now.fund.deposited > Now.fund.paid THEN {Cover(Start, 1)} ELSE {}) :
       Mine(Emit([d EXCEPT !.world.group.ratio = TRUE], [ev |-> "RecoveryRatioSet"]))

RedeemWrapper == \E s \in Series, h \in Holders :
  /\ Now.group.ratio /\ Now.held[h][s] > 0
  /\ Mine(Emit(MoveWrapper(Start, s, h, Zero), [ev |-> "WrapperRedeemed", series |-> s]))

SweepDust ==
  /\ Now.group.ratio /\ ~Now.group.swept /\ \A h \in Holders, s \in Series : Now.held[h][s] = 0
  /\ LET d == DepositInsurance(Start, 1)
     IN Mine(Emit([d EXCEPT !.world.group.swept = TRUE], [ev |-> "DustSwept"]))

-----------------------------------------------------------------------------
(* Liquidation.  The margin of an account may fall below at any time.      *)

Auctioned(d, a, f) == [d EXCEPT !.world.auction[a] = f]

StartAuction == \E a \in Accounts :
  /\ Live /\ InGroup(Now, a) /\ ~Now.auction[a].active
  /\ Mine(Emit(Auctioned(Start, a, [FreshAuction EXCEPT !.active = TRUE]),
               [ev |-> "AuctionStarted", acct |-> a]))

\* A slice moves one unit to the liquidator, ends an empty auction, and may
\* leave a bad debt that insurance pays.
LiquidateSlice == \E a, b \in Now.opened, s \in Series : \E badDebt \in BOOLEAN :
  /\ Live /\ a # b /\ Now.auction[a].active /\ Now.bal[a][s] < 0
  /\ badDebt => Now.fund.deposited > Now.fund.paid
  /\ LET d1 == ApplyDelta(ApplyDelta(Start, a, s, 1), b, s, -1)
         d2 == IF badDebt THEN Emit(AddCash(Cover(d1, 1), b, 1), [ev |-> "BadDebtCovered", acct |-> a])
               ELSE d1
         d3 == Emit([d2 EXCEPT !.world.auction[a].slices = @ + 1], [ev |-> "SliceLiquidated", acct |-> a])
     IN Mine(IF InGroup(d3.world, a) THEN d3
             ELSE Emit([d3 EXCEPT !.world.auction[a].active = FALSE], [ev |-> "AuctionEnded", acct |-> a]))

\* With wrappers a liquidation needs no auction, and ends none.
LiquidateWithWrapper == \E a \in Now.opened, s \in Series, h \in Holders :
  /\ Live /\ Now.bal[a][s] < 0 /\ Now.held[h][s] > 0
  /\ LET d == ApplyDelta(MoveWrapper(Start, s, h, Zero), a, s, 1)
     IN Mine(Emit([d EXCEPT !.world.auction[a].wraps = IF Now.auction[a].active THEN @ + 1 ELSE @],
                  [ev |-> "WrapperLiquidated", acct |-> a, series |-> s]))

EndAuction == \E a \in Accounts :
  /\ Now.auction[a].active
  /\ Mine(Emit([Start EXCEPT !.world.auction[a].active = FALSE], [ev |-> "AuctionEnded", acct |-> a]))

-----------------------------------------------------------------------------
(* Governance of the product, the surface, and the order book of a series. *)

ApproveProduct == Mine(Emit(Emit(
  [Start EXCEPT !.world.approved = TRUE, !.world.enabled = TRUE],
  [ev |-> "ProductApproved"]), [ev |-> "ProductEnabled", enabled |-> TRUE]))

SetProductEnabled == \E b \in BOOLEAN :
  Now.approved /\ Mine(Emit([Start EXCEPT !.world.enabled = b], [ev |-> "ProductEnabled", enabled |-> b]))

\* Flags are set on approved products only, as the listing scripts do.
SetProductCloseOnly == \E b \in BOOLEAN :
  /\ Now.approved
  /\ Mine(Emit([Start EXCEPT !.world.closeOnly = b], [ev |-> "ProductCloseOnlySet", closeOnly |-> b]))

SubmitReport ==
  /\ Now.approved /\ Now.seq < 2
  /\ Mine(Emit([Start EXCEPT !.world.seq = @ + 1, !.world.nodes = 0],
               [ev |-> "SurfaceAccepted", seq |-> Now.seq + 1]))

ProveNode ==
  /\ Now.seq > 0 /\ Now.nodes < 2
  /\ Mine(Emit([Start EXCEPT !.world.nodes = @ + 1], [ev |-> "NodeProven", seq |-> Now.seq]))

RegisterMarket ==
  /\ Now.market = "none" /\ Mine(Emit([Start EXCEPT !.world.market = "active"], [ev |-> "MarketRegistered"]))

SetMarketStatus == \E st \in {"active", "paused"} :
  /\ Now.market # "none"
  /\ Mine(Emit([Start EXCEPT !.world.market = st], [ev |-> "MarketStatusSet", status |-> st]))

PlaceOrder == \E o \in Orders :
  /\ Now.orders[o] = "none" /\ Now.market # "none"
  /\ Mine(Emit([Start EXCEPT !.world.orders[o] = "OPEN", !.world.size[o] = 2, !.world.left[o] = 2],
               [ev |-> "OrderCreated", order |-> o, size |-> 2]))

FillOrder == \E o \in Orders : \E n \in 1..Now.left[o] :
  /\ Now.orders[o] \in {"OPEN", "PARTIAL"}
  /\ Mine(Emit([Start EXCEPT !.world.orders[o] = IF n = Now.left[o] THEN "FILLED" ELSE "PARTIAL",
                             !.world.left[o] = @ - n],
               [ev |-> "Trade", order |-> o, left |-> Now.left[o] - n]))

CancelOrders == \E os \in SUBSET {o \in Orders : Now.orders[o] \in {"OPEN", "PARTIAL"}} :
  /\ os # {}
  /\ Mine(Emit([Start EXCEPT !.world.orders = [o \in Orders |-> IF o \in os THEN "CANCELLED" ELSE @[o]],
                             !.world.left = [o \in Orders |-> IF o \in os THEN 0 ELSE @[o]]],
               [ev |-> "OrdersCanceled", orders |-> os]))

AnyTransaction ==
  \/ CreateAccount \/ Deposit \/ CreateSeries \/ Mint \/ TransferWrapper \/ UnwrapLong \/ WrapLong
  \/ CloseShortWithInternalLong
  \/ FinalizeGroup \/ SettleAccount \/ ComputeRecoveryRatio \/ RedeemWrapper \/ SweepDust
  \/ StartAuction \/ LiquidateSlice \/ LiquidateWithWrapper \/ EndAuction
  \/ ApproveProduct \/ SetProductEnabled \/ SetProductCloseOnly \/ SubmitReport \/ ProveNode
  \/ RegisterMarket \/ SetMarketStatus \/ PlaceOrder \/ FillOrder \/ CancelOrders

\* A transaction of the protocol, or the last block dropped.
ChainNext == AnyTransaction \/ Fork

=============================================================================
