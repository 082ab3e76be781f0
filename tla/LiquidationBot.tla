---------------------------- MODULE LiquidationBot ----------------------------
(***************************************************************************)
(* keepers/src/liquidationBot.ts: one bot among other liquidators.  It     *)
(* reads an account's risk once, then works through its buckets: start an  *)
(* auction, preview a slice, take it while it pays, end what is healthy    *)
(* again.  Auctions, health and cash flows are those of LiquidationModule, *)
(* seen from outside: the market and rivals move them between any two of   *)
(* the bot's calls.                                                        *)
(***************************************************************************)
EXTENDS Integers, Sequences, SequencesExt

CONSTANTS
  Debtors, Buckets,    \* sequences: the order the bot goes through them
  Offers,              \* cash to the liquidator for a slice (negative: it pays)
  MaxQuantity,         \* slices in a bucket
  MaxAge,              \* an auction this old sells the whole bucket
  MinProfit, SlippageBps,
  MaxSlices,           \* slices of one bucket in one pass
  NoAuction, NoCall,
  MaxMoves, MaxBotFaults  \* bounds of the instance

ASSUME BotAssumption ==
  /\ MaxQuantity \in Nat /\ MaxAge \in Nat \ {0}
  /\ MinProfit \in 0..MaxAge /\ SlippageBps \in 0..10000
  /\ MaxSlices \in Nat \ {0}
  /\ Offers \subseteq Int
  /\ NoAuction \notin Nat
  /\ MaxMoves \in Nat /\ MaxBotFaults \in Nat

Positions == {<<Debtors[i], Buckets[j]>> : i \in DOMAIN Debtors, j \in DOMAIN Buckets}
Health == {"BELOW_MM", "BELOW_TARGET", "AT_TARGET"}

VARIABLES
  health,     \* of each account
  quantity,   \* slices left in each bucket of an account
  auction,    \* age of each auction; the discount of a slice grows with it
  offer,      \* cash for the next slice of each bucket
  moves,      \* of the market so far
  botFaults,
  botPc,
  accounts,   \* left in this pass, the current one first
  buckets,    \* left of the current account
  risk,       \* of the current account, as read when its turn came
  slices,     \* sent for the current bucket in this pass
  quoted,     \* cash of the last preview
  call        \* the transaction whose receipt the bot waits for

marketVars == <<health, quantity, auction, offer, moves>>
botVars == <<botPc, accounts, buckets, risk, slices, quoted, call>>
liquidateVars == <<marketVars, botFaults, botVars>>

BotInit ==
  /\ health \in [ToSet(Debtors) -> Health]
  /\ quantity \in [Positions -> 0..MaxQuantity]
  /\ auction = [p \in Positions |-> NoAuction]
  /\ offer \in [Positions -> Offers]
  /\ moves \in 0..MaxMoves /\ botFaults \in 0..MaxBotFaults
  /\ botPc = "IDLE" /\ accounts = <<>> /\ buckets = <<>>
  /\ risk = "AT_TARGET" /\ slices = 0 /\ quoted = 0 /\ call = NoCall

-----------------------------------------------------------------------------
(* What LiquidationModule accepts and does *)

Running(p) == auction[p] # NoAuction

CanStart(p) == ~Running(p) /\ quantity[p] > 0 /\ health[p[1]] = "BELOW_MM"

\* The caller's limits on the cash of a slice.
WithinLimits(cash, minCash, maxPay) ==
  IF cash > 0 THEN cash >= minCash ELSE minCash = 0 /\ -cash <= maxPay

CanSlice(p, minCash, maxPay) ==
  /\ Running(p) /\ quantity[p] > 0 /\ health[p[1]] # "AT_TARGET"
  /\ WithinLimits(offer[p], minCash, maxPay)

CanEnd(p) == Running(p) /\ (quantity[p] = 0 \/ health[p[1]] = "AT_TARGET")

Better(h) ==
  CASE h = "BELOW_MM" -> Health
    [] h = "BELOW_TARGET" -> {"BELOW_TARGET", "AT_TARGET"}
    [] h = "AT_TARGET" -> {"AT_TARGET"}

Start(p) ==
  /\ auction' = [auction EXCEPT ![p] = 0]
  /\ UNCHANGED <<health, quantity, offer, moves>>

\* A slice improves the health; the auction ends by itself at the target and
\* when nothing is left.
TakeSlice(p, whole) ==
  \E h \in Better(health[p[1]]) :
    LET left == IF whole THEN 0 ELSE quantity[p] - 1
    IN /\ health' = [health EXCEPT ![p[1]] = h]
       /\ quantity' = [quantity EXCEPT ![p] = left]
       /\ auction' = [auction EXCEPT ![p] = IF left = 0 \/ h = "AT_TARGET" THEN NoAuction ELSE @]
       /\ UNCHANGED <<offer, moves>>

Stop(p) ==
  /\ auction' = [auction EXCEPT ![p] = NoAuction]
  /\ UNCHANGED <<health, quantity, offer, moves>>

-----------------------------------------------------------------------------
(* The bot *)

Here == <<Head(accounts), Head(buckets)>>

\* The next bucket of the account, or the next account, or the end of the pass.
NextBucket ==
  /\ buckets' = Tail(buckets)
  /\ IF Tail(buckets) # <<>> THEN botPc' = "BUCKET" /\ UNCHANGED accounts
     ELSE /\ accounts' = Tail(accounts)
          /\ botPc' = IF Tail(accounts) = <<>> THEN "IDLE" ELSE "ACCOUNT"

Stay(label) == botPc' = label /\ UNCHANGED <<accounts, buckets>>

Send(kind, minCash, maxPay, whole) ==
  /\ call' = [kind |-> kind, at |-> Here, minCash |-> minCash, maxPay |-> maxPay, whole |-> whole]
  /\ Stay("WAIT")

HasPosition(a) == \E p \in Positions : p[1] = a /\ quantity[p] > 0

StartPass ==
  /\ botPc = "IDLE"
  /\ \E a \in ToSet(Debtors) : HasPosition(a)
  /\ accounts' = SelectSeq(Debtors, HasPosition)
  /\ botPc' = "ACCOUNT"
  /\ UNCHANGED <<marketVars, botFaults, buckets, risk, slices, quoted, call>>

\* riskOf and bucketsOf, once for the account.
ReadAccount ==
  LET a == Head(accounts)
      held == SelectSeq(Buckets, LAMBDA u : quantity[<<a, u>>] > 0)
  IN /\ botPc = "ACCOUNT"
     /\ risk' = health[a]
     /\ buckets' = held
     /\ IF held # <<>> THEN botPc' = "BUCKET" /\ UNCHANGED accounts
        ELSE /\ accounts' = Tail(accounts)
             /\ botPc' = IF Tail(accounts) = <<>> THEN "IDLE" ELSE "ACCOUNT"
     /\ UNCHANGED <<marketVars, botFaults, slices, quoted, call>>

\* Mutant: an auction somebody else started is left to them.
OpenBucket_OwnOnly ==
  /\ botPc = "BUCKET"
  /\ slices' = 0
  /\ IF Running(Here) \/ risk # "BELOW_MM" \/ ~CanStart(Here) THEN NextBucket /\ UNCHANGED call
     ELSE Send("START", 0, 0, FALSE)
  /\ UNCHANGED <<marketVars, botFaults, risk, quoted>>

\* No auction: start one if the account was below maintenance when it was read.
OpenBucket ==
  /\ botPc = "BUCKET"
  /\ slices' = 0
  /\ IF Running(Here) THEN Stay("SLICE") /\ UNCHANGED call
     ELSE IF risk # "BELOW_MM" \/ ~CanStart(Here) THEN NextBucket /\ UNCHANGED call
     ELSE Send("START", 0, 0, FALSE)
  /\ UNCHANGED <<marketVars, botFaults, risk, quoted>>

MinCash(cash) == IF cash > 0 THEN (cash * (10000 - SlippageBps)) \div 10000 ELSE 0

\* Mutant: what the bot pays is not limited.
MaxPay_Unlimited(cash) == 1000000

MaxPay(cash) == IF cash < 0 THEN (-cash * (10000 + SlippageBps)) \div 10000 ELSE 0

\* The module refuses the slice.  At the target the auction is ended.
Refused ==
  IF health[Here[1]] = "AT_TARGET" /\ CanEnd(Here) THEN Send("END", 0, 0, FALSE)
  ELSE NextBucket /\ UNCHANGED call

\* Preview at the current bonus; a slice that pays is simulated and sent.
Slice ==
  LET p == Here
      whole == Running(p) /\ auction[p] = MaxAge
      gain == auction[p]
  IN /\ botPc = "SLICE"
     /\ slices' = slices + 1
     /\ IF slices >= MaxSlices \/ ~Running(p) \/ quantity[p] = 0
        THEN NextBucket /\ UNCHANGED <<quoted, call>>
        ELSE IF gain < MinProfit THEN NextBucket /\ UNCHANGED <<quoted, call>>
        ELSE /\ quoted' = offer[p]
             /\ IF CanSlice(p, MinCash(offer[p]), MaxPay(offer[p]))
                THEN Send("SLICE", MinCash(offer[p]), MaxPay(offer[p]), whole)
                ELSE Refused
     /\ UNCHANGED <<marketVars, botFaults, risk>>

\* The bot's transaction is mined.
MineCall ==
  LET p == call.at
  IN /\ call # NoCall
     /\ call' = NoCall
     /\ CASE call.kind = "START" ->
               IF CanStart(p) THEN Start(p) /\ Stay("SLICE")
               ELSE NextBucket /\ UNCHANGED marketVars
          [] call.kind = "SLICE" ->
               IF CanSlice(p, call.minCash, call.maxPay)
               THEN TakeSlice(p, call.whole) /\ Stay("SLICE")
               ELSE NextBucket /\ UNCHANGED marketVars
          [] call.kind = "END" ->
               /\ IF CanEnd(p) THEN Stop(p) ELSE UNCHANGED marketVars
               /\ NextBucket
     /\ UNCHANGED <<botFaults, risk, slices, quoted>>

\* A read, the publisher or a receipt fails: the whole pass is over.
PassFails ==
  /\ botFaults < MaxBotFaults
  /\ botFaults' = botFaults + 1
  /\ botPc # "IDLE"
  /\ botPc' = "IDLE" /\ accounts' = <<>> /\ buckets' = <<>>
  /\ call' = NoCall
  /\ UNCHANGED <<marketVars, risk, slices, quoted>>

BotStep == StartPass \/ ReadAccount \/ OpenBucket \/ Slice

-----------------------------------------------------------------------------
(* The market and other liquidators *)

Market ==
  /\ moves < MaxMoves
  /\ moves' = moves + 1
  /\ \E p \in Positions : \E h \in Health, cash \in Offers :
       /\ health' = [health EXCEPT ![p[1]] = h]
       /\ offer' = [offer EXCEPT ![p] = cash]
  /\ UNCHANGED <<quantity, auction>>

BonusGrows ==
  /\ \E p \in Positions :
       /\ Running(p) /\ auction[p] < MaxAge
       /\ auction' = [auction EXCEPT ![p] = @ + 1]
  /\ UNCHANGED <<health, quantity, offer, moves>>

Rival ==
  \E p \in Positions :
    \/ CanStart(p) /\ Start(p)
    \/ /\ Running(p) /\ quantity[p] > 0 /\ health[p[1]] # "AT_TARGET"
       /\ TakeSlice(p, FALSE)
    \/ CanEnd(p) /\ Stop(p)

LiquidateNext ==
  \/ BotStep
  \/ MineCall
  \/ PassFails
  \/ (Market \/ BonusGrows \/ Rival) /\ UNCHANGED <<botFaults, botVars>>

\* The loop comes round, its transactions are mined, and time raises the bonus.
BotFairness ==
  /\ WF_liquidateVars(BotStep)
  /\ WF_liquidateVars(MineCall)
  /\ WF_liquidateVars(BonusGrows /\ UNCHANGED <<botFaults, botVars>>)

LiquidateSpec == BotInit /\ [][LiquidateNext]_liquidateVars /\ BotFairness

-----------------------------------------------------------------------------
(* Properties *)

\* Whatever moved between the preview and the block, a slice of the bot gives it
\* no less than the preview, or costs no more, by the slippage it accepts; it
\* never pays where it was told it would receive (LIQUIDATION.md, PRV-004).
SliceKeepsQuote ==
  [][call # NoCall /\ call.kind = "SLICE" /\ quantity'[call.at] # quantity[call.at] /\ call' = NoCall =>
       LET got == offer[call.at]
       IN /\ got * 10000 >= quoted * 10000
                 - SlippageBps * (IF quoted < 0 THEN -quoted ELSE quoted) - 9999
          /\ quoted > 0 => got >= 0]_liquidateVars

\* An account below its maintenance margin is brought back, or has nothing left
\* to sell: whatever rivals start, take or end, and after passes that fail halfway,
\* the bot picks up every auction there is (liquidationBot.ts:3).
BroughtBack ==
  \A a \in ToSet(Debtors) :
    health[a] = "BELOW_MM" ~> health[a] # "BELOW_MM" \/ ~HasPosition(a)

\* An auction whose account is back at the target does not stay: the bot ends it
\* once the bonus makes it try a slice.
AuctionsEnd ==
  \A p \in Positions :
    Running(p) /\ health[p[1]] = "AT_TARGET" /\ quantity[p] > 0
      ~> ~Running(p) \/ health[p[1]] # "AT_TARGET" \/ quantity[p] = 0

\* Liquidation comes to its end for the account and for its auctions.
LiquidationCompletes == BroughtBack /\ AuctionsEnd

=============================================================================
