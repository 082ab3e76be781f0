---------------------------- MODULE WalletHistory ----------------------------
(***************************************************************************)
(* Profit and loss of a wallet and its margin account in one option, as    *)
(* the web app rebuilds it from the history of events (lib/optara/pnl.ts,  *)
(* getTradePnl of lib/optara/reads.ts).  The history comes from the logs   *)
(* or from the indexer; the indexer keeps the block of a log and not its   *)
(* transaction.  Money is counted in units that average costs divide.      *)
(***************************************************************************)
EXTENDS Integers, Sequences, SequencesExt, FiniteSets

CONSTANTS
  MaxEvents, MaxHeld,  \* bounds: transactions, options acquired
  Strike, Prices,      \* of the call; possible settlement prices
  Transfers,           \* are wrappers sent to and received from others?
  PerBlock,            \* transactions in one block
  Cashes               \* what an account may have when it is settled

ASSUME HistoryAssumption == Strike \in Int /\ Prices \subseteq Int /\ Cashes \subseteq Nat

VARIABLES
  log,        \* the history, in the chain's order
  tx, block, crowd,   \* this transaction, its block, how many the block holds
  wallet, account,    \* wrappers in the wallet; balance of the margin account
  earned, credit,       \* cash received less paid; options settled to a credit
  unpaid,      \* of the account's debts what a settlement could not collect
  state, price, ratio,
  astray,    \* an option left the wallet for the account or another wallet
  drained     \* a liquidation took an unknown amount

historyVars == <<log, tx, block, crowd, wallet, account, earned, credit, unpaid, state, price, ratio, astray, drained>>

Unit == 12      \* divides by the quantities that average costs meet

Premium == 5 * Unit
BuyerFee == Unit
Proceeds == 7 * Unit
WriteFee == 2 * Unit

HistoryInit ==
  /\ log = <<>> /\ tx = 0 /\ block = 0 /\ crowd = 0
  /\ wallet = 0 /\ account = 0 /\ earned = 0 /\ credit = 0 /\ unpaid = 0
  /\ state = "active" /\ price = 0 /\ ratio = 0 /\ astray = FALSE /\ drained = FALSE

\* payoutPerOption.
Pays(p) == IF p > Strike THEN (p - Strike) * Unit ELSE 0

-----------------------------------------------------------------------------
(* Transactions.  Each emits its logs; transfers are in no history.        *)

Logged(logs) ==
  /\ tx < MaxEvents /\ tx' = tx + 1
  /\ \/ block' = block + 1 /\ crowd' = 1
     \/ crowd \in 1..PerBlock - 1 /\ crowd' = crowd + 1 /\ UNCHANGED block
  /\ log' = log \o logs

Now == [tx |-> tx', block |-> block']

Balance(delta) == [ev |-> "balance", delta |-> delta, balance |-> account + delta, at |-> Now]

Acquired == Cardinality({i \in DOMAIN log : log[i].ev \in {"buy", "mint"}})

Buy == /\ state = "active" /\ Acquired < MaxHeld
       /\ Logged(<<[ev |-> "buy", qty |-> 1, premium |-> Premium, fee |-> BuyerFee, at |-> Now]>>)
       /\ wallet' = wallet + 1 /\ earned' = earned - Premium - BuyerFee
       /\ UNCHANGED <<account, credit, unpaid, state, price, ratio, astray, drained>>

Sell == \E q \in 1..wallet :
  /\ state = "active" /\ Logged(<<[ev |-> "sell", qty |-> q, premium |-> q * Proceeds, at |-> Now]>>)
  /\ wallet' = wallet - q /\ earned' = earned + q * Proceeds
  /\ UNCHANGED <<account, credit, unpaid, state, price, ratio, astray, drained>>

Mint == \E own \in BOOLEAN :
  /\ state = "active" /\ Acquired < MaxHeld
  /\ Logged(<<Balance(-1), [ev |-> "mint", qty |-> 1, fee |-> WriteFee, own |-> own, at |-> Now]>>)
  /\ account' = account - 1 /\ earned' = earned - WriteFee
  /\ wallet' = IF own THEN wallet + 1 ELSE wallet
  /\ UNCHANGED <<credit, unpaid, state, price, ratio, astray, drained>>

\* closeShortWithWrapper, and unwrapLong, which burns a wrapper as well.
CloseShort == /\ state \in {"active", "expired"} /\ wallet > 0 /\ account < 0
              /\ Logged(<<Balance(1)>>)
              /\ wallet' = wallet - 1 /\ account' = account + 1
              /\ UNCHANGED <<earned, credit, unpaid, state, price, ratio, astray, drained>>

UnwrapLong == /\ state = "active" /\ wallet > 0 /\ account >= 0
              /\ Logged(<<Balance(1)>>)
              /\ wallet' = wallet - 1 /\ account' = account + 1 /\ astray' = TRUE
              /\ UNCHANGED <<earned, credit, unpaid, state, price, ratio, drained>>

WrapLong == /\ state = "active" /\ account > 0
            /\ Logged(<<Balance(-1)>>)
            /\ wallet' = wallet + 1 /\ account' = account - 1
            /\ UNCHANGED <<earned, credit, unpaid, state, price, ratio, astray, drained>>

Receive == /\ Transfers /\ wallet < 2 /\ tx < MaxEvents /\ tx' = tx + 1 /\ wallet' = wallet + 1
           /\ UNCHANGED <<log, block, crowd, account, earned, credit, unpaid, state, price, ratio, astray, drained>>
Send == /\ Transfers /\ wallet > 0 /\ tx < MaxEvents /\ tx' = tx + 1 /\ wallet' = wallet - 1 /\ astray' = TRUE
        /\ UNCHANGED <<log, block, crowd, account, earned, credit, unpaid, state, price, ratio, drained>>

Liquidated == /\ state = "active" /\ account < 0
              /\ Logged(<<Balance(1), [ev |-> "liquidation", at |-> Now]>>)
              /\ account' = account + 1 /\ drained' = TRUE
              /\ UNCHANGED <<wallet, earned, credit, unpaid, state, price, ratio, astray>>

\* Blocks before and after the expiry are not the same.
Expire == /\ state = "active" /\ state' = "expired" /\ crowd' = 0
          /\ UNCHANGED <<log, tx, block, wallet, account, earned, credit, unpaid, price, ratio, astray, drained>>

Finalize == \E p \in Prices :
  /\ state = "expired" /\ state' = "final" /\ price' = p
  /\ UNCHANGED <<log, tx, block, crowd, wallet, account, earned, credit, unpaid, ratio, astray, drained>>

\* The account pays its debt as far as its cash goes.
SettleDebt == \E cash \in Cashes :
  LET debt == -account * Pays(price)
      collected == IF debt < cash THEN debt ELSE cash
  IN /\ account < 0 /\ earned' = earned - collected /\ unpaid' = unpaid + debt - collected
     /\ UNCHANGED credit

SettleCredit == account > 0 /\ credit' = credit + account /\ UNCHANGED <<earned, unpaid>>

Settle == /\ state = "final"
          /\ SettleDebt \/ SettleCredit
          /\ Logged(<<Balance(-account), [ev |-> "settled", at |-> Now]>>)
          /\ account' = 0
          /\ UNCHANGED <<wallet, state, price, ratio, astray, drained>>

\* The ratio in halves; the account is settled by then.
SetRatio == /\ state = "final" /\ account = 0 /\ ratio = 0 /\ ratio' \in {1, 2}
            /\ UNCHANGED <<log, tx, block, crowd, wallet, account, earned, credit, unpaid, state, price, astray, drained>>

AtRatio(x) == IF ratio = 0 THEN x ELSE (x * ratio) \div 2

Redeem == \E q \in 1..wallet :
  /\ ratio # 0 /\ Logged(<<[ev |-> "redeem", qty |-> q, payout |-> AtRatio(q * Pays(price)), at |-> Now]>>)
  /\ wallet' = wallet - q /\ earned' = earned + AtRatio(q * Pays(price))
  /\ UNCHANGED <<account, credit, unpaid, state, price, ratio, astray, drained>>

HistoryNext == \/ Buy \/ Sell \/ Mint \/ CloseShort \/ UnwrapLong \/ WrapLong \/ Receive \/ Send
               \/ Liquidated \/ Expire \/ Finalize \/ Settle \/ SetRatio \/ Redeem

-----------------------------------------------------------------------------
(* What the page makes of the history.                                     *)

\* What groups logs: the transaction, or the block where only that is kept.
KeyOf(e, source) == IF source = "logs" THEN e.at.tx ELSE e.at.block

\* Did another log of the same transaction tell of it?
Beside(e, ev, source) == \E i \in DOMAIN log : log[i].ev = ev /\ KeyOf(log[i], source) = KeyOf(e, source)

\* Is the balance update one of a settlement?
Settles(e, source) == e.ev = "balance" /\ Beside(e, "settled", source)

\* A short that shrinks, and by how much.
ClosedQty(e, source) ==
  LET before == e.balance - e.delta IN
  IF e.ev # "balance" \/ Settles(e, source) \/ e.delta <= 0 \/ before >= 0 THEN 0
  ELSE IF e.balance > 0 THEN -before ELSE e.delta

\* The movements of wallet tokens, in the chain's order.
NoFill == [kind |-> "in", qty |-> 0, cash |-> 0]

FillOf(e, source) ==
  CASE e.ev = "buy" -> [kind |-> "in", qty |-> e.qty, cash |-> e.premium + e.fee]
    [] e.ev = "mint" /\ e.own -> [kind |-> "in", qty |-> e.qty, cash |-> e.fee]
    [] e.ev = "sell" -> [kind |-> "out", qty |-> e.qty, cash |-> e.premium]
    [] e.ev = "redeem" -> [kind |-> "out", qty |-> e.qty, cash |-> e.payout]
    [] ClosedQty(e, source) > 0 -> [kind |-> "out", qty |-> ClosedQty(e, source), cash |-> 0]
    [] OTHER -> NoFill

Fills(source) == [i \in DOMAIN log |-> FillOf(log[i], source)]

Removed(c, f) ==
  LET closed == IF f.qty < c.qty THEN f.qty ELSE c.qty
      costOut == IF c.qty > 0 THEN (c.cost * closed) \div c.qty ELSE 0
  IN [qty |-> c.qty - closed, cost |-> c.cost - costOut,
      realized |-> c.realized + (f.cash * closed) \div f.qty - costOut,
      unknown |-> c.unknown + f.qty - closed]

Averaged(c, f) ==
  IF f.kind = "in" THEN [c EXCEPT !.qty = @ + f.qty, !.cost = @ + f.cash] ELSE Removed(c, f)

\* averageCost.
AverageCost(fills) ==
  FoldLeft(Averaged, [qty |-> 0, cost |-> 0, realized |-> 0, unknown |-> 0], fills)

TotalOf(amounts) == FoldLeft(LAMBDA sum, x : sum + x, 0, amounts)

\* Mutant: the fee of the buyer is left out.
Cost_NoFee(e) == e.premium

Cost(e) == e.premium + e.fee

SettledDebt(e, source) == IF Settles(e, source) /\ e.delta > 0 THEN e.delta * Pays(price) ELSE 0
SettledCredit(e, source) == IF Settles(e, source) /\ e.delta < 0 THEN AtRatio(-e.delta * Pays(price)) ELSE 0

\* What an event adds to the cash paid, to the cash received, and to the realized
\* part beside the fills.
PaidBy(e, source) == CASE e.ev = "buy" -> Cost(e) [] e.ev = "mint" -> e.fee [] OTHER -> SettledDebt(e, source)
GotBy(e, source) ==
  CASE e.ev = "sell" -> e.premium [] e.ev = "redeem" -> e.payout [] OTHER -> SettledCredit(e, source)
LockedInBy(e, source) ==
  IF e.ev = "mint" /\ ~e.own THEN -e.fee ELSE SettledCredit(e, source) - SettledDebt(e, source)

Paid(source) == TotalOf([i \in DOMAIN log |-> PaidBy(log[i], source)])
Received(source) == TotalOf([i \in DOMAIN log |-> GotBy(log[i], source)])
OtherRealized(source) == TotalOf([i \in DOMAIN log |-> LockedInBy(log[i], source)])

\* The last balance the history tells of the account.
AccountQty ==
  LET told == {i \in DOMAIN log : log[i].ev = "balance"} IN
  IF told = {} THEN 0 ELSE log[Max(told)].balance

\* What is held: at the payout once the price is fixed, else at a fair value.
FairValue == 3 * Unit

ValueOf(held, inAccount) ==
  IF state = "final"
  THEN AtRatio((held + (IF inAccount > 0 THEN inAccount ELSE 0)) * Pays(price))
       + (IF inAccount < 0 THEN inAccount ELSE 0) * Pays(price)
  ELSE (held + inAccount) * FairValue

TradePnl(source) ==
  LET avg == AverageCost(Fills(source)) IN
  [ paid |-> Paid(source), received |-> Received(source), value |-> ValueOf(wallet, AccountQty),
    realized |-> avg.realized + OtherRealized(source), costHeld |-> avg.cost,
    closed |-> wallet = 0 /\ AccountQty = 0,
    approximate |-> \/ \E i \in DOMAIN log : log[i].ev = "balance" /\ Beside(log[i], "liquidation", source)
                    \/ wallet > 0 /\ Paid(source) = 0 /\ Received(source) = 0
                    \/ avg.unknown > 0 ]

-----------------------------------------------------------------------------
\* A short was closed in the block of its own settlement: the indexer, which does
\* not keep the transaction, cannot tell the two apart.
Hurried == \E i, j \in DOMAIN log : /\ log[i].ev = "settled" /\ log[j].ev = "balance"
                                   /\ log[i].at.block = log[j].at.block /\ log[i].at.tx # log[j].at.tx

\* The page reads the indexer's history if there is an indexer and it answers, else
\* the logs: either must do.
Sources == {"logs", "indexer"}

\* What the figures are right of: the logs always, the indexer's records unless a
\* close and a settlement share a block.
Told(source) == source = "indexer" => ~Hurried

\* INVARIANT.  "P&L = value of what you still hold + cash you received - cash you
\* paid" (pnl.ts:4): the total the page shows is what the wallet and the account
\* made, where a debt counts in full though the account may not have paid it all;
\* unless a liquidation took an amount the history does not tell.
TotalIsEarned == \A source \in Sources :
  LET r == TradePnl(source) IN
  Told(source) /\ ~drained => r.value + r.received - r.paid =
                ValueOf(wallet, account) + earned - unpaid + AtRatio(credit * Pays(price))

\* INVARIANT.  "unrealized = what you still hold: its value now against what it
\* cost" (pnl.ts:9): the realized part, kept by average cost over the order of
\* the events, leaves exactly that of the total.
OpenPartIsHeldAgainstCost == \A source \in Sources :
  LET r == TradePnl(source) IN
  ~r.approximate => r.received - r.paid - r.realized = -r.costHeld

\* INVARIANT.  When nothing is held, everything is realized: for options that
\* never were unwrapped into the account or sent to another wallet.
ClosedIsRealized == \A source \in Sources :
  LET r == TradePnl(source) IN
  Told(source) /\ r.closed /\ ~r.approximate /\ ~astray => r.costHeld = 0

\* The three numbers of the P&L card agree with what happened and with each other.
ProfitExact == TotalIsEarned /\ OpenPartIsHeldAgainstCost /\ ClosedIsRealized

\* REFUTED.  "the indexer only keeps the block, which serves" (reads.ts:897): its
\* records tell of the same profit and loss as the logs.
IndexerServes == LET Figures(r) == <<r.paid, r.received, r.value, r.realized, r.costHeld>> IN
  Figures(TradePnl("indexer")) = Figures(TradePnl("logs"))

=============================================================================
