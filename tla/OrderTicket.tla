----------------------------- MODULE OrderTicket -----------------------------
(***************************************************************************)
(* An order from the web app to the book: what the page estimates from the *)
(* book it last read and the limits it has the user sign (BuyPanel,        *)
(* SellPanel and KuruLimitPanel of pages/Series.tsx, TradeForm of          *)
(* pages/Trade.tsx, lib/optara/depth.ts and limits.ts), what VenueRouter   *)
(* and KuruAdapter make of it, and the order book of Kuru (external:       *)
(* immediate-or-cancel, sizes in whole units, the taker fee in options on  *)
(* a buy and in cash on a sale).                                           *)
(* Money is in native units, a quantity in thousandths of an option.       *)
(***************************************************************************)
EXTENDS Integers, Sequences, SequencesExt

CONSTANTS
  Books, Bids,        \* asks best first, and best bids: [price, size]
  Budgets, Quantities, LimitPrices,   \* what the user may type
  Slips,              \* slippage settings, in basis points
  TakerFee, BuyerFees,  \* basis points of Kuru's and of Optara's fee
  Depth,              \* levels of the book the page reads
  MaxMoves            \* bound: orders and what happens beside them

ASSUME TicketAssumption ==
  /\ Slips \subseteq 10..1000 /\ TakerFee \in 0..999 /\ BuyerFees \subseteq 0..999
  /\ Depth \in Nat \ {0}
  /\ Budgets \subseteq Nat /\ Quantities \subseteq Nat /\ LimitPrices \subseteq Nat
  /\ Books \subseteq Seq([price : Nat \ {0}, size : Nat]) /\ Bids \subseteq [price : Nat, size : Nat]

VARIABLES
  asks, bid, buyerFee,  \* the book and the fee, as they are
  page,        \* the same as the page last read them
  cash, options,        \* of the user's wallet
  onKuru,      \* [cash, options] of the user in Kuru's margin account
  stray,       \* [cash, options] that others sent to the router or the adapter
  ticket,      \* the signed order, or NoTicket
  outcome,     \* how the last order ended, or NoOutcome
  moves

ticketVars == <<asks, bid, buyerFee, page, cash, options, onKuru, stray, ticket, outcome, moves>>

Option == 1000                     \* one option
SizeUnit == 10                     \* Kuru's smallest size: 0.01 option
BPS == 10000
Nothing == [cash |-> 0, options |-> 0]
NoTicket == [side |-> "none"]
NoOutcome == [side |-> "none"]

CeilDiv(x, y) == (x + y - 1) \div y
Smaller(x, y) == IF x < y THEN x ELSE y

NoPage == [asks |-> <<>>, bid |-> [price |-> 0, size |-> 0], fee |-> 0, onKuru |-> Nothing, read |-> FALSE]

TicketInit ==
  /\ asks \in Books /\ bid \in Bids /\ buyerFee \in BuyerFees
  /\ page = NoPage
  /\ cash = 50000 /\ options = 3 * Option + 5 /\ onKuru = Nothing /\ stray = Nothing
  /\ ticket = NoTicket /\ outcome = NoOutcome /\ moves = 0

-----------------------------------------------------------------------------
(* The page                                                                *)

\* A market buy walks the asks from the best price up.
WalkLevel(w, level) ==
  LET cost == (level.size * level.price) \div Option IN
  IF w.left <= 0 THEN w
  ELSE IF w.left >= cost THEN [qty |-> w.qty + level.size, left |-> w.left - cost]
  ELSE [qty |-> w.qty + (w.left * Option) \div level.price, left |-> 0]

FillFromAsks(levels, budget) == FoldLeft(WalkLevel, [qty |-> 0, left |-> budget], levels).qty

WithSlip(x, bps) == (x * (BPS + bps)) \div BPS + 1
LessSlip(x, bps) == (x * (BPS - bps)) \div BPS

\* "Sign the min quantity at that precision."
VenueMinQty(x, bps) == (LessSlip(x, bps) \div SizeUnit) * SizeUnit

\* What the adapter quotes: quoteBuy, quoteSell.
QuoteBuy(premium) == CeilDiv(premium * TakerFee, BPS)
QuoteSell(proceeds) == CeilDiv(proceeds * TakerFee, BPS - TakerFee)

FeeOn(premium, bps) == CeilDiv(premium * bps, BPS)

ReadBook ==
  LET now == [asks |-> asks, bid |-> bid, fee |-> buyerFee, onKuru |-> onKuru, read |-> TRUE] IN
  /\ page # now /\ page' = now
  /\ UNCHANGED <<asks, bid, buyerFee, cash, options, onKuru, stray, ticket, outcome, moves>>

\* An order or something that happens beside it.
Moving == moves < MaxMoves /\ moves' = moves + 1

Signed(t) == /\ Moving /\ ticket = NoTicket /\ page.read
             /\ ticket' = t
             /\ outcome' = NoOutcome
             /\ UNCHANGED <<asks, bid, buyerFee, page, cash, options, onKuru, stray>>

\* BuyPanel: the budget less Kuru's fee is walked through the levels read.
SignBuy == \E premiumIn \in Budgets, slip \in Slips :
  LET fee == FeeOn(premiumIn, page.fee)
      kuru == QuoteBuy(premiumIn)
      est == FillFromAsks(SubSeq(page.asks, 1, Smaller(Depth, Len(page.asks))), premiumIn - kuru)
  IN /\ est > 0 /\ premiumIn + fee <= cash
     /\ Signed([side |-> "buy", amount |-> premiumIn, est |-> est, atBest |-> FALSE,
                limit |-> VenueMinQty(est, slip),
                maxBuyerFee |-> WithSlip(fee, slip), maxVenueFee |-> WithSlip(kuru, slip),
                read |-> page])

\* TradeForm: the whole budget at the best ask, however little rests there.
SignQuick == \E premiumIn \in Budgets, slip \in Slips :
  LET fee == FeeOn(premiumIn, page.fee)
      kuru == QuoteBuy(premiumIn)
      est == ((premiumIn - kuru) * Option) \div page.asks[1].price
  IN /\ page.asks # <<>> /\ est > 0 /\ premiumIn + fee <= cash
     /\ Signed([side |-> "buy", amount |-> premiumIn, est |-> est, atBest |-> TRUE,
                limit |-> VenueMinQty(est, slip),
                maxBuyerFee |-> WithSlip(fee, slip), maxVenueFee |-> WithSlip(kuru, slip),
                read |-> page])

\* SellPanel: no venue tells how deep its bids are.
SignSell == \E qty \in Quantities, slip \in Slips :
  LET gross == (qty * page.bid.price) \div Option
      fee == QuoteSell(gross)
  IN /\ gross > 0 /\ qty <= options
     /\ Signed([side |-> "sell", amount |-> qty, limit |-> LessSlip(gross - fee, slip),
                maxVenueFee |-> WithSlip(fee, slip), read |-> page])

\* The cash a bid needs.
QuoteNeeded(price, size) == (price * size * SizeUnit) \div Option + 1

Tick == 10

Missing(needed, have) == IF needed > have THEN needed - have ELSE 0

\* KuruLimitPanel: prices are rounded down to a tick and sizes to units; what
\* Kuru's margin account lacks is deposited first.
SignLimit == \E qty \in Quantities, p \in LimitPrices, buying \in BOOLEAN :
  LET price == (p \div Tick) * Tick
      size == qty \div SizeUnit
      missing == IF buying THEN [Nothing EXCEPT !.cash = Missing(QuoteNeeded(price, size), page.onKuru.cash)]
                 ELSE [Nothing EXCEPT !.options = Missing(qty, page.onKuru.options)]
  IN /\ price > 0 /\ size > 0 /\ missing.cash <= cash /\ missing.options <= options
     /\ Signed([side |-> "limit", buying |-> buying, price |-> price, size |-> size,
                deposit |-> missing, read |-> page])

-----------------------------------------------------------------------------
(* Kuru (external)                                                         *)

\* Kuru fills whole units of each level; a price is what 100 units cost.
TakeLevel(f, level) ==
  LET units == Smaller(level.size \div SizeUnit, (f.left * 100) \div level.price)
  IN [qty |-> f.qty + units * SizeUnit, left |-> f.left - CeilDiv(units * level.price, 100),
      rest |-> IF units * SizeUnit = level.size THEN f.rest
               ELSE Append(f.rest, [level EXCEPT !.size = @ - units * SizeUnit])]

\* Options out, cash back and the asks that are left of a market buy.
MarketBuy(budget) ==
  LET f == FoldLeft(TakeLevel, [qty |-> 0, left |-> budget, rest |-> <<>>], asks)
  IN [out |-> f.qty - CeilDiv(f.qty * TakerFee, BPS), back |-> f.left, rest |-> f.rest]

MarketSell(qty) ==
  LET sold == Smaller((qty \div SizeUnit) * SizeUnit, bid.size)
      gross == (sold * bid.price) \div Option
  IN [sold |-> sold, out |-> gross - CeilDiv(gross * TakerFee, BPS)]

-----------------------------------------------------------------------------
(* VenueRouter and KuruAdapter                                             *)

\* What a call produced: the balance now less the balance before it.
ReceivedBy(held, before) == held - before

Ended(o) == ticket' = NoTicket /\ outcome' = o

\* What the page had read when the order was signed still stands.
Fresh == ticket.read = [asks |-> asks, bid |-> bid, fee |-> buyerFee, onKuru |-> onKuru, read |-> TRUE]

\* The slippage leaves room for what a fresh buy may fall short of the estimate:
\* Kuru fills whole units, and takes its fee of the options and not of the cash.
Roomy == ticket.est - ticket.limit >= SizeUnit + CeilDiv(ticket.est * TakerFee, BPS)

\* No buy estimated at the best ask takes more than rests there.
WithinBook == ticket.atBest => ticket.est <= ticket.read.asks[1].size

\* Orders that the book can fill to what was signed: no sale of more than the best
\* bid takes.
Fillable == IF ticket.side = "buy" THEN Roomy /\ WithinBook
            ELSE ticket.amount % SizeUnit = 0 /\ ticket.amount <= bid.size

Reverted == /\ Ended([side |-> ticket.side, fresh |-> Fresh, landed |-> FALSE, fillable |-> Fillable,
                   within |-> ticket.side = "buy" => WithinBook])
            /\ UNCHANGED <<asks, bid, buyerFee, page, cash, options, onKuru, stray, moves>>

\* The router may end with its own and the adapter's balances as they were.
RequireEmpty(strayCash, strayOptions) == strayCash = stray.cash /\ strayOptions = stray.options

\* Mutant: the least quantity signed is not asked for.
EnoughOut_Any(qty) == TRUE

EnoughOut(qty) == qty >= ticket.limit

BuyThroughVenue ==
  LET kuru == MarketBuy(ticket.amount)
      bought == ReceivedBy(stray.options + kuru.out, stray.options)
      unspent == ReceivedBy(stray.cash + kuru.back, stray.cash)
      spent == ticket.amount - unspent
      fee == FeeOn(spent, buyerFee)
      ok == /\ FeeOn(ticket.amount, buyerFee) <= ticket.maxBuyerFee
            /\ cash >= ticket.amount /\ EnoughOut(bought)
            /\ QuoteBuy(spent) <= ticket.maxVenueFee
            /\ cash >= spent + fee
            /\ RequireEmpty(stray.cash + kuru.back - unspent, stray.options + kuru.out - bought)
  IN /\ ticket.side = "buy"
     /\ IF ~ok THEN Reverted
        ELSE /\ cash' = cash - spent - fee /\ options' = options + bought /\ asks' = kuru.rest
             /\ Ended([side |-> "buy", fresh |-> Fresh, landed |-> TRUE, got |-> bought,
                     least |-> ticket.limit, paid |-> spent + fee, most |-> ticket.amount + ticket.maxBuyerFee])
             /\ UNCHANGED <<bid, buyerFee, page, onKuru, stray, moves>>

SellThroughVenue ==
  LET kuru == MarketSell(ticket.amount)
      proceeds == ReceivedBy(stray.cash + kuru.out, stray.cash)
      unsold == ReceivedBy(stray.options + ticket.amount - kuru.sold, stray.options)
      ok == /\ options >= ticket.amount /\ EnoughOut(proceeds)
            /\ QuoteSell(proceeds) <= ticket.maxVenueFee
            /\ RequireEmpty(stray.cash + kuru.out - proceeds,
                            stray.options + ticket.amount - kuru.sold - unsold)
  IN /\ ticket.side = "sell"
     /\ IF ~ok THEN Reverted
        ELSE /\ options' = options - ticket.amount + unsold /\ cash' = cash + proceeds
             /\ bid' = [bid EXCEPT !.size = @ - kuru.sold]
             /\ Ended([side |-> "sell", fresh |-> Fresh, landed |-> TRUE, got |-> proceeds,
                     least |-> ticket.limit, paid |-> ticket.amount - unsold, most |-> ticket.amount])
             /\ UNCHANGED <<asks, buyerFee, page, onKuru, stray, moves>>

\* Two transactions: the deposit, if any, and the order, which locks its funds.
PlaceLimit ==
  LET free == [cash |-> onKuru.cash + ticket.deposit.cash, options |-> onKuru.options + ticket.deposit.options]
      lock == IF ticket.buying THEN [Nothing EXCEPT !.cash = CeilDiv(ticket.price * ticket.size, 100)]
              ELSE [Nothing EXCEPT !.options = ticket.size * SizeUnit]
      funded == lock.cash <= free.cash /\ lock.options <= free.options
  IN /\ ticket.side = "limit"
     /\ ticket.deposit.cash <= cash /\ ticket.deposit.options <= options
     /\ cash' = cash - ticket.deposit.cash /\ options' = options - ticket.deposit.options
     /\ onKuru' = IF funded THEN [cash |-> free.cash - lock.cash, options |-> free.options - lock.options] ELSE free
     /\ Ended([side |-> "limit", fresh |-> Fresh, landed |-> funded, fillable |-> TRUE, within |-> TRUE])
     /\ UNCHANGED <<asks, bid, buyerFee, page, stray, moves>>

-----------------------------------------------------------------------------
(* Everybody else                                                          *)

MoveBook == /\ Moving
            /\ asks' \in Books /\ bid' \in Bids /\ <<asks', bid'>> # <<asks, bid>>
            /\ UNCHANGED <<buyerFee, page, cash, options, onKuru, stray, ticket, outcome>>

SetFee == /\ Moving /\ buyerFee' \in BuyerFees \ {buyerFee}
          /\ UNCHANGED <<asks, bid, page, cash, options, onKuru, stray, ticket, outcome>>

Donate == /\ Moving
          /\ \/ stray' = [stray EXCEPT !.cash = @ + 7]
             \/ stray' = [stray EXCEPT !.options = @ + 7]
          /\ UNCHANGED <<asks, bid, buyerFee, page, cash, options, onKuru, ticket, outcome>>

\* The user withdraws from Kuru or spends the wallet elsewhere.
WithdrawKuru == /\ Moving /\ onKuru # Nothing /\ onKuru' = Nothing
                /\ cash' = cash + onKuru.cash /\ options' = options + onKuru.options
                /\ UNCHANGED <<asks, bid, buyerFee, page, stray, ticket, outcome>>

TicketNext == \/ ReadBook \/ SignBuy \/ SignQuick \/ SignSell \/ SignLimit
              \/ BuyThroughVenue \/ SellThroughVenue \/ PlaceLimit
              \/ MoveBook \/ SetFee \/ Donate \/ WithdrawKuru

-----------------------------------------------------------------------------
\* INVARIANT.  Wherever the book and the fees went after the page read them, an
\* order that goes through keeps what the user signed: a buy costs at most the
\* budget and the largest fee and brings the least quantity, a sale brings the
\* least proceeds for at most the options given.
SignedLimitsHold ==
  outcome.side \in {"buy", "sell"} /\ outcome.landed =>
    outcome.got >= outcome.least /\ outcome.paid <= outcome.most

\* The order ended though what the page had read when it was signed still stood.
Refused == outcome.side # "none" /\ ~outcome.landed /\ outcome.fresh

\* INVARIANT.  An order signed against the book as it stands goes through,
\* whatever others have sent to the router or the adapter ("tokens sent to it by
\* anyone else stay put and can't block trading", KuruAdapter.sol): a limit order,
\* a sale the best bid takes, and a buy whose slippage leaves room for Kuru's units
\* and its fee, however deep in the book it goes.
FreshOrdersLand == Refused => ~outcome.fillable

\* An order is filled as signed, and filled if it can be.
OrdersKept == SignedLimitsHold /\ FreshOrdersLand

\* REFUTED.  "so rounding does not turn a valid fill into a false "price moved"
\* rejection" (limits.ts:31): every buy signed against the book as it stands goes
\* through, if it is no more than rests where it was estimated.
FreshBuysLand == Refused /\ outcome.side = "buy" => ~outcome.within

=============================================================================
