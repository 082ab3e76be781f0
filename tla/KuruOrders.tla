------------------------------ MODULE KuruOrders ------------------------------
(***************************************************************************)
(* What a user has on Kuru beside Optara, and how the web app gives it     *)
(* back: resting orders lock funds of Kuru's margin account (external),    *)
(* the panel of own orders cancels them (MyKuruOrdersPanel of              *)
(* pages/Series.tsx), and the free funds are withdrawn there or on the     *)
(* portfolio page (components/KuruBalances.tsx).  The panel finds the book *)
(* by VenueRegistry.tradableMarket, the portfolio by the series alone.     *)
(* A bid and an ask are at the price of one; amounts are in smallest units. *)
(***************************************************************************)
EXTENDS Integers, Sequences, FiniteSets, SequencesExt

CONSTANTS
  BidIds, AskIds,   \* orders the user may place
  OrderSize,
  VisibleRows,  \* rows the panel shows at most
  MaxFlips      \* bound: times the market is paused

ASSUME KuruAssumption == OrderSize \in Nat \ {0} /\ VisibleRows \in Nat \ {0}

KuruIds == BidIds \cup AskIds

VARIABLES
  book,       \* the user's orders, the last changed first: [id, side, left, status]
  free,       \* [cash, options] of the user not locked on Kuru
  market,     \* "ACTIVE", "PAUSED" or "EXPIRED"
  rows,       \* as the panel last read them
  shownFree,  \* the free funds as one of the pages last read them
  flips

kuruVars == <<book, free, market, rows, shownFree, flips>>
chainKuru == <<book, free, market, flips>>
pageKuru == <<rows, shownFree>>

NoFunds == [cash |-> 0, options |-> 0]
Tokens == {"cash", "options"}

KuruInit ==
  /\ book = <<>> /\ free = NoFunds /\ market = "ACTIVE" /\ flips = 0
  /\ rows = <<>>
  /\ shownFree = NoFunds

-----------------------------------------------------------------------------
(* Kuru's book (external)                                                  *)

Rests(order) == order.status \in {"open", "partial"}
Resting == {o.id : o \in {o \in ToSet(book) : Rests(o)}}
OrderOf(id) == CHOOSE o \in ToSet(book) : o.id = id

\* What an order locks, and what it brings when it is filled.
Locks(side) == IF side = "bid" THEN "cash" ELSE "options"
Brings(side) == IF side = "bid" THEN "options" ELSE "cash"

\* The order comes to the head of the list.
Changed(orders, o) == <<o>> \o SelectSeq(orders, LAMBDA p : p.id # o.id)

\* The deposit and the order of the limit ticket, while the market is tradable.
PlaceOwn(id) ==
  /\ market = "ACTIVE" /\ \A o \in ToSet(book) : o.id # id
  /\ book' = Changed(book, [id |-> id, side |-> IF id \in BidIds THEN "bid" ELSE "ask", left |-> OrderSize, status |-> "open"])
  /\ UNCHANGED <<free, market, flips, pageKuru>>

\* Takers trade on Kuru whatever Optara's registry says of the market.
FillOwn(id, n) ==
  /\ id \in Resting
  /\ LET o == OrderOf(id) IN
     /\ n <= o.left
     /\ book' = Changed(book, [o EXCEPT !.left = @ - n, !.status = IF o.left = n THEN "filled" ELSE "partial"])
     /\ free' = [free EXCEPT ![Brings(o.side)] = @ + n]
  /\ UNCHANGED <<market, flips, pageKuru>>

Released(funds, ids) ==
  [t \in Tokens |-> funds[t] + FoldLeft(LAMBDA sum, o : sum + (IF o.id \in ids /\ Locks(o.side) = t THEN o.left ELSE 0), 0, book)]

\* The orders of a batch that still rest are cancelled; a batch with another is
\* refused or done without it.
Cancelled(ids) ==
  LET gone == ids \cap Resting IN
  /\ gone # {}
  /\ free' = Released(free, gone)
  /\ book' = [i \in DOMAIN book |-> IF book[i].id \in gone THEN [book[i] EXCEPT !.left = 0, !.status = "cancelled"]
                                    ELSE book[i]]

-----------------------------------------------------------------------------
(* The registry                                                            *)

PauseMarket == /\ market = "ACTIVE" /\ flips < MaxFlips /\ market' = "PAUSED" /\ flips' = flips + 1
               /\ UNCHANGED <<book, free, pageKuru>>
ResumeMarket == /\ market = "PAUSED" /\ market' = "ACTIVE"
                /\ UNCHANGED <<book, free, flips, pageKuru>>
EndMarket == /\ market # "EXPIRED" /\ market' = "EXPIRED"
             /\ UNCHANGED <<book, free, flips, pageKuru>>

-----------------------------------------------------------------------------
(* The pages                                                               *)

\* getVenueQuote: no quote, no panel data.
Quoted == market = "ACTIVE"

\* getKuruUserOrders, from the indexer or from the logs (Indexer, IndexReaders).
ReadOrders == /\ rows' = (IF Quoted THEN book ELSE <<>>) /\ rows' # rows
              /\ UNCHANGED <<chainKuru, shownFree>>

\* Mutant: the portfolio, too, reads the balances through the quote.
FreeRead_Quoted == IF Quoted THEN free ELSE NoFunds

\* getKuruLimitMarket on the panel, if there is a quote, and getKuruBalances on the
\* portfolio: for every series, through the margin account alone.
FreeRead == free

ReadFree == /\ shownFree' = FreeRead /\ shownFree' # shownFree
            /\ UNCHANGED <<chainKuru, rows>>

ActiveRow(row) == row.status \in {"open", "partial"}

Filters == {"active", "filled", "all"}
Sides == {"bid", "ask", "all"}

\* The rows under a filter, cut off after so many.
Filtered(filter, side) ==
  LET shown == SelectSeq(rows, LAMBDA r : /\ CASE filter = "active" -> ActiveRow(r)
                                               [] filter = "filled" -> r.status = "filled"
                                               [] filter = "all" -> TRUE
                                          /\ side = "all" \/ r.side = side)
  IN SubSeq(shown, 1, IF Len(shown) < VisibleRows THEN Len(shown) ELSE VisibleRows)

\* The cancel buttons: of one row that is shown, and of all active ones.
RowCancels == UNION {{{r.id} : r \in {r \in ToSet(Filtered(f, s)) : ActiveRow(r)}} : f \in Filters, s \in Sides}

CancelAll == LET ids == {r.id : r \in {r \in ToSet(rows) : ActiveRow(r)}}
             IN IF Cardinality(ids) > 1 THEN {ids} ELSE {}

CancelButtons == RowCancels \cup CancelAll

PressCancel == \E ids \in CancelButtons :
  /\ Cancelled(ids)
  /\ UNCHANGED <<market, flips, pageKuru>>

\* The amount read is withdrawn, if there is still that much.
PressWithdraw == \E t \in Tokens :
  /\ shownFree[t] > 0 /\ shownFree[t] <= free[t]
  /\ free' = [free EXCEPT ![t] = @ - shownFree[t]]
  /\ UNCHANGED <<book, market, flips, pageKuru>>

KuruNext ==
  \/ \E id \in KuruIds : PlaceOwn(id)
  \/ \E id \in KuruIds, n \in 1..OrderSize : FillOwn(id, n)
  \/ PauseMarket \/ ResumeMarket \/ EndMarket
  \/ ReadOrders \/ ReadFree \/ PressCancel \/ PressWithdraw

-----------------------------------------------------------------------------
\* INVARIANT.  While the market is tradable, a panel that is up to date has a
\* button for every order of the user that rests on Kuru, whose press Kuru accepts,
\* and none for another: also for the part that is left of an order, and for the
\* orders past the last row the panel shows.
LockedIsCancellable ==
  Quoted /\ rows = book =>
    /\ UNION CancelButtons = Resting
    /\ \A ids \in CancelButtons : ids \subseteq Resting

\* For a user who presses what the pages offer: what is free on Kuru is withdrawn, and
\* the orders come back too if the market stays tradable in the end.  The panel finds
\* no book while a market is paused or after it has expired, and nothing else in the
\* app cancels an order: what an order locks then stays on Kuru.
FundsComeHome ==
  /\ <>[](free = NoFunds)
  /\ <>[]Quoted => <>[](Resting = {})

\* REFUTED.  "funds locked in open orders appear once you cancel them on the option's
\* Order book page" (KuruBalances.tsx:32): the page always has a way to cancel them.
LockedComesHome == <>[](Resting = {})

=============================================================================
