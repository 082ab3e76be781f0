-------------------------------- MODULE MCApp --------------------------------
(***************************************************************************)
(* The parts of the web app beside each other, one in each `mode': the     *)
(* session with its wallets and buttons, profit and loss, orders, the      *)
(* pages of a series, of settlement, of auctions and of listing, and the   *)
(* estimate of liquidation prices.                                         *)
(***************************************************************************)
EXTENDS AppSession, WalletHistory, OrderTicket, SeriesPage, KeeperPages, SeriesListing

CONSTANT Modes

VARIABLE mode

vars == <<sessionVars, historyVars, ticketVars, pageVars, cardVars, auctionVars, spotVars, listingVars, mode>>

Level(p, s) == [price |-> p, size |-> s]
MCBooks == {<<Level(3300, 1000), Level(5300, 2000)>>, <<Level(3300, 2500)>>, <<>>,
            <<Level(4010, 500), Level(4020, 5000), Level(9000, 20000)>>}
MCBids == {Level(3200, 2000), Level(3000, 500)}

\* A setup may be begun anew after it failed.
MCPresses == [f \in Forms |-> IF f = "setup" THEN 2 ELSE 1]

\* Below the line; at the target with an old auction; between; and far below.
Debtor(c, n1, n2, e2, a1) ==
  [cash |-> c, short |-> [u \in Underlyings |-> IF u = 1 THEN n1 ELSE n2], expired |-> [u \in Underlyings |-> u # 1 /\ e2],
   auction |-> [u \in Underlyings |-> IF u = 1 THEN a1 ELSE "none"], stress |-> 1]
MCDebtors == {Debtor(4, 2, 1, FALSE, "none"), Debtor(7, 2, 0, TRUE, "old"), Debtor(6, 2, 0, FALSE, "young"),
              Debtor(1, 2, 0, TRUE, "old")}

MCEdges == {[up |-> u, down |-> d] : u \in {100, 101, 104, 105, 106, 149, 171, 299, 300, 301}, d \in {99, 96, 95, 94, 33, 20, 19}}
MCRanges == {[from |-> f, to |-> t, gap |-> g] : f \in {0, 45, 97, 101}, t \in {100, 112, 400}, g \in {{}, 98..98, 101..103}}

Pick(S) == CHOOSE x \in S : TRUE

FirstSeries == [kind |-> "call", strike |-> MinStrike, expiry |-> MinTime, config |-> Pick(ListingConfigs), risk |-> Pick(RiskIds)]

\* The parts of the other modes stand where they begin.
MCInit ==
  /\ mode \in Modes
  /\ \/ mode = "session"
     \/ mode # "session" /\ address = Pick(Wallets) /\ storage = Pick(StorageKinds)
  /\ \/ mode = "ticket"
     \/ mode # "ticket" /\ asks = Pick(Books) /\ bid = Pick(Bids) /\ buyerFee = Pick(BuyerFees)
  /\ mode = "series" \/ (mode # "series" /\ world = StartWorld)
  /\ \/ mode = "settlement"
     \/ mode # "settlement" /\ provable = TRUE /\ listing = {}
  /\ mode = "auctions" \/ (mode # "auctions" /\ debtor = Pick(StartDebtors))
  /\ mode = "spots" \/ (mode # "spots" /\ edges = Pick(Edges) /\ priced = Pick(Ranges))
  /\ mode = "listing" \/ (mode # "listing" /\ hat = "nobody" /\ listed = {FirstSeries})
  /\ SessionInit /\ HistoryInit /\ TicketInit /\ PageInit /\ CardInit /\ AuctionInit /\ SpotsInit /\ ListingInit

\* What stands still in each mode.
OffSession == UNCHANGED sessionVars
OffData == UNCHANGED <<historyVars, spotVars, listingVars>>
OffTrade == UNCHANGED <<ticketVars, pageVars>>
OffClose == UNCHANGED <<cardVars, auctionVars>>

MCNext ==
  /\ \/ mode = "session" /\ SessionNext /\ OffData /\ OffTrade /\ OffClose
     \/ mode = "history" /\ HistoryNext /\ OffSession /\ OffTrade /\ OffClose /\ UNCHANGED <<spotVars, listingVars>>
     \/ mode = "spots" /\ Estimate /\ OffSession /\ OffTrade /\ OffClose /\ UNCHANGED <<historyVars, listingVars>>
     \/ mode = "listing" /\ ListingNext /\ OffSession /\ OffTrade /\ OffClose /\ UNCHANGED <<historyVars, spotVars>>
     \/ mode = "ticket" /\ TicketNext /\ OffSession /\ OffData /\ OffClose /\ UNCHANGED pageVars
     \/ mode = "series" /\ PageNext /\ OffSession /\ OffData /\ OffClose /\ UNCHANGED ticketVars
     \/ mode = "settlement" /\ CardNext /\ OffSession /\ OffData /\ OffTrade /\ UNCHANGED auctionVars
     \/ mode = "auctions" /\ AuctionNext /\ OffSession /\ OffData /\ OffTrade /\ UNCHANGED cardVars
  /\ UNCHANGED mode

OffCard == OffSession /\ OffData /\ OffTrade /\ UNCHANGED <<auctionVars, mode>>
OffAuction == OffSession /\ OffData /\ OffTrade /\ UNCHANGED <<cardVars, mode>>

\* Queries are read again, visitors press what is offered, and at last the price
\* can be proven and the indexer caught up.
MCSpec ==
  /\ MCInit /\ [][MCNext]_vars
  /\ WF_vars(mode = "settlement" /\ (ReadStage \/ ReadLeft) /\ OffCard)
  /\ WF_vars(mode = "settlement" /\ ReadProof /\ OffCard) /\ WF_vars(mode = "settlement" /\ ReadHolders /\ OffCard)
  /\ WF_vars(mode = "settlement" /\ PressFinalize /\ OffCard) /\ WF_vars(mode = "settlement" /\ PressSettle /\ OffCard)
  /\ WF_vars(mode = "settlement" /\ PressRatio /\ OffCard) /\ WF_vars(mode = "settlement" /\ Wait /\ OffCard)
  /\ WF_vars(mode = "settlement" /\ FeedRecovers /\ OffCard) /\ WF_vars(mode = "settlement" /\ IndexerFollows /\ OffCard)
  /\ WF_vars(mode = "auctions" /\ ReadList /\ OffAuction) /\ WF_vars(mode = "auctions" /\ ReadTarget /\ OffAuction)
  /\ WF_vars(mode = "auctions" /\ ReadRunning /\ OffAuction)
  /\ \A u \in Underlyings : /\ WF_vars(mode = "auctions" /\ ReadAuction(u) /\ OffAuction)
                            /\ WF_vars(mode = "auctions" /\ PressEnd(u) /\ OffAuction)

-----------------------------------------------------------------------------
\* INVARIANT.  The pages of series, settlement and auctions offer what the contracts
\* accept and withhold nothing else.
PagesTrue ==
  /\ OfferedIsAccepted /\ AcceptedIsOffered
  /\ NextStepShown
  /\ OffersAreTaken /\ RunningIsShown

\* INVARIANT.  The figures of the app are right: profit and loss of what was traded,
\* and the prices at which an account falls below its maintenance margin.
FiguresExact == ProfitExact /\ SpotsAreEdges /\ SafeAsFarAsReached

\* Visitors who press what the card of a group offers, without any keeper, bring it
\* to its payouts, if the price can be proven in the end and the indexer follows.
PayoutsOpen == mode = "settlement" => <>(group.stage = "REDEEMABLE")

\* Visitors who end what the pages let them end leave no auction running on an
\* account that stays at its target.
AuctionsOver == mode = "auctions" => <>[](AtTarget(debtor) => Auctioned(debtor) = {})

\* PROPERTY.  Visitors alone bring groups and auctions to their end.
ClosingsReached == PayoutsOpen /\ AuctionsOver

=============================================================================
