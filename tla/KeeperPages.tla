----------------------------- MODULE KeeperPages -----------------------------
(***************************************************************************)
(* The pages on which visitors do the work of the keepers.                 *)
(*                                                                         *)
(* - The settlement page (pages/Settlement.tsx): the card of a group that  *)
(*   has ended offers the one step that moves it on, from queries that are *)
(*   refreshed apart from each other: the group, a proof of the price, and *)
(*   the accounts to settle, which the indexer lists.  Keepers take the same *)
(*   steps beside the visitors.                                            *)
(* - Auctions: the page of accounts that can be liquidated                 *)
(*   (pages/Liquidations.tsx) and the notice of a running auction, shown   *)
(*   there for accounts that recovered and in the portfolio of the owner   *)
(*   (components/AuctionNotice.tsx, auctionEndTarget of reads.ts).  Each part *)
(*   is read in a query of its own; LiquidationModule decides.             *)
(***************************************************************************)
EXTENDS Integers, Sequences, FiniteSets, SequencesExt

(* The settlement page *)

CONSTANTS
  Participants,  \* accounts with positions in the group, numbered as listed
  Batch,         \* accounts settled by one press
  MaxFlips       \* bound: how often a price becomes provable and stops being it

ASSUME CardAssumption == Participants \subseteq Nat /\ IsFiniteSet(Participants) /\ Batch \in Nat \ {0}

VARIABLES
  group,     \* [stage, open]: the group and the accounts not yet settled
  waited, provable,   \* may the price be fixed, and can it be proven?
  listing,   \* the accounts the indexer says have positions
  card,      \* [stage, left] as the page shows them
  half,      \* the stage read, while the participants are still being read
  proof,     \* what the proof query found: "none", "error" or "ok"
  holders,   \* [number left -> accounts listed, or NotListed]: the cached query
  flips

cardVars == <<group, waited, provable, listing, card, half, proof, holders, flips>>

NotListed == {-1}
NotReading == "nothing"

CardInit ==
  /\ group = [stage |-> "EXPIRED", open |-> Participants]
  /\ waited = FALSE /\ provable \in BOOLEAN /\ flips = 0
  /\ listing \in SUBSET Participants
  /\ card = [stage |-> "ACTIVE", left |-> 0] /\ half = NotReading
  /\ proof = "none" /\ holders = [n \in 0..Cardinality(Participants) |-> NotListed]

StageNow == IF group.stage = "FINALIZED" /\ group.open = {} THEN "ALL_SETTLED" ELSE group.stage

-----------------------------------------------------------------------------
(* The queries                                                             *)

\* getGroup: the stage and the participants come from two calls.
ReadStage == /\ half = NotReading
             /\ card # [stage |-> StageNow, left |-> Cardinality(group.open)]
             /\ half' = StageNow
             /\ UNCHANGED <<group, waited, provable, listing, card, proof, holders, flips>>
ReadLeft == /\ half # NotReading
            /\ card' = [stage |-> half, left |-> Cardinality(group.open)] /\ half' = NotReading
            /\ UNCHANGED <<group, waited, provable, listing, proof, holders, flips>>

\* Mutant: a proof is looked for until the feed is late.
NeedsPrice_InTime == card.stage = "EXPIRED"

NeedsPrice == card.stage \in {"EXPIRED", "ORACLE_STALLED"}

ReadProof == /\ NeedsPrice /\ waited
             /\ proof # (IF provable THEN "ok" ELSE "error")
             /\ proof' = IF provable THEN "ok" ELSE "error"
             /\ UNCHANGED <<group, waited, provable, listing, card, half, holders, flips>>

\* Read for a number of accounts left, and again when the window has the focus.
ReadHolders == /\ card.stage = "FINALIZED" /\ holders[card.left] # listing
               /\ holders' = [holders EXCEPT ![card.left] = listing]
               /\ UNCHANGED <<group, waited, provable, listing, card, half, proof, flips>>

-----------------------------------------------------------------------------
(* The step the card offers                                                *)

CanFinalize == NeedsPrice /\ waited /\ proof = "ok"

\* Mutant: the accounts are those read first.
Listed_First == LET read == {n \in DOMAIN holders : holders[n] # NotListed}
                IN IF read = {} THEN {} ELSE holders[Max(read)]

Listed == IF holders[card.left] = NotListed THEN {} ELSE holders[card.left]

\* The first ones of the list.
NextBatch == {a \in Listed : Cardinality({b \in Listed : b < a}) < Batch}

StepOffered ==
  CASE card.stage \in {"EXPIRED", "ORACLE_STALLED"} -> IF CanFinalize THEN "finalize" ELSE "none"
    [] card.stage = "FINALIZED" -> IF Listed # {} THEN "settle" ELSE "none"
    [] card.stage = "ALL_SETTLED" -> "ratio"
    [] OTHER -> "none"

\* After a press that went through everything is read again.
Reread == /\ holders' = [n \in DOMAIN holders |-> IF n = card.left /\ card.stage = "FINALIZED" THEN listing ELSE NotListed]
          /\ UNCHANGED <<waited, provable, listing, card, half, proof, flips>>

\* finalizeSteps: the proof is built anew.
PressFinalize == /\ StepOffered = "finalize" /\ group.stage \in {"EXPIRED", "ORACLE_STALLED"} /\ provable
                 /\ group' = [group EXCEPT !.stage = "FINALIZED"] /\ Reread

\* settleAccountsGroup passes over accounts that are settled.
PressSettle == /\ StepOffered = "settle" /\ group.stage = "FINALIZED"
               /\ group' = [group EXCEPT !.open = @ \ NextBatch] /\ Reread

PressRatio == /\ StepOffered = "ratio" /\ StageNow = "ALL_SETTLED"
              /\ group' = [group EXCEPT !.stage = "REDEEMABLE"] /\ Reread

-----------------------------------------------------------------------------
(* The chain, its keepers and the indexer                                  *)

PageUnchanged == UNCHANGED <<card, half, proof, holders>>

Wait == ~waited /\ waited' = TRUE /\ PageUnchanged /\ UNCHANGED <<group, provable, listing, flips>>
Late == /\ waited /\ group.stage = "EXPIRED" /\ group' = [group EXCEPT !.stage = "ORACLE_STALLED"]
        /\ PageUnchanged /\ UNCHANGED <<waited, provable, listing, flips>>
FeedBreaks == provable /\ flips < MaxFlips /\ flips' = flips + 1 /\ provable' = FALSE
                /\ PageUnchanged /\ UNCHANGED <<group, waited, listing>>
FeedRecovers == ~provable /\ provable' = TRUE /\ PageUnchanged /\ UNCHANGED <<group, waited, listing, flips>>

Keeper ==
  /\ \/ /\ waited /\ provable /\ group.stage \in {"EXPIRED", "ORACLE_STALLED"}
        /\ group' = [group EXCEPT !.stage = "FINALIZED"]
     \/ /\ group.stage = "FINALIZED" /\ \E a \in group.open : group' = [group EXCEPT !.open = @ \ {a}]
     \/ StageNow = "ALL_SETTLED" /\ group' = [group EXCEPT !.stage = "REDEEMABLE"]
  /\ PageUnchanged /\ UNCHANGED <<waited, provable, listing, flips>>

\* A row goes when its account is settled, and comes late.
IndexerFollows == listing # group.open /\ listing' = group.open
                    /\ PageUnchanged /\ UNCHANGED <<group, waited, provable, flips>>

CardNext == ReadStage \/ ReadLeft \/ ReadProof \/ ReadHolders
            \/ PressFinalize \/ PressSettle \/ PressRatio
            \/ Wait \/ Late \/ FeedBreaks \/ FeedRecovers \/ Keeper \/ IndexerFollows

-----------------------------------------------------------------------------
\* Everything the card is made of is up to date.
CardCurrent == /\ card = [stage |-> StageNow, left |-> Cardinality(group.open)]
               /\ proof = IF NeedsPrice /\ waited THEN IF provable THEN "ok" ELSE "error" ELSE proof
               /\ card.stage = "FINALIZED" => holders[card.left] = group.open

\* INVARIANT.  A card that is up to date shows "what is happening now, and the
\* one action that moves it forward" (Settlement.tsx): the step the contract takes
\* next, in every state that is not a wait for time or for the feed.
NextStepShown ==
  CardCurrent =>
    StepOffered = CASE group.stage \in {"EXPIRED", "ORACLE_STALLED"} -> IF waited /\ provable THEN "finalize" ELSE "none"
                    [] StageNow = "FINALIZED" -> "settle"
                    [] StageNow = "ALL_SETTLED" -> "ratio"
                    [] OTHER -> "none"

-----------------------------------------------------------------------------
(* Auctions *)

CONSTANTS
  Underlyings,   \* buckets of the account
  BufferTenths,  \* the target above the initial margin
  StartDebtors,  \* accounts to begin with
  MaxDebtCash, MaxQty,  \* bounds: cash, options short in a bucket
  MaxTurns       \* bound: what happens to the account beside the pages

ASSUME AuctionAssumption ==
  /\ BufferTenths \in Nat /\ MaxDebtCash \in Nat /\ MaxQty \in Nat /\ IsFiniteSet(Underlyings)
  /\ StartDebtors \subseteq [cash : Int, short : [Underlyings -> Int], expired : [Underlyings -> BOOLEAN],
                             auction : [Underlyings -> {"none", "young", "old"}], stress : {1, 2}]

VARIABLES
  debtor,   \* the account: cash, short options and expired ones by bucket, auctions
  view,     \* what the pages have read of it
  slider,   \* quarters of a bucket the visitor chose
  answer,   \* the last button: why it was refused and whether the page was current
  turns

auctionVars == <<debtor, view, slider, answer, turns>>

NoAnswer == [action |-> "none"]

\* Shares of a bucket in quarters; an auction that is old sells it whole.
MinSlice == 1
MaxSlice == 2
Whole == 4

AuctionInit ==
  /\ debtor \in StartDebtors
  /\ view = [below |-> FALSE, listed |-> {}, auction |-> [u \in Underlyings |-> "none"],
             equity |-> 0, target |-> 1, running |-> {}]
  /\ slider = MaxSlice /\ answer = NoAnswer /\ turns = 0

-----------------------------------------------------------------------------
(* Margin: an option is a liability of `stress' and needs as much again to *)
(* keep and twice as much to open.                                         *)

Sold(d) == Cardinality({p \in Underlyings \X (1..MaxQty) : p[2] <= d.short[p[1]]})

EquityOf(d) == d.cash - d.stress * Sold(d)
Maintenance(d) == d.stress * Sold(d)
Initial(d) == 2 * Maintenance(d)

\* _target, rounded up.
Target(d) == (Initial(d) * (10 + BufferTenths) + 9) \div 10

Covers(equity, need) == equity >= 0 /\ equity >= need

BelowLine(d) == ~Covers(EquityOf(d), Maintenance(d))
AtTarget(d) == Covers(EquityOf(d), Target(d))

\* bucketsOf: expired positions count until they are settled.
Open(d) == {u \in Underlyings : d.short[u] > 0 \/ d.expired[u]}
Auctioned(d) == {u \in Underlyings : d.auction[u] # "none"}

-----------------------------------------------------------------------------
(* The queries                                                             *)

Reads(new) == view # new /\ view' = new /\ answer' = NoAnswer /\ UNCHANGED <<debtor, slider, turns>>

ReadList == Reads([view EXCEPT !.below = EquityOf(debtor) < Maintenance(debtor)])
ReadBuckets == Reads([view EXCEPT !.listed = Open(debtor)])
ReadAuction(u) == Reads([view EXCEPT !.auction[u] = debtor.auction[u]])
\* auctionEndTarget.
TargetShown(d) == Target(d)

ReadTarget == Reads([view EXCEPT !.equity = EquityOf(debtor), !.target = TargetShown(debtor)])
ReadRunning == Reads([view EXCEPT !.running = Auctioned(debtor)])

UpToDate == view = [below |-> BelowLine(debtor), listed |-> Open(debtor), auction |-> debtor.auction,
                    equity |-> EquityOf(debtor), target |-> TargetShown(debtor), running |-> Auctioned(debtor)]

-----------------------------------------------------------------------------
(* What the pages offer                                                    *)

\* AccountCard: a row for each bucket of an account below the line.
Card == IF view.below THEN view.listed ELSE {}

\* RecoveredAuctions: what runs on accounts that are not in the list.
Recovered == IF view.below THEN {} ELSE view.running

\* AuctionNotice shows nothing of an auction it reads as not running.
Notices(page) == {u \in IF page = "portfolio" THEN view.listed ELSE Recovered : view.auction[u] # "none"}

CanEnd == view.equity >= 0 /\ view.equity >= view.target

\* SliceBucket: the slider's value, held to what the auction allows.
SliceShown(u) ==
  LET most == IF view.auction[u] = "old" THEN Whole ELSE MaxSlice
  IN IF slider > most THEN most ELSE IF slider < MinSlice THEN MinSlice ELSE slider

OffersStart(u) == u \in Card /\ view.auction[u] = "none"
OffersSlice(u) == u \in Card /\ view.auction[u] # "none"
OffersEnd(u) == CanEnd /\ \E page \in {"portfolio", "auctions"} : u \in Notices(page)

Slide == \E n \in {MinSlice, MaxSlice, Whole} :
  /\ n # slider /\ slider' = n
  /\ n = Whole => \E u \in Underlyings : view.auction[u] = "old"
  /\ answer' = NoAnswer /\ UNCHANGED <<debtor, view, turns>>

-----------------------------------------------------------------------------
(* LiquidationModule                                                       *)

If(c, reason) == IF c THEN {reason} ELSE {}

Moved(u, share) == (debtor.short[u] * share) \div Whole

WhyNot(action, u, share) ==
  CASE action = "start" -> If(debtor.auction[u] # "none", "AuctionActive")
         \cup If(debtor.short[u] = 0, "EmptyBucket") \cup If(~BelowLine(debtor), "NotLiquidatable")
    [] action = "slice" -> If(debtor.auction[u] = "none", "AuctionNotActive")
         \cup If(share \notin MinSlice..(IF debtor.auction[u] = "old" THEN Whole ELSE MaxSlice), "SliceOutOfBounds")
         \cup If(AtTarget(debtor), "NotLiquidatable") \cup If(Moved(u, share) = 0, "HealthNotImproved")
    [] action = "end" -> If(debtor.auction[u] = "none", "AuctionNotActive")
         \cup If(debtor.short[u] > 0 /\ ~AtTarget(debtor), "AuctionActive")

\* The positions move with what they are worth, as far as the account has it.
Sliced(u, share) ==
  LET moved == Moved(u, share)
      after == [debtor EXCEPT !.short[u] = @ - moved,
                              !.cash = IF @ > moved * debtor.stress THEN @ - moved * debtor.stress ELSE 0]
  IN IF after.short[u] = 0 \/ AtTarget(after) THEN [after EXCEPT !.auction[u] = "none"] ELSE after

Effects(action, u, share) ==
  CASE action = "start" -> [debtor EXCEPT !.auction[u] = "young"]
    [] action = "slice" -> Sliced(u, share)
    [] action = "end" -> [debtor EXCEPT !.auction[u] = "none"]

Tries(action, u, share) ==
  LET why == WhyNot(action, u, share) IN
  /\ debtor' = IF why = {} THEN Effects(action, u, share) ELSE debtor
  /\ answer' = [action |-> action, refused |-> why, current |-> UpToDate]
  /\ UNCHANGED <<view, slider, turns>>

PressStart(u) == OffersStart(u) /\ Tries("start", u, 0)
PressSlice(u) == OffersSlice(u) /\ Tries("slice", u, SliceShown(u))
PressEnd(u) == OffersEnd(u) /\ Tries("end", u, 0)

-----------------------------------------------------------------------------
(* The market, the owner and time                                          *)

Turn(d) == /\ turns < MaxTurns /\ turns' = turns + 1 /\ debtor' = d
           /\ answer' = NoAnswer /\ UNCHANGED <<view, slider>>

Shock == Turn([debtor EXCEPT !.stress = 3 - @])
PaysIn == Turn([debtor EXCEPT !.cash = MaxDebtCash])
Grows(u) == debtor.auction[u] = "young" /\ Turn([debtor EXCEPT !.auction[u] = "old"])
ClosesShort(u) == debtor.short[u] > 0 /\ Turn([debtor EXCEPT !.short[u] = @ - 1])
Expires(u) == debtor.short[u] > 0 /\ Turn([debtor EXCEPT !.short[u] = 0, !.expired[u] = TRUE])
Settled(u) == debtor.expired[u] /\ Turn([debtor EXCEPT !.expired[u] = FALSE])

AuctionNext ==
  \/ ReadList \/ ReadBuckets \/ ReadTarget \/ ReadRunning \/ Slide
  \/ Shock \/ PaysIn
  \/ \E u \in Underlyings : \/ ReadAuction(u) \/ PressStart(u) \/ PressSlice(u) \/ PressEnd(u)
                            \/ Grows(u) \/ ClosesShort(u) \/ Expires(u) \/ Settled(u)

-----------------------------------------------------------------------------
\* INVARIANT.  What pages that are up to date offer, LiquidationModule accepts:
\* auctions start below the line, slices keep to the bounds of their auction's age
\* wherever the slider stood before, and an auction ends from the target on,
\* rounded as the contract rounds it.  Two things the pages cannot tell: a bucket
\* may hold expired positions only, and a slice may be too small to move anything.
OffersAreTaken ==
  answer # NoAnswer /\ answer.current =>
    answer.refused \subseteq {"EmptyBucket", "HealthNotImproved"}

\* INVARIANT.  An auction on a bucket that is open, or of an account above the
\* line, is on the page of auctions once: in the account's card or in a notice.
RunningIsShown ==
  UpToDate => \A u \in Auctioned(debtor) :
    u \in Open(debtor) \/ ~BelowLine(debtor) =>
      (u \in Card /\ OffersSlice(u)) # (u \in Notices("auctions"))

-----------------------------------------------------------------------------
(* estimateLiquidationSpots (lib/optara/reads.ts): the prices above and    *)
(* below today's at which an account falls below its maintenance margin,   *)
(* searched in steps and then by halves, as far as the views can price.    *)

CONSTANTS
  Spot,
  Edges,       \* [up, down]: at or above `up', and at or below `down', the account is below
  Ranges,      \* [from, to, gap]: prices the views can work with
  NoSpot

\* Prices are counted in units that sixteen halvings of the widest step, half of
\* today's price, can tell apart.
ASSUME SpotsAssumption ==
  Spot \in Nat \ {0} /\ Spot <= 131070 /\ NoSpot \notin Int /\ Edges \subseteq [up : Int, down : Int]

VARIABLES edges, priced, found

spotVars == <<edges, priced, found>>

NotSearched == [up |-> NoSpot, down |-> NoSpot, upTo |-> NoSpot, downTo |-> NoSpot]

SpotsInit == edges \in Edges /\ priced \in Ranges /\ found = NotSearched

\* Factors in hundredths.
Ups == <<105, 110, 115, 120, 130, 140, 155, 170, 190, 210, 250, 300>>
Downs == <<95, 90, 85, 80, 70, 60, 50, 40, 30, 20>>
Halvings == 16

Priced(s) == s >= priced.from /\ s <= priced.to /\ s \notin priced.gap
Below(s) == s >= edges.up \/ s <= edges.down

\* One halving of the step in which the account falls below.
Halve(r, up) ==
  LET mid == (r.lo + r.hi) \div 2 IN
  IF r.stop \/ ~Priced(mid) THEN [r EXCEPT !.stop = TRUE]
  ELSE IF Below(mid) = up THEN [r EXCEPT !.hi = mid] ELSE [r EXCEPT !.lo = mid]

Halved(r, up) == FoldLeft(LAMBDA h, i : Halve(h, up), r, [i \in 1..Halvings |-> i])

Bisect(safe, s) ==
  LET up == safe < s
      end == Halved([lo |-> IF up THEN safe ELSE s, hi |-> IF up THEN s ELSE safe, stop |-> FALSE], up)
  IN IF up THEN end.hi ELSE end.lo

Probe(r, factor) ==
  LET s == (Spot * factor) \div 100 IN
  IF r.over THEN r
  ELSE IF ~Priced(s) THEN [r EXCEPT !.over = TRUE]
  ELSE IF Below(s) THEN [hit |-> Bisect(r.safe, s), reached |-> s, safe |-> r.safe, over |-> TRUE]
  ELSE [r EXCEPT !.safe = s, !.reached = s]

Search(factors) == FoldLeft(Probe, [hit |-> NoSpot, reached |-> Spot, safe |-> Spot, over |-> FALSE], factors)

Estimate ==
  /\ found = NotSearched
  /\ found' = IF ~Priced(Spot) THEN NotSearched
              ELSE IF Below(Spot) THEN [NotSearched EXCEPT !.up = Spot, !.down = Spot]
              ELSE [up |-> Search(Ups).hit, down |-> Search(Downs).hit,
                    upTo |-> Search(Ups).reached, downTo |-> Search(Downs).reached]
  /\ UNCHANGED <<edges, priced>>

-----------------------------------------------------------------------------
Searched == found.upTo # NoSpot

\* INVARIANT.  The price shown is the first that is below, to the unit, on either
\* side: the account is below there and not one unit nearer, unless the views could
\* not price within that step.
SpotsAreEdges ==
  Searched =>
    /\ found.up # NoSpot => found.up = edges.up \/ \E s \in Spot..found.up : ~Priced(s)
    /\ found.down # NoSpot => found.down = edges.down \/ \E s \in found.down..Spot : ~Priced(s)

\* INVARIANT.  Where no price is shown the account is safe as far as the search
\* says it got, and that far the views could price.
SafeAsFarAsReached ==
  Searched =>
    /\ found.up = NoSpot => Priced(found.upTo) /\ edges.up > found.upTo
    /\ found.down = NoSpot => Priced(found.downTo) /\ edges.down < found.downTo

=============================================================================
