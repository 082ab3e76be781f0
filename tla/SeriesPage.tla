------------------------------ MODULE SeriesPage ------------------------------
(***************************************************************************)
(* The series page of the web app: what it offers from what it last read   *)
(* (lib/optara/availability.ts, SeriesPage, WritePanel, ManagePanel and    *)
(* RedeemPanel of pages/Series.tsx, getWriteCapacity of reads.ts), and     *)
(* what OptionClearing, the router and SettlementWindow make of it.  The   *)
(* page reads the market, the product, the account and the wallet in       *)
(* queries of their own, each refreshed when it likes.                     *)
(***************************************************************************)
EXTENDS Integers, FiniteSets

CONSTANTS
  OICap,       \* maxOpenInterestPerSeries, in options
  ShortCap,    \* the product's short cap, in underlying units
  Size,        \* contract size
  MaxChanges,  \* bound: presses and changes of the world
  MaxAbnormal  \* bound: presses while the world is not as usual

ASSUME PageAssumption == OICap \in Nat /\ ShortCap \in Nat /\ Size \in Nat \ {0}

VARIABLES
  world,    \* what the contracts hold
  shown,    \* the same as the page read it, part by part
  pressed,  \* the last button: what was refused and whether the page was current
  changes

pageVars == <<world, shown, pressed, changes>>

Actions == {"buy", "sell", "write", "wrap", "unwrap", "close", "redeem", "claim"}
Amounts == 1..2
NoPress == [action |-> "none"]

\* The world as the reads of the page cut it.
Parts == {"market", "product", "account", "wallet"}
FieldsOf(part) ==
  CASE part = "market" -> {"stage", "othersShort", "elsewhere", "tradable"}
    [] part = "product" -> {"closeOnly", "prices"}
    [] part = "account" -> {"opened", "cash", "position", "sibling", "stress", "credit"}
    [] part = "wallet" -> {"tokens"}

\* paused: by the guardian; seeded: the reserves are above their minimum.
Hidden == {"paused", "seeded"}

StartWorld == [stage |-> "ACTIVE", othersShort |-> 1, elsewhere |-> 0, tradable |-> TRUE,
               closeOnly |-> FALSE, prices |-> TRUE, opened |-> TRUE, cash |-> 6, position |-> 0,
               sibling |-> 0, stress |-> 1, credit |-> FALSE, tokens |-> 0,
               paused |-> FALSE, seeded |-> TRUE]

\* A group that has ended is "ALL_SETTLED" once no account is left in it.
GroupState(w) ==
  IF w.stage = "FINALIZED" /\ w.position = 0 /\ w.sibling = 0 /\ w.othersShort = 0
  THEN "ALL_SETTLED" ELSE w.stage

\* Before the first reads: an active group, no data, no account, no tokens.
Unread == [StartWorld EXCEPT !.tradable = FALSE, !.prices = FALSE, !.opened = FALSE, !.cash = 0]

\* An active series, with and without a hedge in the account, and one that has
\* just ended with a long or a short in the account and an option in the wallet.
Starts ==
  {[StartWorld EXCEPT !.elsewhere = e, !.sibling = s, !.position = s] : e \in {0, 1}, s \in {0, 1}}
    \cup {[StartWorld EXCEPT !.stage = "EXPIRED", !.position = p, !.tokens = 1] : p \in {-1, 1}}

PageInit ==
  /\ world \in Starts
  /\ shown = Unread /\ pressed = NoPress /\ changes = 0

-----------------------------------------------------------------------------
(* Margin: a short option in no pair with a long takes two of cash to open *)
(* and one to keep, four times that when the market moved.  Options are    *)
(* worth nothing here, and a mint costs one per option.                    *)

Maximum(x, y) == IF x > y THEN x ELSE y
Smallest(x, y) == IF x < y THEN x ELSE y

Uncovered(position, sibling) == Maximum(0, -position) + Maximum(0, sibling - Maximum(0, position))
InitialMargin(w, position) == 2 * w.stress * Uncovered(position, w.sibling)
MaintenanceMargin(w) == w.stress * Uncovered(w.position, w.sibling)

\* healthOf.
HealthOf(w) == IF w.cash >= InitialMargin(w, w.position) THEN "HEALTHY"
               ELSE IF w.cash >= MaintenanceMargin(w) THEN "CLOSE_ONLY" ELSE "LIQUIDATABLE"

FeeFor(q) == q

\* previewMint; the caps are not part of it.
PreviewMint(w, q) ==
  /\ w.cash - FeeFor(q) >= InitialMargin(w, w.position - q)
  /\ w.prices /\ w.stage = "ACTIVE" /\ ~w.closeOnly /\ w.cash >= FeeFor(q)

OpenInterest(w) == w.othersShort + Maximum(0, -w.position)
ShortNotional(w) == OpenInterest(w) * Size + w.elsewhere

-----------------------------------------------------------------------------
(* The page                                                                *)

Refresh(part) ==
  /\ \E f \in FieldsOf(part) : shown[f] # world[f]
  /\ shown' = [f \in DOMAIN shown |-> IF f \in FieldsOf(part) THEN world[f] ELSE shown[f]]
  /\ pressed' = NoPress
  /\ UNCHANGED <<world, changes>>

Current == \A f \in DOMAIN world \ Hidden : shown[f] = world[f]

\* getWriteCapacity.
Capacity(w) ==
  LET seriesLeft == Maximum(0, OICap - OpenInterest(w))
      productLeft == Maximum(0, ShortCap - ShortNotional(w)) \div Size
  IN Smallest(seriesLeft, productLeft)

\* availability(), with a wallet connected.
Available(action, c) ==
  LET state == GroupState(c) IN
  CASE action = "buy" -> state = "ACTIVE" /\ c.tradable
    [] action = "sell" -> state = "ACTIVE" /\ c.tradable /\ c.tokens > 0
    [] action = "write" -> state = "ACTIVE" /\ ~c.closeOnly /\ c.prices /\ c.opened /\ HealthOf(c) = "HEALTHY"
    [] action = "wrap" -> state = "ACTIVE" /\ c.position > 0 /\ ~c.closeOnly /\ c.prices /\ HealthOf(c) = "HEALTHY"
    [] action = "unwrap" -> state = "ACTIVE" /\ c.opened /\ c.tokens > 0
    [] action = "close" -> state \in {"ACTIVE", "EXPIRED", "ORACLE_STALLED"} /\ c.position < 0 /\ c.tokens > 0
    [] action = "redeem" -> state = "REDEEMABLE" /\ c.tokens > 0
    [] action = "claim" -> state = "REDEEMABLE" /\ c.credit

\* The amounts the panels let through; redeeming takes all tokens at once.
WriteAllowed(q, c) == q <= Capacity(c) /\ PreviewMint(c, q)

ManageAllowed(action, q, c) ==
  CASE action = "close" -> q <= Smallest(-c.position, c.tokens)
    [] action = "unwrap" -> q <= c.tokens
    [] action = "wrap" -> q <= c.position

SellAllowed(q, c) == q <= c.tokens

RedeemAllowed(q, c) == q = c.tokens

Allowed(action, q, c) ==
  CASE action = "write" -> WriteAllowed(q, c)
    [] action \in {"wrap", "unwrap", "close"} -> ManageAllowed(action, q, c)
    [] action = "sell" -> SellAllowed(q, c)
    [] action = "redeem" -> RedeemAllowed(q, c)
    [] action \in {"buy", "claim"} -> q = 1

Offered(action, q) == Available(action, shown) /\ Allowed(action, q, shown)

-----------------------------------------------------------------------------
(* The contracts                                                           *)

When(c, reason) == IF c THEN {reason} ELSE {}

\* checkOpenRisk after the ledger moved the position.
OverCap(w, position) ==
  LET after == [w EXCEPT !.position = position] IN
  OpenInterest(after) > OICap \/ ShortNotional(after) > ShortCap

\* Why the contracts would revert; nothing of what they need is missing if {}.
Refusals(action, q) ==
  LET w == world IN
  CASE action \in {"buy", "sell"} -> When(~w.tradable \/ w.stage # "ACTIVE", "MarketNotVerified")
         \cup When(action = "sell" /\ w.tokens < q, "InsufficientBalance")
    [] action = "write" ->
         When(w.paused, "ActionPaused") \cup When(~w.opened, "NotAuthorized")
           \cup When(~w.seeded, "InsuranceBelowMinimum")
           \cup When(w.stage # "ACTIVE", "SeriesNotActive") \cup When(w.closeOnly, "ProductCloseOnly")
           \cup When(OverCap(w, w.position - q), "OpenInterestCap") \cup When(~w.prices, "StalePrice")
           \cup When(w.cash < FeeFor(q) \/ w.cash - FeeFor(q) < InitialMargin(w, w.position - q), "NotHealthy")
    [] action = "wrap" ->
         When(w.paused, "ActionPaused") \cup When(w.stage # "ACTIVE", "SeriesNotActive")
           \cup When(w.position < q, "InsufficientLong") \cup When(~w.prices, "StalePrice")
           \cup When(w.cash < InitialMargin(w, w.position - q), "NotHealthy")
    [] action = "unwrap" ->
         When(w.paused, "ActionPaused") \cup When(~w.opened, "NotAuthorized")
           \cup When(w.stage # "ACTIVE", "SeriesNotActive") \cup When(w.tokens < q, "InsufficientBalance")
    [] action = "close" ->
         When(w.paused, "ActionPaused") \cup When(w.stage \in {"FINALIZED", "REDEEMABLE"}, "GroupAlreadyFinalized")
           \cup When(w.position > -q, "InsufficientShort") \cup When(w.tokens < q, "InsufficientBalance")
    [] action = "redeem" -> When(w.stage # "REDEEMABLE", "GroupNotRedeemable") \cup When(w.tokens < q, "InsufficientBalance")
    [] action = "claim" -> When(w.stage # "REDEEMABLE", "GroupNotRedeemable") \cup When(~w.credit, "NothingToClaim")

Effect(action, q) ==
  CASE action = "buy" -> [world EXCEPT !.tokens = @ + q]
    [] action \in {"sell", "redeem"} -> [world EXCEPT !.tokens = @ - q]
    [] action = "write" -> [world EXCEPT !.tokens = @ + q, !.position = @ - q, !.cash = @ - FeeFor(q)]
    [] action = "wrap" -> [world EXCEPT !.tokens = @ + q, !.position = @ - q]
    [] action \in {"unwrap", "close"} -> [world EXCEPT !.tokens = @ - q, !.position = @ + q]
    [] action = "claim" -> [world EXCEPT !.credit = FALSE, !.cash = @ + 1]

Changing == changes < MaxChanges /\ changes' = changes + 1

PressAction(action, q) ==
  /\ Changing /\ Offered(action, q)
  /\ LET why == Refusals(action, q) IN
     /\ world' = IF why = {} THEN Effect(action, q) ELSE world
     /\ pressed' = [action |-> action, q |-> q, refused |-> why, current |-> Current]
  /\ UNCHANGED shown

-----------------------------------------------------------------------------
(* Everybody else, and time                                                *)

Abnormal(w) == Cardinality({f \in {"closeOnly", "paused"} : w[f]} \cup {f \in {"prices", "tradable", "seeded"} : ~w[f]})

Becomes(w) == /\ Changing /\ world' = w /\ Abnormal(w) <= MaxAbnormal
              /\ pressed' = NoPress /\ UNCHANGED shown

Toggle(f) == Becomes([world EXCEPT ![f] = ~@])

MarketMoves == Becomes([world EXCEPT !.stress = 5 - @])

\* Other writers, whom the caps hold as well, and other devices of the user.
OthersWrite == world.stage = "ACTIVE" /\ ~OverCap([world EXCEPT !.othersShort = @ + 1], world.position)
                 /\ Becomes([world EXCEPT !.othersShort = @ + 1])
OthersClose == world.othersShort > 0 /\ world.stage \in {"ACTIVE", "EXPIRED", "ORACLE_STALLED"}
                 /\ Becomes([world EXCEPT !.othersShort = @ - 1])
OwnLiquidated == /\ HealthOf(world) = "LIQUIDATABLE" /\ world.position < 0 /\ world.stage = "ACTIVE"
                 /\ Becomes([world EXCEPT !.position = @ + 1, !.othersShort = @ + 1])

GroupExpires == world.stage = "ACTIVE" /\ Becomes([world EXCEPT !.stage = "EXPIRED"])
OracleStall == world.stage = "EXPIRED" /\ Becomes([world EXCEPT !.stage = "ORACLE_STALLED"])
FinalizePrice == world.stage \in {"EXPIRED", "ORACLE_STALLED"} /\ Becomes([world EXCEPT !.stage = "FINALIZED"])
SettleEveryone == /\ world.stage = "FINALIZED" /\ GroupState(world) # "ALL_SETTLED"
                  /\ Becomes([world EXCEPT !.credit = world.position > 0, !.position = 0, !.sibling = 0, !.othersShort = 0])
OpenPayouts == GroupState(world) = "ALL_SETTLED" /\ Becomes([world EXCEPT !.stage = "REDEEMABLE"])

PageNext ==
  \/ \E part \in Parts : Refresh(part)
  \/ \E action \in Actions, q \in Amounts : PressAction(action, q)
  \/ \E f \in {"closeOnly", "prices", "paused", "seeded", "tradable"} : Toggle(f)
  \/ MarketMoves \/ OthersWrite \/ OthersClose \/ OwnLiquidated
  \/ GroupExpires \/ OracleStall \/ FinalizePrice \/ SettleEveryone \/ OpenPayouts

-----------------------------------------------------------------------------
\* What the page does not read: pauses, the reserves, and what a long that leaves
\* the account was a hedge of (the panel asks for no previewWrap).
Unforeseen(action) == {"ActionPaused", "InsuranceBelowMinimum"}
                        \cup When(action = "wrap", "NotHealthy")

\* INVARIANT.  What a page that is up to date offers, the contracts accept, for
\* every state of the group, the market, the product and the account, up to the
\* last option the caps leave: if not, the reason is one the page cannot see.
OfferedIsAccepted ==
  pressed # NoPress /\ pressed.current => pressed.refused \subseteq Unforeseen(pressed.action)

\* INVARIANT.  A page that is up to date withholds nothing the contracts accept:
\* not the ways out while prices are stale, the market closes only or the account
\* is under water, and no option the caps still allow.  An account with a long
\* does not count: the ledger takes a mint out of the long first.  Nor does moving
\* a long out, which the page withholds where the contracts would allow it: in a
\* market that closes only and in an account that is not healthy.
AcceptedIsOffered ==
  Current => \A action \in Actions \ {"wrap"}, q \in Amounts :
    /\ Refusals(action, q) = {}
    /\ action = "write" => world.position <= 0
    /\ action = "redeem" => q = world.tokens
    /\ action \in {"buy", "claim"} => q = 1
    => Offered(action, q)

=============================================================================
