----------------------------- MODULE SpotPrices -----------------------------
(***************************************************************************)
(* LiveSpotOracle: the spot price of each product, from signed packages    *)
(* (RedStone's format, which the price node serves) or from Pyth.  Anyone  *)
(* may submit any package that was ever signed, late, twice or in any      *)
(* order, and some authorized signers may be faulty; governance changes    *)
(* the provider of a product and the set of signers at any time.           *)
(***************************************************************************)
EXTENDS PriceNode

CONSTANTS
  Base, QuoteFeed,     \* [Products -> Feeds]; QuoteFeed is NoFeed for a direct source
  NoFeed,
  NodeSigners, Rogues, \* signers: the node's, and those that sign anything
  RogueValues,         \* what rogues sign
  SignerSets,          \* sets and thresholds governance may set
  MaxSpotAge, MaxConfidenceBps,
  MaxFutureSkew,       \* MAX_FUTURE_SKEW
  Unit                 \* 1e18

\* Of the signers that count, fewer than half a quorum are faulty.
ASSUME SignerAssumption ==
  /\ Base \in [Products -> Feeds] /\ NoFeed \notin Feeds
  /\ QuoteFeed \in [Products -> Feeds \cup {NoFeed}]
  /\ MaxFutureSkew \in Nat /\ Unit \in Nat /\ RogueValues \subseteq Nat
  /\ \A c \in SignerSets : /\ IsFiniteSet(c.signers) /\ c.threshold \in Nat
                           /\ 2 * Cardinality(c.signers \cap Rogues) < c.threshold
                           /\ c.threshold <= Cardinality(c.signers)

VARIABLES
  redstone,   \* [Feeds -> [price, time, spread]]: the verified medians
  pyth,       \* [Feeds -> [price, time, spread]]: the Pyth contract's store
  kind,       \* [Products -> {"REDSTONE", "PYTH"}]: the provider
  authorized, \* [signers, threshold]
  spot        \* [Products -> [price, time]]

oracleVars == <<redstone, pyth, kind, authorized, spot>>
spotVars == <<now, nodeVars, oracleVars>>

Nothing == [price |-> 0, time |-> 0, spread |-> 0]

-----------------------------------------------------------------------------
(* Packages.  A payload maps feeds to the points about them, all of one    *)
(* time: [time, value], where value maps signers to what they signed.      *)

\* Mutant: any signer of the package counts.
Counted_AnySigner(signers) == signers

Counted(signers) == signers \cap authorized.signers

Enough(signers) == Cardinality(Counted(signers)) >= authorized.threshold

Collect(point) == Counted(DOMAIN point.value)

Values(point) == [s \in Collect(point) |-> point.value[s]]

\* (max - min) / median in basis points, rounded up.
Spread(point) ==
  LET values == {point.value[s] : s \in Collect(point)}
      median == Median(Values(point))
      gap == (Max(values) - Min(values)) * Bps
  IN (gap + median - 1) \div median

\* The whole update reverts on a feed short of signers or ahead of the clock.
PayloadValid(payload) ==
  /\ authorized.threshold # 0
  /\ \A f \in DOMAIN payload :
       /\ Enough(DOMAIN payload[f].value)
       /\ payload[f].time <= now + MaxFutureSkew

Ingested(payload) == [f \in Feeds |->
  IF f \in DOMAIN payload /\ payload[f].time > redstone[f].time
  THEN [price |-> Median(Values(payload[f])), time |-> payload[f].time, spread |-> Spread(payload[f])]
  ELSE redstone[f]]

-----------------------------------------------------------------------------
(* Refreshing a product from its legs.                                     *)

Legs(p) == {Base[p], QuoteFeed[p]} \ {NoFeed}

LegsValid(p, store) == \A f \in Legs(p) : /\ store[f].price # 0
                                          /\ store[f].spread <= MaxConfidenceBps

\* The older leg decides freshness.
PublishTime(p, store) == Min({store[f].time : f \in Legs(p)})

\* Underlying/USD over asset/USD, rounded down.
Quotient(p, store) ==
  IF QuoteFeed[p] = NoFeed THEN store[Base[p]].price
  ELSE (store[Base[p]].price * Unit) \div store[QuoteFeed[p]].price

Refreshed(p, store) ==
  IF PublishTime(p, store) <= spot[p].time THEN spot[p]
  ELSE [price |-> Quotient(p, store), time |-> PublishTime(p, store)]

StoreOf(p, rs, py) == IF kind[p] = "REDSTONE" THEN rs ELSE py

CanRefresh(ps, rs, py) == \A p \in ps : /\ LegsValid(p, StoreOf(p, rs, py))
                                        /\ Quotient(p, StoreOf(p, rs, py)) # 0

\* Pyth keeps the newest price it was given (external: updatePriceFeeds).
Stored(blobs) == [f \in Feeds |-> IF f \in DOMAIN blobs /\ blobs[f].time > pyth[f].time
                                  THEN blobs[f] ELSE pyth[f]]

\* LiveSpotOracle.update: both providers' blobs, then the products, or nothing.
Update(payload, blobs, ps) ==
  LET rs == Ingested(payload)
      py == Stored(blobs)
  IN /\ DOMAIN payload # {} => PayloadValid(payload)
     /\ CanRefresh(ps, rs, py)
     /\ redstone' = rs /\ pyth' = py
     /\ spot' = [p \in Products |-> IF p \in ps THEN Refreshed(p, StoreOf(p, rs, py))
                                    ELSE spot[p]]
     /\ UNCHANGED <<kind, authorized>>

Age(p) == IF now > spot[p].time THEN now - spot[p].time ELSE 0
-----------------------------------------------------------------------------
(* Callers.                                                                *)

\* What is signed about a feed for t: by a signer of the node a price the node
\* signed for that second, by a rogue whatever it likes.
Point(t, own, rogue) ==
  [time |-> t,
   value |-> [s \in DOMAIN own \cup DOMAIN rogue |-> IF s \in DOMAIN own THEN own[s] ELSE rogue[s]]]

\* Anyone may submit signed packages, whole or in part and whenever signed: points
\* of any signers, enough of which count (the rest reverts), of a time for each
\* feed, from one answer of the node or several.
SubmitPackages(ps) ==
  /\ \E by \in SUBSET NodeSigners, rogues \in SUBSET Rogues :
     /\ Enough(by \cup rogues)
     /\ \E fs \in (SUBSET Feeds) \ {{}} :
        \E t \in [fs -> 1..now], rogue \in [rogues -> RogueValues] :
        \E own \in [fs -> UNION {[by -> signed[f][t[f]]] : f \in fs}] :
          /\ \A f \in fs : own[f] \in [by -> signed[f][t[f]]]
          /\ Update([f \in fs |-> Point(t[f], own[f], rogue)], <<>>, ps)
  /\ UNCHANGED <<now, nodeVars>>

\* Pyth's signed prices are those of the market (external: Pyth's contract
\* checks its own guardians); its confidence may be wide.
SubmitPyth(ps) ==
  /\ \E fs \in SUBSET Feeds, t \in 1..now, spread \in {0, MaxConfidenceBps + 1} :
       Update(<<>>, [f \in fs |-> [price |-> IF f = Usdc THEN Par ELSE market[f][t],
                                   time |-> t, spread |-> spread]], ps)
  /\ UNCHANGED <<now, nodeVars>>

\* Governance: another provider for a product; the stored price stays.
SetSource(p, k) ==
  /\ kind[p] # k
  /\ kind' = [kind EXCEPT ![p] = k]
  /\ UNCHANGED <<now, nodeVars, redstone, pyth, authorized, spot>>

\* Governance: replaces the signers and the threshold.
SetRedstoneSigners(c) ==
  /\ authorized # c
  /\ authorized' = c
  /\ UNCHANGED <<now, nodeVars, redstone, pyth, kind, spot>>

SpotInit ==
  /\ NodeInit
  /\ redstone = [f \in Feeds |-> Nothing] /\ pyth = [f \in Feeds |-> Nothing]
  /\ kind \in [Products -> {"REDSTONE", "PYTH"}]
  /\ authorized \in SignerSets
  /\ spot = [p \in Products |-> [price |-> 0, time |-> 0]]

SpotNext(own) ==
  \/ NodeStep /\ UNCHANGED oracleVars
  \/ Tick /\ UNCHANGED <<nodeVars, oracleVars>>
  \/ \E ps \in SUBSET own : SubmitPackages(ps) \/ SubmitPyth(ps)
  \/ \E p \in own, k \in {"REDSTONE", "PYTH"} : SetSource(p, k)
  \/ \E c \in SignerSets : SetRedstoneSigners(c)

SpotSpec == SpotInit /\ [][SpotNext(Products)]_spotVars

-----------------------------------------------------------------------------
\* What a feed was worth at t: the market's price, and those the node signed.
Worth(f, t) == {IF f = Usdc THEN Par ELSE market[f][t]} \cup signed[f][t]

\* The quotient of prices of the legs.
Composed(p, v) == IF QuoteFeed[p] = NoFeed THEN v[Base[p]] ELSE (v[Base[p]] * Unit) \div v[QuoteFeed[p]]

\* The legs at their lowest for the quotient, or at their highest: low and high
\* prices of the base, high and low ones of the quote.
Crossed(p, base, quote) == [f \in Legs(p) |-> IF f = Base[p] THEN base[f] ELSE quote[f]]

\* INVARIANT.  A stored price is a quotient of honest legs, whatever the order of
\* the submissions, the provider, the faulty signers and the answers of the node a
\* package is put together from: each leg between two prices that it was worth at
\* one time, none older than the time the quotient carries and one of exactly that
\* time.  A price that requireFreshSpot returns is never made of a leg older than
\* maxSpotAge, nor of one beyond what honest exchanges were trading at.
SpotFromHonestLegs ==
  \A p \in Products : spot[p].price # 0 =>
    \E t \in [Legs(p) -> spot[p].time .. Horizon] :
      /\ \A f \in Legs(p) : t[f] <= now + MaxFutureSkew
      /\ \E f \in Legs(p) : t[f] = spot[p].time
      /\ \E lo, hi \in [Legs(p) -> UNION {Worth(f, t[f]) : f \in Legs(p)}] :
           /\ \A f \in Legs(p) : {lo[f], hi[f]} \subseteq Worth(f, t[f])
           /\ Composed(p, Crossed(p, lo, hi)) <= spot[p].price
           /\ spot[p].price <= Composed(p, Crossed(p, hi, lo))

=============================================================================
