--------------------------- MODULE MarketPushers ---------------------------
(***************************************************************************)
(* The keepers that bring market data on chain: OraclePusher, which sends  *)
(* one updateOracles transaction for all products that are due, and        *)
(* FeedPusher, which keeps the testnet settlement feeds current.  Between  *)
(* reading the chain, asking the providers and sending, users submit newer *)
(* data, publishers sign newer reports, and providers fail.                *)
(***************************************************************************)
EXTENDS SpotPrices, SurfaceReports

CONSTANTS
  OpenInterest,   \* the products with open interest
  RefreshSeconds, \* idle products: push when the surface is this old (0: never)
  ActiveSeconds,  \* products with open interest: likewise (0: option absent)
  PublisherUrl,   \* the service the pusher asks
  PushFeeds,      \* [testnet feeds -> the provider that serves its ids]
  IntervalSeconds,\* how old a round may get
  MaxFaults       \* bound on failures

VARIABLES
  down,    \* the providers that do not answer
  faults,  \* failures so far
  pusher,  \* [pc, at, left, products, update, payload, blobs]
  feeds    \* [due, round]: FeedPusher's work and the feeds' last rounds

pushVars == <<down, faults, pusher, feeds>>
vars == <<now, nodeVars, oracleVars, onChainVars, serviceVars, pushVars>>

Providers == {"REDSTONE", "PYTH"}
Idle == [pc |-> "idle"]
NoUpdates == [p \in Products |-> None]

-----------------------------------------------------------------------------
(* OraclePusher.tick                                                       *)

\* How old data may get: 0 for never pushed, maxSpotAge / 2 by default.
SpotLimit(p) ==
  IF p \notin OpenInterest THEN RefreshSeconds
  ELSE IF ActiveSeconds # 0 THEN ActiveSeconds ELSE MaxSpotAge \div 2

\* Products pushed by the age of their surface are skipped while it is young.
Skipped(p, at) ==
  LET every == IF p \in OpenInterest THEN ActiveSeconds ELSE RefreshSeconds IN
  \/ p \notin OpenInterest /\ every = 0
  \/ every # 0 /\ header[p].seq # 0 /\ at < header[p].validAfter + every

StartTick ==
  /\ pusher = Idle
  /\ pusher' = [pc |-> "check", at |-> now, left |-> Products, products |-> {},
                update |-> NoUpdates]
  /\ UNCHANGED <<now, nodeVars, oracleVars, onChainVars, serviceVars, down, faults, feeds>>

\* The publisher's latest report if newer than the chain's and in force, with
\* the leaves of its sequence number.
NewerReport(p, at) ==
  LET newer == {s \in Latest(PublisherUrl, p) : s.report.seq > header[p].seq
                                                /\ s.report.expiresAt > at}
  IN [reports |-> newer, nodes |-> newer]

\* A new surface is only useful with a fresh spot: its product is added.
CheckProduct(p) ==
  /\ pusher.pc = "check" /\ p \in pusher.left
  /\ LET u == IF Skipped(p, pusher.at) THEN None ELSE NewerReport(p, pusher.at)
         due == ~Skipped(p, pusher.at) /\ pusher.at >= spot[p].time + SpotLimit(p)
         left == pusher.left \ {p}
         products == IF due \/ u # None THEN pusher.products \cup {p} ELSE pusher.products
     IN pusher' = IF left = {} /\ products = {} THEN Idle
                  ELSE [pusher EXCEPT !.left = left, !.products = products, !.update[p] = u,
                                      !.pc = IF left = {} THEN "fetch" ELSE "check"]
  /\ UNCHANGED <<now, nodeVars, oracleVars, onChainVars, serviceVars, down, faults, feeds>>

\* The products asked of a provider together (spotUpdatesByProduct).
Group(p) == {q \in pusher.products : kind[q] = kind[p]}

GroupLegs(p) == UNION {Legs(q) : q \in Group(p)}

\* A provider answers when it is up; an answer of the node has the feeds asked for
\* when it could price them all.
Answered(p, answer) == /\ kind[p] \notin down
                       /\ kind[p] = "REDSTONE" => GroupLegs(p) \subseteq DOMAIN answer.price

NodeAsked(ps) == (\E p \in ps : kind[p] = "REDSTONE") /\ "REDSTONE" \notin down

\* What the node answers: what one of its isolates signed for this request or has
\* in its cache (see Sign).
Answers == {served[i] : i \in {i \in Isolates : MaybeCached(i)}}

Fetch ==
  /\ pusher.pc = "fetch"
  /\ \E answer \in IF NodeAsked(pusher.products) THEN Answers ELSE {Empty} :
     LET ps == {p \in pusher.products : \A q \in Group(p) : Answered(q, answer)}
         fs(k) == UNION {Legs(p) : p \in {p \in ps : kind[p] = k}}
     IN pusher' = IF ps = {} /\ pusher.update = NoUpdates THEN Idle
                  ELSE [pc |-> "send", products |-> ps, update |-> pusher.update,
                        payload |-> [f \in fs("REDSTONE") |->
                                       [time |-> answer.at,
                                        value |-> [s \in NodeSigners |-> answer.price[f]]]],
                        blobs |-> [f \in fs("PYTH") |->
                                     [price |-> IF f = Usdc THEN Par ELSE market[f][now],
                                      time |-> now, spread |-> 0]]]
  /\ UNCHANGED <<now, nodeVars, oracleVars, onChainVars, serviceVars, down, faults, feeds>>

\* One transaction: all of it or, when the simulation reverts, nothing.
Send ==
  /\ pusher.pc = "send"
  /\ \/ /\ Update(pusher.payload, pusher.blobs, pusher.products)
        /\ Apply(pusher.update)
     \/ /\ ~(/\ DOMAIN pusher.payload # {} => PayloadValid(pusher.payload)
             /\ CanRefresh(pusher.products, Ingested(pusher.payload), Stored(pusher.blobs))
             /\ \A p \in Products : Applies(pusher.update[p], p))
        /\ UNCHANGED <<now, oracleVars, onChainVars, serviceVars>>
  /\ pusher' = Idle
  /\ UNCHANGED <<nodeVars, down, faults, feeds>>

-----------------------------------------------------------------------------
(* FeedPusher.tick: prices are fetched feed by feed, pushed one by one.     *)

Overdue(f) == now >= feeds.round[f] + IntervalSeconds

StartFeeds ==
  /\ feeds.due = {}
  /\ \E f \in DOMAIN PushFeeds : Overdue(f)
  /\ feeds' = [feeds EXCEPT !.due = {f \in DOMAIN PushFeeds : Overdue(f)}]
  /\ UNCHANGED <<now, nodeVars, oracleVars, onChainVars, serviceVars, down, faults, pusher>>

\* Mutant: the first feed without a price ends the pass, before the others.
NextFeed_Abort(f) == {}

NextFeed(f) == feeds.due \ {f}

PushFeed(f) ==
  /\ f \in feeds.due
  /\ feeds' = IF PushFeeds[f] \in down
              THEN [feeds EXCEPT !.due = NextFeed(f)]
              ELSE [round |-> [feeds.round EXCEPT ![f] = now], due |-> feeds.due \ {f}]
  /\ UNCHANGED <<now, nodeVars, oracleVars, onChainVars, serviceVars, down, faults, pusher>>

-----------------------------------------------------------------------------
ProviderFails(k) ==
  /\ k \notin down /\ faults < MaxFaults
  /\ down' = down \cup {k} /\ faults' = faults + 1
  /\ UNCHANGED <<now, nodeVars, oracleVars, onChainVars, serviceVars, pusher, feeds>>

ServiceRestarts ==
  /\ faults < MaxFaults /\ Restart(PublisherUrl)
  /\ faults' = faults + 1
  /\ UNCHANGED <<nodeVars, oracleVars, down, pusher, feeds>>

\* Others may bring the same market data first.
OthersUpdate(p) ==
  /\ faults < MaxFaults /\ faults' = faults + 1
  /\ UserUpdate(PublisherUrl, p)
  /\ UNCHANGED <<nodeVars, oracleVars, down, pusher, feeds>>

PushTick ==
  /\ Tick
  /\ UNCHANGED <<nodeVars, oracleVars, onChainVars, serviceVars, pushVars>>

PushInit ==
  /\ down = {} /\ faults = 0 /\ pusher = Idle
  /\ feeds = [due |-> {}, round |-> [f \in DOMAIN PushFeeds |-> 0]]

OracleKeeper == StartTick \/ Fetch \/ Send \/ \E p \in Products : CheckProduct(p)

FeedKeeper == StartFeeds \/ \E f \in DOMAIN PushFeeds : PushFeed(f)

\* What the price node and the publisher do meanwhile.  That the node cannot price
\* an answer, though nothing is down, is a fault.
Node ==
  /\ "REDSTONE" \notin down
  /\ \E i \in Isolates : Ask(i) \/ \E t \in Times : Sign(i, t)
  /\ UNCHANGED <<oracleVars, onChainVars, serviceVars, pushVars>>

NodeRefuses ==
  /\ \E i \in Isolates, t \in Times :
       /\ Refuse(i, t)
       /\ IF now - t > AnswerTime THEN UNCHANGED faults ELSE faults < MaxFaults /\ faults' = faults + 1
  /\ UNCHANGED <<oracleVars, onChainVars, serviceVars, down, pusher, feeds>>

Publishing ==
  /\ \E p \in Products, a \in Honest : \/ Build(a, p) \/ Finish(a)
                                       \/ \E b \in Publishers : CosignGranted(a, b)
  /\ UNCHANGED <<nodeVars, oracleVars, pushVars>>

\* The two keepers are processes of their own, which share the providers only.
PushNext ==
  \/ OracleKeeper \/ Node \/ NodeRefuses \/ Publishing \/ PushTick \/ ServiceRestarts
  \/ \E k \in Providers : ProviderFails(k)
  \/ \E p \in Products : OthersUpdate(p)

FeedsNext == FeedKeeper \/ PushTick \/ \E k \in Providers : ProviderFails(k)

-----------------------------------------------------------------------------
Due(p) == now >= spot[p].time + SpotLimit(p)

\* The node leaves out feeds it cannot price; then its group has no answer.
Unpriced(p) == kind[p] = "REDSTONE" /\ \E i \in Isolates :
  ~(UNION {Legs(q) : q \in Products} \subseteq DOMAIN served[i].price)

\* PROPERTIES.  A product with open interest whose spot is due is refreshed, and
\* a settlement feed whose round is old gets a new one, unless its own provider
\* is down: another provider's outage, a report that someone else submitted
\* first or a publisher's restart does not stop it.
OthersRefreshed ==
  \A p \in OpenInterest : Due(p) ~> ~Due(p) \/ kind[p] \in down \/ Unpriced(p)

FeedsRefreshed ==
  \A f \in DOMAIN PushFeeds : Overdue(f) ~> ~Overdue(f) \/ PushFeeds[f] \in down

\* The model's bounds.  A restarted service numbers from the chain: its report may
\* carry the number of one still on its way and be overtaken by it, or use one
\* more number.  The next report is then an Interval away, past the Horizon, or
\* has no number left.
OutOfBounds(p) ==
  \/ NextSeq(PublisherUrl, p) > MaxSeq
  \/ /\ now = Horizon
     /\ \E s \in Latest(PublisherUrl, p) : /\ s.report.seq <= header[p].seq
                                           /\ now < s.report.validAfter + Interval

\* PROPERTY.  A published product's surface that is not FRESH becomes so, with
\* nobody trading, after at most MaxFaults restarts, overtakings and outages.
SurfaceRefreshed ==
  \A p \in Publishes[PublisherUrl] :
    SurfaceStatus(p) # "FRESH" /\ Listed(p) # {} ~>
      SurfaceStatus(p) = "FRESH" \/ Listed(p) = {} \/ OutOfBounds(p)

=============================================================================
