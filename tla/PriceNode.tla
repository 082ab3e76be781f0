----------------------------- MODULE PriceNode -----------------------------
(***************************************************************************)
(* The price node (pricenode/src/index.ts): every request asks several     *)
(* exchanges, takes a median without outliers, and has every signer sign   *)
(* the result at one timestamp.  Feeds are priced apart and may fail       *)
(* alone, except USDC, which every product is quoted in.                   *)
(*                                                                         *)
(* The answer is cached, but a request looks at the cache before it awaits *)
(* the exchanges and fills it after: requests overlap, in one isolate or   *)
(* in several, and what they sign may carry one and the same second.       *)
(*                                                                         *)
(* Prices are integers; `market' is the price at which honest exchanges    *)
(* trade at each instant, and at most FaultyLimit of the answers of one    *)
(* feed are wrong.                                                         *)
(***************************************************************************)
EXTENDS Naturals, FiniteSets, FiniteSetsExt, Functions

\* Shared with the models of the oracles and keepers.
CONSTANTS
  Products,
  Horizon    \* bound on the clock

VARIABLE
  now        \* the clock: of the services and of the chain's blocks

Times == 1..Horizon
Bps == 10000

Apart(a, b) == IF a > b THEN a - b ELSE b - a

Tick == now < Horizon /\ now' = now + 1

-----------------------------------------------------------------------------
CONSTANTS
  Assets,           \* the feeds priced from exchanges (ASSETS)
  Usdc,             \* the feed of the quote asset
  Direct, Tether,   \* exchanges that quote in USD and in USDT
  Levels,           \* prices of the market
  WrongAnswers,     \* what a faulty exchange may answer
  StableRates,      \* answers for USDT/USD and USDC/USD, in hundredths
  FaultyLimit,      \* wrong answers among one feed's, at most
  MaxDeviationBps, MinSources,
  CacheTime,        \* how long a signed answer is served again (CACHE_MS)
  AnswerTime,       \* how long a request waits for answers (TIMEOUT_MS, twice)
  Isolates,         \* instances of the Worker, each with its own cache
  MaxWaiting        \* bound: requests of an isolate that wait at a time

\* Prices are in units of which a percent is at least one.
ASSUME PriceNodeAssumption ==
  /\ Horizon \in Nat \ {0} /\ CacheTime \in Nat \ {0}
  /\ AnswerTime \in Nat /\ MaxWaiting \in Nat
  /\ Usdc \notin Assets /\ Direct \cap Tether = {} /\ IsFiniteSet(Direct \cup Tether)
  /\ Levels \subseteq Nat /\ \A level \in Levels : level >= 100
  /\ WrongAnswers \subseteq Nat \ {0} /\ StableRates \subseteq Nat \ {0}
  /\ FaultyLimit \in Nat /\ MinSources \in Nat /\ FaultyLimit < MinSources
  /\ MaxDeviationBps \in 0..Bps

VARIABLES
  market,   \* [Assets -> [time -> price]]
  waiting,  \* [Isolates -> [time -> how many requests of then await answers]]
  signed,   \* [Feeds -> [time -> the prices signed for that second]]
  served    \* [Isolates -> [at, price]]: the answer in the cache

nodeVars == <<market, waiting, signed, served>>

Feeds == Assets \cup {Usdc}
Par == 100

-----------------------------------------------------------------------------
(* Aggregation.  `quotes' maps the exchanges that answered to their prices. *)

\* The i-th smallest price.
Nth(quotes, i) == CHOOSE p \in {quotes[e] : e \in DOMAIN quotes} :
  /\ Cardinality({e \in DOMAIN quotes : quotes[e] < p}) < i
  /\ Cardinality({e \in DOMAIN quotes : quotes[e] <= p}) >= i

Median(quotes) == LET n == Cardinality(DOMAIN quotes) IN
  IF n % 2 = 1 THEN Nth(quotes, (n + 1) \div 2)
  ELSE (Nth(quotes, n \div 2) + Nth(quotes, n \div 2 + 1)) \div 2

Agreeing(quotes) == LET m0 == Median(quotes) IN
  {e \in DOMAIN quotes : Apart(quotes[e], m0) * Bps <= MaxDeviationBps * m0}

\* Mutant: any source is enough, as for USDC.
Agree_AnyOne(quotes, minSources) == Agreeing(quotes) # {}

Agree(quotes, minSources) == Cardinality(Agreeing(quotes)) >= minSources

\* The price, or 0 where the code throws: nobody answered, or too few agree.
Aggregate(quotes, minSources) ==
  IF DOMAIN quotes # {} /\ Agree(quotes, minSources)
  THEN Median([e \in Agreeing(quotes) |-> quotes[e]])
  ELSE 0

OnPeg(price) == price > 97 /\ price < 103

\* What an asset can be priced at, 0 included, while it traded at the levels
\* `seen': some exchanges do not answer, some answer wrongly, the others with the
\* level when they did; USDT markets are converted.
AssetPrices == UNION {{[seen |-> seen, price |->
    Aggregate([e \in up |-> IF e \in DOMAIN bad THEN bad[e]
                            ELSE IF e \in Tether THEN (level[e] * rate) \div Par
                            ELSE level[e]], MinSources)] :
     up \in SUBSET (Direct \cup Tether),
     bad \in UNION {[B -> WrongAnswers] : B \in {B \in SUBSET (Direct \cup Tether) :
                                                  Cardinality(B) <= FaultyLimit}},
     level \in [Direct \cup Tether -> seen],
     rate \in {r \in StableRates \cup {Par} : OnPeg(r)}} : seen \in (SUBSET Levels) \ {{}}}

\* One answer is enough for USDC; a price off the peg is none.
UsdcPrices == {p \in {Aggregate(quotes, 1) :
                        quotes \in UNION {[up -> StableRates] : up \in SUBSET Direct}} :
                 OnPeg(p)}

\* What a feed can be priced at from answers of the instants from..to.
PricesOf(f, from, to) ==
  IF f = Usdc THEN UsdcPrices
  ELSE {a.price : a \in {a \in AssetPrices : a.seen = {market[f][t] : t \in from..to}}}

-----------------------------------------------------------------------------
Empty == [at |-> 0, price |-> <<>>]

NodeInit ==
  /\ now = 1
  /\ market \in [Assets -> [Times -> Levels]]
  /\ waiting = [i \in Isolates |-> [t \in Times |-> 0]]
  /\ signed = [f \in Feeds |-> [t \in Times |-> {}]]
  /\ served = [i \in Isolates |-> Empty]

\* The clock tells seconds: an answer that is younger than the cache keeps one,
\* and one that may still be.
Cached(i) == served[i] # Empty /\ now - served[i].at < CacheTime
MaybeCached(i) == served[i] # Empty /\ now - served[i].at <= CacheTime

\* A request that the cache does not answer asks the exchanges.
Ask(i) ==
  /\ ~Cached(i) /\ SumFunction(waiting[i]) < MaxWaiting
  /\ waiting' = [waiting EXCEPT ![i][now] = @ + 1]
  /\ UNCHANGED <<now, market, signed, served>>

Ends(i, t) ==
  /\ waiting[i][t] > 0
  /\ waiting' = [waiting EXCEPT ![i][t] = @ - 1]

\* The exchanges have answered a request of t, in time: what can be priced all
\* signers sign for the second it is by then, and it is served again for a while.
Sign(i, t) ==
  /\ Ends(i, t) /\ now - t <= AnswerTime
  /\ \E priced \in {S \cup {Usdc} : S \in (SUBSET Assets) \ {{}}} :
     \E price \in [priced -> UNION {PricesOf(f, t, now) : f \in priced}] :
       /\ \A f \in priced : price[f] # 0 /\ price[f] \in PricesOf(f, t, now)
       /\ \A f \in Feeds \ priced : 0 \in PricesOf(f, t, now)
       /\ signed' = [f \in Feeds |->
            IF f \in priced THEN [signed[f] EXCEPT ![now] = @ \cup {price[f]}] ELSE signed[f]]
       /\ served' = [served EXCEPT ![i] = [at |-> now, price |-> price]]
  /\ UNCHANGED <<now, market>>

\* Too few agree, USDT or USDC is off its peg, or no answer came in time: nothing
\* is signed (503).
Refuse(i, t) == Ends(i, t) /\ UNCHANGED <<now, market, signed, served>>

NodeStep == \E i \in Isolates : Ask(i) \/ \E t \in Times : Sign(i, t) \/ Refuse(i, t)

-----------------------------------------------------------------------------
\* Within twice the allowed deviation, and the band in which a USDT rate is believed.
Near(price, level) ==
  100 * Apart(price, level) * (Bps - MaxDeviationBps) <= (206 * MaxDeviationBps + 30000) * level

\* INVARIANT.  Every signed price is near what the market was at the second it
\* carries, or little before: not longer than a request waits.  However few
\* exchanges answer, and whenever each does, an honest one is among those the
\* median is taken of.
SignedNearMarket ==
  \A f \in Assets, t \in Times : \A price \in signed[f][t] :
    \E s \in Times : s <= t /\ t - s <= AnswerTime /\ Near(price, market[f][s])

=============================================================================
