--------------------------- MODULE SettlementOracle ---------------------------
(***************************************************************************)
(* SettlementOracle.sol: immutable configurations, and the rule that a     *)
(* settlement price is the round in force at the end of the observation    *)
(* window, proved by its caller with the round's immediate successor or by *)
(* its being the latest.  Each configuration settles one group here, with   *)
(* the price that SettlementWindow.finalizeGroup writes once.              *)
(***************************************************************************)
EXTENDS Integers, FiniteSets

-----------------------------------------------------------------------------
(* Chainlink feeds as the oracles use them, behind a proxy (external):     *)
(* rounds have ids made of a phase and a round of that phase's aggregator, *)
(* are stamped with the time they are written, and are never changed       *)
(* (docs/ORACLES.md:227, contract/test/mocks/MockAggregator.sol).  A read  *)
(* may fail for a while.                                                   *)

CONSTANTS
  Feeds,
  Answers,          \* the answers a round may carry; some are not positive
  PhaseSteps,       \* how many phases a switch of the aggregator moves on
  Answered, Outages,  \* whether rounds may stay unanswered, which reads may fail
  MaxTimestamp, MaxRounds  \* bounds of the instance: clock, rounds of a feed

ASSUME FeedsAssumption ==
  /\ Answers \subseteq Int
  /\ PhaseSteps \subseteq Nat \ {0}
  /\ Answered \subseteq BOOLEAN
  /\ Outages \subseteq {"NONE", "LATEST", "ALL"}
  /\ MaxTimestamp \in Nat /\ MaxRounds \in Nat

\* A round is unanswered when it only repeats the answer of an earlier round
\* (answeredInRound < roundId).
Round == [phase : Nat \ {0}, agg : Nat \ {0}, answer : Answers,
          updatedAt : Nat, answered : BOOLEAN]

VARIABLES
  timestamp,
  rounds,   \* the rounds each feed has written
  latest,   \* its latest round
  outage    \* reads that fail: "NONE", only "LATEST", or "ALL"

feedVars == <<timestamp, rounds, latest, outage>>

FirstRound(answer) ==
  [phase |-> 1, agg |-> 1, answer |-> answer, updatedAt |-> 0, answered |-> TRUE]

FeedsInit ==
  /\ timestamp = 0
  /\ latest \in [Feeds -> {FirstRound(answer) : answer \in Answers}]
  /\ rounds = [f \in Feeds |-> {latest[f]}]
  /\ outage = [f \in Feeds |-> "NONE"]

Write(f, phase, agg, answer, answered) ==
  LET r == [phase |-> phase, agg |-> agg, answer |-> answer,
            updatedAt |-> timestamp, answered |-> answered]
  IN /\ Cardinality(rounds[f]) < MaxRounds
     /\ rounds' = [rounds EXCEPT ![f] = @ \cup {r}]
     /\ latest' = [latest EXCEPT ![f] = r]
     /\ UNCHANGED <<timestamp, outage>>

PushRound(f, answer, answered) ==
  Write(f, latest[f].phase, latest[f].agg + 1, answer, answered)

\* The proxy moves to a new aggregator, whose rounds start at 1 again.
StartNewPhase(f, step, answer) ==
  Write(f, latest[f].phase + step, 1, answer, TRUE)

SetOutage(f, reads) ==
  /\ outage' = [outage EXCEPT ![f] = reads]
  /\ UNCHANGED <<timestamp, rounds, latest>>

Tick ==
  /\ timestamp < MaxTimestamp
  /\ timestamp' = timestamp + 1
  /\ UNCHANGED <<rounds, latest, outage>>

FeedsNext ==
  \/ Tick
  \/ \E f \in Feeds :
       \/ \E answer \in Answers, answered \in Answered : PushRound(f, answer, answered)
       \/ \E answer \in Answers, step \in PhaseSteps : StartNewPhase(f, step, answer)
       \/ \E reads \in Outages : SetOutage(f, reads)

-----------------------------------------------------------------------------
(* Reads *)

\* SettlementOracle._tryRound: the read works and the round has an answer.
Readable(f, r) == outage[f] # "ALL" /\ r \in rounds[f] /\ r.answered

\* latestRoundData works.
LatestReadable(f) == outage[f] = "NONE"

-----------------------------------------------------------------------------
(* The oracle *)

CONSTANTS
  Expiry,
  Candidates,   \* the configurations an oracle admin may try to register
  MaxOffset, MaxFinalizationDelay,   \* MAX_OFFSET, MAX_FINALIZATION_DELAY
  Wad,          \* the fixed point of a derived price
  NoFeed, NoRound, NoPrice

\* A source reads one feed, or the quotient of two.
Source == [kind : {"NONE", "DIRECT", "DERIVED"},
           feed : Feeds \cup {NoFeed}, quote : Feeds \cup {NoFeed}]

Config == [primary : Source, fallback : Source,
           startOffset : Int, endOffset : Int,
           minDelay : Nat, maxDelay : Nat, maxLegSkew : Nat]

ASSUME OracleAssumption ==
  /\ Expiry \in Nat
  /\ Candidates \subseteq Config
  /\ MaxOffset \in Nat /\ MaxFinalizationDelay \in Nat
  /\ Wad \in Nat \ {0}
  /\ NoFeed \notin Feeds
  /\ NoRound \notin Round

VARIABLES
  status,    \* of a candidate: "NONE", "APPROVED" or "REVOKED"
  settled    \* what finalizeGroup wrote for the group of a configuration

oracleVars == <<feedVars, status, settled>>

Registered(c) == status[c] # "NONE"

-----------------------------------------------------------------------------
(* Configurations *)

\* The feed answers, and its last answer is positive.
FeedLive(f) == f \in Feeds /\ LatestReadable(f) /\ latest[f].answer > 0

SourceValid(s) ==
  /\ s.kind \in {"DIRECT", "DERIVED"}
  /\ FeedLive(s.feed)
  /\ s.kind = "DIRECT"  => s.quote = NoFeed
  /\ s.kind = "DERIVED" => FeedLive(s.quote) /\ s.quote # s.feed

FallbackValid(s) ==
  IF s.kind = "NONE" THEN s.feed = NoFeed /\ s.quote = NoFeed ELSE SourceValid(s)

WindowValid(c) ==
  /\ -MaxOffset <= c.startOffset
  /\ c.startOffset <= c.endOffset
  /\ c.endOffset <= MaxOffset
  /\ c.minDelay <= c.maxDelay
  /\ c.maxDelay <= MaxFinalizationDelay
  /\ c.maxDelay > c.endOffset

RegisterConfig(c) ==
  /\ status[c] = "NONE"
  /\ SourceValid(c.primary)
  /\ FallbackValid(c.fallback)
  /\ ("DERIVED" \in {c.primary.kind, c.fallback.kind}) <=> (c.maxLegSkew # 0)
  /\ WindowValid(c)
  /\ status' = [status EXCEPT ![c] = "APPROVED"]
  /\ UNCHANGED <<feedVars, settled>>

SetConfigApproved(c, approved) ==
  /\ Registered(c)
  /\ status' = [status EXCEPT ![c] = IF approved THEN "APPROVED" ELSE "REVOKED"]
  /\ UNCHANGED <<feedVars, settled>>

-----------------------------------------------------------------------------
(* Proofs of the round in force *)

Clamp(n) == IF n < 0 THEN 0 ELSE n

WindowStart(c) == Clamp(Expiry + c.startOffset)
WindowEnd(c)   == Clamp(Expiry + c.endOffset)

\* Every round stamped up to the end is on chain once timestamp > end.
Earliest(c) ==
  IF Expiry + c.minDelay > WindowEnd(c) THEN Expiry + c.minDelay
  ELSE WindowEnd(c) + 1

\* The next round of the phase, or the first of the next phase after the last.
IsImmediateSuccessor(f, r, next) ==
  \/ next.phase = r.phase /\ next.agg = r.agg + 1
  \/ /\ next.phase = r.phase + 1 /\ next.agg = 1
     /\ ~ \E x \in rounds[f] : x.phase = r.phase /\ x.agg = r.agg + 1

\* Mutant: the round itself is not asked to come before the end.
InForce_AfterEnd(f, r, next, end) ==
  /\ Readable(f, r)
  /\ IF next = NoRound THEN LatestReadable(f) /\ r = latest[f]
     ELSE /\ Readable(f, next)
          /\ IsImmediateSuccessor(f, r, next)
          /\ next.updatedAt > end

\* The pair of a round and its successor, or none, that a caller may present.
InForce(f, r, next, end) ==
  /\ Readable(f, r)
  /\ r.updatedAt <= end
  /\ IF next = NoRound THEN LatestReadable(f) /\ r = latest[f]
     ELSE /\ Readable(f, next)
          /\ IsImmediateSuccessor(f, r, next)
          /\ next.updatedAt > end

\* The rounds of each feed for which some proof is accepted.
Proven(end) ==
  [f \in Feeds |->
     {r \in rounds[f] : \E next \in rounds[f] \cup {NoRound} : InForce(f, r, next, end)}]

-----------------------------------------------------------------------------
(* Prices *)

Leg(r, start) ==
  [valid |-> r.answer > 0 /\ r.updatedAt >= start,
   price |-> r.answer, time |-> r.updatedAt]

NoObservation == [valid |-> FALSE, price |-> 0, time |-> 0]

\* Quotient at Wad, rounded half up.
DerivedPrice(u, q) ==
  LET n == u.price * Wad
  IN n \div q.price + (IF (n % q.price) * 2 >= q.price THEN 1 ELSE 0)

Skew(u, q) == IF u.time > q.time THEN u.time - q.time ELSE q.time - u.time

Combine(u, q, maxSkew) ==
  IF /\ u.valid /\ q.valid
     /\ Skew(u, q) <= maxSkew
     /\ DerivedPrice(u, q) # 0
  THEN [valid |-> TRUE, price |-> DerivedPrice(u, q),
        time |-> IF u.time > q.time THEN u.time ELSE q.time]
  ELSE NoObservation

\* The observations of a source, given the rounds that stand for each feed.
Evaluate(s, c, standing) ==
  IF s.kind = "DIRECT"
  THEN {Leg(r, WindowStart(c)) : r \in standing[s.feed]}
  ELSE {Combine(Leg(r, WindowStart(c)), Leg(q, WindowStart(c)), c.maxLegSkew) :
          r \in standing[s.feed], q \in standing[s.quote]}

Price(o, source) == [price |-> o.price, time |-> o.time, source |-> source]

\* Mutant: the fallback is open to whoever presents it.
Select_FallbackFree(c, standing) ==
  LET primary  == Evaluate(c.primary, c, standing)
      fallback == IF c.fallback.kind # "NONE" THEN Evaluate(c.fallback, c, standing) ELSE {}
  IN {Price(o, 0) : o \in {x \in primary : x.valid}}
       \cup {Price(o, 1) : o \in {x \in fallback : x.valid}}

\* The primary if it is valid, the fallback where the primary is proved invalid.
Select(c, standing) ==
  LET primary  == Evaluate(c.primary, c, standing)
      eligible == c.fallback.kind # "NONE" /\ \E o \in primary : ~o.valid
      fallback == IF eligible THEN Evaluate(c.fallback, c, standing) ELSE {}
  IN {Price(o, 0) : o \in {x \in primary : x.valid}}
       \cup {Price(o, 1) : o \in {x \in fallback : x.valid}}

\* Every result some call of verify can have.
Verify(c) ==
  IF Registered(c) /\ timestamp >= Earliest(c) THEN Select(c, Proven(WindowEnd(c))) ELSE {}

\* SettlementWindow.finalizeGroup: the first proof that arrives is final.
FinalizeGroup(c) ==
  /\ settled[c] = NoPrice
  /\ \E p \in Verify(c) : settled' = [settled EXCEPT ![c] = p]
  /\ UNCHANGED <<feedVars, status>>

-----------------------------------------------------------------------------

OracleInit ==
  /\ FeedsInit
  /\ status = [c \in Candidates |-> "NONE"]
  /\ settled = [c \in Candidates |-> NoPrice]

OracleNext ==
  \E c \in Candidates :
    \/ RegisterConfig(c)
    \/ \E approved \in BOOLEAN : SetConfigApproved(c, approved)
    \/ FinalizeGroup(c)

OracleStep == OracleNext \/ (FeedsNext /\ UNCHANGED <<status, settled>>)

OracleSpec == OracleInit /\ [][OracleStep]_oracleVars

-----------------------------------------------------------------------------
(* Properties *)

OracleTypeOK ==
  /\ timestamp \in Nat
  /\ rounds \in [Feeds -> SUBSET Round]
  /\ latest \in [Feeds -> Round]
  /\ outage \in [Feeds -> {"NONE", "LATEST", "ALL"}]
  /\ status \in [Candidates -> {"NONE", "APPROVED", "REVOKED"}]

\* The round in force at a time, by its definition: the last one that was
\* stamped up to then (docs/ORACLES.md:217).
Later(x, r) == x.phase > r.phase \/ (x.phase = r.phase /\ x.agg > r.agg)

LastUpTo(end) ==
  [f \in Feeds |->
     {r \in rounds[f] :
        /\ r.updatedAt <= end
        /\ \A x \in rounds[f] : Later(x, r) => x.updatedAt > end}]

\* Whatever proofs callers present, across phases, with rounds written
\* between their calls and reads that fail, verify accepts only the price of
\* the rounds in force.
OnlyInForce ==
  \A c \in Candidates : Verify(c) \subseteq Select(c, LastUpTo(WindowEnd(c)))

\* Keepers who race, or come late, would all have finalized at the same price
\* from the same source (docs/ORACLES.md:219: the caller cannot choose it).
KeepersAgree ==
  \A c \in Candidates : settled[c] # NoPrice => Verify(c) \subseteq {settled[c]}

=============================================================================
