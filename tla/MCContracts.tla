---------------------------- MODULE MCContracts ----------------------------
(***************************************************************************)
(* The contracts the core of the protocol rests on, one in each `mode':    *)
(* the ledger, with three series over two underlyings and two groups and   *)
(* accounts in two assets; the settlement oracle, with long histories of   *)
(* one feed or a quotient of two; roles and pauses before anything is      *)
(* deployed; and upgrades with roles as deployed.                          *)
(***************************************************************************)
EXTENDS SubAccounts, RoundSearch, UpgradeAdmin, TLC

CONSTANTS usdc, ausd, btc, eth, near, far, b1, b2, e1,
          main, quote, governor, council, calls, v1, v2

VARIABLE mode

MCSymmetry == Permutations({v1, v2})

-----------------------------------------------------------------------------
(* The ledger                                                              *)

MCAccounts == {1, 2}

Row(u, asset, g, size) ==
  [underlying |-> u, asset |-> asset, group |-> g, size |-> size]

\* Two series of one bucket in two groups, one of another bucket.
MCInfo ==
  (b1 :> Row(btc, usdc, near, 1)) @@ (b2 :> Row(btc, usdc, far, 2))
    @@ (e1 :> Row(eth, usdc, near, 1))

MCLimits == <<3, 2>>

QuantityBelow(n) == \A a \in Accounts, s \in Series : balances[a][s] \in -n..n

\* Arrays and counters: every order of opening and closing three series, with
\* balances of one unit.
Lists ==
  /\ QuantityBelow(1)
  /\ minPositionQty \in {1, InitMinQty}
  /\ limits \in {InitLimits, <<2, 1>>}
  /\ \A a \in Accounts :
       cash[a] = 0 /\ settlementAsset[a] \in {usdc, NoOne} /\ operators[a] = {}

\* Quanta, assets and cash: two series of one account, the minimum lowered.
Quanta ==
  /\ limits = InitLimits
  /\ \A s \in Series : balances[2][s] = 0 /\ balances[1][b2] = 0

ListsOrQuanta == Lists \/ Quanta

-----------------------------------------------------------------------------
(* The settlement oracle                                                   *)

Direct(f)     == [kind |-> "DIRECT", feed |-> f, quote |-> NoFeed]
Derived(f, q) == [kind |-> "DERIVED", feed |-> f, quote |-> q]
NoSource      == [kind |-> "NONE", feed |-> NoFeed, quote |-> NoFeed]

MCConfig(primary, fallback, start, skew) ==
  [primary |-> primary, fallback |-> fallback,
   startOffset |-> start, endOffset |-> 0,
   minDelay |-> 0, maxDelay |-> 2, maxLegSkew |-> skew]

\* The quotient of two feeds no more than one unit of time apart, or else the
\* second feed alone.
MCQuotient == MCConfig(Derived(main, quote), Direct(quote), -1, 1)

\* One feed alone, for long histories.
MCSingle == MCConfig(Direct(main), NoSource, -2, 0)

MCCandidates == {MCQuotient, MCSingle}

-----------------------------------------------------------------------------
(* What a history of the feeds is about    *)

\* One feed: phases that may be skipped, unanswered rounds, reads that fail.
Rounds ==
  /\ status[MCQuotient] = "NONE"
  /\ rounds[quote] = {FirstRound(1)} /\ outage[quote] = "NONE"
  /\ \A r \in rounds[main] : r.answer = 1

\* Two feeds that work: answers that are not positive, at most three rounds of one
\* and two of the other.
Sources ==
  /\ status[MCSingle] = "NONE"
  /\ \A f \in Feeds : Cardinality(rounds[f]) <= 3
  /\ Cardinality(rounds[main]) + Cardinality(rounds[quote]) <= 5
  /\ \A f \in Feeds :
       /\ outage[f] = "NONE"
       /\ \A r \in rounds[f] : r.phase = 1 /\ r.answered

RoundsOrSources == Rounds \/ Sources

-----------------------------------------------------------------------------

\* Seats change hands around one operation, or two operations stand beside each
\* other with the council that changes.
SeatsOrOperations == Len(operations) < 2 \/ (governance = Governance0 /\ pendingGovernance = Nobody)

FirstAnswers == \A f \in Feeds : latest[f] = FirstRound(1)

MCInit ==
  /\ mode \in {"ledger", "oracle", "control", "upgrades"}
  /\ Init /\ OracleInit /\ AdminInit
  /\ mode # "oracle" => FirstAnswers

MCNext ==
  /\ \/ mode = "ledger" /\ Next /\ ListsOrQuanta' /\ UNCHANGED <<oracleVars, adminVars>>
     \/ mode = "oracle" /\ OracleStep /\ RoundsOrSources' /\ UNCHANGED <<vars, adminVars>>
     \/ mode = "control" /\ ControlNext /\ UNCHANGED <<vars, oracleVars, upgradeVars>>
     \/ mode = "upgrades" /\ AdminNext /\ SeatsOrOperations' /\ UNCHANGED <<vars, oracleVars>>
  /\ UNCHANGED mode

MCSpec == MCInit /\ [][MCNext]_<<vars, oracleVars, adminVars, mode>>

=============================================================================
