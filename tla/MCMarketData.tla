---------------------------- MODULE MCMarketData ----------------------------
(***************************************************************************)
(* Three instances beside each other, told apart by `mode': the spot       *)
(* prices with faulty signers and any order of submissions; the surface    *)
(* reports with a faulty publisher; and the pushers with providers that    *)
(* fail, where the market stands still.                                    *)
(***************************************************************************)
EXTENDS MarketPushers

CONSTANTS mon, usdc, signedPair, pythPair, s1, s2, rogue, kraken, coinbase, okx, w1, A, B,
          monFeed, ethFeed

VARIABLE mode

MCBase == signedPair :> mon @@ pythPair :> mon
MCQuote == signedPair :> usdc @@ pythPair :> usdc
MCSigners == {[signers |-> {s1, s2, rogue}, threshold |-> 3],
              [signers |-> {s1, s2}, threshold |-> 2]}
MCCosigners == A :> {B} @@ B :> {}
MCPublishes == A :> {pythPair} @@ B :> {pythPair}
MCExpiries == signedPair :> {} @@ pythPair :> {Horizon + 1}
MCPushFeeds == monFeed :> "REDSTONE" @@ ethFeed :> "PYTH"

\* The market rises, and may fall again.
Rising == market[mon][1] = 200 /\ (Horizon > 1 => market[mon][2] = 400)
Flat == \A t \in Times : market[mon][t] = 200

MCInit ==
  /\ SpotInit /\ SurfaceInit /\ PushInit
  /\ kind[signedPair] = "REDSTONE" /\ kind[pythPair] = "PYTH"
  /\ \/ mode = "prices" /\ Rising
     \/ mode \in {"surfaces", "pushes", "feeds"} /\ Flat /\ rogue \notin authorized.signers

PricesNext == SpotNext({signedPair}) /\ UNCHANGED <<onChainVars, serviceVars, pushVars>>

SurfacesNext == SurfaceNext(pythPair) /\ UNCHANGED <<nodeVars, oracleVars, pushVars>>

Unasked == [t \in Times |-> 0]

\* With the pushers nothing moves but time, and no one else asks the node.
Still == /\ \A t \in Times : waiting[w1][t] > 0 =>
              (pusher.pc = "fetch" \/ "REDSTONE" \in down) /\ waiting[w1] = [Unasked EXCEPT ![t] = 1]
         /\ \A a \in Publishers : drafts[a] # NoDraft => drafts[a].report.iv = Min(Ivs)

Pushes(A1) == mode = "pushes" /\ A1 /\ Still'
Feeding(A1) == mode = "feeds" /\ A1

MCNext ==
  /\ \/ mode = "prices" /\ PricesNext
     \/ mode = "surfaces" /\ SurfacesNext
     \/ Pushes(PushNext)
     \/ Feeding(FeedsNext)
  /\ UNCHANGED mode

MCvars == <<vars, mode>>

MCSpec ==
  /\ MCInit /\ [][MCNext]_MCvars
  /\ WF_MCvars(Pushes(OracleKeeper) /\ UNCHANGED mode)
  /\ WF_MCvars(Feeding(StartFeeds) /\ UNCHANGED mode)
  /\ SF_MCvars(Pushes(Node) /\ UNCHANGED mode)
  /\ WF_MCvars(Pushes(PushTick) /\ UNCHANGED mode)
  /\ WF_MCvars(Pushes(Publishing) /\ UNCHANGED mode)
  /\ \A f \in DOMAIN PushFeeds : WF_MCvars(Feeding(PushFeed(f)) /\ UNCHANGED mode)

-----------------------------------------------------------------------------
\* PROPERTY.  The pushers keep prices, settlement feeds and surfaces fresh, each
\* in its instance (see MarketPushers).
MarketStaysFresh ==
  /\ mode = "pushes" => OthersRefreshed /\ SurfaceRefreshed
  /\ mode = "feeds" => FeedsRefreshed

=============================================================================
