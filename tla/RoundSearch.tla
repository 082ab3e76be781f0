------------------------------ MODULE RoundSearch ------------------------------
(***************************************************************************)
(* sdk/src/settlement.ts: how the settlement keeper finds the round in     *)
(* force and its proof, by bisection over the ids of a feed.  The contract  *)
(* checks everything again; what matters is that an honest keeper finds the *)
(* proof whenever there is one.                                            *)
(***************************************************************************)
EXTENDS SettlementOracle

Id(r) == <<r.phase, r.agg>>

IsRound(f, id)  == \E r \in rounds[f] : Id(r) = id
RoundAt(f, id) == CHOOSE r \in rounds[f] : Id(r) = id

NoProof == [round |-> NoRound, next |-> NoRound]

\* The last number from lo to hi - 1 that is in passing; lo is and hi is not.
Bisect(passing, lo0, hi0) ==
  LET Half[p \in Nat \X Nat] ==
        LET lo == p[1]  hi == p[2]  mid == (lo + hi) \div 2
        IN IF hi - lo <= 1 THEN lo
           ELSE IF mid \in passing THEN Half[<<mid, hi>>] ELSE Half[<<lo, mid>>]
  IN Half[<<lo0, hi0>>]

InPhase(f, phase) == {r.agg : r \in {x \in rounds[f] : x.phase = phase}}

UpTo(f, phase, t) ==
  {r.agg : r \in {x \in rounds[f] : x.phase = phase /\ x.updatedAt <= t}}

\* Mutant: the probe stops at the first power of two it misses, not bisecting.
LastRoundOfPhase_Probed(f, phase) ==
  LET Probe[hi \in Nat] == IF hi \in InPhase(f, phase) THEN Probe[hi * 2] ELSE hi
  IN IF 1 \in InPhase(f, phase) THEN Probe[2] \div 2 ELSE 0

\* Doubling until a round is missing, then bisection; 0 for an empty phase.
LastRoundOfPhase(f, phase) ==
  LET Probe[hi \in Nat] == IF hi \in InPhase(f, phase) THEN Probe[hi * 2] ELSE hi
  IN IF 1 \in InPhase(f, phase) THEN Bisect(InPhase(f, phase), Probe[2] \div 2, Probe[2])
     ELSE 0

\* The round of f in force at t and its proof, from the latest phase down.
FindRoundInForce(f, t) ==
  LET At(phase, n) == RoundAt(f, <<phase, n>>)
      Within(phase, hi) ==
        LET lo == Bisect(UpTo(f, phase, t), 1, hi)
        IN [round |-> At(phase, lo), next |-> At(phase, lo + 1)]
      Search[p \in Nat \X Nat] ==
        LET phase == p[1]  hi == p[2]  last == LastRoundOfPhase(f, phase - 1)
        IN IF 1 \in UpTo(f, phase, t) THEN Within(phase, hi)
           ELSE IF phase <= 1 \/ last = 0 THEN NoProof
           ELSE IF last \in UpTo(f, phase - 1, t)
                THEN [round |-> At(phase - 1, last), next |-> At(phase, 1)]
                ELSE Search[<<phase - 1, last>>]
  IN IF latest[f].updatedAt <= t THEN [round |-> latest[f], next |-> NoRound]
     ELSE Search[<<latest[f].phase, latest[f].agg>>]

FeedsOf(s) ==
  CASE s.kind = "NONE"   -> {}
    [] s.kind = "DIRECT" -> {s.feed}
    [] OTHER             -> {s.feed, s.quote}

\* What the keeper shows for each feed; none where its search failed.
Found(end) ==
  [f \in Feeds |-> {FindRoundInForce(f, end)} \ {NoProof}]

\* The rounds of the found proofs that the oracle accepts.
Accepted(end) ==
  [f \in Feeds |-> {p.round : p \in {q \in Found(end)[f] : InForce(f, q.round, q.next, end)}}]

\* The keeper sends the primary if its observation is valid by its own
\* arithmetic, else the fallback with the same primary proofs.
KeeperPrice(c) == Select(c, Accepted(WindowEnd(c)))

\* The proxy has moved through its phases one by one.
Consecutive(f) ==
  \A phase \in 1..latest[f].phase : IsRound(f, <<phase, 1>>)

\* The round of f in force can be proved: reads work, no phase was skipped,
\* and the round has an answer of its own.
Provable(f, end) ==
  /\ outage[f] = "NONE" /\ Consecutive(f)
  /\ Proven(end)[f] \cap LastUpTo(end)[f] # {}

\* Whenever the rounds in force can be proved for a registered configuration, the
\* proofs the keeper finds are accepted and give the price they have to, so
\* finalization never waits for a proof that exists.
KeeperFindsProof ==
  \A c \in Candidates :
    Registered(c) /\ (\A f \in FeedsOf(c.primary) \cup FeedsOf(c.fallback) : Provable(f, WindowEnd(c))) =>
      KeeperPrice(c) = Select(c, LastUpTo(WindowEnd(c)))

=============================================================================
