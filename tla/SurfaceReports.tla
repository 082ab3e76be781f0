--------------------------- MODULE SurfaceReports ---------------------------
(***************************************************************************)
(* The volatility surface of each product: publisher services that         *)
(* calibrate, validate, cosign and serve reports (publisher/src), and      *)
(* VolSurfaceOracle, which accepts a report signed by a quorum.  Services  *)
(* work independently of each other: two of them may sign the same         *)
(* sequence number, and the chain may move between any two of their steps. *)
(*                                                                         *)
(* A report's grid of total variances is one of a few kinds: clean, with   *)
(* calendar or butterfly arbitrage (which the contract does not check),    *)
(* with a leaf outside the report's bounds, or with an at-the-money        *)
(* volatility outside them.  Its maker stands for the values themselves:   *)
(* no two makers calibrate the same numbers.  Products, clock and the      *)
(* arithmetic of deviations are those of PriceNode.                        *)
(***************************************************************************)
EXTENDS PriceNode, TLC

CONSTANTS
  Publishers,       \* the operators, each with a service and a key
  FaultyPublishers, \* those whose key also signs anything
  Independent,      \* those of the independent group
  Cosigners,        \* [Publishers -> the services it asks to cosign]
  Quorum,
  Expiries,         \* [Products -> the expiries of its listed series]
  Ivs, MaxIvMoveBps,
  MaxReportLifetime, SurfaceStaleAfter, MaxSurfaceStale,
  Remembered,             \* how many signed reports a service remembers (16)
  Interval,         \* time between two reports of a service
  Publishes,        \* [Publishers -> the products its service publishes]
  MaxSeq,           \* bound on the sequence numbers
  MaxRivals         \* bound: reports of faulty makers cosigned at a time

\* Every quorum has an honest publisher.
ASSUME PublisherAssumption ==
  /\ IsFiniteSet(Publishers) /\ Quorum \in Nat
  /\ Ivs \subseteq Nat /\ MaxIvMoveBps \in Nat
  /\ MaxReportLifetime \in Nat /\ MaxSeq \in Nat
  /\ Cosigners \in [Publishers -> SUBSET Publishers]
  /\ Cardinality(FaultyPublishers) < Quorum
  /\ FaultyPublishers \cup Independent \subseteq Publishers

VARIABLES
  header,     \* [Products -> the accepted report, or NoReport]
  proven,     \* [Products -> the reports whose leaves are cached]
  active,     \* the publishers of the contract's set
  emergency,  \* the products in emergency mode
  signatures, \* {[report, by]}: honest signatures on reports ahead of the header
  grids,      \* [Publishers -> {[report, signers, base]}]: what a service remembers
  drafts      \* [Publishers -> the report being cosigned, or NoDraft]

onChainVars == <<header, proven, active, emergency>>
serviceVars == <<signatures, grids, drafts>>
surfaceVars == <<now, onChainVars, serviceVars>>
Grids == {"clean", "arbitrage", "leaf", "atm"}
NoReport == [seq |-> 0]
NoDraft == [signers |-> {}]

Report(p, seq, iv, grid, maker) ==
  [product |-> p, seq |-> seq, validAfter |-> now, expiresAt |-> now + MaxReportLifetime,
   iv |-> iv, grid |-> grid, maker |-> maker]

-----------------------------------------------------------------------------
(* The contract.                                                           *)

SignaturesValid(signers) ==
  /\ Cardinality(signers) >= Quorum
  /\ signers \subseteq active
  /\ signers \cap Independent # {}

InSequence(r) == LET h == header[r.product] IN
  r.seq > h.seq /\ (h.seq # 0 => r.validAfter >= h.validAfter)

InTime(r) == /\ r.validAfter <= now /\ now < r.expiresAt
             /\ r.expiresAt - r.validAfter <= MaxReportLifetime

MoveAllowed(r) == LET h == header[r.product] IN
  h.seq # 0 /\ r.product \notin emergency =>
    Apart(r.iv, h.iv) * Bps <= MaxIvMoveBps * h.iv

\* What submitReport requires of a report; of the grid it checks the tenors.
Acceptable(r) == InSequence(r) /\ InTime(r) /\ r.grid # "atm" /\ MoveAllowed(r)

\* proveNodes, after `h' became the header: only leaves of that very report,
\* and inside its bounds; leaves already cached are skipped.
Provable(r, h) == r \in proven[r.product] \/ (r = h /\ r.grid # "leaf")

\* The status a consumer sees; STALE and EXPIRED_DATA close the product.
SurfaceStatus(p) ==
  IF header[p].seq = 0 THEN "NONE"
  ELSE LET age == now - header[p].validAfter IN
       IF age > MaxSurfaceStale THEN "EXPIRED_DATA"
       ELSE IF age <= SurfaceStaleAfter /\ now < header[p].expiresAt THEN "FRESH"
       ELSE "STALE"

-----------------------------------------------------------------------------
(* A service.                                                              *)

\* Mutant: the publisher leaves the move to the contract.
Violations_NoMove(r) == ~(InSequence(r) /\ InTime(r) /\ r.grid = "clean")

\* validateReport: what the contract checks, every leaf, and no arbitrage.
Violations(r) == ~(Acceptable(r) /\ r.grid = "clean")

Of(a, p) == {s \in grids[a] : s.report.product = p}

\* The latest signed report of a product: a set of one, or none.
Latest(a, p) == {s \in Of(a, p) : \A o \in Of(a, p) : o.report.seq <= s.report.seq}

SignedAt(a, p, seq) == {s \in Of(a, p) : s.report.seq = seq}

NextSeq(a, p) == Max({header[p].seq} \cup {s.report.seq : s \in Of(a, p)}) + 1

Listed(p) == {e \in Expiries[p] : e > now}

\* A faulty publisher's signature exists on everything: only others are kept.
Signature(r, by) == IF by \in FaultyPublishers THEN {} ELSE {[report |-> r, by |-> by]}

\* build: the inputs may be missing, then nothing happens; whatever they
\* calibrate to, a report with a violation is not signed.
Build(a, p) ==
  /\ drafts[a] = NoDraft /\ p \in Publishes[a]
  /\ \A s \in Of(a, p) : now >= s.report.validAfter + Interval
  /\ NextSeq(a, p) <= MaxSeq
  /\ Listed(p) # {}
  /\ \E iv \in Ivs, grid \in Grids :
       LET r == Report(p, NextSeq(a, p), iv, grid, a) IN
       /\ ~Violations(r)
       /\ signatures' = signatures \cup Signature(r, a)
       /\ drafts' = [drafts EXCEPT ![a] = [report |-> r, signers |-> {a},
                                           ask |-> Cosigners[a],
             base |-> [header |-> header[p], waived |-> p \in emergency]]]
  /\ UNCHANGED <<now, onChainVars, grids>>

RootMatches(r, shown) == shown = r.grid

\* POST /cosign at service b: it validates what it is shown against its own
\* view of the chain.
Cosigns(b, r, shown) == /\ RootMatches(r, shown) /\ r.product \in Publishes[b]
                        /\ ~Violations([r EXCEPT !.grid = shown])

Asked(a, b) == [drafts[a] EXCEPT !.ask = @ \ {b}]

\* The next cosigner is asked and signs.
CosignGranted(a, b) ==
  /\ drafts[a] # NoDraft /\ b \in drafts[a].ask
  /\ b \in FaultyPublishers \/ Cosigns(b, drafts[a].report, drafts[a].report.grid)
  /\ drafts' = [drafts EXCEPT ![a] = [Asked(a, b) EXCEPT !.signers = @ \cup {b}]]
  /\ signatures' = signatures \cup Signature(drafts[a].report, b)
  /\ UNCHANGED <<now, onChainVars, grids>>

\* It refuses, or does not answer.
CosignRefused(a, b) ==
  /\ drafts[a] # NoDraft /\ b \in drafts[a].ask
  /\ drafts' = [drafts EXCEPT ![a] = Asked(a, b)]
  /\ UNCHANGED <<now, onChainVars, signatures, grids>>

\* checkQuorum: enough active signers, an independent one among them.
CheckQuorum(signers) ==
  /\ Cardinality(signers \cap active) >= Quorum
  /\ signers \cap active \cap Independent # {}

\* remember: by sequence number, the newest `Remembered' of a product.
Remember(a, s) ==
  LET same == {o \in Of(a, s.report.product) : o.report.seq # s.report.seq} \cup {s}
  IN (grids[a] \ Of(a, s.report.product)) \cup
     {o \in same : Cardinality({n \in same : n.report.seq > o.report.seq}) < Remembered}

\* All cosigners have been asked.
Finish(a) ==
  /\ drafts[a] # NoDraft /\ drafts[a].ask = {}
  /\ LET d == drafts[a] IN
     grids' = IF CheckQuorum(d.signers)
              THEN [grids EXCEPT ![a] = Remember(a, [report |-> d.report, signers |-> d.signers,
                                                     base |-> d.base])]
              ELSE grids
  /\ drafts' = [drafts EXCEPT ![a] = NoDraft]
  /\ UNCHANGED <<now, onChainVars, signatures>>

\* A service keeps its reports in memory only.
Restart(a) ==
  /\ grids[a] # {} \/ drafts[a] # NoDraft
  /\ grids' = [grids EXCEPT ![a] = {}]
  /\ drafts' = [drafts EXCEPT ![a] = NoDraft]
  /\ UNCHANGED <<now, onChainVars, signatures>>

\* The update a service serves: its latest report when newer than the chain's
\* and in force, with its leaves; otherwise the leaves of the chain's sequence
\* number, if it remembers a report of that number.
Served(a, p) ==
  LET newer == {s \in Latest(a, p) : s.report.seq > header[p].seq /\ s.report.expiresAt > now}
  IN IF newer # {} THEN [reports |-> newer, nodes |-> newer]
     ELSE [reports |-> {}, nodes |-> SignedAt(a, p, header[p].seq)]

-----------------------------------------------------------------------------
(* Applying an update: OracleUpdates.applyUpdate.  A report at or below the *)
(* header's sequence is skipped, its leaves are not.                        *)
(* `us' is the update of each product: [reports, nodes], sets of reports    *)
(* with their signers.                                                     *)

None == [reports |-> {}, nodes |-> {}]
Only(u, p) == [q \in Products |-> IF q = p THEN u ELSE None]

After(u, p) == LET new == {s.report : s \in {s \in u.reports : s.report.seq > header[p].seq}}
               IN IF new = {} THEN header[p] ELSE CHOOSE r \in new : TRUE

Applies(u, p) ==
  /\ \A s \in u.reports : s.report.seq > header[p].seq =>
                            Acceptable(s.report) /\ SignaturesValid(s.signers)
  /\ \A s \in u.nodes : Provable(s.report, After(u, p))

Apply(us) ==
  /\ \A p \in Products : Applies(us[p], p)
  /\ header' = [p \in Products |-> After(us[p], p)]
  /\ proven' = [p \in Products |-> proven[p] \cup {s.report : s \in us[p].nodes}]
  \* signatures on a report that the header overtook have no use any more
  /\ signatures' = {s \in signatures : s.report.seq > After(us[s.report.product], s.report.product).seq}
  /\ UNCHANGED <<now, active, emergency, grids, drafts>>

\* A user's transaction with what a service serves.
UserUpdate(a, p) ==
  /\ Served(a, p).nodes # {}
  /\ Apply(Only(Served(a, p), p))

\* Anyone submits a report with any of the signatures that exist for it.
Submit(r) ==
  /\ \E signers \in SUBSET (FaultyPublishers \cup
                             {s.by : s \in {s \in signatures : s.report = r}}) :
       Apply(Only([reports |-> {[report |-> r, signers |-> signers]}, nodes |-> {}], r.product))
  /\ header'[r.product] # header[r.product]

\* A faulty publisher shows a cosigner a grid, and asks it to sign a report.
AskCosign(f, b, p) ==
  /\ b \notin FaultyPublishers
  /\ Cardinality({s \in signatures : s.report.maker = f}) < MaxRivals
  /\ \E iv \in Ivs, grid \in Grids, shown \in Grids :
       LET r == Report(p, header[p].seq + 1, iv, grid, f) IN
       /\ r.seq <= MaxSeq
       /\ Cosigns(b, r, shown)
       /\ signatures' = signatures \cup Signature(r, b)
  /\ UNCHANGED <<now, onChainVars, grids, drafts>>

-----------------------------------------------------------------------------
(* Governance and the guardian.                                            *)

AddPublisher(a) ==
  /\ a \notin active
  /\ active' = active \cup {a}
  /\ UNCHANGED <<now, header, proven, emergency, serviceVars>>

RemovePublisher(a) ==
  /\ a \in active
  /\ active' = active \ {a}
  /\ UNCHANGED <<now, header, proven, emergency, serviceVars>>

SetEmergencyMode(p, on) ==
  /\ on # (p \in emergency)
  /\ emergency' = IF on THEN emergency \cup {p} ELSE emergency \ {p}
  /\ UNCHANGED <<now, header, proven, active, serviceVars>>

SurfaceTick ==
  /\ Tick
  /\ UNCHANGED <<header, proven, active, emergency, serviceVars>>

SurfaceInit ==
  /\ now = 1
  /\ header = [p \in Products |-> NoReport]
  /\ proven = [p \in Products |-> {}]
  /\ active = Publishers /\ emergency = {}
  /\ signatures = {}
  /\ grids = [a \in Publishers |-> {}]
  /\ drafts = [a \in Publishers |-> NoDraft]

Honest == Publishers \ FaultyPublishers

ServiceNext(p) ==
  \E a \in Honest : \/ Build(a, p) \/ Finish(a) \/ UserUpdate(a, p)
                    \/ \E b \in Publishers : CosignGranted(a, b) \/ CosignRefused(a, b)

SurfaceNext(p) ==
  \/ ServiceNext(p)
  \/ SurfaceTick
  \/ \E a \in Honest : Restart(a)
  \/ \E a \in Publishers : AddPublisher(a) \/ RemovePublisher(a)
  \/ \E on \in BOOLEAN : SetEmergencyMode(p, on)
  \/ \E r \in {s.report : s \in signatures} : r.product = p /\ Submit(r)
  \/ \E f \in FaultyPublishers, b \in Publishers : AskCosign(f, b, p)

SurfaceSpec == SurfaceInit /\ [][\E p \in Products : SurfaceNext(p)]_surfaceVars

-----------------------------------------------------------------------------
\* INVARIANT.  An accepted surface has no calendar or butterfly arbitrage and
\* no leaf that cannot be proved, though the contract checks none of it: every
\* quorum has a publisher that validated the very grid it signed.
AcceptedIsClean == \A p \in Products : header[p].seq # 0 => header[p].grid = "clean"

\* INVARIANT.  What a service serves applies: as long as the header is the one
\* its report was built on, or the report itself, and its signers are active,
\* the chain accepts the report and its leaves until it expires.
ServedApplies ==
  \A a \in Honest, p \in Products :
    LET u == Served(a, p) IN
      (\A s \in u.nodes : /\ s.signers \subseteq active
                          /\ header[p] \in {s.base.header, s.report}
                          /\ s.base.waived => p \in emergency)
        => Applies(u, p)

\* Nothing faulty gets onto the chain, and nothing served is refused by it.
SurfacesClean == AcceptedIsClean /\ ServedApplies

=============================================================================
