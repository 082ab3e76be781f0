--------------------------- MODULE SettlementKeepers ---------------------------
(***************************************************************************)
(* keepers/src/settlementKeeper.ts: several keepers settle the same groups *)
(* without knowing of each other.  Between two awaits of a keeper anything *)
(* may happen: another keeper's transaction is mined, the indexer falls    *)
(* behind, a call throws, a receipt is not waited for, the process starts  *)
(* again.  The chain under them is GroupLifecycle.                         *)
(***************************************************************************)
EXTENDS GroupLifecycle, Sequences, FiniteSetsExt

CONSTANTS
  Keepers,
  Catalog,          \* the groups in the order of the SeriesCatalog
  AccountOrder,     \* the accounts in the order of the directory
  FinalizeDelay,    \* minFinalizationDelay
  StalledDelay,
  BatchSize,
  NoCount, NoTx,
  \* Bounds of the instance: who trades in each group, which keepers may fail,
  \* the clock, the number of faults.
  Holders, Faulty, MaxTime, MaxFaults

\* What a keeper sends: flags, finalizations, batches to settle and ratios.
Txs == [from : Keepers, kind : {"FLAG", "FINALIZE", "SETTLE", "RATIO"},
        group : Groups, accounts : SUBSET Accounts]

ASSUME KeepersAssumption ==
  /\ Catalog \in Seq(Groups) /\ Groups = {Catalog[i] : i \in DOMAIN Catalog}
  /\ AccountOrder \in Seq(Accounts) /\ Accounts = {AccountOrder[i] : i \in DOMAIN AccountOrder}
  /\ FinalizeDelay \in Nat /\ StalledDelay \in Nat
  /\ BatchSize \in Nat \ {0}
  /\ NoCount \notin Nat /\ NoTx \notin Txs
  /\ Faulty \subseteq Keepers
  /\ Holders \in [Groups -> SUBSET Accounts]
  /\ MaxTime \in Nat /\ MaxFaults \in Nat

VARIABLES
  running,    \* the keepers that were started with the settle loop
  listed,     \* the groups of the listed series
  flagged,    \* groups flagged ORACLE_STALLED on chain
  proof,      \* what buildSettlementProof does for each group now
  indexed,    \* members of each group as the indexer has them
  mempool,    \* transactions sent and not mined
  faults,     \* throws, timeouts, drops and restarts so far
  pc,         \* where each keeper's tick stands
  clock,      \* the block time its tick started from
  todo,       \* the places in the catalog left in its tick, the least one current
  done,       \* groups it skips for good
  known,      \* its directory
  before,     \* participants at the previous round of its settle loop
  pending,    \* the accounts of its next batch
  sent        \* the transaction whose receipt it waits for

chainVars == <<lifecycleVars, listed, flagged, proof, indexed>>
tickVars == <<clock, known, before, pending>>
keeperVars == <<pc, todo, done, tickVars, sent>>
settleVars == <<running, chainVars, mempool, faults, keeperVars>>

Nothing == [g \in Groups |-> {}]

SettleInit ==
  /\ LifecycleInit
  /\ running \in SUBSET Keepers
  /\ listed \in SUBSET Groups
  /\ flagged = {}
  /\ proof \in [Groups -> {"THROWS", "REJECTED"}]
  /\ indexed = Nothing
  /\ mempool = {} /\ faults \in 0..MaxFaults
  /\ pc = [k \in Keepers |-> "IDLE"]
  /\ clock = [k \in Keepers |-> 0]
  /\ todo = [k \in Keepers |-> {}]
  /\ done = [k \in Keepers |-> {}]
  /\ known = [k \in Keepers |-> Nothing]
  /\ before = [k \in Keepers |-> NoCount]
  /\ pending = [k \in Keepers |-> {}]
  /\ sent = [k \in Keepers |-> NoTx]

Group(k) == Catalog[Min(todo[k])]

Goto(k, label) == pc' = [pc EXCEPT ![k] = label] /\ UNCHANGED todo

\* The loop over the catalog goes on with the next group, or the tick ends.
NextGroup(k) ==
  /\ todo' = [todo EXCEPT ![k] = @ \ {Min(@)}]
  /\ pc' = [pc EXCEPT ![k] = IF todo[k] = {Min(todo[k])} THEN "IDLE" ELSE "GROUP"]

\* An exception leaves tick; every() logs it and sleeps.
EndTick(k) ==
  /\ pc' = [pc EXCEPT ![k] = "IDLE"]
  /\ todo' = [todo EXCEPT ![k] = {}]

-----------------------------------------------------------------------------
(* Transactions *)

Tx(k, kind, g, accounts) == [from |-> k, kind |-> kind, group |-> g, accounts |-> accounts]

\* What the contract accepts now.
Valid(tx) ==
  LET g == tx.group
  IN CASE tx.kind = "FLAG" -> stage[g] = "OPEN" /\ now >= ExpiryOf[g] + StalledDelay
       [] tx.kind = "FINALIZE" -> stage[g] = "OPEN" /\ now >= ExpiryOf[g] + FinalizeDelay
       [] tx.kind = "SETTLE" -> stage[g] = "FINALIZED"
       [] tx.kind = "RATIO" -> stage[g] = "FINALIZED" /\ members[g] = {}

\* sendTx: a simulation that reverts is answered at once, else the transaction
\* is sent and its receipt awaited.
SendTx(k, tx, Refused) ==
  IF Valid(tx)
  THEN /\ mempool' = mempool \cup {tx}
       /\ sent' = [sent EXCEPT ![k] = tx]
       /\ Goto(k, "WAIT")
  ELSE Refused /\ UNCHANGED <<mempool, sent>>

\* Mutant: a batch is not confirmed against the ledger before it counts as done.
AfterReceipt_DoneOnSettle(k, tx) ==
  CASE tx.kind = "FLAG" -> Goto(k, "PROOF") /\ UNCHANGED done
    [] tx.kind = "FINALIZE" -> Goto(k, "SYNC") /\ UNCHANGED done
    [] OTHER -> NextGroup(k) /\ done' = [done EXCEPT ![k] = @ \cup {tx.group}]

\* Where a tick goes on after its transaction succeeded.
AfterReceipt(k, tx) ==
  CASE tx.kind = "FLAG" -> Goto(k, "PROOF") /\ UNCHANGED done
    [] tx.kind = "FINALIZE" -> Goto(k, "SYNC") /\ UNCHANGED done
    [] tx.kind = "SETTLE" -> Goto(k, "COUNT") /\ UNCHANGED done
    [] tx.kind = "RATIO" -> NextGroup(k) /\ done' = [done EXCEPT ![k] = @ \cup {tx.group}]

\* And after it reverted: another keeper was first.
AfterRevert(k, tx) ==
  CASE tx.kind = "FLAG" -> Goto(k, "PROOF")
    [] tx.kind = "SETTLE" -> Goto(k, "STATE")
    [] OTHER -> NextGroup(k)

Execute(tx) ==
  CASE tx.kind = "FLAG" -> flagged' = flagged \cup {tx.group} /\ UNCHANGED lifecycleVars
    [] tx.kind = "FINALIZE" -> Finalize(tx.group, 1) /\ UNCHANGED flagged
    [] tx.kind = "SETTLE" -> Settle(tx.accounts, tx.group) /\ UNCHANGED flagged
    [] tx.kind = "RATIO" -> FixRatio(tx.group) /\ UNCHANGED flagged

\* A transaction is mined, succeeds or reverts, and wakes the keeper that waits
\* for it, if it still does.
Mine(tx) ==
  /\ mempool' = mempool \ {tx}
  /\ IF Valid(tx) THEN Execute(tx) ELSE UNCHANGED <<lifecycleVars, flagged>>
  /\ IF sent[tx.from] = tx
     THEN /\ sent' = [sent EXCEPT ![tx.from] = NoTx]
          /\ IF Valid(tx) THEN AfterReceipt(tx.from, tx)
             ELSE AfterRevert(tx.from, tx) /\ UNCHANGED done
     ELSE UNCHANGED <<sent, pc, todo, done>>
  /\ UNCHANGED <<running, listed, proof, indexed, faults, tickVars>>

-----------------------------------------------------------------------------
(* One keeper's tick *)

StartTick(k) ==
  LET Due(g) == g \in listed /\ ExpiryOf[g] <= now /\ g \notin done[k]
  IN /\ pc[k] = "IDLE"
     /\ \E g \in Groups : Due(g)
     /\ todo' = [todo EXCEPT ![k] = {i \in DOMAIN Catalog : Due(Catalog[i])}]
     /\ pc' = [pc EXCEPT ![k] = "GROUP"]
     /\ clock' = [clock EXCEPT ![k] = now]
     /\ UNCHANGED <<running, chainVars, mempool, faults, done, known, before, pending, sent>>

\* Mutant: the ratio is left to whoever settled the last account.
ReadGroup_RatioElsewhere(k) ==
  LET g == Group(k)
  IN /\ pc[k] = "GROUP"
     /\ CASE stage[g] = "OPEN" ->
               Goto(k, IF now >= ExpiryOf[g] + StalledDelay THEN "FLAG" ELSE "PROOF")
          [] stage[g] = "FINALIZED" -> IF members[g] = {} THEN NextGroup(k) ELSE Goto(k, "SYNC")
          [] stage[g] = "REDEEMABLE" -> NextGroup(k)
     /\ done' = [done EXCEPT ![k] = IF stage[g] = "REDEEMABLE" THEN @ \cup {g} ELSE @]
     /\ UNCHANGED <<running, chainVars, mempool, faults, tickVars, sent>>

\* groupState: where the group's work begins.
ReadGroup(k) ==
  LET g == Group(k)
  IN /\ pc[k] = "GROUP"
     /\ CASE stage[g] = "OPEN" ->
               Goto(k, IF now >= ExpiryOf[g] + StalledDelay THEN "FLAG" ELSE "PROOF")
          [] stage[g] = "FINALIZED" -> Goto(k, IF members[g] = {} THEN "RATIO" ELSE "SYNC")
          [] stage[g] = "REDEEMABLE" -> NextGroup(k)
     /\ done' = [done EXCEPT ![k] = IF stage[g] = "REDEEMABLE" THEN @ \cup {g} ELSE @]
     /\ UNCHANGED <<running, chainVars, mempool, faults, tickVars, sent>>

FlagStalled(k) ==
  LET g == Group(k)
  IN /\ pc[k] = "FLAG"
     /\ IF g \in flagged THEN Goto(k, "PROOF") /\ UNCHANGED <<mempool, sent>>
        ELSE SendTx(k, Tx(k, "FLAG", g, {}), Goto(k, "PROOF"))
     /\ UNCHANGED <<running, chainVars, faults, done, tickVars>>

\* Not before the earliest finalization; then the proof is built and sent.
FinalizeWithProof(k) ==
  LET g == Group(k)
  IN /\ pc[k] = "PROOF"
     /\ IF clock[k] < ExpiryOf[g] + FinalizeDelay \/ proof[g] = "REJECTED"
        THEN NextGroup(k) /\ UNCHANGED <<mempool, sent>>
        ELSE IF proof[g] = "THROWS"
        THEN EndTick(k) /\ UNCHANGED <<mempool, sent>>
        ELSE SendTx(k, Tx(k, "FINALIZE", g, {}), NextGroup(k))
     /\ UNCHANGED <<running, chainVars, faults, done, tickVars>>

SyncDirectory(k) ==
  /\ pc[k] = "SYNC"
  /\ known' = [known EXCEPT ![k] = indexed]
  /\ before' = [before EXCEPT ![k] = NoCount]
  /\ Goto(k, "COUNT")
  /\ UNCHANGED <<running, chainVars, mempool, faults, done, clock, pending, sent>>

CountParticipants(k) ==
  LET left == Cardinality(members[Group(k)])
  IN /\ pc[k] = "COUNT"
     /\ IF left \in {0, before[k]}
        THEN Goto(k, "STATE") /\ UNCHANGED before
        ELSE Goto(k, "SCAN") /\ before' = [before EXCEPT ![k] = left]
     /\ UNCHANGED <<running, chainVars, mempool, faults, done, clock, known, pending, sent>>

\* The first accounts of the directory that the ledger still has in the group.
Batch(k, g) ==
  LET places == {i \in DOMAIN AccountOrder : AccountOrder[i] \in known[k][g] \cap members[g]}
  IN {AccountOrder[i] : i \in {i \in places : Cardinality({j \in places : j < i}) < BatchSize}}

ScanHolders(k) ==
  /\ pc[k] = "SCAN"
  /\ pending' = [pending EXCEPT ![k] = Batch(k, Group(k))]
  /\ Goto(k, IF pending'[k] = {} THEN "STATE" ELSE "SETTLE")
  /\ UNCHANGED <<running, chainVars, mempool, faults, done, clock, known, before, sent>>

SettleBatch(k) ==
  /\ pc[k] = "SETTLE"
  /\ pending' = [pending EXCEPT ![k] = {}]
  /\ SendTx(k, Tx(k, "SETTLE", Group(k), pending[k]), Goto(k, "STATE"))
  /\ UNCHANGED <<running, chainVars, faults, done, clock, known, before>>

\* groupState again, after the loop.
ReadSettled(k) ==
  LET g == Group(k)
  IN /\ pc[k] = "STATE"
     /\ IF stage[g] = "FINALIZED" /\ members[g] = {} THEN Goto(k, "RATIO") ELSE NextGroup(k)
     /\ done' = [done EXCEPT ![k] = IF stage[g] = "REDEEMABLE" THEN @ \cup {g} ELSE @]
     /\ UNCHANGED <<running, chainVars, mempool, faults, tickVars, sent>>

ComputeRatio(k) ==
  /\ pc[k] = "RATIO"
  /\ SendTx(k, Tx(k, "RATIO", Group(k), {}), NextGroup(k))
  /\ UNCHANGED <<running, chainVars, faults, done, tickVars>>

KeeperStep(k) ==
  \/ StartTick(k) \/ ReadGroup(k) \/ FlagStalled(k) \/ FinalizeWithProof(k)
  \/ SyncDirectory(k) \/ CountParticipants(k) \/ ScanHolders(k) \/ SettleBatch(k)
  \/ ReadSettled(k) \/ ComputeRatio(k)

-----------------------------------------------------------------------------
(* Faults *)

Fault(k) ==
  /\ k \in Faulty /\ faults < MaxFaults
  /\ faults' = faults + 1
  /\ UNCHANGED <<running, chainVars>>

\* A read or a receipt throws: the tick is over, a transaction sent stays sent.
Throw(k) ==
  /\ Fault(k)
  /\ pc[k] # "IDLE"
  /\ EndTick(k)
  /\ sent' = [sent EXCEPT ![k] = NoTx]
  /\ pending' = [pending EXCEPT ![k] = {}]
  /\ UNCHANGED <<mempool, done, clock, known, before>>

\* The process starts again; everything it knew is gone.
Restart(k) ==
  /\ Fault(k)
  /\ EndTick(k)
  /\ done' = [done EXCEPT ![k] = {}]
  /\ known' = [known EXCEPT ![k] = Nothing]
  /\ sent' = [sent EXCEPT ![k] = NoTx]
  /\ pending' = [pending EXCEPT ![k] = {}]
  /\ UNCHANGED <<mempool, clock, before>>

\* A transaction is never mined; the receipt times out.
Drop(tx) ==
  /\ Fault(tx.from)
  /\ mempool' = mempool \ {tx}
  /\ IF sent[tx.from] = tx
     THEN EndTick(tx.from) /\ sent' = [sent EXCEPT ![tx.from] = NoTx]
     ELSE UNCHANGED <<pc, todo, sent>>
  /\ UNCHANGED <<done, tickVars>>

-----------------------------------------------------------------------------
(* Surroundings *)

\* Bound: time matters while a keeper runs.
Pass ==
  /\ running # {} /\ now < MaxTime
  /\ Advance
  /\ UNCHANGED <<listed, flagged, proof, indexed>>

Join(a, g) ==
  /\ now < ExpiryOf[g]
  /\ members' = [members EXCEPT ![g] = @ \cup {a}]
  /\ UNCHANGED <<now, stage, price, listed, flagged, proof, indexed>>

Leave(a, g) ==
  /\ stage[g] = "OPEN"
  /\ members' = [members EXCEPT ![g] = @ \ {a}]
  /\ UNCHANGED <<now, stage, price, listed, flagged, proof, indexed>>

\* A price can be proved: the feed has the rounds and its reads work.
ProofAppears(g) ==
  /\ proof[g] # "PRICE"
  /\ proof' = [proof EXCEPT ![g] = "PRICE"]
  /\ UNCHANGED <<lifecycleVars, listed, flagged, indexed>>

IndexerCatchesUp ==
  /\ indexed' = members
  /\ UNCHANGED <<lifecycleVars, listed, flagged, proof>>

Surroundings ==
  /\ \/ Pass
     \/ \E g \in listed : \E a \in Holders[g] : Join(a, g) \/ Leave(a, g)
     \/ \E g \in listed : ProofAppears(g)
     \/ IndexerCatchesUp
  /\ UNCHANGED <<running, mempool, faults, keeperVars>>

SettleNext ==
  \/ \E k \in running : KeeperStep(k) \/ Throw(k) \/ Restart(k)
  \/ \E tx \in mempool : Mine(tx) \/ Drop(tx)
  \/ Surroundings

SettleSpec == SettleInit /\ [][SettleNext]_settleVars

\* Loops come round (every), transactions are mined, the indexer follows the
\* chain and time passes.
SettleFairness ==
  /\ \A k \in Keepers : WF_settleVars(k \in running /\ KeeperStep(k))
  /\ WF_settleVars(\E tx \in mempool : Mine(tx))
  /\ WF_settleVars(IndexerCatchesUp /\ UNCHANGED <<running, mempool, faults, keeperVars>>)
  /\ WF_settleVars(Pass /\ UNCHANGED <<running, mempool, faults, keeperVars>>)

\* Every price can be proved in the end.
ProofsAppear ==
  \A g \in Groups :
    WF_settleVars(g \in listed /\ ProofAppears(g) /\ UNCHANGED <<running, mempool, faults, keeperVars>>)

-----------------------------------------------------------------------------
(* Properties *)

\* A keeper only ever forgets a group that pays out: racing keepers, lost
\* receipts and a lagging indexer never make it drop one that still needs work.
DoneIsRedeemable ==
  \A k \in Keepers : \A g \in done[k] : stage[g] = "REDEEMABLE"

\* When the settle loop comes round, its last batch has settled somebody,
\* whoever else settled in between: the loop never gives up a group as stuck.
BatchesProgress ==
  \A k \in Keepers :
    pc[k] = "COUNT" /\ before[k] # NoCount => Cardinality(members[Group(k)]) < before[k]

\* Neither lets the loop stop before the work is done.
KeepersSafe == DoneIsRedeemable /\ BatchesProgress

\* With prices that can be proved, every group that expires becomes redeemable,
\* with any number of keepers and after finitely many faults.
GroupsComplete ==
  \A g \in Groups :
    running # {} /\ g \in listed /\ now >= ExpiryOf[g] ~> stage[g] = "REDEEMABLE"

\* A documented promise the code does not keep: "for every group past expiry,
\* finalize with the round-in-force proof, [...] settle every participant"
\* (settlementKeeper.ts:2-4).  buildSettlementProof of one group throws, the tick
\* is over, and the groups after it in the catalog are never reached.
EveryGroupServed ==
  \A g \in Groups :
    running # {} /\ g \in listed /\ proof[g] = "PRICE" /\ now >= ExpiryOf[g]
      ~> stage[g] = "REDEEMABLE"

=============================================================================
