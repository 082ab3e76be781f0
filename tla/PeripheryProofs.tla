--------------------------- MODULE PeripheryProofs ---------------------------
(***************************************************************************)
(* The keepers, for any number of them, any catalog and any accounts: no   *)
(* settlement keeper forgets a group that still needs work or takes its    *)
(* settle loop for stuck while its batches settle somebody, whatever other *)
(* keepers, late receipts, faults and a lagging directory do; and a slice  *)
(* of the liquidation bot costs what its preview said, within slippage.    *)
(* The watchdog, for any checks: what fails is told of once.               *)
(*                                                                         *)
(* What the contracts beside the core promise.  The settlement oracle: the *)
(* settlement price of an expiry is a function of the feeds' history;      *)
(* whatever rounds callers present, from any number of feeds, phases and   *)
(* rounds, verify accepts only the rounds in force, and every keeper would *)
(* finalize at the same price; and the search of the keeper finds a proof  *)
(* that exists.  Roles, pauses and upgrades, for any addresses, scopes,    *)
(* proxies and delays: who does not govern only reduces risk, and no proxy *)
(* changes but by an operation that was announced, has waited, and runs    *)
(* once.                                                                   *)
(***************************************************************************)
EXTENDS SettlementKeepers, LiquidationBot, Watchdog, RoundSearch, UpgradeAdmin,
        FiniteSetTheorems, WellFoundedInduction, TLAPS

-----------------------------------------------------------------------------
(* The inductive invariant of the settlement keepers                       *)

Labels == {"IDLE", "GROUP", "FLAG", "PROOF", "SYNC", "COUNT", "SCAN", "SETTLE", "STATE",
           "RATIO", "WAIT"}

ChainTypes ==
  /\ now \in Nat
  /\ stage \in [Groups -> {"OPEN", "FINALIZED", "REDEEMABLE"}]
  /\ members \in [Groups -> SUBSET Accounts]

KeeperTypes ==
  /\ running \subseteq Keepers /\ listed \subseteq Groups
  /\ mempool \subseteq Txs
  /\ pc \in [Keepers -> Labels]
  /\ todo \in [Keepers -> SUBSET DOMAIN Catalog]
  /\ done \in [Keepers -> SUBSET Groups]
  /\ before \in [Keepers -> Nat \cup {NoCount}]
  /\ pending \in [Keepers -> SUBSET Accounts]
  /\ sent \in [Keepers -> Txs \cup {NoTx}]

\* Only groups that expired are finalized, so nobody joins one that is.
FinalizedExpired == \A g \in Groups : stage[g] # "OPEN" => now >= ExpiryOf[g]

Left(k, gone) == Cardinality(members[Group(k)] \ gone)

\* A tick past the catalog is over.
InTick(k) == pc[k] # "IDLE" => todo[k] # {}

\* A keeper that waits knows what it waits for.
Awaits(k) ==
  sent[k] # NoTx => pc[k] = "WAIT" /\ sent[k].from = k /\ sent[k].group = Group(k)

Settling(k) ==
  \/ pc[k] \in {"SYNC", "COUNT", "SCAN", "SETTLE"}
  \/ sent[k] # NoTx /\ sent[k].kind = "SETTLE"

AfterFinalization(k) == Settling(k) => stage[Group(k)] # "OPEN"

\* Through the settle loop, what is left after the batch chosen or sent is less
\* than what was counted before it.
Progress(k) ==
  /\ pc[k] = "COUNT" /\ before[k] # NoCount => Left(k, {}) < before[k]
  /\ pc[k] = "SCAN" => before[k] # NoCount /\ Left(k, {}) <= before[k]
  /\ pc[k] = "SETTLE" => before[k] # NoCount /\ Left(k, pending[k]) < before[k]
  /\ sent[k] # NoTx /\ sent[k].kind = "SETTLE" =>
       before[k] # NoCount /\ Left(k, sent[k].accounts) < before[k]

DonePaysOut(k) == \A g \in done[k] : stage[g] = "REDEEMABLE"

KeeperOK(k) ==
  InTick(k) /\ Awaits(k) /\ AfterFinalization(k) /\ Progress(k) /\ DonePaysOut(k)

KInv == ChainTypes /\ KeeperTypes /\ FinalizedExpired /\ \A k \in Keepers : KeeperOK(k)

-----------------------------------------------------------------------------
(* Facts about the constants *)

LEMMA LeastPlace ==
  ASSUME NEW S \in SUBSET DOMAIN Catalog, S # {}
  PROVE  Min(S) \in S
<1>1. DOMAIN Catalog \subseteq Nat
  BY KeepersAssumption
<1>2. S \subseteq Nat
  BY <1>1
<1>3. PICK m \in S : \A q \in S : ~(<<q, m>> \in OpToRel(<, Nat))
  BY <1>2, NatLessThanWellFounded, WFMin
<1>4. OpToRel(<, Nat) = {ss \in Nat \X Nat : ss[1] < ss[2]}
  BY DEF OpToRel
<1>5. \A q \in S : m <= q
  <2>1. \A x, y \in Nat : x < y => <<x, y>> \in OpToRel(<, Nat)
    BY <1>4
  <2>2. \A q \in S : ~(q < m)
    BY <1>2, <1>3, <2>1
  <2> QED
    BY <1>2, <2>2
<1> QED
  BY <1>5 DEF Min

\* The group of a tick under way is one of the catalog.
LEMMA GroupInCatalog ==
  ASSUME KeeperTypes, NEW k \in Keepers, todo[k] # {}
  PROVE  Group(k) \in Groups
<1>1. Min(todo[k]) \in DOMAIN Catalog
  BY LeastPlace DEF KeeperTypes
<1> QED
  BY <1>1, KeepersAssumption DEF Group

LEMMA AccountsFinite == IsFiniteSet(Accounts)
<1>1. IsFiniteSet(1..Len(AccountOrder))
  BY FS_Interval, KeepersAssumption
<1>2. AccountOrder \in Surjection(1..Len(AccountOrder), Accounts)
  <2>1. AccountOrder \in [1..Len(AccountOrder) -> Accounts]
    BY KeepersAssumption
  <2>2. \A a \in Accounts : \E i \in 1..Len(AccountOrder) : AccountOrder[i] = a
    BY <2>1, KeepersAssumption
  <2> QED
    BY <2>1, <2>2 DEF Surjection
<1> QED
  BY <1>1, <1>2, FS_Surjection

LEMMA MembersFinite ==
  ASSUME ChainTypes, NEW g \in Groups
  PROVE  \A S : IsFiniteSet(members[g] \ S) /\ Cardinality(members[g] \ S) \in Nat
<1>1. \A S : members[g] \ S \in SUBSET Accounts
  BY DEF ChainTypes
<1> QED
  BY <1>1, AccountsFinite, FS_Subset, FS_CardinalityType

-----------------------------------------------------------------------------
(* What the chain may do between two steps of a keeper                     *)

ChainMoves ==
  /\ ChainTypes'
  /\ FinalizedExpired'
  /\ \A g \in Groups : stage[g] # "OPEN" =>
       /\ stage'[g] # "OPEN"
       /\ members'[g] \subseteq members[g]
  /\ \A g \in Groups : stage[g] = "REDEEMABLE" => stage'[g] = "REDEEMABLE"

LEMMA ChainRests ==
  ASSUME ChainTypes, FinalizedExpired, UNCHANGED lifecycleVars
  PROVE  ChainMoves
BY DEF ChainMoves, ChainTypes, FinalizedExpired, lifecycleVars

\* Every transaction that succeeds moves its group forward.
LEMMA TransactionMoves ==
  ASSUME ChainTypes, FinalizedExpired, NEW tx \in Txs, Valid(tx), Execute(tx)
  PROVE  ChainMoves
<1> DEFINE g == tx.group
<1>1. g \in Groups /\ tx.accounts \in SUBSET Accounts
      /\ tx.kind \in {"FLAG", "FINALIZE", "SETTLE", "RATIO"}
  BY DEF Txs
<1>2. CASE tx.kind = "FLAG"
  BY <1>2, ChainRests DEF Execute
<1>3. CASE tx.kind = "FINALIZE"
  <2>1. Finalize(g, 1)
    BY <1>3 DEF Execute
  <2> QED
    BY <1>1, <2>1 DEF Finalize, ChainMoves, ChainTypes, FinalizedExpired
<1>4. CASE tx.kind = "SETTLE"
  <2>1. Settle(tx.accounts, g)
    BY <1>4 DEF Execute
  <2> QED
    BY <1>1, <2>1 DEF Settle, ChainMoves, ChainTypes, FinalizedExpired
<1>5. CASE tx.kind = "RATIO"
  <2>1. FixRatio(g)
    BY <1>5 DEF Execute
  <2> QED
    BY <1>1, <2>1 DEF FixRatio, ChainMoves, ChainTypes, FinalizedExpired
<1> QED
  BY <1>1, <1>2, <1>3, <1>4, <1>5

LEMMA SurroundingsMove ==
  ASSUME ChainTypes, FinalizedExpired, KeeperTypes, Surroundings
  PROVE  ChainMoves
<1>1. CASE Pass
  <2>1. Advance
    BY <1>1 DEF Pass
  <2>2. now' \in Nat /\ now' > now /\ UNCHANGED <<stage, members>>
    BY <2>1 DEF Advance, ChainTypes
  <2>3. \A g \in Groups : now >= ExpiryOf[g] => now' >= ExpiryOf[g]
    BY <2>2, LifecycleAssumption DEF ChainTypes
  <2> QED
    BY <2>2, <2>3 DEF ChainMoves, ChainTypes, FinalizedExpired
<1>2. ASSUME NEW g \in Groups, NEW a \in Accounts, Join(a, g)
      PROVE  ChainMoves
  <2>1. stage[g] = "OPEN"
    <3>1. now \in Nat /\ ExpiryOf[g] \in Nat /\ now < ExpiryOf[g]
      BY <1>2, LifecycleAssumption DEF Join, ChainTypes
    <3> QED
      BY <3>1 DEF FinalizedExpired
  <2> QED
    BY <1>2, <2>1 DEF Join, ChainMoves, ChainTypes, FinalizedExpired
<1>3. ASSUME NEW g \in Groups, NEW a \in Accounts, Leave(a, g)
      PROVE  ChainMoves
  BY <1>3 DEF Leave, ChainMoves, ChainTypes, FinalizedExpired
<1>4. ASSUME NEW g \in listed, ProofAppears(g)
      PROVE  ChainMoves
  BY <1>4, ChainRests DEF ProofAppears
<1>5. CASE IndexerCatchesUp
  BY <1>5, ChainRests DEF IndexerCatchesUp
<1>6. \A g \in listed : g \in Groups /\ Holders[g] \subseteq Accounts
  BY KeepersAssumption DEF KeeperTypes
<1> QED
  BY <1>1, <1>2, <1>3, <1>4, <1>5, <1>6 DEF Surroundings

\* A keeper that does not move keeps its promises while the chain does.
LEMMA Unmoved ==
  ASSUME ChainTypes, KeeperTypes, ChainMoves, NEW k \in Keepers, KeeperOK(k),
         pc'[k] = pc[k], todo'[k] = todo[k], done'[k] = done[k],
         before'[k] = before[k], pending'[k] = pending[k], sent'[k] = sent[k]
  PROVE  KeeperOK(k)'
<1> DEFINE g == Group(k)
<1>1. Group(k)' = g
  BY DEF Group
<1>2. InTick(k)' /\ Awaits(k)'
  BY <1>1 DEF KeeperOK, InTick, Awaits
<1>3. DonePaysOut(k)'
  BY DEF KeeperOK, DonePaysOut, KeeperTypes, ChainMoves
<1>4. CASE ~Settling(k)
  <2>1. ~Settling(k)'
    BY <1>4 DEF Settling
  <2> QED
    BY <1>2, <1>3, <1>4, <2>1 DEF KeeperOK, AfterFinalization, Progress, Settling
<1>5. CASE Settling(k)
  <2>1. g \in Groups
    BY <1>5, GroupInCatalog DEF Settling, KeeperOK, InTick, Awaits
  <2>2. stage[g] # "OPEN"
    BY <1>5 DEF KeeperOK, AfterFinalization
  <2>3. members'[g] \subseteq members[g] /\ stage'[g] # "OPEN"
    BY <2>1, <2>2 DEF ChainMoves
  <2>4. \A S : /\ IsFiniteSet(members[g] \ S)
               /\ Left(k, S) \in Nat /\ Left(k, S)' \in Nat
               /\ Left(k, S)' <= Left(k, S)
    <3>1. \A S : Left(k, S) = Cardinality(members[g] \ S)
      BY DEF Left
    <3>2. \A S : Left(k, S)' = Cardinality(members'[g] \ S)
      BY <1>1 DEF Left
    <3>3. \A S : IsFiniteSet(members[g] \ S) /\ Cardinality(members[g] \ S) \in Nat
      BY <2>1, MembersFinite
    <3>4. \A S : members'[g] \ S \in SUBSET (members[g] \ S)
      BY <2>3
    <3>5. \A S : /\ Cardinality(members'[g] \ S) <= Cardinality(members[g] \ S)
                 /\ Cardinality(members'[g] \ S) \in Nat
      BY <3>3, <3>4, FS_Subset, FS_CardinalityType
    <3> QED
      BY <3>1, <3>2, <3>3, <3>5
  <2>5. before[k] # NoCount => before[k] \in Nat
    BY DEF KeeperTypes
  <2>6. Progress(k)
    BY DEF KeeperOK
  <2>7. \A S, n : n \in Nat => /\ Left(k, S) < n => Left(k, S)' < n
                               /\ Left(k, S) <= n => Left(k, S)' <= n
    <3>1. TAKE S, n
    <3>2. HAVE n \in Nat
    <3>3. \A x, y \in Nat : y <= x => (x < n => y < n) /\ (x <= n => y <= n)
      BY <3>2
    <3> QED
      BY <2>4, <3>2, <3>3
  <2> HIDE DEF g
  <2>8. Progress(k)'
    <3>1. pc[k] = "COUNT" /\ before[k] # NoCount => Left(k, {})' < before[k]
      BY <2>5, <2>6, <2>7 DEF Progress
    <3>2. pc[k] = "SCAN" => before[k] # NoCount /\ Left(k, {})' <= before[k]
      BY <2>5, <2>6, <2>7 DEF Progress
    <3>3. pc[k] = "SETTLE" => before[k] # NoCount /\ Left(k, pending[k])' < before[k]
      <4>1. Left(k, pending[k])' = Cardinality(members'[Group(k)'] \ pending'[k])
        BY DEF Left
      <4> QED
        BY <2>5, <2>6, <2>7 DEF Progress, Left
    <3>4. sent[k] # NoTx /\ sent[k].kind = "SETTLE" =>
            before[k] # NoCount /\ Left(k, sent[k].accounts)' < before[k]
      BY <2>5, <2>6, <2>7 DEF Progress, Left
    <3> QED
      BY <3>1, <3>2, <3>3, <3>4 DEF Progress, Left
  <2>9. AfterFinalization(k)'
    BY <1>1, <2>3 DEF AfterFinalization, g
  <2> QED
    BY <1>2, <1>3, <2>8, <2>9 DEF KeeperOK
<1> QED
  BY <1>4, <1>5

-----------------------------------------------------------------------------
(* The steps of a keeper                                                   *)

OthersRest(k) ==
  \A j \in Keepers \ {k} :
    /\ pc'[j] = pc[j] /\ todo'[j] = todo[j] /\ done'[j] = done[j]
    /\ before'[j] = before[j] /\ pending'[j] = pending[j] /\ sent'[j] = sent[j]

LEMMA OwnStep ==
  ASSUME KInv, ChainMoves, KeeperTypes', NEW k \in Keepers, OthersRest(k), KeeperOK(k)'
  PROVE  KInv'
<1>1. ASSUME NEW j \in Keepers, j # k
      PROVE  KeeperOK(j)'
  BY <1>1, Unmoved DEF KInv, OthersRest
<1> QED
  BY <1>1 DEF KInv, ChainMoves

\* Outside the settle loop, and with nothing sent, a keeper has little to keep.
LEMMA Calm ==
  ASSUME NEW k \in Keepers, InTick(k)', DonePaysOut(k)', sent'[k] = NoTx,
         pc'[k] \in {"IDLE", "GROUP", "FLAG", "PROOF", "STATE", "RATIO"}
  PROVE  KeeperOK(k)'
BY DEF KeeperOK, Awaits, AfterFinalization, Settling, Progress

\* On to the next group of the catalog, or to the end of the tick.
LEMMA NextGroupTypes ==
  ASSUME KeeperTypes, NEW k \in Keepers, todo[k] # {}, NextGroup(k)
  PROVE  /\ pc' \in [Keepers -> Labels] /\ todo' \in [Keepers -> SUBSET DOMAIN Catalog]
         /\ pc'[k] \in {"IDLE", "GROUP"} /\ InTick(k)'
         /\ \A j \in Keepers \ {k} : pc'[j] = pc[j] /\ todo'[j] = todo[j]
<1>1. todo' = [todo EXCEPT ![k] = todo[k] \ {Min(todo[k])}]
  BY DEF NextGroup
<1>2. pc' = [pc EXCEPT ![k] = IF todo[k] = {Min(todo[k])} THEN "IDLE" ELSE "GROUP"]
  BY DEF NextGroup
<1>3. todo'[k] = todo[k] \ {Min(todo[k])} /\ todo'[k] \in SUBSET DOMAIN Catalog
  BY <1>1 DEF KeeperTypes
<1>4. pc'[k] = IF todo[k] = {Min(todo[k])} THEN "IDLE" ELSE "GROUP"
  BY <1>2 DEF KeeperTypes
<1>5. todo' \in [Keepers -> SUBSET DOMAIN Catalog]
  BY <1>1, <1>3 DEF KeeperTypes
<1>6. pc' \in [Keepers -> Labels]
  BY <1>2 DEF KeeperTypes, Labels
<1>7. \A j \in Keepers \ {k} : pc'[j] = pc[j] /\ todo'[j] = todo[j]
  BY <1>1, <1>2 DEF KeeperTypes
<1>8. todo[k] # {Min(todo[k])} => todo[k] \ {Min(todo[k])} # {}
  OBVIOUS
<1>9. InTick(k)'
  BY <1>3, <1>4, <1>8 DEF InTick
<1> QED
  BY <1>3, <1>4, <1>5, <1>6, <1>7, <1>9

LEMMA GotoTypes ==
  ASSUME KeeperTypes, NEW k \in Keepers, NEW label \in Labels, Goto(k, label)
  PROVE  /\ pc' \in [Keepers -> Labels] /\ pc'[k] = label
         /\ todo' = todo
         /\ \A j \in Keepers \ {k} : pc'[j] = pc[j]
BY DEF KeeperTypes, Goto

\* A transaction that the contract would refuse is not sent.
LEMMA SendTypes ==
  ASSUME KInv, NEW k \in Keepers, pc[k] \in Labels \ {"IDLE", "WAIT"}, NEW kind, NEW S,
         Tx(k, kind, Group(k), S) \in Txs, Goto(k, "WAIT"),
         mempool' = mempool \cup {Tx(k, kind, Group(k), S)},
         sent' = [sent EXCEPT ![k] = Tx(k, kind, Group(k), S)]
  PROVE  /\ mempool' \subseteq Txs
         /\ sent' \in [Keepers -> Txs \cup {NoTx}]
         /\ sent'[k] = Tx(k, kind, Group(k), S)
         /\ \A j \in Keepers \ {k} : sent'[j] = sent[j]
         /\ InTick(k)' /\ Awaits(k)'
<1> DEFINE tx == Tx(k, kind, Group(k), S)
<1>1. tx.from = k /\ tx.group = Group(k)
  BY DEF Tx
<1>2. sent'[k] = tx
  BY DEF KInv, KeeperTypes
<1>3. mempool' \subseteq Txs
  BY DEF KInv, KeeperTypes
<1>4. sent' \in [Keepers -> Txs \cup {NoTx}] /\ \A j \in Keepers \ {k} : sent'[j] = sent[j]
  BY DEF KInv, KeeperTypes
<1>5. pc'[k] = "WAIT" /\ todo' = todo
  BY GotoTypes DEF KInv, Labels
<1>6. InTick(k)'
  BY <1>5 DEF InTick, KInv, KeeperOK
<1>7. Group(k)' = Group(k)
  BY <1>5 DEF Group
<1> HIDE DEF tx
<1>8. Awaits(k)'
  BY <1>1, <1>2, <1>5, <1>7 DEF Awaits
<1> QED
  BY <1>2, <1>3, <1>4, <1>6, <1>8 DEF tx

\* What every step of the tick of a keeper finds.
LEMMA AtWork ==
  ASSUME KInv, NEW k \in Keepers, pc[k] \notin {"IDLE", "WAIT"}
  PROVE  /\ todo[k] # {} /\ Group(k) \in Groups /\ sent[k] = NoTx
         /\ stage[Group(k)] \in {"OPEN", "FINALIZED", "REDEEMABLE"}
         /\ members[Group(k)] \in SUBSET Accounts
<1>1. todo[k] # {} /\ sent[k] = NoTx
  BY DEF KInv, KeeperOK, InTick, Awaits
<1>2. Group(k) \in Groups
  BY <1>1, GroupInCatalog DEF KInv
<1> QED
  BY <1>1, <1>2 DEF KInv, ChainTypes

LEMMA StartTickKeeps ==
  ASSUME KInv, NEW k \in Keepers, StartTick(k)
  PROVE  KInv'
<1> DEFINE Due(g) == g \in listed /\ ExpiryOf[g] <= now /\ g \notin done[k]
           T == {i \in DOMAIN Catalog : Due(Catalog[i])}
<1>1. T # {} /\ T \subseteq DOMAIN Catalog
  BY KeepersAssumption DEF StartTick
<1>2. todo' = [todo EXCEPT ![k] = T] /\ pc' = [pc EXCEPT ![k] = "GROUP"]
  BY DEF StartTick
<1>3. UNCHANGED <<running, listed, mempool, done, before, pending, sent>> /\ UNCHANGED lifecycleVars
  BY DEF StartTick, chainVars
<1> HIDE DEF T
<1>4. todo'[k] = T /\ pc'[k] = "GROUP"
  BY <1>2 DEF KInv, KeeperTypes
<1>5. sent[k] = NoTx
  BY DEF StartTick, KInv, KeeperOK, Awaits
<1>6. ChainMoves
  BY <1>3, ChainRests DEF KInv
<1>7. KeeperTypes'
  BY <1>1, <1>2, <1>3 DEF KInv, KeeperTypes, Labels
<1>8. OthersRest(k)
  BY <1>2, <1>3 DEF OthersRest, KInv, KeeperTypes
<1>9. InTick(k)' /\ DonePaysOut(k)'
  BY <1>1, <1>3, <1>4 DEF InTick, DonePaysOut, KInv, KeeperOK, lifecycleVars
<1>10. KeeperOK(k)'
  BY <1>3, <1>4, <1>5, <1>9, Calm
<1> QED
  BY <1>6, <1>7, <1>8, <1>10, OwnStep

LEMMA ReadGroupKeeps ==
  ASSUME KInv, NEW k \in Keepers, ReadGroup(k)
  PROVE  KInv'
<1> DEFINE g == Group(k)
<1>1. pc[k] = "GROUP" /\ todo[k] # {} /\ g \in Groups /\ sent[k] = NoTx
      /\ stage[g] \in {"OPEN", "FINALIZED", "REDEEMABLE"}
  BY AtWork DEF ReadGroup
<1>2. UNCHANGED <<running, listed, mempool, before, pending, sent>> /\ UNCHANGED lifecycleVars
  BY DEF ReadGroup, chainVars, tickVars
<1>3. done' = [done EXCEPT ![k] = IF stage[g] = "REDEEMABLE" THEN done[k] \cup {g} ELSE done[k]]
  BY DEF ReadGroup
<1>4. \/ \E label \in {"FLAG", "PROOF", "RATIO"} : Goto(k, label)
      \/ Goto(k, "SYNC") /\ stage[g] # "OPEN"
      \/ NextGroup(k)
  BY <1>1 DEF ReadGroup
<1> HIDE DEF g
<1>5. ChainMoves
  BY <1>2, ChainRests DEF KInv
<1>6. /\ pc' \in [Keepers -> Labels] /\ todo' \in [Keepers -> SUBSET DOMAIN Catalog]
      /\ \A j \in Keepers \ {k} : pc'[j] = pc[j] /\ todo'[j] = todo[j]
      /\ InTick(k)'
      /\ \/ pc'[k] \in {"IDLE", "GROUP", "FLAG", "PROOF", "RATIO"}
         \/ pc'[k] = "SYNC" /\ stage[g] # "OPEN" /\ todo' = todo
  <2>1. CASE NextGroup(k)
    BY <1>1, <2>1, NextGroupTypes DEF KInv
  <2>2. ASSUME NEW label \in {"FLAG", "PROOF", "RATIO", "SYNC"}, Goto(k, label)
        PROVE  /\ pc' \in [Keepers -> Labels] /\ pc'[k] = label /\ todo' = todo
               /\ \A j \in Keepers \ {k} : pc'[j] = pc[j]
    BY <2>2, GotoTypes DEF KInv, Labels
  <2> QED
    BY <1>1, <1>4, <2>1, <2>2 DEF InTick, KInv, KeeperTypes
<1>7. done' \in [Keepers -> SUBSET Groups] /\ \A j \in Keepers \ {k} : done'[j] = done[j]
  BY <1>1, <1>3 DEF KInv, KeeperTypes
<1>8. KeeperTypes' /\ OthersRest(k)
  BY <1>2, <1>6, <1>7 DEF KInv, KeeperTypes, OthersRest
<1>9. DonePaysOut(k)'
  BY <1>2, <1>3 DEF DonePaysOut, KInv, KeeperOK, KeeperTypes, lifecycleVars
<1>10. KeeperOK(k)'
  <2>1. CASE pc'[k] = "SYNC" /\ stage[g] # "OPEN" /\ todo' = todo
    <3>1. Group(k)' = g /\ stage' = stage
      BY <1>2, <2>1 DEF Group, g, lifecycleVars
    <3> QED
      BY <1>1, <1>2, <1>6, <1>9, <2>1, <3>1
         DEF KeeperOK, Awaits, AfterFinalization, Settling, Progress
  <2>2. CASE pc'[k] \in {"IDLE", "GROUP", "FLAG", "PROOF", "RATIO"}
    BY <1>1, <1>2, <1>6, <1>9, <2>2, Calm
  <2> QED
    BY <1>6, <2>1, <2>2
<1> QED
  BY <1>5, <1>8, <1>10, OwnStep

EndTickTypes(k) ==
  /\ pc' \in [Keepers -> Labels] /\ todo' \in [Keepers -> SUBSET DOMAIN Catalog]
  /\ pc'[k] = "IDLE"
  /\ \A j \in Keepers \ {k} : pc'[j] = pc[j] /\ todo'[j] = todo[j]

LEMMA EndTickMoves ==
  ASSUME KeeperTypes, NEW k \in Keepers, EndTick(k)
  PROVE  EndTickTypes(k)
BY DEF KeeperTypes, EndTick, EndTickTypes, Labels

Sends(k, tx) ==
  /\ mempool' = mempool \cup {tx}
  /\ sent' = [sent EXCEPT ![k] = tx]
  /\ Goto(k, "WAIT")

\* Steps that leave the settle loop alone: on to another label or group, to the
\* end of the tick, or a transaction that is no batch.
LEMMA SmallStep ==
  ASSUME KInv, NEW k \in Keepers, pc[k] \notin {"IDLE", "WAIT"},
         UNCHANGED <<running, listed, done, before, pending>>, UNCHANGED lifecycleVars,
         \/ /\ UNCHANGED <<mempool, sent>>
            /\ \/ NextGroup(k) \/ EndTick(k)
               \/ \E label \in {"PROOF", "STATE", "RATIO"} : Goto(k, label)
         \/ \E kind \in {"FLAG", "FINALIZE", "RATIO"} : Sends(k, Tx(k, kind, Group(k), {}))
  PROVE  KInv'
<1>1. todo[k] # {} /\ Group(k) \in Groups /\ sent[k] = NoTx
  BY AtWork
<1>2. ChainMoves
  BY ChainRests DEF KInv
<1>3. DonePaysOut(k)'
  BY DEF DonePaysOut, KInv, KeeperOK, lifecycleVars
<1>4. CASE UNCHANGED <<mempool, sent>>
           /\ \/ NextGroup(k) \/ EndTick(k)
              \/ \E label \in {"PROOF", "STATE", "RATIO"} : Goto(k, label)
  <2>1. /\ pc' \in [Keepers -> Labels] /\ todo' \in [Keepers -> SUBSET DOMAIN Catalog]
        /\ \A j \in Keepers \ {k} : pc'[j] = pc[j] /\ todo'[j] = todo[j]
        /\ InTick(k)' /\ pc'[k] \in {"IDLE", "GROUP", "PROOF", "STATE", "RATIO"}
    <3>1. CASE NextGroup(k)
      BY <1>1, <3>1, NextGroupTypes DEF KInv
    <3>2. CASE EndTick(k)
      BY <3>2, EndTickMoves DEF KInv, EndTickTypes, InTick
    <3>3. ASSUME NEW label \in {"PROOF", "STATE", "RATIO"}, Goto(k, label)
          PROVE  /\ pc' \in [Keepers -> Labels] /\ pc'[k] = label /\ todo' = todo
                 /\ \A j \in Keepers \ {k} : pc'[j] = pc[j]
      BY <3>3, GotoTypes DEF KInv, Labels
    <3> QED
      BY <1>1, <1>4, <3>1, <3>2, <3>3 DEF InTick, KInv, KeeperTypes
  <2>2. KeeperTypes' /\ OthersRest(k)
    BY <1>4, <2>1 DEF KInv, KeeperTypes, OthersRest
  <2>3. KeeperOK(k)'
    BY <1>1, <1>3, <1>4, <2>1, Calm
  <2> QED
    BY <1>2, <2>2, <2>3, OwnStep
<1>5. ASSUME NEW kind \in {"FLAG", "FINALIZE", "RATIO"}, Sends(k, Tx(k, kind, Group(k), {}))
      PROVE  KInv'
  <2> DEFINE tx == Tx(k, kind, Group(k), {})
  <2>1. tx \in Txs /\ tx.kind = kind
    BY <1>1 DEF Tx, Txs
  <2>2. pc[k] \in Labels \ {"IDLE", "WAIT"}
    BY DEF KInv, KeeperTypes
  <2>3. /\ mempool' \subseteq Txs
        /\ sent' \in [Keepers -> Txs \cup {NoTx}] /\ sent'[k] = tx
        /\ \A j \in Keepers \ {k} : sent'[j] = sent[j]
        /\ InTick(k)' /\ Awaits(k)'
    BY <1>5, <2>1, <2>2, SendTypes DEF Sends
  <2>4. /\ pc' \in [Keepers -> Labels] /\ pc'[k] = "WAIT" /\ todo' = todo
        /\ \A j \in Keepers \ {k} : pc'[j] = pc[j]
    BY <1>5, GotoTypes DEF Sends, KInv, Labels
  <2> HIDE DEF tx
  <2>5. KeeperTypes' /\ OthersRest(k)
    BY <2>3, <2>4 DEF KInv, KeeperTypes, OthersRest
  <2>6. ~Settling(k)'
    BY <2>1, <2>3, <2>4 DEF Settling
  <2>7. KeeperOK(k)'
    BY <1>3, <2>3, <2>4, <2>6 DEF KeeperOK, AfterFinalization, Progress, Settling
  <2> QED
    BY <1>2, <2>5, <2>7, OwnStep
<1> QED
  BY <1>4, <1>5

LEMMA SmallStepsKeep ==
  ASSUME KInv, NEW k \in Keepers, FlagStalled(k) \/ FinalizeWithProof(k) \/ ComputeRatio(k)
  PROVE  KInv'
<1>1. pc[k] \notin {"IDLE", "WAIT"}
  BY DEF FlagStalled, FinalizeWithProof, ComputeRatio
<1>2. UNCHANGED <<running, listed, done, before, pending>> /\ UNCHANGED lifecycleVars
  BY DEF FlagStalled, FinalizeWithProof, ComputeRatio, chainVars, tickVars
<1>3. \/ /\ UNCHANGED <<mempool, sent>>
         /\ \/ NextGroup(k) \/ EndTick(k)
            \/ \E label \in {"PROOF", "STATE", "RATIO"} : Goto(k, label)
      \/ \E kind \in {"FLAG", "FINALIZE", "RATIO"} : Sends(k, Tx(k, kind, Group(k), {}))
  <2>1. CASE FlagStalled(k)
    BY <2>1 DEF FlagStalled, SendTx, Sends
  <2>2. CASE FinalizeWithProof(k)
    BY <2>2 DEF FinalizeWithProof, SendTx, Sends
  <2>3. CASE ComputeRatio(k)
    BY <2>3 DEF ComputeRatio, SendTx, Sends
  <2> QED
    BY <2>1, <2>2, <2>3
<1> QED
  BY <1>1, <1>2, <1>3, SmallStep

\* A step of the settle loop that sends nothing.
LEMMA LoopStep ==
  ASSUME KInv, NEW k \in Keepers, pc[k] \in {"SYNC", "COUNT", "SCAN"},
         UNCHANGED <<running, listed, mempool, done, sent>>, UNCHANGED lifecycleVars,
         NEW label \in {"COUNT", "SCAN", "SETTLE", "STATE"}, Goto(k, label),
         NEW b \in Nat \cup {NoCount}, before' = [before EXCEPT ![k] = b],
         NEW P \in SUBSET Accounts, pending' = [pending EXCEPT ![k] = P],
         label = "COUNT" => b = NoCount,
         label = "SCAN" => b # NoCount /\ Left(k, {}) <= b,
         label = "SETTLE" => b # NoCount /\ Left(k, P) < b
  PROVE  KInv'
<1>1. todo[k] # {} /\ sent[k] = NoTx /\ stage[Group(k)] # "OPEN"
  BY AtWork DEF KInv, KeeperOK, AfterFinalization, Settling
<1>2. ChainMoves
  BY ChainRests DEF KInv
<1>3. /\ pc' \in [Keepers -> Labels] /\ pc'[k] = label /\ todo' = todo
      /\ \A j \in Keepers \ {k} : pc'[j] = pc[j]
  BY GotoTypes DEF KInv, Labels
<1>4. before' \in [Keepers -> Nat \cup {NoCount}] /\ before'[k] = b
      /\ \A j \in Keepers \ {k} : before'[j] = before[j]
  BY DEF KInv, KeeperTypes
<1>5. pending' \in [Keepers -> SUBSET Accounts] /\ pending'[k] = P
      /\ \A j \in Keepers \ {k} : pending'[j] = pending[j]
  BY DEF KInv, KeeperTypes
<1>6. KeeperTypes' /\ OthersRest(k)
  BY <1>3, <1>4, <1>5 DEF KInv, KeeperTypes, OthersRest
<1>7. InTick(k)' /\ Awaits(k)' /\ DonePaysOut(k)'
  BY <1>1, <1>3 DEF InTick, Awaits, DonePaysOut, KInv, KeeperOK, lifecycleVars
<1>8. Group(k)' = Group(k) /\ stage' = stage /\ members' = members
  BY <1>3 DEF Group, lifecycleVars
<1>9. AfterFinalization(k)'
  BY <1>1, <1>8 DEF AfterFinalization
<1>10. \A S : Left(k, S)' = Left(k, S)
  BY <1>8 DEF Left
<1>11. Progress(k)'
  BY <1>1, <1>3, <1>4, <1>5, <1>8 DEF Progress, Left
<1> QED
  BY <1>2, <1>6, <1>7, <1>9, <1>11, OwnStep DEF KeeperOK

LEMMA SyncDirectoryKeeps ==
  ASSUME KInv, NEW k \in Keepers, SyncDirectory(k)
  PROVE  KInv'
<1>1. /\ pc[k] = "SYNC" /\ Goto(k, "COUNT")
      /\ UNCHANGED <<running, listed, mempool, done, sent>> /\ UNCHANGED lifecycleVars
      /\ before' = [before EXCEPT ![k] = NoCount] /\ pending' = pending
  BY DEF SyncDirectory, chainVars
<1>2. pending[k] \in SUBSET Accounts /\ pending' = [pending EXCEPT ![k] = pending[k]]
  BY <1>1 DEF KInv, KeeperTypes
<1> QED
  BY <1>1, <1>2, LoopStep

LEMMA CountParticipantsKeeps ==
  ASSUME KInv, NEW k \in Keepers, CountParticipants(k)
  PROVE  KInv'
<1> DEFINE left == Cardinality(members[Group(k)])
<1>1. /\ pc[k] = "COUNT" /\ UNCHANGED <<running, listed, mempool, done, sent>>
      /\ UNCHANGED lifecycleVars /\ pending' = pending
  BY DEF CountParticipants, chainVars
<1>2. Group(k) \in Groups
  BY <1>1, AtWork
<1>3. members[Group(k)] \ {} = members[Group(k)]
  OBVIOUS
<1>4. left \in Nat /\ Left(k, {}) = left
  BY <1>2, <1>3, MembersFinite DEF KInv, Left
<1>5. pending[k] \in SUBSET Accounts /\ pending' = [pending EXCEPT ![k] = pending[k]]
  BY <1>1 DEF KInv, KeeperTypes
<1>6. before[k] \in Nat \cup {NoCount}
  BY DEF KInv, KeeperTypes
<1>7. CASE left \in {0, before[k]}
  <2>1. Goto(k, "STATE") /\ before' = before
    BY <1>7 DEF CountParticipants
  <2>2. before' = [before EXCEPT ![k] = before[k]]
    BY <2>1 DEF KInv, KeeperTypes
  <2> QED
    BY <1>1, <1>5, <1>6, <2>1, <2>2, LoopStep
<1>8. CASE left \notin {0, before[k]}
  <2>1. Goto(k, "SCAN") /\ before' = [before EXCEPT ![k] = left]
    BY <1>8 DEF CountParticipants
  <2>2. left # NoCount /\ left <= left
    BY <1>4, KeepersAssumption
  <2> HIDE DEF left
  <2> QED
    BY <1>1, <1>4, <1>5, <2>1, <2>2, LoopStep
<1> QED
  BY <1>7, <1>8

\* A batch that is not empty takes somebody away.
LEMMA BatchSettlesSomebody ==
  ASSUME ChainTypes, NEW k \in Keepers, Group(k) \in Groups
  PROVE  /\ Batch(k, Group(k)) \in SUBSET Accounts
         /\ Batch(k, Group(k)) # {} => Left(k, Batch(k, Group(k))) < Left(k, {})
<1> DEFINE B == Batch(k, Group(k))
           M == members[Group(k)]
<1>1. B \subseteq M
  BY DEF Batch
<1>2. M \subseteq Accounts
  BY DEF ChainTypes
<1>3. IsFiniteSet(M) /\ M \ {} = M
  BY <1>2, AccountsFinite, FS_Subset
<1> HIDE DEF B
<1>4. ASSUME B # {} PROVE Cardinality(M \ B) < Cardinality(M)
  <2>1. M \ B \in SUBSET M /\ M \ B # M
    BY <1>1, <1>4
  <2>2. Cardinality(M \ B) \in Nat /\ Cardinality(M) \in Nat
    BY <1>3, <2>1, FS_Subset, FS_CardinalityType
  <2>3. Cardinality(M \ B) <= Cardinality(M) /\ Cardinality(M \ B) # Cardinality(M)
    BY <1>3, <2>1, FS_Subset
  <2> QED
    BY <2>2, <2>3
<1> QED
  BY <1>1, <1>2, <1>3, <1>4 DEF Left, B

LEMMA ScanHoldersKeeps ==
  ASSUME KInv, NEW k \in Keepers, ScanHolders(k)
  PROVE  KInv'
<1> DEFINE P == Batch(k, Group(k))
<1>1. /\ pc[k] = "SCAN" /\ UNCHANGED <<running, listed, mempool, done, sent>>
      /\ UNCHANGED lifecycleVars /\ before' = before
      /\ pending' = [pending EXCEPT ![k] = P]
  BY DEF ScanHolders, chainVars
<1>2. Group(k) \in Groups
  BY <1>1, AtWork
<1>3. P \in SUBSET Accounts /\ (P # {} => Left(k, P) < Left(k, {}))
  BY <1>2, BatchSettlesSomebody DEF KInv
<1>4. before[k] \in Nat /\ before[k] # NoCount /\ Left(k, {}) <= before[k]
  BY <1>1 DEF KInv, KeeperOK, Progress, KeeperTypes
<1>5. before' = [before EXCEPT ![k] = before[k]]
  BY <1>1 DEF KInv, KeeperTypes
<1>6. \A S : Left(k, S) \in Nat
  BY <1>2, MembersFinite DEF KInv, Left
<1>7. pending'[k] = P
  BY <1>1 DEF KInv, KeeperTypes
<1>8. Goto(k, IF P = {} THEN "STATE" ELSE "SETTLE")
  BY <1>7 DEF ScanHolders
<1> HIDE DEF P
<1>9. CASE P = {}
  BY <1>1, <1>3, <1>4, <1>5, <1>8, <1>9, LoopStep
<1>10. CASE P # {}
  <2>1. Left(k, P) < before[k]
    BY <1>3, <1>4, <1>6, <1>10
  <2> QED
    BY <1>1, <1>3, <1>4, <1>5, <1>8, <1>10, <2>1, LoopStep
<1> QED
  BY <1>9, <1>10

LEMMA SettleBatchKeeps ==
  ASSUME KInv, NEW k \in Keepers, SettleBatch(k)
  PROVE  KInv'
<1> DEFINE tx == Tx(k, "SETTLE", Group(k), pending[k])
<1>1. /\ pc[k] = "SETTLE" /\ UNCHANGED <<running, listed, done, before>>
      /\ UNCHANGED lifecycleVars /\ pending' = [pending EXCEPT ![k] = {}]
  BY DEF SettleBatch, chainVars
<1>2. todo[k] # {} /\ Group(k) \in Groups /\ sent[k] = NoTx
  BY <1>1, AtWork
<1>3. stage[Group(k)] # "OPEN" /\ before[k] # NoCount /\ Left(k, pending[k]) < before[k]
  BY <1>1 DEF KInv, KeeperOK, AfterFinalization, Settling, Progress
<1>4. ChainMoves
  BY <1>1, ChainRests DEF KInv
<1>5. /\ pending' \in [Keepers -> SUBSET Accounts]
      /\ \A j \in Keepers \ {k} : pending'[j] = pending[j]
  BY <1>1 DEF KInv, KeeperTypes
<1>6. DonePaysOut(k)'
  BY <1>1 DEF DonePaysOut, KInv, KeeperOK, lifecycleVars
<1>7. CASE Goto(k, "STATE") /\ UNCHANGED <<mempool, sent>>
  <2>1. /\ pc' \in [Keepers -> Labels] /\ pc'[k] = "STATE" /\ todo' = todo
        /\ \A j \in Keepers \ {k} : pc'[j] = pc[j]
    BY <1>7, GotoTypes DEF KInv, Labels
  <2>2. KeeperTypes' /\ OthersRest(k)
    BY <1>1, <1>5, <1>7, <2>1 DEF KInv, KeeperTypes, OthersRest
  <2>3. KeeperOK(k)'
    BY <1>2, <1>6, <1>7, <2>1, Calm DEF InTick
  <2> QED
    BY <1>4, <2>2, <2>3, OwnStep
<1>8. CASE Sends(k, tx)
  <2>1. tx \in Txs /\ tx.kind = "SETTLE" /\ tx.accounts = pending[k] /\ tx # NoTx
    BY <1>2, KeepersAssumption DEF Tx, Txs, KInv, KeeperTypes
  <2>2. pc[k] \in Labels \ {"IDLE", "WAIT"}
    BY <1>1 DEF Labels
  <2>3. /\ mempool' \subseteq Txs
        /\ sent' \in [Keepers -> Txs \cup {NoTx}] /\ sent'[k] = tx
        /\ \A j \in Keepers \ {k} : sent'[j] = sent[j]
        /\ InTick(k)' /\ Awaits(k)'
    BY <1>8, <2>1, <2>2, SendTypes DEF Sends
  <2>4. /\ pc' \in [Keepers -> Labels] /\ pc'[k] = "WAIT" /\ todo' = todo
        /\ \A j \in Keepers \ {k} : pc'[j] = pc[j]
    BY <1>8, GotoTypes DEF Sends, KInv, Labels
  <2> HIDE DEF tx
  <2>5. KeeperTypes' /\ OthersRest(k)
    BY <1>1, <1>5, <2>3, <2>4 DEF KInv, KeeperTypes, OthersRest
  <2>6. Group(k)' = Group(k) /\ stage' = stage /\ members' = members
    BY <1>1, <2>4 DEF Group, lifecycleVars
  <2>7. AfterFinalization(k)'
    BY <1>3, <2>6 DEF AfterFinalization
  <2>8. Progress(k)'
    BY <1>1, <1>3, <2>1, <2>3, <2>4, <2>6 DEF Progress, Left
  <2> QED
    BY <1>4, <1>6, <2>3, <2>5, <2>7, <2>8, OwnStep DEF KeeperOK
<1> QED
  BY <1>7, <1>8 DEF SettleBatch, SendTx, Sends

LEMMA ReadSettledKeeps ==
  ASSUME KInv, NEW k \in Keepers, ReadSettled(k)
  PROVE  KInv'
<1> DEFINE g == Group(k)
<1>1. pc[k] = "STATE" /\ todo[k] # {} /\ g \in Groups /\ sent[k] = NoTx
  BY AtWork DEF ReadSettled
<1>2. UNCHANGED <<running, listed, mempool, before, pending, sent>> /\ UNCHANGED lifecycleVars
  BY DEF ReadSettled, chainVars, tickVars
<1>3. done' = [done EXCEPT ![k] = IF stage[g] = "REDEEMABLE" THEN done[k] \cup {g} ELSE done[k]]
  BY DEF ReadSettled
<1>4. Goto(k, "RATIO") \/ NextGroup(k)
  BY DEF ReadSettled
<1> HIDE DEF g
<1>5. ChainMoves
  BY <1>2, ChainRests DEF KInv
<1>6. /\ pc' \in [Keepers -> Labels] /\ todo' \in [Keepers -> SUBSET DOMAIN Catalog]
      /\ \A j \in Keepers \ {k} : pc'[j] = pc[j] /\ todo'[j] = todo[j]
      /\ InTick(k)' /\ pc'[k] \in {"IDLE", "GROUP", "RATIO"}
  <2>1. CASE NextGroup(k)
    BY <1>1, <2>1, NextGroupTypes DEF KInv
  <2>2. CASE Goto(k, "RATIO")
    <3>1. /\ pc' \in [Keepers -> Labels] /\ pc'[k] = "RATIO" /\ todo' = todo
          /\ \A j \in Keepers \ {k} : pc'[j] = pc[j]
      BY <2>2, GotoTypes DEF KInv, Labels
    <3> QED
      BY <1>1, <3>1 DEF InTick, KInv, KeeperTypes
  <2> QED
    BY <1>4, <2>1, <2>2
<1>7. done' \in [Keepers -> SUBSET Groups] /\ \A j \in Keepers \ {k} : done'[j] = done[j]
  BY <1>1, <1>3 DEF KInv, KeeperTypes
<1>8. KeeperTypes' /\ OthersRest(k)
  BY <1>2, <1>6, <1>7 DEF KInv, KeeperTypes, OthersRest
<1>9. DonePaysOut(k)'
  BY <1>2, <1>3 DEF DonePaysOut, KInv, KeeperOK, KeeperTypes, lifecycleVars
<1> QED
  BY <1>1, <1>2, <1>5, <1>6, <1>8, <1>9, Calm, OwnStep

-----------------------------------------------------------------------------
(* Faults *)

\* A tick that ends, with what it waited for forgotten, leaves nothing to keep;
\* what was sent stays in the mempool or is lost.
LEMMA TickOver ==
  ASSUME KInv, NEW k \in Keepers, EndTick(k),
         UNCHANGED <<running, listed, before>>, UNCHANGED lifecycleVars, mempool' \subseteq mempool,
         sent' = [sent EXCEPT ![k] = NoTx],
         pending' \in [Keepers -> SUBSET Accounts],
         \A j \in Keepers \ {k} : pending'[j] = pending[j],
         done' \in [Keepers -> SUBSET Groups], done'[k] \subseteq done[k],
         \A j \in Keepers \ {k} : done'[j] = done[j]
  PROVE  KInv'
<1>1. ChainMoves
  BY ChainRests DEF KInv
<1>2. EndTickTypes(k)
  BY EndTickMoves DEF KInv
<1>3. /\ sent' \in [Keepers -> Txs \cup {NoTx}] /\ sent'[k] = NoTx
      /\ \A j \in Keepers \ {k} : sent'[j] = sent[j]
  BY DEF KInv, KeeperTypes
<1>4. KeeperTypes' /\ OthersRest(k)
  BY <1>2, <1>3 DEF EndTickTypes, KInv, KeeperTypes, OthersRest
<1>5. InTick(k)' /\ DonePaysOut(k)'
  BY <1>2 DEF EndTickTypes, InTick, DonePaysOut, KInv, KeeperOK, lifecycleVars
<1> QED
  BY <1>1, <1>2, <1>3, <1>4, <1>5, Calm, OwnStep DEF EndTickTypes

LEMMA FaultsKeep ==
  ASSUME KInv, NEW k \in Keepers, Throw(k) \/ Restart(k)
  PROVE  KInv'
<1>1. /\ EndTick(k) /\ UNCHANGED <<running, listed, before, mempool>> /\ UNCHANGED lifecycleVars
      /\ sent' = [sent EXCEPT ![k] = NoTx] /\ pending' = [pending EXCEPT ![k] = {}]
  BY DEF Throw, Restart, Fault, chainVars
<1>2. done' = done \/ done' = [done EXCEPT ![k] = {}]
  BY DEF Throw, Restart
<1>3. /\ pending' \in [Keepers -> SUBSET Accounts]
      /\ \A j \in Keepers \ {k} : pending'[j] = pending[j]
  BY <1>1 DEF KInv, KeeperTypes
<1>4. /\ done' \in [Keepers -> SUBSET Groups] /\ done'[k] \subseteq done[k]
      /\ \A j \in Keepers \ {k} : done'[j] = done[j]
  BY <1>2 DEF KInv, KeeperTypes
<1> QED
  BY <1>1, <1>3, <1>4, TickOver

LEMMA DropKeeps ==
  ASSUME KInv, NEW tx \in mempool, Drop(tx)
  PROVE  KInv'
<1>1. tx.from \in Keepers
  BY DEF KInv, KeeperTypes, Txs
<1>2. /\ UNCHANGED <<running, listed, before, pending, done>> /\ UNCHANGED lifecycleVars
      /\ mempool' \subseteq mempool
  BY DEF Drop, Fault, chainVars, tickVars
<1>3. CASE sent[tx.from] = tx
  <2>1. EndTick(tx.from) /\ sent' = [sent EXCEPT ![tx.from] = NoTx]
    BY <1>3 DEF Drop
  <2>2. pending' \in [Keepers -> SUBSET Accounts] /\ done' \in [Keepers -> SUBSET Groups]
    BY <1>2 DEF KInv, KeeperTypes
  <2> QED
    BY <1>1, <1>2, <2>1, <2>2, TickOver
<1>4. CASE sent[tx.from] # tx
  <2>1. UNCHANGED <<pc, todo, sent>>
    BY <1>4 DEF Drop
  <2>2. ChainMoves /\ KeeperTypes'
    BY <1>2, <2>1, ChainRests DEF KInv, KeeperTypes
  <2>3. \A k \in Keepers : KeeperOK(k)'
    BY <1>2, <2>1, <2>2, Unmoved DEF KInv
  <2> QED
    BY <2>2, <2>3 DEF KInv, ChainMoves
<1> QED
  BY <1>3, <1>4

-----------------------------------------------------------------------------
(* A transaction is mined                                                  *)

\* It wakes the keeper that waits for it, which goes on where the receipt says.
LEMMA Woken ==
  ASSUME KInv, ChainMoves, NEW tx \in mempool, sent[tx.from] = tx, Mine(tx),
         KeeperTypes', OthersRest(tx.from)
  PROVE  KeeperOK(tx.from)'
<1> DEFINE k == tx.from
           g == tx.group
<1>1. tx \in Txs /\ tx # NoTx /\ k \in Keepers
  BY KeepersAssumption DEF KInv, KeeperTypes, Txs
<1>2. pc[k] = "WAIT" /\ todo[k] # {} /\ g = Group(k) /\ g \in Groups
  BY <1>1, GroupInCatalog DEF KInv, KeeperOK, Awaits, InTick
<1>3. sent'[k] = NoTx
  BY <1>1 DEF Mine, KInv, KeeperTypes
<1>4. before' = before /\ pending' = pending
  BY DEF Mine, tickVars
<1>5. \A S \in SUBSET Groups : (\A h \in S : stage[h] = "REDEEMABLE") =>
                              (\A h \in S : stage'[h] = "REDEEMABLE")
  BY DEF ChainMoves
<1>6. done[k] \in SUBSET Groups /\ \A h \in done[k] : stage[h] = "REDEEMABLE"
  BY <1>1 DEF KInv, KeeperTypes, KeeperOK, DonePaysOut
<1>7. done'[k] = done[k] => DonePaysOut(k)'
  BY <1>5, <1>6 DEF DonePaysOut
<1>8. NextGroup(k) => pc'[k] \in {"IDLE", "GROUP"} /\ InTick(k)'
  BY <1>1, <1>2, NextGroupTypes DEF KInv
<1>9. \A label \in Labels : Goto(k, label) =>
        pc'[k] = label /\ InTick(k)' /\ Group(k)' = Group(k)
  <2>1. TAKE label \in Labels
  <2>2. HAVE Goto(k, label)
  <2>3. pc'[k] = label /\ todo' = todo
    BY <1>1, <2>2, GotoTypes DEF KInv
  <2> QED
    BY <1>2, <2>3 DEF InTick, Group
<1>10. CASE ~Valid(tx)
  <2>1. AfterRevert(k, tx) /\ UNCHANGED done
    BY <1>10 DEF Mine
  <2>2. pc'[k] \in {"IDLE", "GROUP", "PROOF", "STATE"} /\ InTick(k)'
    BY <1>8, <1>9, <2>1 DEF AfterRevert, Labels
  <2> QED
    BY <1>1, <1>3, <1>7, <2>1, <2>2, Calm
<1>11. CASE Valid(tx) /\ tx.kind = "FLAG"
  <2>1. Goto(k, "PROOF") /\ UNCHANGED done
    BY <1>11 DEF Mine, AfterReceipt
  <2> QED
    BY <1>1, <1>3, <1>7, <1>9, <2>1, Calm DEF Labels
<1>12. CASE Valid(tx) /\ tx.kind = "FINALIZE"
  <2>1. Goto(k, "SYNC") /\ UNCHANGED done /\ Finalize(g, 1)
    BY <1>12 DEF Mine, AfterReceipt, Execute
  <2>2. stage'[g] = "FINALIZED"
    BY <1>2, <2>1 DEF Finalize, KInv, ChainTypes
  <2>3. pc'[k] = "SYNC" /\ InTick(k)' /\ Group(k)' = g
    BY <1>2, <1>9, <2>1 DEF Labels
  <2> QED
    BY <1>3, <1>7, <2>1, <2>2, <2>3
       DEF KeeperOK, Awaits, AfterFinalization, Settling, Progress
<1>13. CASE Valid(tx) /\ tx.kind = "SETTLE"
  <2>1. Goto(k, "COUNT") /\ UNCHANGED done /\ Settle(tx.accounts, g)
    BY <1>13 DEF Mine, AfterReceipt, Execute
  <2>2. stage'[g] # "OPEN" /\ members'[g] = members[g] \ tx.accounts
    BY <1>2, <2>1 DEF Settle, KInv, ChainTypes
  <2>3. pc'[k] = "COUNT" /\ InTick(k)' /\ Group(k)' = g
    BY <1>2, <1>9, <2>1 DEF Labels
  <2>4. before[k] # NoCount /\ Left(k, tx.accounts) < before[k]
    BY <1>1, <1>13 DEF KInv, KeeperOK, Progress
  <2>5. members'[g] \ {} = members[g] \ tx.accounts
    BY <2>2
  <2>6. Left(k, {})' < before'[k]
    BY <1>2, <1>4, <2>3, <2>4, <2>5 DEF Left
  <2> QED
    BY <1>3, <1>7, <2>1, <2>2, <2>3, <2>6
       DEF KeeperOK, Awaits, AfterFinalization, Settling, Progress
<1>14. CASE Valid(tx) /\ tx.kind = "RATIO"
  <2>1. NextGroup(k) /\ done' = [done EXCEPT ![k] = done[k] \cup {g}] /\ FixRatio(g)
    BY <1>14 DEF Mine, AfterReceipt, Execute
  <2>2. stage'[g] = "REDEEMABLE"
    BY <1>2, <2>1 DEF FixRatio, KInv, ChainTypes
  <2>3. done'[k] = done[k] \cup {g}
    BY <1>1, <2>1 DEF KInv, KeeperTypes
  <2>4. DonePaysOut(k)'
    BY <1>5, <1>6, <2>2, <2>3 DEF DonePaysOut
  <2> QED
    BY <1>1, <1>3, <1>8, <2>1, <2>4, Calm
<1>15. tx.kind \in {"FLAG", "FINALIZE", "SETTLE", "RATIO"}
  BY <1>1 DEF Txs
<1> QED
  BY <1>10, <1>11, <1>12, <1>13, <1>14, <1>15

LEMMA MineKeeps ==
  ASSUME KInv, NEW tx \in mempool, Mine(tx)
  PROVE  KInv'
<1> DEFINE k == tx.from
<1>1. tx \in Txs /\ tx.group \in Groups /\ k \in Keepers
  BY DEF KInv, KeeperTypes, Txs
<1>2. /\ UNCHANGED <<running, listed, before, pending>> /\ mempool' \subseteq mempool
      /\ IF Valid(tx) THEN Execute(tx) ELSE UNCHANGED <<lifecycleVars, flagged>>
  BY DEF Mine, tickVars
<1>3. ChainMoves
  <2>1. CASE Valid(tx)
    BY <1>1, <1>2, <2>1, TransactionMoves DEF KInv
  <2>2. CASE ~Valid(tx)
    BY <1>2, <2>2, ChainRests DEF KInv
  <2> QED
    BY <2>1, <2>2
<1>4. CASE sent[k] # tx
  <2>1. UNCHANGED <<sent, pc, todo, done>>
    BY <1>4 DEF Mine
  <2>2. KeeperTypes'
    BY <1>2, <2>1 DEF KInv, KeeperTypes
  <2>3. \A j \in Keepers : KeeperOK(j)'
    BY <1>2, <1>3, <2>1, Unmoved DEF KInv
  <2> QED
    BY <1>3, <2>2, <2>3 DEF KInv, ChainMoves
<1>5. CASE sent[k] = tx
  <2>1. sent' = [sent EXCEPT ![k] = NoTx]
    BY <1>5 DEF Mine
  <2>2. todo[k] # {}
    BY <1>1, <1>5, KeepersAssumption DEF KInv, KeeperOK, Awaits, InTick
  <2>3. \/ NextGroup(k)
        \/ \E label \in {"PROOF", "SYNC", "COUNT", "STATE"} : Goto(k, label)
    BY <1>1, <1>5 DEF Mine, AfterReceipt, AfterRevert, Txs
  <2>4. /\ pc' \in [Keepers -> Labels] /\ todo' \in [Keepers -> SUBSET DOMAIN Catalog]
        /\ \A j \in Keepers \ {k} : pc'[j] = pc[j] /\ todo'[j] = todo[j]
    <3>1. CASE NextGroup(k)
      BY <1>1, <2>2, <3>1, NextGroupTypes DEF KInv
    <3>2. ASSUME NEW label \in {"PROOF", "SYNC", "COUNT", "STATE"}, Goto(k, label)
          PROVE  /\ pc' \in [Keepers -> Labels] /\ todo' = todo
                 /\ \A j \in Keepers \ {k} : pc'[j] = pc[j]
      BY <1>1, <3>2, GotoTypes DEF KInv, Labels
    <3> QED
      BY <2>3, <3>1, <3>2 DEF KInv, KeeperTypes
  <2>5. done' = done \/ done' = [done EXCEPT ![k] = done[k] \cup {tx.group}]
    BY <1>1, <1>5 DEF Mine, AfterReceipt, Txs
  <2>6. done' \in [Keepers -> SUBSET Groups] /\ \A j \in Keepers \ {k} : done'[j] = done[j]
    BY <1>1, <2>5 DEF KInv, KeeperTypes
  <2>7. sent' \in [Keepers -> Txs \cup {NoTx}] /\ \A j \in Keepers \ {k} : sent'[j] = sent[j]
    BY <2>1 DEF KInv, KeeperTypes
  <2>8. KeeperTypes' /\ OthersRest(k)
    BY <1>2, <2>4, <2>6, <2>7 DEF KInv, KeeperTypes, OthersRest
  <2>9. KeeperOK(k)'
    BY <1>3, <1>5, <2>8, Woken
  <2> QED
    BY <1>1, <1>3, <2>8, <2>9, OwnStep
<1> QED
  BY <1>4, <1>5

-----------------------------------------------------------------------------
(* The theorem                                                             *)

LEMMA KeepersInvariant == SettleSpec => []KInv
<1>1. SettleInit => KInv
  <2> SUFFICES ASSUME SettleInit PROVE KInv
    OBVIOUS
  <2>1. ChainTypes /\ FinalizedExpired
    BY DEF SettleInit, LifecycleInit, ChainTypes, FinalizedExpired
  <2>2. KeeperTypes
    BY DEF SettleInit, KeeperTypes, Labels
  <2>3. ASSUME NEW k \in Keepers
        PROVE  pc[k] = "IDLE" /\ done[k] = {} /\ sent[k] = NoTx
    BY DEF SettleInit
  <2>4. \A k \in Keepers : KeeperOK(k)
    BY <2>3 DEF KeeperOK, InTick, Awaits, AfterFinalization, Settling, Progress, DonePaysOut
  <2> QED
    BY <2>1, <2>2, <2>4 DEF KInv
<1>2. KInv /\ [SettleNext]_settleVars => KInv'
  <2> SUFFICES ASSUME KInv, [SettleNext]_settleVars PROVE KInv'
    OBVIOUS
  <2>1. ASSUME NEW k \in running, KeeperStep(k)
        PROVE  KInv'
    <3>1. k \in Keepers
      BY DEF KInv, KeeperTypes
    <3> QED
      BY <2>1, <3>1, StartTickKeeps, ReadGroupKeeps, SmallStepsKeep, SyncDirectoryKeeps,
         CountParticipantsKeeps, ScanHoldersKeeps, SettleBatchKeeps, ReadSettledKeeps
         DEF KeeperStep
  <2>2. ASSUME NEW k \in running, Throw(k) \/ Restart(k)
        PROVE  KInv'
    BY <2>2, FaultsKeep DEF KInv, KeeperTypes
  <2>3. ASSUME NEW tx \in mempool, Mine(tx) \/ Drop(tx)
        PROVE  KInv'
    BY <2>3, MineKeeps, DropKeeps
  <2>4. CASE Surroundings \/ UNCHANGED settleVars
    <3>1. /\ UNCHANGED <<running, listed, mempool>>
          /\ UNCHANGED <<pc, todo, done, before, pending, sent>>
      BY <2>4 DEF Surroundings, Pass, Join, Leave, ProofAppears, IndexerCatchesUp, keeperVars,
                  tickVars, settleVars, chainVars
    <3>2. ChainMoves
      BY <2>4, SurroundingsMove, ChainRests DEF KInv, settleVars, chainVars
    <3>3. KeeperTypes'
      BY <3>1 DEF KInv, KeeperTypes
    <3>4. \A k \in Keepers : KeeperOK(k)'
      BY <3>1, <3>2, Unmoved DEF KInv
    <3> QED
      BY <3>2, <3>3, <3>4 DEF KInv, ChainMoves
  <2> QED
    BY <2>1, <2>2, <2>3, <2>4 DEF SettleNext
<1> QED
  BY <1>1, <1>2, PTL DEF SettleSpec

\* A keeper only forgets groups that pay out, and its settle loop gives up no
\* group while its batches settle somebody: for any number of keepers, catalog,
\* holders and batch size, whatever order transactions, faults, restarts and the
\* indexer take (settlementKeeper.ts: tick, the settle loop, done).
THEOREM KeepersStaySafe == SettleSpec => []KeepersSafe
<1>1. KInv => KeepersSafe
  <2> SUFFICES ASSUME KInv PROVE KeepersSafe
    OBVIOUS
  <2>1. DoneIsRedeemable
    BY DEF KInv, KeeperOK, DonePaysOut, DoneIsRedeemable
  <2>2. ASSUME NEW k \in Keepers, pc[k] = "COUNT", before[k] # NoCount
        PROVE  Cardinality(members[Group(k)]) < before[k]
    <3>1. members[Group(k)] \ {} = members[Group(k)]
      OBVIOUS
    <3> QED
      BY <2>2, <3>1 DEF KInv, KeeperOK, Progress, Left
  <2> QED
    BY <2>1, <2>2 DEF KeepersSafe, BatchesProgress
<1> QED
  BY <1>1, KeepersInvariant, PTL

-----------------------------------------------------------------------------
(* The liquidation bot                                                     *)

\* The limits of a slice under way are those of its preview.
LimitsOfQuote ==
  call # NoCall =>
    /\ botPc = "WAIT"
    /\ call.kind = "SLICE" =>
         /\ call.minCash = MinCash(quoted) /\ call.maxPay = MaxPay(quoted)
         /\ call.at \in Positions => quoted \in Int
    /\ call.kind \in {"START", "SLICE", "END"}

BInv ==
  /\ offer \in [Positions -> Offers]
  /\ DOMAIN quantity = Positions
  /\ LimitsOfQuote

LEMMA OffersAreInts ==
  ASSUME BInv
  PROVE  \A p \in Positions : offer[p] \in Int
<1>1. Offers \subseteq Int
  BY BotAssumption
<1>2. \A p \in Positions : offer[p] \in Offers
  BY DEF BInv
<1> QED
  BY <1>1, <1>2

LEMMA MarketTypes ==
  ASSUME BInv, NEW p, Start(p) \/ Stop(p) \/ \E whole \in BOOLEAN : TakeSlice(p, whole)
  PROVE  offer' \in [Positions -> Offers] /\ DOMAIN quantity' = Positions
BY DEF BInv, Start, Stop, TakeSlice

LEMMA BotInvariant == LiquidateSpec => []BInv
<1>1. BotInit => BInv
  BY DEF BotInit, BInv, LimitsOfQuote
<1>2. BInv /\ [LiquidateNext]_liquidateVars => BInv'
  <2> SUFFICES ASSUME BInv, [LiquidateNext]_liquidateVars PROVE BInv'
    OBVIOUS
  <2>1. CASE StartPass \/ ReadAccount
    <3>1. UNCHANGED <<offer, quantity, call, quoted>>
      BY <2>1 DEF StartPass, ReadAccount, marketVars
    <3>2. call = NoCall
      BY <2>1 DEF BInv, LimitsOfQuote, StartPass, ReadAccount
    <3> QED
      BY <3>1, <3>2 DEF BInv, LimitsOfQuote
  <2>2. CASE OpenBucket
    <3>1. UNCHANGED <<offer, quantity, quoted>>
      BY <2>2 DEF OpenBucket, marketVars
    <3>2. call = NoCall
      BY <2>2 DEF BInv, LimitsOfQuote, OpenBucket
    <3>3. \/ UNCHANGED call
          \/ botPc' = "WAIT" /\ call'.kind = "START"
      BY <2>2 DEF OpenBucket, Send, Stay
    <3> QED
      BY <3>1, <3>2, <3>3 DEF BInv, LimitsOfQuote
  <2>3. CASE Slice
    <3>1. UNCHANGED <<offer, quantity>>
      BY <2>3 DEF Slice, marketVars
    <3>2. call = NoCall
      BY <2>3 DEF BInv, LimitsOfQuote, Slice
    <3>3. \/ UNCHANGED call
          \/ /\ quoted' = offer[Here] /\ botPc' = "WAIT" /\ call'.kind = "SLICE"
             /\ call'.at = Here
             /\ call'.minCash = MinCash(offer[Here]) /\ call'.maxPay = MaxPay(offer[Here])
          \/ botPc' = "WAIT" /\ call'.kind = "END"
      BY <2>3 DEF Slice, Send, Stay, Refused
    <3>4. \A q : MinCash(q)' = MinCash(q) /\ MaxPay(q)' = MaxPay(q)
      BY DEF MinCash, MaxPay
    <3>5. \A p \in Positions : offer[p] \in Int
      BY OffersAreInts
    <3> QED
      BY <3>1, <3>2, <3>3, <3>4, <3>5 DEF BInv, LimitsOfQuote
  <2>4. CASE MineCall
    <3>1. call' = NoCall
      BY <2>4 DEF MineCall
    <3>2. offer' \in [Positions -> Offers] /\ DOMAIN quantity' = Positions
      <4>1. \/ UNCHANGED <<offer, quantity>>
            \/ \E p : Start(p) \/ Stop(p) \/ TakeSlice(p, call.whole)
        <5>1. CASE call.kind = "START"
          BY <2>4, <5>1 DEF MineCall, marketVars
        <5>2. CASE call.kind = "SLICE"
          BY <2>4, <5>2 DEF MineCall, marketVars
        <5>3. CASE call.kind = "END"
          BY <2>4, <5>3 DEF MineCall, marketVars
        <5>4. call.kind \in {"START", "SLICE", "END"}
          BY <2>4 DEF MineCall, BInv, LimitsOfQuote
        <5> QED
          BY <5>1, <5>2, <5>3, <5>4
      <4>2. \A p, whole : TakeSlice(p, whole) => UNCHANGED offer /\ DOMAIN quantity' = DOMAIN quantity
        BY DEF TakeSlice
      <4> QED
        BY <4>1, <4>2 DEF BInv, Start, Stop
    <3> QED
      BY <3>1, <3>2 DEF BInv, LimitsOfQuote
  <2>5. CASE PassFails
    BY <2>5 DEF PassFails, BInv, LimitsOfQuote, marketVars
  <2>6. CASE (Market \/ BonusGrows \/ Rival) /\ UNCHANGED <<botFaults, botVars>>
    <3>1. offer' \in [Positions -> Offers] /\ DOMAIN quantity' = Positions
      <4>1. CASE Market
        BY <4>1 DEF Market, BInv
      <4>2. CASE BonusGrows
        BY <4>2 DEF BonusGrows, BInv
      <4>3. CASE Rival
        BY <4>3, MarketTypes DEF Rival
      <4> QED
        BY <2>6, <4>1, <4>2, <4>3
    <3>2. UNCHANGED <<botPc, call, quoted>>
      BY <2>6 DEF botVars
    <3> QED
      BY <3>1, <3>2 DEF BInv, LimitsOfQuote, MinCash, MaxPay
  <2>7. CASE UNCHANGED liquidateVars
    BY <2>7 DEF liquidateVars, marketVars, botVars, BInv, LimitsOfQuote, MinCash, MaxPay
  <2> QED
    BY <2>1, <2>2, <2>3, <2>4, <2>5, <2>6, <2>7 DEF LiquidateNext, BotStep
<1> QED
  BY <1>1, <1>2, PTL DEF LiquidateSpec

\* What the limits of a preview promise of the cash that passes them.
LEMMA LimitsKeepQuote ==
  ASSUME NEW q \in Int, NEW got \in Int, WithinLimits(got, MinCash(q), MaxPay(q))
  PROVE  /\ got * 10000 >= q * 10000 - SlippageBps * (IF q < 0 THEN -q ELSE q) - 9999
         /\ q > 0 => got >= 0
<1> DEFINE S == SlippageBps
<1>1. S \in 0..10000
  BY BotAssumption
<1>2. \A x \in Int : 10000 * (x \div 10000) <= x /\ x <= 10000 * (x \div 10000) + 9999
  OBVIOUS
<1>3. q * (10000 - S) = q * 10000 - S * q /\ -q * (10000 + S) = -q * 10000 - S * q
  BY <1>1
<1>4. S * (-q) = -(S * q) /\ S * q \in Int
  BY <1>1
<1>5. q >= 0 => S * q <= 10000 * q /\ S * q >= 0
  BY <1>1
<1>6. q < 0 => S * q <= 0
  <2>1. \A m, n \in Nat : m * n >= 0
    OBVIOUS
  <2>2. ASSUME q < 0 PROVE S * (-q) >= 0
    <3>1. S \in Nat /\ -q \in Nat
      BY <1>1, <2>2
    <3> HIDE DEF S
    <3> QED
      BY <2>1, <3>1
  <2> HIDE DEF S
  <2> DEFINE sq == S * q
  <2>3. S * (-q) = -sq /\ sq \in Int
    BY <1>4
  <2> HIDE DEF sq
  <2>4. q < 0 => sq <= 0
    BY <2>2, <2>3
  <2> QED
    BY <2>4 DEF sq
<1> HIDE DEF S
<1> DEFINE sq == S * q
           low == (q * 10000 - sq) \div 10000
           high == (-q * 10000 - sq) \div 10000
<1>7. MinCash(q) = (IF q > 0 THEN low ELSE 0) /\ MaxPay(q) = (IF q < 0 THEN high ELSE 0)
  BY <1>3 DEF MinCash, MaxPay, S
<1>8. /\ low \in Int /\ 10000 * low <= q * 10000 - sq /\ q * 10000 - sq <= 10000 * low + 9999
      /\ high \in Int /\ 10000 * high <= -q * 10000 - sq
  BY <1>2, <1>4
<1>9. S * (IF q < 0 THEN -q ELSE q) = IF q < 0 THEN -sq ELSE sq
  BY <1>4
<1> HIDE DEF low, high, sq
<1>10. IF got > 0 THEN got >= MinCash(q) ELSE MinCash(q) = 0 /\ -got <= MaxPay(q)
  BY DEF WithinLimits
<1>11. sq \in Int /\ (q >= 0 => sq <= 10000 * q /\ sq >= 0) /\ (q < 0 => sq <= 0)
  BY <1>4, <1>5, <1>6 DEF sq
<1>12. CASE q > 0
  <2>1. got >= 0 /\ (got < low => got = 0 /\ low = 0)
    BY <1>7, <1>8, <1>10, <1>12
  <2> QED
    BY <1>8, <1>9, <1>11, <1>12, <2>1 DEF S
<1>13. CASE q <= 0
  <2>1. got >= 0 \/ -got <= (IF q < 0 THEN high ELSE 0)
    BY <1>7, <1>10, <1>13
  <2> QED
    BY <1>8, <1>9, <1>11, <1>13, <2>1 DEF S
<1> QED
  BY <1>12, <1>13

\* Whatever rivals and the market did since the preview, a slice the bot takes
\* gives no less and costs no more than quoted, within slippage, for any offers,
\* positions and slippage (liquidationBot.ts: minCash and maxPay of a slice).
THEOREM SlicesKeepQuotes == LiquidateSpec => SliceKeepsQuote
<1>1. BInv /\ [LiquidateNext]_liquidateVars =>
        [call # NoCall /\ call.kind = "SLICE" /\ quantity'[call.at] # quantity[call.at]
           /\ call' = NoCall =>
           LET got == offer[call.at]
           IN /\ got * 10000 >= quoted * 10000
                     - SlippageBps * (IF quoted < 0 THEN -quoted ELSE quoted) - 9999
              /\ quoted > 0 => got >= 0]_liquidateVars
  <2> SUFFICES ASSUME BInv, [LiquidateNext]_liquidateVars, call # NoCall, call.kind = "SLICE",
                      quantity'[call.at] # quantity[call.at], call' = NoCall
               PROVE  LET got == offer[call.at]
                      IN /\ got * 10000 >= quoted * 10000
                                - SlippageBps * (IF quoted < 0 THEN -quoted ELSE quoted) - 9999
                         /\ quoted > 0 => got >= 0
    OBVIOUS
  <2>1. botPc = "WAIT" /\ call.minCash = MinCash(quoted) /\ call.maxPay = MaxPay(quoted)
        /\ (call.at \in Positions => quoted \in Int)
    BY DEF BInv, LimitsOfQuote
  <2>2. MineCall
    BY <2>1 DEF LiquidateNext, BotStep, StartPass, ReadAccount, OpenBucket, Slice, PassFails,
                marketVars, botVars, liquidateVars
  <2>3. CanSlice(call.at, call.minCash, call.maxPay) /\ TakeSlice(call.at, call.whole)
    BY <2>2 DEF MineCall, marketVars
  <2>4. call.at \in Positions
    BY <2>3 DEF TakeSlice, BInv
  <2>5. offer[call.at] \in Int
    BY <2>4, OffersAreInts
  <2>6. WithinLimits(offer[call.at], MinCash(quoted), MaxPay(quoted))
    BY <2>1, <2>3 DEF CanSlice
  <2> QED
    BY <2>1, <2>4, <2>5, <2>6, LimitsKeepQuote
<1> QED
  BY <1>1, BotInvariant, PTL DEF LiquidateSpec, SliceKeepsQuote

-----------------------------------------------------------------------------
(* The watchdog                                                            *)

\* A check may be told of once, and once more for each call that failed.
Allowed(c) == IF c \in saved.failing \/ (run.st \in {"up", "save"} /\ c \in run.news) THEN 1 ELSE 0

\* What a run does was decided from the state that is still saved.
RunDecided == run = NoRun \/ \E failed \in SUBSET Checks :
  /\ run = [st |-> run.st, news |-> News(failed), up |-> Recovered(failed), save |-> NextState(failed)]
  /\ run.st \in {"down", "up", "save"}

WatchInv ==
  /\ failures \in Nat /\ told \in [Checks -> Nat] /\ down \in SUBSET Checks
  /\ RunDecided
  /\ \A c \in Checks : told[c] <= failures + Allowed(c)
  /\ run.st = "save" => \A c \in Checks : c \in run.up => told[c] = 0

LEMMA WatchInitInv ==
  ASSUME WatchInit
  PROVE  WatchInv
BY DEF WatchInit, WatchInv, RunDecided, Allowed, NoRun

LEMMA WatchNextInv ==
  ASSUME WatchInv, [WatchNext]_watchVars
  PROVE  WatchInv'
<1>1. CASE UNCHANGED watchVars
  BY <1>1 DEF WatchInv, RunDecided, Allowed, watchVars, News, Recovered, NextState
<1>2. CASE Change
  <2>1. down' \in SUBSET Checks
    BY <1>2 DEF Change, WatchInv
  <2> QED
    BY <1>2, <2>1 DEF Change, WatchInv, RunDecided, Allowed, News, Recovered, NextState
<1>3. CASE RunChecks
  <2>1. PICK failed \in SUBSET Checks : failed = down \ dropped
    BY DEF WatchInv
  <2>2. run' = [st |-> "down", news |-> News(failed), up |-> Recovered(failed), save |-> NextState(failed)]
    BY <1>3, <2>1 DEF RunChecks
  <2>3. UNCHANGED <<down, saved, told, failures>> /\ run = NoRun
    BY <1>3 DEF RunChecks
  <2>4. News(failed)' = News(failed) /\ Recovered(failed)' = Recovered(failed) /\ NextState(failed)' = NextState(failed)
    BY <2>3 DEF News, Recovered, NextState
  <2>5. run'.st = "down" /\ RunDecided'
    BY <2>2, <2>4 DEF RunDecided
  <2> QED
    BY <2>3, <2>5 DEF WatchInv, Allowed, NoRun
<1>4. ASSUME SendDown \/ SendUp \/ Save \/ CallFails, run # NoRun
      PROVE  WatchInv'
  <2>1. PICK failed \in SUBSET Checks :
          /\ run = [st |-> run.st, news |-> News(failed), up |-> Recovered(failed), save |-> NextState(failed)]
          /\ run.st \in {"down", "up", "save"}
    BY <1>4 DEF WatchInv, RunDecided
  <2>2. run.news = News(failed) /\ run.up = Recovered(failed) /\ run.save = NextState(failed)
    BY <2>1
  <2>3. CASE SendDown
    <3>1. /\ run' = [st |-> "up", news |-> News(failed), up |-> Recovered(failed), save |-> NextState(failed)]
          /\ UNCHANGED <<down, saved, failures>> /\ run.st = "down"
          /\ told' = [c \in Checks |-> IF c \in News(failed) THEN told[c] + 1 ELSE told[c]]
      BY <2>1, <2>2, <2>3 DEF SendDown
    <3>2. News(failed)' = News(failed) /\ Recovered(failed)' = Recovered(failed) /\ NextState(failed)' = NextState(failed)
      BY <3>1 DEF News, Recovered, NextState
    <3>3. RunDecided'
      BY <3>1, <3>2 DEF RunDecided
    <3>4. ASSUME NEW c \in Checks PROVE told'[c] <= failures' + Allowed(c)'
      BY <3>1 DEF WatchInv, Allowed, News
    <3> QED
      BY <3>1, <3>3, <3>4 DEF WatchInv
  <2>4. CASE SendUp
    <3>1. /\ run' = [st |-> "save", news |-> News(failed), up |-> Recovered(failed), save |-> NextState(failed)]
          /\ UNCHANGED <<down, saved, failures>> /\ run.st = "up"
          /\ told' = [c \in Checks |-> IF c \in Recovered(failed) THEN 0 ELSE told[c]]
      BY <2>1, <2>2, <2>4 DEF SendUp
    <3>2. News(failed)' = News(failed) /\ Recovered(failed)' = Recovered(failed) /\ NextState(failed)' = NextState(failed)
      BY <3>1 DEF News, Recovered, NextState
    <3>3. RunDecided'
      BY <3>1, <3>2 DEF RunDecided
    <3>4. ASSUME NEW c \in Checks PROVE told'[c] <= failures' + Allowed(c)' /\ (c \in run'.up => told'[c] = 0)
      BY <2>2, <3>1 DEF WatchInv, Allowed
    <3> QED
      BY <3>1, <3>3, <3>4 DEF WatchInv
  <2>5. CASE Save
    <3>1. run' = NoRun /\ saved' = NextState(failed) /\ UNCHANGED <<down, told, failures>> /\ run.st = "save"
      BY <2>2, <2>5 DEF Save
    <3>2. ASSUME NEW c \in Checks, c \notin NextState(failed).failing PROVE told[c] <= failures
      <4>1. c \notin failed \cap (saved.failing \cup saved.pending)
        BY <3>2 DEF NextState
      <4>2. CASE c \in saved.failing
        BY <2>2, <3>1, <4>1, <4>2 DEF WatchInv, Recovered
      <4>3. CASE c \notin saved.failing
        BY <2>2, <4>1, <4>3 DEF WatchInv, Allowed, News
      <4> QED BY <4>2, <4>3
    <3>3. ASSUME NEW c \in Checks PROVE told[c] <= failures + 1
      BY DEF WatchInv, Allowed
    <3>4. \A c \in Checks : told'[c] <= failures' + Allowed(c)'
      BY <3>1, <3>2, <3>3 DEF WatchInv, Allowed
    <3> QED
      BY <3>1, <3>4 DEF WatchInv, RunDecided, NoRun
  <2>6. CASE CallFails
    <3>1. run' = NoRun /\ saved' = saved /\ failures' = failures + 1 /\ UNCHANGED <<down, told>>
      BY <2>6 DEF CallFails, Aborted
    <3>2. \A c \in Checks : told'[c] <= failures' + Allowed(c)'
      BY <3>1 DEF WatchInv, Allowed
    <3> QED
      BY <3>1, <3>2 DEF WatchInv, RunDecided, NoRun
  <2> QED
    BY <1>4, <2>3, <2>4, <2>5, <2>6
<1>5. SendDown \/ SendUp \/ Save \/ CallFails => run # NoRun
  BY DEF SendDown, SendUp, Save, CallFails, NoRun
<1> QED
  BY <1>1, <1>2, <1>3, <1>4, <1>5 DEF WatchNext, Watching

\* THEOREM.  However messages and the store fail: a check that is down is told of once until it
\* recovers, and once more at most for each call that failed.
THEOREM AlarmsToldOnce == WatchSpec => []ToldOnce
<1>1. WatchSpec => []WatchInv
  BY WatchInitInv, WatchNextInv, PTL DEF WatchSpec
<1>2. WatchInv => ToldOnce
  BY DEF WatchInv, Allowed, ToldOnce
<1> QED
  BY <1>1, <1>2, PTL

-----------------------------------------------------------------------------
(* The settlement oracle                                                   *)

\* The rounds of a feed are a chronicle: ids are unique and without gaps in a
\* phase, and times follow the order of the ids.
ChronicleOf(f) ==
  /\ latest[f] \in rounds[f]
  /\ \A r \in rounds[f] : r.updatedAt <= timestamp /\ ~Later(r, latest[f])
  /\ \A r, x \in rounds[f] : Later(x, r) => r.updatedAt <= x.updatedAt
  /\ \A r, x \in rounds[f] : r.phase = x.phase /\ r.agg = x.agg => r = x
  /\ \A r, x \in rounds[f] :
       x.phase = r.phase /\ x.agg > r.agg =>
         \E y \in rounds[f] : y.phase = r.phase /\ y.agg = r.agg + 1

Chronicle == \A f \in Feeds : ChronicleOf(f)

\* A registered configuration reads feeds.
ReadsFeeds(s) ==
  /\ s.kind \in {"DIRECT", "DERIVED"}
  /\ s.feed \in Feeds
  /\ s.kind = "DERIVED" => s.quote \in Feeds

ConfigsRead ==
  \A c \in Candidates :
    Registered(c) =>
      /\ ReadsFeeds(c.primary)
      /\ c.fallback.kind # "NONE" => ReadsFeeds(c.fallback)

\* What was finalized is the price of the rounds in force.
SettledInForce ==
  \A c \in Candidates :
    settled[c] # NoPrice =>
      /\ Registered(c)
      /\ timestamp >= Earliest(c)
      /\ settled[c] \in Select(c, LastUpTo(WindowEnd(c)))

IInv == OracleTypeOK /\ Chronicle /\ ConfigsRead /\ SettledInForce

-----------------------------------------------------------------------------
(* Times of the window *)

LEMMA WindowTimes ==
  ASSUME NEW c \in Candidates
  PROVE  /\ WindowEnd(c) \in Nat
         /\ Earliest(c) \in Nat
         /\ Earliest(c) > WindowEnd(c)
<1>1. c.endOffset \in Int /\ c.minDelay \in Nat /\ Expiry \in Nat
  BY OracleAssumption DEF Config
<1>2. WindowEnd(c) \in Nat
  BY <1>1 DEF WindowEnd, Clamp
<1> QED
  BY <1>1, <1>2 DEF Earliest

-----------------------------------------------------------------------------
(* An accepted proof names the round in force *)

\* Ids are ordered like pairs of numbers.
LEMMA LaterTotal ==
  ASSUME NEW x \in Round, NEW r \in Round
  PROVE  /\ Later(x, r) \/ Later(r, x) \/ (x.phase = r.phase /\ x.agg = r.agg)
         /\ ~(Later(x, r) /\ Later(r, x))
BY DEF Round, Later

\* No round comes between a round and its immediate successor.
LEMMA SuccessorNext ==
  ASSUME OracleTypeOK, NEW f \in Feeds, ChronicleOf(f), NEW r \in rounds[f],
         NEW next \in rounds[f], IsImmediateSuccessor(f, r, next),
         NEW x \in rounds[f], Later(x, r)
  PROVE  x = next \/ Later(x, next)
<1>1. rounds[f] \subseteq Round
  BY DEF OracleTypeOK
<1>2. /\ r.phase \in Nat /\ r.agg \in Nat
      /\ x.phase \in Nat /\ x.agg \in Nat /\ x.agg >= 1
      /\ next.phase \in Nat /\ next.agg \in Nat
  BY <1>1 DEF Round
<1>3. x.phase = next.phase /\ x.agg = next.agg => x = next
  BY DEF ChronicleOf
<1>4. CASE next.phase = r.phase /\ next.agg = r.agg + 1
  BY <1>2, <1>3, <1>4 DEF Later
<1>5. CASE /\ next.phase = r.phase + 1 /\ next.agg = 1
           /\ ~ \E y \in rounds[f] : y.phase = r.phase /\ y.agg = r.agg + 1
  <2>1. ~(x.phase = r.phase /\ x.agg > r.agg)
    BY <1>5 DEF ChronicleOf
  <2> QED
    BY <1>2, <1>3, <1>5, <2>1 DEF Later
<1> QED
  BY <1>4, <1>5 DEF IsImmediateSuccessor

LEMMA ProofShowsLast ==
  ASSUME OracleTypeOK, Chronicle, NEW f \in Feeds, NEW end \in Nat
  PROVE  Proven(end)[f] \subseteq LastUpTo(end)[f]
<1> SUFFICES ASSUME NEW r \in rounds[f], NEW next \in rounds[f] \cup {NoRound},
                    InForce(f, r, next, end),
                    NEW x \in rounds[f], Later(x, r)
             PROVE  x.updatedAt > end
  BY DEF Proven, LastUpTo, InForce
<1>0. ChronicleOf(f) /\ rounds[f] \subseteq Round
  BY DEF Chronicle, OracleTypeOK
<1>1. NoRound \notin rounds[f]
  BY <1>0, OracleAssumption
<1>2. CASE next = NoRound
  BY <1>0, <1>2 DEF InForce, ChronicleOf
<1>3. CASE next # NoRound
  <2>1. next \in rounds[f] /\ IsImmediateSuccessor(f, r, next) /\ next.updatedAt > end
    BY <1>3 DEF InForce
  <2>2. x = next \/ Later(x, next)
    BY <1>0, <2>1, SuccessorNext
  <2>3. next.updatedAt <= x.updatedAt
    <3>1. CASE x = next
      BY <3>1, <1>0 DEF Round
    <3>2. CASE Later(x, next)
      BY <3>2, <1>0, <2>1 DEF ChronicleOf
    <3> QED
      BY <2>2, <3>1, <3>2
  <2> QED
    BY <1>0, <2>1, <2>3 DEF Round
<1> QED
  BY <1>2, <1>3

\* There is at most one round in force.
LEMMA LastUnique ==
  ASSUME OracleTypeOK, Chronicle, NEW f \in Feeds, NEW end \in Nat,
         NEW r \in LastUpTo(end)[f], NEW q \in LastUpTo(end)[f]
  PROVE  r = q
<1>1. /\ ChronicleOf(f) /\ rounds[f] \subseteq Round
      /\ r \in rounds[f] /\ q \in rounds[f]
  BY DEF Chronicle, OracleTypeOK, LastUpTo
<1>2. r.updatedAt \in Nat /\ q.updatedAt \in Nat
  BY <1>1 DEF Round
<1>3. ~Later(r, q) /\ ~Later(q, r)
  BY <1>1, <1>2 DEF LastUpTo
<1>4. r.phase = q.phase /\ r.agg = q.agg
  BY <1>1, <1>3, LaterTotal
<1> QED
  BY <1>1, <1>4 DEF ChronicleOf

-----------------------------------------------------------------------------
(* Selection *)

\* Where every feed has the proved rounds among those in force, a proved price
\* is the price in force.
LEMMA SelectMonotone ==
  ASSUME NEW c \in Candidates, NEW lo, NEW hi,
         \A f \in Feeds : lo[f] \subseteq hi[f],
         ReadsFeeds(c.primary),
         c.fallback.kind # "NONE" => ReadsFeeds(c.fallback)
  PROVE  Select(c, lo) \subseteq Select(c, hi)
<1>1. ASSUME NEW s, ReadsFeeds(s)
      PROVE  Evaluate(s, c, lo) \subseteq Evaluate(s, c, hi)
  <2>1. CASE s.kind = "DIRECT"
    BY <1>1, <2>1 DEF Evaluate, ReadsFeeds
  <2>2. CASE s.kind = "DERIVED"
    BY <1>1, <2>2 DEF Evaluate, ReadsFeeds
  <2> QED
    BY <1>1, <2>1, <2>2 DEF ReadsFeeds
<1>2. Evaluate(c.primary, c, lo) \subseteq Evaluate(c.primary, c, hi)
  BY <1>1
<1>3. c.fallback.kind # "NONE" =>
        Evaluate(c.fallback, c, lo) \subseteq Evaluate(c.fallback, c, hi)
  BY <1>1
<1> QED
  BY <1>2, <1>3 DEF Select

\* With one round in force for each feed there is one price.
LEMMA SelectUnique ==
  ASSUME NEW c \in Candidates, NEW one,
         \A f \in Feeds : \A r, q \in one[f] : r = q,
         ReadsFeeds(c.primary),
         c.fallback.kind # "NONE" => ReadsFeeds(c.fallback)
  PROVE  \A p, q \in Select(c, one) : p = q
<1>1. ASSUME NEW s, ReadsFeeds(s)
      PROVE  \A o, u \in Evaluate(s, c, one) : o = u
  <2>1. CASE s.kind = "DIRECT"
    BY <1>1, <2>1 DEF Evaluate, ReadsFeeds
  <2>2. CASE s.kind = "DERIVED"
    BY <1>1, <2>2 DEF Evaluate, ReadsFeeds
  <2> QED
    BY <1>1, <2>1, <2>2 DEF ReadsFeeds
<1>2. \A o, u \in Evaluate(c.primary, c, one) : o = u
  BY <1>1
<1>3. c.fallback.kind # "NONE" =>
        \A o, u \in Evaluate(c.fallback, c, one) : o = u
  BY <1>1
<1> QED
  BY <1>2, <1>3 DEF Select

-----------------------------------------------------------------------------
(* The invariant *)

LEMMA InitInv == OracleInit => IInv
<1> SUFFICES ASSUME OracleInit PROVE IInv
  OBVIOUS
<1>1. \A f \in Feeds : \E answer \in Answers :
        latest[f] = FirstRound(answer) /\ rounds[f] = {FirstRound(answer)}
  BY DEF OracleInit, FeedsInit
<1>2. \A answer \in Answers : FirstRound(answer) \in Round
  BY DEF FirstRound, Round
<1>3. OracleTypeOK
  <2>1. latest \in [Feeds -> Round] /\ rounds \in [Feeds -> SUBSET Round]
    BY <1>1, <1>2 DEF OracleInit, FeedsInit
  <2> QED
    BY <2>1 DEF OracleInit, FeedsInit, OracleTypeOK
<1>4. Chronicle
  <2> SUFFICES ASSUME NEW f \in Feeds PROVE ChronicleOf(f)
    BY DEF Chronicle
  <2>1. PICK answer \in Answers :
          latest[f] = FirstRound(answer) /\ rounds[f] = {FirstRound(answer)}
    BY <1>1
  <2> QED
    BY <2>1 DEF ChronicleOf, FirstRound, Later, OracleInit, FeedsInit
<1>5. ConfigsRead /\ SettledInForce
  BY DEF OracleInit, ConfigsRead, SettledInForce, Registered
<1> QED
  BY <1>3, <1>4, <1>5 DEF IInv

\* A feed writes its next round: a later one, now.
LEMMA WriteInv ==
  ASSUME OracleTypeOK, Chronicle, NEW g \in Feeds, NEW answer \in Answers,
         NEW phase \in Nat \ {0}, NEW agg \in Nat \ {0}, NEW answered \in BOOLEAN,
         \/ phase = latest[g].phase /\ agg = latest[g].agg + 1
         \/ phase > latest[g].phase /\ agg = 1,
         Write(g, phase, agg, answer, answered)
  PROVE  /\ rounds' \in [Feeds -> SUBSET Round] /\ latest' \in [Feeds -> Round]
         /\ Chronicle'
         /\ \A f \in Feeds : \E new \in SUBSET Round :
              /\ rounds'[f] = rounds[f] \cup new
              /\ \A r \in new : /\ r.updatedAt = timestamp
                               /\ \A x \in rounds[f] : ~Later(x, r)
<1> DEFINE r0 == [phase |-> phase, agg |-> agg, answer |-> answer,
                  updatedAt |-> timestamp, answered |-> answered]
<1>1. r0 \in Round
  BY DEF OracleTypeOK, Round
<1>2. /\ rounds' = [rounds EXCEPT ![g] = @ \cup {r0}]
      /\ latest' = [latest EXCEPT ![g] = r0]
      /\ timestamp' = timestamp
  BY DEF Write
<1>3. rounds' \in [Feeds -> SUBSET Round] /\ latest' \in [Feeds -> Round]
  BY <1>1, <1>2 DEF OracleTypeOK
<1>4. ChronicleOf(g) /\ rounds[g] \subseteq Round /\ latest[g] \in Round
  BY DEF Chronicle, OracleTypeOK
<1>5. \A x \in rounds[g] : Later(r0, x) /\ ~Later(x, r0)
  <2> SUFFICES ASSUME NEW x \in rounds[g] PROVE Later(r0, x) /\ ~Later(x, r0)
    OBVIOUS
  <2>1. x \in Round /\ ~Later(x, latest[g])
    BY <1>4 DEF ChronicleOf
  <2>2. r0.phase = phase /\ r0.agg = agg
    OBVIOUS
  <2> QED
    BY <1>4, <2>1, <2>2 DEF Later, Round
<1>6. ChronicleOf(g)'
  <2>0. /\ rounds'[g] = rounds[g] \cup {r0} /\ latest'[g] = r0 /\ timestamp' = timestamp
        /\ r0.updatedAt = timestamp /\ timestamp \in Nat /\ r0.phase = phase /\ r0.agg = agg
    BY <1>2 DEF OracleTypeOK
  <2>1. \A r \in rounds'[g] : r.updatedAt <= timestamp' /\ ~Later(r, r0)
    <3>1. ~Later(r0, r0)
      BY <2>0 DEF Later
    <3> QED
      BY <1>4, <1>5, <2>0, <3>1 DEF ChronicleOf
  <2>2. \A r, x \in rounds'[g] : Later(x, r) => r.updatedAt <= x.updatedAt
    BY <1>4, <1>5, <2>0, <2>1 DEF ChronicleOf
  <2>3. \A r, x \in rounds'[g] : r.phase = x.phase /\ r.agg = x.agg => r = x
    <3>1. \A x \in rounds[g] : ~(r0.phase = x.phase /\ r0.agg = x.agg)
      BY <1>1, <1>4, <1>5 DEF Later, Round
    <3> QED
      BY <1>4, <2>0, <3>1 DEF ChronicleOf
  <2>4. ASSUME NEW r \in rounds'[g], NEW x \in rounds'[g],
               x.phase = r.phase, x.agg > r.agg
        PROVE  \E y \in rounds'[g] : y.phase = r.phase /\ y.agg = r.agg + 1
    <3>1. CASE x \in rounds[g] /\ r \in rounds[g]
      BY <1>4, <2>0, <2>4, <3>1 DEF ChronicleOf
    <3>2. CASE x = r0 /\ r \in rounds[g]
      <4>0. r \in Round /\ ~Later(r, latest[g])
        BY <1>4, <3>2 DEF ChronicleOf
      <4>1. phase = latest[g].phase /\ agg = latest[g].agg + 1
        BY <1>4, <2>0, <2>4, <3>2, <4>0 DEF Later, Round
      <4>2. r.agg <= latest[g].agg /\ r.phase = latest[g].phase
        BY <1>4, <2>0, <2>4, <3>2, <4>0, <4>1 DEF Later, Round
      <4>3. CASE r.agg = latest[g].agg
        BY <2>0, <4>1, <4>2, <4>3
      <4>4. CASE latest[g].agg > r.agg
        <5>1. \E y \in rounds[g] : y.phase = r.phase /\ y.agg = r.agg + 1
          BY <1>4, <3>2, <4>2, <4>4 DEF ChronicleOf
        <5> QED
          BY <2>0, <5>1
      <4> QED
        BY <1>4, <4>0, <4>2, <4>3, <4>4 DEF Round
    <3>3. r # r0
      <4>1. CASE x = r0
        BY <2>0, <2>4, <4>1
      <4>2. CASE x \in rounds[g]
        BY <1>1, <1>4, <1>5, <2>4, <4>2 DEF Later, Round
      <4> QED
        BY <2>0, <4>1, <4>2
    <3> QED
      BY <2>0, <3>1, <3>2, <3>3
  <2> QED
    BY <2>0, <2>1, <2>2, <2>3, <2>4 DEF ChronicleOf
<1>7. \A f \in Feeds \ {g} : ChronicleOf(f)'
  <2> SUFFICES ASSUME NEW f \in Feeds \ {g} PROVE ChronicleOf(f)'
    OBVIOUS
  <2>1. ChronicleOf(f) /\ rounds'[f] = rounds[f] /\ latest'[f] = latest[f]
    BY <1>2 DEF Chronicle, OracleTypeOK
  <2> QED
    BY <1>2, <2>1 DEF ChronicleOf
<1>8. \A f \in Feeds : \E new \in SUBSET Round :
        /\ rounds'[f] = rounds[f] \cup new
        /\ \A r \in new : /\ r.updatedAt = timestamp
                         /\ \A x \in rounds[f] : ~Later(x, r)
  <2> SUFFICES ASSUME NEW f \in Feeds
               PROVE  \E new \in SUBSET Round :
                        /\ rounds'[f] = rounds[f] \cup new
                        /\ \A r \in new : /\ r.updatedAt = timestamp
                                         /\ \A x \in rounds[f] : ~Later(x, r)
    OBVIOUS
  <2>1. CASE f = g
    <3>1. {r0} \in SUBSET Round
      BY <1>1
    <3>2. /\ rounds'[f] = rounds[f] \cup {r0}
          /\ \A r \in {r0} : /\ r.updatedAt = timestamp
                           /\ \A x \in rounds[f] : ~Later(x, r)
      BY <1>2, <1>5, <2>1 DEF OracleTypeOK
    <3> QED
      BY <3>1, <3>2
  <2>2. CASE f # g
    <3> WITNESS {} \in SUBSET Round
    <3> QED
      BY <1>2, <2>2 DEF OracleTypeOK
  <2> QED
    BY <2>1, <2>2
<1> QED
  BY <1>3, <1>6, <1>7, <1>8 DEF Chronicle

\* What any step may do to a feed: add rounds stamped now.
Grown ==
  \A f \in Feeds : \E new \in SUBSET Round :
    rounds'[f] = rounds[f] \cup new /\ \A r \in new : r.updatedAt = timestamp

LEMMA SameRounds ==
  ASSUME OracleTypeOK, Chronicle, UNCHANGED <<rounds, latest>>, timestamp' \in Nat, timestamp' >= timestamp
  PROVE  Chronicle' /\ Grown
<1>1. Grown
  <2>1. \A f \in Feeds : rounds'[f] = rounds[f] \cup {} /\ {} \in SUBSET Round
    OBVIOUS
  <2> QED
    BY <2>1 DEF Grown
<1>2. ASSUME NEW f \in Feeds
      PROVE  ChronicleOf(f)'
  <2>1. ChronicleOf(f) /\ rounds[f] \subseteq Round /\ timestamp \in Nat
    BY DEF Chronicle, OracleTypeOK
  <2>2. \A r \in rounds[f] : r.updatedAt <= timestamp'
    BY <2>1 DEF ChronicleOf, Round
  <2> QED
    BY <2>1, <2>2 DEF ChronicleOf
<1> QED
  BY <1>1, <1>2 DEF Chronicle

LEMMA FeedsInv ==
  ASSUME OracleTypeOK, Chronicle, FeedsNext, UNCHANGED <<status, settled>>
  PROVE  OracleTypeOK' /\ Chronicle' /\ Grown /\ timestamp' >= timestamp
<1>1. CASE Tick
  BY <1>1, SameRounds DEF Tick, OracleTypeOK
<1>2. ASSUME NEW f \in Feeds, NEW reads \in Outages, SetOutage(f, reads)
      PROVE  OracleTypeOK' /\ Chronicle' /\ Grown /\ timestamp' >= timestamp
  BY <1>2, SameRounds, FeedsAssumption DEF SetOutage, OracleTypeOK
<1>3. \A f \in Feeds : latest[f] \in Round
  BY DEF OracleTypeOK
<1>4. ASSUME NEW f \in Feeds, NEW answer \in Answers, NEW answered \in Answered,
             PushRound(f, answer, answered)
      PROVE  OracleTypeOK' /\ Chronicle' /\ Grown /\ timestamp' >= timestamp
  <2>1. /\ latest[f].phase \in Nat \ {0} /\ latest[f].agg + 1 \in Nat \ {0}
        /\ answered \in BOOLEAN
    BY <1>3, FeedsAssumption DEF Round
  <2>2. Write(f, latest[f].phase, latest[f].agg + 1, answer, answered)
    BY <1>4 DEF PushRound
  <2>3. /\ rounds' \in [Feeds -> SUBSET Round] /\ latest' \in [Feeds -> Round]
        /\ Chronicle' /\ Grown
    BY <2>1, <2>2, WriteInv DEF Grown
  <2> QED
    BY <2>2, <2>3 DEF Write, OracleTypeOK
<1>5. ASSUME NEW f \in Feeds, NEW answer \in Answers, NEW step \in PhaseSteps,
             StartNewPhase(f, step, answer)
      PROVE  OracleTypeOK' /\ Chronicle' /\ Grown /\ timestamp' >= timestamp
  <2>1. /\ latest[f].phase + step \in Nat \ {0} /\ latest[f].phase + step > latest[f].phase
        /\ 1 \in Nat \ {0} /\ TRUE \in BOOLEAN
    BY <1>3, FeedsAssumption DEF Round
  <2>2. Write(f, latest[f].phase + step, 1, answer, TRUE)
    BY <1>5 DEF StartNewPhase
  <2>3. /\ rounds' \in [Feeds -> SUBSET Round] /\ latest' \in [Feeds -> Round]
        /\ Chronicle' /\ Grown
    BY <2>1, <2>2, WriteInv DEF Grown
  <2> QED
    BY <2>2, <2>3 DEF Write, OracleTypeOK
<1> QED
  BY <1>1, <1>2, <1>4, <1>5 DEF FeedsNext

\* After the end of a window its rounds in force never change.
LEMMA LastFrozen ==
  ASSUME OracleTypeOK, Grown, NEW end \in Nat, timestamp > end
  PROVE  LastUpTo(end)' = LastUpTo(end)
<1> SUFFICES ASSUME NEW f \in Feeds
             PROVE  LastUpTo(end)'[f] = LastUpTo(end)[f]
  BY DEF LastUpTo
<1>1. PICK new \in SUBSET Round :
        rounds'[f] = rounds[f] \cup new /\ \A r \in new : r.updatedAt = timestamp
  BY DEF Grown
<1>2. \A r \in new : r.updatedAt > end /\ ~(r.updatedAt <= end)
  BY <1>1 DEF OracleTypeOK
<1> QED
  BY <1>1, <1>2 DEF LastUpTo

\* What verify accepts is the price of the rounds in force.
LEMMA VerifyInForce ==
  ASSUME OracleTypeOK, Chronicle, ConfigsRead, NEW c \in Candidates
  PROVE  Verify(c) \subseteq Select(c, LastUpTo(WindowEnd(c)))
<1>1. WindowEnd(c) \in Nat
  BY WindowTimes
<1>2. \A f \in Feeds : Proven(WindowEnd(c))[f] \subseteq LastUpTo(WindowEnd(c))[f]
  BY <1>1, ProofShowsLast
<1>3. CASE Registered(c)
  BY <1>2, <1>3, SelectMonotone DEF ConfigsRead, Verify
<1>4. CASE ~Registered(c)
  BY <1>4 DEF Verify
<1> QED
  BY <1>3, <1>4

-----------------------------------------------------------------------------
(* The steps *)

LEMMA RegisterReads ==
  ASSUME OracleTypeOK, ConfigsRead, NEW c \in Candidates, RegisterConfig(c)
  PROVE  ConfigsRead'
<1>1. ReadsFeeds(c.primary) /\ (c.fallback.kind # "NONE" => ReadsFeeds(c.fallback))
  BY DEF RegisterConfig, SourceValid, FallbackValid, FeedLive, ReadsFeeds
<1>2. \A d \in Candidates \ {c} : status'[d] = status[d]
  BY DEF RegisterConfig, OracleTypeOK
<1> QED
  BY <1>1, <1>2 DEF ConfigsRead, Registered

LEMMA OracleInv ==
  ASSUME IInv, NEW c \in Candidates,
         \/ RegisterConfig(c)
         \/ \E approved \in BOOLEAN : SetConfigApproved(c, approved)
         \/ FinalizeGroup(c)
  PROVE  IInv'
<1> USE DEF IInv
<1>0. UNCHANGED feedVars
  BY DEF RegisterConfig, SetConfigApproved, FinalizeGroup
<1>1. Chronicle' /\ \A end : LastUpTo(end)' = LastUpTo(end)
  <2>1. \A f \in Feeds : ChronicleOf(f)' = ChronicleOf(f)
    BY <1>0 DEF ChronicleOf, feedVars
  <2> QED
    BY <1>0, <2>1 DEF Chronicle, LastUpTo, feedVars
<1>2. CASE RegisterConfig(c)
  <2>1. OracleTypeOK'
    BY <1>0, <1>2 DEF RegisterConfig, OracleTypeOK, feedVars
  <2>2. \A d \in Candidates : Registered(d) => Registered(d)'
    BY <1>2 DEF RegisterConfig, Registered, OracleTypeOK
  <2>3. SettledInForce'
    BY <1>0, <1>1, <1>2, <2>2 DEF SettledInForce, RegisterConfig, feedVars, Earliest
  <2> QED
    BY <1>1, <1>2, <2>1, <2>3, RegisterReads
<1>3. CASE \E approved \in BOOLEAN : SetConfigApproved(c, approved)
  <2>1. OracleTypeOK'
    BY <1>0, <1>3 DEF SetConfigApproved, OracleTypeOK, feedVars
  <2>2. \A d \in Candidates : Registered(d)' <=> Registered(d)
    BY <1>3 DEF SetConfigApproved, Registered, OracleTypeOK
  <2>3. SettledInForce' /\ ConfigsRead'
    BY <1>0, <1>1, <1>3, <2>2
    DEF SettledInForce, ConfigsRead, SetConfigApproved, feedVars
  <2> QED
    BY <1>1, <2>1, <2>3
<1>4. CASE FinalizeGroup(c)
  <2>1. PICK p \in Verify(c) : settled' = [settled EXCEPT ![c] = p]
    BY <1>4 DEF FinalizeGroup
  <2>2. status' = status
    BY <1>4 DEF FinalizeGroup
  <2>3. OracleTypeOK' /\ ConfigsRead'
    BY <1>0, <2>2 DEF OracleTypeOK, ConfigsRead, Registered, feedVars
  <2>4. ASSUME NEW d \in Candidates, settled'[d] # NoPrice
        PROVE  /\ Registered(d) /\ timestamp >= Earliest(d)
               /\ settled'[d] \in Select(d, LastUpTo(WindowEnd(d)))
    <3>1. CASE d = c
      <4>1. Registered(c) /\ timestamp >= Earliest(c)
        BY <2>1 DEF Verify
      <4>2. p \in Select(c, LastUpTo(WindowEnd(c)))
        BY <2>1, VerifyInForce
      <4>3. CASE settled'[c] = p
        BY <3>1, <4>1, <4>2, <4>3
      <4>4. CASE settled'[c] # p
        BY <2>1, <2>4, <3>1, <4>4 DEF SettledInForce
      <4> QED
        BY <4>3, <4>4
    <3>2. CASE d # c
      BY <2>1, <2>4, <3>2 DEF SettledInForce
    <3> QED
      BY <3>1, <3>2
  <2>5. SettledInForce'
    BY <1>0, <1>1, <2>2, <2>4 DEF SettledInForce, Registered, feedVars
  <2> QED
    BY <1>1, <2>3, <2>5
<1> QED
  BY <1>2, <1>3, <1>4

LEMMA NextInv == IInv /\ [OracleStep]_oracleVars => IInv'
<1> SUFFICES ASSUME IInv, [OracleStep]_oracleVars PROVE IInv'
  OBVIOUS
<1>1. CASE OracleNext
  BY <1>1, OracleInv DEF OracleNext
<1>2. CASE FeedsNext /\ UNCHANGED <<status, settled>>
  <2>1. OracleTypeOK' /\ Chronicle' /\ Grown /\ timestamp' >= timestamp
    BY <1>2, FeedsInv DEF IInv
  <2>2. ConfigsRead'
    BY <1>2 DEF IInv, ConfigsRead, Registered
  <2>3. ASSUME NEW c \in Candidates, settled'[c] # NoPrice
        PROVE  /\ Registered(c)' /\ timestamp' >= Earliest(c)
               /\ settled'[c] \in Select(c, LastUpTo(WindowEnd(c))')
    <3>1. /\ Registered(c) /\ timestamp >= Earliest(c)
          /\ settled[c] \in Select(c, LastUpTo(WindowEnd(c)))
      BY <1>2, <2>3 DEF IInv, SettledInForce
    <3>2. timestamp > WindowEnd(c) /\ WindowEnd(c) \in Nat /\ timestamp' >= Earliest(c)
      BY <2>1, <3>1, WindowTimes DEF IInv, OracleTypeOK
    <3>3. LastUpTo(WindowEnd(c))' = LastUpTo(WindowEnd(c))
      BY <2>1, <3>2, LastFrozen DEF IInv
    <3> QED
      BY <1>2, <3>1, <3>2, <3>3 DEF Registered
  <2>4. SettledInForce'
    BY <2>3 DEF SettledInForce
  <2> QED
    BY <2>1, <2>2, <2>4 DEF IInv
<1>3. CASE UNCHANGED oracleVars
  <2>1. UNCHANGED <<timestamp, rounds, latest, outage, status, settled>>
    BY <1>3 DEF oracleVars, feedVars
  <2>2. OracleTypeOK' /\ Chronicle'
    BY <2>1, SameRounds DEF IInv, OracleTypeOK
  <2>3. \A end : LastUpTo(end)' = LastUpTo(end)
    BY <2>1 DEF LastUpTo
  <2>4. ConfigsRead' /\ SettledInForce'
    BY <2>1, <2>3 DEF IInv, ConfigsRead, SettledInForce, Registered
  <2> QED
    BY <2>2, <2>4 DEF IInv
<1> QED
  BY <1>1, <1>2, <1>3 DEF OracleStep

LEMMA IInvCorrect == OracleSpec => []IInv
<1> QED
  BY InitInv, NextInv, PTL DEF OracleSpec

\* No proof but that of the rounds in force is ever accepted by
\* SettlementOracle.verify, whatever the feeds wrote and whoever calls.
THEOREM InForceOnly == OracleSpec => []OnlyInForce
<1>1. IInv => OnlyInForce
  BY VerifyInForce DEF IInv, OnlyInForce
<1> QED
  BY <1>1, IInvCorrect, PTL

\* Every keeper who finalizes, at any time after the first, would have written
\* the same price, time and source.
THEOREM OnePrice == OracleSpec => []KeepersAgree
<1>1. IInv => KeepersAgree
  <2> SUFFICES ASSUME IInv, NEW c \in Candidates, settled[c] # NoPrice
               PROVE  Verify(c) \subseteq {settled[c]}
    BY DEF KeepersAgree
  <2>1. /\ Registered(c)
        /\ settled[c] \in Select(c, LastUpTo(WindowEnd(c)))
    BY DEF IInv, SettledInForce
  <2>2. WindowEnd(c) \in Nat
    BY WindowTimes
  <2>3. \A f \in Feeds : \A r, q \in LastUpTo(WindowEnd(c))[f] : r = q
    BY <2>2, LastUnique DEF IInv
  <2>4. \A p, q \in Select(c, LastUpTo(WindowEnd(c))) : p = q
    BY <2>1, <2>3, SelectUnique DEF IInv, ConfigsRead
  <2> QED
    BY <2>1, <2>4, VerifyInForce DEF IInv
<1> QED
  BY <1>1, IInvCorrect, PTL

-----------------------------------------------------------------------------
(* The search of the keeper.  Its recursive functions are the ones that    *)
(* satisfy their equations: a closed form shows that there is one, and a   *)
(* least argument at which one differs shows what all of them compute.     *)

\* A set of numbers has a least one.
LEMMA LeastNumber ==
  ASSUME NEW S \in SUBSET Nat, S # {}
  PROVE  \E m \in S : \A q \in S : m <= q
<1>1. PICK m \in S : \A q \in S : ~(<<q, m>> \in OpToRel(<, Nat))
  BY NatLessThanWellFounded, WFMin
<1>2. OpToRel(<, Nat) = {ss \in Nat \X Nat : ss[1] < ss[2]}
  BY DEF OpToRel
<1>3. \A x, y \in Nat : x < y => <<x, y>> \in OpToRel(<, Nat)
  BY <1>2
<1>4. \A q \in S : ~(q < m)
  BY <1>1, <1>3
<1> QED
  BY <1>4

\* Between lo and hi, the last number of 1..k, or lo.
Clamped(k, lo, hi) ==
  IF hi - lo <= 1 \/ k <= lo THEN lo ELSE IF k >= hi - 1 THEN hi - 1 ELSE k

\* A step of the bisection, with H for the halves.
HalfStep(S, H, p) ==
  IF p[2] - p[1] <= 1 THEN p[1]
  ELSE IF ((p[1] + p[2]) \div 2) \in S THEN H[<<(p[1] + p[2]) \div 2, p[2]>>]
  ELSE H[<<p[1], (p[1] + p[2]) \div 2>>]

IsHalf(S, H) == H = [p \in Nat \X Nat |-> HalfStep(S, H, p)]

LEMMA Halves ==
  ASSUME NEW lo \in Nat, NEW hi \in Nat, hi - lo > 1
  PROVE  LET mid == (lo + hi) \div 2 IN mid \in Nat /\ lo < mid /\ mid < hi
OBVIOUS

LEMMA ClampedHalves ==
  ASSUME NEW k \in Nat, NEW lo \in Nat, NEW hi \in Nat, NEW mid \in Nat, lo < mid, mid < hi
  PROVE  Clamped(k, lo, hi) = IF mid \in 1..k THEN Clamped(k, mid, hi) ELSE Clamped(k, lo, mid)
<1>1. mid \in 1..k <=> mid <= k
  OBVIOUS
<1>2. CASE mid <= k
  BY <1>1, <1>2 DEF Clamped
<1>3. CASE ~(mid <= k)
  BY <1>1, <1>3 DEF Clamped
<1> QED
  BY <1>2, <1>3

LEMMA ClampedStep ==
  ASSUME NEW k \in Nat, NEW H, NEW p \in Nat \X Nat,
         \A q \in Nat \X Nat : q[2] - q[1] < p[2] - p[1] => H[q] = Clamped(k, q[1], q[2])
  PROVE  HalfStep(1..k, H, p) = Clamped(k, p[1], p[2])
<1> DEFINE lo == p[1]
           hi == p[2]
           mid == (lo + hi) \div 2
<1>0. lo \in Nat /\ hi \in Nat
  OBVIOUS
<1>1. CASE hi - lo <= 1
  BY <1>0, <1>1 DEF Clamped, HalfStep
<1>2. CASE hi - lo > 1
  <2>1. mid \in Nat /\ lo < mid /\ mid < hi
    BY <1>0, <1>2, Halves
  <2> HIDE DEF mid
  <2>2. /\ <<mid, hi>> \in Nat \X Nat /\ <<lo, mid>> \in Nat \X Nat
        /\ hi - mid < hi - lo /\ mid - lo < hi - lo
    BY <1>0, <2>1
  <2>3. H[<<mid, hi>>] = Clamped(k, mid, hi) /\ H[<<lo, mid>>] = Clamped(k, lo, mid)
    BY <2>2
  <2>4. Clamped(k, lo, hi) = IF mid \in 1..k THEN H[<<mid, hi>>] ELSE H[<<lo, mid>>]
    BY <1>0, <2>1, <2>3, ClampedHalves
  <2>5. ~(hi - lo <= 1)
    BY <1>0, <1>2
  <2>6. HalfStep(1..k, H, p) = IF mid \in 1..k THEN H[<<mid, hi>>] ELSE H[<<lo, mid>>]
    BY <2>5 DEF HalfStep, mid
  <2> QED
    BY <2>4, <2>6
<1> QED
  BY <1>0, <1>1, <1>2

LEMMA HalfExists ==
  ASSUME NEW k \in Nat
  PROVE  \E H : IsHalf(1..k, H)
<1> DEFINE C == [p \in Nat \X Nat |-> Clamped(k, p[1], p[2])]
<1>1. \A q \in Nat \X Nat : C[q] = Clamped(k, q[1], q[2])
  OBVIOUS
<1> HIDE DEF C
<1>2. \A p \in Nat \X Nat : HalfStep(1..k, C, p) = Clamped(k, p[1], p[2])
  BY <1>1, ClampedStep
<1>3. C = [p \in Nat \X Nat |-> HalfStep(1..k, C, p)]
  BY <1>2 DEF C
<1> QED
  BY <1>3 DEF IsHalf

LEMMA HalfIsClamped ==
  ASSUME NEW k \in Nat, NEW H, IsHalf(1..k, H), NEW p0 \in Nat \X Nat
  PROVE  H[p0] = Clamped(k, p0[1], p0[2])
<1> DEFINE Wrong == {d \in Nat : \E p \in Nat \X Nat : p[2] - p[1] = d /\ H[p] # Clamped(k, p[1], p[2])}
<1>1. \A p \in Nat \X Nat : H[p] = HalfStep(1..k, H, p)
  BY DEF IsHalf
<1>2. \A p \in Nat \X Nat : p[2] - p[1] <= 1 => H[p] = Clamped(k, p[1], p[2])
  BY <1>1 DEF Clamped, HalfStep
<1>3. \A p \in Nat \X Nat : H[p] # Clamped(k, p[1], p[2]) => p[2] - p[1] \in Wrong
  BY <1>2
<1>4. Wrong = {}
  <2> SUFFICES ASSUME Wrong # {} PROVE FALSE
    OBVIOUS
  <2>1. PICK d \in Wrong : \A e \in Wrong : d <= e
    BY LeastNumber
  <2>2. PICK p \in Nat \X Nat : p[2] - p[1] = d /\ H[p] # Clamped(k, p[1], p[2])
    BY <2>1
  <2>3. \A e \in Wrong : e \in Int
    OBVIOUS
  <2> HIDE DEF Wrong
  <2>4. \A q \in Nat \X Nat : q[2] - q[1] < p[2] - p[1] => H[q] = Clamped(k, q[1], q[2])
    BY <1>3, <2>1, <2>2, <2>3
  <2> QED
    BY <1>1, <2>2, <2>4, ClampedStep
<1> QED
  BY <1>3, <1>4

\* Bisection finds the last number that is in.
LEMMA BisectFinds ==
  ASSUME NEW k \in Nat, NEW lo \in Nat, NEW hi \in Nat, lo <= k, k < hi
  PROVE  Bisect(1..k, lo, hi) = k
<1> DEFINE H == CHOOSE h : IsHalf(1..k, h)
<1>1. IsHalf(1..k, H)
  BY HalfExists
<1>2. H[<<lo, hi>>] = Clamped(k, lo, hi)
  BY <1>1, HalfIsClamped
<1>3. Bisect(1..k, lo, hi) = H[<<lo, hi>>]
  BY DEF Bisect, IsHalf, HalfStep
<1> QED
  BY <1>2, <1>3 DEF Clamped

\* What doubling reaches from a number.
Doubled(hi) == {m \in Nat : \A C \in SUBSET Nat : hi \in C /\ (\A x \in C : 2 * x \in C) => m \in C}

Above(n, hi) == {m \in Doubled(hi) : m > n}
FirstAbove(n, hi) == CHOOSE m \in Above(n, hi) : \A q \in Above(n, hi) : m <= q

LEMMA DoubledOnce ==
  ASSUME NEW hi \in Nat
  PROVE  /\ hi \in Doubled(hi) /\ \A m \in Doubled(hi) : m >= hi
         /\ Doubled(hi) = {hi} \cup Doubled(2 * hi)
<1>1. hi \in Doubled(hi)
  BY DEF Doubled
<1>2. ASSUME NEW m \in Doubled(hi) PROVE m >= hi
  <2> DEFINE C == {x \in Nat : x >= hi}
  <2>1. C \in SUBSET Nat /\ hi \in C /\ \A x \in C : 2 * x \in C
    OBVIOUS
  <2>2. m \in C
    BY <2>1 DEF Doubled
  <2> QED
    BY <2>2
<1>3. Doubled(2 * hi) \subseteq Doubled(hi)
  BY DEF Doubled
<1>4. Doubled(hi) \subseteq {hi} \cup Doubled(2 * hi)
  <2> DEFINE C == {hi} \cup Doubled(2 * hi)
  <2>1. 2 * hi \in Doubled(2 * hi)
    BY DEF Doubled
  <2>2. \A x \in Doubled(2 * hi) : 2 * x \in Doubled(2 * hi)
    BY DEF Doubled
  <2>3. C \in SUBSET Nat
    BY DEF Doubled
  <2>4. hi \in C /\ \A x \in C : 2 * x \in C
    BY <2>1, <2>2
  <2> QED
    BY <2>3, <2>4 DEF Doubled
<1> QED
  BY <1>1, <1>2, <1>3, <1>4

LEMMA AboveOnce ==
  ASSUME NEW n \in Nat, NEW hi \in Nat, hi <= n
  PROVE  Above(n, hi) = Above(n, 2 * hi)
<1>1. \A m \in {hi} : ~(m > n)
  OBVIOUS
<1> QED
  BY <1>1, DoubledOnce DEF Above

LEMMA AboveSomewhere ==
  ASSUME NEW n \in Nat, NEW h0 \in Nat, h0 >= 1
  PROVE  Above(n, h0) # {}
<1> DEFINE Wrong == {d \in Nat : \E hi \in Nat : hi >= 1 /\ hi <= n /\ n - hi = d /\ Above(n, hi) = {}}
<1>1. \A hi \in Nat : hi > n => Above(n, hi) # {}
  BY DoubledOnce DEF Above
<1>2. Wrong = {}
  <2> SUFFICES ASSUME Wrong # {} PROVE FALSE
    OBVIOUS
  <2>1. PICK d \in Wrong : \A e \in Wrong : d <= e
    BY LeastNumber
  <2>2. PICK hi \in Nat : hi >= 1 /\ hi <= n /\ n - hi = d /\ Above(n, hi) = {}
    BY <2>1
  <2>3. Above(n, 2 * hi) = {}
    BY <2>2, AboveOnce
  <2>4. 2 * hi \in Nat /\ 2 * hi <= n
    BY <1>1, <2>3
  <2>5. n - 2 * hi \in Wrong /\ n - 2 * hi < d
    BY <2>2, <2>3, <2>4
  <2> QED
    BY <2>1, <2>5
<1>3. CASE h0 > n
  BY <1>1, <1>3
<1>4. CASE h0 <= n
  <2>1. n - h0 \notin Wrong
    BY <1>2
  <2> QED
    BY <1>4, <2>1
<1> QED
  BY <1>3, <1>4

LEMMA FirstAboveOnce ==
  ASSUME NEW n \in Nat, NEW hi \in Nat
  PROVE  IF hi \in 1..n THEN FirstAbove(n, hi) = FirstAbove(n, hi * 2)
         ELSE hi >= 1 => FirstAbove(n, hi) = hi
<1>1. CASE hi \in 1..n
  <2>1. hi * 2 = 2 * hi
    OBVIOUS
  <2> QED
    BY <1>1, <2>1, AboveOnce DEF FirstAbove
<1>2. CASE hi \notin 1..n /\ hi >= 1
  <2>1. hi > n
    BY <1>2
  <2>2. hi \in Above(n, hi) /\ \A m \in Above(n, hi) : hi <= m
    BY <2>1, DoubledOnce DEF Above
  <2>3. \A m \in Above(n, hi) : m \in Nat
    BY DEF Above, Doubled
  <2>4. \A m \in Above(n, hi) : (\A q \in Above(n, hi) : m <= q) => m = hi
    BY <2>2, <2>3
  <2> QED
    BY <1>2, <2>2, <2>4 DEF FirstAbove
<1> QED
  BY <1>1, <1>2

IsProbe(S, P) == P = [hi \in Nat |-> IF hi \in S THEN P[hi * 2] ELSE hi]

LEMMA ProbeExists ==
  ASSUME NEW n \in Nat
  PROVE  \E P : IsProbe(1..n, P)
<1> DEFINE C == [hi \in Nat |-> IF hi = 0 THEN 0 ELSE FirstAbove(n, hi)]
<1>1. ASSUME NEW hi \in Nat
      PROVE  C[hi] = IF hi \in 1..n THEN C[hi * 2] ELSE hi
  <2>1. CASE hi \in 1..n
    <3>1. hi # 0 /\ hi * 2 # 0 /\ hi * 2 \in Nat
      BY <2>1
    <3>2. C[hi] = FirstAbove(n, hi) /\ C[hi * 2] = FirstAbove(n, hi * 2)
      BY <3>1
    <3> QED
      BY <2>1, <3>2, FirstAboveOnce
  <2>2. CASE hi \notin 1..n
    BY <2>2, FirstAboveOnce
  <2> QED
    BY <2>1, <2>2
<1>2. C = [hi \in Nat |-> IF hi \in 1..n THEN C[hi * 2] ELSE hi]
  BY <1>1
<1> QED
  BY <1>2 DEF IsProbe

\* Doubling ends past the last number, with a half that is not past it.
ProbeEnds(n, hi, v) == v \in Nat /\ v > n /\ (v = hi \/ \E u \in Nat : v = 2 * u /\ u <= n)

LEMMA ProbePasses ==
  ASSUME NEW n \in Nat, NEW P, IsProbe(1..n, P), NEW h0 \in Nat, h0 >= 1
  PROVE  ProbeEnds(n, h0, P[h0])
<1> DEFINE Wrong == {d \in Nat : \E hi \in Nat : hi >= 1 /\ hi <= n /\ n - hi = d /\ ~ProbeEnds(n, hi, P[hi])}
<1>1. \A hi \in Nat : P[hi] = IF hi \in 1..n THEN P[hi * 2] ELSE hi
  BY DEF IsProbe
<1>2. \A hi \in Nat : hi > n => ProbeEnds(n, hi, P[hi])
  BY <1>1 DEF ProbeEnds
<1>3. \A hi \in Nat : hi >= 1 /\ hi <= n /\ ~ProbeEnds(n, hi, P[hi]) => n - hi \in Wrong
  OBVIOUS
<1>4. Wrong = {}
  <2> SUFFICES ASSUME Wrong # {} PROVE FALSE
    OBVIOUS
  <2>1. PICK d \in Wrong : \A e \in Wrong : d <= e
    BY LeastNumber
  <2>2. PICK hi \in Nat : hi >= 1 /\ hi <= n /\ n - hi = d /\ ~ProbeEnds(n, hi, P[hi])
    BY <2>1
  <2>3. \A e \in Wrong : e \in Nat
    OBVIOUS
  <2> HIDE DEF Wrong
  <2>4. P[hi] = P[hi * 2] /\ hi * 2 \in Nat /\ hi * 2 >= 1
    BY <1>1, <2>2
  <2>5. ProbeEnds(n, hi * 2, P[hi * 2])
    <3>1. CASE hi * 2 > n
      BY <1>2, <2>4, <3>1
    <3>2. CASE hi * 2 <= n
      <4>1. n - hi * 2 < d
        BY <2>2
      <4>2. n - hi * 2 \notin Wrong
        BY <2>1, <2>2, <2>3, <4>1, <3>2
      <4> QED
        BY <1>3, <2>4, <3>2, <4>2
    <3> QED
      BY <2>4, <3>1, <3>2
  <2>6. hi * 2 = 2 * hi
    OBVIOUS
  <2> QED
    BY <2>2, <2>4, <2>5, <2>6 DEF ProbeEnds
<1>5. CASE h0 > n
  BY <1>2, <1>5
<1>6. CASE h0 <= n
  BY <1>3, <1>4, <1>6
<1> QED
  BY <1>5, <1>6

\* The probe and the bisection find the last round of a phase without gaps.
LEMMA LastRoundFound ==
  ASSUME NEW f, NEW phase, NEW n \in Nat, InPhase(f, phase) = 1..n
  PROVE  LastRoundOfPhase(f, phase) = n
<1> DEFINE P == CHOOSE p : IsProbe(1..n, p)
<1>1. IsProbe(1..n, P)
  BY ProbeExists
<1> HIDE DEF P
<1>2. LastRoundOfPhase(f, phase) = IF 1 \in 1..n THEN Bisect(1..n, P[2] \div 2, P[2]) ELSE 0
  BY DEF LastRoundOfPhase, IsProbe, P
<1>3. CASE n = 0
  BY <1>2, <1>3
<1>4. CASE n >= 1
  <2>1. ProbeEnds(n, 2, P[2])
    BY <1>1, ProbePasses
  <2>2. P[2] \in Nat /\ P[2] > n /\ P[2] \div 2 \in Nat /\ P[2] \div 2 <= n
    BY <1>4, <2>1 DEF ProbeEnds
  <2> QED
    BY <1>2, <1>4, <2>2, BisectFinds
<1> QED
  BY <1>3, <1>4

-----------------------------------------------------------------------------
(* Phases *)

\* A feed has written no more than so many rounds of one phase.
Bounded == \A f \in Feeds : \E n \in Nat : \A r \in rounds[f] : r.agg <= n

LEMMA PhaseComplete ==
  ASSUME OracleTypeOK, NEW f \in Feeds, ChronicleOf(f), Bounded, NEW phase \in Nat, IsRound(f, <<phase, 1>>)
  PROVE  \E n \in Nat : n >= 1 /\ InPhase(f, phase) = 1..n
<1> DEFINE I == InPhase(f, phase)
           M == {m \in Nat : m >= 1 /\ m \notin I}
<1>0. rounds[f] \subseteq Round
  BY DEF OracleTypeOK
<1>1. I \subseteq Nat \ {0} /\ \A x \in I : \E r \in rounds[f] : r.phase = phase /\ r.agg = x
  BY <1>0 DEF InPhase, Round
<1>2. \A r \in rounds[f] : r.phase = phase => r.agg \in I
  BY DEF InPhase
<1>3. 1 \in I
  BY <1>2 DEF IsRound, Id
<1>4. PICK n0 \in Nat : \A r \in rounds[f] : r.agg <= n0
  BY DEF Bounded
<1>5. n0 + 1 \in M
  BY <1>1, <1>4
<1>6. PICK m \in M : \A q \in M : m <= q
  BY <1>5, LeastNumber
<1>7. m \in Nat /\ m >= 1 /\ m \notin I
  BY <1>6
<1>8. \A j \in 1..(m - 1) : j \in I
  BY <1>6, <1>7
<1> HIDE DEF I, M
<1>9. m > 1 /\ m - 1 \in I
  BY <1>3, <1>7, <1>8
<1>10. \A x \in I : x <= m - 1
  <2> SUFFICES ASSUME NEW x \in I, ~(x <= m - 1) PROVE FALSE
    OBVIOUS
  <2>1. x \in Nat /\ x > m
    BY <1>1, <1>7
  <2>2. PICK r \in rounds[f], q \in rounds[f] : r.phase = phase /\ r.agg = m - 1 /\ q.phase = phase /\ q.agg = x
    BY <1>1, <1>9
  <2>3. q.agg > r.agg
    BY <1>7, <2>1, <2>2
  <2>4. PICK y \in rounds[f] : y.phase = r.phase /\ y.agg = r.agg + 1
    BY <2>2, <2>3 DEF ChronicleOf
  <2>5. y.phase = phase /\ y.agg = m
    BY <1>7, <2>2, <2>4
  <2> QED
    BY <1>2, <1>7, <2>5
<1>11. m - 1 \in Nat /\ m - 1 >= 1
  BY <1>7, <1>9
<1>12. I \subseteq 1..(m - 1)
  BY <1>1, <1>10, <1>11
<1>13. I = 1..(m - 1)
  BY <1>8, <1>12
<1> QED
  BY <1>11, <1>13 DEF I

\* Also the phases before the first and after the last, which are empty.
LEMMA PhasesComplete ==
  ASSUME OracleTypeOK, NEW f \in Feeds, ChronicleOf(f), Bounded, Consecutive(f), NEW phase \in Nat
  PROVE  /\ \E n \in Nat : InPhase(f, phase) = 1..n
         /\ phase \in 1..latest[f].phase => \E n \in Nat : n >= 1 /\ InPhase(f, phase) = 1..n
<1>0. rounds[f] \subseteq Round /\ latest[f] \in Round
  BY DEF OracleTypeOK
<1>1. CASE phase \in 1..latest[f].phase
  BY <1>1, PhaseComplete DEF Consecutive
<1>2. CASE phase \notin 1..latest[f].phase
  <2>1. \A r \in rounds[f] : r.phase \in Nat /\ r.phase >= 1 /\ r.phase <= latest[f].phase
    BY <1>0 DEF ChronicleOf, Later, Round
  <2>2. InPhase(f, phase) = {}
    BY <1>2, <2>1 DEF InPhase
  <2>3. 1..0 = {}
    OBVIOUS
  <2> QED
    BY <1>2, <2>2, <2>3
<1> QED
  BY <1>1, <1>2

LEMMA LastRoundIsNumber ==
  ASSUME OracleTypeOK, NEW f \in Feeds, ChronicleOf(f), Bounded, Consecutive(f), NEW phase \in Nat
  PROVE  LastRoundOfPhase(f, phase) \in Nat
BY PhasesComplete, LastRoundFound

LEMMA RoundAtItsId ==
  ASSUME OracleTypeOK, NEW f \in Feeds, ChronicleOf(f), NEW r \in rounds[f], NEW phase, NEW agg, r.phase = phase, r.agg = agg
  PROVE  RoundAt(f, <<phase, agg>>) = r
<1>1. Id(r) = <<phase, agg>>
  BY DEF Id
<1>2. \A q \in rounds[f] : Id(q) = <<phase, agg>> => q = r
  BY DEF Id, ChronicleOf
<1> QED
  BY <1>1, <1>2 DEF RoundAt

\* What was stamped up to the end: in the phase of the round in force the rounds
\* up to it, and nothing in later phases.
LEMMA UpToInForce ==
  ASSUME OracleTypeOK, NEW f \in Feeds, ChronicleOf(f), NEW t \in Nat, NEW r \in LastUpTo(t)[f],
         NEW phase \in Nat, NEW n \in Nat, InPhase(f, phase) = 1..n
  PROVE  /\ phase = r.phase => UpTo(f, phase, t) = 1..r.agg /\ r.agg \in 1..n
         /\ phase > r.phase => UpTo(f, phase, t) = {}
<1>0. /\ rounds[f] \subseteq Round /\ r \in rounds[f] /\ r.updatedAt <= t
      /\ \A x \in rounds[f] : Later(x, r) => x.updatedAt > t
  BY DEF OracleTypeOK, LastUpTo
<1>1. r.agg \in Nat /\ r.phase \in Nat /\ r.updatedAt \in Nat
  BY <1>0 DEF Round
<1>2. \A x \in rounds[f] : /\ x.agg \in Nat /\ x.agg >= 1 /\ x.phase \in Nat /\ x.updatedAt \in Nat
                           /\ (x.updatedAt <= t <=> ~(x.updatedAt > t))
  BY <1>0 DEF Round
<1>3. ASSUME phase = r.phase PROVE UpTo(f, phase, t) = 1..r.agg /\ r.agg \in 1..n
  <2>1. r.agg \in 1..n
    BY <1>0, <1>3 DEF InPhase
  <2>2. ASSUME NEW j \in UpTo(f, phase, t) PROVE j \in 1..r.agg
    <3>1. PICK x \in rounds[f] : x.phase = phase /\ x.updatedAt <= t /\ x.agg = j
      BY DEF UpTo
    <3>2. ~Later(x, r)
      BY <1>0, <1>2, <3>1
    <3> QED
      BY <1>1, <1>2, <1>3, <3>1, <3>2 DEF Later
  <2>3. ASSUME NEW j \in 1..r.agg PROVE j \in UpTo(f, phase, t)
    <3>1. j \in InPhase(f, phase)
      BY <1>1, <2>1
    <3>2. PICK x \in rounds[f] : x.phase = phase /\ x.agg = j
      BY <3>1 DEF InPhase
    <3>3. CASE j = r.agg
      BY <1>0, <1>3, <3>2, <3>3 DEF UpTo
    <3>4. CASE j < r.agg
      <4>1. Later(r, x)
        BY <1>1, <1>3, <3>2, <3>4 DEF Later
      <4>2. x.updatedAt <= r.updatedAt
        BY <1>0, <4>1 DEF ChronicleOf
      <4>3. x.updatedAt <= t
        BY <1>0, <1>1, <1>2, <4>2
      <4> QED
        BY <3>2, <4>3 DEF UpTo
    <3> QED
      BY <1>1, <3>3, <3>4
  <2> QED
    BY <2>1, <2>2, <2>3
<1>4. ASSUME phase > r.phase PROVE UpTo(f, phase, t) = {}
  <2>1. \A x \in rounds[f] : x.phase = phase => x.updatedAt > t
    BY <1>0, <1>4 DEF Later
  <2> QED
    BY <1>2, <2>1 DEF UpTo
<1> QED
  BY <1>3, <1>4

-----------------------------------------------------------------------------
(* The search from the latest phase down *)

SearchStep(f, t, S, p) ==
  LET last == LastRoundOfPhase(f, p[1] - 1)
      lo == Bisect(UpTo(f, p[1], t), 1, p[2])
  IN IF 1 \in UpTo(f, p[1], t)
     THEN [round |-> RoundAt(f, <<p[1], lo>>), next |-> RoundAt(f, <<p[1], lo + 1>>)]
     ELSE IF p[1] <= 1 \/ last = 0 THEN NoProof
     ELSE IF last \in UpTo(f, p[1] - 1, t)
     THEN [round |-> RoundAt(f, <<p[1] - 1, last>>), next |-> RoundAt(f, <<p[1], 1>>)]
     ELSE S[<<p[1] - 1, last>>]

IsSearch(f, t, S) == S = [p \in Nat \X Nat |-> SearchStep(f, t, S, p)]

\* The phases at which the search ends, and the next of them below a phase.
Stops(f, t) ==
  {q \in Nat : \/ 1 \in UpTo(f, q, t) \/ q <= 1
               \/ LastRoundOfPhase(f, q - 1) = 0 \/ LastRoundOfPhase(f, q - 1) \in UpTo(f, q - 1, t)}

Below(T, m) == {x \in T : x < m}
NextBelow(T, m) == CHOOSE q \in Below(T, m) : \A x \in Below(T, m) : x <= q

LEMMA NextBelowOnce ==
  ASSUME NEW T \in SUBSET Nat, NEW m \in Nat
  PROVE  NextBelow(T, m + 1) = IF m \in T THEN m ELSE NextBelow(T, m)
<1>1. CASE m \in T
  <2>1. m \in Below(T, m + 1) /\ \A x \in Below(T, m + 1) : x \in Nat /\ x <= m
    BY <1>1 DEF Below
  <2>2. \A q \in Below(T, m + 1) : (\A x \in Below(T, m + 1) : x <= q) => q = m
    BY <2>1
  <2> QED
    BY <1>1, <2>1, <2>2 DEF NextBelow
<1>2. CASE m \notin T
  <2>0. \A x \in T : x < m + 1 <=> x < m
    BY <1>2
  <2>1. Below(T, m + 1) = Below(T, m)
    BY <2>0 DEF Below
  <2> QED
    BY <1>2, <2>1 DEF NextBelow
<1> QED
  BY <1>1, <1>2

LEMMA SearchExists ==
  ASSUME OracleTypeOK, NEW f \in Feeds, ChronicleOf(f), Bounded, Consecutive(f), NEW t \in Nat
  PROVE  \E S : IsSearch(f, t, S)
<1> DEFINE T == Stops(f, t)
           End(q) == SearchStep(f, t, <<>>, <<q, LastRoundOfPhase(f, q)>>)
           C == [p \in Nat \X Nat |-> IF p[1] \in T THEN SearchStep(f, t, <<>>, p) ELSE End(NextBelow(T, p[1]))]
<1>0. T \in SUBSET Nat
  BY DEF Stops
<1>1. ASSUME NEW p \in Nat \X Nat
      PROVE  C[p] = SearchStep(f, t, C, p)
  <2> DEFINE q == p[1] - 1
             last == LastRoundOfPhase(f, q)
  <2>1. C[p] = IF p[1] \in T THEN SearchStep(f, t, <<>>, p) ELSE End(NextBelow(T, p[1]))
    OBVIOUS
  <2>2. CASE p[1] \in T
    <3>1. SearchStep(f, t, <<>>, p) = SearchStep(f, t, C, p)
      BY <2>2 DEF Stops, SearchStep
    <3> QED
      BY <2>1, <2>2, <3>1
  <2>3. CASE p[1] \notin T
    <3>1. /\ p[1] \in Nat /\ ~(1 \in UpTo(f, p[1], t)) /\ ~(p[1] <= 1)
          /\ last # 0 /\ last \notin UpTo(f, q, t)
      BY <2>3 DEF Stops
    <3>2. q \in Nat /\ p[1] = q + 1
      BY <3>1
    <3>3. last \in Nat
      BY <3>2, LastRoundIsNumber
    <3>4. SearchStep(f, t, C, p) = C[<<q, last>>]
      BY <3>1 DEF SearchStep
    <3>5. C[<<q, last>>] = IF q \in T THEN End(q) ELSE End(NextBelow(T, q))
      <4>1. <<q, last>> \in Nat \X Nat /\ <<q, last>>[1] = q
        BY <3>2, <3>3
      <4> QED
        BY <4>1
    <3>6. NextBelow(T, p[1]) = IF q \in T THEN q ELSE NextBelow(T, q)
      BY <1>0, <3>2, NextBelowOnce
    <3>7. C[p] = End(NextBelow(T, p[1]))
      BY <2>1, <2>3
    <3> HIDE DEF C, End, T
    <3> QED
      BY <3>4, <3>5, <3>6, <3>7
  <2> QED
    BY <2>2, <2>3
<1>2. C = [p \in Nat \X Nat |-> SearchStep(f, t, C, p)]
  <2>1. C = [p \in Nat \X Nat |-> C[p]]
    OBVIOUS
  <2> HIDE DEF C
  <2> QED
    BY <1>1, <2>1
<1> HIDE DEF C
<1> QED
  BY <1>2 DEF IsSearch

\* The search ends at the round in force, and shows its successor.
LEMMA SearchFinds ==
  ASSUME OracleTypeOK, NEW f \in Feeds, ChronicleOf(f), Bounded, Consecutive(f), NEW t \in Nat,
         NEW S, IsSearch(f, t, S),
         NEW r \in LastUpTo(t)[f], NEW s \in rounds[f], IsImmediateSuccessor(f, r, s),
         NEW p0 \in Nat, r.phase <= p0, p0 <= latest[f].phase,
         NEW n0 \in Nat, InPhase(f, p0) = 1..n0, p0 = r.phase => n0 > r.agg
  PROVE  S[<<p0, n0>>] = [round |-> r, next |-> s]
<1> DEFINE Result == [round |-> r, next |-> s]
           Wrong == {ph \in Nat : /\ r.phase <= ph /\ ph <= latest[f].phase
                                  /\ \E n \in Nat : /\ InPhase(f, ph) = 1..n /\ (ph = r.phase => n > r.agg)
                                                    /\ S[<<ph, n>>] # Result}
<1>0. /\ rounds[f] \subseteq Round /\ r \in rounds[f] /\ latest[f] \in Round
      /\ r.phase \in Nat /\ r.phase >= 1 /\ r.agg \in Nat /\ r.agg >= 1 /\ latest[f].phase \in Nat
  BY DEF OracleTypeOK, LastUpTo, Round
<1>1. \A p \in Nat \X Nat : S[p] = SearchStep(f, t, S, p)
  BY DEF IsSearch
<1>2. ASSUME NEW ph \in Wrong, \A e \in Wrong : ph <= e PROVE FALSE
  <2>1. PICK n \in Nat : /\ InPhase(f, ph) = 1..n /\ (ph = r.phase => n > r.agg) /\ S[<<ph, n>>] # Result
    BY <1>2
  <2>2. ph \in Nat /\ r.phase <= ph /\ ph <= latest[f].phase /\ \A e \in Wrong : e \in Nat
    BY <1>2
  <2>3. \A q \in Nat : q < ph => q \notin Wrong
    BY <1>2, <2>2
  <2>4. S[<<ph, n>>] = SearchStep(f, t, S, <<ph, n>>)
    BY <1>1, <2>2
  <2>5. CASE ph = r.phase
    <3>1. UpTo(f, ph, t) = 1..r.agg /\ r.agg \in 1..n /\ n > r.agg
      BY <2>1, <2>2, <2>5, UpToInForce
    <3>2. Bisect(1..r.agg, 1, n) = r.agg
      BY <1>0, <3>1, BisectFinds
    <3>3. RoundAt(f, <<ph, r.agg>>) = r
      BY <1>0, <2>5, RoundAtItsId
    <3>4. r.agg + 1 \in InPhase(f, ph)
      BY <1>0, <2>1, <3>1
    <3>5. PICK x \in rounds[f] : x.phase = ph /\ x.agg = r.agg + 1
      BY <3>4 DEF InPhase
    <3>6. s.phase = ph /\ s.agg = r.agg + 1
      BY <2>5, <3>5 DEF IsImmediateSuccessor
    <3>7. RoundAt(f, <<ph, r.agg + 1>>) = s
      BY <3>6, RoundAtItsId
    <3>8. 1 \in 1..r.agg
      BY <1>0
    <3>9. SearchStep(f, t, S, <<ph, n>>) = Result
      BY <3>1, <3>2, <3>3, <3>7, <3>8 DEF SearchStep
    <3> QED
      BY <2>1, <2>4, <3>9
  <2>6. CASE ph > r.phase
    <3> DEFINE q == ph - 1
    <3>1. q \in Nat /\ q + 1 = ph /\ q >= r.phase /\ q \in 1..latest[f].phase /\ ~(ph <= 1)
      BY <1>0, <2>2, <2>6
    <3>2. PICK m \in Nat : m >= 1 /\ InPhase(f, q) = 1..m
      BY <3>1, PhasesComplete
    <3>3. LastRoundOfPhase(f, q) = m
      BY <3>2, LastRoundFound
    <3>4. UpTo(f, ph, t) = {}
      BY <2>1, <2>2, <2>6, UpToInForce
    <3>5. m # 0
      BY <3>2
    <3>6. q = r.phase => UpTo(f, q, t) = 1..r.agg /\ r.agg \in 1..m
      BY <3>1, <3>2, UpToInForce
    <3>7. q > r.phase => UpTo(f, q, t) = {}
      BY <3>1, <3>2, UpToInForce
    <3>8. SearchStep(f, t, S, <<ph, n>>) =
            IF m \in UpTo(f, q, t) THEN [round |-> RoundAt(f, <<q, m>>), next |-> RoundAt(f, <<ph, 1>>)]
            ELSE S[<<q, m>>]
      BY <3>1, <3>3, <3>4, <3>5 DEF SearchStep
    <3> HIDE DEF q
    <3>9. CASE m \in UpTo(f, q, t)
      <4>1. q = r.phase
        BY <1>0, <3>1, <3>7, <3>9
      <4>2. m = r.agg
        BY <1>0, <3>2, <3>6, <3>9, <4>1
      <4>3. RoundAt(f, <<q, m>>) = r
        BY <1>0, <4>1, <4>2, RoundAtItsId
      <4>4. ~(s.phase = r.phase /\ s.agg = r.agg + 1)
        <5>1. SUFFICES ASSUME s.phase = r.phase, s.agg = r.agg + 1 PROVE FALSE
          OBVIOUS
        <5>2. s.agg \in InPhase(f, q)
          BY <4>1, <5>1 DEF InPhase
        <5> QED
          BY <1>0, <3>2, <4>2, <5>1, <5>2
      <4>5. s.phase = ph /\ s.agg = 1
        BY <3>1, <4>1, <4>4 DEF IsImmediateSuccessor
      <4>6. RoundAt(f, <<ph, 1>>) = s
        BY <4>5, RoundAtItsId
      <4> QED
        BY <2>1, <2>4, <3>8, <3>9, <4>3, <4>6
    <3>10. CASE m \notin UpTo(f, q, t)
      <4>1. q = r.phase => m > r.agg
        BY <1>0, <3>2, <3>6, <3>10
      <4>2. q <= latest[f].phase /\ r.phase <= q /\ q < ph
        BY <1>0, <2>2, <3>1
      <4>3. S[<<q, m>>] = Result
        BY <2>3, <3>1, <3>2, <4>1, <4>2
      <4> QED
        BY <2>1, <2>4, <3>8, <3>10, <4>3
    <3> QED
      BY <3>9, <3>10
  <2> QED
    BY <1>0, <2>2, <2>5, <2>6
<1>3. Wrong \in SUBSET Nat
  OBVIOUS
<1>4. Wrong = {}
  BY <1>2, <1>3, LeastNumber
<1> QED
  BY <1>4

LEMMA FindFinds ==
  ASSUME OracleTypeOK, Chronicle, Bounded, NEW f \in Feeds, NEW t \in Nat, Provable(f, t)
  PROVE  LET p == FindRoundInForce(f, t)
         IN p # NoProof /\ p.round \in LastUpTo(t)[f] /\ InForce(f, p.round, p.next, t)
<1> DEFINE L == latest[f]
<1>0. /\ ChronicleOf(f) /\ Consecutive(f) /\ outage[f] = "NONE"
      /\ rounds[f] \subseteq Round /\ L \in Round /\ L \in rounds[f]
      /\ NoRound \notin Round /\ L.updatedAt \in Nat
  BY OracleAssumption DEF Chronicle, Provable, OracleTypeOK, ChronicleOf, Round
<1>1. PICK r \in Proven(t)[f] : r \in LastUpTo(t)[f]
  BY DEF Provable
<1>2. PICK s \in rounds[f] \cup {NoRound} : InForce(f, r, s, t)
  BY <1>1 DEF Proven
<1>3. CASE L.updatedAt <= t
  <2>1. FindRoundInForce(f, t) = [round |-> L, next |-> NoRound]
    BY <1>3 DEF FindRoundInForce
  <2>2. L \in LastUpTo(t)[f]
    BY <1>0, <1>3 DEF LastUpTo, ChronicleOf
  <2>3. L = r
    BY <1>1, <2>2, LastUnique
  <2>4. InForce(f, L, NoRound, t)
    BY <1>0, <1>2, <1>3, <2>3 DEF InForce, LatestReadable
  <2>5. [round |-> L, next |-> NoRound] # NoProof
    BY <1>0 DEF NoProof
  <2> QED
    BY <2>1, <2>2, <2>4, <2>5
<1>4. CASE ~(L.updatedAt <= t)
  <2> DEFINE S == CHOOSE h : IsSearch(f, t, h)
  <2>1. IsSearch(f, t, S)
    BY <1>0, SearchExists
  <2> HIDE DEF S
  <2>2. FindRoundInForce(f, t) = S[<<L.phase, L.agg>>]
    BY <1>4 DEF FindRoundInForce, S, IsSearch, SearchStep
  <2>3. r \in rounds[f] /\ r.updatedAt <= t /\ \A x \in rounds[f] : Later(x, r) => x.updatedAt > t
    BY <1>1 DEF LastUpTo
  <2>4. r # L
    BY <1>4, <2>3
  <2>5. s \in rounds[f] /\ IsImmediateSuccessor(f, r, s)
    BY <1>2, <2>4 DEF InForce
  <2>6. L.phase \in Nat /\ L.agg \in Nat /\ L.phase \in 1..L.phase /\ r.phase \in Nat /\ r.agg \in Nat
    BY <1>0, <2>3 DEF Round
  <2>7. ~Later(r, L)
    BY <1>0, <2>3 DEF ChronicleOf
  <2>8. Later(L, r)
    <3>1. ~(r.phase = L.phase /\ r.agg = L.agg)
      BY <1>0, <2>3, <2>4 DEF ChronicleOf
    <3> QED
      BY <1>0, <2>3, <2>7, <3>1, LaterTotal
  <2>9. PICK n \in Nat : InPhase(f, L.phase) = 1..n
    BY <1>0, <2>6, PhasesComplete
  <2>10. n = L.agg
    <3>1. L.agg \in 1..n
      BY <1>0, <2>9 DEF InPhase
    <3>2. \A x \in rounds[f] : x.phase = L.phase => ~(x.agg > L.agg)
      BY <1>0 DEF ChronicleOf, Later
    <3>3. ~(n > L.agg)
      <4>1. n \in InPhase(f, L.phase)
        BY <2>9, <3>1
      <4>2. PICK x \in rounds[f] : x.phase = L.phase /\ x.agg = n
        BY <4>1 DEF InPhase
      <4> QED
        BY <3>2, <4>2
    <3> QED
      BY <2>6, <3>1, <3>3
  <2>11. r.phase <= L.phase /\ (L.phase = r.phase => L.agg > r.agg)
    BY <2>6, <2>8 DEF Later
  <2>12. S[<<L.phase, L.agg>>] = [round |-> r, next |-> s]
    BY <1>0, <1>1, <2>1, <2>5, <2>6, <2>9, <2>10, <2>11, SearchFinds
  <2>13. [round |-> r, next |-> s] # NoProof
    BY <1>0, <2>3 DEF NoProof
  <2> QED
    BY <1>1, <1>2, <2>2, <2>12, <2>13
<1> QED
  BY <1>3, <1>4

\* What the oracle accepts of what the keeper found is the round in force.
LEMMA AcceptedInForce ==
  ASSUME OracleTypeOK, Chronicle, Bounded, NEW f \in Feeds, NEW t \in Nat, Provable(f, t)
  PROVE  Accepted(t)[f] = LastUpTo(t)[f]
<1> DEFINE p == FindRoundInForce(f, t)
<1>1. p # NoProof /\ p.round \in LastUpTo(t)[f] /\ InForce(f, p.round, p.next, t)
  BY FindFinds
<1> HIDE DEF p
<1>2. Found(t)[f] = {p}
  BY <1>1 DEF Found, p
<1>3. Accepted(t)[f] = {p.round}
  BY <1>1, <1>2 DEF Accepted
<1>4. LastUpTo(t)[f] = {p.round}
  BY <1>1, LastUnique
<1> QED
  BY <1>3, <1>4

LEMMA SelectReads ==
  ASSUME NEW c \in Candidates, NEW one, NEW two,
         \A f \in FeedsOf(c.primary) \cup FeedsOf(c.fallback) : one[f] = two[f],
         ReadsFeeds(c.primary),
         c.fallback.kind # "NONE" => ReadsFeeds(c.fallback)
  PROVE  Select(c, one) = Select(c, two)
<1>1. ASSUME NEW src, ReadsFeeds(src), \A f \in FeedsOf(src) : one[f] = two[f]
      PROVE  Evaluate(src, c, one) = Evaluate(src, c, two)
  <2>1. CASE src.kind = "DIRECT"
    BY <1>1, <2>1 DEF Evaluate, FeedsOf
  <2>2. CASE src.kind = "DERIVED"
    <3>1. one[src.feed] = two[src.feed] /\ one[src.quote] = two[src.quote]
      BY <1>1, <2>2 DEF FeedsOf
    <3> QED
      BY <2>2, <3>1 DEF Evaluate
  <2> QED
    BY <1>1, <2>1, <2>2 DEF ReadsFeeds
<1>2. Evaluate(c.primary, c, one) = Evaluate(c.primary, c, two)
  BY <1>1
<1>3. c.fallback.kind # "NONE" => Evaluate(c.fallback, c, one) = Evaluate(c.fallback, c, two)
  BY <1>1
<1> QED
  BY <1>2, <1>3 DEF Select

LEMMA KeeperFinds ==
  ASSUME IInv, Bounded PROVE KeeperFindsProof
<1> SUFFICES ASSUME NEW c \in Candidates, Registered(c),
                    \A f \in FeedsOf(c.primary) \cup FeedsOf(c.fallback) : Provable(f, WindowEnd(c))
             PROVE  KeeperPrice(c) = Select(c, LastUpTo(WindowEnd(c)))
  BY DEF KeeperFindsProof
<1>1. ReadsFeeds(c.primary) /\ (c.fallback.kind # "NONE" => ReadsFeeds(c.fallback))
  BY DEF IInv, ConfigsRead
<1>2. FeedsOf(c.primary) \subseteq Feeds
  BY <1>1 DEF ReadsFeeds, FeedsOf
<1>3. FeedsOf(c.fallback) \subseteq Feeds
  BY <1>1 DEF ReadsFeeds, FeedsOf
<1>4. \A f \in FeedsOf(c.primary) \cup FeedsOf(c.fallback) :
        Accepted(WindowEnd(c))[f] = LastUpTo(WindowEnd(c))[f]
  BY <1>2, <1>3, WindowTimes, AcceptedInForce DEF IInv
<1> QED
  BY <1>1, <1>4, SelectReads DEF KeeperPrice

-----------------------------------------------------------------------------

LEMMA InitBounded == OracleInit => Bounded
<1> SUFFICES ASSUME OracleInit, NEW f \in Feeds PROVE \E n \in Nat : \A r \in rounds[f] : r.agg <= n
  BY DEF Bounded
<1>1. PICK answer \in Answers : rounds[f] = {FirstRound(answer)}
  BY DEF OracleInit, FeedsInit
<1>2. \A r \in rounds[f] : r.agg <= 1
  BY <1>1 DEF FirstRound
<1> QED
  BY <1>2

LEMMA WriteBounded ==
  ASSUME OracleTypeOK, Bounded, NEW g \in Feeds, NEW phase, NEW agg \in Nat, NEW answer, NEW answered,
         Write(g, phase, agg, answer, answered)
  PROVE  Bounded'
<1> DEFINE r0 == [phase |-> phase, agg |-> agg, answer |-> answer, updatedAt |-> timestamp, answered |-> answered]
<1>1. rounds' = [rounds EXCEPT ![g] = @ \cup {r0}]
  BY DEF Write
<1> SUFFICES ASSUME NEW f \in Feeds PROVE \E n \in Nat : \A r \in rounds'[f] : r.agg <= n
  BY DEF Bounded
<1>2. PICK n \in Nat : \A r \in rounds[f] : r.agg <= n
  BY DEF Bounded
<1>3. rounds[f] \subseteq Round
  BY DEF OracleTypeOK
<1>4. \A r \in rounds[f] : r.agg \in Nat /\ r.agg <= n + agg
  BY <1>2, <1>3 DEF Round
<1>5. r0.agg <= n + agg
  OBVIOUS
<1>6. \A r \in rounds'[f] : r.agg <= n + agg
  BY <1>1, <1>4, <1>5 DEF OracleTypeOK
<1>7. PICK m \in Nat : m = n + agg
  OBVIOUS
<1>8. \A r \in rounds'[f] : r.agg <= m
  BY <1>6, <1>7
<1> QED
  BY <1>8

LEMMA NextBounded == OracleTypeOK /\ Bounded /\ [OracleStep]_oracleVars => Bounded'
<1> SUFFICES ASSUME OracleTypeOK, Bounded, [OracleStep]_oracleVars PROVE Bounded'
  OBVIOUS
<1>1. CASE UNCHANGED rounds
  BY <1>1 DEF Bounded
<1>2. CASE OracleNext
  <2>1. UNCHANGED rounds
    BY <1>2 DEF OracleNext, RegisterConfig, SetConfigApproved, FinalizeGroup, feedVars
  <2> QED
    BY <1>1, <2>1
<1>3. CASE FeedsNext
  <2>1. CASE Tick
    BY <1>1, <2>1 DEF Tick
  <2>2. ASSUME NEW f \in Feeds, NEW answer \in Answers, NEW answered \in Answered, PushRound(f, answer, answered)
        PROVE  Bounded'
    <3>1. latest[f].agg + 1 \in Nat
      BY DEF OracleTypeOK, Round
    <3> QED
      BY <2>2, <3>1, WriteBounded DEF PushRound
  <2>3. ASSUME NEW f \in Feeds, NEW answer \in Answers, NEW step \in PhaseSteps, StartNewPhase(f, step, answer)
        PROVE  Bounded'
    BY <2>3, WriteBounded DEF StartNewPhase
  <2>4. ASSUME NEW f \in Feeds, NEW reads \in Outages, SetOutage(f, reads)
        PROVE  Bounded'
    BY <1>1, <2>4 DEF SetOutage
  <2> QED
    BY <1>3, <2>1, <2>2, <2>3, <2>4 DEF FeedsNext
<1>4. CASE UNCHANGED oracleVars
  BY <1>1, <1>4 DEF oracleVars, feedVars
<1> QED
  BY <1>2, <1>3, <1>4 DEF OracleStep

\* The keeper never waits for a proof that exists: if the rounds in force can be
\* proved, the rounds that the search of the SDK shows for them are accepted by
\* SettlementOracle.verify and give the price of the rounds in force.
THEOREM ProofIsFound == OracleSpec => []KeeperFindsProof
<1>1. IInv /\ Bounded => KeeperFindsProof
  BY KeeperFinds
<1>2. IInv => OracleTypeOK
  BY DEF IInv
<1> QED
  BY <1>1, <1>2, InitBounded, NextBounded, IInvCorrect, PTL DEF OracleSpec

-----------------------------------------------------------------------------
(* Roles, pauses and upgrades: the inductive invariant is the type of the  *)
(* state and the time every operation waits for, written when it was       *)
(* scheduled                                                               *)

ControlType ==
  /\ roles \in [Roles -> SUBSET Addresses]
  /\ paused \in [Scopes -> SUBSET Bits]
  /\ closeOnly \in SUBSET ControlledProducts

OperationType ==
  [proxy : Proxies, implementation : Implementations, codeHash : CodeHashes \cup {NoCode},
   scheduledAt : Nat, eta : Nat, emergency : BOOLEAN,
   state : {"PENDING", "EXECUTED", "CANCELLED"}]

UpgradeType ==
  /\ elapsed \in Nat
  /\ code \in [Implementations -> CodeHashes \cup {NoCode}]
  /\ implementationOf \in [Proxies -> Implementations \cup {Nobody}]
  /\ implementationAllowed \in SUBSET CodeHashes
  /\ operations \in Seq(OperationType)

\* Whatever its state, an operation waits the delay of its kind from the moment
\* it was announced (UpgradeAdmin._schedule).
EtasKept ==
  \A id \in DOMAIN operations :
    operations[id].eta = operations[id].scheduledAt + DelayOf(operations[id].emergency)

AdminInv == ControlType /\ UpgradeType /\ EtasKept

-----------------------------------------------------------------------------
(* Sequences of operations *)

\* Writing one field of one operation leaves the others and the length.
LEMMA StateWritten ==
  ASSUME NEW S, NEW s \in Seq(S), NEW t, NEW i \in DOMAIN s, NEW e \in S,
         t = [s EXCEPT ![i] = e]
  PROVE  /\ t \in Seq(S) /\ Len(t) = Len(s) /\ DOMAIN t = DOMAIN s
         /\ t[i] = e /\ \A j \in DOMAIN s \ {i} : t[j] = s[j]
OBVIOUS

\* An announced operation comes after those there are.
LEMMA OperationAdded ==
  ASSUME NEW S, NEW s \in Seq(S), NEW e \in S, NEW t, t = Append(s, e)
  PROVE  /\ t \in Seq(S) /\ Len(t) = Len(s) + 1 /\ DOMAIN t = DOMAIN s \cup {Len(s) + 1}
         /\ t[Len(s) + 1] = e /\ \A j \in DOMAIN s : t[j] = s[j]
OBVIOUS

-----------------------------------------------------------------------------
(* Roles and pauses *)

LEMMA ControlInitType ==
  ASSUME NEW admin \in Addresses, ControlInit(admin)
  PROVE  ControlType
BY DEF ControlInit, ControlType

LEMMA ControlStepType ==
  ASSUME ControlType, NEW x \in Addresses, ControlStep(x)
  PROVE  ControlType'
<1>1. CASE \E role \in Roles, y \in Addresses : GrantRole(x, role, y) \/ RevokeRole(x, role, y)
  BY <1>1 DEF ControlType, GrantRole, RevokeRole
<1>2. CASE \E role \in Roles : RenounceRole(x, role)
  BY <1>2 DEF ControlType, RenounceRole
<1>3. CASE \E scope \in Scopes, bits \in SUBSET Bits \ {{}} : Pause(x, scope, bits) \/ Unpause(x, scope, bits)
  BY <1>3 DEF ControlType, Pause, Unpause
<1>4. CASE \E product \in ControlledProducts, on \in BOOLEAN : SetProductCloseOnly(x, product, on)
  BY <1>4 DEF ControlType, SetProductCloseOnly
<1> QED
  BY <1>1, <1>2, <1>3, <1>4 DEF ControlStep

\* A step of a sender without GOVERNANCE keeps pauses, close-only products and
\* missing roles as they are.
LEMMA OthersReduceRisk ==
  ASSUME ControlType, NEW x \in Addresses, ControlStep(x), ~HasRole("GOVERNANCE", x)
  PROVE  ReducesRisk
<1>1. CASE \E role \in Roles, y \in Addresses : GrantRole(x, role, y) \/ RevokeRole(x, role, y)
  BY <1>1 DEF GrantRole, RevokeRole
<1>2. CASE \E role \in Roles : RenounceRole(x, role)
  BY <1>2 DEF ControlType, RenounceRole, ReducesRisk, IsPaused
<1>3. CASE \E scope \in Scopes, bits \in SUBSET Bits \ {{}} : Pause(x, scope, bits) \/ Unpause(x, scope, bits)
  <2>1. PICK scope \in Scopes, bits \in SUBSET Bits : Pause(x, scope, bits)
    BY <1>3 DEF Unpause
  <2>2. /\ paused' = [paused EXCEPT ![scope] = @ \cup bits]
        /\ UNCHANGED <<roles, closeOnly>>
    BY <2>1 DEF Pause
  <2>3. \A s \in Scopes : paused[s] \subseteq paused'[s]
    BY <2>2 DEF ControlType
  <2>4. \A asset \in ControlledAssets, product \in ControlledProducts :
          paused[Global] \cup paused[asset] \cup paused[product]
            \subseteq paused'[Global] \cup paused'[asset] \cup paused'[product]
    BY <2>3 DEF Scopes
  <2> QED
    BY <2>2, <2>4 DEF ReducesRisk, IsPaused
<1>4. CASE \E product \in ControlledProducts, on \in BOOLEAN : SetProductCloseOnly(x, product, on)
  BY <1>4 DEF SetProductCloseOnly, ReducesRisk, IsPaused
<1> QED
  BY <1>1, <1>2, <1>3, <1>4 DEF ControlStep

\* INV-53 of ProtocolControl.sol on its own: whoever does not hold GOVERNANCE
\* only reduces risk, for any addresses, scopes and roles.
THEOREM OthersOnlyReduce == ControlSpec => OnlyGovernanceAddsRisk
<1>1. (\E admin \in Addresses : ControlInit(admin)) => ControlType
  BY ControlInitType
<1>2. ControlType /\ [ControlNext]_controlVars => ControlType'
  <2>1. ASSUME ControlType, UNCHANGED controlVars PROVE ControlType'
    BY <2>1 DEF ControlType, controlVars
  <2> QED
    BY <2>1, ControlStepType DEF ControlNext
<1>3. ControlType /\ [ControlNext]_controlVars =>
        [ReducesRisk \/ \A x \in Addresses : ControlStep(x) => HasRole("GOVERNANCE", x)]_controlVars
  BY OthersReduceRisk
<1> QED
  BY <1>1, <1>2, <1>3, PTL DEF ControlSpec, OnlyGovernanceAddsRisk

-----------------------------------------------------------------------------
(* Upgrades *)

LEMMA AdminInitInv == AdminInit => AdminInv
<1> SUFFICES ASSUME AdminInit PROVE AdminInv
  OBVIOUS
<1>1. ControlType
  BY ControlInitType, UpgradeAssumption DEF AdminInit
<1>2. UpgradeType
  BY DEF AdminInit, UpgradeType
<1>3. EtasKept
  BY DEF AdminInit, EtasKept
<1> QED
  BY <1>1, <1>2, <1>3 DEF AdminInv

\* A new operation gets its delay.
LEMMA ScheduleKeeps ==
  ASSUME UpgradeType, EtasKept, NEW proxy \in Proxies, NEW impl \in Implementations,
         NEW emergency \in BOOLEAN, Schedule(proxy, impl, emergency), UNCHANGED <<elapsed, code>>
  PROVE  UpgradeType' /\ EtasKept' /\ Announced /\ DecidedOnce
<1> DEFINE op == [proxy |-> proxy, implementation |-> impl, codeHash |-> code[impl],
                  scheduledAt |-> elapsed, eta |-> elapsed + DelayOf(emergency),
                  emergency |-> emergency, state |-> "PENDING"]
<1>1. operations' = Append(operations, op) /\ UNCHANGED <<implementationOf, implementationAllowed>>
  BY DEF Schedule
<1>2. DelayOf(emergency) \in Nat
  BY UpgradeAssumption DEF DelayOf
<1>3. op \in OperationType
  BY <1>2 DEF OperationType, UpgradeType
<1>4. op.eta = op.scheduledAt + DelayOf(op.emergency)
  OBVIOUS
<1>5. operations \in Seq(OperationType)
  BY DEF UpgradeType
<1> HIDE DEF op
<1>6. /\ operations' \in Seq(OperationType) /\ Len(operations') = Len(operations) + 1
      /\ DOMAIN operations' = DOMAIN operations \cup {Len(operations) + 1}
      /\ operations'[Len(operations) + 1] = op
      /\ \A j \in DOMAIN operations : operations'[j] = operations[j]
  BY <1>1, <1>3, <1>5, OperationAdded
<1>7. UpgradeType'
  BY <1>1, <1>6 DEF UpgradeType
<1>8. EtasKept'
  BY <1>4, <1>6 DEF EtasKept, DelayOf
<1>9. Announced /\ DecidedOnce
  BY <1>1, <1>5, <1>6 DEF Announced, DecidedOnce
<1> QED
  BY <1>7, <1>8, <1>9

\* Deciding an operation changes its state only, from PENDING.
LEMMA DecideKeeps ==
  ASSUME UpgradeType, EtasKept, NEW id \in DOMAIN operations,
         NEW state \in {"EXECUTED", "CANCELLED"}, operations[id].state = "PENDING",
         SetState(id, state)
  PROVE  /\ operations' \in Seq(OperationType) /\ EtasKept' /\ DecidedOnce
         /\ operations'[id].state = state
<1> DEFINE op == [operations[id] EXCEPT !.state = state]
<1>1. operations \in Seq(OperationType) /\ operations[id] \in OperationType
  BY DEF UpgradeType
<1>2. /\ op \in OperationType /\ op.eta = operations[id].eta
      /\ op.scheduledAt = operations[id].scheduledAt /\ op.emergency = operations[id].emergency
      /\ op.state = state
  BY <1>1 DEF OperationType
<1>3. operations' = [operations EXCEPT ![id] = op]
  BY <1>1 DEF SetState
<1> HIDE DEF op
<1>4. /\ operations' \in Seq(OperationType) /\ Len(operations') = Len(operations)
      /\ DOMAIN operations' = DOMAIN operations /\ operations'[id] = op
      /\ \A j \in DOMAIN operations \ {id} : operations'[j] = operations[j]
  BY <1>1, <1>2, <1>3, StateWritten
<1>5. EtasKept'
  BY <1>2, <1>4 DEF EtasKept, DelayOf
<1>6. DecidedOnce
  BY <1>1, <1>4 DEF DecidedOnce
<1> QED
  BY <1>2, <1>4, <1>5, <1>6

\* Execution changes the proxy of its operation to the code that was announced.
LEMMA ExecuteKeeps ==
  ASSUME AdminInv, NEW x, NEW id \in DOMAIN operations, ExecuteUpgrade(x, id)
  PROVE  UpgradeType' /\ EtasKept' /\ Announced /\ DecidedOnce
<1> DEFINE op == operations[id]
<1>1. /\ op.state = "PENDING" /\ elapsed >= op.eta /\ code[op.implementation] = op.codeHash
      /\ op.emergency \/ op.codeHash \in implementationAllowed
      /\ SetState(id, "EXECUTED")
      /\ implementationOf' = [implementationOf EXCEPT ![op.proxy] = op.implementation]
      /\ UNCHANGED <<elapsed, code, implementationAllowed>>
  BY DEF ExecuteUpgrade, ControlUntouched
<1>2. /\ operations' \in Seq(OperationType) /\ EtasKept' /\ DecidedOnce
      /\ operations'[id].state = "EXECUTED"
  BY <1>1, DecideKeeps DEF AdminInv
<1>3. op \in OperationType
  BY DEF AdminInv, UpgradeType
<1>4. op.proxy \in Proxies /\ op.implementation \in Implementations
      /\ op.eta \in Nat /\ op.scheduledAt \in Nat /\ op.emergency \in BOOLEAN
  BY <1>3 DEF OperationType
<1>5. UpgradeType'
  BY <1>1, <1>2, <1>4 DEF AdminInv, UpgradeType
<1>6. elapsed - op.scheduledAt >= (IF op.emergency THEN EmergencyDelay ELSE UpgradeDelay)
  <2>1. op.eta = op.scheduledAt + DelayOf(op.emergency)
    BY DEF AdminInv, EtasKept
  <2>2. elapsed \in Nat /\ EmergencyDelay \in Nat /\ UpgradeDelay \in Nat
    BY UpgradeAssumption DEF AdminInv, UpgradeType
  <2> QED
    BY <1>1, <1>4, <2>1, <2>2 DEF DelayOf
<1>7. Announced
  <2> SUFFICES ASSUME NEW p \in Proxies, implementationOf'[p] # implementationOf[p]
               PROVE  op.proxy = p /\ op.implementation = implementationOf'[p]
    BY <1>1, <1>2, <1>6 DEF Announced
  <2> QED
    BY <1>1, <1>4 DEF AdminInv, UpgradeType
<1> QED
  BY <1>2, <1>5, <1>7

\* The seats, the allowlist, the clock and code that changes behind an address.
LEMMA OthersKeep ==
  ASSUME AdminInv, AdminInv',
         operations' = operations, implementationOf' = implementationOf
  PROVE  Announced /\ DecidedOnce
BY DEF Announced, DecidedOnce, AdminInv, UpgradeType

\* Every call of UpgradeAdmin keeps the invariant and the promise.
LEMMA UpgradeKeeps ==
  ASSUME AdminInv, UpgradeNext
  PROVE  AdminInv' /\ Announced /\ DecidedOnce
<1> USE DEF AdminInv
<1>1. PICK x \in Addresses :
        \/ \E proxy \in Proxies, impl \in Implementations :
             \/ DeployProxy(x, proxy, impl)
             \/ ScheduleUpgrade(x, proxy, impl)
             \/ \E affected \in SUBSET ControlledProducts : ScheduleEmergencyUpgrade(x, proxy, impl, affected)
        \/ \E hash \in CodeHashes, allowed \in BOOLEAN : SetImplementationAllowed(x, hash, allowed)
        \/ \E id \in DOMAIN operations : ExecuteUpgrade(x, id) \/ CancelUpgrade(x, id)
        \/ \E y \in Addresses : TransferGovernance(x, y) \/ SetEmergencyCouncil(x, y)
        \/ AcceptGovernance(x)
        \/ SetProtocolControl(x)
        \/ RenounceDeployer(x)
  BY DEF UpgradeNext
<1>2. ASSUME UNCHANGED controlVars PROVE ControlType'
  BY <1>2 DEF ControlType, controlVars
<1>3. CASE \E proxy \in Proxies, impl \in Implementations : DeployProxy(x, proxy, impl)
  <2>1. PICK proxy \in Proxies, impl \in Implementations : DeployProxy(x, proxy, impl)
    BY <1>3
  <2>2. /\ UNCHANGED <<controlVars, elapsed, code, implementationAllowed, operations>>
        /\ implementationOf[proxy] = Nobody
        /\ implementationOf' = [implementationOf EXCEPT ![proxy] = impl]
    BY <2>1 DEF DeployProxy, ControlUntouched
  <2>3. UpgradeType' /\ EtasKept'
    BY <2>2 DEF UpgradeType, EtasKept
  <2>4. Announced
    BY <2>2 DEF Announced, UpgradeType
  <2>5. DecidedOnce
    BY <2>2 DEF DecidedOnce, UpgradeType
  <2> QED
    BY <1>2, <2>2, <2>3, <2>4, <2>5
<1>4. CASE \E proxy \in Proxies, impl \in Implementations : ScheduleUpgrade(x, proxy, impl)
  <2>1. PICK proxy \in Proxies, impl \in Implementations : ScheduleUpgrade(x, proxy, impl)
    BY <1>4
  <2>2. UNCHANGED <<controlVars, elapsed, code>> /\ Schedule(proxy, impl, FALSE)
    BY <2>1 DEF ScheduleUpgrade, ControlUntouched
  <2> QED
    BY <1>2, <2>2, ScheduleKeeps
<1>5. CASE \E proxy \in Proxies, impl \in Implementations, affected \in SUBSET ControlledProducts :
             ScheduleEmergencyUpgrade(x, proxy, impl, affected)
  <2>1. PICK proxy \in Proxies, impl \in Implementations, affected \in SUBSET ControlledProducts :
          ScheduleEmergencyUpgrade(x, proxy, impl, affected)
    BY <1>5
  <2>2. /\ Schedule(proxy, impl, TRUE) /\ UNCHANGED <<roles, paused, elapsed, code>>
        /\ closeOnly' = closeOnly \cup affected
    BY <2>1 DEF ScheduleEmergencyUpgrade
  <2>3. ControlType'
    BY <2>2 DEF ControlType
  <2> QED
    BY <2>2, <2>3, ScheduleKeeps
<1>6. CASE \E hash \in CodeHashes, allowed \in BOOLEAN : SetImplementationAllowed(x, hash, allowed)
  <2>1. /\ UNCHANGED <<controlVars, elapsed, code, implementationOf, operations>>
        /\ implementationAllowed' \in SUBSET CodeHashes
    BY <1>6 DEF SetImplementationAllowed, ControlUntouched, UpgradeType
  <2>2. AdminInv'
    BY <1>2, <2>1 DEF UpgradeType, EtasKept
  <2> QED
    BY <2>1, <2>2, OthersKeep
<1>7. CASE \E id \in DOMAIN operations : ExecuteUpgrade(x, id)
  BY <1>2, <1>7, ExecuteKeeps DEF ExecuteUpgrade, ControlUntouched
<1>8. CASE \E id \in DOMAIN operations : CancelUpgrade(x, id)
  <2>1. PICK id \in DOMAIN operations : CancelUpgrade(x, id)
    BY <1>8
  <2>2. /\ UNCHANGED <<controlVars, elapsed, code, implementationOf, implementationAllowed>>
        /\ operations[id].state = "PENDING" /\ SetState(id, "CANCELLED")
    BY <2>1 DEF CancelUpgrade, ControlUntouched
  <2>3. operations' \in Seq(OperationType) /\ EtasKept' /\ DecidedOnce
    BY <2>2, DecideKeeps
  <2>4. Announced
    BY <2>2 DEF Announced
  <2>5. UpgradeType'
    BY <2>2, <2>3 DEF UpgradeType
  <2> QED
    BY <1>2, <2>2, <2>3, <2>4, <2>5
<1>9. CASE \/ \E y \in Addresses : TransferGovernance(x, y) \/ SetEmergencyCouncil(x, y)
           \/ AcceptGovernance(x) \/ SetProtocolControl(x) \/ RenounceDeployer(x)
  <2>1. UNCHANGED <<controlVars, elapsed, code, implementationOf, implementationAllowed, operations>>
    BY <1>9 DEF TransferGovernance, SetEmergencyCouncil, AcceptGovernance, SetProtocolControl,
                RenounceDeployer, ControlUntouched, proxyVars
  <2>2. AdminInv'
    BY <1>2, <2>1 DEF UpgradeType, EtasKept
  <2> QED
    BY <2>1, <2>2, OthersKeep
<1> QED
  BY <1>1, <1>3, <1>4, <1>5, <1>6, <1>7, <1>8, <1>9

LEMMA AdminKeeps ==
  AdminInv /\ [AdminNext]_adminVars => AdminInv' /\ [Announced /\ DecidedOnce]_adminVars
<1> SUFFICES ASSUME AdminInv, [AdminNext]_adminVars
             PROVE  AdminInv' /\ [Announced /\ DecidedOnce]_adminVars
  OBVIOUS
<1> USE DEF AdminInv
<1>1. CASE UpgradeNext
  BY <1>1, UpgradeKeeps
<1>2. CASE ClockTick \/ \E impl \in Implementations, hash \in CodeHashes \cup {NoCode} : ChangeCode(impl, hash)
  <2>1. /\ UNCHANGED <<controlVars, implementationOf, implementationAllowed, operations>>
        /\ elapsed' \in Nat /\ code' \in [Implementations -> CodeHashes \cup {NoCode}]
    BY <1>2 DEF ClockTick, ChangeCode, proxyVars, UpgradeType
  <2>2. AdminInv'
    BY <2>1 DEF UpgradeType, EtasKept, ControlType, controlVars
  <2> QED
    BY <2>1, <2>2, OthersKeep
<1>3. CASE \E x \in Addresses, product \in ControlledProducts, on \in BOOLEAN :
             SetProductCloseOnly(x, product, on) /\ UNCHANGED upgradeVars
  <2>1. ControlType'
    BY <1>3 DEF SetProductCloseOnly, ControlType
  <2>2. UNCHANGED <<elapsed, code, implementationOf, implementationAllowed, operations>>
    BY <1>3 DEF upgradeVars, proxyVars
  <2>3. AdminInv'
    BY <2>1, <2>2 DEF UpgradeType, EtasKept
  <2> QED
    BY <2>2, <2>3, OthersKeep
<1>4. CASE UNCHANGED adminVars
  BY <1>4 DEF adminVars, upgradeVars, proxyVars, controlVars, ControlType, UpgradeType, EtasKept
<1> QED
  BY <1>1, <1>2, <1>3, <1>4 DEF AdminNext

\* No proxy changes its code but by an operation that was announced at least its
\* delay before, with the code that was announced, and each runs at most once,
\* for any number of proxies, operations and addresses and any delays.
THEOREM UpgradesWait == AdminSpec => UpgradesAnnounced
BY AdminInitInv, AdminKeeps, PTL DEF AdminSpec, UpgradesAnnounced

=============================================================================
