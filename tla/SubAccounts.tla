----------------------------- MODULE SubAccounts -----------------------------
(***************************************************************************)
(* SubAccounts.sol: the ledger.  Every balance change goes through         *)
(* ApplyDelta, which keeps the totals, the per-account series list and     *)
(* risk buckets (arrays with 1-based index maps, swap-and-pop removal) and *)
(* the per-group participant counters in O(1).  Each action is one call of *)
(* an authorized writer, a user or governance; a call that reverts is a    *)
(* call that is not enabled.                                               *)
(***************************************************************************)
EXTENDS Book

CONSTANTS
  Users, NoOne,         \* addresses, and the zero address
  Assets,               \* approved settlement assets
  MaxSeriesCap,         \* MAX_SERIES_CAP
  MaxBucketsCap,        \* MAX_BUCKETS_CAP
  InitLimits,           \* <<maxSeries, maxBuckets>> at initialization
  InitMinQty,           \* minPositionQty at initialization
  MaxCash, MaxQty       \* bounds of the instance: cash and |balance|

ASSUME SubAccountsAssumption ==
  /\ Accounts = 1..Cardinality(Accounts)
  /\ NoOne \notin Users
  /\ InitLimits \in Nat \X Nat
  /\ InitMinQty \in Nat \ {0}
  /\ MaxCash \in Nat
  /\ MaxQty \in Nat

VARIABLES
  accountCount, owner, settlementAsset, operators, cash,
  balances,
  seriesList, seriesIndex,          \* the array, and the 1-based index map
  bucketList, buckets,              \* underlyings of the account's series
  groupSeriesCount, participants, totals, productShortNotional,
  limits, minPositionQty

accountVars == <<accountCount, owner, settlementAsset, operators>>
listVars    == <<seriesList, seriesIndex, bucketList, buckets>>
countVars   == <<groupSeriesCount, participants>>
bookVars    == <<balances, listVars, countVars, totals, productShortNotional>>
configVars  == <<limits, minPositionQty>>
vars        == <<accountVars, cash, bookVars, configVars>>

Exists(a) == owner[a] # NoOne

LimitsOK(l) ==
  /\ l[1] \in 1..MaxSeriesCap
  /\ l[2] \in 1..MaxBucketsCap
  /\ l[2] <= l[1]

Init ==
  /\ accountCount = 0
  /\ owner = [a \in Accounts |-> NoOne]
  /\ settlementAsset = [a \in Accounts |-> NoOne]
  /\ operators = [a \in Accounts |-> {}]
  /\ cash = [a \in Accounts |-> 0]
  /\ balances = [a \in Accounts |-> [s \in Series |-> 0]]
  /\ seriesList = [a \in Accounts |-> <<>>]
  /\ seriesIndex = [a \in Accounts |-> [s \in Series |-> 0]]
  /\ bucketList = [a \in Accounts |-> <<>>]
  /\ buckets = [a \in Accounts |->
                  [u \in Underlyings |-> [seriesCount |-> 0, index |-> 0]]]
  /\ groupSeriesCount = [a \in Accounts |-> [g \in Groups |-> 0]]
  /\ participants = [g \in Groups |-> 0]
  /\ totals = [s \in Series |-> [internalLong |-> 0, internalShort |-> 0]]
  /\ productShortNotional = [p \in Products |-> 0]
  /\ LimitsOK(InitLimits) /\ limits = InitLimits
  /\ minPositionQty = InitMinQty

CreateSubAccount(user, asset) ==
  /\ accountCount + 1 \in Accounts
  /\ accountCount' = accountCount + 1
  /\ owner' = [owner EXCEPT ![accountCount'] = user]
  /\ settlementAsset' = [settlementAsset EXCEPT ![accountCount'] = asset]
  /\ UNCHANGED <<operators, cash, bookVars, configVars>>

\* msg.sender is the owner of a.
SetOperator(a, operator, approved) ==
  /\ Exists(a)
  /\ operators' = [operators EXCEPT
                     ![a] = IF approved THEN @ \cup {operator} ELSE @ \ {operator}]
  /\ UNCHANGED <<accountCount, owner, settlementAsset, cash, bookVars, configVars>>

AddCash(a, amount) ==
  /\ Exists(a)
  /\ cash[a] + amount <= MaxCash
  /\ cash' = [cash EXCEPT ![a] = @ + amount]
  /\ UNCHANGED <<accountVars, bookVars, configVars>>

SubCash(a, amount) ==
  /\ Exists(a)
  /\ amount <= cash[a]
  /\ cash' = [cash EXCEPT ![a] = @ - amount]
  /\ UNCHANGED <<accountVars, bookVars, configVars>>

-----------------------------------------------------------------------------
(* applyDelta *)

\* The array without the element at idx: the last element takes its place.
SwapAndPop(list, idx) ==
  SubSeq([list EXCEPT ![idx] = list[Len(list)]], 1, Len(list) - 1)

OpenPosition(a, s) ==
  LET u == Info[s].underlying
      g == Info[s].group
      newBucket == buckets[a][u].seriesCount = 0
  IN /\ Len(seriesList[a]) < limits[1]
     /\ seriesList' = [seriesList EXCEPT ![a] = Append(@, s)]
     /\ seriesIndex' = [seriesIndex EXCEPT ![a][s] = Len(seriesList[a]) + 1]
     /\ newBucket => Len(bucketList[a]) < limits[2]
     /\ bucketList' =
          [bucketList EXCEPT ![a] = IF newBucket THEN Append(@, u) ELSE @]
     /\ buckets' =
          [buckets EXCEPT
             ![a][u].seriesCount = @ + 1,
             ![a][u].index = IF newBucket THEN Len(bucketList[a]) + 1 ELSE @]
     /\ groupSeriesCount' = [groupSeriesCount EXCEPT ![a][g] = @ + 1]
     /\ participants' =
          [participants EXCEPT
             ![g] = IF groupSeriesCount[a][g] = 0 THEN @ + 1 ELSE @]

\* Mutant: u's entry is deleted before the moved bucket takes its place.
CloseBucket_DeletedFirst(a, u) ==
  LET lastU == bucketList[a][Len(bucketList[a])]
  IN [buckets[a] EXCEPT ![u] = [seriesCount |-> 0, index |-> 0],
                        ![lastU].index = buckets[a][u].index]

\* The buckets of a when the last series of u is closed: the bucket that is
\* last in the array moves into u's place, then u's entry is deleted.
CloseBucket(a, u) ==
  LET lastU == bucketList[a][Len(bucketList[a])]
  IN [buckets[a] EXCEPT ![lastU].index = buckets[a][u].index,
                        ![u] = [seriesCount |-> 0, index |-> 0]]

\* Mutant: any closed position counts as the account's last in the group.
LeavesGroup_Always(a, g) == TRUE

LeavesGroup(a, g) == groupSeriesCount[a][g] = 1

ClosePosition(a, s) ==
  LET u == Info[s].underlying
      g == Info[s].group
      idx == seriesIndex[a][s]
      last == seriesList[a][Len(seriesList[a])]
      emptied == buckets[a][u].seriesCount = 1
  IN /\ seriesList' = [seriesList EXCEPT ![a] = SwapAndPop(@, idx)]
     /\ seriesIndex' = [seriesIndex EXCEPT ![a][last] = idx, ![a][s] = 0]
     /\ bucketList' =
          [bucketList EXCEPT
             ![a] = IF emptied THEN SwapAndPop(@, buckets[a][u].index) ELSE @]
     /\ buckets' =
          [buckets EXCEPT
             ![a] = IF emptied THEN CloseBucket(a, u)
                               ELSE [buckets[a] EXCEPT ![u].seriesCount = @ - 1]]
     /\ groupSeriesCount' = [groupSeriesCount EXCEPT ![a][g] = @ - 1]
     /\ participants' =
          [participants EXCEPT
             ![g] = IF LeavesGroup(a, g) THEN @ - 1 ELSE @]

\* A non-zero balance is a multiple of the minimum quantity.
OnGrid(balance, min) == balance % min = 0

SameAsset(a, s) == Info[s].asset = settlementAsset[a]

\* The totals of a series when one balance goes from old to balance.
Retotal(t, old, balance) ==
  [internalLong  |-> t.internalLong - Pos(old) + Pos(balance),
   internalShort |-> t.internalShort - Neg(old) + Neg(balance)]

ApplyDelta(a, s, delta) ==
  LET old == balances[a][s]
      balance == old + delta
  IN /\ Exists(a)
     /\ delta # 0
     /\ SameAsset(a, s)
     /\ OnGrid(balance, minPositionQty)
     /\ balance \in -MaxQty..MaxQty
     /\ balances' = [balances EXCEPT ![a][s] = balance]
     /\ totals' = [totals EXCEPT ![s] = Retotal(@, old, balance)]
     /\ productShortNotional' =
          [productShortNotional EXCEPT
             ![ProductOf(s)] = @ - Neg(old) * Info[s].size
                                 + Neg(balance) * Info[s].size]
     /\ \/ old = 0 /\ OpenPosition(a, s)
        \/ old # 0 /\ balance = 0 /\ ClosePosition(a, s)
        \/ old # 0 /\ balance # 0 /\ UNCHANGED <<listVars, countVars>>
     /\ UNCHANGED <<accountVars, cash, configVars>>

-----------------------------------------------------------------------------
(* Governance *)

SetPositionLimits(l) ==
  /\ LimitsOK(l)
  /\ limits' = l
  /\ UNCHANGED <<accountVars, cash, bookVars, minPositionQty>>

\* Mutant: the new minimum need not divide the old one.
SetMinPositionQty_AnyMin(newMin) ==
  /\ newMin # 0
  /\ minPositionQty' = newMin
  /\ UNCHANGED <<accountVars, cash, bookVars, limits>>

SetMinPositionQty(newMin) ==
  /\ newMin # 0
  /\ minPositionQty % newMin = 0
  /\ minPositionQty' = newMin
  /\ UNCHANGED <<accountVars, cash, bookVars, limits>>

Next ==
  \/ \E user \in Users, asset \in Assets : CreateSubAccount(user, asset)
  \/ \E a \in Accounts, user \in Users, b \in BOOLEAN : SetOperator(a, user, b)
  \/ \E a \in Accounts, amount \in 1..MaxCash :
       AddCash(a, amount) \/ SubCash(a, amount)
  \/ \E a \in Accounts, s \in Series, delta \in -2 * MaxQty..2 * MaxQty :
       ApplyDelta(a, s, delta)
  \/ \E l \in (1..MaxSeriesCap) \X (1..MaxBucketsCap) : SetPositionLimits(l)
  \/ \E newMin \in 1..InitMinQty : SetMinPositionQty(newMin)

Spec == Init /\ [][Next]_vars

-----------------------------------------------------------------------------
(* Properties *)

TypeOK ==
  /\ accountCount \in 0..Cardinality(Accounts)
  /\ owner \in [Accounts -> Users \cup {NoOne}]
  /\ settlementAsset \in [Accounts -> Assets \cup {NoOne}]
  /\ operators \in [Accounts -> SUBSET Users]
  /\ cash \in [Accounts -> 0..MaxCash]
  /\ balances \in [Accounts -> [Series -> -MaxQty..MaxQty]]
  /\ seriesList \in [Accounts -> Seq(Series)]
  /\ seriesIndex \in [Accounts -> [Series -> Nat]]
  /\ bucketList \in [Accounts -> Seq(Underlyings)]
  /\ buckets \in [Accounts -> [Underlyings -> [seriesCount : Nat, index : Nat]]]
  /\ groupSeriesCount \in [Accounts -> [Groups -> Nat]]
  /\ participants \in [Groups -> Nat]
  /\ totals \in [Series -> [internalLong : Nat, internalShort : Nat]]
  /\ productShortNotional \in [Products -> Nat]
  /\ limits \in Nat \X Nat
  /\ minPositionQty \in 1..InitMinQty

\* An array with its 1-based index map is exactly the set it stands for:
\* members sit where their index says, and nothing else is in the array.
Indexes(list, index, members) ==
  /\ Len(list) = Cardinality(members)
  /\ \A x \in DOMAIN index :
       IF x \in members THEN index[x] \in 1..Len(list) /\ list[index[x]] = x
                        ELSE index[x] = 0

BucketsHeld(a) == {Info[s].underlying : s \in Held(balances, a)}

\* The series array and the bucket array of every account, kept by push and
\* swap-and-pop, are exactly the series with a balance and their underlyings,
\* and each bucket counts its series: what the margin and liquidation loops
\* iterate over is all the account has (INV-43; applyDelta).
ListsExact ==
  \A a \in Accounts :
    /\ Indexes(seriesList[a], seriesIndex[a], Held(balances, a))
    /\ Indexes(bucketList[a], [u \in Underlyings |-> buckets[a][u].index],
               BucketsHeld(a))
    /\ \A u \in Underlyings :
         buckets[a][u].seriesCount =
           Cardinality({s \in Held(balances, a) : Info[s].underlying = u})

\* Every balance stays a multiple of the current minimum quantity, also across
\* a change of the minimum (INV-6; applyDelta, setMinPositionQty).
BalancesOnGrid ==
  \A a \in Accounts, s \in Series : OnGrid(balances[a][s], minPositionQty)

\* An account only ever holds series of its own settlement asset, so its cash
\* can pay for everything it owes (INV-5; createSubAccount, applyDelta).
AssetsMatch ==
  \A a \in Accounts : \A s \in Held(balances, a) :
    Exists(a) /\ Info[s].asset = settlementAsset[a]

\* What the margin rules take for granted of every balance: it is of the record's
\* type and width, on the grid, and in the account's own asset.
LedgerSound == TypeOK /\ BalancesOnGrid /\ AssetsMatch

\* The incremental ledger implements the abstract one: totals (INV-2),
\* participant counters (INV-27) and short exposure are those of the balances.
LedgerSpec ==
  INSTANCE Ledger WITH
    cash                 <- cash,
    balances             <- balances,
    totals               <- totals,
    groupSeriesCount     <- groupSeriesCount,
    participants         <- participants,
    productShortNotional <- productShortNotional

ImplementsLedger == LedgerSpec!Spec

=============================================================================
