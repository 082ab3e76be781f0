---------------------------- MODULE LedgerProofs ----------------------------
(***************************************************************************)
(* The ledger for any number of accounts and series: the arrays it keeps   *)
(* by push and swap-and-pop, the counters it keeps by adding and taking    *)
(* away, and the balances they stand for are at every moment the same.     *)
(***************************************************************************)
EXTENDS SubAccounts, SumsProofs, SequenceTheorems

-----------------------------------------------------------------------------
(* Arrays with their index maps *)

\* An array and its index map are each other's inverse on the members: what
\* Indexes says, and that every element of the array is a member in its place.
Arranged(list, index, members) ==
  /\ Indexes(list, index, members)
  /\ \A i \in 1..Len(list) : list[i] \in members /\ index[list[i]] = i

\* A push arranges one member more.
LEMMA Push ==
  ASSUME NEW D, NEW index \in [D -> Nat], NEW list \in Seq(D),
         NEW members \in SUBSET D, IsFiniteSet(members),
         NEW x \in D, x \notin members,
         Arranged(list, index, members)
  PROVE  Arranged(Append(list, x), [index EXCEPT ![x] = Len(list) + 1], members \cup {x})
<1> DEFINE long == Append(list, x)
           moved == [index EXCEPT ![x] = Len(list) + 1]
<1>1. /\ Len(list) \in Nat /\ long \in Seq(D)
      /\ Len(long) = Len(list) + 1 /\ long[Len(list) + 1] = x
      /\ \A i \in 1..Len(list) : long[i] = list[i]
  OBVIOUS
<1>2. /\ DOMAIN moved = D /\ moved[x] = Len(list) + 1
      /\ \A y \in D \ {x} : moved[y] = index[y]
  OBVIOUS
<1>3. Cardinality(members \cup {x}) = Len(list) + 1
  BY FS_AddElement DEF Arranged, Indexes
<1> HIDE DEF long, moved
<1>4. \A y \in D : IF y \in members THEN index[y] \in 1..Len(list) /\ list[index[y]] = y
                                    ELSE index[y] = 0
  BY DEF Arranged, Indexes
<1>5. ASSUME NEW y \in D
      PROVE  IF y \in members \cup {x} THEN moved[y] \in 1..Len(long) /\ long[moved[y]] = y
                                       ELSE moved[y] = 0
  BY <1>1, <1>2, <1>4
<1>6. ASSUME NEW i \in 1..Len(long)
      PROVE  long[i] \in members \cup {x} /\ moved[long[i]] = i
  <2>1. CASE i = Len(list) + 1
    BY <2>1, <1>1, <1>2
  <2>2. CASE i \in 1..Len(list)
    <3>1. list[i] \in members /\ index[list[i]] = i
      BY <2>2 DEF Arranged
    <3> QED BY <3>1, <2>2, <1>1, <1>2
  <2> QED BY <2>1, <2>2, <1>1
<1>7. Arranged(long, moved, members \cup {x})
  BY <1>1, <1>2, <1>3, <1>5, <1>6 DEF Arranged, Indexes
<1> QED
  BY <1>7 DEF long, moved

\* Swap-and-pop with the two writes to the index map, the moved element's
\* first, arranges one member less.
LEMMA Pop ==
  ASSUME NEW D, NEW index \in [D -> Nat], NEW list \in Seq(D),
         NEW members \in SUBSET D, IsFiniteSet(members),
         NEW x \in members,
         Arranged(list, index, members)
  PROVE  /\ SwapAndPop(list, index[x]) \in Seq(D)
         /\ Arranged(SwapAndPop(list, index[x]),
                     [index EXCEPT ![list[Len(list)]] = index[x], ![x] = 0],
                     members \ {x})
<1> DEFINE last == list[Len(list)]
           swapped == [list EXCEPT ![index[x]] = last]
           short == SwapAndPop(list, index[x])
           moved == [index EXCEPT ![last] = index[x], ![x] = 0]
<1>1. \A y \in D : IF y \in members THEN index[y] \in 1..Len(list) /\ list[index[y]] = y
                                    ELSE index[y] = 0
  BY DEF Arranged, Indexes
<1>2. \A i \in 1..Len(list) : list[i] \in members /\ index[list[i]] = i
  BY DEF Arranged
<1>3. /\ Len(list) \in Nat \ {0} /\ index[x] \in 1..Len(list) /\ x \in D
      /\ last \in members /\ last \in D /\ index[last] = Len(list)
      /\ Len(list) = Cardinality(members)
  BY <1>1, <1>2 DEF Indexes, Arranged
<1>4. /\ \A i \in 1..Len(list) : swapped[i] = IF i = index[x] THEN last ELSE list[i]
      /\ \A i \in 1..Len(list) : swapped[i] \in D
  BY <1>2, <1>3
<1>5. short = SubSeq(swapped, 1, Len(list) - 1)
  BY DEF SwapAndPop
<1> HIDE DEF swapped, short, last
<1>6. /\ short \in Seq(D) /\ Len(short) = Len(list) - 1
      /\ \A i \in 1..(Len(list) - 1) : short[i] = IF i = index[x] THEN last ELSE list[i]
  <2>1. \A i \in 1..(Len(list) - 1) : swapped[i] \in D
    BY <1>4, <1>3
  <2>2. /\ short \in Seq(D)
        /\ Len(short) = IF 1 <= Len(list) - 1 THEN Len(list) - 1 - 1 + 1 ELSE 0
        /\ \A i \in 1..(Len(list) - 1 - 1 + 1) : short[i] = swapped[1 + i - 1]
    BY <2>1, <1>3, <1>5, SubSeqProperties
  <2>3. Len(short) = Len(list) - 1
    BY <2>2, <1>3
  <2>4. \A i \in 1..(Len(list) - 1) : short[i] = swapped[i]
    BY <2>2, <1>3
  <2> QED BY <2>2, <2>3, <2>4, <1>3, <1>4
<1>7. /\ DOMAIN moved = D /\ moved[x] = 0
      /\ last # x => moved[last] = index[x]
      /\ \A y \in D \ {x, last} : moved[y] = index[y]
  BY <1>3
<1> HIDE DEF moved
<1>8. Cardinality(members \ {x}) = Len(short)
  BY <1>3, <1>6, FS_RemoveElement
<1>9. ASSUME NEW y \in D
      PROVE  IF y \in members \ {x} THEN moved[y] \in 1..Len(short) /\ short[moved[y]] = y
                                    ELSE moved[y] = 0
  <2>1. CASE y = x
    BY <2>1, <1>7
  <2>2. CASE y \notin members
    BY <2>2, <1>1, <1>3, <1>7
  <2>3. CASE y \in members /\ y # x /\ y = last
    <3>1. index[x] # Len(list)
      BY <2>3, <1>1, <1>3
    <3>2. index[x] \in 1..(Len(list) - 1)
      BY <3>1, <1>3
    <3> QED BY <3>2, <2>3, <1>6, <1>7
  <2>4. CASE y \in members /\ y # x /\ y # last
    <3>1. index[y] \in 1..Len(list) /\ list[index[y]] = y /\ list[index[x]] = x
      BY <2>4, <1>1, <1>3
    <3>2. index[y] # Len(list) /\ index[y] # index[x]
      BY <3>1, <2>4 DEF last
    <3>3. index[y] \in 1..(Len(list) - 1)
      BY <3>1, <3>2, <1>3
    <3> QED BY <3>1, <3>2, <3>3, <2>4, <1>6, <1>7
  <2> QED BY <2>1, <2>2, <2>3, <2>4
<1>10. ASSUME NEW i \in 1..Len(short)
       PROVE  short[i] \in members \ {x} /\ moved[short[i]] = i
  <2>1. i \in 1..(Len(list) - 1) /\ i \in 1..Len(list) /\ i # Len(list)
    BY <1>3, <1>6
  <2>2. CASE i = index[x]
    <3>1. last # x
      BY <2>1, <2>2, <1>3
    <3> QED BY <3>1, <2>1, <2>2, <1>3, <1>6, <1>7
  <2>3. CASE i # index[x]
    <3>1. short[i] = list[i] /\ list[i] \in members /\ index[list[i]] = i
      BY <2>1, <2>3, <1>2, <1>6
    <3>2. list[i] # x /\ list[i] # last
      BY <3>1, <2>1, <2>3, <1>3
    <3> QED BY <3>1, <3>2, <1>7
  <2> QED BY <2>2, <2>3
<1>11. Arranged(short, moved, members \ {x})
  BY <1>7, <1>8, <1>9, <1>10 DEF Arranged, Indexes
<1> QED
  BY <1>6, <1>11 DEF short, moved, last

-----------------------------------------------------------------------------
(* The inductive invariant *)

\* Accounts get their ids in order, so a new account finds its place empty.
Numbered == \A a \in Accounts : Exists(a) <=> a <= accountCount

\* The series of account a on underlying u, and the index map of its buckets.
HeldOn(a, u) == {s \in Held(balances, a) : Info[s].underlying = u}
BucketIndex(a) == [u \in Underlyings |-> buckets[a][u].index]

SeriesArranged ==
  \A a \in Accounts : Arranged(seriesList[a], seriesIndex[a], Held(balances, a))

BucketsArranged ==
  \A a \in Accounts :
    /\ Arranged(bucketList[a], BucketIndex(a), BucketsHeld(a))
    /\ \A u \in Underlyings : buckets[a][u].seriesCount = Cardinality(HeldOn(a, u))

TotalsPublished ==
  \A s \in Series : totals[s] = [internalLong  |-> LongsOf(balances, s),
                                 internalShort |-> ShortsOf(balances, s)]

ShortsPublished ==
  \A p \in Products : productShortNotional[p] = ShortNotionalOf(balances, p)

CountsPublished ==
  /\ \A a \in Accounts, g \in Groups : groupSeriesCount[a][g] = SeriesCountOf(balances, a, g)
  /\ \A g \in Groups : participants[g] = Cardinality(Participants(balances, g))

LInv ==
  /\ TypeOK /\ BalancesOnGrid /\ AssetsMatch /\ Numbered
  /\ SeriesArranged /\ BucketsArranged
  /\ TotalsPublished /\ ShortsPublished /\ CountsPublished

-----------------------------------------------------------------------------
(* What one call of applyDelta does to the table *)

LEMMA HeldFinite ==
  ASSUME NEW b, NEW a \in Accounts
  PROVE  IsFiniteSet(Held(b, a)) /\ Held(b, a) \subseteq Series
<1>1. Held(b, a) \in SUBSET Series /\ IsFiniteSet(Series)
  BY BookAssumption DEF Held
<1> QED BY <1>1, FS_Subset

\* Only the balance of a in s moves.
LEMMA Moves ==
  ASSUME TypeOK, NEW a \in Accounts, NEW s \in Series, NEW delta \in Int,
         ApplyDelta(a, s, delta)
  PROVE  /\ balances' \in [Accounts -> [Series -> -MaxQty..MaxQty]]
         /\ \A c \in Accounts \ {a} : balances'[c] = balances[c]
         /\ \A t \in Series \ {s} : balances'[a][t] = balances[a][t]
         /\ balances'[a][s] = balances[a][s] + delta
         /\ balances[a][s] \in Int /\ balances'[a][s] \in Int
         /\ balances'[a][s] # balances[a][s]
<1> DEFINE balance == balances[a][s] + delta
<1>1. /\ balance \in -MaxQty..MaxQty /\ delta # 0
      /\ balances' = [balances EXCEPT ![a][s] = balance]
  BY DEF ApplyDelta
<1>2. balances \in [Accounts -> [Series -> -MaxQty..MaxQty]]
  BY DEF TypeOK
<1>3. MaxQty \in Int /\ balances[a][s] \in -MaxQty..MaxQty
  BY <1>2, SubAccountsAssumption
<1>4. balances'[a][s] = balance
  BY <1>1, <1>2
<1> QED
  BY <1>1, <1>2, <1>3, <1>4

\* The set of series an account holds gains s, loses s or stays.
LEMMA HeldMoves ==
  ASSUME TypeOK, NEW a \in Accounts, NEW s \in Series, NEW delta \in Int,
         ApplyDelta(a, s, delta)
  PROVE  /\ \A c \in Accounts \ {a} : Held(balances', c) = Held(balances, c)
         /\ balances[a][s] = 0 => /\ s \notin Held(balances, a)
                                  /\ Held(balances', a) = Held(balances, a) \cup {s}
         /\ balances[a][s] # 0 /\ balances'[a][s] = 0 =>
              /\ s \in Held(balances, a)
              /\ Held(balances', a) = Held(balances, a) \ {s}
         /\ balances[a][s] # 0 /\ balances'[a][s] # 0 =>
              Held(balances', a) = Held(balances, a)
BY Moves DEF Held

\* Which part of applyDelta runs.
LEMMA DeltaCases ==
  ASSUME TypeOK, NEW a \in Accounts, NEW s \in Series, NEW delta \in Int,
         ApplyDelta(a, s, delta)
  PROVE  \/ balances[a][s] = 0 /\ balances'[a][s] # 0 /\ OpenPosition(a, s)
         \/ balances[a][s] # 0 /\ balances'[a][s] = 0 /\ ClosePosition(a, s)
         \/ /\ balances[a][s] # 0 /\ balances'[a][s] # 0
            /\ UNCHANGED <<listVars, countVars>>
<1> DEFINE balance == balances[a][s] + delta
<1>1. \/ balances[a][s] = 0 /\ OpenPosition(a, s)
      \/ balances[a][s] # 0 /\ balance = 0 /\ ClosePosition(a, s)
      \/ balances[a][s] # 0 /\ balance # 0 /\ UNCHANGED <<listVars, countVars>>
  BY DEF ApplyDelta
<1> QED
  BY <1>1, Moves

-----------------------------------------------------------------------------
(* The arrays *)

\* The series array follows the series held.
LEMMA DeltaSeries ==
  ASSUME LInv, NEW a \in Accounts, NEW s \in Series, NEW delta \in Int,
         ApplyDelta(a, s, delta)
  PROVE  /\ SeriesArranged'
         /\ seriesList' \in [Accounts -> Seq(Series)]
         /\ seriesIndex' \in [Accounts -> [Series -> Nat]]
<1> DEFINE held == Held(balances, a)
<1>1. TypeOK
  BY DEF LInv
<1>2. /\ seriesList \in [Accounts -> Seq(Series)]
      /\ seriesIndex \in [Accounts -> [Series -> Nat]]
  BY <1>1 DEF TypeOK
<1>3. \A c \in Accounts : Arranged(seriesList[c], seriesIndex[c], Held(balances, c))
  BY DEF LInv, SeriesArranged
<1>4. held \in SUBSET Series /\ IsFiniteSet(held)
  BY HeldFinite
<1>5. SUFFICES /\ seriesList' \in [Accounts -> Seq(Series)]
               /\ seriesIndex' \in [Accounts -> [Series -> Nat]]
               /\ \A c \in Accounts : Arranged(seriesList'[c], seriesIndex'[c], Held(balances', c))
  BY DEF SeriesArranged
<1>6. CASE balances[a][s] = 0 /\ OpenPosition(a, s)
  <2>1. /\ seriesList' = [seriesList EXCEPT ![a] = Append(seriesList[a], s)]
        /\ seriesIndex' = [seriesIndex EXCEPT ![a][s] = Len(seriesList[a]) + 1]
    BY <1>6 DEF OpenPosition
  <2>2. s \notin held /\ Held(balances', a) = held \cup {s}
    BY <1>1, <1>6, HeldMoves
  <2>3. /\ seriesList'[a] = Append(seriesList[a], s)
        /\ seriesIndex'[a] = [seriesIndex[a] EXCEPT ![s] = Len(seriesList[a]) + 1]
        /\ \A c \in Accounts \ {a} : seriesList'[c] = seriesList[c] /\ seriesIndex'[c] = seriesIndex[c]
    BY <2>1, <1>2
  <2>4. Arranged(seriesList'[a], seriesIndex'[a], Held(balances', a))
    <3> HIDE DEF held
    <3>1. seriesIndex[a] \in [Series -> Nat] /\ seriesList[a] \in Seq(Series)
      BY <1>2
    <3>2. Arranged(seriesList[a], seriesIndex[a], held)
      BY <1>3 DEF held
    <3> QED BY <3>1, <3>2, <1>4, <2>2, <2>3, Push
  <2>5. seriesList' \in [Accounts -> Seq(Series)] /\ seriesIndex' \in [Accounts -> [Series -> Nat]]
    BY <2>1, <1>2
  <2> QED BY <2>3, <2>4, <2>5, <1>1, <1>3, HeldMoves
<1>7. CASE balances[a][s] # 0 /\ balances'[a][s] = 0 /\ ClosePosition(a, s)
  <2> DEFINE idx == seriesIndex[a][s]
             last == seriesList[a][Len(seriesList[a])]
  <2>1. /\ seriesList' = [seriesList EXCEPT ![a] = SwapAndPop(seriesList[a], idx)]
        /\ seriesIndex' = [seriesIndex EXCEPT ![a][last] = idx, ![a][s] = 0]
    BY <1>7 DEF ClosePosition
  <2>2. s \in held /\ Held(balances', a) = held \ {s}
    BY <1>1, <1>7, HeldMoves
  <2>3. /\ seriesList'[a] = SwapAndPop(seriesList[a], idx)
        /\ seriesIndex'[a] = [seriesIndex[a] EXCEPT ![last] = idx, ![s] = 0]
        /\ \A c \in Accounts \ {a} : seriesList'[c] = seriesList[c] /\ seriesIndex'[c] = seriesIndex[c]
    BY <2>1, <1>2
  <2>4. /\ Arranged(seriesList'[a], seriesIndex'[a], Held(balances', a))
        /\ seriesList'[a] \in Seq(Series)
    <3> DEFINE list == seriesList[a]
               index == seriesIndex[a]
    <3>1. index \in [Series -> Nat] /\ list \in Seq(Series)
      BY <1>2
    <3>2. Arranged(list, index, held)
      BY <1>3
    <3>3. /\ SwapAndPop(list, index[s]) \in Seq(Series)
          /\ Arranged(SwapAndPop(list, index[s]),
                      [index EXCEPT ![list[Len(list)]] = index[s], ![s] = 0], held \ {s})
      <4> HIDE DEF list, index, held
      <4> QED BY <3>1, <3>2, <1>4, <2>2, Pop
    <3> QED BY <3>3, <2>2, <2>3
  <2>5. seriesList' \in [Accounts -> Seq(Series)]
    BY <2>1, <2>3, <2>4, <1>2
  <2>6. seriesIndex' \in [Accounts -> [Series -> Nat]]
    BY <2>1, <1>2
  <2> QED BY <2>3, <2>4, <2>5, <2>6, <1>1, <1>3, HeldMoves
<1>8. CASE balances[a][s] # 0 /\ balances'[a][s] # 0 /\ UNCHANGED <<listVars, countVars>>
  <2>1. seriesList' = seriesList /\ seriesIndex' = seriesIndex
    BY <1>8 DEF listVars
  <2>2. \A c \in Accounts : Held(balances', c) = Held(balances, c)
    BY <1>1, <1>8, HeldMoves
  <2> QED BY <2>1, <2>2, <1>2, <1>3
<1> QED
  BY <1>1, <1>6, <1>7, <1>8, DeltaCases

\* How the series of an account on one underlying, and its underlyings, follow.
LEMMA BucketMoves ==
  ASSUME TypeOK, NEW a \in Accounts, NEW s \in Series, NEW delta \in Int,
         ApplyDelta(a, s, delta)
  PROVE  LET u == Info[s].underlying
         IN /\ u \in Underlyings
            /\ \A c \in Accounts \ {a} :
                 /\ BucketsHeld(c)' = BucketsHeld(c)
                 /\ \A v \in Underlyings : HeldOn(c, v)' = HeldOn(c, v)
            /\ \A v \in Underlyings \ {u} : HeldOn(a, v)' = HeldOn(a, v)
            /\ balances[a][s] = 0 =>
                 /\ s \notin HeldOn(a, u) /\ HeldOn(a, u)' = HeldOn(a, u) \cup {s}
                 /\ BucketsHeld(a)' = BucketsHeld(a) \cup {u}
            /\ balances[a][s] # 0 /\ balances'[a][s] = 0 =>
                 /\ s \in HeldOn(a, u) /\ HeldOn(a, u)' = HeldOn(a, u) \ {s}
                 /\ BucketsHeld(a)' = IF HeldOn(a, u) \ {s} = {} THEN BucketsHeld(a) \ {u}
                                                                ELSE BucketsHeld(a)
            /\ balances[a][s] # 0 /\ balances'[a][s] # 0 =>
                 /\ HeldOn(a, u)' = HeldOn(a, u)
                 /\ BucketsHeld(a)' = BucketsHeld(a)
<1> DEFINE u == Info[s].underlying
<1>1. u \in Underlyings
  BY DEF Underlyings
<1>2. ASSUME NEW c \in Accounts \ {a}
      PROVE  /\ BucketsHeld(c)' = BucketsHeld(c)
             /\ \A v \in Underlyings : HeldOn(c, v)' = HeldOn(c, v)
  BY HeldMoves DEF BucketsHeld, HeldOn
<1>3. CASE balances[a][s] = 0
  <2>1. s \notin Held(balances, a) /\ Held(balances', a) = Held(balances, a) \cup {s}
    BY <1>3, HeldMoves
  <2> QED BY <2>1, <1>1, <1>2, <1>3 DEF BucketsHeld, HeldOn
<1>4. CASE balances[a][s] # 0 /\ balances'[a][s] = 0
  <2>1. s \in Held(balances, a) /\ Held(balances', a) = Held(balances, a) \ {s}
    BY <1>4, HeldMoves
  <2>2. s \in HeldOn(a, u) /\ HeldOn(a, u)' = HeldOn(a, u) \ {s}
    BY <2>1 DEF HeldOn
  <2>3. \A v \in Underlyings \ {u} : HeldOn(a, v)' = HeldOn(a, v)
    BY <2>1 DEF HeldOn
  <2>4. BucketsHeld(a)' = IF HeldOn(a, u) \ {s} = {} THEN BucketsHeld(a) \ {u}
                                                    ELSE BucketsHeld(a)
    BY <2>1 DEF BucketsHeld, HeldOn
  <2> QED BY <2>2, <2>3, <2>4, <1>1, <1>2, <1>4
<1>5. CASE balances[a][s] # 0 /\ balances'[a][s] # 0
  <2>1. Held(balances', a) = Held(balances, a)
    BY <1>5, HeldMoves
  <2> QED BY <2>1, <1>1, <1>2, <1>5 DEF BucketsHeld, HeldOn
<1> QED
  BY <1>3, <1>4, <1>5

LEMMA OnFinite ==
  ASSUME NEW a \in Accounts
  PROVE  /\ IsFiniteSet(BucketsHeld(a)) /\ BucketsHeld(a) \subseteq Underlyings
         /\ \A u \in Underlyings : IsFiniteSet(HeldOn(a, u))
<1>1. IsFiniteSet(Held(balances, a)) /\ Held(balances, a) \subseteq Series
  BY HeldFinite
<1>2. \A u \in Underlyings : HeldOn(a, u) \in SUBSET Held(balances, a)
  BY DEF HeldOn
<1>3. [t \in Held(balances, a) |-> Info[t].underlying] \in Surjection(Held(balances, a), BucketsHeld(a))
  BY DEF Surjection, BucketsHeld
<1> QED
  BY <1>1, <1>2, <1>3, FS_Subset, FS_Surjection DEF BucketsHeld, Underlyings

\* The buckets of one account, with b for its buckets and list for their array,
\* as BucketsArranged has them.
LEMMA DeltaBuckets ==
  ASSUME LInv, NEW a \in Accounts, NEW s \in Series, NEW delta \in Int,
         ApplyDelta(a, s, delta)
  PROVE  /\ BucketsArranged'
         /\ bucketList' \in [Accounts -> Seq(Underlyings)]
         /\ buckets' \in [Accounts -> [Underlyings -> [seriesCount : Nat, index : Nat]]]
<1> DEFINE u == Info[s].underlying
           Entry == [seriesCount : Nat, index : Nat]
           Kept(c) == /\ Arranged(bucketList[c], BucketIndex(c), BucketsHeld(c))
                      /\ \A v \in Underlyings : buckets[c][v].seriesCount = Cardinality(HeldOn(c, v))
           list == bucketList[a]
           index == BucketIndex(a)
           members == BucketsHeld(a)
<1>1. TypeOK
  BY DEF LInv
<1>2. /\ bucketList \in [Accounts -> Seq(Underlyings)]
      /\ buckets \in [Accounts -> [Underlyings -> Entry]]
  BY <1>1 DEF TypeOK
<1>3. \A c \in Accounts : Kept(c)
  BY DEF LInv, BucketsArranged
<1>4. /\ u \in Underlyings
      /\ \A v \in Underlyings \ {u} : HeldOn(a, v)' = HeldOn(a, v)
  BY <1>1, BucketMoves
<1>5. \A c \in Accounts : IsFiniteSet(BucketsHeld(c)) /\ BucketsHeld(c) \subseteq Underlyings
  BY OnFinite
<1>6. /\ index \in [Underlyings -> Nat] /\ list \in Seq(Underlyings)
      /\ members \in SUBSET Underlyings /\ IsFiniteSet(members)
      /\ Arranged(list, index, members)
  BY <1>2, <1>3, <1>5 DEF BucketIndex
<1>7. /\ IsFiniteSet(HeldOn(a, u)) /\ buckets[a][u].seriesCount = Cardinality(HeldOn(a, u))
      /\ buckets[a][u] \in Entry /\ buckets[a] \in [Underlyings -> Entry]
  BY <1>2, <1>3, <1>4, OnFinite
<1>8. ASSUME bucketList' \in [Accounts -> Seq(Underlyings)],
             buckets' \in [Accounts -> [Underlyings -> Entry]],
             \A c \in Accounts \ {a} : bucketList'[c] = bucketList[c] /\ buckets'[c] = buckets[c],
             Kept(a)'
      PROVE  BucketsArranged'
  <2>1. ASSUME NEW c \in Accounts \ {a} PROVE Kept(c)'
    <3>1. BucketsHeld(c)' = BucketsHeld(c) /\ \A v \in Underlyings : HeldOn(c, v)' = HeldOn(c, v)
      BY <1>1, BucketMoves
    <3>2. BucketIndex(c)' = BucketIndex(c)
      BY <1>8 DEF BucketIndex
    <3> QED BY <3>1, <3>2, <1>3, <1>8
  <2> QED BY <2>1, <1>8 DEF BucketsArranged
<1>9. CASE balances[a][s] = 0 /\ OpenPosition(a, s)
  <2> DEFINE new == buckets[a][u].seriesCount = 0
             place == IF new THEN Len(list) + 1 ELSE buckets[a][u].index
  <2>1. /\ s \notin HeldOn(a, u) /\ HeldOn(a, u)' = HeldOn(a, u) \cup {s}
        /\ members' = members \cup {u}
    BY <1>1, <1>9, BucketMoves
  <2>2. new <=> u \notin members
    <3>1. new <=> HeldOn(a, u) = {}
      BY <1>7, FS_EmptySet
    <3> QED BY <3>1 DEF HeldOn, BucketsHeld
  <2>3. bucketList' = [bucketList EXCEPT ![a] = IF new THEN Append(list, u) ELSE list]
    BY <1>9 DEF OpenPosition
  <2>4. buckets' = [buckets EXCEPT ![a][u].seriesCount = @ + 1, ![a][u].index = place]
    BY <1>9 DEF OpenPosition
  <2>5. place \in Nat
    BY <1>6, <1>7
  <2>6. /\ bucketList' \in [Accounts -> Seq(Underlyings)]
        /\ list' = IF new THEN Append(list, u) ELSE list
        /\ \A c \in Accounts \ {a} : bucketList'[c] = bucketList[c]
    BY <2>3, <1>2, <1>4
  <2>7. /\ buckets' \in [Accounts -> [Underlyings -> Entry]]
        /\ buckets'[a][u].seriesCount = buckets[a][u].seriesCount + 1
        /\ buckets'[a][u].index = place
        /\ \A v \in Underlyings \ {u} : buckets'[a][v] = buckets[a][v]
        /\ \A c \in Accounts \ {a} : buckets'[c] = buckets[c]
    <3> DEFINE mid == [buckets EXCEPT ![a][u].seriesCount = @ + 1]
    <3>1. buckets' = [mid EXCEPT ![a][u].index = place]
      BY <2>4
    <3> HIDE DEF place, u
    <3>2. /\ mid \in [Accounts -> [Underlyings -> Entry]]
          /\ mid[a][u].seriesCount = buckets[a][u].seriesCount + 1
          /\ \A v \in Underlyings \ {u} : mid[a][v] = buckets[a][v]
          /\ \A c \in Accounts \ {a} : mid[c] = buckets[c]
      <4>1. mid = [buckets EXCEPT ![a] = [buckets[a] EXCEPT
                      ![u] = [buckets[a][u] EXCEPT !.seriesCount = buckets[a][u].seriesCount + 1]]]
        OBVIOUS
      <4> DEFINE e == [buckets[a][u] EXCEPT !.seriesCount = buckets[a][u].seriesCount + 1]
      <4>2. e \in Entry /\ e.seriesCount = buckets[a][u].seriesCount + 1
        BY <1>7
      <4> HIDE DEF mid, Entry, e
      <4> QED BY <4>1, <4>2, <1>2, <1>4 DEF e
    <3> HIDE DEF mid
    <3> QED BY <3>1, <3>2, <2>5, <1>4
  <2>13. index' = IF new THEN [index EXCEPT ![u] = Len(list) + 1] ELSE index
    <3>1. index' = [v \in Underlyings |-> IF v = u THEN place ELSE index[v]]
      BY <2>7, <1>4 DEF BucketIndex
    <3>2. index = [v \in Underlyings |-> index[v]] /\ index[u] = buckets[a][u].index
      BY <1>4 DEF BucketIndex
    <3> HIDE DEF index, u
    <3> QED BY <3>1, <3>2, <1>4
  <2>8. Arranged(list', index', members')
    <3>1. CASE new
      <4>1. Arranged(Append(list, u), [index EXCEPT ![u] = Len(list) + 1], members \cup {u})
        <5> HIDE DEF list, index, members, u
        <5> QED BY <1>4, <1>6, <2>2, <3>1, Push
      <4> QED BY <4>1, <3>1, <2>1, <2>6, <2>13
    <3>2. CASE ~new
      <4>1. members \cup {u} = members
        BY <3>2, <2>2
      <4> QED BY <4>1, <3>2, <1>6, <2>1, <2>6, <2>13
    <3> QED BY <3>1, <3>2
  <2>9. \A v \in Underlyings : buckets'[a][v].seriesCount = Cardinality(HeldOn(a, v)')
    <3>1. Cardinality(HeldOn(a, u) \cup {s}) = Cardinality(HeldOn(a, u)) + 1
      BY <1>7, <2>1, FS_AddElement
    <3>2. buckets'[a][u].seriesCount = Cardinality(HeldOn(a, u)')
      BY <3>1, <2>1, <2>7, <1>4, <1>7
    <3>3. \A v \in Underlyings \ {u} : buckets'[a][v] = buckets[a][v]
      BY <2>7
    <3> QED BY <3>2, <3>3, <1>3, <1>4
  <2> QED BY <2>6, <2>7, <2>8, <2>9, <1>8
<1>10. CASE balances[a][s] # 0 /\ balances'[a][s] = 0 /\ ClosePosition(a, s)
  <2> DEFINE emptied == buckets[a][u].seriesCount = 1
             lastU == list[Len(list)]
  <2>1. /\ s \in HeldOn(a, u) /\ HeldOn(a, u)' = HeldOn(a, u) \ {s}
        /\ members' = IF HeldOn(a, u) \ {s} = {} THEN members \ {u} ELSE members
    BY <1>1, <1>10, BucketMoves
  <2>2. /\ IsFiniteSet(HeldOn(a, u) \ {s})
        /\ Cardinality(HeldOn(a, u) \ {s}) = buckets[a][u].seriesCount - 1
        /\ buckets[a][u].seriesCount - 1 \in Nat
    <3> DEFINE H == HeldOn(a, u)
    <3>1. IsFiniteSet(H) /\ s \in H /\ buckets[a][u].seriesCount = Cardinality(H)
      BY <1>7, <2>1
    <3> HIDE DEF H
    <3>2. IsFiniteSet(H \ {s}) /\ Cardinality(H \ {s}) = Cardinality(H) - 1
      BY <3>1, FS_RemoveElement
    <3>3. Cardinality(H \ {s}) \in Nat
      BY <3>2, FS_CardinalityType
    <3> QED BY <3>1, <3>2, <3>3 DEF H
  <2>3. emptied <=> HeldOn(a, u) \ {s} = {}
    BY <2>2, <1>7, FS_EmptySet
  <2>4. u \in members
    BY <2>1 DEF HeldOn, BucketsHeld
  <2>5. /\ bucketList' = [bucketList EXCEPT
                            ![a] = IF emptied THEN SwapAndPop(@, buckets[a][u].index) ELSE @]
        /\ buckets' = [buckets EXCEPT
                         ![a] = IF emptied THEN CloseBucket(a, u)
                                ELSE [buckets[a] EXCEPT ![u].seriesCount = @ - 1]]
    BY <1>10 DEF ClosePosition
  <2>6. buckets[a][u].index = index[u]
    BY <1>4 DEF BucketIndex
  <2>7. ASSUME emptied
        PROVE  /\ bucketList' \in [Accounts -> Seq(Underlyings)]
               /\ buckets' \in [Accounts -> [Underlyings -> Entry]]
               /\ Kept(a)'
    <3>1. /\ SwapAndPop(list, index[u]) \in Seq(Underlyings)
          /\ Arranged(SwapAndPop(list, index[u]),
                      [index EXCEPT ![list[Len(list)]] = index[u], ![u] = 0], members \ {u})
      <4> HIDE DEF list, index, members, u
      <4> QED BY <1>6, <2>4, Pop
    <3>2. list' = SwapAndPop(list, index[u]) /\ buckets'[a] = CloseBucket(a, u)
      BY <2>5, <2>6, <2>7, <1>2
    <3>3. members' = members \ {u}
      BY <2>1, <2>3, <2>7
    <3>4. lastU \in Underlyings
      <4>1. Len(list) \in 1..Len(list)
        BY <1>6, <2>4 DEF Arranged, Indexes
      <4> QED BY <4>1, <1>6
    <3>5. CloseBucket(a, u) =
            [buckets[a] EXCEPT ![lastU].index = index[u],
                               ![u] = [seriesCount |-> 0, index |-> 0]]
      BY <2>6 DEF CloseBucket
    <3> DEFINE after == [buckets[a] EXCEPT ![lastU].index = index[u],
                                           ![u] = [seriesCount |-> 0, index |-> 0]]
    <3>6. /\ after[u] = [seriesCount |-> 0, index |-> 0]
          /\ lastU # u => after[lastU] = [seriesCount |-> buckets[a][lastU].seriesCount, index |-> index[u]]
          /\ \A v \in Underlyings \ {u, lastU} : after[v] = buckets[a][v]
      BY <1>4, <1>7, <3>4
    <3>7. after \in [Underlyings -> Entry]
      <4>1. index[u] \in Nat
        BY <1>4, <1>6
      <4> HIDE DEF index
      <4> QED BY <4>1, <1>7, <3>4
    <3>8. index' = [index EXCEPT ![lastU] = index[u], ![u] = 0]
      <4>1. \A v \in Underlyings : after[v].index = IF v = u THEN 0 ELSE IF v = lastU THEN index[u] ELSE buckets[a][v].index
        BY <3>6
      <4>2. index' = [v \in Underlyings |-> after[v].index]
        BY <3>2, <3>5 DEF BucketIndex
      <4>3. index' = [v \in Underlyings |-> IF v = u THEN 0 ELSE IF v = lastU THEN index[u] ELSE index[v]]
        BY <4>1, <4>2 DEF BucketIndex
      <4>4. DOMAIN index = Underlyings
        BY <1>6
      <4> HIDE DEF index, lastU, u, after
      <4> QED BY <4>3, <4>4, <3>4
    <3>9. \A v \in Underlyings : after[v].seriesCount = Cardinality(HeldOn(a, v)')
      <4>1. Cardinality(HeldOn(a, u)') = 0
        BY <2>1, <2>2, <2>7, <1>7
      <4>2. \A v \in Underlyings \ {u} : after[v].seriesCount = buckets[a][v].seriesCount
        BY <3>6
      <4> HIDE DEF after
      <4>3. after[u].seriesCount = 0
        BY <3>6
      <4> QED BY <4>1, <4>2, <4>3, <1>3, <1>4
    <3>10. Kept(a)'
      BY <3>1, <3>2, <3>3, <3>5, <3>8, <3>9
    <3> QED BY <3>1, <3>2, <3>5, <3>7, <3>10, <2>5, <2>6, <2>7, <1>2
  <2>8. ASSUME ~emptied
        PROVE  /\ bucketList' \in [Accounts -> Seq(Underlyings)]
               /\ buckets' \in [Accounts -> [Underlyings -> Entry]]
               /\ Kept(a)'
    <3> DEFINE e == [buckets[a][u] EXCEPT !.seriesCount = buckets[a][u].seriesCount - 1]
    <3>1. e \in Entry /\ e.seriesCount = buckets[a][u].seriesCount - 1 /\ e.index = buckets[a][u].index
      BY <2>2, <1>7
    <3>2. bucketList' = bucketList
      BY <2>5, <2>8, <1>2
    <3>11. buckets' = [buckets EXCEPT ![a] = [buckets[a] EXCEPT ![u] = e]]
      BY <2>5, <2>8
    <3>3. /\ buckets' \in [Accounts -> [Underlyings -> Entry]]
          /\ buckets'[a][u].seriesCount = buckets[a][u].seriesCount - 1
          /\ buckets'[a][u].index = buckets[a][u].index
          /\ \A v \in Underlyings \ {u} : buckets'[a][v] = buckets[a][v]
      <4> HIDE DEF e, u, Entry
      <4> QED BY <3>1, <3>11, <1>2, <1>4
    <3>4. index' = index
      BY <3>3, <1>4, <1>7 DEF BucketIndex
    <3>5. members' = members
      BY <2>1, <2>3, <2>8
    <3>6. \A v \in Underlyings : buckets'[a][v].seriesCount = Cardinality(HeldOn(a, v)')
      <4>1. buckets'[a][u].seriesCount = Cardinality(HeldOn(a, u)')
        BY <3>3, <2>1, <2>2, <1>4, <1>7
      <4>2. \A v \in Underlyings \ {u} : buckets'[a][v] = buckets[a][v]
        BY <3>3
      <4> QED BY <4>1, <4>2, <1>3, <1>4
    <3> QED BY <3>2, <3>3, <3>4, <3>5, <3>6, <1>2, <1>6
  <2>9. \A c \in Accounts \ {a} : bucketList'[c] = bucketList[c] /\ buckets'[c] = buckets[c]
    BY <2>5, <1>2
  <2> QED BY <2>7, <2>8, <2>9, <1>8
<1>11. CASE balances[a][s] # 0 /\ balances'[a][s] # 0 /\ UNCHANGED <<listVars, countVars>>
  <2>1. bucketList' = bucketList /\ buckets' = buckets
    BY <1>11 DEF listVars
  <2>2. HeldOn(a, u)' = HeldOn(a, u) /\ members' = members
    BY <1>1, <1>11, BucketMoves
  <2>3. Kept(a)'
    <3>1. index' = index
      BY <2>1 DEF BucketIndex
    <3> QED BY <3>1, <2>1, <2>2, <1>3, <1>4
  <2> QED BY <2>1, <2>3, <1>2, <1>8
<1> QED
  BY <1>1, <1>9, <1>10, <1>11, DeltaCases

-----------------------------------------------------------------------------
(* The published numbers *)

\* Quantities of one side are natural numbers.
LEMMA Sides ==
  /\ \A n \in Int : Pos(n) \in Nat /\ Neg(n) \in Nat
  /\ Pos(0) = 0 /\ Neg(0) = 0
BY DEF Pos, Neg

\* The two sides of every series, for a table of balances.
LEMMA SidesType ==
  ASSUME NEW b, \A a \in Accounts, s \in Series : b[a][s] \in Int, NEW s \in Series
  PROVE  /\ LongsOf(b, s) \in Nat /\ ShortsOf(b, s) \in Nat
         /\ \A a \in Accounts : Pos(b[a][s]) \in Nat /\ Neg(b[a][s]) \in Nat
<1>1. \A a \in Accounts : Pos(b[a][s]) \in Nat /\ Neg(b[a][s]) \in Nat
  BY Sides
<1>2. /\ \A a \in Accounts : [c \in Accounts |-> Pos(b[c][s])][a] \in Nat
      /\ \A a \in Accounts : [c \in Accounts |-> Neg(b[c][s])][a] \in Nat
  BY <1>1
<1> QED
  BY <1>1, <1>2, TotalType, BookAssumption DEF LongsOf, ShortsOf

LEMMA BalancesInt ==
  ASSUME TypeOK
  PROVE  \A a \in Accounts, s \in Series : balances[a][s] \in Int
BY SubAccountsAssumption DEF TypeOK

\* One balance moves both sides of its series by what Retotal says.
LEMMA SidesMove ==
  ASSUME TypeOK, NEW a \in Accounts, NEW s \in Series, NEW delta \in Int,
         ApplyDelta(a, s, delta)
  PROVE  /\ LongsOf(balances', s) = LongsOf(balances, s) - Pos(balances[a][s]) + Pos(balances'[a][s])
         /\ ShortsOf(balances', s) = ShortsOf(balances, s) - Neg(balances[a][s]) + Neg(balances'[a][s])
         /\ \A t \in Series \ {s} : /\ LongsOf(balances', t) = LongsOf(balances, t)
                                    /\ ShortsOf(balances', t) = ShortsOf(balances, t)
<1> DEFINE longs  == [c \in Accounts |-> Pos(balances[c][s])]
           longs2 == [c \in Accounts |-> Pos(balances'[c][s])]
           shorts  == [c \in Accounts |-> Neg(balances[c][s])]
           shorts2 == [c \in Accounts |-> Neg(balances'[c][s])]
<1>1. /\ \A c \in Accounts : longs[c] \in Nat /\ longs2[c] \in Nat
      /\ \A c \in Accounts : shorts[c] \in Nat /\ shorts2[c] \in Nat
  <2>1. \A c \in Accounts : balances[c][s] \in Int /\ balances'[c][s] \in Int
    BY BalancesInt, Moves
  <2> QED BY <2>1, Sides
<1>2. /\ \A c \in Accounts \ {a} : longs[c] = longs2[c]
      /\ \A c \in Accounts \ {a} : shorts[c] = shorts2[c]
  BY Moves
<1>3. /\ longs[a] = Pos(balances[a][s]) /\ longs2[a] = Pos(balances'[a][s])
      /\ shorts[a] = Neg(balances[a][s]) /\ shorts2[a] = Neg(balances'[a][s])
  OBVIOUS
<1>4. /\ LongsOf(balances, s) = Total(Accounts, longs)
      /\ LongsOf(balances', s) = Total(Accounts, longs2)
      /\ ShortsOf(balances, s) = Total(Accounts, shorts)
      /\ ShortsOf(balances', s) = Total(Accounts, shorts2)
  BY DEF LongsOf, ShortsOf
<1>5. ASSUME NEW t \in Series \ {s}
      PROVE  /\ LongsOf(balances', t) = LongsOf(balances, t)
             /\ ShortsOf(balances', t) = ShortsOf(balances, t)
  <2>1. \A c \in Accounts : balances'[c][t] = balances[c][t]
    BY Moves
  <2>2. /\ [c \in Accounts |-> Pos(balances'[c][t])] = [c \in Accounts |-> Pos(balances[c][t])]
        /\ [c \in Accounts |-> Neg(balances'[c][t])] = [c \in Accounts |-> Neg(balances[c][t])]
    BY <2>1
  <2> QED BY <2>2 DEF LongsOf, ShortsOf
<1> HIDE DEF longs, longs2, shorts, shorts2
<1>6. Total(Accounts, longs2) = Total(Accounts, longs) - longs[a] + longs2[a]
  BY <1>1, <1>2, TotalUpdate, BookAssumption
<1>7. Total(Accounts, shorts2) = Total(Accounts, shorts) - shorts[a] + shorts2[a]
  BY <1>1, <1>2, TotalUpdate, BookAssumption
<1> QED
  BY <1>3, <1>4, <1>5, <1>6, <1>7

\* The totals stay those of the balances.
LEMMA DeltaTotals ==
  ASSUME LInv, NEW a \in Accounts, NEW s \in Series, NEW delta \in Int,
         ApplyDelta(a, s, delta)
  PROVE  /\ TotalsPublished'
         /\ totals' \in [Series -> [internalLong : Nat, internalShort : Nat]]
<1>1. TypeOK /\ TotalsPublished
  BY DEF LInv
<1>2. totals \in [Series -> [internalLong : Nat, internalShort : Nat]]
  BY <1>1 DEF TypeOK
<1>3. totals' = [totals EXCEPT ![s] = Retotal(totals[s], balances[a][s], balances[a][s] + delta)]
  BY DEF ApplyDelta
<1>4. /\ totals'[s] = Retotal(totals[s], balances[a][s], balances'[a][s])
      /\ \A t \in Series \ {s} : totals'[t] = totals[t]
  BY <1>1, <1>2, <1>3, Moves
<1>5. totals'[s] = [internalLong  |-> LongsOf(balances', s), internalShort |-> ShortsOf(balances', s)]
  <2>1. totals[s].internalLong = LongsOf(balances, s) /\ totals[s].internalShort = ShortsOf(balances, s)
    <3>1. totals[s] = [internalLong  |-> LongsOf(balances, s), internalShort |-> ShortsOf(balances, s)]
      BY <1>1 DEF TotalsPublished
    <3> QED BY <3>1
  <2>2. /\ LongsOf(balances', s) = LongsOf(balances, s) - Pos(balances[a][s]) + Pos(balances'[a][s])
        /\ ShortsOf(balances', s) = ShortsOf(balances, s) - Neg(balances[a][s]) + Neg(balances'[a][s])
    BY <1>1, SidesMove
  <2> QED BY <2>1, <2>2, <1>4 DEF Retotal
<1>6. \A t \in Series :
        totals'[t] = [internalLong  |-> LongsOf(balances', t), internalShort |-> ShortsOf(balances', t)]
  BY <1>1, <1>4, <1>5, SidesMove DEF TotalsPublished
<1>7. \A t \in Series : LongsOf(balances', t) \in Nat /\ ShortsOf(balances', t) \in Nat
  <2>1. \A c \in Accounts, t \in Series : balances'[c][t] \in Int
    BY <1>1, Moves, SubAccountsAssumption
  <2> QED BY <2>1, SidesType
<1>8. totals' = [t \in Series |-> totals'[t]]
  BY <1>2, <1>3
<1> QED
  BY <1>6, <1>7, <1>8 DEF TotalsPublished

\* The short exposure of every product stays that of the balances.
LEMMA DeltaShorts ==
  ASSUME LInv, NEW a \in Accounts, NEW s \in Series, NEW delta \in Int,
         ApplyDelta(a, s, delta)
  PROVE  /\ ShortsPublished'
         /\ productShortNotional' \in [Products -> Nat]
<1> DEFINE p == ProductOf(s)
           size == Info[s].size
           Of(q) == {t \in Series : ProductOf(t) = q}
           f == [t \in Series |-> ShortsOf(balances, t) * Info[t].size]
           g == [t \in Series |-> ShortsOf(balances', t) * Info[t].size]
<1>1. TypeOK /\ ShortsPublished
  BY DEF LInv
<1>2. productShortNotional \in [Products -> Nat]
  BY <1>1 DEF TypeOK
<1>3. productShortNotional' =
        [productShortNotional EXCEPT
           ![p] = @ - Neg(balances[a][s]) * size + Neg(balances[a][s] + delta) * size]
  BY DEF ApplyDelta
<1>4. \A t \in Series : Info[t].size \in Nat
  BY BookAssumption
<1>5. \A t \in Series : ShortsOf(balances, t) \in Nat /\ ShortsOf(balances', t) \in Nat
  <2>1. \A c \in Accounts, t \in Series : balances'[c][t] \in Int
    BY <1>1, Moves, SubAccountsAssumption
  <2> QED BY <2>1, <1>1, BalancesInt, SidesType
<1>6. \A t \in Series : f[t] \in Nat /\ g[t] \in Nat
  <2>1. \A x, y \in Nat : x * y \in Nat
    OBVIOUS
  <2> QED BY <2>1, <1>4, <1>5
<1>7. /\ \A t \in Series \ {s} : f[t] = g[t]
      /\ f[s] = ShortsOf(balances, s) * size /\ g[s] = ShortsOf(balances', s) * size
  BY <1>1, SidesMove
<1>8. \A q : IsFiniteSet(Of(q)) /\ Of(q) \subseteq Series
  BY BookAssumption, FS_Subset
<1>9. /\ p \in Products /\ s \in Of(p)
      /\ \A q \in Products : q # p => s \notin Of(q)
  BY DEF Products
<1>10. /\ \A q : ShortNotionalOf(balances, q) = Total(Of(q), f)
       /\ \A q : ShortNotionalOf(balances', q) = Total(Of(q), g)
  BY DEF ShortNotionalOf
<1> DEFINE old == Neg(balances[a][s])
           new == Neg(balances'[a][s])
<1>11. old \in Nat /\ new \in Nat /\ size \in Nat
  BY <1>1, <1>4, Moves, Sides
<1>12. g[s] = f[s] - old * size + new * size
  <2>1. ShortsOf(balances', s) = ShortsOf(balances, s) - old + new
    BY <1>1, SidesMove
  <2>2. \A x, y, z, n \in Int : (x - y + z) * n = x * n - y * n + z * n
    OBVIOUS
  <2> HIDE DEF f, g, old, new, size
  <2> QED BY <2>1, <2>2, <1>5, <1>7, <1>11
<1>13. productShortNotional'[p] = productShortNotional[p] - old * size + new * size
  BY <1>1, <1>2, <1>3, <1>9, Moves
<1>14. productShortNotional' = [q \in Products |-> productShortNotional'[q]]
       /\ \A q \in Products \ {p} : productShortNotional'[q] = productShortNotional[q]
  BY <1>2, <1>3
<1>15. \A q \in Products : productShortNotional[q] = Total(Of(q), f)
  BY <1>1, <1>10 DEF ShortsPublished
<1> HIDE DEF f, g, Of, p, size, old, new
<1>16. Total(Of(p), g) = Total(Of(p), f) - f[s] + g[s]
  BY <1>6, <1>7, <1>8, <1>9, TotalUpdate
<1>17. productShortNotional'[p] = Total(Of(p), g)
  <2>1. \A x, y \in Nat : x * y \in Nat
    OBVIOUS
  <2>2. old * size \in Nat /\ new * size \in Nat
    BY <2>1, <1>11
  <2>3. f[s] \in Nat /\ g[s] \in Nat /\ productShortNotional[p] = Total(Of(p), f)
        /\ productShortNotional[p] \in Nat
    BY <1>2, <1>6, <1>9, <1>15
  <2> QED BY <2>2, <2>3, <1>12, <1>13, <1>16
<1>18. \A q \in Products \ {p} : Total(Of(q), f) = Total(Of(q), g)
  BY <1>7, <1>8, <1>9, TotalCong
<1>19. \A q \in Products : productShortNotional'[q] = Total(Of(q), g)
  BY <1>14, <1>15, <1>17, <1>18
<1>20. \A q \in Products : Total(Of(q), g) \in Nat
  BY <1>6, <1>8, TotalType
<1> QED
  BY <1>10, <1>14, <1>19, <1>20 DEF ShortsPublished

\* The counters of an account's series in a group and of a group's participants
\* stay those of the balances.
LEMMA DeltaCounts ==
  ASSUME LInv, NEW a \in Accounts, NEW s \in Series, NEW delta \in Int,
         ApplyDelta(a, s, delta)
  PROVE  /\ CountsPublished'
         /\ groupSeriesCount' \in [Accounts -> [Groups -> Nat]]
         /\ participants' \in [Groups -> Nat]
<1> DEFINE g == Info[s].group
           In(b, c, h) == Held(b, c) \cap SeriesIn(h)
<1>1. TypeOK /\ CountsPublished
  BY DEF LInv
<1>2. /\ groupSeriesCount \in [Accounts -> [Groups -> Nat]]
      /\ participants \in [Groups -> Nat]
  BY <1>1 DEF TypeOK
<1>3. g \in Groups /\ s \in SeriesIn(g) /\ \A h \in Groups \ {g} : s \notin SeriesIn(h)
  BY DEF Groups, SeriesIn
<1>4. \A b, c, h : c \in Accounts => IsFiniteSet(In(b, c, h))
  <2> SUFFICES ASSUME NEW b, NEW c \in Accounts, NEW h PROVE IsFiniteSet(In(b, c, h))
    OBVIOUS
  <2> QED BY HeldFinite, FS_Intersection
<1>5. /\ \A c \in Accounts, h \in Groups : groupSeriesCount[c][h] = Cardinality(In(balances, c, h))
      /\ \A h \in Groups : participants[h] = Cardinality(Participants(balances, h))
  BY <1>1 DEF CountsPublished, SeriesCountOf
<1>6. \A b, h : /\ Participants(b, h) = {c \in Accounts : In(b, c, h) # {}}
                /\ IsFiniteSet(Participants(b, h))
  <2> SUFFICES ASSUME NEW b, NEW h
               PROVE  /\ Participants(b, h) = {c \in Accounts : In(b, c, h) # {}}
                      /\ IsFiniteSet(Participants(b, h))
    OBVIOUS
  <2>1. Participants(b, h) = {c \in Accounts : In(b, c, h) # {}}
    BY DEF Participants
  <2>2. Participants(b, h) \in SUBSET Accounts
    BY <2>1
  <2> QED BY <2>1, <2>2, BookAssumption, FS_Subset
<1>7. /\ \A c \in Accounts \ {a}, h \in Groups : In(balances', c, h) = In(balances, c, h)
      /\ \A h \in Groups \ {g} : In(balances', a, h) = In(balances, a, h)
  <2>1. \A c \in Accounts \ {a} : Held(balances', c) = Held(balances, c)
    BY <1>1, HeldMoves
  <2>2. \/ Held(balances', a) = Held(balances, a) \cup {s}
        \/ Held(balances', a) = Held(balances, a) \ {s}
        \/ Held(balances', a) = Held(balances, a)
    BY <1>1, HeldMoves, Moves
  <2> QED BY <2>1, <2>2, <1>3
<1>8. SUFFICES /\ groupSeriesCount' \in [Accounts -> [Groups -> Nat]]
               /\ participants' \in [Groups -> Nat]
               /\ \A c \in Accounts, h \in Groups : groupSeriesCount'[c][h] = Cardinality(In(balances', c, h))
               /\ \A h \in Groups : participants'[h] = Cardinality(Participants(balances', h))
  BY DEF CountsPublished, SeriesCountOf
<1>9. \A h \in Groups \ {g} : Participants(balances', h) = Participants(balances, h)
  BY <1>6, <1>7
<1>10. ASSUME balances[a][s] = 0, OpenPosition(a, s)
       PROVE  /\ groupSeriesCount' = [groupSeriesCount EXCEPT ![a][g] = @ + 1]
              /\ participants' = [participants EXCEPT ![g] = IF groupSeriesCount[a][g] = 0 THEN @ + 1 ELSE @]
              /\ Cardinality(In(balances', a, g)) = Cardinality(In(balances, a, g)) + 1
              /\ Participants(balances', g) = Participants(balances, g) \cup {a}
  <2>1. s \notin Held(balances, a) /\ Held(balances', a) = Held(balances, a) \cup {s}
    BY <1>1, <1>10, HeldMoves
  <2>2. s \notin In(balances, a, g) /\ In(balances', a, g) = In(balances, a, g) \cup {s}
    BY <2>1, <1>3
  <2>3. Cardinality(In(balances, a, g) \cup {s}) = Cardinality(In(balances, a, g)) + 1
    <3> DEFINE S == In(balances, a, g)
    <3>1. IsFiniteSet(S) /\ s \notin S
      BY <1>4, <2>2
    <3> HIDE DEF S
    <3>2. Cardinality(S \cup {s}) = Cardinality(S) + 1
      BY <3>1, FS_AddElement
    <3> QED BY <3>2 DEF S
  <2>4. Participants(balances', g) = Participants(balances, g) \cup {a}
    <3> HIDE DEF In
    <3> QED BY <2>2, <1>3, <1>6, <1>7
  <2>5. /\ groupSeriesCount' = [groupSeriesCount EXCEPT ![a][g] = @ + 1]
        /\ participants' = [participants EXCEPT ![g] = IF groupSeriesCount[a][g] = 0 THEN @ + 1 ELSE @]
    BY <1>10 DEF OpenPosition
  <2> QED BY <2>2, <2>3, <2>4, <2>5
<1>11. ASSUME balances[a][s] # 0, balances'[a][s] = 0, ClosePosition(a, s)
       PROVE  /\ groupSeriesCount' = [groupSeriesCount EXCEPT ![a][g] = @ - 1]
              /\ participants' = [participants EXCEPT ![g] = IF groupSeriesCount[a][g] = 1 THEN @ - 1 ELSE @]
              /\ Cardinality(In(balances', a, g)) = Cardinality(In(balances, a, g)) - 1
              /\ Cardinality(In(balances', a, g)) \in Nat
              /\ a \in Participants(balances, g)
              /\ Participants(balances', g) = IF Cardinality(In(balances, a, g)) = 1
                                              THEN Participants(balances, g) \ {a}
                                              ELSE Participants(balances, g)
  <2>1. s \in Held(balances, a) /\ Held(balances', a) = Held(balances, a) \ {s}
    BY <1>1, <1>11, HeldMoves
  <2>2. s \in In(balances, a, g) /\ In(balances', a, g) = In(balances, a, g) \ {s}
    BY <2>1, <1>3
  <2> DEFINE S == In(balances, a, g)
             T == In(balances', a, g)
  <2>3. IsFiniteSet(S) /\ IsFiniteSet(T) /\ s \in S /\ T = S \ {s}
    BY <1>4, <2>2
  <2>4. /\ Cardinality(T) = Cardinality(S) - 1 /\ Cardinality(T) \in Nat
        /\ Cardinality(S) \in Nat
        /\ Cardinality(T) = 0 <=> T = {}
    <3> HIDE DEF S, T
    <3> QED BY <2>3, FS_RemoveElement, FS_CardinalityType, FS_EmptySet
  <2>5. \A c \in Accounts \ {a} : c \in Participants(balances', g) <=> c \in Participants(balances, g)
    <3> HIDE DEF In
    <3> QED BY <1>3, <1>6, <1>7
  <2>6. a \in Participants(balances', g) <=> T # {}
    <3> HIDE DEF In
    <3> QED BY <1>6
  <2>7. a \in Participants(balances, g)
    <3> HIDE DEF In
    <3> QED BY <1>6, <2>2
  <2>8. Participants(balances', g) \subseteq Accounts /\ Participants(balances, g) \subseteq Accounts
    BY DEF Participants
  <2>9. Participants(balances', g) = IF Cardinality(S) = 1 THEN Participants(balances, g) \ {a}
                                                         ELSE Participants(balances, g)
    <3> HIDE DEF S, T
    <3>1. Cardinality(S) = 1 <=> T = {}
      BY <2>4
    <3> QED BY <3>1, <2>5, <2>6, <2>7, <2>8
  <2>10. /\ groupSeriesCount' = [groupSeriesCount EXCEPT ![a][g] = @ - 1]
         /\ participants' = [participants EXCEPT ![g] = IF groupSeriesCount[a][g] = 1 THEN @ - 1 ELSE @]
    BY <1>11 DEF ClosePosition, LeavesGroup
  <2> QED BY <2>4, <2>7, <2>9, <2>10
<1> DEFINE P == Participants(balances, g)
           count == Cardinality(In(balances, a, g))
<1>12. /\ groupSeriesCount[a][g] = count /\ participants[g] = Cardinality(P)
       /\ IsFiniteSet(P) /\ (count = 0 <=> a \notin P)
       /\ count \in Nat /\ Cardinality(P) \in Nat
  <2>1. IsFiniteSet(P) /\ IsFiniteSet(In(balances, a, g))
    BY <1>4, <1>6
  <2>2. count = 0 <=> In(balances, a, g) = {}
    <3> HIDE DEF In
    <3> QED BY <2>1, FS_EmptySet
  <2>3. a \in P <=> In(balances, a, g) # {}
    <3> HIDE DEF In
    <3> QED BY <1>6
  <2>4. count \in Nat /\ Cardinality(P) \in Nat
    <3> HIDE DEF In, P
    <3> QED BY <2>1, FS_CardinalityType
  <2> QED BY <2>1, <2>2, <2>3, <2>4, <1>3, <1>5
<1>13. CASE balances[a][s] = 0 /\ OpenPosition(a, s)
  <2>1. /\ groupSeriesCount' \in [Accounts -> [Groups -> Nat]]
        /\ groupSeriesCount'[a][g] = Cardinality(In(balances', a, g))
        /\ \A h \in Groups \ {g} : groupSeriesCount'[a][h] = groupSeriesCount[a][h]
        /\ \A c \in Accounts \ {a} : groupSeriesCount'[c] = groupSeriesCount[c]
    <3>1. /\ groupSeriesCount' = [groupSeriesCount EXCEPT ![a][g] = @ + 1]
          /\ Cardinality(In(balances', a, g)) = count + 1
      BY <1>10, <1>13
    <3> HIDE DEF In, g, count
    <3>2. groupSeriesCount'[a][g] = count + 1
      BY <3>1, <1>2, <1>3, <1>12
    <3> QED BY <3>1, <3>2, <1>2, <1>3, <1>12
  <2>2. Cardinality(P \cup {a}) = IF a \in P THEN Cardinality(P) ELSE Cardinality(P) + 1
    <3> HIDE DEF P
    <3> QED BY <1>12, FS_AddElement
  <2>3. /\ participants' \in [Groups -> Nat]
        /\ participants'[g] = Cardinality(Participants(balances', g))
        /\ \A h \in Groups \ {g} : participants'[h] = participants[h]
    <3>1. /\ participants' = [participants EXCEPT ![g] = IF groupSeriesCount[a][g] = 0 THEN @ + 1 ELSE @]
          /\ Participants(balances', g) = P \cup {a}
      BY <1>10, <1>13
    <3> HIDE DEF In, g, count, P
    <3>2. /\ participants' \in [Groups -> Nat]
          /\ participants'[g] = IF count = 0 THEN Cardinality(P) + 1 ELSE Cardinality(P)
      BY <3>1, <1>2, <1>3, <1>12
    <3> QED BY <3>1, <3>2, <1>2, <1>3, <1>12, <2>2
  <2> HIDE DEF In, g
  <2> QED BY <2>1, <2>3, <1>5, <1>7, <1>9
<1>14. CASE balances[a][s] # 0 /\ balances'[a][s] = 0 /\ ClosePosition(a, s)
  <2>1. /\ groupSeriesCount' \in [Accounts -> [Groups -> Nat]]
        /\ groupSeriesCount'[a][g] = Cardinality(In(balances', a, g))
        /\ \A h \in Groups \ {g} : groupSeriesCount'[a][h] = groupSeriesCount[a][h]
        /\ \A c \in Accounts \ {a} : groupSeriesCount'[c] = groupSeriesCount[c]
    <3> HIDE DEF In, g
    <3> QED BY <1>2, <1>3, <1>11, <1>12, <1>14
  <2>2. a \in P /\ Cardinality(P \ {a}) = Cardinality(P) - 1 /\ Cardinality(P \ {a}) \in Nat
    <3>1. a \in P
      BY <1>11, <1>14
    <3> HIDE DEF P
    <3> QED BY <3>1, <1>12, FS_RemoveElement, FS_CardinalityType
  <2>3. /\ participants' \in [Groups -> Nat]
        /\ participants'[g] = Cardinality(Participants(balances', g))
        /\ \A h \in Groups \ {g} : participants'[h] = participants[h]
    <3>1. /\ participants' = [participants EXCEPT ![g] = IF groupSeriesCount[a][g] = 1 THEN @ - 1 ELSE @]
          /\ Participants(balances', g) = IF count = 1 THEN P \ {a} ELSE P
      BY <1>11, <1>14
    <3> HIDE DEF In, g, count, P
    <3>2. /\ participants' \in [Groups -> Nat]
          /\ participants'[g] = IF count = 1 THEN Cardinality(P) - 1 ELSE Cardinality(P)
      BY <3>1, <1>2, <1>3, <1>12, <2>2
    <3> QED BY <3>1, <3>2, <1>2, <1>3, <1>12, <2>2
  <2> HIDE DEF In, g
  <2> QED BY <2>1, <2>3, <1>5, <1>7, <1>9
<1>15. CASE balances[a][s] # 0 /\ balances'[a][s] # 0 /\ UNCHANGED <<listVars, countVars>>
  <2>1. Held(balances', a) = Held(balances, a)
    BY <1>1, <1>15, HeldMoves
  <2>2. \A c \in Accounts, h \in Groups : In(balances', c, h) = In(balances, c, h)
    BY <2>1, <1>7
  <2>3. groupSeriesCount' = groupSeriesCount /\ participants' = participants
    BY <1>15 DEF countVars
  <2>4. \A h \in Groups : Participants(balances', h) = Participants(balances, h)
    <3> HIDE DEF In
    <3> QED BY <2>2, <1>6
  <2> HIDE DEF In
  <2> QED BY <2>2, <2>3, <2>4, <1>2, <1>5
<1> QED
  BY <1>1, <1>13, <1>14, <1>15, DeltaCases

-----------------------------------------------------------------------------
(* The initial state *)

LEMMA NothingArranged ==
  ASSUME NEW D
  PROVE  Arranged(<<>>, [x \in D |-> 0], {})
<1>1. Len(<<>>) = 0 /\ Cardinality({}) = 0 /\ 1..0 = {}
  BY FS_EmptySet
<1> QED
  BY <1>1 DEF Arranged, Indexes

LEMMA InitLedger == Init => LInv
<1> SUFFICES ASSUME Init PROVE LInv
  OBVIOUS
<1>1. Cardinality(Accounts) \in Nat
  BY BookAssumption, FS_CardinalityType
<1>2. TypeOK
  <2>1. 0 \in -MaxQty..MaxQty /\ 0 \in 0..MaxCash /\ 0 \in 0..Cardinality(Accounts)
    BY <1>1, SubAccountsAssumption
  <2>2. limits \in Nat \X Nat /\ minPositionQty \in 1..InitMinQty
    BY SubAccountsAssumption DEF Init
  <2>3. /\ seriesList \in [Accounts -> Seq(Series)]
        /\ bucketList \in [Accounts -> Seq(Underlyings)]
    BY DEF Init
  <2>4. buckets \in [Accounts -> [Underlyings -> [seriesCount : Nat, index : Nat]]]
    BY DEF Init
  <2> QED BY <2>1, <2>2, <2>3, <2>4 DEF Init, TypeOK
<1>3. \A a \in Accounts, s \in Series : balances[a][s] = 0
  BY DEF Init
<1>4. \A a \in Accounts : Held(balances, a) = {}
  BY <1>3 DEF Held
<1>5. BalancesOnGrid
  <2>1. minPositionQty \in Nat \ {0}
    BY SubAccountsAssumption DEF Init
  <2>2. 0 % minPositionQty = 0
    BY <2>1
  <2> QED BY <2>2, <1>3 DEF BalancesOnGrid, OnGrid
<1>6. AssetsMatch
  BY <1>4 DEF AssetsMatch
<1>7. Numbered
  <2>1. \A a \in Accounts : a \in Nat \ {0}
    BY <1>1, SubAccountsAssumption
  <2> QED BY <2>1 DEF Numbered, Init, Exists
<1>8. Cardinality({}) = 0
  BY FS_EmptySet
<1>9. SeriesArranged
  <2> SUFFICES ASSUME NEW a \in Accounts
               PROVE  Arranged(seriesList[a], seriesIndex[a], Held(balances, a))
    BY DEF SeriesArranged
  <2>1. seriesList[a] = <<>> /\ seriesIndex[a] = [s \in Series |-> 0]
    BY DEF Init
  <2> QED BY <2>1, <1>4, NothingArranged
<1>10. BucketsArranged
  <2>1. \A a \in Accounts : BucketsHeld(a) = {} /\ \A u \in Underlyings : HeldOn(a, u) = {}
    BY <1>4 DEF BucketsHeld, HeldOn
  <2>2. \A a \in Accounts : /\ bucketList[a] = <<>> /\ BucketIndex(a) = [u \in Underlyings |-> 0]
                            /\ \A u \in Underlyings : buckets[a][u].seriesCount = 0
    BY DEF Init, BucketIndex
  <2> QED BY <2>1, <2>2, <1>8, NothingArranged DEF BucketsArranged
<1>11. \A s \in Series : LongsOf(balances, s) = 0 /\ ShortsOf(balances, s) = 0
  <2> TAKE s \in Series
  <2>1. /\ \A a \in Accounts : [c \in Accounts |-> Pos(balances[c][s])][a] = 0
        /\ \A a \in Accounts : [c \in Accounts |-> Neg(balances[c][s])][a] = 0
    BY <1>3, Sides
  <2> QED BY <2>1, TotalZero DEF LongsOf, ShortsOf
<1>12. TotalsPublished
  BY <1>11 DEF TotalsPublished, Init
<1>13. ShortsPublished
  <2> SUFFICES ASSUME NEW p \in Products PROVE ShortNotionalOf(balances, p) = 0
    BY DEF ShortsPublished, Init
  <2> DEFINE f == [s \in Series |-> ShortsOf(balances, s) * Info[s].size]
  <2>1. \A s \in {t \in Series : ProductOf(t) = p} : f[s] = 0
    <3>1. \A n \in Nat : 0 * n = 0
      OBVIOUS
    <3> QED BY <3>1, <1>11, BookAssumption
  <2>2. ShortNotionalOf(balances, p) = Total({t \in Series : ProductOf(t) = p}, f)
    BY DEF ShortNotionalOf
  <2> HIDE DEF f
  <2> QED BY <2>1, <2>2, TotalZero
<1>14. CountsPublished
  <2>1. \A a \in Accounts, g \in Groups : SeriesCountOf(balances, a, g) = 0
    BY <1>4, <1>8 DEF SeriesCountOf
  <2>2. \A g \in Groups : Cardinality(Participants(balances, g)) = 0
    <3>1. \A g \in Groups : Participants(balances, g) = {}
      BY <1>4 DEF Participants
    <3> QED BY <3>1, <1>8
  <2> QED BY <2>1, <2>2 DEF CountsPublished, Init
<1> QED
  BY <1>2, <1>5, <1>6, <1>7, <1>9, <1>10, <1>12, <1>13, <1>14 DEF LInv

-----------------------------------------------------------------------------
(* The steps *)

\* A multiple of a multiple of n is a multiple of n.
LEMMA Divides ==
  ASSUME NEW m \in Nat \ {0}, NEW n \in Nat \ {0}, NEW b \in Int,
         (m % n) = 0, (b % m) = 0
  PROVE  (b % n) = 0
<1>1. m = n * (m \div n) /\ b = m * (b \div m) /\ (m \div n) \in Int /\ (b \div m) \in Int
  OBVIOUS
<1> DEFINE k == (m \div n) * (b \div m)
<1>2. k \in Int
  BY <1>1
<1>3. b = n * k
  <2>1. \A x, y, z \in Int : (x * y) * z = x * (y * z)
    OBVIOUS
  <2> QED BY <2>1, <1>1
<1>4. \A x \in Int : (n * x) % n = 0
  OBVIOUS
<1> QED
  BY <1>2, <1>3, <1>4

\* A call that leaves the balances and what is kept of them alone.
LEMMA BookKept ==
  ASSUME LInv, UNCHANGED bookVars
  PROVE  /\ SeriesArranged' /\ BucketsArranged'
         /\ TotalsPublished' /\ ShortsPublished' /\ CountsPublished'
<1>1. /\ balances' = balances /\ seriesList' = seriesList /\ seriesIndex' = seriesIndex
      /\ bucketList' = bucketList /\ buckets' = buckets
      /\ groupSeriesCount' = groupSeriesCount /\ participants' = participants
      /\ totals' = totals /\ productShortNotional' = productShortNotional
  BY DEF bookVars, listVars, countVars
<1>2. /\ SeriesArranged' <=> SeriesArranged
      /\ BucketsArranged' <=> BucketsArranged
  BY <1>1 DEF SeriesArranged, BucketsArranged, BucketIndex, BucketsHeld, HeldOn
<1>3. /\ TotalsPublished' <=> TotalsPublished
      /\ ShortsPublished' <=> ShortsPublished
      /\ CountsPublished' <=> CountsPublished
  BY <1>1 DEF TotalsPublished, ShortsPublished, CountsPublished
<1> QED
  BY <1>2, <1>3 DEF LInv

LEMMA DeltaStep ==
  ASSUME LInv, NEW a \in Accounts, NEW s \in Series, NEW delta \in Int,
         ApplyDelta(a, s, delta)
  PROVE  LInv'
<1>1. TypeOK /\ BalancesOnGrid /\ AssetsMatch /\ Numbered
  BY DEF LInv
<1>2. UNCHANGED <<accountVars, cash, configVars>>
  BY DEF ApplyDelta
<1>3. TypeOK'
  BY <1>1, <1>2, Moves, DeltaSeries, DeltaBuckets, DeltaTotals, DeltaShorts, DeltaCounts
  DEF TypeOK, accountVars, configVars
<1>4. BalancesOnGrid'
  <2>1. OnGrid(balances'[a][s], minPositionQty)
    BY <1>1, Moves DEF ApplyDelta
  <2> QED BY <2>1, <1>1, <1>2, Moves DEF BalancesOnGrid, OnGrid, configVars
<1>5. AssetsMatch'
  <2>1. Exists(a) /\ Info[s].asset = settlementAsset[a]
    BY DEF ApplyDelta, SameAsset
  <2>2. owner' = owner /\ settlementAsset' = settlementAsset
    BY <1>2 DEF accountVars
  <2>3. \A c \in Accounts : \A t \in Held(balances', c) : t \in Held(balances, c) \/ (c = a /\ t = s)
    BY <1>1, Moves DEF Held
  <2> QED BY <2>1, <2>2, <2>3, <1>1 DEF AssetsMatch, Exists
<1>6. Numbered'
  BY <1>1, <1>2 DEF Numbered, Exists, accountVars
<1> QED
  BY <1>3, <1>4, <1>5, <1>6, DeltaSeries, DeltaBuckets, DeltaTotals, DeltaShorts, DeltaCounts DEF LInv

LEMMA LedgerStep == LInv /\ [Next]_vars => LInv'
<1> SUFFICES ASSUME LInv, [Next]_vars PROVE LInv'
  OBVIOUS
<1>1. TypeOK /\ BalancesOnGrid /\ AssetsMatch /\ Numbered
  BY DEF LInv
<1>2. ASSUME NEW user \in Users, NEW asset \in Assets, CreateSubAccount(user, asset)
      PROVE  LInv'
  <2> DEFINE n == accountCount + 1
  <2>1. /\ n \in Accounts /\ accountCount' = n
        /\ owner' = [owner EXCEPT ![n] = user]
        /\ settlementAsset' = [settlementAsset EXCEPT ![n] = asset]
        /\ UNCHANGED <<operators, cash, bookVars, configVars>>
    BY <1>2 DEF CreateSubAccount
  <2>2. \A c \in Accounts : c \in 1..Cardinality(Accounts)
    BY SubAccountsAssumption
  <2>3. Cardinality(Accounts) \in Nat /\ accountCount \in Nat
    BY <1>1, BookAssumption, FS_CardinalityType DEF TypeOK
  <2>4. TypeOK'
    BY <1>1, <2>1, <2>2, <2>3 DEF TypeOK, bookVars, listVars, countVars, configVars
  <2>5. \A c \in Accounts \ {n} : owner'[c] = owner[c] /\ settlementAsset'[c] = settlementAsset[c]
    BY <2>1, <1>1 DEF TypeOK
  <2>6. owner'[n] = user /\ user # NoOne
    BY <2>1, <1>1, SubAccountsAssumption DEF TypeOK
  <2>7. ~Exists(n)
    BY <1>1, <2>1, <2>2, <2>3 DEF Numbered
  <2>8. Numbered'
    <3>1. \A c \in Accounts \ {n} : c <= accountCount <=> c <= n
      BY <2>2, <2>3
    <3> QED BY <3>1, <1>1, <2>1, <2>2, <2>3, <2>5, <2>6 DEF Numbered, Exists
  <2>9. AssetsMatch'
    <3>1. balances' = balances /\ Held(balances, n) = {}
      BY <1>1, <2>1, <2>7 DEF AssetsMatch, bookVars
    <3> HIDE DEF n
    <3> QED BY <3>1, <1>1, <2>5 DEF AssetsMatch, Exists
  <2>10. BalancesOnGrid'
    BY <1>1, <2>1 DEF BalancesOnGrid, bookVars, configVars
  <2> QED BY <2>1, <2>4, <2>8, <2>9, <2>10, BookKept DEF LInv
<1>3. ASSUME UNCHANGED <<accountCount, owner, settlementAsset, bookVars, configVars>>,
             cash' \in [Accounts -> 0..MaxCash], operators' \in [Accounts -> SUBSET Users]
      PROVE  LInv'
  <2>1. TypeOK'
    BY <1>1, <1>3 DEF TypeOK, bookVars, listVars, countVars, configVars
  <2>2. BalancesOnGrid' /\ AssetsMatch' /\ Numbered'
    BY <1>1, <1>3 DEF BalancesOnGrid, AssetsMatch, Numbered, Exists, bookVars, configVars
  <2> QED BY <2>1, <2>2, <1>3, BookKept DEF LInv
<1>4. ASSUME NEW a \in Accounts, NEW user \in Users, NEW b \in BOOLEAN, SetOperator(a, user, b)
      PROVE  LInv'
  BY <1>1, <1>3, <1>4 DEF SetOperator, TypeOK
<1>5. ASSUME NEW a \in Accounts, NEW amount \in 1..MaxCash, AddCash(a, amount) \/ SubCash(a, amount)
      PROVE  LInv'
  <2>1. cash \in [Accounts -> 0..MaxCash] /\ MaxCash \in Nat
    BY <1>1, SubAccountsAssumption DEF TypeOK
  <2>2. cash' \in [Accounts -> 0..MaxCash]
    BY <1>5, <2>1 DEF AddCash, SubCash
  <2>3. UNCHANGED <<accountVars, bookVars, configVars>>
    BY <1>5 DEF AddCash, SubCash
  <2> QED BY <1>1, <1>3, <2>2, <2>3 DEF accountVars, TypeOK
<1>6. ASSUME NEW a \in Accounts, NEW s \in Series, NEW delta \in -2 * MaxQty..2 * MaxQty,
             ApplyDelta(a, s, delta)
      PROVE  LInv'
  <2>1. delta \in Int
    BY SubAccountsAssumption
  <2> QED BY <1>6, <2>1, DeltaStep
<1>7. ASSUME NEW l \in (1..MaxSeriesCap) \X (1..MaxBucketsCap), SetPositionLimits(l)
      PROVE  LInv'
  <2>1. UNCHANGED <<accountVars, cash, bookVars, minPositionQty>> /\ limits' \in Nat \X Nat
    BY <1>7 DEF SetPositionLimits
  <2>2. TypeOK'
    BY <1>1, <2>1 DEF TypeOK, accountVars, bookVars, listVars, countVars
  <2>3. BalancesOnGrid' /\ AssetsMatch' /\ Numbered'
    BY <1>1, <2>1 DEF BalancesOnGrid, AssetsMatch, Numbered, Exists, bookVars, accountVars
  <2> QED BY <2>1, <2>2, <2>3, BookKept DEF LInv
<1>8. ASSUME NEW newMin \in 1..InitMinQty, SetMinPositionQty(newMin)
      PROVE  LInv'
  <2>1. /\ UNCHANGED <<accountVars, cash, bookVars, limits>> /\ minPositionQty' = newMin
        /\ minPositionQty % newMin = 0
    BY <1>8 DEF SetMinPositionQty
  <2>2. TypeOK'
    BY <1>1, <2>1 DEF TypeOK, accountVars, bookVars, listVars, countVars
  <2>3. AssetsMatch' /\ Numbered'
    BY <1>1, <2>1 DEF AssetsMatch, Numbered, Exists, bookVars, accountVars
  <2>4. BalancesOnGrid'
    <3>1. minPositionQty \in Nat \ {0} /\ newMin \in Nat \ {0}
      BY <1>1, SubAccountsAssumption DEF TypeOK
    <3>2. \A a \in Accounts, s \in Series : balances[a][s] \in Int /\ (balances[a][s] % minPositionQty) = 0
      BY <1>1, BalancesInt DEF BalancesOnGrid, OnGrid
    <3>3. \A a \in Accounts, s \in Series : (balances[a][s] % newMin) = 0
      BY <2>1, <3>1, <3>2, Divides
    <3> QED BY <2>1, <3>3 DEF BalancesOnGrid, OnGrid, bookVars
  <2> QED BY <2>1, <2>2, <2>3, <2>4, BookKept DEF LInv
<1>9. CASE UNCHANGED vars
  BY <1>1, <1>3, <1>9 DEF vars, accountVars, TypeOK
<1> QED
  BY <1>2, <1>4, <1>5, <1>6, <1>7, <1>8, <1>9 DEF Next

-----------------------------------------------------------------------------
(* The theorems *)

LEMMA LedgerInvariant == Spec => []LInv
<1> QED
  BY InitLedger, LedgerStep, PTL DEF Spec

\* Every balance is of its record's type and width, a multiple of the minimum
\* in force, also after the minimum was lowered, and in the asset of its account
\* (applyDelta, createSubAccount, setMinPositionQty).
THEOREM LedgerStaysSound == Spec => []LedgerSound
<1>1. LInv => LedgerSound
  BY DEF LInv, LedgerSound
<1> QED
  BY <1>1, LedgerInvariant, PTL

\* Push and swap-and-pop keep the array of an account's series and the array of
\* its buckets, each with its 1-based index map, exactly what the balances say,
\* and each bucket counts its series (applyDelta).
THEOREM ListsStayExact == Spec => []ListsExact
<1>1. LInv => ListsExact
  BY DEF LInv, SeriesArranged, BucketsArranged, Arranged, ListsExact, BucketIndex, HeldOn
<1> QED
  BY <1>1, LedgerInvariant, PTL

\* The numbers the abstract ledger publishes are those of the balances.
Published ==
  /\ totals = [s \in Series |-> [internalLong  |-> LongsOf(balances, s),
                                 internalShort |-> ShortsOf(balances, s)]]
  /\ groupSeriesCount =
       [a \in Accounts |-> [g \in Groups |-> SeriesCountOf(balances, a, g)]]
  /\ participants = [g \in Groups |-> Cardinality(Participants(balances, g))]
  /\ productShortNotional = [p \in Products |-> ShortNotionalOf(balances, p)]

LEMMA PublishedIs == LInv => Published
<1> SUFFICES ASSUME LInv PROVE Published
  OBVIOUS
<1>1. /\ totals \in [Series -> [internalLong : Nat, internalShort : Nat]]
      /\ groupSeriesCount \in [Accounts -> [Groups -> Nat]]
      /\ participants \in [Groups -> Nat]
      /\ productShortNotional \in [Products -> Nat]
  BY DEF LInv, TypeOK
<1>2. totals = [s \in Series |-> [internalLong  |-> LongsOf(balances, s),
                                  internalShort |-> ShortsOf(balances, s)]]
  BY <1>1 DEF LInv, TotalsPublished
<1>3. groupSeriesCount = [a \in Accounts |-> [g \in Groups |-> SeriesCountOf(balances, a, g)]]
  <2>1. \A a \in Accounts : groupSeriesCount[a] = [g \in Groups |-> SeriesCountOf(balances, a, g)]
    BY <1>1 DEF LInv, CountsPublished
  <2> QED BY <2>1, <1>1
<1>4. participants = [g \in Groups |-> Cardinality(Participants(balances, g))]
  BY <1>1 DEF LInv, CountsPublished
<1>5. productShortNotional = [p \in Products |-> ShortNotionalOf(balances, p)]
  BY <1>1 DEF LInv, ShortsPublished
<1> QED
  BY <1>2, <1>3, <1>4, <1>5 DEF Published

\* The abstract ledger computes them from the same book.
LEMMA SameBook ==
  /\ LedgerSpec!Groups = Groups /\ LedgerSpec!Products = Products
  /\ \A b, s : /\ LedgerSpec!LongsOf(b, s) = LongsOf(b, s)
               /\ LedgerSpec!ShortsOf(b, s) = ShortsOf(b, s)
  /\ \A b, a, g : LedgerSpec!SeriesCountOf(b, a, g) = SeriesCountOf(b, a, g)
  /\ \A b, g : LedgerSpec!Participants(b, g) = Participants(b, g)
  /\ \A b, p : LedgerSpec!ShortNotionalOf(b, p) = ShortNotionalOf(b, p)
<1>0. \A S : LedgerSpec!Cardinality(S) = Cardinality(S)
  BY DEF LedgerSpec!Cardinality, Cardinality
<1>1. /\ \A S, f : LedgerSpec!Total(S, f) = Total(S, f)
      /\ \A n : LedgerSpec!Pos(n) = Pos(n) /\ LedgerSpec!Neg(n) = Neg(n)
  BY <1>0 DEF LedgerSpec!Total, LedgerSpec!Units, Total, Units, LedgerSpec!Pos, Pos, LedgerSpec!Neg, Neg
<1>2. /\ LedgerSpec!Groups = Groups /\ LedgerSpec!Products = Products
      /\ \A s : LedgerSpec!ProductOf(s) = ProductOf(s)
  BY DEF LedgerSpec!Groups, Groups, LedgerSpec!Products, Products, LedgerSpec!ProductOf, ProductOf
<1>3. \A b, s : /\ LedgerSpec!LongsOf(b, s) = LongsOf(b, s)
                /\ LedgerSpec!ShortsOf(b, s) = ShortsOf(b, s)
  BY <1>1 DEF LedgerSpec!LongsOf, LongsOf, LedgerSpec!ShortsOf, ShortsOf
<1>4. /\ \A b, a, g : LedgerSpec!SeriesCountOf(b, a, g) = SeriesCountOf(b, a, g)
      /\ \A b, g : LedgerSpec!Participants(b, g) = Participants(b, g)
  BY <1>0 DEF LedgerSpec!SeriesCountOf, SeriesCountOf, LedgerSpec!Participants, Participants,
         LedgerSpec!Held, Held, LedgerSpec!SeriesIn, SeriesIn
<1>5. \A b, p : LedgerSpec!ShortNotionalOf(b, p) = ShortNotionalOf(b, p)
  BY <1>1, <1>2, <1>3 DEF LedgerSpec!ShortNotionalOf, ShortNotionalOf
<1> QED
  BY <1>2, <1>3, <1>4, <1>5

\* Every call of the ledger is one of the abstract ledger's two, or changes
\* nothing that it publishes.
LEMMA LedgerSimulates ==
  ASSUME LInv, LInv', Published', [Next]_vars
  PROVE  [LedgerSpec!Next]_(LedgerSpec!vars)
<1>1. /\ balances \in [Accounts -> [Series -> -MaxQty..MaxQty]]
      /\ cash \in [Accounts -> 0..MaxCash]
  BY DEF LInv, TypeOK
<1>2. ASSUME UNCHANGED cash, UNCHANGED bookVars
      PROVE  UNCHANGED LedgerSpec!vars
  BY <1>2 DEF LedgerSpec!vars, bookVars, countVars
<1>3. ASSUME NEW a \in Accounts, NEW amount \in 1..MaxCash, AddCash(a, amount) \/ SubCash(a, amount)
      PROVE  LedgerSpec!Next
  <2>1. UNCHANGED bookVars /\ \A c \in Accounts \ {a} : cash'[c] = cash[c]
    BY <1>1, <1>3 DEF AddCash, SubCash
  <2>2. cash'[a] >= 0
    BY SubAccountsAssumption DEF LInv, TypeOK
  <2>3. LedgerSpec!SetCash(a)
    BY <2>1, <2>2 DEF LedgerSpec!SetCash, bookVars, countVars
  <2> QED BY <2>3 DEF LedgerSpec!Next
<1>4. ASSUME NEW a \in Accounts, NEW s \in Series, NEW delta \in -2 * MaxQty..2 * MaxQty,
             ApplyDelta(a, s, delta)
      PROVE  LedgerSpec!Next
  <2>1. balances' = [balances EXCEPT ![a][s] = balances[a][s] + delta] /\ cash' = cash
    BY <1>4 DEF ApplyDelta
  <2>2. balances' = [balances EXCEPT ![a][s] = balances'[a][s]]
    BY <1>1, <2>1
  <2>3. LedgerSpec!Publish(balances')
    <3>1. /\ totals' = [t \in Series |-> [internalLong  |-> LedgerSpec!LongsOf(balances', t),
                                          internalShort |-> LedgerSpec!ShortsOf(balances', t)]]
          /\ participants' = [g \in LedgerSpec!Groups |-> Cardinality(LedgerSpec!Participants(balances', g))]
      BY SameBook DEF Published
    <3>2. groupSeriesCount' = [c \in Accounts |-> [g \in LedgerSpec!Groups |-> LedgerSpec!SeriesCountOf(balances', c, g)]]
      BY SameBook DEF Published
    <3>3. productShortNotional' = [p \in LedgerSpec!Products |-> LedgerSpec!ShortNotionalOf(balances', p)]
      BY SameBook DEF Published
    <3>4. \A S : LedgerSpec!Cardinality(S) = Cardinality(S)
      BY DEF LedgerSpec!Cardinality, Cardinality
    <3> QED BY <3>1, <3>2, <3>3, <3>4 DEF LedgerSpec!Publish
  <2>4. LedgerSpec!SetBalance(a, s)
    BY <2>1, <2>2, <2>3 DEF LedgerSpec!SetBalance
  <2> QED BY <2>4 DEF LedgerSpec!Next
<1>5. CASE \E user \in Users, asset \in Assets : CreateSubAccount(user, asset)
  BY <1>2, <1>5 DEF CreateSubAccount
<1>6. CASE \E a \in Accounts, user \in Users, b \in BOOLEAN : SetOperator(a, user, b)
  BY <1>2, <1>6 DEF SetOperator
<1>7. CASE \E l \in (1..MaxSeriesCap) \X (1..MaxBucketsCap) : SetPositionLimits(l)
  BY <1>2, <1>7 DEF SetPositionLimits
<1>8. CASE \E newMin \in 1..InitMinQty : SetMinPositionQty(newMin)
  BY <1>2, <1>8 DEF SetMinPositionQty
<1>9. CASE UNCHANGED vars
  BY <1>2, <1>9 DEF vars
<1> QED
  BY <1>3, <1>4, <1>5, <1>6, <1>7, <1>8, <1>9 DEF Next

\* The ledger that keeps its numbers in O(1) per call implements the one whose
\* published numbers are computed from the balances (applyDelta; INV-2, INV-27).
THEOREM LedgerImplements == Spec => ImplementsLedger
<1>1. Init => LedgerSpec!Init
  BY SameBook DEF Init, LedgerSpec!Init
<1> QED
  BY <1>1, LedgerInvariant, PublishedIs, LedgerSimulates, PTL DEF Spec, ImplementsLedger, LedgerSpec!Spec

=============================================================================
