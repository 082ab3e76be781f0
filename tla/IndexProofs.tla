---------------------------- MODULE IndexProofs ----------------------------
(***************************************************************************)
(* The tables of the indexer are exact, for any accounts, series, holders  *)
(* and orders.                                                             *)
(*                                                                         *)
(* 1. Sums: over a finite set, by induction on its size.                   *)
(* 2. One log: from tables that tell a state w, its handler gives tables   *)
(*    that tell the next state v; delivered again it changes nothing       *)
(*    (Steps).                                                             *)
(* 3. One transaction: its logs, from the first to the last, tell all that *)
(*    it did (Good, Mined).                                                *)
(* 4. The chain and the index over it (IndexExact).                        *)
(***************************************************************************)
EXTENDS LogScans, IndexReaders, FiniteSetTheorems, WellFoundedInduction, TLAPS

-----------------------------------------------------------------------------
(* 1. Sums over a finite set                                               *)

LEMMA LeastNatural ==
  ASSUME NEW S \in SUBSET Nat, S # {}
  PROVE  \E m \in S : \A q \in S : m <= q
<1>1. PICK m \in S : \A q \in S : ~(<<q, m>> \in OpToRel(<, Nat))
  BY NatLessThanWellFounded, WFMin
<1>2. OpToRel(<, Nat) = {ss \in Nat \X Nat : ss[1] < ss[2]}
  BY DEF OpToRel
<1>3. \A x, y \in Nat : x < y => <<x, y>> \in OpToRel(<, Nat)
  BY <1>2
<1>4. \A q \in S : ~(q < m)
  BY <1>1, <1>3
<1> QED
  BY <1>4

First(s) == CHOOSE x \in s : TRUE

LEMMA FirstIn ==
  ASSUME NEW s, s # {}
  PROVE  First(s) \in s
BY DEF First

LEMMA SmallerSet ==
  ASSUME NEW S, IsFiniteSet(S), NEW s \in SUBSET S, s # {}
  PROVE  /\ IsFiniteSet(s) /\ First(s) \in s /\ s \ {First(s)} \in SUBSET S
         /\ Cardinality(s) \in Nat /\ Cardinality(s \ {First(s)}) \in Nat
         /\ Cardinality(s) = Cardinality(s \ {First(s)}) + 1
<1>1. IsFiniteSet(s) /\ First(s) \in s
  BY FS_Subset, FirstIn
<1>2. IsFiniteSet(s \ {First(s)}) /\ Cardinality(s \ {First(s)}) = Cardinality(s) - 1
  BY <1>1, FS_RemoveElement
<1>3. Cardinality(s) \in Nat /\ Cardinality(s \ {First(s)}) \in Nat
  BY <1>1, <1>2, FS_CardinalityType
<1> QED
  BY <1>1, <1>2, <1>3

\* What holds of the number 0, and of a number if of the one before, holds of all.
LEMMA CountInduction ==
  ASSUME NEW G, 0 \in G, \A k \in Nat : k \in G => k + 1 \in G
  PROVE  \A m \in Nat : m \in G
<1> DEFINE Missed == {m \in Nat : m \notin G}
<1>1. ASSUME NEW m \in Missed, \A q \in Missed : m <= q PROVE FALSE
  <2>1. m \in Nat /\ m # 0
    OBVIOUS
  <2>2. m - 1 \in Nat /\ (m - 1) + 1 = m
    BY <2>1
  <2>3. m - 1 \in G
    BY <1>1, <2>2
  <2> QED
    BY <2>2, <2>3
<1>2. Missed \in SUBSET Nat
  OBVIOUS
<1>3. Missed = {}
  <2> HIDE DEF Missed
  <2> QED BY <1>1, <1>2, LeastNatural
<1> QED
  BY <1>3

\* The same for the subsets of a finite set, an element at a time.
LEMMA SubsetInduction ==
  ASSUME NEW S, IsFiniteSet(S), NEW G, {} \in G,
         \A s \in SUBSET S : s # {} /\ s \ {First(s)} \in G => s \in G
  PROVE  \A s \in SUBSET S : s \in G
<1> DEFINE C == {m \in Nat : \A s \in SUBSET S : Cardinality(s) = m => s \in G}
<1>1. 0 \in C
  <2>1. \A s \in SUBSET S : Cardinality(s) = 0 => s = {}
    BY FS_Subset, FS_EmptySet
  <2> QED BY <2>1
<1>2. ASSUME NEW k \in Nat, k \in C PROVE k + 1 \in C
  <2>1. ASSUME NEW s \in SUBSET S, Cardinality(s) = k + 1 PROVE s \in G
    <3>1. s # {}
      BY <2>1, FS_EmptySet
    <3>2. s \ {First(s)} \in SUBSET S /\ Cardinality(s \ {First(s)}) = k
      <4>1. /\ IsFiniteSet(s) /\ First(s) \in s /\ s \ {First(s)} \in SUBSET S
            /\ Cardinality(s) \in Nat /\ Cardinality(s \ {First(s)}) \in Nat
            /\ Cardinality(s) = Cardinality(s \ {First(s)}) + 1
        BY <3>1, SmallerSet
      <4> QED
        BY <2>1, <4>1
    <3>3. s \ {First(s)} \in G
      BY <1>2, <3>2
    <3> QED
      BY <3>1, <3>3
  <2> QED
    BY <2>1
<1>3. \A m \in Nat : m \in C
  <2> HIDE DEF C
  <2> QED BY <1>1, <1>2, CountInduction
<1>4. ASSUME NEW s \in SUBSET S PROVE s \in G
  <2>1. Cardinality(s) \in Nat
    BY FS_Subset, FS_CardinalityType
  <2> QED BY <1>3, <2>1
<1> QED
  BY <1>4

\* h adds up g over the subsets of S.
Adds(h, g, S) ==
  \A s \in SUBSET S : h[s] = IF s = {} THEN 0 ELSE g[First(s)] + h[s \ {First(s)}]

AddsUpTo(h, g, S, m) ==
  \A s \in SUBSET S : Cardinality(s) <= m => h[s] = IF s = {} THEN 0 ELSE g[First(s)] + h[s \ {First(s)}]

LEMMA AddsExists ==
  ASSUME NEW S, IsFiniteSet(S), NEW g \in [S -> Int]
  PROVE  \E h \in [SUBSET S -> Int] : Adds(h, g, S)
<1> DEFINE C == {m \in Nat : \E h \in [SUBSET S -> Int] : AddsUpTo(h, g, S, m)}
<1>1. 0 \in C
  <2> DEFINE h == [s \in SUBSET S |-> 0]
  <2>1. \A s \in SUBSET S : Cardinality(s) <= 0 => s = {}
    <3> SUFFICES ASSUME NEW s \in SUBSET S, Cardinality(s) <= 0 PROVE s = {}
      OBVIOUS
    <3>1. IsFiniteSet(s) /\ Cardinality(s) \in Nat
      BY FS_Subset, FS_CardinalityType
    <3> QED BY <3>1, FS_EmptySet
  <2>2. h \in [SUBSET S -> Int] /\ AddsUpTo(h, g, S, 0)
    BY <2>1 DEF AddsUpTo
  <2> QED
    BY <2>2
<1>2. ASSUME NEW k \in Nat, k \in C PROVE k + 1 \in C
  <2>1. PICK h \in [SUBSET S -> Int] : AddsUpTo(h, g, S, k)
    BY <1>2
  <2> DEFINE j == [s \in SUBSET S |-> IF s = {} THEN 0 ELSE g[First(s)] + h[s \ {First(s)}]]
  <2>2. \A s \in SUBSET S : s # {} => First(s) \in S /\ s \ {First(s)} \in SUBSET S
    BY FirstIn
  <2>3. j \in [SUBSET S -> Int]
    BY <2>2
  <2>4. ASSUME NEW s \in SUBSET S, Cardinality(s) <= k + 1
        PROVE  j[s] = IF s = {} THEN 0 ELSE g[First(s)] + j[s \ {First(s)}]
    <3>1. CASE s = {}
      BY <3>1
    <3>2. CASE s # {}
      <4>1. s \ {First(s)} \in SUBSET S /\ Cardinality(s) = Cardinality(s \ {First(s)}) + 1
            /\ Cardinality(s \ {First(s)}) \in Nat
        BY <3>2, SmallerSet
      <4>2. Cardinality(s \ {First(s)}) <= k
        BY <2>4, <4>1
      <4>3. h[s \ {First(s)}] = j[s \ {First(s)}]
        BY <2>1, <4>1, <4>2 DEF AddsUpTo
      <4>4. j[s] = g[First(s)] + h[s \ {First(s)}]
        BY <3>2
      <4> HIDE DEF j
      <4> QED
        BY <3>2, <4>3, <4>4
    <3> QED
      BY <3>1, <3>2
  <2>5. AddsUpTo(j, g, S, k + 1)
    <3> HIDE DEF j
    <3> QED BY <2>4 DEF AddsUpTo
  <2> HIDE DEF j
  <2> QED
    BY <2>3, <2>5
<1>3. \A m \in Nat : m \in C
  <2> HIDE DEF C
  <2> QED BY <1>1, <1>2, CountInduction
<1>4. PICK h \in [SUBSET S -> Int] : AddsUpTo(h, g, S, Cardinality(S))
  BY <1>3, FS_CardinalityType
<1>5. \A s \in SUBSET S : Cardinality(s) <= Cardinality(S)
  BY FS_Subset
<1> QED
  BY <1>4, <1>5 DEF Adds, AddsUpTo

\* Raising one number by d raises the sum by d.
\* f is g but for d more at a.
MoreIn(j, h, d, S) == j[S] = h[S] + d
MoreAt(f, g, a, d, S) == f[a] = g[a] + d /\ \A x \in S : x # a => f[x] = g[x]

LEMMA AddsMoved ==
  ASSUME NEW S, IsFiniteSet(S), NEW g \in [S -> Int], NEW f \in [S -> Int], NEW a \in S, NEW d \in Int,
         MoreAt(f, g, a, d, S),
         NEW h \in [SUBSET S -> Int], Adds(h, g, S), NEW j, Adds(j, f, S)
  PROVE  MoreIn(j, h, d, S)
<1> DEFINE G == {s \in SUBSET S : j[s] = h[s] + IF a \in s THEN d ELSE 0}
<1>0. f[a] = g[a] + d /\ \A x \in S : x # a => f[x] = g[x]
  BY DEF MoreAt
<1>1. {} \in G
  <2>1. {} \in SUBSET S /\ h[{}] = 0 /\ j[{}] = 0
    BY DEF Adds
  <2> QED BY <2>1
<1>2. ASSUME NEW s \in SUBSET S, s # {}, s \ {First(s)} \in G PROVE s \in G
  <2>1. PICK x \in S : x = First(s) /\ x \in s
    BY <1>2, FirstIn
  <2>2. PICK r \in SUBSET S : r = s \ {x}
    OBVIOUS
  <2>3. j[s] = f[x] + j[r] /\ h[s] = g[x] + h[r]
    BY <1>2, <2>1, <2>2 DEF Adds
  <2>4. j[r] = h[r] + IF a \in r THEN d ELSE 0
    BY <1>2, <2>1, <2>2
  <2>5. h[r] \in Int /\ g[x] \in Int /\ f[x] \in Int /\ h[s] \in Int
    OBVIOUS
  <2>6. CASE x = a
    BY <1>0, <2>1, <2>2, <2>3, <2>4, <2>5, <2>6
  <2>7. CASE x # a
    <3>1. (a \in r <=> a \in s) /\ f[x] = g[x]
      BY <1>0, <2>2, <2>7
    <3> QED BY <2>3, <2>4, <2>5, <3>1
  <2> QED
    BY <2>6, <2>7
<1>3. \A s \in SUBSET S : s \in G
  <2> HIDE DEF G
  <2> QED BY <1>1, <1>2, SubsetInduction
<1> QED
  BY <1>3 DEF MoreIn

LEMMA AddsSame ==
  ASSUME NEW S, IsFiniteSet(S), NEW g \in [S -> Int], NEW h, Adds(h, g, S), NEW j, Adds(j, g, S)
  PROVE  j[S] = h[S]
<1> DEFINE G == {s \in SUBSET S : j[s] = h[s]}
<1>1. {} \in G
  BY DEF Adds
<1>2. ASSUME NEW s \in SUBSET S, s # {}, s \ {First(s)} \in G PROVE s \in G
  BY <1>2 DEF Adds
<1>3. \A s \in SUBSET S : s \in G
  <2> HIDE DEF G
  <2> QED BY <1>1, <1>2, SubsetInduction
<1> QED
  BY <1>3

LEMMA AddsNothing ==
  ASSUME NEW S, IsFiniteSet(S), NEW g \in [S -> Int], \A x \in S : g[x] = 0, NEW j, Adds(j, g, S)
  PROVE  j[S] = 0
<1> DEFINE G == {s \in SUBSET S : j[s] = 0}
<1>1. {} \in G
  BY DEF Adds
<1>2. ASSUME NEW s \in SUBSET S, s # {}, s \ {First(s)} \in G PROVE s \in G
  <2>1. First(s) \in S
    BY <1>2, FirstIn
  <2>2. j[s] = g[First(s)] + j[s \ {First(s)}]
    BY <1>2 DEF Adds
  <2> QED BY <1>2, <2>1, <2>2
<1>3. \A s \in SUBSET S : s \in G
  <2> HIDE DEF G
  <2> QED BY <1>1, <1>2, SubsetInduction
<1> QED
  BY <1>3

-----------------------------------------------------------------------------
(* The sums of the index *)

LongOf(bal, s) == SumOver(Accounts, LAMBDA a : Max0(bal[a][s]))
ShortOf(bal, s) == SumOver(Accounts, LAMBDA a : Max0(-bal[a][s]))
SupplyOf(held, s) == SumOver(Holders, LAMBDA h : held[h][s])

Balances == [Accounts -> [Series -> Int]]
Holdings == [Holders -> [Series -> Int]]

LEMMA LongAdds ==
  ASSUME NEW bal \in Balances, NEW s \in Series
  PROVE  \E h \in [SUBSET Accounts -> Int] : Adds(h, [a \in Accounts |-> Max0(bal[a][s])], Accounts)
                                             /\ LongOf(bal, s) = h[Accounts]
<1> DEFINE g == [a \in Accounts |-> Max0(bal[a][s])]
           Is(h) == h = [r \in SUBSET Accounts |-> IF r = {} THEN 0
                           ELSE LET x == First(r) IN Max0(bal[x][s]) + h[r \ {x}]]
           H == CHOOSE h : Is(h)
<1>1. g \in [Accounts -> Int]
  BY DEF Balances, Max0
<1>2. PICK h \in [SUBSET Accounts -> Int] : Adds(h, g, Accounts)
  BY <1>1, AddsExists, ChainAssumption
<1>3. \A r \in SUBSET Accounts : r # {} => g[First(r)] = Max0(bal[First(r)][s])
  BY FirstIn
<1>4. Is(h)
  <2> HIDE DEF g
  <2>1. \A r \in SUBSET Accounts : h[r] = IF r = {} THEN 0 ELSE Max0(bal[First(r)][s]) + h[r \ {First(r)}]
    BY <1>2, <1>3 DEF Adds
  <2> QED BY <2>1
<1>5. Is(H)
  BY <1>4
<1>6. LongOf(bal, s) = H[Accounts]
  BY DEF LongOf, SumOver, FoldSet, MapThenFoldSet, First
<1> HIDE DEF H
<1>7. \A r \in SUBSET Accounts : H[r] = IF r = {} THEN 0 ELSE g[First(r)] + H[r \ {First(r)}]
  BY <1>3, <1>5
<1>8. Adds(H, g, Accounts)
  BY <1>7 DEF Adds
<1>9. H[Accounts] = h[Accounts]
  <2> HIDE DEF g
  <2> QED BY <1>1, <1>2, <1>8, AddsSame, ChainAssumption
<1> QED
  BY <1>2, <1>6, <1>9

LEMMA ShortAdds ==
  ASSUME NEW bal \in Balances, NEW s \in Series
  PROVE  \E h \in [SUBSET Accounts -> Int] : Adds(h, [a \in Accounts |-> Max0(-bal[a][s])], Accounts)
                                             /\ ShortOf(bal, s) = h[Accounts]
<1> DEFINE g == [a \in Accounts |-> Max0(-bal[a][s])]
           Is(h) == h = [r \in SUBSET Accounts |-> IF r = {} THEN 0
                           ELSE LET x == First(r) IN Max0(-bal[x][s]) + h[r \ {x}]]
           H == CHOOSE h : Is(h)
<1>1. g \in [Accounts -> Int]
  BY DEF Balances, Max0
<1>2. PICK h \in [SUBSET Accounts -> Int] : Adds(h, g, Accounts)
  BY <1>1, AddsExists, ChainAssumption
<1>3. \A r \in SUBSET Accounts : r # {} => g[First(r)] = Max0(-bal[First(r)][s])
  BY FirstIn
<1>4. Is(h)
  <2> HIDE DEF g
  <2>1. \A r \in SUBSET Accounts : h[r] = IF r = {} THEN 0 ELSE Max0(-bal[First(r)][s]) + h[r \ {First(r)}]
    BY <1>2, <1>3 DEF Adds
  <2> QED BY <2>1
<1>5. Is(H)
  BY <1>4
<1>6. ShortOf(bal, s) = H[Accounts]
  BY DEF ShortOf, SumOver, FoldSet, MapThenFoldSet, First
<1> HIDE DEF H
<1>7. \A r \in SUBSET Accounts : H[r] = IF r = {} THEN 0 ELSE g[First(r)] + H[r \ {First(r)}]
  BY <1>3, <1>5
<1>8. Adds(H, g, Accounts)
  BY <1>7 DEF Adds
<1>9. H[Accounts] = h[Accounts]
  <2> HIDE DEF g
  <2> QED BY <1>1, <1>2, <1>8, AddsSame, ChainAssumption
<1> QED
  BY <1>2, <1>6, <1>9

LEMMA SupplyAdds ==
  ASSUME NEW held \in Holdings, NEW s \in Series
  PROVE  \E h \in [SUBSET Holders -> Int] : Adds(h, [a \in Holders |-> held[a][s]], Holders)
                                             /\ SupplyOf(held, s) = h[Holders]
<1> DEFINE g == [a \in Holders |-> held[a][s]]
           Is(h) == h = [r \in SUBSET Holders |-> IF r = {} THEN 0
                           ELSE LET x == First(r) IN held[x][s] + h[r \ {x}]]
           H == CHOOSE h : Is(h)
<1>1. g \in [Holders -> Int]
  BY DEF Holdings
<1>2. PICK h \in [SUBSET Holders -> Int] : Adds(h, g, Holders)
  BY <1>1, AddsExists, ChainAssumption
<1>3. \A r \in SUBSET Holders : r # {} => g[First(r)] = held[First(r)][s]
  BY FirstIn
<1>4. Is(h)
  <2> HIDE DEF g
  <2>1. \A r \in SUBSET Holders : h[r] = IF r = {} THEN 0 ELSE held[First(r)][s] + h[r \ {First(r)}]
    BY <1>2, <1>3 DEF Adds
  <2> QED BY <2>1
<1>5. Is(H)
  BY <1>4
<1>6. SupplyOf(held, s) = H[Holders]
  BY DEF SupplyOf, SumOver, FoldSet, MapThenFoldSet, First
<1> HIDE DEF H
<1>7. \A r \in SUBSET Holders : H[r] = IF r = {} THEN 0 ELSE g[First(r)] + H[r \ {First(r)}]
  BY <1>3, <1>5
<1>8. Adds(H, g, Holders)
  BY <1>7 DEF Adds
<1>9. H[Holders] = h[Holders]
  <2> HIDE DEF g
  <2> QED BY <1>1, <1>2, <1>8, AddsSame, ChainAssumption
<1> QED
  BY <1>2, <1>6, <1>9

-----------------------------------------------------------------------------
(* 2. What the tables say of a state of the contracts                      *)

Groups == [parts : Nat, final : BOOLEAN, atFinal : Nat, ratio : BOOLEAN, swept : BOOLEAN]
Auctions == [active : BOOLEAN, slices : Nat, wraps : Nat]
Funds == [deposited : Int, fees : Int, paid : Int]
Markets == {"none", "active", "paused"}
Statuses == {"none", "OPEN", "PARTIAL", "FILLED", "CANCELLED"}

Worlds == [
  opened : SUBSET Accounts, cash : [Accounts -> Int], listed : SUBSET Series,
  bal : Balances, held : Holdings, group : Groups, auction : [Accounts -> Auctions], fund : Funds,
  market : Markets, size : [Orders -> Int], left : [Orders -> Int], orders : [Orders -> Statuses],
  approved : BOOLEAN, enabled : BOOLEAN, closeOnly : BOOLEAN, seq : Nat, nodes : Nat,
  below : SUBSET Accounts ]

IsTables(t) == t = [
  account |-> t.account, position |-> t.position, series |-> t.series, wrapped |-> t.wrapped,
  group |-> t.group, auction |-> t.auction, fund |-> t.fund, market |-> t.market, order |-> t.order,
  product |-> t.product, surface |-> t.surface, history |-> t.history, processed |-> t.processed, stuck |-> t.stuck ]

AccountsTold(rows, opened, cash) == rows = [a \in opened |-> cash[a]]
PositionsTold(rows, bal) == DOMAIN rows \subseteq Accounts \X Series /\ \A a \in Accounts, s \in Series : Row(rows, <<a, s>>, 0) = bal[a][s]
WrappersTold(rows, held) == \A h \in Holders, s \in Series : Row(rows, <<h, s>>, 0) = held[h][s]
SeriesTold(rows, listed, bal, held) ==
  rows = [s \in listed |-> [long |-> LongOf(bal, s), short |-> ShortOf(bal, s), supply |-> SupplyOf(held, s)]]
GroupTold(rows, listed, group) ==
  \/ rows = NoRows /\ listed = {} /\ group = FreshGroup
  \/ rows = [x \in {"group"} |-> group]
AuctionsTold(rows, auction) == DOMAIN rows \subseteq Accounts /\ \A a \in Accounts : LET row == Row(rows, a, FreshAuction) IN
  row \in Auctions /\ row.active = auction[a].active /\ (row.active => row = auction[a])
FundTold(rows, fund) == Row(rows, "fund", FreshFund) = fund
MarketTold(rows, status) == Row(rows, "market", "none") = status
\* Rows are of orders that were placed.
Placed(rows) == DOMAIN rows \subseteq Orders /\ \A o \in DOMAIN rows : rows[o].status # "none"
OrdersTold(rows, size, left, orders) == Placed(rows) /\ \A o \in Orders :
  Row(rows, o, [size |-> 0, left |-> 0, status |-> "none"]) = [size |-> size[o], left |-> left[o], status |-> orders[o]]
ProductTold(rows, approved, enabled, closeOnly, seq) ==
  \/ rows = NoRows /\ approved = FALSE /\ enabled = FALSE /\ closeOnly = FALSE /\ seq = 0
  \/ rows = [x \in {"product"} |-> [enabled |-> enabled, closeOnly |-> closeOnly, seq |-> seq]]
SurfaceTold(rows, seq, nodes) ==
  DOMAIN rows \subseteq 1..seq /\ (seq > 0 => seq \in DOMAIN rows /\ rows[seq] = nodes)

Tells(t, w) ==
  /\ t.stuck = FALSE
  /\ AccountsTold(t.account, w.opened, w.cash) /\ PositionsTold(t.position, w.bal)
  /\ WrappersTold(t.wrapped, w.held) /\ SeriesTold(t.series, w.listed, w.bal, w.held)
  /\ GroupTold(t.group, w.listed, w.group) /\ AuctionsTold(t.auction, w.auction)
  /\ FundTold(t.fund, w.fund) /\ MarketTold(t.market, w.market)
  /\ OrdersTold(t.order, w.size, w.left, w.orders)
  /\ ProductTold(t.product, w.approved, w.enabled, w.closeOnly, w.seq)
  /\ SurfaceTold(t.surface, w.seq, w.nodes)

TableFields == {"account", "position", "series", "wrapped", "group", "auction", "fund", "market", "order",
                "product", "surface", "history", "processed", "stuck"}
WorldFields == {"opened", "cash", "listed", "bal", "held", "group", "auction", "fund", "market", "size", "left",
                "orders", "approved", "enabled", "closeOnly", "seq", "nodes", "below"}

\* x and y may differ in other fields only.
Alike(x, y, fields) == \A f \in fields : x[f] = y[f]

\* The tables u after a log e that changed the state to v; the log again changes
\* nothing.
Applied(t, e, id, v) == LET u == Handle(t, e, id) IN
  /\ IsTables(u) /\ Tells(u, v)
  /\ u.history = IF Kept(e) THEN t.history \cup {id} ELSE t.history
  /\ u.processed \in {t.processed, t.processed \cup {id}}
  /\ Handle(u, e, id) = u

Before(t, w, id) == IsTables(t) /\ Tells(t, w) /\ w \in Worlds /\ id \notin t.processed

LEMMA Dispatched ==
  ASSUME NEW x, NEW e, NEW id
  PROVE  /\ e.ev = "SubAccountCreated" => Handle(x, e, id) = OnSubAccountCreated(x, e) /\ Kept(e) = FALSE
         /\ e.ev = "CashUpdated" => Handle(x, e, id) = OnCashUpdated(x, e) /\ Kept(e) = FALSE
         /\ e.ev = "BalanceUpdated" => Handle(x, e, id) = OnBalanceUpdated(x, e, id) /\ Kept(e) = TRUE
         /\ e.ev = "ParticipantsUpdated" => Handle(x, e, id) = OnParticipantsUpdated(x, e) /\ Kept(e) = FALSE
         /\ e.ev = "GroupCreated" => Handle(x, e, id) = OnGroupCreated(x) /\ Kept(e) = FALSE
         /\ e.ev = "SeriesCreated" => Handle(x, e, id) = OnSeriesCreated(x, e) /\ Kept(e) = FALSE
         /\ e.ev = "ProductApproved" => Handle(x, e, id) = OnProductApproved(x) /\ Kept(e) = FALSE
         /\ e.ev = "ProductEnabled" => Handle(x, e, id) = OnProductEnabled(x, e) /\ Kept(e) = FALSE
         /\ e.ev = "ProductCloseOnlySet" => Handle(x, e, id) = OnProductCloseOnlySet(x, e, id) /\ Kept(e) = TRUE
         /\ e.ev = "Transfer" => Handle(x, e, id) = OnTransfer(x, e, id) /\ Kept(e) = FALSE
         /\ e.ev = "GroupFinalized" => Handle(x, e, id) = OnGroupFinalized(x, e) /\ Kept(e) = FALSE
         /\ e.ev = "RecoveryRatioSet" => Handle(x, e, id) = SetGroup(x, "ratio", TRUE) /\ Kept(e) = FALSE
         /\ e.ev = "DustSwept" => Handle(x, e, id) = SetGroup(x, "swept", TRUE) /\ Kept(e) = FALSE
         /\ e.ev = "AuctionStarted" => Handle(x, e, id) = OnAuctionStarted(x, e) /\ Kept(e) = FALSE
         /\ e.ev = "SliceLiquidated" => Handle(x, e, id) = OnSliceLiquidated(x, e, id) /\ Kept(e) = TRUE
         /\ e.ev = "WrapperLiquidated" => Handle(x, e, id) = OnWrapperLiquidated(x, e, id) /\ Kept(e) = TRUE
         /\ e.ev = "AuctionEnded" => Handle(x, e, id) = OnAuctionEnded(x, e) /\ Kept(e) = FALSE
         /\ e.ev = "FeeSplit" => Handle(x, e, id) = OnFeeSplit(x, e, id) /\ Kept(e) = TRUE
         /\ e.ev = "InsuranceDeposited" => Handle(x, e, id) = AddFund(x, id, "deposited", e.amount) /\ Kept(e) = FALSE
         /\ e.ev = "InsurancePaid" => Handle(x, e, id) = AddFund(x, id, "paid", e.amount) /\ Kept(e) = FALSE
         /\ e.ev = "SurfaceAccepted" => Handle(x, e, id) = OnSurfaceAccepted(x, e) /\ Kept(e) = FALSE
         /\ e.ev = "NodeProven" => Handle(x, e, id) = OnNodeProven(x, e, id) /\ Kept(e) = FALSE
         /\ e.ev = "MarketRegistered" => Handle(x, e, id) = OnMarketRegistered(x) /\ Kept(e) = FALSE
         /\ e.ev = "MarketStatusSet" => Handle(x, e, id) = OnMarketStatusSet(x, e) /\ Kept(e) = FALSE
         /\ e.ev = "OrderCreated" => Handle(x, e, id) = OnOrderCreated(x, e) /\ Kept(e) = FALSE
         /\ e.ev = "Trade" => Handle(x, e, id) = OnTrade(x, e) /\ Kept(e) = FALSE
         /\ e.ev = "OrdersCanceled" => Handle(x, e, id) = OnOrdersCanceled(x, e) /\ Kept(e) = FALSE
         /\ e.ev \in HistoryOnly => Handle(x, e, id) = History(x, id) /\ Kept(e) = TRUE
<1>1. e.ev = "SubAccountCreated" => Handle(x, e, id) = OnSubAccountCreated(x, e) /\ Kept(e) = FALSE
  BY DEF Handle, Kept, HistoryOnly
<1>2. e.ev = "CashUpdated" => Handle(x, e, id) = OnCashUpdated(x, e) /\ Kept(e) = FALSE
  BY DEF Handle, Kept, HistoryOnly
<1>3. e.ev = "BalanceUpdated" => Handle(x, e, id) = OnBalanceUpdated(x, e, id) /\ Kept(e) = TRUE
  BY DEF Handle, Kept, HistoryOnly
<1>4. e.ev = "ParticipantsUpdated" => Handle(x, e, id) = OnParticipantsUpdated(x, e) /\ Kept(e) = FALSE
  BY DEF Handle, Kept, HistoryOnly
<1>5. e.ev = "GroupCreated" => Handle(x, e, id) = OnGroupCreated(x) /\ Kept(e) = FALSE
  BY DEF Handle, Kept, HistoryOnly
<1>6. e.ev = "SeriesCreated" => Handle(x, e, id) = OnSeriesCreated(x, e) /\ Kept(e) = FALSE
  BY DEF Handle, Kept, HistoryOnly
<1>7. e.ev = "ProductApproved" => Handle(x, e, id) = OnProductApproved(x) /\ Kept(e) = FALSE
  BY DEF Handle, Kept, HistoryOnly
<1>8. e.ev = "ProductEnabled" => Handle(x, e, id) = OnProductEnabled(x, e) /\ Kept(e) = FALSE
  BY DEF Handle, Kept, HistoryOnly
<1>9. e.ev = "ProductCloseOnlySet" => Handle(x, e, id) = OnProductCloseOnlySet(x, e, id) /\ Kept(e) = TRUE
  BY DEF Handle, Kept, HistoryOnly
<1>10. e.ev = "Transfer" => Handle(x, e, id) = OnTransfer(x, e, id) /\ Kept(e) = FALSE
  BY DEF Handle, Kept, HistoryOnly
<1>11. e.ev = "GroupFinalized" => Handle(x, e, id) = OnGroupFinalized(x, e) /\ Kept(e) = FALSE
  BY DEF Handle, Kept, HistoryOnly
<1>12. e.ev = "RecoveryRatioSet" => Handle(x, e, id) = SetGroup(x, "ratio", TRUE) /\ Kept(e) = FALSE
  BY DEF Handle, Kept, HistoryOnly
<1>13. e.ev = "DustSwept" => Handle(x, e, id) = SetGroup(x, "swept", TRUE) /\ Kept(e) = FALSE
  BY DEF Handle, Kept, HistoryOnly
<1>14. e.ev = "AuctionStarted" => Handle(x, e, id) = OnAuctionStarted(x, e) /\ Kept(e) = FALSE
  BY DEF Handle, Kept, HistoryOnly
<1>15. e.ev = "SliceLiquidated" => Handle(x, e, id) = OnSliceLiquidated(x, e, id) /\ Kept(e) = TRUE
  BY DEF Handle, Kept, HistoryOnly
<1>16. e.ev = "WrapperLiquidated" => Handle(x, e, id) = OnWrapperLiquidated(x, e, id) /\ Kept(e) = TRUE
  BY DEF Handle, Kept, HistoryOnly
<1>17. e.ev = "AuctionEnded" => Handle(x, e, id) = OnAuctionEnded(x, e) /\ Kept(e) = FALSE
  BY DEF Handle, Kept, HistoryOnly
<1>18. e.ev = "FeeSplit" => Handle(x, e, id) = OnFeeSplit(x, e, id) /\ Kept(e) = TRUE
  BY DEF Handle, Kept, HistoryOnly
<1>19. e.ev = "InsuranceDeposited" => Handle(x, e, id) = AddFund(x, id, "deposited", e.amount) /\ Kept(e) = FALSE
  BY DEF Handle, Kept, HistoryOnly
<1>20. e.ev = "InsurancePaid" => Handle(x, e, id) = AddFund(x, id, "paid", e.amount) /\ Kept(e) = FALSE
  BY DEF Handle, Kept, HistoryOnly
<1>21. e.ev = "SurfaceAccepted" => Handle(x, e, id) = OnSurfaceAccepted(x, e) /\ Kept(e) = FALSE
  BY DEF Handle, Kept, HistoryOnly
<1>22. e.ev = "NodeProven" => Handle(x, e, id) = OnNodeProven(x, e, id) /\ Kept(e) = FALSE
  BY DEF Handle, Kept, HistoryOnly
<1>23. e.ev = "MarketRegistered" => Handle(x, e, id) = OnMarketRegistered(x) /\ Kept(e) = FALSE
  BY DEF Handle, Kept, HistoryOnly
<1>24. e.ev = "MarketStatusSet" => Handle(x, e, id) = OnMarketStatusSet(x, e) /\ Kept(e) = FALSE
  BY DEF Handle, Kept, HistoryOnly
<1>25. e.ev = "OrderCreated" => Handle(x, e, id) = OnOrderCreated(x, e) /\ Kept(e) = FALSE
  BY DEF Handle, Kept, HistoryOnly
<1>26. e.ev = "Trade" => Handle(x, e, id) = OnTrade(x, e) /\ Kept(e) = FALSE
  BY DEF Handle, Kept, HistoryOnly
<1>27. e.ev = "OrdersCanceled" => Handle(x, e, id) = OnOrdersCanceled(x, e) /\ Kept(e) = FALSE
  BY DEF Handle, Kept, HistoryOnly
<1>28. e.ev \in HistoryOnly => Handle(x, e, id) = History(x, id) /\ Kept(e) = TRUE
  BY DEF Handle, Kept, HistoryOnly
<1> QED
  BY <1>1, <1>2, <1>3, <1>4, <1>5, <1>6, <1>7, <1>8, <1>9, <1>10, <1>11, <1>12, <1>13, <1>14, <1>15, <1>16, <1>17, <1>18, <1>19, <1>20, <1>21, <1>22, <1>23, <1>24, <1>25, <1>26, <1>27, <1>28

\* One field replaced.
With(u, t, f, x) == IsTables(u) /\ u[f] = x /\ Alike(u, t, TableFields \ {f})

LEMMA TablesWith ==
  ASSUME NEW t, IsTables(t), NEW x
  PROVE  /\ With([t EXCEPT !.account = x], t, "account", x)
         /\ With([t EXCEPT !.position = x], t, "position", x)
         /\ With([t EXCEPT !.series = x], t, "series", x)
         /\ With([t EXCEPT !.wrapped = x], t, "wrapped", x)
         /\ With([t EXCEPT !.group = x], t, "group", x)
         /\ With([t EXCEPT !.auction = x], t, "auction", x)
         /\ With([t EXCEPT !.fund = x], t, "fund", x)
         /\ With([t EXCEPT !.market = x], t, "market", x)
         /\ With([t EXCEPT !.order = x], t, "order", x)
         /\ With([t EXCEPT !.product = x], t, "product", x)
         /\ With([t EXCEPT !.surface = x], t, "surface", x)
         /\ With([t EXCEPT !.history = x], t, "history", x)
         /\ With([t EXCEPT !.processed = x], t, "processed", x)
<1>1. With([t EXCEPT !.account = x], t, "account", x)
  BY DEF With, IsTables, Alike, TableFields
<1>2. With([t EXCEPT !.position = x], t, "position", x)
  BY DEF With, IsTables, Alike, TableFields
<1>3. With([t EXCEPT !.series = x], t, "series", x)
  BY DEF With, IsTables, Alike, TableFields
<1>4. With([t EXCEPT !.wrapped = x], t, "wrapped", x)
  BY DEF With, IsTables, Alike, TableFields
<1>5. With([t EXCEPT !.group = x], t, "group", x)
  BY DEF With, IsTables, Alike, TableFields
<1>6. With([t EXCEPT !.auction = x], t, "auction", x)
  BY DEF With, IsTables, Alike, TableFields
<1>7. With([t EXCEPT !.fund = x], t, "fund", x)
  BY DEF With, IsTables, Alike, TableFields
<1>8. With([t EXCEPT !.market = x], t, "market", x)
  BY DEF With, IsTables, Alike, TableFields
<1>9. With([t EXCEPT !.order = x], t, "order", x)
  BY DEF With, IsTables, Alike, TableFields
<1>10. With([t EXCEPT !.product = x], t, "product", x)
  BY DEF With, IsTables, Alike, TableFields
<1>11. With([t EXCEPT !.surface = x], t, "surface", x)
  BY DEF With, IsTables, Alike, TableFields
<1>12. With([t EXCEPT !.history = x], t, "history", x)
  BY DEF With, IsTables, Alike, TableFields
<1>13. With([t EXCEPT !.processed = x], t, "processed", x)
  BY DEF With, IsTables, Alike, TableFields
<1> QED
  BY <1>1, <1>2, <1>3, <1>4, <1>5, <1>6, <1>7, <1>8, <1>9, <1>10, <1>11, <1>12, <1>13

\* Replaced by itself.
LEMMA TablesSame ==
  ASSUME NEW t, IsTables(t)
  PROVE  /\ [t EXCEPT !.account = t.account] = t
         /\ [t EXCEPT !.position = t.position] = t
         /\ [t EXCEPT !.series = t.series] = t
         /\ [t EXCEPT !.wrapped = t.wrapped] = t
         /\ [t EXCEPT !.group = t.group] = t
         /\ [t EXCEPT !.auction = t.auction] = t
         /\ [t EXCEPT !.fund = t.fund] = t
         /\ [t EXCEPT !.market = t.market] = t
         /\ [t EXCEPT !.order = t.order] = t
         /\ [t EXCEPT !.product = t.product] = t
         /\ [t EXCEPT !.surface = t.surface] = t
         /\ [t EXCEPT !.history = t.history] = t
         /\ [t EXCEPT !.processed = t.processed] = t
BY DEF IsTables

\* The same of a state of the contracts.
WorldWith(v, w, f, x) == v \in Worlds /\ v[f] = x /\ Alike(v, w, WorldFields \ {f})

LEMMA WorldsWith ==
  ASSUME NEW w \in Worlds, NEW x
  PROVE  /\ x \in SUBSET Accounts => WorldWith([w EXCEPT !.opened = x], w, "opened", x)
         /\ x \in [Accounts -> Int] => WorldWith([w EXCEPT !.cash = x], w, "cash", x)
         /\ x \in SUBSET Series => WorldWith([w EXCEPT !.listed = x], w, "listed", x)
         /\ x \in Balances => WorldWith([w EXCEPT !.bal = x], w, "bal", x)
         /\ x \in Holdings => WorldWith([w EXCEPT !.held = x], w, "held", x)
         /\ x \in Groups => WorldWith([w EXCEPT !.group = x], w, "group", x)
         /\ x \in [Accounts -> Auctions] => WorldWith([w EXCEPT !.auction = x], w, "auction", x)
         /\ x \in Funds => WorldWith([w EXCEPT !.fund = x], w, "fund", x)
         /\ x \in Markets => WorldWith([w EXCEPT !.market = x], w, "market", x)
         /\ x \in [Orders -> Statuses] => WorldWith([w EXCEPT !.orders = x], w, "orders", x)
         /\ x \in [Orders -> Int] => WorldWith([w EXCEPT !.size = x], w, "size", x)
         /\ x \in [Orders -> Int] => WorldWith([w EXCEPT !.left = x], w, "left", x)
         /\ x \in BOOLEAN => WorldWith([w EXCEPT !.approved = x], w, "approved", x)
         /\ x \in BOOLEAN => WorldWith([w EXCEPT !.enabled = x], w, "enabled", x)
         /\ x \in BOOLEAN => WorldWith([w EXCEPT !.closeOnly = x], w, "closeOnly", x)
         /\ x \in Nat => WorldWith([w EXCEPT !.seq = x], w, "seq", x)
         /\ x \in Nat => WorldWith([w EXCEPT !.nodes = x], w, "nodes", x)
<1>1. x \in SUBSET Accounts => WorldWith([w EXCEPT !.opened = x], w, "opened", x)
  BY DEF WorldWith, Worlds, Alike, WorldFields
<1>2. x \in [Accounts -> Int] => WorldWith([w EXCEPT !.cash = x], w, "cash", x)
  BY DEF WorldWith, Worlds, Alike, WorldFields
<1>3. x \in SUBSET Series => WorldWith([w EXCEPT !.listed = x], w, "listed", x)
  BY DEF WorldWith, Worlds, Alike, WorldFields
<1>4. x \in Balances => WorldWith([w EXCEPT !.bal = x], w, "bal", x)
  BY DEF WorldWith, Worlds, Alike, WorldFields
<1>5. x \in Holdings => WorldWith([w EXCEPT !.held = x], w, "held", x)
  BY DEF WorldWith, Worlds, Alike, WorldFields
<1>6. x \in Groups => WorldWith([w EXCEPT !.group = x], w, "group", x)
  BY DEF WorldWith, Worlds, Alike, WorldFields
<1>7. x \in [Accounts -> Auctions] => WorldWith([w EXCEPT !.auction = x], w, "auction", x)
  BY DEF WorldWith, Worlds, Alike, WorldFields
<1>8. x \in Funds => WorldWith([w EXCEPT !.fund = x], w, "fund", x)
  BY DEF WorldWith, Worlds, Alike, WorldFields
<1>9. x \in Markets => WorldWith([w EXCEPT !.market = x], w, "market", x)
  BY DEF WorldWith, Worlds, Alike, WorldFields
<1>10. x \in [Orders -> Statuses] => WorldWith([w EXCEPT !.orders = x], w, "orders", x)
  BY DEF WorldWith, Worlds, Alike, WorldFields
<1>11. x \in [Orders -> Int] => WorldWith([w EXCEPT !.size = x], w, "size", x)
  BY DEF WorldWith, Worlds, Alike, WorldFields
<1>12. x \in [Orders -> Int] => WorldWith([w EXCEPT !.left = x], w, "left", x)
  BY DEF WorldWith, Worlds, Alike, WorldFields
<1>13. x \in BOOLEAN => WorldWith([w EXCEPT !.approved = x], w, "approved", x)
  BY DEF WorldWith, Worlds, Alike, WorldFields
<1>14. x \in BOOLEAN => WorldWith([w EXCEPT !.enabled = x], w, "enabled", x)
  BY DEF WorldWith, Worlds, Alike, WorldFields
<1>15. x \in BOOLEAN => WorldWith([w EXCEPT !.closeOnly = x], w, "closeOnly", x)
  BY DEF WorldWith, Worlds, Alike, WorldFields
<1>16. x \in Nat => WorldWith([w EXCEPT !.seq = x], w, "seq", x)
  BY DEF WorldWith, Worlds, Alike, WorldFields
<1>17. x \in Nat => WorldWith([w EXCEPT !.nodes = x], w, "nodes", x)
  BY DEF WorldWith, Worlds, Alike, WorldFields
<1> QED
  BY <1>1, <1>2, <1>3, <1>4, <1>5, <1>6, <1>7, <1>8, <1>9, <1>10, <1>11, <1>12, <1>13, <1>14, <1>15, <1>16, <1>17

\* What the readers of the logs take from one: a series, a balance, an account, an
\* auction, an order.
Lists(e) == IF e.ev = "SeriesCreated" THEN {e.series} ELSE {}
Opens(e) == IF e.ev = "SubAccountCreated" THEN {e.acct} ELSE {}

Starts(e, a) == e.ev = "AuctionStarted" /\ e.acct = a
Ends(e, a) == e.ev = "AuctionEnded" /\ e.acct = a

StoredRow(size, left, status) == [size |-> size, left |-> left, status |-> status]
OrderOf(w, o) == StoredRow(w.size[o], w.left[o], w.orders[o])

Names(e, o) == (e.ev \in {"OrderCreated", "Trade"} /\ e.order = o) \/ (e.ev = "OrdersCanceled" /\ o \in e.orders)

\* From the row r the log e leads to the row y of the order o.
OrderMoves(r, e, o, y) ==
  \/ ~Names(e, o) /\ y = r
  \/ /\ e.ev = "OrderCreated" /\ e.order = o
     /\ r.status = "none" /\ y = StoredRow(e.size, e.size, "OPEN")
  \/ /\ e.ev = "Trade" /\ e.order = o
     /\ r.status \in {"OPEN", "PARTIAL"} /\ e.left \in Nat /\ r.size \in Int /\ e.left < r.size
     /\ y = StoredRow(r.size, e.left, IF e.left = 0 THEN "FILLED" ELSE "PARTIAL")
  \/ /\ e.ev = "OrdersCanceled" /\ o \in e.orders
     /\ r.status \in {"OPEN", "PARTIAL"} /\ y = StoredRow(r.size, 0, "CANCELLED")

AuctionsMove(w, e, v) == \A a \in Accounts :
  v.auction[a].active <=> Starts(e, a) \/ (w.auction[a].active /\ ~Ends(e, a))

Marks(w, e, v) ==
  /\ v.opened = w.opened \cup Opens(e) /\ AuctionsMove(w, e, v)
  /\ \A o \in Orders : OrderMoves(OrderOf(w, o), e, o, OrderOf(v, o))

Follows(w, e, v) == v.listed \subseteq w.listed \cup Lists(e) /\ v.bal = Record(w.bal, e) /\ Marks(w, e, v)

Marking == {"SubAccountCreated", "AuctionStarted", "AuctionEnded", "OrderCreated", "Trade", "OrdersCanceled"}

LEMMA QuietLog ==
  ASSUME NEW w, NEW e, e.ev \notin Marking, NEW v, v.opened = w.opened, v.auction = w.auction,
         v.orders = w.orders, v.size = w.size, v.left = w.left
  PROVE  Marks(w, e, v)
<1>1. Opens(e) = {}
  BY DEF Opens, Marking
<1>2. AuctionsMove(w, e, v)
  BY DEF AuctionsMove, Starts, Ends, Marking
<1>3. \A o \in Orders : ~Names(e, o) /\ OrderOf(v, o) = OrderOf(w, o)
  BY DEF Names, OrderOf, Marking
<1> QED
  BY <1>1, <1>2, <1>3 DEF Marks, OrderMoves

\* A log of the auction of an account, of which f is left.
LEMMA AuctionMarks ==
  ASSUME NEW w, w.auction \in [Accounts -> Auctions], NEW a \in Accounts, NEW f,
         NEW v, WorldWith(v, w, "auction", [w.auction EXCEPT ![a] = f]),
         NEW e, e.ev \notin {"SubAccountCreated", "OrderCreated", "Trade", "OrdersCanceled"}, e.acct = a,
         f.active <=> e.ev = "AuctionStarted" \/ (w.auction[a].active /\ e.ev # "AuctionEnded")
  PROVE  Marks(w, e, v)
<1>1. \A b \in Accounts : v.auction[b] = IF b = a THEN f ELSE w.auction[b]
  BY DEF WorldWith
<1>2. v.opened = w.opened /\ v.orders = w.orders /\ v.size = w.size /\ v.left = w.left
  BY DEF WorldWith, Alike, WorldFields
<1>3. Opens(e) = {}
  BY DEF Opens
<1>4. AuctionsMove(w, e, v)
  BY <1>1 DEF AuctionsMove, Starts, Ends
<1>5. \A o \in Orders : ~Names(e, o) /\ OrderOf(v, o) = OrderOf(w, o)
  BY <1>2 DEF Names, OrderOf
<1> QED
  BY <1>2, <1>3, <1>4, <1>5 DEF Marks, OrderMoves

\* A log e of a transaction that changed the state from w to v, handled.
Steps(w, e, v) == Follows(w, e, v) /\ \A t, id : Before(t, w, id) => Applied(t, e, id, v)

\* Logs that are only kept as history.
LEMMA HistoryStep ==
  ASSUME NEW w \in Worlds, NEW e, e.ev \in HistoryOnly
  PROVE  Steps(w, e, w)
<1>b. Marks(w, e, w)
  BY QuietLog DEF Marking, HistoryOnly
<1>a. Follows(w, e, w)
  BY <1>b DEF Follows, Lists, Record, WorldWith, Alike, WorldFields, Worlds, HistoryOnly
<1> SUFFICES ASSUME NEW t, NEW id, Before(t, w, id) PROVE Applied(t, e, id, w)
  BY <1>a DEF Steps
<1>1. IsTables(t) /\ Tells(t, w)
  BY DEF Before
<1>2. PICK u : u = [t EXCEPT !.history = t.history \cup {id}]
  OBVIOUS
<1>3. With(u, t, "history", t.history \cup {id})
  BY <1>1, <1>2, TablesWith
<1>4. Handle(t, e, id) = u /\ Kept(e) = TRUE
  BY <1>2, Dispatched DEF History
<1>5. Handle(u, e, id) = u
  <2>1. u.history \cup {id} = u.history
    BY <1>3 DEF With
  <2>2. [u EXCEPT !.history = u.history] = u
    BY <1>3, TablesSame DEF With
  <2>3. Handle(u, e, id) = [u EXCEPT !.history = u.history \cup {id}]
    BY Dispatched DEF History
  <2> QED BY <2>1, <2>2, <2>3
<1>6. Tells(u, w) /\ u.processed = t.processed
  BY <1>1, <1>3 DEF With, Alike, TableFields, Tells
<1> QED
  BY <1>3, <1>4, <1>5, <1>6 DEF Applied, With

LEMMA CashStep ==
  ASSUME NEW w \in Worlds, NEW a \in w.opened, NEW c \in Int
  PROVE  Steps(w, [ev |-> "CashUpdated", acct |-> a, cash |-> c], [w EXCEPT !.cash[a] = c])
<1> DEFINE e == [ev |-> "CashUpdated", acct |-> a, cash |-> c]
           v == [w EXCEPT !.cash = [w.cash EXCEPT ![a] = c]]
<1>0. e.ev = "CashUpdated" /\ e.acct = a /\ e.cash = c
  OBVIOUS
<1> HIDE DEF e
<1>c. v.opened = w.opened /\ v.auction = w.auction /\ v.orders = w.orders /\ v.size = w.size /\ v.left = w.left
  BY DEF Worlds
<1>b. Marks(w, e, v)
  <2> HIDE DEF v
  <2> QED BY <1>0, <1>c, QuietLog DEF Marking
<1>a. Follows(w, e, v)
  BY <1>0, <1>b DEF Follows, Lists, Record, WorldWith, Alike, WorldFields, Worlds
<1> SUFFICES ASSUME NEW t, NEW id, Before(t, w, id) PROVE Applied(t, e, id, v)
  BY <1>a DEF Steps, e
<1>1. IsTables(t) /\ Tells(t, w)
  BY DEF Before
<1>2. PICK u : u = [t EXCEPT !.account = Put(t.account, a, c)]
  OBVIOUS
<1>3. With(u, t, "account", Put(t.account, a, c))
  BY <1>1, <1>2, TablesWith
<1>4. DOMAIN t.account = w.opened /\ \A b \in w.opened : t.account[b] = w.cash[b]
  BY <1>1 DEF Tells, AccountsTold
<1>5. WorldWith(v, w, "cash", [w.cash EXCEPT ![a] = c])
  <2>1. [w.cash EXCEPT ![a] = c] \in [Accounts -> Int]
    BY DEF Worlds
  <2> QED BY <2>1, WorldsWith
<1> HIDE DEF v
<1>6. w.opened \in SUBSET Accounts /\ w.cash \in [Accounts -> Int] /\ w.opened = v.opened /\ v.cash = [w.cash EXCEPT ![a] = c]
  BY <1>5 DEF WorldWith, Worlds, Alike, WorldFields
<1>7. u.account = [b \in v.opened |-> v.cash[b]]
  BY <1>3, <1>4, <1>6 DEF With, Put
<1>20. Handle(t, e, id) = OnCashUpdated(t, e) /\ Handle(u, e, id) = OnCashUpdated(u, e) /\ Kept(e) = FALSE
  BY <1>0, Dispatched
<1>8. Handle(t, e, id) = u
  BY <1>0, <1>2, <1>4, <1>20 DEF OnCashUpdated
<1>9. Handle(u, e, id) = u
  <2>1. Put(u.account, a, c) = u.account /\ a \in DOMAIN u.account
    BY <1>6, <1>7 DEF Put
  <2>2. [u EXCEPT !.account = u.account] = u
    BY <1>3, TablesSame DEF With
  <2> QED BY <1>0, <1>20, <2>1, <2>2 DEF OnCashUpdated
<1>10. Tells(u, v) /\ u.processed = t.processed /\ u.history = t.history
  BY <1>1, <1>3, <1>5, <1>7 DEF With, WorldWith, Alike, TableFields, WorldFields, Tells, AccountsTold
<1> QED
  BY <1>3, <1>8, <1>9, <1>10, <1>20 DEF Applied, With

-----------------------------------------------------------------------------
(* The settlement group *)

LEMMA PartsStep ==
  ASSUME NEW w \in Worlds, w.listed # {}, NEW n \in Nat
  PROVE  Steps(w, [ev |-> "ParticipantsUpdated", parts |-> n], [w EXCEPT !.group = [w.group EXCEPT !.parts = n]])
<1> DEFINE e == [ev |-> "ParticipantsUpdated", parts |-> n]
           g == [w.group EXCEPT !.parts = n]
           v == [w EXCEPT !.group = g]
<1>0. e.ev = "ParticipantsUpdated" /\ e.parts = n
  OBVIOUS
<1> HIDE DEF e
<1>1. w.group \in Groups /\ g \in Groups
  BY DEF Worlds, Groups
<1>2. WorldWith(v, w, "group", g)
  BY <1>1, WorldsWith
<1> HIDE DEF v
<1>b. Marks(w, e, v)
  BY <1>0, <1>2, QuietLog DEF Marking, WorldWith, Alike, WorldFields
<1>a. Follows(w, e, v)
  BY <1>0, <1>2, <1>b DEF Follows, Lists, Record, WorldWith, Alike, WorldFields, Worlds
<1> SUFFICES ASSUME NEW t, NEW id, Before(t, w, id) PROVE Applied(t, e, id, v)
  BY <1>a DEF Steps, e, v
<1>3. IsTables(t) /\ Tells(t, w)
  BY DEF Before
<1>4. t.group = [x \in {"group"} |-> w.group] /\ t.group # NoRows
  <2>1. t.group = [x \in {"group"} |-> w.group]
    BY <1>3 DEF Tells, GroupTold
  <2>2. DOMAIN NoRows = {} /\ DOMAIN [x \in {"group"} |-> w.group] = {"group"}
    BY DEF NoRows
  <2> QED BY <2>1, <2>2
<1>5. PICK rows : rows = [x \in {"group"} |-> g]
  OBVIOUS
<1>6. PICK u : u = [t EXCEPT !.group = rows]
  OBVIOUS
<1>7. With(u, t, "group", rows)
  BY <1>3, <1>6, TablesWith
<1>8. rows # NoRows
  <2>1. DOMAIN NoRows = {} /\ DOMAIN rows = {"group"}
    BY <1>5 DEF NoRows
  <2> QED BY <2>1
<1>9. Handle(t, e, id) = OnParticipantsUpdated(t, e) /\ Handle(u, e, id) = OnParticipantsUpdated(u, e) /\ Kept(e) = FALSE
  BY <1>0, Dispatched
<1>10. Handle(t, e, id) = u
  <2>1. [t.group EXCEPT !["group"] = [t.group["group"] EXCEPT !.parts = n]] = rows
    BY <1>0, <1>1, <1>4, <1>5 DEF Groups
  <2>2. Handle(t, e, id) = [t EXCEPT !.group = [t.group EXCEPT !["group"] = [t.group["group"] EXCEPT !.parts = n]]]
    BY <1>0, <1>4, <1>9 DEF OnParticipantsUpdated
  <2> QED BY <1>6, <2>1, <2>2
<1>11. Handle(u, e, id) = u
  <2>1. u.group = rows
    BY <1>7 DEF With
  <2>2. [u.group EXCEPT !["group"] = [u.group["group"] EXCEPT !.parts = n]] = rows
    <3>1. rows["group"] = g
      BY <1>5
    <3>2. [g EXCEPT !.parts = n] = g
      BY <1>1 DEF Groups
    <3>3. [rows EXCEPT !["group"] = g] = rows
      BY <1>5
    <3> QED BY <2>1, <3>1, <3>2, <3>3
  <2>3. Handle(u, e, id) = [u EXCEPT !.group = [u.group EXCEPT !["group"] = [u.group["group"] EXCEPT !.parts = n]]]
    BY <1>0, <1>8, <1>9, <2>1 DEF OnParticipantsUpdated
  <2>4. [u EXCEPT !.group = u.group] = u
    BY <1>7, TablesSame DEF With
  <2> QED BY <2>1, <2>2, <2>3, <2>4
<1>12. Tells(u, v) /\ u.processed = t.processed /\ u.history = t.history
  BY <1>2, <1>3, <1>5, <1>7 DEF With, WorldWith, Alike, TableFields, WorldFields, Tells, GroupTold
<1> QED
  BY <1>7, <1>9, <1>10, <1>11, <1>12 DEF Applied, With

LEMMA RatioStep ==
  ASSUME NEW w \in Worlds, w.listed # {}
  PROVE  Steps(w, [ev |-> "RecoveryRatioSet"], [w EXCEPT !.group = [w.group EXCEPT !.ratio = TRUE]])
<1> DEFINE e == [ev |-> "RecoveryRatioSet"]
           g == [w.group EXCEPT !.ratio = TRUE]
           v == [w EXCEPT !.group = g]
<1>0. e.ev = "RecoveryRatioSet"
  OBVIOUS
<1> HIDE DEF e
<1>1. w.group \in Groups /\ g \in Groups
  BY DEF Worlds, Groups
<1>2. WorldWith(v, w, "group", g)
  BY <1>1, WorldsWith
<1> HIDE DEF v
<1>b. Marks(w, e, v)
  BY <1>0, <1>2, QuietLog DEF Marking, WorldWith, Alike, WorldFields
<1>a. Follows(w, e, v)
  BY <1>0, <1>2, <1>b DEF Follows, Lists, Record, WorldWith, Alike, WorldFields, Worlds
<1> SUFFICES ASSUME NEW t, NEW id, Before(t, w, id) PROVE Applied(t, e, id, v)
  BY <1>a DEF Steps, e, v
<1>3. IsTables(t) /\ Tells(t, w)
  BY DEF Before
<1>4. t.group = [x \in {"group"} |-> w.group] /\ t.group # NoRows
  <2>1. t.group = [x \in {"group"} |-> w.group]
    BY <1>3 DEF Tells, GroupTold
  <2>2. DOMAIN NoRows = {} /\ DOMAIN [x \in {"group"} |-> w.group] = {"group"}
    BY DEF NoRows
  <2> QED BY <2>1, <2>2
<1>5. PICK rows : rows = [x \in {"group"} |-> g]
  OBVIOUS
<1>6. PICK u : u = [t EXCEPT !.group = rows]
  OBVIOUS
<1>7. With(u, t, "group", rows)
  BY <1>3, <1>6, TablesWith
<1>8. rows # NoRows
  <2>1. DOMAIN NoRows = {} /\ DOMAIN rows = {"group"}
    BY <1>5 DEF NoRows
  <2> QED BY <2>1
<1>9. Handle(t, e, id) = SetGroup(t, "ratio", TRUE) /\ Handle(u, e, id) = SetGroup(u, "ratio", TRUE) /\ Kept(e) = FALSE
  BY <1>0, Dispatched
<1>10. Handle(t, e, id) = u
  <2>1. [t.group EXCEPT !["group"] = [t.group["group"] EXCEPT !.ratio = TRUE]] = rows
    BY <1>0, <1>1, <1>4, <1>5 DEF Groups
  <2>2. Handle(t, e, id) = [t EXCEPT !.group = [t.group EXCEPT !["group"] = [t.group["group"] EXCEPT !.ratio = TRUE]]]
    BY <1>0, <1>4, <1>9 DEF SetGroup
  <2> QED BY <1>6, <2>1, <2>2
<1>11. Handle(u, e, id) = u
  <2>1. u.group = rows
    BY <1>7 DEF With
  <2>2. [u.group EXCEPT !["group"] = [u.group["group"] EXCEPT !.ratio = TRUE]] = rows
    <3>1. rows["group"] = g
      BY <1>5
    <3>2. [g EXCEPT !.ratio = TRUE] = g
      BY <1>1 DEF Groups
    <3>3. [rows EXCEPT !["group"] = g] = rows
      BY <1>5
    <3> QED BY <2>1, <3>1, <3>2, <3>3
  <2>3. Handle(u, e, id) = [u EXCEPT !.group = [u.group EXCEPT !["group"] = [u.group["group"] EXCEPT !.ratio = TRUE]]]
    BY <1>0, <1>8, <1>9, <2>1 DEF SetGroup
  <2>4. [u EXCEPT !.group = u.group] = u
    BY <1>7, TablesSame DEF With
  <2> QED BY <2>1, <2>2, <2>3, <2>4
<1>12. Tells(u, v) /\ u.processed = t.processed /\ u.history = t.history
  BY <1>2, <1>3, <1>5, <1>7 DEF With, WorldWith, Alike, TableFields, WorldFields, Tells, GroupTold
<1> QED
  BY <1>7, <1>9, <1>10, <1>11, <1>12 DEF Applied, With

LEMMA SweptStep ==
  ASSUME NEW w \in Worlds, w.listed # {}
  PROVE  Steps(w, [ev |-> "DustSwept"], [w EXCEPT !.group = [w.group EXCEPT !.swept = TRUE]])
<1> DEFINE e == [ev |-> "DustSwept"]
           g == [w.group EXCEPT !.swept = TRUE]
           v == [w EXCEPT !.group = g]
<1>0. e.ev = "DustSwept"
  OBVIOUS
<1> HIDE DEF e
<1>1. w.group \in Groups /\ g \in Groups
  BY DEF Worlds, Groups
<1>2. WorldWith(v, w, "group", g)
  BY <1>1, WorldsWith
<1> HIDE DEF v
<1>b. Marks(w, e, v)
  BY <1>0, <1>2, QuietLog DEF Marking, WorldWith, Alike, WorldFields
<1>a. Follows(w, e, v)
  BY <1>0, <1>2, <1>b DEF Follows, Lists, Record, WorldWith, Alike, WorldFields, Worlds
<1> SUFFICES ASSUME NEW t, NEW id, Before(t, w, id) PROVE Applied(t, e, id, v)
  BY <1>a DEF Steps, e, v
<1>3. IsTables(t) /\ Tells(t, w)
  BY DEF Before
<1>4. t.group = [x \in {"group"} |-> w.group] /\ t.group # NoRows
  <2>1. t.group = [x \in {"group"} |-> w.group]
    BY <1>3 DEF Tells, GroupTold
  <2>2. DOMAIN NoRows = {} /\ DOMAIN [x \in {"group"} |-> w.group] = {"group"}
    BY DEF NoRows
  <2> QED BY <2>1, <2>2
<1>5. PICK rows : rows = [x \in {"group"} |-> g]
  OBVIOUS
<1>6. PICK u : u = [t EXCEPT !.group = rows]
  OBVIOUS
<1>7. With(u, t, "group", rows)
  BY <1>3, <1>6, TablesWith
<1>8. rows # NoRows
  <2>1. DOMAIN NoRows = {} /\ DOMAIN rows = {"group"}
    BY <1>5 DEF NoRows
  <2> QED BY <2>1
<1>9. Handle(t, e, id) = SetGroup(t, "swept", TRUE) /\ Handle(u, e, id) = SetGroup(u, "swept", TRUE) /\ Kept(e) = FALSE
  BY <1>0, Dispatched
<1>10. Handle(t, e, id) = u
  <2>1. [t.group EXCEPT !["group"] = [t.group["group"] EXCEPT !.swept = TRUE]] = rows
    BY <1>0, <1>1, <1>4, <1>5 DEF Groups
  <2>2. Handle(t, e, id) = [t EXCEPT !.group = [t.group EXCEPT !["group"] = [t.group["group"] EXCEPT !.swept = TRUE]]]
    BY <1>0, <1>4, <1>9 DEF SetGroup
  <2> QED BY <1>6, <2>1, <2>2
<1>11. Handle(u, e, id) = u
  <2>1. u.group = rows
    BY <1>7 DEF With
  <2>2. [u.group EXCEPT !["group"] = [u.group["group"] EXCEPT !.swept = TRUE]] = rows
    <3>1. rows["group"] = g
      BY <1>5
    <3>2. [g EXCEPT !.swept = TRUE] = g
      BY <1>1 DEF Groups
    <3>3. [rows EXCEPT !["group"] = g] = rows
      BY <1>5
    <3> QED BY <2>1, <3>1, <3>2, <3>3
  <2>3. Handle(u, e, id) = [u EXCEPT !.group = [u.group EXCEPT !["group"] = [u.group["group"] EXCEPT !.swept = TRUE]]]
    BY <1>0, <1>8, <1>9, <2>1 DEF SetGroup
  <2>4. [u EXCEPT !.group = u.group] = u
    BY <1>7, TablesSame DEF With
  <2> QED BY <2>1, <2>2, <2>3, <2>4
<1>12. Tells(u, v) /\ u.processed = t.processed /\ u.history = t.history
  BY <1>2, <1>3, <1>5, <1>7 DEF With, WorldWith, Alike, TableFields, WorldFields, Tells, GroupTold
<1> QED
  BY <1>7, <1>9, <1>10, <1>11, <1>12 DEF Applied, With

LEMMA FinalStep ==
  ASSUME NEW w \in Worlds, w.listed # {}, NEW n \in Nat
  PROVE  Steps(w, [ev |-> "GroupFinalized", parts |-> n], [w EXCEPT !.group = [w.group EXCEPT !.final = TRUE, !.atFinal = n]])
<1> DEFINE e == [ev |-> "GroupFinalized", parts |-> n]
           g == [w.group EXCEPT !.final = TRUE, !.atFinal = n]
           mid == [x \in {"group"} |-> [w.group EXCEPT !.final = TRUE]]
           v == [w EXCEPT !.group = g]
<1>0. e.ev = "GroupFinalized" /\ e.parts = n
  OBVIOUS
<1> HIDE DEF e
<1>1. w.group \in Groups /\ g \in Groups
  BY DEF Worlds, Groups
<1>2. WorldWith(v, w, "group", g)
  BY <1>1, WorldsWith
<1> HIDE DEF v
<1>b. Marks(w, e, v)
  BY <1>0, <1>2, QuietLog DEF Marking, WorldWith, Alike, WorldFields
<1>a. Follows(w, e, v)
  BY <1>0, <1>2, <1>b DEF Follows, Lists, Record, WorldWith, Alike, WorldFields, Worlds
<1> SUFFICES ASSUME NEW t, NEW id, Before(t, w, id) PROVE Applied(t, e, id, v)
  BY <1>a DEF Steps, e, v
<1>3. IsTables(t) /\ Tells(t, w)
  BY DEF Before
<1>4. t.group = [x \in {"group"} |-> w.group] /\ t.group # NoRows
  <2>1. t.group = [x \in {"group"} |-> w.group]
    BY <1>3 DEF Tells, GroupTold
  <2>2. DOMAIN NoRows = {} /\ DOMAIN [x \in {"group"} |-> w.group] = {"group"}
    BY DEF NoRows
  <2> QED BY <2>1, <2>2
<1>5. PICK rows : rows = [x \in {"group"} |-> g]
  OBVIOUS
<1>6. PICK u : u = [t EXCEPT !.group = rows]
  OBVIOUS
<1>7. With(u, t, "group", rows)
  BY <1>3, <1>6, TablesWith
<1>8. rows # NoRows
  <2>1. DOMAIN NoRows = {} /\ DOMAIN rows = {"group"}
    BY <1>5 DEF NoRows
  <2> QED BY <2>1
<1>9. Handle(t, e, id) = OnGroupFinalized(t, e) /\ Handle(u, e, id) = OnGroupFinalized(u, e) /\ Kept(e) = FALSE
  BY <1>0, Dispatched
<1>10. Handle(t, e, id) = u
  <2>1. [t.group EXCEPT !["group"] = [t.group["group"] EXCEPT !.final = TRUE]] = mid
    BY <1>1, <1>4 DEF Groups
  <2>2. SetGroup(t, "final", TRUE) = [t EXCEPT !.group = mid]
    BY <1>4, <2>1 DEF SetGroup
  <2>3. PICK y : y = [t EXCEPT !.group = mid]
    OBVIOUS
  <2>4. With(y, t, "group", mid)
    BY <1>3, <2>3, TablesWith
  <2>5. y.group = mid /\ mid # NoRows
    <3>1. DOMAIN NoRows = {} /\ DOMAIN mid = {"group"}
      BY DEF NoRows
    <3> QED BY <2>4, <3>1 DEF With
  <2>6. [mid EXCEPT !["group"] = [mid["group"] EXCEPT !.atFinal = e.parts]] = rows
    BY <1>0, <1>1, <1>5 DEF Groups
  <2>7. SetGroup(y, "atFinal", e.parts) = [y EXCEPT !.group = rows]
    BY <2>5, <2>6 DEF SetGroup
  <2>8. [y EXCEPT !.group = rows] = [t EXCEPT !.group = rows]
    BY <1>3, <2>3 DEF IsTables
  <2> QED BY <1>6, <1>9, <2>2, <2>3, <2>7, <2>8 DEF OnGroupFinalized
<1>11. Handle(u, e, id) = u
  <2>0. u.group = rows
    BY <1>7 DEF With
  <2>1. [u.group EXCEPT !["group"] = [u.group["group"] EXCEPT !.final = TRUE]] = rows
    BY <1>1, <1>5, <2>0 DEF Groups
  <2>2. [u.group EXCEPT !["group"] = [u.group["group"] EXCEPT !.atFinal = e.parts]] = rows
    BY <1>0, <1>1, <1>5, <2>0 DEF Groups
  <2>3. [u EXCEPT !.group = u.group] = u
    BY <1>7, TablesSame DEF With
  <2>4. SetGroup(u, "final", TRUE) = u /\ SetGroup(u, "atFinal", e.parts) = u
    BY <1>8, <2>0, <2>1, <2>2, <2>3 DEF SetGroup
  <2> QED BY <1>9, <2>4 DEF OnGroupFinalized
<1>12. Tells(u, v) /\ u.processed = t.processed /\ u.history = t.history
  BY <1>2, <1>3, <1>5, <1>7 DEF With, WorldWith, Alike, TableFields, WorldFields, Tells, GroupTold
<1> QED
  BY <1>7, <1>9, <1>10, <1>11, <1>12 DEF Applied, With

-----------------------------------------------------------------------------
(* Accounts and series *)

LEMMA AccountStep ==
  ASSUME NEW w \in Worlds, NEW a \in Accounts \ w.opened, w.cash[a] = 0
  PROVE  Steps(w, [ev |-> "SubAccountCreated", acct |-> a], [w EXCEPT !.opened = w.opened \cup {a}])
<1> DEFINE e == [ev |-> "SubAccountCreated", acct |-> a]
           v == [w EXCEPT !.opened = w.opened \cup {a}]
<1>0. e.ev = "SubAccountCreated" /\ e.acct = a
  OBVIOUS
<1> HIDE DEF e
<1>1. WorldWith(v, w, "opened", w.opened \cup {a})
  <2>1. w.opened \cup {a} \in SUBSET Accounts
    BY DEF Worlds
  <2> QED BY <2>1, WorldsWith
<1> HIDE DEF v
<1>b. Marks(w, e, v)
  BY <1>0, <1>1 DEF Marks, Opens, AuctionsMove, Starts, Ends, OrderMoves, Names, OrderOf, WorldWith, Alike, WorldFields
<1>a. Follows(w, e, v)
  BY <1>0, <1>1, <1>b DEF Follows, Lists, Record, WorldWith, Alike, WorldFields, Worlds
<1> SUFFICES ASSUME NEW t, NEW id, Before(t, w, id) PROVE Applied(t, e, id, v)
  BY <1>a DEF Steps, e, v
<1>2. IsTables(t) /\ Tells(t, w)
  BY DEF Before
<1>3. PICK u : u = [t EXCEPT !.account = Put(t.account, a, 0)]
  OBVIOUS
<1>4. With(u, t, "account", Put(t.account, a, 0))
  BY <1>2, <1>3, TablesWith
<1>5. DOMAIN t.account = w.opened /\ \A b \in w.opened : t.account[b] = w.cash[b]
  BY <1>2 DEF Tells, AccountsTold
<1>6. v.opened = w.opened \cup {a} /\ v.cash = w.cash /\ w.cash \in [Accounts -> Int] /\ w.opened \in SUBSET Accounts
  BY <1>1 DEF WorldWith, Worlds, Alike, WorldFields
<1>7. u.account = [b \in v.opened |-> v.cash[b]]
  BY <1>4, <1>5, <1>6 DEF With, Put
<1>8. Handle(t, e, id) = OnSubAccountCreated(t, e) /\ Handle(u, e, id) = OnSubAccountCreated(u, e) /\ Kept(e) = FALSE
  BY <1>0, Dispatched
<1>9. Handle(t, e, id) = u
  BY <1>0, <1>3, <1>8 DEF OnSubAccountCreated
<1>10. Handle(u, e, id) = u
  <2>1. Put(u.account, a, 0) = u.account
    BY <1>6, <1>7 DEF Put
  <2>2. [u EXCEPT !.account = u.account] = u
    BY <1>4, TablesSame DEF With
  <2> QED BY <1>0, <1>8, <2>1, <2>2 DEF OnSubAccountCreated
<1>11. Tells(u, v) /\ u.processed = t.processed /\ u.history = t.history
  BY <1>2, <1>4, <1>1, <1>7 DEF With, WorldWith, Alike, TableFields, WorldFields, Tells, AccountsTold
<1> QED
  BY <1>4, <1>8, <1>9, <1>10, <1>11 DEF Applied, With

\* The group of the series is there before its first series.
LEMMA GroupStep ==
  ASSUME NEW w \in Worlds, w.group = FreshGroup, NEW t, NEW id, Before(t, w, id), t.group = NoRows \/ w.listed = {}
  PROVE  LET e == [ev |-> "GroupCreated"]
         IN Applied(t, e, id, w) /\ Handle(t, e, id).group # NoRows /\ Kept(e) = FALSE
<1> DEFINE e == [ev |-> "GroupCreated"]
           rows == [x \in {"group"} |-> FreshGroup]
<1>0. e.ev = "GroupCreated"
  OBVIOUS
<1> HIDE DEF e
<1>1. IsTables(t) /\ Tells(t, w)
  BY DEF Before
<1>2. DOMAIN t.group \subseteq {"group"}
  <2>1. DOMAIN NoRows = {} /\ DOMAIN [x \in {"group"} |-> w.group] = {"group"}
    BY DEF NoRows
  <2> QED BY <1>1, <2>1 DEF Tells, GroupTold
<1>3. Put(t.group, "group", FreshGroup) = rows
  BY <1>2 DEF Put
<1>4. Put(rows, "group", FreshGroup) = rows
  BY DEF Put
<1>5. rows # NoRows
  <2>1. DOMAIN NoRows = {} /\ DOMAIN rows = {"group"}
    BY DEF NoRows
  <2> QED BY <2>1
<1>6. rows = [x \in {"group"} |-> w.group]
  OBVIOUS
<1> HIDE DEF rows
<1>7. PICK u : u = [t EXCEPT !.group = rows]
  OBVIOUS
<1>8. With(u, t, "group", rows)
  BY <1>1, <1>7, TablesWith
<1>9. Handle(t, e, id) = OnGroupCreated(t) /\ Handle(u, e, id) = OnGroupCreated(u) /\ Kept(e) = FALSE
  BY <1>0, Dispatched
<1>10. Handle(t, e, id) = u
  BY <1>3, <1>7, <1>9 DEF OnGroupCreated
<1>11. Handle(u, e, id) = u
  <2>1. [u EXCEPT !.group = u.group] = u /\ u.group = rows
    BY <1>8, TablesSame DEF With
  <2> QED BY <1>4, <1>9, <2>1 DEF OnGroupCreated
<1>12. Tells(u, w) /\ u.processed = t.processed /\ u.history = t.history /\ u.group = rows
  BY <1>1, <1>6, <1>8 DEF With, Alike, TableFields, WorldFields, Tells, GroupTold
<1>13. Applied(t, e, id, w)
  BY <1>8, <1>9, <1>10, <1>11, <1>12 DEF Applied, With
<1> QED
  BY <1>5, <1>9, <1>10, <1>12, <1>13 DEF e

\* A series nobody holds.
LEMMA NobodyHolds ==
  ASSUME NEW bal \in Balances, NEW held \in Holdings, NEW s \in Series,
         \A a \in Accounts : bal[a][s] = 0, \A h \in Holders : held[h][s] = 0
  PROVE  LongOf(bal, s) = 0 /\ ShortOf(bal, s) = 0 /\ SupplyOf(held, s) = 0
<1>1. LongOf(bal, s) = 0
  <2> DEFINE g == [a \in Accounts |-> Max0(bal[a][s])]
  <2>1. g \in [Accounts -> Int] /\ \A a \in Accounts : g[a] = 0
    BY DEF Balances, Max0
  <2>2. PICK h \in [SUBSET Accounts -> Int] : Adds(h, g, Accounts) /\ LongOf(bal, s) = h[Accounts]
    BY LongAdds
  <2> HIDE DEF g
  <2> QED BY <2>1, <2>2, AddsNothing, ChainAssumption
<1>2. ShortOf(bal, s) = 0
  <2> DEFINE g == [a \in Accounts |-> Max0(-bal[a][s])]
  <2>1. g \in [Accounts -> Int] /\ \A a \in Accounts : g[a] = 0
    BY DEF Balances, Max0
  <2>2. PICK h \in [SUBSET Accounts -> Int] : Adds(h, g, Accounts) /\ ShortOf(bal, s) = h[Accounts]
    BY ShortAdds
  <2> HIDE DEF g
  <2> QED BY <2>1, <2>2, AddsNothing, ChainAssumption
<1>3. SupplyOf(held, s) = 0
  <2> DEFINE g == [a \in Holders |-> held[a][s]]
  <2>1. g \in [Holders -> Int] /\ \A a \in Holders : g[a] = 0
    BY DEF Holdings
  <2>2. PICK h \in [SUBSET Holders -> Int] : Adds(h, g, Holders) /\ SupplyOf(held, s) = h[Holders]
    BY SupplyAdds
  <2> HIDE DEF g
  <2> QED BY <2>1, <2>2, AddsNothing, ChainAssumption
<1> QED BY <1>1, <1>2, <1>3

LEMMA SeriesStep ==
  ASSUME NEW w \in Worlds, NEW s \in Series \ w.listed,
         \A a \in Accounts : w.bal[a][s] = 0, \A h \in Holders : w.held[h][s] = 0,
         NEW t, NEW id, Before(t, w, id), t.group # NoRows
  PROVE  Applied(t, [ev |-> "SeriesCreated", series |-> s], id, [w EXCEPT !.listed = w.listed \cup {s}])
<1> DEFINE e == [ev |-> "SeriesCreated", series |-> s]
           v == [w EXCEPT !.listed = w.listed \cup {s}]
           row == [long |-> 0, short |-> 0, supply |-> 0]
           rows == Put(t.series, s, row)
<1>0. e.ev = "SeriesCreated" /\ e.series = s
  OBVIOUS
<1> HIDE DEF e
<1>1. WorldWith(v, w, "listed", w.listed \cup {s})
  <2>1. w.listed \cup {s} \in SUBSET Series
    BY DEF Worlds
  <2> QED BY <2>1, WorldsWith
<1> HIDE DEF v
<1>2. IsTables(t) /\ Tells(t, w)
  BY DEF Before
<1>3. v.listed = w.listed \cup {s} /\ v.bal = w.bal /\ v.held = w.held /\ v.group = w.group
      /\ w.bal \in Balances /\ w.held \in Holdings /\ w.listed \in SUBSET Series
  BY <1>1 DEF WorldWith, Worlds, Alike, WorldFields
<1>4. LongOf(w.bal, s) = 0 /\ ShortOf(w.bal, s) = 0 /\ SupplyOf(w.held, s) = 0
  BY <1>3, NobodyHolds
<1>5. rows = [r \in v.listed |-> [long |-> LongOf(v.bal, r), short |-> ShortOf(v.bal, r), supply |-> SupplyOf(v.held, r)]]
  <2>1. t.series = [r \in w.listed |-> [long |-> LongOf(w.bal, r), short |-> ShortOf(w.bal, r), supply |-> SupplyOf(w.held, r)]]
    BY <1>2 DEF Tells, SeriesTold
  <2> QED BY <1>3, <1>4, <2>1 DEF Put
<1>6. Put(rows, s, row) = rows
  BY DEF Put
<1> HIDE DEF rows
<1>7. PICK u : u = [t EXCEPT !.series = rows]
  OBVIOUS
<1>8. With(u, t, "series", rows)
  BY <1>2, <1>7, TablesWith
<1>9. Handle(t, e, id) = OnSeriesCreated(t, e) /\ Handle(u, e, id) = OnSeriesCreated(u, e) /\ Kept(e) = FALSE
  BY <1>0, Dispatched
<1>10. Handle(t, e, id) = u
  BY <1>0, <1>7, <1>9 DEF OnSeriesCreated, rows
<1>11. Handle(u, e, id) = u
  <2>1. [u EXCEPT !.series = u.series] = u /\ u.series = rows
    BY <1>8, TablesSame DEF With
  <2> QED BY <1>0, <1>6, <1>9, <2>1 DEF OnSeriesCreated
<1>12. SeriesTold(u.series, v.listed, v.bal, v.held)
  BY <1>5, <1>8 DEF With, SeriesTold
<1>13. GroupTold(t.group, v.listed, v.group)
  BY <1>2, <1>3 DEF Tells, GroupTold
<1>14. Tells(u, v) /\ u.processed = t.processed /\ u.history = t.history
  BY <1>2, <1>1, <1>8, <1>12, <1>13 DEF With, WorldWith, Alike, TableFields, WorldFields, Tells
<1> QED
  BY <1>8, <1>9, <1>10, <1>11, <1>14 DEF Applied, With, e, v

-----------------------------------------------------------------------------
(* Auctions *)

LEMMA AuctionPut ==
  ASSUME NEW rows, NEW auction \in [Accounts -> Auctions], AuctionsTold(rows, auction), NEW a \in Accounts,
         NEW r \in Auctions, NEW f \in Auctions, r.active = f.active, r.active => r = f
  PROVE  AuctionsTold(Put(rows, a, r), [auction EXCEPT ![a] = f])
<1> SUFFICES ASSUME NEW b \in Accounts
             PROVE  LET row == Row(Put(rows, a, r), b, FreshAuction) IN
                      row \in Auctions /\ row.active = [auction EXCEPT ![a] = f][b].active
                      /\ (row.active => row = [auction EXCEPT ![a] = f][b])
  <2>1. DOMAIN Put(rows, a, r) \subseteq Accounts
    BY DEF Put, AuctionsTold
  <2> QED BY <2>1 DEF AuctionsTold
<1>1. Row(Put(rows, a, r), b, FreshAuction) = IF b = a THEN r ELSE Row(rows, b, FreshAuction)
  BY DEF Row, Put
<1>2. [auction EXCEPT ![a] = f][b] = IF b = a THEN f ELSE auction[b]
  OBVIOUS
<1>3. LET row == Row(rows, b, FreshAuction) IN row \in Auctions /\ row.active = auction[b].active /\ (row.active => row = auction[b])
  BY DEF AuctionsTold
<1> QED
  BY <1>1, <1>2, <1>3

\* The row of an auction that runs.
LEMMA AuctionRow ==
  ASSUME NEW rows, NEW auction \in [Accounts -> Auctions], AuctionsTold(rows, auction), NEW a \in Accounts,
         auction[a].active
  PROVE  a \in DOMAIN rows /\ rows[a] = auction[a] /\ Row(rows, a, FreshAuction) = auction[a]
<1>1. LET row == Row(rows, a, FreshAuction) IN row.active = auction[a].active /\ (row.active => row = auction[a])
  BY DEF AuctionsTold
<1>2. FreshAuction.active = FALSE
  BY DEF FreshAuction
<1>3. auction[a].active = TRUE
  BY DEF Auctions
<1> QED
  BY <1>1, <1>2, <1>3 DEF Row

\* A log that is applied once: two fields are written and the log is remembered.
LEMMA AppliedOnce ==
  ASSUME NEW t, NEW y, IsTables(y), y.processed = t.processed,
         NEW id, id \notin t.processed, NEW u, u = Once(t, id, y)
  PROVE  /\ With(u, y, "processed", y.processed \cup {id})
         /\ \A z : Once(u, id, z) = u
<1>1. u = [y EXCEPT !.processed = y.processed \cup {id}]
  BY DEF Once
<1>2. With([y EXCEPT !.processed = y.processed \cup {id}], y, "processed", y.processed \cup {id})
  BY TablesWith
<1>3. With(u, y, "processed", y.processed \cup {id})
  BY <1>1, <1>2
<1>4. id \in u.processed
  BY <1>3 DEF With
<1>5. \A z : Once(u, id, z) = u
  BY <1>4 DEF Once
<1> QED
  BY <1>3, <1>5

\* A log that is kept as history, once.
LEMMA HistoryWith ==
  ASSUME NEW t, IsTables(t), NEW id
  PROVE  /\ With(History(t, id), t, "history", t.history \cup {id})
         /\ id \in t.history => History(t, id) = t
<1>1. With(History(t, id), t, "history", t.history \cup {id})
  BY TablesWith DEF History
<1>2. ASSUME id \in t.history PROVE History(t, id) = t
  <2>1. t.history \cup {id} = t.history
    BY <1>2
  <2>2. [t EXCEPT !.history = t.history] = t
    BY TablesSame
  <2> QED BY <2>1, <2>2 DEF History
<1> QED
  BY <1>1, <1>2

LEMMA AuctionStartStep ==
  ASSUME NEW w \in Worlds, NEW a \in Accounts
  PROVE  Steps(w, [ev |-> "AuctionStarted", acct |-> a],
               [w EXCEPT !.auction = [w.auction EXCEPT ![a] = [FreshAuction EXCEPT !.active = TRUE]]])
<1> DEFINE e == [ev |-> "AuctionStarted", acct |-> a]
           f == [FreshAuction EXCEPT !.active = TRUE]
           v == [w EXCEPT !.auction = [w.auction EXCEPT ![a] = f]]
<1>0. e.ev = "AuctionStarted" /\ e.acct = a
  OBVIOUS
<1> HIDE DEF e
<1>1. f \in Auctions /\ w.auction \in [Accounts -> Auctions]
  BY DEF FreshAuction, Auctions, Worlds
<1>2. WorldWith(v, w, "auction", [w.auction EXCEPT ![a] = f])
  <2>1. [w.auction EXCEPT ![a] = f] \in [Accounts -> Auctions]
    BY <1>1
  <2> QED BY <2>1, WorldsWith
<1> HIDE DEF v
<1>c. f.active = TRUE
  BY DEF FreshAuction
<1>b. Marks(w, e, v)
  BY <1>0, <1>1, <1>2, <1>c, AuctionMarks
<1>a. Follows(w, e, v)
  BY <1>0, <1>2, <1>b DEF Follows, Lists, Record, WorldWith, Alike, WorldFields, Worlds
<1> SUFFICES ASSUME NEW t, NEW id, Before(t, w, id) PROVE Applied(t, e, id, v)
  BY <1>a DEF Steps, e, v
<1>3. IsTables(t) /\ Tells(t, w)
  BY DEF Before
<1>4. PICK u : u = [t EXCEPT !.auction = Put(t.auction, a, f)]
  OBVIOUS
<1>5. With(u, t, "auction", Put(t.auction, a, f))
  BY <1>3, <1>4, TablesWith
<1>6. AuctionsTold(Put(t.auction, a, f), [w.auction EXCEPT ![a] = f])
  <2>1. AuctionsTold(t.auction, w.auction)
    BY <1>3 DEF Tells
  <2> HIDE DEF f
  <2> QED BY <1>1, <2>1, AuctionPut
<1>7. Handle(t, e, id) = OnAuctionStarted(t, e) /\ Handle(u, e, id) = OnAuctionStarted(u, e) /\ Kept(e) = FALSE
  BY <1>0, Dispatched
<1>8. Handle(t, e, id) = u
  BY <1>0, <1>4, <1>7 DEF OnAuctionStarted
<1>9. Handle(u, e, id) = u
  <2>1. [u EXCEPT !.auction = u.auction] = u /\ u.auction = Put(t.auction, a, f)
    BY <1>5, TablesSame DEF With
  <2>2. Put(u.auction, a, f) = u.auction
    BY <2>1 DEF Put
  <2> QED BY <1>0, <1>7, <2>1, <2>2 DEF OnAuctionStarted
<1>10. AuctionsTold(u.auction, v.auction)
  BY <1>2, <1>5, <1>6 DEF With, WorldWith
<1>11. Tells(u, v) /\ u.processed = t.processed /\ u.history = t.history
  BY <1>2, <1>3, <1>5, <1>10 DEF With, WorldWith, Alike, TableFields, WorldFields, Tells
<1> QED
  BY <1>5, <1>7, <1>8, <1>9, <1>11 DEF Applied, With

LEMMA AuctionEndStep ==
  ASSUME NEW w \in Worlds, NEW a \in Accounts, w.auction[a].active
  PROVE  Steps(w, [ev |-> "AuctionEnded", acct |-> a],
               [w EXCEPT !.auction = [w.auction EXCEPT ![a] = [w.auction[a] EXCEPT !.active = FALSE]]])
<1> DEFINE e == [ev |-> "AuctionEnded", acct |-> a]
           f == [w.auction[a] EXCEPT !.active = FALSE]
           v == [w EXCEPT !.auction = [w.auction EXCEPT ![a] = f]]
<1>0. e.ev = "AuctionEnded" /\ e.acct = a
  OBVIOUS
<1> HIDE DEF e
<1>1. w.auction \in [Accounts -> Auctions] /\ f \in Auctions /\ [f EXCEPT !.active = FALSE] = f
  BY DEF Auctions, Worlds
<1>2. WorldWith(v, w, "auction", [w.auction EXCEPT ![a] = f])
  <2>1. [w.auction EXCEPT ![a] = f] \in [Accounts -> Auctions]
    BY <1>1
  <2> QED BY <2>1, WorldsWith
<1> HIDE DEF v
<1>c. f.active = FALSE
  BY <1>1 DEF Auctions
<1>b. Marks(w, e, v)
  BY <1>0, <1>1, <1>2, <1>c, AuctionMarks
<1>a. Follows(w, e, v)
  BY <1>0, <1>2, <1>b DEF Follows, Lists, Record, WorldWith, Alike, WorldFields, Worlds
<1> SUFFICES ASSUME NEW t, NEW id, Before(t, w, id) PROVE Applied(t, e, id, v)
  BY <1>a DEF Steps, e, v
<1>3. IsTables(t) /\ Tells(t, w)
  BY DEF Before
<1>4. PICK u : u = [t EXCEPT !.auction = Put(t.auction, a, f)]
  OBVIOUS
<1>5. With(u, t, "auction", Put(t.auction, a, f))
  BY <1>3, <1>4, TablesWith
<1>51. AuctionsTold(t.auction, w.auction)
  BY <1>3 DEF Tells
<1>52. a \in DOMAIN t.auction /\ Row(t.auction, a, FreshAuction) = w.auction[a]
  BY <1>1, <1>51, AuctionRow
<1>6. AuctionsTold(Put(t.auction, a, f), [w.auction EXCEPT ![a] = f])
  <2> HIDE DEF f
  <2> QED BY <1>1, <1>51, AuctionPut
<1>7. Handle(t, e, id) = OnAuctionEnded(t, e) /\ Handle(u, e, id) = OnAuctionEnded(u, e) /\ Kept(e) = FALSE
  BY <1>0, Dispatched
<1>8. Handle(t, e, id) = u
  BY <1>0, <1>4, <1>52, <1>7 DEF OnAuctionEnded, Patch
<1>9. Handle(u, e, id) = u
  <2>1. [u EXCEPT !.auction = u.auction] = u /\ u.auction = Put(t.auction, a, f)
    BY <1>5, TablesSame DEF With
  <2>2. Put(u.auction, a, f) = u.auction /\ a \in DOMAIN u.auction /\ u.auction[a] = f
    BY <2>1 DEF Put
  <2>3. Row(u.auction, a, FreshAuction) = f
    BY <2>2 DEF Row
  <2>4. OnAuctionEnded(u, e) = [u EXCEPT !.auction = Put(u.auction, a, [f EXCEPT !.active = FALSE])]
    <3> HIDE DEF f
    <3> QED BY <1>0, <2>2, <2>3 DEF OnAuctionEnded, Patch
  <2> QED BY <1>1, <1>7, <2>1, <2>2, <2>4
<1>10. AuctionsTold(u.auction, v.auction)
  BY <1>2, <1>5, <1>6 DEF With, WorldWith
<1>11. Tells(u, v) /\ u.processed = t.processed /\ u.history = t.history
  BY <1>2, <1>3, <1>5, <1>10 DEF With, WorldWith, Alike, TableFields, WorldFields, Tells
<1> QED
  BY <1>5, <1>7, <1>8, <1>9, <1>11 DEF Applied, With

LEMMA SliceStep ==
  ASSUME NEW w \in Worlds, NEW a \in Accounts, w.auction[a].active
  PROVE  Steps(w, [ev |-> "SliceLiquidated", acct |-> a],
               [w EXCEPT !.auction = [w.auction EXCEPT ![a] = [w.auction[a] EXCEPT !.slices = w.auction[a].slices + 1]]])
<1> DEFINE e == [ev |-> "SliceLiquidated", acct |-> a]
           f == [w.auction[a] EXCEPT !.slices = w.auction[a].slices + 1]
           v == [w EXCEPT !.auction = [w.auction EXCEPT ![a] = f]]
<1>0. e.ev = "SliceLiquidated" /\ e.acct = a
  OBVIOUS
<1> HIDE DEF e
<1>1. w.auction \in [Accounts -> Auctions] /\ f \in Auctions
  BY DEF Auctions, Worlds
<1>2. WorldWith(v, w, "auction", [w.auction EXCEPT ![a] = f])
  <2>1. [w.auction EXCEPT ![a] = f] \in [Accounts -> Auctions]
    BY <1>1
  <2> QED BY <2>1, WorldsWith
<1> HIDE DEF v
<1>c. f.active
  BY <1>1 DEF Auctions
<1>b. Marks(w, e, v)
  BY <1>0, <1>1, <1>2, <1>c, AuctionMarks
<1>a. Follows(w, e, v)
  BY <1>0, <1>2, <1>b DEF Follows, Lists, Record, WorldWith, Alike, WorldFields, Worlds
<1> SUFFICES ASSUME NEW t, NEW id, Before(t, w, id) PROVE Applied(t, e, id, v)
  BY <1>a DEF Steps, e, v
<1>3. IsTables(t) /\ Tells(t, w) /\ id \notin t.processed
  BY DEF Before
<1>4. PICK y : y = History(t, id)
  OBVIOUS
<1>5. With(y, t, "history", t.history \cup {id})
  BY <1>3, <1>4, HistoryWith
<1>6. IsTables(y) /\ y.auction = t.auction /\ id \notin y.processed /\ y.processed = t.processed
  BY <1>3, <1>5 DEF With, Alike, TableFields
<1>7. PICK z : z = [y EXCEPT !.auction = Put(y.auction, a, f)]
  OBVIOUS
<1>8. With(z, y, "auction", Put(t.auction, a, f))
  BY <1>6, <1>7, TablesWith
<1>9. PICK u : u = Once(y, id, z)
  OBVIOUS
<1>10. /\ IsTables(u) /\ Alike(u, z, TableFields \ {"processed"}) /\ u.processed = y.processed \cup {id}
       /\ \A x : Once(u, id, x) = u
  <2>1. IsTables(z) /\ z.processed = y.processed
    BY <1>8 DEF With, Alike, TableFields
  <2>2. With(u, z, "processed", z.processed \cup {id}) /\ \A x : Once(u, id, x) = u
    BY <1>6, <1>9, <2>1, AppliedOnce
  <2> QED BY <2>1, <2>2 DEF With
<1>11. AuctionsTold(t.auction, w.auction)
  BY <1>3 DEF Tells
<1>12. a \in DOMAIN t.auction /\ Row(t.auction, a, FreshAuction) = w.auction[a]
  BY <1>1, <1>11, AuctionRow
<1>13. AuctionsTold(Put(t.auction, a, f), [w.auction EXCEPT ![a] = f])
  <2>1. f.active = w.auction[a].active
    BY <1>1 DEF Auctions
  <2> HIDE DEF f
  <2> QED BY <1>1, <1>11, AuctionPut
<1>14. Handle(t, e, id) = OnSliceLiquidated(t, e, id) /\ Handle(u, e, id) = OnSliceLiquidated(u, e, id) /\ Kept(e) = TRUE
  BY <1>0, Dispatched
<1>15. Handle(t, e, id) = u
  <2>1. [y EXCEPT !.auction = Patch(y.auction, a, f)] = z
    BY <1>6, <1>7, <1>12 DEF Patch
  <2> QED BY <1>0, <1>4, <1>9, <1>12, <1>14, <2>1 DEF OnSliceLiquidated
<1>16. u.history = t.history \cup {id} /\ u.processed = t.processed \cup {id}
  BY <1>5, <1>6, <1>8, <1>10 DEF With, Alike, TableFields
<1>17. Handle(u, e, id) = u
  <2>1. History(u, id) = u
    BY <1>10, <1>16, HistoryWith
  <2> QED BY <1>10, <1>14, <2>1 DEF OnSliceLiquidated
<1>18. AuctionsTold(u.auction, v.auction)
  BY <1>2, <1>8, <1>10, <1>13 DEF With, WorldWith, Alike, TableFields
<1>19. Tells(u, v)
  BY <1>2, <1>3, <1>5, <1>8, <1>10, <1>18 DEF With, WorldWith, Alike, TableFields, WorldFields, Tells
<1> QED
  BY <1>10, <1>14, <1>15, <1>16, <1>17, <1>19 DEF Applied

LEMMA WrapStep ==
  ASSUME NEW w \in Worlds, NEW a \in Accounts, NEW s
  PROVE  Steps(w, [ev |-> "WrapperLiquidated", acct |-> a, series |-> s],
               [w EXCEPT !.auction = [w.auction EXCEPT ![a] =
                  [w.auction[a] EXCEPT !.wraps = IF w.auction[a].active THEN w.auction[a].wraps + 1 ELSE w.auction[a].wraps]]])
<1> DEFINE e == [ev |-> "WrapperLiquidated", acct |-> a, series |-> s]
           f == [w.auction[a] EXCEPT !.wraps = IF w.auction[a].active THEN w.auction[a].wraps + 1 ELSE w.auction[a].wraps]
           v == [w EXCEPT !.auction = [w.auction EXCEPT ![a] = f]]
<1>0. e.ev = "WrapperLiquidated" /\ e.acct = a
  OBVIOUS
<1> HIDE DEF e
<1>1. /\ w.auction \in [Accounts -> Auctions] /\ f \in Auctions
      /\ w.auction[a].active => f = [w.auction[a] EXCEPT !.wraps = w.auction[a].wraps + 1]
      /\ ~w.auction[a].active => f = w.auction[a]
  BY DEF Auctions, Worlds
<1>2. WorldWith(v, w, "auction", [w.auction EXCEPT ![a] = f])
  <2>1. [w.auction EXCEPT ![a] = f] \in [Accounts -> Auctions]
    BY <1>1
  <2> QED BY <2>1, WorldsWith
<1> HIDE DEF v
<1>c. f.active <=> w.auction[a].active
  BY <1>1 DEF Auctions
<1>b. Marks(w, e, v)
  BY <1>0, <1>1, <1>2, <1>c, AuctionMarks
<1>a. Follows(w, e, v)
  BY <1>0, <1>2, <1>b DEF Follows, Lists, Record, WorldWith, Alike, WorldFields, Worlds
<1> SUFFICES ASSUME NEW t, NEW id, Before(t, w, id) PROVE Applied(t, e, id, v)
  BY <1>a DEF Steps, e, v
<1>3. IsTables(t) /\ Tells(t, w) /\ id \notin t.processed
  BY DEF Before
<1>4. PICK y : y = History(t, id)
  OBVIOUS
<1>5. With(y, t, "history", t.history \cup {id})
  BY <1>3, <1>4, HistoryWith
<1>6. IsTables(y) /\ y.auction = t.auction /\ id \notin y.processed /\ y.processed = t.processed
  BY <1>3, <1>5 DEF With, Alike, TableFields
<1>11. AuctionsTold(t.auction, w.auction)
  BY <1>3 DEF Tells
<1>12. LET row == Row(t.auction, a, FreshAuction) IN
         row \in Auctions /\ row.active = w.auction[a].active /\ (row.active => row = w.auction[a])
  BY <1>11 DEF AuctionsTold
<1>13. PICK rows : rows = IF w.auction[a].active THEN Put(t.auction, a, f) ELSE t.auction
  OBVIOUS
<1>14. AuctionsTold(rows, [w.auction EXCEPT ![a] = f])
  <2>1. CASE w.auction[a].active
    <3> HIDE DEF f
    <3> QED BY <1>1, <1>11, <1>13, <2>1, AuctionPut
  <2>2. CASE ~w.auction[a].active
    <3>1. [w.auction EXCEPT ![a] = f] = w.auction
      <4> HIDE DEF f
      <4> QED BY <1>1, <2>2
    <3> QED BY <1>11, <1>13, <2>2, <3>1
  <2> QED BY <2>1, <2>2
<1>7. PICK z : z = [y EXCEPT !.auction = rows]
  OBVIOUS
<1>8. With(z, y, "auction", rows)
  BY <1>6, <1>7, TablesWith
<1>9. PICK u : u = Once(y, id, z)
  OBVIOUS
<1>10. /\ IsTables(u) /\ Alike(u, z, TableFields \ {"processed"}) /\ u.processed = y.processed \cup {id}
       /\ \A x : Once(u, id, x) = u
  <2>1. IsTables(z) /\ z.processed = y.processed
    BY <1>8 DEF With, Alike, TableFields
  <2>2. With(u, z, "processed", z.processed \cup {id}) /\ \A x : Once(u, id, x) = u
    BY <1>6, <1>9, <2>1, AppliedOnce
  <2> QED BY <2>1, <2>2 DEF With
<1>15. Handle(t, e, id) = OnWrapperLiquidated(t, e, id) /\ Handle(u, e, id) = OnWrapperLiquidated(u, e, id) /\ Kept(e) = TRUE
  BY <1>0, Dispatched
<1>16. Handle(t, e, id) = u
  <2> DEFINE r == Row(t.auction, a, FreshAuction)
  <2>0. OnWrapperLiquidated(t, e, id) =
          Once(y, id, IF r.active THEN [y EXCEPT !.auction = Put(y.auction, a, [r EXCEPT !.wraps = r.wraps + 1])] ELSE y)
    BY <1>0, <1>4 DEF OnWrapperLiquidated
  <2> HIDE DEF r
  <2>1. CASE w.auction[a].active
    <3>1. r.active /\ r = w.auction[a]
      BY <1>12, <2>1 DEF r
    <3>2. z = [y EXCEPT !.auction = Put(y.auction, a, [r EXCEPT !.wraps = r.wraps + 1])]
      BY <1>1, <1>6, <1>7, <1>13, <2>1, <3>1
    <3> QED BY <1>9, <1>15, <2>0, <3>1, <3>2
  <2>2. CASE ~w.auction[a].active
    <3>1. ~r.active
      BY <1>12, <2>2 DEF r
    <3>2. z = y
      BY <1>6, <1>7, <1>13, <2>2, TablesSame
    <3> QED BY <1>9, <1>15, <2>0, <3>1, <3>2
  <2> QED BY <2>1, <2>2
<1>17. u.history = t.history \cup {id} /\ u.processed = t.processed \cup {id}
  BY <1>5, <1>6, <1>8, <1>10 DEF With, Alike, TableFields
<1>18. Handle(u, e, id) = u
  <2>1. History(u, id) = u
    BY <1>10, <1>17, HistoryWith
  <2> QED BY <1>10, <1>15, <2>1 DEF OnWrapperLiquidated
<1>19. AuctionsTold(u.auction, v.auction)
  BY <1>2, <1>8, <1>10, <1>14 DEF With, WorldWith, Alike, TableFields
<1>20. Tells(u, v)
  BY <1>2, <1>3, <1>5, <1>8, <1>10, <1>19 DEF With, WorldWith, Alike, TableFields, WorldFields, Tells
<1> QED
  BY <1>10, <1>15, <1>16, <1>17, <1>18, <1>20 DEF Applied

-----------------------------------------------------------------------------
(* The insurance fund *)

Adding(u, t, id, field, x) == u = AddFund(t, id, field, x)
Raised(f, fund, field, x) == f = [fund EXCEPT ![field] = fund[field] + x]

LEMMA FundAdded ==
  ASSUME NEW t, IsTables(t), NEW fund, FundTold(t.fund, fund), NEW id, id \notin t.processed,
         NEW field, NEW x, NEW u, Adding(u, t, id, field, x), NEW f, Raised(f, fund, field, x)
  PROVE  /\ IsTables(u) /\ Alike(u, t, TableFields \ {"fund", "processed"})
         /\ FundTold(u.fund, f)
         /\ u.processed = t.processed \cup {id} /\ AddFund(u, id, field, x) = u
<1>1. Row(t.fund, "fund", FreshFund) = fund
  BY DEF FundTold
<1>2. PICK y : y = [t EXCEPT !.fund = Put(t.fund, "fund", f)]
  OBVIOUS
<1>3. With(y, t, "fund", Put(t.fund, "fund", f))
  BY <1>2, TablesWith
<1>4. u = Once(t, id, y)
  BY <1>1, <1>2 DEF AddFund, Adding, Raised
<1>5. IsTables(y) /\ y.processed = t.processed
  BY <1>3 DEF With, Alike, TableFields
<1>6. With(u, y, "processed", y.processed \cup {id}) /\ \A z : Once(u, id, z) = u
  BY <1>4, <1>5, AppliedOnce
<1>7. u.fund = Put(t.fund, "fund", f) /\ u.processed = t.processed \cup {id} /\ IsTables(u)
      /\ Alike(u, t, TableFields \ {"fund", "processed"})
  BY <1>3, <1>5, <1>6 DEF With, Alike, TableFields
<1>8. FundTold(u.fund, f)
  BY <1>7 DEF FundTold, Row, Put
<1>9. AddFund(u, id, field, x) = u
  BY <1>6 DEF AddFund
<1> QED
  BY <1>7, <1>8, <1>9

LEMMA DepositedStep ==
  ASSUME NEW w \in Worlds, NEW x \in Int
  PROVE  Steps(w, [ev |-> "InsuranceDeposited", amount |-> x],
               [w EXCEPT !.fund = [w.fund EXCEPT !.deposited = w.fund.deposited + x]])
<1> DEFINE e == [ev |-> "InsuranceDeposited", amount |-> x]
           f == [w.fund EXCEPT !.deposited = w.fund.deposited + x]
           v == [w EXCEPT !.fund = f]
<1>0. e.ev = "InsuranceDeposited" /\ e.amount = x
  OBVIOUS
<1> HIDE DEF e
<1>1. w.fund \in Funds /\ f \in Funds /\ f = [w.fund EXCEPT !["deposited"] = w.fund["deposited"] + x]
  BY DEF Funds, Worlds
<1> HIDE DEF f
<1>2. WorldWith(v, w, "fund", f)
  BY <1>1, WorldsWith
<1> HIDE DEF v
<1>b. Marks(w, e, v)
  BY <1>0, <1>2, QuietLog DEF Marking, WorldWith, Alike, WorldFields
<1>a. Follows(w, e, v)
  BY <1>0, <1>2, <1>b DEF Follows, Lists, Record, WorldWith, Alike, WorldFields, Worlds
<1> SUFFICES ASSUME NEW t, NEW id, Before(t, w, id) PROVE Applied(t, e, id, v)
  BY <1>a DEF Steps, e, f, v
<1>3. IsTables(t) /\ Tells(t, w) /\ id \notin t.processed /\ FundTold(t.fund, w.fund)
  BY DEF Before, Tells
<1>4. PICK u : u = AddFund(t, id, "deposited", x)
  OBVIOUS
<1>5. /\ IsTables(u) /\ Alike(u, t, TableFields \ {"fund", "processed"}) /\ FundTold(u.fund, f)
      /\ u.processed = t.processed \cup {id} /\ AddFund(u, id, "deposited", x) = u
  <2>1. Adding(u, t, id, "deposited", x) /\ Raised(f, w.fund, "deposited", x)
    BY <1>1, <1>4 DEF Adding, Raised
  <2> QED BY <1>3, <2>1, FundAdded
<1>6. Handle(t, e, id) = AddFund(t, id, "deposited", e.amount) /\ Handle(u, e, id) = AddFund(u, id, "deposited", e.amount) /\ Kept(e) = FALSE
  BY <1>0, Dispatched
<1>7. Handle(t, e, id) = u /\ Handle(u, e, id) = u
  BY <1>0, <1>4, <1>5, <1>6
<1>8. Tells(u, v) /\ u.history = t.history
  BY <1>2, <1>3, <1>5 DEF WorldWith, Alike, TableFields, WorldFields, Tells
<1> QED
  BY <1>5, <1>6, <1>7, <1>8 DEF Applied

LEMMA PaidStep ==
  ASSUME NEW w \in Worlds, NEW x \in Int
  PROVE  Steps(w, [ev |-> "InsurancePaid", amount |-> x],
               [w EXCEPT !.fund = [w.fund EXCEPT !.paid = w.fund.paid + x]])
<1> DEFINE e == [ev |-> "InsurancePaid", amount |-> x]
           f == [w.fund EXCEPT !.paid = w.fund.paid + x]
           v == [w EXCEPT !.fund = f]
<1>0. e.ev = "InsurancePaid" /\ e.amount = x
  OBVIOUS
<1> HIDE DEF e
<1>1. w.fund \in Funds /\ f \in Funds /\ f = [w.fund EXCEPT !["paid"] = w.fund["paid"] + x]
  BY DEF Funds, Worlds
<1> HIDE DEF f
<1>2. WorldWith(v, w, "fund", f)
  BY <1>1, WorldsWith
<1> HIDE DEF v
<1>b. Marks(w, e, v)
  BY <1>0, <1>2, QuietLog DEF Marking, WorldWith, Alike, WorldFields
<1>a. Follows(w, e, v)
  BY <1>0, <1>2, <1>b DEF Follows, Lists, Record, WorldWith, Alike, WorldFields, Worlds
<1> SUFFICES ASSUME NEW t, NEW id, Before(t, w, id) PROVE Applied(t, e, id, v)
  BY <1>a DEF Steps, e, f, v
<1>3. IsTables(t) /\ Tells(t, w) /\ id \notin t.processed /\ FundTold(t.fund, w.fund)
  BY DEF Before, Tells
<1>4. PICK u : u = AddFund(t, id, "paid", x)
  OBVIOUS
<1>5. /\ IsTables(u) /\ Alike(u, t, TableFields \ {"fund", "processed"}) /\ FundTold(u.fund, f)
      /\ u.processed = t.processed \cup {id} /\ AddFund(u, id, "paid", x) = u
  <2>1. Adding(u, t, id, "paid", x) /\ Raised(f, w.fund, "paid", x)
    BY <1>1, <1>4 DEF Adding, Raised
  <2> QED BY <1>3, <2>1, FundAdded
<1>6. Handle(t, e, id) = AddFund(t, id, "paid", e.amount) /\ Handle(u, e, id) = AddFund(u, id, "paid", e.amount) /\ Kept(e) = FALSE
  BY <1>0, Dispatched
<1>7. Handle(t, e, id) = u /\ Handle(u, e, id) = u
  BY <1>0, <1>4, <1>5, <1>6
<1>8. Tells(u, v) /\ u.history = t.history
  BY <1>2, <1>3, <1>5 DEF WorldWith, Alike, TableFields, WorldFields, Tells
<1> QED
  BY <1>5, <1>6, <1>7, <1>8 DEF Applied

LEMMA FeeSplitStep ==
  ASSUME NEW w \in Worlds, NEW x \in Int
  PROVE  Steps(w, [ev |-> "FeeSplit", toInsurance |-> x],
               [w EXCEPT !.fund = [w.fund EXCEPT !.fees = w.fund.fees + x]])
<1> DEFINE e == [ev |-> "FeeSplit", toInsurance |-> x]
           f == [w.fund EXCEPT !.fees = w.fund.fees + x]
           v == [w EXCEPT !.fund = f]
<1>0. e.ev = "FeeSplit" /\ e.toInsurance = x
  OBVIOUS
<1> HIDE DEF e
<1>1. w.fund \in Funds /\ f \in Funds /\ f = [w.fund EXCEPT !["fees"] = w.fund["fees"] + x]
  BY DEF Funds, Worlds
<1> HIDE DEF f
<1>2. WorldWith(v, w, "fund", f)
  BY <1>1, WorldsWith
<1> HIDE DEF v
<1>b. Marks(w, e, v)
  BY <1>0, <1>2, QuietLog DEF Marking, WorldWith, Alike, WorldFields
<1>a. Follows(w, e, v)
  BY <1>0, <1>2, <1>b DEF Follows, Lists, Record, WorldWith, Alike, WorldFields, Worlds
<1> SUFFICES ASSUME NEW t, NEW id, Before(t, w, id) PROVE Applied(t, e, id, v)
  BY <1>a DEF Steps, e, f, v
<1>3. IsTables(t) /\ Tells(t, w) /\ id \notin t.processed /\ FundTold(t.fund, w.fund)
  BY DEF Before, Tells
<1>31. PICK y : y = History(t, id)
  OBVIOUS
<1>32. With(y, t, "history", t.history \cup {id})
  BY <1>3, <1>31, HistoryWith
<1>33. IsTables(y) /\ y.processed = t.processed /\ FundTold(y.fund, w.fund) /\ id \notin y.processed
       /\ y.history = t.history \cup {id}
  BY <1>3, <1>32 DEF With, Alike, TableFields
<1>4. PICK u : u = AddFund(y, id, "fees", x)
  OBVIOUS
<1>5. /\ IsTables(u) /\ Alike(u, y, TableFields \ {"fund", "processed"}) /\ FundTold(u.fund, f)
      /\ u.processed = y.processed \cup {id} /\ AddFund(u, id, "fees", x) = u
  <2>1. Adding(u, y, id, "fees", x) /\ Raised(f, w.fund, "fees", x)
    BY <1>1, <1>4 DEF Adding, Raised
  <2>2. IsTables(y) /\ FundTold(y.fund, w.fund) /\ id \notin y.processed
    BY <1>33
  <2> QED BY <2>1, <2>2, FundAdded
<1>6. Handle(t, e, id) = OnFeeSplit(t, e, id) /\ Handle(u, e, id) = OnFeeSplit(u, e, id) /\ Kept(e) = TRUE
  BY <1>0, Dispatched
<1>61. u.history = t.history \cup {id}
  BY <1>33, <1>5 DEF Alike, TableFields
<1>62. History(u, id) = u
  BY <1>5, <1>61, HistoryWith
<1>7. Handle(t, e, id) = u /\ Handle(u, e, id) = u
  BY <1>0, <1>31, <1>4, <1>5, <1>6, <1>62 DEF OnFeeSplit
<1>8. Tells(u, v)
  BY <1>2, <1>3, <1>32, <1>5 DEF With, WorldWith, Alike, TableFields, WorldFields, Tells
<1> QED
  BY <1>33, <1>5, <1>6, <1>61, <1>7, <1>8 DEF Applied

-----------------------------------------------------------------------------
(* The market *)

LEMMA MarketTells ==
  ASSUME NEW w, NEW t, IsTables(t), Tells(t, w), NEW m,
         NEW u, With(u, t, "market", Put(t.market, "market", m)), NEW v, WorldWith(v, w, "market", m)
  PROVE  /\ IsTables(u) /\ Tells(u, v) /\ u.processed = t.processed /\ u.history = t.history
         /\ [u EXCEPT !.market = Put(u.market, "market", m)] = u /\ "market" \in DOMAIN u.market
<1>4. MarketTold(u.market, v.market)
  BY DEF With, WorldWith, MarketTold, Row, Put
<1>5. Tells(u, v)
  BY <1>4 DEF With, WorldWith, Alike, TableFields, WorldFields, Tells
<1>6. [u EXCEPT !.market = u.market] = u
  BY TablesSame DEF With
<1>7. Put(u.market, "market", m) = u.market /\ "market" \in DOMAIN u.market
  BY DEF With, Put
<1> QED
  BY <1>5, <1>6, <1>7 DEF With, Alike, TableFields

LEMMA MarketStep ==
  ASSUME NEW w \in Worlds
  PROVE  /\ Steps(w, [ev |-> "MarketRegistered"], [w EXCEPT !.market = "active"])
         /\ \A m \in {"active", "paused"} : w.market # "none" =>
              Steps(w, [ev |-> "MarketStatusSet", status |-> m], [w EXCEPT !.market = m])
<1>1. Steps(w, [ev |-> "MarketRegistered"], [w EXCEPT !.market = "active"])
  <2> DEFINE e == [ev |-> "MarketRegistered"]
             v == [w EXCEPT !.market = "active"]
  <2>0. e.ev = "MarketRegistered"
    OBVIOUS
  <2> HIDE DEF e
  <2>c. v.opened = w.opened /\ v.auction = w.auction /\ v.orders = w.orders /\ v.size = w.size /\ v.left = w.left
    BY DEF Worlds
  <2>b. Marks(w, e, v)
    <3> HIDE DEF v
    <3> QED BY <2>0, <2>c, QuietLog DEF Marking
  <2>a. Follows(w, e, v)
    BY <2>0, <2>b DEF Follows, Lists, Record, Worlds
  <2> SUFFICES ASSUME NEW t, NEW id, Before(t, w, id) PROVE Applied(t, e, id, v)
    BY <2>a DEF Steps, e
  <2>1. IsTables(t) /\ Tells(t, w)
    BY DEF Before
  <2>2. PICK m \in Markets : m = "active"
    BY DEF Markets
  <2>3. PICK u : u = [t EXCEPT !.market = Put(t.market, "market", m)]
    OBVIOUS
  <2>4. /\ IsTables(u) /\ Tells(u, v) /\ u.processed = t.processed /\ u.history = t.history
        /\ [u EXCEPT !.market = Put(u.market, "market", m)] = u
    <3>1. WorldWith(v, w, "market", m)
      BY <2>2, WorldsWith
    <3>2. With(u, t, "market", Put(t.market, "market", m))
      BY <2>1, <2>3, TablesWith
    <3> HIDE DEF v
    <3> QED BY <2>1, <3>1, <3>2, MarketTells
  <2>5. Handle(t, e, id) = OnMarketRegistered(t) /\ Handle(u, e, id) = OnMarketRegistered(u) /\ Kept(e) = FALSE
    BY <2>0, Dispatched
  <2>6. Handle(t, e, id) = u /\ Handle(u, e, id) = u
    BY <2>2, <2>3, <2>4, <2>5 DEF OnMarketRegistered
  <2> QED BY <2>4, <2>5, <2>6 DEF Applied
<1>2. ASSUME NEW m \in {"active", "paused"}, w.market # "none"
      PROVE  Steps(w, [ev |-> "MarketStatusSet", status |-> m], [w EXCEPT !.market = m])
  <2> DEFINE e == [ev |-> "MarketStatusSet", status |-> m]
             v == [w EXCEPT !.market = m]
  <2>0. e.ev = "MarketStatusSet" /\ e.status = m
    OBVIOUS
  <2> HIDE DEF e
  <2>c. v.opened = w.opened /\ v.auction = w.auction /\ v.orders = w.orders /\ v.size = w.size /\ v.left = w.left
    BY DEF Worlds
  <2>b. Marks(w, e, v)
    <3> HIDE DEF v
    <3> QED BY <2>0, <2>c, QuietLog DEF Marking
  <2>a. Follows(w, e, v)
    BY <2>0, <2>b DEF Follows, Lists, Record, Worlds
  <2> SUFFICES ASSUME NEW t, NEW id, Before(t, w, id) PROVE Applied(t, e, id, v)
    BY <2>a DEF Steps, e
  <2>1. IsTables(t) /\ Tells(t, w) /\ "market" \in DOMAIN t.market
    <3>1. IsTables(t) /\ Tells(t, w)
      BY DEF Before
    <3>2. Row(t.market, "market", "none") = w.market
      BY <3>1 DEF Tells, MarketTold
    <3> QED BY <1>2, <3>1, <3>2 DEF Row
  <2>2. m \in Markets
    BY DEF Markets
  <2>3. PICK u : u = [t EXCEPT !.market = Put(t.market, "market", m)]
    OBVIOUS
  <2>4. /\ IsTables(u) /\ Tells(u, v) /\ u.processed = t.processed /\ u.history = t.history
        /\ [u EXCEPT !.market = Put(u.market, "market", m)] = u /\ "market" \in DOMAIN u.market
    <3>1. WorldWith(v, w, "market", m)
      BY <2>2, WorldsWith
    <3>2. With(u, t, "market", Put(t.market, "market", m))
      BY <2>1, <2>3, TablesWith
    <3> HIDE DEF v
    <3> QED BY <2>1, <3>1, <3>2, MarketTells
  <2>5. Handle(t, e, id) = OnMarketStatusSet(t, e) /\ Handle(u, e, id) = OnMarketStatusSet(u, e) /\ Kept(e) = FALSE
    BY <2>0, Dispatched
  <2>6. Handle(t, e, id) = u /\ Handle(u, e, id) = u
    BY <2>0, <2>1, <2>3, <2>4, <2>5 DEF OnMarketStatusSet, Patch
  <2> QED BY <2>4, <2>5, <2>6 DEF Applied
<1> QED BY <1>1, <1>2

-----------------------------------------------------------------------------
(* Orders of the market *)

Unplaced == StoredRow(0, 0, "none")

\* y is the row r with k left.
Left(y, r, k, new) == y = [r EXCEPT !.left = k, !.status = new]

LEMMA LeftRow ==
  ASSUME NEW z, NEW l, NEW st, NEW r, r = StoredRow(z, l, st), NEW k, NEW new, NEW y, Left(y, r, k, new)
  PROVE  y = StoredRow(z, k, new)
<1>1. PICK q : q = [r EXCEPT !.left = k]
  OBVIOUS
<1>2. q = StoredRow(z, k, st)
  BY <1>1 DEF StoredRow
<1>3. [q EXCEPT !.status = new] = StoredRow(z, k, new)
  BY <1>2 DEF StoredRow
<1> QED
  BY <1>1, <1>3 DEF Left

LEMMA OrdersAre ==
  ASSUME NEW t, NEW w
  PROVE  OrdersTold(t.order, w.size, w.left, w.orders) <=> Placed(t.order) /\ \A o \in Orders : Row(t.order, o, Unplaced) = OrderOf(w, o)
BY DEF OrdersTold, OrderOf, StoredRow, Unplaced

\* The tables after the orders' rows were replaced.
LEMMA OrdersTell ==
  ASSUME NEW w, NEW t, Tells(t, w), NEW rows, NEW u, With(u, t, "order", rows),
         NEW v, Alike(v, w, WorldFields \ {"orders", "size", "left"}),
         Placed(rows), \A o \in Orders : Row(rows, o, Unplaced) = OrderOf(v, o)
  PROVE  Tells(u, v) /\ u.processed = t.processed /\ u.history = t.history
<1>1. u.order = rows
  BY DEF With
<1>2. OrdersTold(u.order, v.size, v.left, v.orders)
  BY <1>1, OrdersAre
<1> QED
  BY <1>2 DEF With, Alike, TableFields, WorldFields, Tells

LEMMA OrderStep ==
  ASSUME NEW w, w.market # "none", NEW o \in Orders, w.orders[o] = "none", NEW k,
         NEW v, Alike(v, w, WorldFields \ {"orders", "size", "left"}),
         \A p \in Orders : OrderOf(v, p) = IF p = o THEN StoredRow(k, k, "OPEN") ELSE OrderOf(w, p)
  PROVE  Steps(w, [ev |-> "OrderCreated", order |-> o, size |-> k], v)
<1> DEFINE e == [ev |-> "OrderCreated", order |-> o, size |-> k]
<1>0. e.ev = "OrderCreated" /\ e.order = o /\ e.size = k
  OBVIOUS
<1> HIDE DEF e
<1>b. Marks(w, e, v)
  BY <1>0 DEF Marks, Opens, AuctionsMove, Starts, Ends, OrderMoves, Names, OrderOf, StoredRow, WorldWith, Alike, WorldFields
<1>a. Follows(w, e, v)
  BY <1>0, <1>b DEF Follows, Lists, Record, WorldWith, Alike, WorldFields, Worlds
<1> SUFFICES ASSUME NEW t, NEW id, Before(t, w, id) PROVE Applied(t, e, id, v)
  BY <1>a DEF Steps, e
<1>1. IsTables(t) /\ Tells(t, w)
  BY DEF Before
<1>2. t.market # NoRows
  <2>1. Row(t.market, "market", "none") = w.market
    BY <1>1 DEF Tells, MarketTold
  <2>2. DOMAIN NoRows = {}
    BY DEF NoRows
  <2> QED BY <2>1, <2>2 DEF Row
<1>3. PICK row : row = StoredRow(k, k, "OPEN")
  OBVIOUS
<1>4. PICK rows : rows = Put(t.order, o, row)
  OBVIOUS
<1>5. \A p \in Orders : Row(rows, p, Unplaced) = OrderOf(v, p)
  <2>1. \A p \in Orders : Row(t.order, p, Unplaced) = OrderOf(w, p)
    BY <1>1, OrdersAre DEF Tells
  <2> QED BY <1>3, <1>4, <2>1 DEF Row, Put
<1>51. Placed(rows)
  <2>1. Placed(t.order)
    BY <1>1, OrdersAre DEF Tells
  <2> QED BY <1>3, <1>4, <2>1 DEF Placed, Put, StoredRow
<1>6. PICK u : u = [t EXCEPT !.order = rows]
  OBVIOUS
<1>7. With(u, t, "order", rows)
  BY <1>1, <1>6, TablesWith
<1>8. Handle(t, e, id) = OnOrderCreated(t, e) /\ Handle(u, e, id) = OnOrderCreated(u, e) /\ Kept(e) = FALSE
  BY <1>0, Dispatched
<1>9. Handle(t, e, id) = u
  BY <1>0, <1>2, <1>3, <1>4, <1>6, <1>8 DEF OnOrderCreated, StoredRow
<1>10. Handle(u, e, id) = u
  <2>1. u.order = rows /\ u.market = t.market /\ IsTables(u)
    BY <1>7 DEF With, Alike, TableFields
  <2>2. Put(rows, o, row) = rows
    BY <1>4 DEF Put
  <2>3. [u EXCEPT !.order = u.order] = u
    BY <2>1, TablesSame
  <2> QED BY <1>0, <1>2, <1>3, <1>8, <2>1, <2>2, <2>3 DEF OnOrderCreated, StoredRow
<1>11. Tells(u, v) /\ u.processed = t.processed /\ u.history = t.history
  BY <1>1, <1>5, <1>51, <1>7, OrdersTell
<1> QED
  BY <1>7, <1>8, <1>9, <1>10, <1>11 DEF Applied, With

LEMMA TradeStep ==
  ASSUME NEW w, NEW o \in Orders, w.orders[o] \in {"OPEN", "PARTIAL"}, NEW k \in Nat, w.size[o] \in Int, k < w.size[o],
         NEW v, Alike(v, w, WorldFields \ {"orders", "size", "left"}),
         \A p \in Orders : OrderOf(v, p) = IF p = o THEN StoredRow(w.size[o], k, IF k = 0 THEN "FILLED" ELSE "PARTIAL")
                                           ELSE OrderOf(w, p)
  PROVE  Steps(w, [ev |-> "Trade", order |-> o, left |-> k], v)
<1> DEFINE e == [ev |-> "Trade", order |-> o, left |-> k]
<1>0. e.ev = "Trade" /\ e.order = o /\ e.left = k
  OBVIOUS
<1> HIDE DEF e
<1>b. Marks(w, e, v)
  BY <1>0 DEF Marks, Opens, AuctionsMove, Starts, Ends, OrderMoves, Names, OrderOf, StoredRow, WorldWith, Alike, WorldFields
<1>a. Follows(w, e, v)
  BY <1>0, <1>b DEF Follows, Lists, Record, WorldWith, Alike, WorldFields, Worlds
<1> SUFFICES ASSUME NEW t, NEW id, Before(t, w, id) PROVE Applied(t, e, id, v)
  BY <1>a DEF Steps, e
<1>1. IsTables(t) /\ Tells(t, w)
  BY DEF Before
<1>3. PICK row : row = StoredRow(w.size[o], k, IF k = 0 THEN "FILLED" ELSE "PARTIAL")
  OBVIOUS
<1>4. PICK rows : rows = Put(t.order, o, row)
  OBVIOUS
<1>2. \A p \in Orders : Row(t.order, p, Unplaced) = OrderOf(w, p)
  BY <1>1, OrdersAre DEF Tells
<1>5. \A p \in Orders : Row(rows, p, Unplaced) = OrderOf(v, p)
  BY <1>2, <1>3, <1>4 DEF Row, Put
<1>51. Placed(rows)
  <2>1. Placed(t.order)
    BY <1>1, OrdersAre DEF Tells
  <2>2. row.status # "none"
    BY <1>3 DEF StoredRow
  <2> QED BY <1>4, <2>1, <2>2 DEF Placed, Put
<1>6. PICK u : u = [t EXCEPT !.order = rows]
  OBVIOUS
<1>7. With(u, t, "order", rows)
  BY <1>1, <1>6, TablesWith
<1>8. Handle(t, e, id) = OnTrade(t, e) /\ Handle(u, e, id) = OnTrade(u, e) /\ Kept(e) = FALSE
  BY <1>0, Dispatched
<1>9. Handle(t, e, id) = u
  <2>1. PICK r : r = Row(t.order, o, [size |-> 0, left |-> 0, status |-> "none"])
    OBVIOUS
  <2>2. r = StoredRow(w.size[o], w.left[o], w.orders[o])
    BY <1>2, <2>1 DEF Unplaced, StoredRow, OrderOf
  <2>3. r.status \notin {"none", "CANCELLED"} /\ r.size = w.size[o]
    BY <2>2 DEF StoredRow
  <2>6. PICK new : new = IF k = 0 THEN "FILLED" ELSE IF k < r.size THEN "PARTIAL" ELSE "OPEN"
    OBVIOUS
  <2>7. row = StoredRow(w.size[o], k, new)
    BY <1>3, <2>3, <2>6
  <2>8. PICK y : y = [r EXCEPT !.left = k, !.status = new]
    OBVIOUS
  <2>4. y = row
    <3>1. Left(y, r, k, new)
      BY <2>8 DEF Left
    <3> QED BY <2>2, <2>7, <3>1, LeftRow
  <2>5. OnTrade(t, e) = [t EXCEPT !.order = Put(t.order, o, y)]
    BY <1>0, <2>1, <2>3, <2>6, <2>8 DEF OnTrade
  <2> QED BY <1>4, <1>6, <1>8, <2>4, <2>5
<1>10. Handle(u, e, id) = u
  <2>1. u.order = rows /\ IsTables(u)
    BY <1>7 DEF With, Alike, TableFields
  <2>2. Put(rows, o, row) = rows /\ Row(rows, o, [size |-> 0, left |-> 0, status |-> "none"]) = row
    BY <1>4 DEF Put, Row
  <2>3. [u EXCEPT !.order = u.order] = u
    BY <2>1, TablesSame
  <2>4. row.status \notin {"none", "CANCELLED"} /\ row.size = w.size[o]
    BY <1>3 DEF StoredRow
  <2>6. PICK new : new = IF k = 0 THEN "FILLED" ELSE IF k < row.size THEN "PARTIAL" ELSE "OPEN"
    OBVIOUS
  <2>7. row = StoredRow(w.size[o], k, new)
    BY <1>3, <2>4, <2>6
  <2>8. PICK y : y = [row EXCEPT !.left = k, !.status = new]
    OBVIOUS
  <2>5. y = row
    <3>1. Left(y, row, k, new)
      BY <2>8 DEF Left
    <3> QED BY <2>7, <3>1, LeftRow
  <2>9. OnTrade(u, e) = [u EXCEPT !.order = Put(u.order, o, y)]
    BY <1>0, <2>1, <2>2, <2>4, <2>6, <2>8 DEF OnTrade
  <2> QED BY <1>8, <2>1, <2>2, <2>3, <2>5, <2>9
<1>11. Tells(u, v) /\ u.processed = t.processed /\ u.history = t.history
  BY <1>1, <1>5, <1>51, <1>7, OrdersTell
<1> QED
  BY <1>7, <1>8, <1>9, <1>10, <1>11 DEF Applied, With

LEMMA CancelStep ==
  ASSUME NEW w, NEW os \in SUBSET Orders, \A o \in os : w.orders[o] \in {"OPEN", "PARTIAL"},
         NEW v, Alike(v, w, WorldFields \ {"orders", "size", "left"}),
         \A p \in Orders : OrderOf(v, p) = IF p \in os THEN StoredRow(w.size[p], 0, "CANCELLED") ELSE OrderOf(w, p)
  PROVE  Steps(w, [ev |-> "OrdersCanceled", orders |-> os], v)
<1> DEFINE e == [ev |-> "OrdersCanceled", orders |-> os]
<1>0. e.ev = "OrdersCanceled" /\ e.orders = os
  OBVIOUS
<1> HIDE DEF e
<1>b. Marks(w, e, v)
  BY <1>0 DEF Marks, Opens, AuctionsMove, Starts, Ends, OrderMoves, Names, OrderOf, StoredRow, WorldWith, Alike, WorldFields
<1>a. Follows(w, e, v)
  BY <1>0, <1>b DEF Follows, Lists, Record, WorldWith, Alike, WorldFields, Worlds
<1> SUFFICES ASSUME NEW t, NEW id, Before(t, w, id) PROVE Applied(t, e, id, v)
  BY <1>a DEF Steps, e
<1>1. IsTables(t) /\ Tells(t, w)
  BY DEF Before
<1>2. \A p \in Orders : Row(t.order, p, Unplaced) = OrderOf(w, p)
  BY <1>1, OrdersAre DEF Tells
<1>3. \A p \in os : p \in DOMAIN t.order /\ t.order[p] = OrderOf(w, p)
  <2> SUFFICES ASSUME NEW p \in os PROVE p \in DOMAIN t.order /\ t.order[p] = OrderOf(w, p)
    OBVIOUS
  <2>1. Row(t.order, p, Unplaced) = OrderOf(w, p) /\ OrderOf(w, p) # Unplaced
    BY <1>2 DEF OrderOf, StoredRow, Unplaced
  <2> QED BY <2>1 DEF Row
<1>4. PICK rows : rows = [p \in DOMAIN t.order |-> IF p \in os THEN StoredRow(w.size[p], 0, "CANCELLED") ELSE t.order[p]]
  OBVIOUS
<1>5. \A p \in Orders : Row(rows, p, Unplaced) = OrderOf(v, p)
  BY <1>2, <1>3, <1>4 DEF Row
<1>51. Placed(rows)
  <2>1. Placed(t.order)
    BY <1>1, OrdersAre DEF Tells
  <2> QED BY <1>4, <2>1 DEF Placed, StoredRow
<1>6. PICK u : u = [t EXCEPT !.order = rows]
  OBVIOUS
<1>7. With(u, t, "order", rows)
  BY <1>1, <1>6, TablesWith
<1>8. Handle(t, e, id) = OnOrdersCanceled(t, e) /\ Handle(u, e, id) = OnOrdersCanceled(u, e) /\ Kept(e) = FALSE
  BY <1>0, Dispatched
<1>9. Handle(t, e, id) = u
  <2>1. rows = [p \in DOMAIN t.order |-> IF p \in os /\ t.order[p].status # "FILLED"
                      THEN [t.order[p] EXCEPT !.left = 0, !.status = "CANCELLED"] ELSE t.order[p]]
    <3>1. ASSUME NEW p \in DOMAIN t.order
          PROVE  rows[p] = IF p \in os /\ t.order[p].status # "FILLED"
                           THEN [t.order[p] EXCEPT !.left = 0, !.status = "CANCELLED"] ELSE t.order[p]
      <4>1. CASE p \in os
        <5>1. t.order[p] = StoredRow(w.size[p], w.left[p], w.orders[p])
          BY <1>3, <4>1 DEF OrderOf
        <5>2. t.order[p].status # "FILLED"
          BY <4>1, <5>1 DEF StoredRow
        <5>3. PICK y : y = [t.order[p] EXCEPT !.left = 0, !.status = "CANCELLED"]
          OBVIOUS
        <5>4. y = StoredRow(w.size[p], 0, "CANCELLED")
          <6>1. Left(y, t.order[p], 0, "CANCELLED")
            BY <5>3 DEF Left
          <6> QED BY <5>1, <6>1, LeftRow
        <5> QED BY <1>4, <4>1, <5>2, <5>3, <5>4
      <4>2. CASE p \notin os
        BY <1>4, <4>2
      <4> QED BY <4>1, <4>2
    <3>2. PICK other : other = [p \in DOMAIN t.order |-> IF p \in os /\ t.order[p].status # "FILLED"
                      THEN [t.order[p] EXCEPT !.left = 0, !.status = "CANCELLED"] ELSE t.order[p]]
      OBVIOUS
    <3>3. \A p \in DOMAIN t.order : rows[p] = other[p]
      BY <3>1, <3>2
    <3> QED BY <1>4, <3>2, <3>3
  <2> QED BY <1>0, <1>6, <1>8, <2>1 DEF OnOrdersCanceled
<1>10. Handle(u, e, id) = u
  <2>1. u.order = rows /\ IsTables(u)
    BY <1>7 DEF With, Alike, TableFields
  <2>2. rows = [p \in DOMAIN rows |-> IF p \in os /\ rows[p].status # "FILLED"
                      THEN [rows[p] EXCEPT !.left = 0, !.status = "CANCELLED"] ELSE rows[p]]
    <3>1. ASSUME NEW p \in DOMAIN rows
          PROVE  rows[p] = IF p \in os /\ rows[p].status # "FILLED"
                           THEN [rows[p] EXCEPT !.left = 0, !.status = "CANCELLED"] ELSE rows[p]
      <4>1. CASE p \in os
        <5>1. rows[p] = StoredRow(w.size[p], 0, "CANCELLED")
          BY <1>4, <4>1
        <5>3. PICK y : y = [rows[p] EXCEPT !.left = 0, !.status = "CANCELLED"]
          OBVIOUS
        <5>2. y = rows[p]
          <6>1. Left(y, rows[p], 0, "CANCELLED")
            BY <5>3 DEF Left
          <6> QED BY <5>1, <6>1, LeftRow
        <5> QED BY <5>2, <5>3
      <4>2. CASE p \notin os
        BY <4>2
      <4> QED BY <4>1, <4>2
    <3>2. PICK other : other = [p \in DOMAIN rows |-> IF p \in os /\ rows[p].status # "FILLED"
                      THEN [rows[p] EXCEPT !.left = 0, !.status = "CANCELLED"] ELSE rows[p]]
      OBVIOUS
    <3>3. \A p \in DOMAIN rows : rows[p] = other[p]
      BY <3>1, <3>2
    <3>4. rows = [p \in DOMAIN rows |-> rows[p]]
      BY <1>4
    <3> QED BY <3>2, <3>3, <3>4
  <2>3. [u EXCEPT !.order = u.order] = u
    BY <2>1, TablesSame
  <2>4. PICK x : x = [p \in DOMAIN rows |-> IF p \in os /\ rows[p].status # "FILLED"
                      THEN [rows[p] EXCEPT !.left = 0, !.status = "CANCELLED"] ELSE rows[p]]
    OBVIOUS
  <2>5. OnOrdersCanceled(u, e) = [u EXCEPT !.order = x]
    BY <1>0, <2>1, <2>4 DEF OnOrdersCanceled
  <2> QED BY <1>8, <2>1, <2>2, <2>3, <2>4, <2>5
<1>11. Tells(u, v) /\ u.processed = t.processed /\ u.history = t.history
  BY <1>1, <1>5, <1>51, <1>7, OrdersTell
<1> QED
  BY <1>7, <1>8, <1>9, <1>10, <1>11 DEF Applied, With

-----------------------------------------------------------------------------
(* The product and its surface *)

ProductRow(enabled, closeOnly, seq) == [enabled |-> enabled, closeOnly |-> closeOnly, seq |-> seq]

OneProduct(rows, w) == rows = [x \in {"product"} |-> ProductRow(w.enabled, w.closeOnly, w.seq)]

LEMMA ProductIs ==
  ASSUME NEW w, NEW rows, OneProduct(rows, w)
  PROVE  /\ rows # NoRows /\ rows["product"] = ProductRow(w.enabled, w.closeOnly, w.seq)
         /\ ProductTold(rows, w.approved, w.enabled, w.closeOnly, w.seq)
<1>1. DOMAIN NoRows = {} /\ DOMAIN rows = {"product"}
  BY DEF NoRows, OneProduct
<1> QED
  BY <1>1 DEF OneProduct, ProductTold, ProductRow

LEMMA ProductTells ==
  ASSUME NEW w, NEW t, Tells(t, w), NEW v, Alike(v, w, WorldFields \ {"approved", "enabled", "closeOnly"}),
         NEW rows, OneProduct(rows, v), NEW u, With(u, t, "product", rows)
  PROVE  Tells(u, v) /\ u.processed = t.processed /\ u.history = t.history /\ u.product = rows /\ IsTables(u)
<1>1. ProductTold(rows, v.approved, v.enabled, v.closeOnly, v.seq)
  BY ProductIs
<1> QED
  BY <1>1 DEF With, Alike, TableFields, WorldFields, Tells

LEMMA ApprovedProduct ==
  ASSUME NEW w, NEW t, Tells(t, w), w.approved
  PROVE  OneProduct(t.product, w)
BY DEF Tells, ProductTold, OneProduct, ProductRow

LEMMA ApproveStep ==
  ASSUME NEW w, NEW v, Alike(v, w, WorldFields \ {"approved", "enabled"}), v.enabled = TRUE
  PROVE  Steps(w, [ev |-> "ProductApproved"], v)
<1> DEFINE e == [ev |-> "ProductApproved"]
<1>0. e.ev = "ProductApproved"
  OBVIOUS
<1> HIDE DEF e
<1>b. Marks(w, e, v)
  BY <1>0, QuietLog DEF Marking, WorldWith, Alike, WorldFields
<1>a. Follows(w, e, v)
  BY <1>0, <1>b DEF Follows, Lists, Record, WorldWith, Alike, WorldFields, Worlds
<1> SUFFICES ASSUME NEW t, NEW id, Before(t, w, id) PROVE Applied(t, e, id, v)
  BY <1>a DEF Steps, e
<1>1. IsTables(t) /\ Tells(t, w)
  BY DEF Before
<1>2. Alike(v, w, WorldFields \ {"approved", "enabled", "closeOnly"}) /\ v.closeOnly = w.closeOnly /\ v.seq = w.seq
  BY DEF Alike, WorldFields
<1>3. PICK rows : rows = [x \in {"product"} |-> ProductRow(v.enabled, v.closeOnly, v.seq)]
  OBVIOUS
<1>4. OneProduct(rows, v)
  BY <1>3 DEF OneProduct
<1>5. PICK u : u = [t EXCEPT !.product = rows]
  OBVIOUS
<1>6. With(u, t, "product", rows)
  BY <1>1, <1>5, TablesWith
<1>7. Tells(u, v) /\ u.processed = t.processed /\ u.history = t.history /\ u.product = rows /\ IsTables(u)
  BY <1>1, <1>2, <1>4, <1>6, ProductTells
<1>8. Handle(t, e, id) = OnProductApproved(t) /\ Handle(u, e, id) = OnProductApproved(u) /\ Kept(e) = FALSE
  BY <1>0, Dispatched
<1>9. Handle(t, e, id) = u
  <2>1. PICK old : old = Row(t.product, "product", [closeOnly |-> FALSE, seq |-> 0])
    OBVIOUS
  <2>2. old.closeOnly = w.closeOnly /\ old.seq = w.seq /\ DOMAIN t.product \subseteq {"product"}
    <3>1. ProductTold(t.product, w.approved, w.enabled, w.closeOnly, w.seq)
      BY <1>1 DEF Tells
    <3>2. CASE t.product = NoRows /\ w.closeOnly = FALSE /\ w.seq = 0
      <4>1. DOMAIN t.product = {}
        BY <3>2 DEF NoRows
      <4> QED BY <2>1, <3>2, <4>1 DEF Row
    <3>3. CASE t.product = [x \in {"product"} |-> [enabled |-> w.enabled, closeOnly |-> w.closeOnly, seq |-> w.seq]]
      BY <2>1, <3>3 DEF Row
    <3> QED BY <3>1, <3>2, <3>3 DEF ProductTold
  <2>3. Put(t.product, "product", ProductRow(TRUE, old.closeOnly, old.seq)) = rows
    BY <1>2, <1>3, <2>2 DEF Put
  <2>4. OnProductApproved(t) = [t EXCEPT !.product = Put(t.product, "product", ProductRow(TRUE, old.closeOnly, old.seq))]
    BY <2>1 DEF OnProductApproved, ProductRow
  <2> QED BY <1>5, <1>8, <2>3, <2>4
<1>10. Handle(u, e, id) = u
  <2>1. PICK old : old = Row(rows, "product", [closeOnly |-> FALSE, seq |-> 0])
    OBVIOUS
  <2>2. old = ProductRow(v.enabled, v.closeOnly, v.seq)
    BY <1>3, <2>1 DEF Row
  <2>3. Put(rows, "product", ProductRow(TRUE, old.closeOnly, old.seq)) = rows
    BY <1>3, <2>2 DEF Put, ProductRow
  <2>4. OnProductApproved(u) = [u EXCEPT !.product = Put(u.product, "product", ProductRow(TRUE, old.closeOnly, old.seq))]
    BY <1>7, <2>1 DEF OnProductApproved, ProductRow
  <2>5. [u EXCEPT !.product = u.product] = u
    BY <1>7, TablesSame
  <2> QED BY <1>7, <1>8, <2>3, <2>4, <2>5
<1> QED
  BY <1>7, <1>8, <1>9, <1>10 DEF Applied

LEMMA EnabledStep ==
  ASSUME NEW w, w.approved, NEW v, Alike(v, w, WorldFields \ {"enabled"}), NEW b, v.enabled = b
  PROVE  Steps(w, [ev |-> "ProductEnabled", enabled |-> b], v)
<1> DEFINE e == [ev |-> "ProductEnabled", enabled |-> b]
<1>0. e.ev = "ProductEnabled" /\ e.enabled = b
  OBVIOUS
<1> HIDE DEF e
<1>b. Marks(w, e, v)
  BY <1>0, QuietLog DEF Marking, WorldWith, Alike, WorldFields
<1>a. Follows(w, e, v)
  BY <1>0, <1>b DEF Follows, Lists, Record, WorldWith, Alike, WorldFields, Worlds
<1> SUFFICES ASSUME NEW t, NEW id, Before(t, w, id) PROVE Applied(t, e, id, v)
  BY <1>a DEF Steps, e
<1>1. IsTables(t) /\ Tells(t, w)
  BY DEF Before
<1>2. Alike(v, w, WorldFields \ {"approved", "enabled", "closeOnly"}) /\ v.closeOnly = w.closeOnly /\ v.seq = w.seq
  BY DEF Alike, WorldFields
<1>3. PICK rows : rows = [x \in {"product"} |-> ProductRow(v.enabled, v.closeOnly, v.seq)]
  OBVIOUS
<1>4. OneProduct(rows, v)
  BY <1>3 DEF OneProduct
<1>5. PICK u : u = [t EXCEPT !.product = rows]
  OBVIOUS
<1>6. With(u, t, "product", rows)
  BY <1>1, <1>5, TablesWith
<1>7. Tells(u, v) /\ u.processed = t.processed /\ u.history = t.history /\ u.product = rows /\ IsTables(u)
  BY <1>1, <1>2, <1>4, <1>6, ProductTells
<1>8. Handle(t, e, id) = OnProductEnabled(t, e) /\ Handle(u, e, id) = OnProductEnabled(u, e) /\ Kept(e) = FALSE
  BY <1>0, Dispatched
<1>9. Handle(t, e, id) = u
  <2>1. OneProduct(t.product, w)
    BY <1>1, ApprovedProduct
  <2>2. t.product # NoRows
    BY <2>1, ProductIs
  <2>3. PICK row : row = [t.product["product"] EXCEPT !.enabled = b]
    OBVIOUS
  <2>4. row = ProductRow(v.enabled, v.closeOnly, v.seq)
    BY <1>2, <2>1, <2>3 DEF OneProduct, ProductRow
  <2>5. [t.product EXCEPT !["product"] = row] = rows
    BY <1>3, <2>1, <2>4 DEF OneProduct
  <2>6. OnProductEnabled(t, e) = [t EXCEPT !.product = [t.product EXCEPT !["product"] = row]]
    BY <1>0, <2>2, <2>3 DEF OnProductEnabled
  <2> QED BY <1>5, <1>8, <2>5, <2>6
<1>10. Handle(u, e, id) = u
  <2>2. u.product # NoRows
    BY <1>4, <1>7, ProductIs
  <2>3. PICK row : row = [u.product["product"] EXCEPT !.enabled = b]
    OBVIOUS
  <2>4. row = ProductRow(v.enabled, v.closeOnly, v.seq)
    BY <1>3, <1>7, <2>3 DEF ProductRow
  <2>5. [u.product EXCEPT !["product"] = row] = u.product
    BY <1>3, <1>7, <2>4
  <2>6. OnProductEnabled(u, e) = [u EXCEPT !.product = [u.product EXCEPT !["product"] = row]]
    BY <1>0, <2>2, <2>3 DEF OnProductEnabled
  <2>7. [u EXCEPT !.product = u.product] = u
    BY <1>7, TablesSame
  <2> QED BY <1>8, <2>5, <2>6, <2>7
<1> QED
  BY <1>7, <1>8, <1>9, <1>10 DEF Applied

LEMMA CloseOnlyStep ==
  ASSUME NEW w, w.approved, NEW v, Alike(v, w, WorldFields \ {"closeOnly"}), NEW b, v.closeOnly = b
  PROVE  Steps(w, [ev |-> "ProductCloseOnlySet", closeOnly |-> b], v)
<1> DEFINE e == [ev |-> "ProductCloseOnlySet", closeOnly |-> b]
<1>0. e.ev = "ProductCloseOnlySet" /\ e.closeOnly = b
  OBVIOUS
<1> HIDE DEF e
<1>b. Marks(w, e, v)
  BY <1>0, QuietLog DEF Marking, WorldWith, Alike, WorldFields
<1>a. Follows(w, e, v)
  BY <1>0, <1>b DEF Follows, Lists, Record, WorldWith, Alike, WorldFields, Worlds
<1> SUFFICES ASSUME NEW t, NEW id, Before(t, w, id) PROVE Applied(t, e, id, v)
  BY <1>a DEF Steps, e
<1>1. IsTables(t) /\ Tells(t, w)
  BY DEF Before
<1>2. Alike(v, w, WorldFields \ {"approved", "enabled", "closeOnly"}) /\ v.enabled = w.enabled /\ v.seq = w.seq
  BY DEF Alike, WorldFields
<1>3. PICK rows : rows = [x \in {"product"} |-> ProductRow(v.enabled, v.closeOnly, v.seq)]
  OBVIOUS
<1>4. OneProduct(rows, v)
  BY <1>3 DEF OneProduct
<1>5. PICK y : y = [t EXCEPT !.product = rows]
  OBVIOUS
<1>6. With(y, t, "product", rows)
  BY <1>1, <1>5, TablesWith
<1>7. Tells(y, v) /\ y.processed = t.processed /\ y.history = t.history /\ y.product = rows /\ IsTables(y)
  BY <1>1, <1>2, <1>4, <1>6, ProductTells
<1>8. PICK u : u = History(y, id)
  OBVIOUS
<1>9. With(u, y, "history", y.history \cup {id})
  BY <1>7, <1>8, HistoryWith
<1>10. Tells(u, v) /\ u.processed = t.processed /\ u.history = t.history \cup {id} /\ u.product = rows /\ IsTables(u)
  BY <1>7, <1>9 DEF With, Alike, TableFields, Tells
<1>11. Handle(t, e, id) = OnProductCloseOnlySet(t, e, id) /\ Handle(u, e, id) = OnProductCloseOnlySet(u, e, id) /\ Kept(e) = TRUE
  BY <1>0, Dispatched
<1>12. Handle(t, e, id) = u
  <2>1. OneProduct(t.product, w)
    BY <1>1, ApprovedProduct
  <2>2. t.product # NoRows
    BY <2>1, ProductIs
  <2>3. PICK row : row = [t.product["product"] EXCEPT !.closeOnly = b]
    OBVIOUS
  <2>4. row = ProductRow(v.enabled, v.closeOnly, v.seq)
    BY <1>2, <2>1, <2>3 DEF OneProduct, ProductRow
  <2>5. [t.product EXCEPT !["product"] = row] = rows
    BY <1>3, <2>1, <2>4 DEF OneProduct
  <2>6. OnProductCloseOnlySet(t, e, id) = History([t EXCEPT !.product = [t.product EXCEPT !["product"] = row]], id)
    BY <1>0, <2>2, <2>3 DEF OnProductCloseOnlySet
  <2> QED BY <1>5, <1>8, <1>11, <2>5, <2>6
<1>13. Handle(u, e, id) = u
  <2>2. u.product # NoRows
    BY <1>4, <1>10, ProductIs
  <2>3. PICK row : row = [u.product["product"] EXCEPT !.closeOnly = b]
    OBVIOUS
  <2>4. row = ProductRow(v.enabled, v.closeOnly, v.seq)
    BY <1>3, <1>10, <2>3 DEF ProductRow
  <2>5. [u.product EXCEPT !["product"] = row] = u.product
    BY <1>3, <1>10, <2>4
  <2>6. OnProductCloseOnlySet(u, e, id) = History([u EXCEPT !.product = [u.product EXCEPT !["product"] = row]], id)
    BY <1>0, <2>2, <2>3 DEF OnProductCloseOnlySet
  <2>7. [u EXCEPT !.product = u.product] = u
    BY <1>10, TablesSame
  <2>8. History(u, id) = u
    BY <1>10, HistoryWith
  <2> QED BY <1>11, <2>5, <2>6, <2>7, <2>8
<1> QED
  BY <1>10, <1>11, <1>12, <1>13 DEF Applied

LEMMA AcceptedStep ==
  ASSUME NEW w, w.approved, w.seq \in Nat, NEW v, Alike(v, w, WorldFields \ {"seq", "nodes"}),
         NEW q, q = w.seq + 1, v.seq = q, v.nodes = 0
  PROVE  Steps(w, [ev |-> "SurfaceAccepted", seq |-> q], v)
<1> DEFINE e == [ev |-> "SurfaceAccepted", seq |-> q]
<1>0. e.ev = "SurfaceAccepted" /\ e.seq = q
  OBVIOUS
<1> HIDE DEF e
<1>b. Marks(w, e, v)
  BY <1>0, QuietLog DEF Marking, WorldWith, Alike, WorldFields
<1>a. Follows(w, e, v)
  BY <1>0, <1>b DEF Follows, Lists, Record, WorldWith, Alike, WorldFields, Worlds
<1> SUFFICES ASSUME NEW t, NEW id, Before(t, w, id) PROVE Applied(t, e, id, v)
  BY <1>a DEF Steps, e
<1>1. IsTables(t) /\ Tells(t, w)
  BY DEF Before
<1>2. v.approved = w.approved /\ v.enabled = w.enabled /\ v.closeOnly = w.closeOnly
  BY DEF Alike, WorldFields
<1>3. PICK rows : rows = [x \in {"product"} |-> ProductRow(v.enabled, v.closeOnly, v.seq)]
  OBVIOUS
<1>4. OneProduct(rows, v)
  BY <1>3 DEF OneProduct
<1>20. PICK surface : surface = Put(t.surface, q, 0)
  OBVIOUS
<1>21. SurfaceTold(t.surface, w.seq, w.nodes)
  BY <1>1 DEF Tells
<1>22. DOMAIN t.surface \subseteq 1..w.seq
  BY <1>21 DEF SurfaceTold
<1>23. SurfaceTold(surface, v.seq, v.nodes) /\ q \in DOMAIN surface /\ surface[q] = 0 /\ q \notin DOMAIN t.surface
  BY <1>20, <1>22 DEF SurfaceTold, Put
<1>5. PICK y : y = [t EXCEPT !.surface = surface]
  OBVIOUS
<1>6. With(y, t, "surface", surface)
  BY <1>1, <1>5, TablesWith
<1>24. IsTables(y) /\ y.product = t.product
  BY <1>6 DEF With, Alike, TableFields
<1>7. PICK u : u = [y EXCEPT !.product = rows]
  OBVIOUS
<1>8. With(u, y, "product", rows)
  BY <1>7, <1>24, TablesWith
<1>9. Tells(u, v) /\ u.processed = t.processed /\ u.history = t.history /\ u.product = rows /\ u.surface = surface /\ IsTables(u)
  <2>1. ProductTold(rows, v.approved, v.enabled, v.closeOnly, v.seq)
    BY <1>4, ProductIs
  <2> QED BY <1>1, <1>6, <1>8, <1>23, <2>1 DEF With, Alike, TableFields, WorldFields, Tells
<1>10. Handle(t, e, id) = OnSurfaceAccepted(t, e) /\ Handle(u, e, id) = OnSurfaceAccepted(u, e) /\ Kept(e) = FALSE
  BY <1>0, Dispatched
<1>11. Handle(t, e, id) = u
  <2>1. OneProduct(t.product, w)
    BY <1>1, ApprovedProduct
  <2>2. t.product # NoRows
    BY <2>1, ProductIs
  <2>3. PICK row : row = [y.product["product"] EXCEPT !.seq = q]
    OBVIOUS
  <2>4. row = ProductRow(v.enabled, v.closeOnly, v.seq)
    BY <1>2, <1>24, <2>1, <2>3 DEF OneProduct, ProductRow
  <2>5. [y.product EXCEPT !["product"] = row] = rows
    BY <1>3, <1>24, <2>1, <2>4 DEF OneProduct
  <2>6. Row(t.surface, q, 0) = 0
    BY <1>23 DEF Row
  <2>7. OnSurfaceAccepted(t, e) = [y EXCEPT !.product = [y.product EXCEPT !["product"] = row]]
    BY <1>0, <1>5, <1>20, <2>2, <2>3, <2>6 DEF OnSurfaceAccepted
  <2> QED BY <1>7, <1>10, <2>5, <2>7
<1>12. Handle(u, e, id) = u
  <2>2. u.product # NoRows
    BY <1>4, <1>9, ProductIs
  <2>3. PICK row : row = [u.product["product"] EXCEPT !.seq = q]
    OBVIOUS
  <2>4. row = ProductRow(v.enabled, v.closeOnly, v.seq)
    BY <1>3, <1>9, <2>3 DEF ProductRow
  <2>5. [u.product EXCEPT !["product"] = row] = u.product
    BY <1>3, <1>9, <2>4
  <2>6. Put(u.surface, q, Row(u.surface, q, 0)) = u.surface
    BY <1>9, <1>20, <1>23 DEF Put, Row
  <2>7. [u EXCEPT !.surface = u.surface] = u /\ [u EXCEPT !.product = u.product] = u
    BY <1>9, TablesSame
  <2>8. PICK z : z = [u EXCEPT !.surface = Put(u.surface, q, Row(u.surface, q, 0))]
    OBVIOUS
  <2>9. z = u
    BY <2>6, <2>7, <2>8
  <2>10. OnSurfaceAccepted(u, e) = [z EXCEPT !.product = [z.product EXCEPT !["product"] = row]]
    BY <1>0, <2>2, <2>3, <2>8, <2>9 DEF OnSurfaceAccepted
  <2> QED BY <1>10, <2>5, <2>7, <2>9, <2>10
<1> QED
  BY <1>9, <1>10, <1>11, <1>12 DEF Applied

LEMMA NodeStep ==
  ASSUME NEW w, w.seq \in Nat, w.seq > 0, w.nodes \in Nat, NEW v, Alike(v, w, WorldFields \ {"nodes"}),
         v.nodes = w.nodes + 1, NEW q, q = w.seq
  PROVE  Steps(w, [ev |-> "NodeProven", seq |-> q], v)
<1> DEFINE e == [ev |-> "NodeProven", seq |-> q]
<1>0. e.ev = "NodeProven" /\ e.seq = q
  OBVIOUS
<1> HIDE DEF e
<1>b. Marks(w, e, v)
  BY <1>0, QuietLog DEF Marking, WorldWith, Alike, WorldFields
<1>a. Follows(w, e, v)
  BY <1>0, <1>b DEF Follows, Lists, Record, WorldWith, Alike, WorldFields, Worlds
<1> SUFFICES ASSUME NEW t, NEW id, Before(t, w, id) PROVE Applied(t, e, id, v)
  BY <1>a DEF Steps, e
<1>1. IsTables(t) /\ Tells(t, w) /\ id \notin t.processed
  BY DEF Before
<1>2. SurfaceTold(t.surface, w.seq, w.nodes)
  BY <1>1 DEF Tells
<1>3. q \in DOMAIN t.surface /\ t.surface[q] = w.nodes /\ DOMAIN t.surface \subseteq 1..q
  BY <1>2 DEF SurfaceTold
<1>4. PICK surface : surface = Put(t.surface, q, w.nodes + 1)
  OBVIOUS
<1>5. SurfaceTold(surface, v.seq, v.nodes)
  BY <1>3, <1>4 DEF SurfaceTold, Put, Alike, WorldFields
<1>6. PICK y : y = [t EXCEPT !.surface = surface]
  OBVIOUS
<1>7. With(y, t, "surface", surface)
  BY <1>1, <1>6, TablesWith
<1>8. PICK u : u = Once(t, id, y)
  OBVIOUS
<1>9. With(u, y, "processed", y.processed \cup {id}) /\ \A z : Once(u, id, z) = u
  <2>1. IsTables(y) /\ y.processed = t.processed
    BY <1>7 DEF With, Alike, TableFields
  <2> QED BY <1>1, <1>8, <2>1, AppliedOnce
<1>10. Tells(u, v) /\ u.history = t.history /\ u.processed = t.processed \cup {id} /\ IsTables(u)
  BY <1>1, <1>5, <1>7, <1>9 DEF With, Alike, TableFields, WorldFields, Tells
<1>11. Handle(t, e, id) = OnNodeProven(t, e, id) /\ Handle(u, e, id) = OnNodeProven(u, e, id) /\ Kept(e) = FALSE
  BY <1>0, Dispatched
<1>12. Handle(t, e, id) = u
  <2>1. Patch(t.surface, q, Row(t.surface, q, 0) + 1) = surface
    BY <1>3, <1>4 DEF Patch, Row
  <2> QED BY <1>0, <1>6, <1>8, <1>11, <2>1 DEF OnNodeProven
<1>13. Handle(u, e, id) = u
  BY <1>0, <1>9, <1>11 DEF OnNodeProven
<1> QED
  BY <1>10, <1>11, <1>12, <1>13 DEF Applied

-----------------------------------------------------------------------------
(* Balances and wrappers, and the totals of a series *)

\* Of the rows of s, new differs from old at a only.
OnlyAt(new, old, a, s, S) == \A b \in S : b # a => new[b][s] = old[b][s]
LongBy(new, old, a, s) ==
  /\ LongOf(old, s) \in Int /\ LongOf(new, s) \in Int
  /\ LongOf(new, s) = LongOf(old, s) + Max0(new[a][s]) - Max0(old[a][s])
ShortBy(new, old, a, s) ==
  /\ ShortOf(old, s) \in Int /\ ShortOf(new, s) \in Int
  /\ ShortOf(new, s) = ShortOf(old, s) + Max0(-new[a][s]) - Max0(-old[a][s])
SupplyBy(new, old, a, s) ==
  /\ SupplyOf(old, s) \in Int /\ SupplyOf(new, s) \in Int
  /\ SupplyOf(new, s) = SupplyOf(old, s) + new[a][s] - old[a][s]

LEMMA LongMoved ==
  ASSUME NEW bal \in Balances, NEW new \in Balances, NEW a \in Accounts, NEW s \in Series, OnlyAt(new, bal, a, s, Accounts)
  PROVE  LongBy(new, bal, a, s)
<1> DEFINE g == [b \in Accounts |-> Max0(bal[b][s])]
           f == [b \in Accounts |-> Max0(new[b][s])]
           d == Max0(new[a][s]) - Max0(bal[a][s])
<1>1. g \in [Accounts -> Int] /\ f \in [Accounts -> Int] /\ d \in Int
  BY DEF Balances, Max0
<1>2. f[a] = g[a] + d /\ \A b \in Accounts : b # a => f[b] = g[b]
  BY DEF Balances, Max0, OnlyAt
<1>3. PICK h \in [SUBSET Accounts -> Int] : Adds(h, g, Accounts) /\ LongOf(bal, s) = h[Accounts]
  BY LongAdds
<1>4. PICK j \in [SUBSET Accounts -> Int] : Adds(j, f, Accounts) /\ LongOf(new, s) = j[Accounts]
  BY LongAdds
<1>5. Max0(new[a][s]) \in Int /\ Max0(bal[a][s]) \in Int
  BY DEF Balances, Max0
<1>6. MoreIn(j, h, d, Accounts)
  <2>1. MoreAt(f, g, a, d, Accounts)
    BY <1>2 DEF MoreAt
  <2>2. IsFiniteSet(Accounts)
    BY ChainAssumption
  <2> HIDE DEF g, f, d
  <2> QED BY <1>1, <1>3, <1>4, <2>1, <2>2, AddsMoved
<1> QED
  BY <1>3, <1>4, <1>5, <1>6 DEF MoreIn, LongBy

LEMMA ShortMoved ==
  ASSUME NEW bal \in Balances, NEW new \in Balances, NEW a \in Accounts, NEW s \in Series, OnlyAt(new, bal, a, s, Accounts)
  PROVE  ShortBy(new, bal, a, s)
<1> DEFINE g == [b \in Accounts |-> Max0(-bal[b][s])]
           f == [b \in Accounts |-> Max0(-new[b][s])]
           d == Max0(-new[a][s]) - Max0(-bal[a][s])
<1>1. g \in [Accounts -> Int] /\ f \in [Accounts -> Int] /\ d \in Int
  BY DEF Balances, Max0
<1>2. f[a] = g[a] + d /\ \A b \in Accounts : b # a => f[b] = g[b]
  BY DEF Balances, Max0, OnlyAt
<1>3. PICK h \in [SUBSET Accounts -> Int] : Adds(h, g, Accounts) /\ ShortOf(bal, s) = h[Accounts]
  BY ShortAdds
<1>4. PICK j \in [SUBSET Accounts -> Int] : Adds(j, f, Accounts) /\ ShortOf(new, s) = j[Accounts]
  BY ShortAdds
<1>5. Max0(-new[a][s]) \in Int /\ Max0(-bal[a][s]) \in Int
  BY DEF Balances, Max0
<1>6. MoreIn(j, h, d, Accounts)
  <2>1. MoreAt(f, g, a, d, Accounts)
    BY <1>2 DEF MoreAt
  <2>2. IsFiniteSet(Accounts)
    BY ChainAssumption
  <2> HIDE DEF g, f, d
  <2> QED BY <1>1, <1>3, <1>4, <2>1, <2>2, AddsMoved
<1> QED
  BY <1>3, <1>4, <1>5, <1>6 DEF MoreIn, ShortBy

LEMMA SupplyMoved ==
  ASSUME NEW held \in Holdings, NEW new \in Holdings, NEW a \in Holders, NEW s \in Series, OnlyAt(new, held, a, s, Holders)
  PROVE  SupplyBy(new, held, a, s)
<1> DEFINE g == [b \in Holders |-> held[b][s]]
           f == [b \in Holders |-> new[b][s]]
           d == new[a][s] - held[a][s]
<1>1. g \in [Holders -> Int] /\ f \in [Holders -> Int] /\ d \in Int
  BY DEF Holdings
<1>2. f[a] = g[a] + d /\ \A b \in Holders : b # a => f[b] = g[b]
  BY DEF Holdings, OnlyAt
<1>3. PICK h \in [SUBSET Holders -> Int] : Adds(h, g, Holders) /\ SupplyOf(held, s) = h[Holders]
  BY SupplyAdds
<1>4. PICK j \in [SUBSET Holders -> Int] : Adds(j, f, Holders) /\ SupplyOf(new, s) = j[Holders]
  BY SupplyAdds
<1>5. new[a][s] \in Int /\ held[a][s] \in Int
  BY DEF Holdings
<1>6. MoreIn(j, h, d, Holders)
  <2>1. MoreAt(f, g, a, d, Holders)
    BY <1>2 DEF MoreAt
  <2>2. IsFiniteSet(Holders)
    BY ChainAssumption
  <2> HIDE DEF g, f, d
  <2> QED BY <1>1, <1>3, <1>4, <2>1, <2>2, AddsMoved
<1> QED
  BY <1>3, <1>4, <1>5, <1>6 DEF MoreIn, SupplyBy

SeriesRow(long, short, supply) == [long |-> long, short |-> short, supply |-> supply]

LEMMA SeriesAre ==
  ASSUME NEW rows, NEW listed, NEW bal, NEW held
  PROVE  SeriesTold(rows, listed, bal, held)
           <=> rows = [s \in listed |-> SeriesRow(LongOf(bal, s), ShortOf(bal, s), SupplyOf(held, s))]
BY DEF SeriesTold, SeriesRow

\* y is x with other totals of the series s.
Totals(y, x, s, long, long1, short, short1) ==
  y = [x EXCEPT !.series[s].long = @ + long - long1, !.series[s].short = @ + short - short1]

LEMMA TotalsMoved ==
  ASSUME NEW x, IsTables(x), NEW s, s \in DOMAIN x.series, NEW listed, DOMAIN x.series = listed,
         x.series = [r \in listed |-> x.series[r]],
         NEW l, NEW h, NEW p, x.series[s] = SeriesRow(l, h, p),
         NEW a \in Int, NEW b \in Int, NEW c \in Int, NEW d \in Int, NEW y, Totals(y, x, s, a, b, c, d)
  PROVE  \E rows : With(y, x, "series", rows) /\ DOMAIN rows = DOMAIN x.series
                   /\ rows = [r \in listed |-> rows[r]]
                   /\ rows[s] = SeriesRow(l + a - b, h + c - d, p)
                   /\ \A r \in listed : r # s => rows[r] = x.series[r]
<1>1. PICK m1 : m1 = [x.series[s] EXCEPT !.long = x.series[s].long + a - b]
  OBVIOUS
<1>2. m1 = SeriesRow(l + a - b, h, p)
  BY <1>1 DEF SeriesRow
<1>3. PICK rows1 : rows1 = [x.series EXCEPT ![s] = m1]
  OBVIOUS
<1>4. rows1[s] = m1 /\ DOMAIN rows1 = listed
  BY <1>3
<1>5. PICK m2 : m2 = [rows1[s] EXCEPT !.short = rows1[s].short + c - d]
  OBVIOUS
<1>6. m2 = SeriesRow(l + a - b, h + c - d, p)
  BY <1>2, <1>4, <1>5 DEF SeriesRow
<1>7. PICK rows2 : rows2 = [rows1 EXCEPT ![s] = m2]
  OBVIOUS
<1>8. y = [x EXCEPT !.series = rows2]
  <2>1. PICK x1 : x1 = [x EXCEPT !.series = rows1]
    OBVIOUS
  <2>2. With(x1, x, "series", rows1)
    BY <2>1, TablesWith
  <2>3. x1.series = rows1
    BY <2>2 DEF With
  <2>4. y = [x1 EXCEPT !.series = rows2]
    <3>1. x1 = [x EXCEPT !.series[s].long = @ + a - b]
      BY <1>1, <1>3, <2>1
    <3>2. [x1 EXCEPT !.series[s].short = @ + c - d] = [x1 EXCEPT !.series = rows2]
      BY <1>5, <1>7, <2>3
    <3>3. y = [x1 EXCEPT !.series[s].short = @ + c - d]
      BY <3>1 DEF Totals
    <3> QED BY <3>2, <3>3
  <2> QED BY <2>1, <2>4
<1>9. With(y, x, "series", rows2)
  BY <1>8, TablesWith
<1> QED
  BY <1>3, <1>4, <1>6, <1>7, <1>9

LEMMA BalanceStep ==
  ASSUME NEW w \in Worlds, NEW a \in Accounts, NEW s \in w.listed, NEW x \in Int,
         NEW v, WorldWith(v, w, "bal", [w.bal EXCEPT ![a] = [w.bal[a] EXCEPT ![s] = x]])
  PROVE  Steps(w, [ev |-> "BalanceUpdated", acct |-> a, series |-> s, balance |-> x], v)
<1> DEFINE e == [ev |-> "BalanceUpdated", acct |-> a, series |-> s, balance |-> x]
<1>0. e.ev = "BalanceUpdated" /\ e.acct = a /\ e.series = s /\ e.balance = x
  OBVIOUS
<1> HIDE DEF e
<1>b. Marks(w, e, v)
  BY <1>0, QuietLog DEF Marking, WorldWith, Alike, WorldFields
<1>a. Follows(w, e, v)
  BY <1>0, <1>b DEF Follows, Lists, Record, WorldWith, Alike, WorldFields, Worlds
<1> SUFFICES ASSUME NEW t, NEW id, Before(t, w, id) PROVE Applied(t, e, id, v)
  BY <1>a DEF Steps, e
<1>1. IsTables(t) /\ Tells(t, w)
  BY DEF Before
<1>2. /\ s \in Series /\ w.listed \in SUBSET Series /\ v.listed = w.listed /\ v.held = w.held
      /\ w.bal \in Balances /\ v.bal \in Balances /\ w.held \in Holdings
      /\ v.bal = [w.bal EXCEPT ![a] = [w.bal[a] EXCEPT ![s] = x]]
  BY DEF WorldWith, Worlds, Alike, WorldFields
<1>3. v.bal[a][s] = x /\ \A b \in Accounts, r \in Series : b # a \/ r # s => v.bal[b][r] = w.bal[b][r]
  BY <1>2 DEF Balances
<1>4. PICK prev : prev = Row(t.position, <<a, s>>, 0)
  OBVIOUS
<1>5. PositionsTold(t.position, w.bal)
  BY <1>1 DEF Tells
<1>6. prev = w.bal[a][s] /\ prev \in Int
  BY <1>2, <1>4, <1>5 DEF PositionsTold, Balances
<1>7. PICK places : places = Put(t.position, <<a, s>>, x)
  OBVIOUS
<1>8. PositionsTold(places, v.bal) /\ Row(places, <<a, s>>, 0) = x /\ Put(places, <<a, s>>, x) = places
  BY <1>2, <1>3, <1>5, <1>7 DEF PositionsTold, Row, Put
<1>9. PICK y : y = [t EXCEPT !.position = places]
  OBVIOUS
<1>10. With(y, t, "position", places)
  BY <1>1, <1>9, TablesWith
<1>11. IsTables(y) /\ y.history = t.history
  BY <1>10 DEF With, Alike, TableFields
<1>12. PICK t1 : t1 = History(y, id)
  OBVIOUS
<1>13. With(t1, y, "history", t.history \cup {id})
  BY <1>11, <1>12, HistoryWith
<1>14. IsTables(t1) /\ t1.series = t.series /\ t1.position = places /\ t1.history = t.history \cup {id}
  BY <1>10, <1>13 DEF With, Alike, TableFields
<1>15. SeriesTold(t.series, w.listed, w.bal, w.held)
  BY <1>1 DEF Tells
<1>16. t.series = [r \in w.listed |-> SeriesRow(LongOf(w.bal, r), ShortOf(w.bal, r), SupplyOf(w.held, r))]
  BY <1>15, SeriesAre
<1>17. ASSUME NEW r \in w.listed, r # s
       PROVE  LongOf(v.bal, r) = LongOf(w.bal, r) /\ ShortOf(v.bal, r) = ShortOf(w.bal, r)
  <2>1. r \in Series /\ \A b \in Accounts : v.bal[b][r] = w.bal[b][r]
    BY <1>2, <1>3, <1>17
  <2>9. OnlyAt(v.bal, w.bal, a, r, Accounts)
    BY <2>1 DEF OnlyAt
  <2>2. Max0(v.bal[a][r]) \in Int /\ Max0(-v.bal[a][r]) \in Int /\ v.bal[a][r] = w.bal[a][r]
    BY <1>2, <2>1 DEF Balances, Max0
  <2>3. LongOf(v.bal, r) = LongOf(w.bal, r) + Max0(v.bal[a][r]) - Max0(w.bal[a][r]) /\ LongOf(w.bal, r) \in Int
    <3>1. LongBy(v.bal, w.bal, a, r)
      BY <1>2, <2>1, <2>9, LongMoved
    <3> QED BY <3>1 DEF LongBy
  <2>4. ShortOf(v.bal, r) = ShortOf(w.bal, r) + Max0(-v.bal[a][r]) - Max0(-w.bal[a][r]) /\ ShortOf(w.bal, r) \in Int
    <3>1. ShortBy(v.bal, w.bal, a, r)
      BY <1>2, <2>1, <2>9, ShortMoved
    <3> QED BY <3>1 DEF ShortBy
  <2> QED BY <2>2, <2>3, <2>4
<1>18. /\ LongOf(v.bal, s) = LongOf(w.bal, s) + Max0(x) - Max0(prev) /\ LongOf(w.bal, s) \in Int
       /\ ShortOf(v.bal, s) = ShortOf(w.bal, s) + Max0(-x) - Max0(-prev) /\ ShortOf(w.bal, s) \in Int
  <2>1. \A b \in Accounts : b # a => v.bal[b][s] = w.bal[b][s]
    BY <1>2, <1>3
  <2>9. OnlyAt(v.bal, w.bal, a, s, Accounts)
    BY <2>1 DEF OnlyAt
  <2>2. LongOf(v.bal, s) = LongOf(w.bal, s) + Max0(v.bal[a][s]) - Max0(w.bal[a][s]) /\ LongOf(w.bal, s) \in Int
    <3>1. LongBy(v.bal, w.bal, a, s)
      BY <1>2, <2>1, <2>9, LongMoved
    <3> QED BY <3>1 DEF LongBy
  <2>3. ShortOf(v.bal, s) = ShortOf(w.bal, s) + Max0(-v.bal[a][s]) - Max0(-w.bal[a][s]) /\ ShortOf(w.bal, s) \in Int
    <3>1. ShortBy(v.bal, w.bal, a, s)
      BY <1>2, <2>1, <2>9, ShortMoved
    <3> QED BY <3>1 DEF ShortBy
  <2> QED BY <1>3, <1>6, <2>2, <2>3
<1>19. Max0(x) \in Int /\ Max0(prev) \in Int /\ Max0(-x) \in Int /\ Max0(-prev) \in Int
  BY <1>6 DEF Max0
<1>20. Handle(t, e, id) = OnBalanceUpdated(t, e, id) /\ (\A z : Handle(z, e, id) = OnBalanceUpdated(z, e, id)) /\ Kept(e) = TRUE
  BY <1>0, Dispatched
<1>21. PICK u : u = Handle(t, e, id)
  OBVIOUS
<1>22. /\ IsTables(u) /\ Alike(u, t1, TableFields \ {"series"})
       /\ u.series = [r \in v.listed |-> SeriesRow(LongOf(v.bal, r), ShortOf(v.bal, r), SupplyOf(v.held, r))]
  <2>1. CASE prev = x
    <3>1. u = t1
      BY <1>0, <1>4, <1>7, <1>9, <1>12, <1>20, <1>21, <2>1 DEF OnBalanceUpdated
    <3>2. LongOf(v.bal, s) = LongOf(w.bal, s) /\ ShortOf(v.bal, s) = ShortOf(w.bal, s)
      BY <1>18, <1>19, <2>1
    <3> QED BY <1>2, <1>14, <1>16, <1>17, <3>1, <3>2 DEF Alike
  <2>2. CASE prev # x
    <3>1. Totals(u, t1, s, Max0(x), Max0(prev), Max0(-x), Max0(-prev))
      <4>1. s \in DOMAIN t.series
        BY <1>16
      <4>2. OnBalanceUpdated(t, e, id) = [t1 EXCEPT !.series[s].long = @ + Max0(x) - Max0(prev),
                                                    !.series[s].short = @ + Max0(-x) - Max0(-prev)]
        BY <1>0, <1>4, <1>7, <1>9, <1>12, <1>14, <2>2, <4>1 DEF OnBalanceUpdated
      <4> QED BY <1>20, <1>21, <4>2 DEF Totals
    <3>2. PICK l, h, p : l = LongOf(w.bal, s) /\ h = ShortOf(w.bal, s) /\ p = SupplyOf(w.held, s)
      OBVIOUS
    <3>3. PICK a1 \in Int, b1 \in Int, c1 \in Int, d1 \in Int : a1 = Max0(x) /\ b1 = Max0(prev) /\ c1 = Max0(-x) /\ d1 = Max0(-prev)
      BY <1>19
    <3>4. t1.series[s] = SeriesRow(l, h, p) /\ DOMAIN t1.series = w.listed /\ t1.series = [r \in w.listed |-> t1.series[r]]
      BY <1>14, <1>16, <3>2
    <3>5. PICK rows : /\ With(u, t1, "series", rows) /\ DOMAIN rows = DOMAIN t1.series
                      /\ rows = [r \in w.listed |-> rows[r]]
                      /\ rows[s] = SeriesRow(l + a1 - b1, h + c1 - d1, p)
                      /\ \A r \in w.listed : r # s => rows[r] = t1.series[r]
      <4>1. Totals(u, t1, s, a1, b1, c1, d1)
        BY <3>1, <3>3
      <4> QED BY <1>14, <3>4, <4>1, TotalsMoved
    <3>6. \A r \in w.listed : rows[r] = SeriesRow(LongOf(v.bal, r), ShortOf(v.bal, r), SupplyOf(v.held, r))
      <4>1. rows[s] = SeriesRow(LongOf(v.bal, s), ShortOf(v.bal, s), SupplyOf(v.held, s))
        BY <1>2, <1>18, <3>2, <3>3, <3>5
      <4>2. ASSUME NEW r \in w.listed, r # s
            PROVE  rows[r] = SeriesRow(LongOf(v.bal, r), ShortOf(v.bal, r), SupplyOf(v.held, r))
        BY <1>2, <1>14, <1>16, <1>17, <3>5, <4>2
      <4> QED BY <4>1, <4>2
    <3> QED BY <1>2, <3>5, <3>6 DEF With
  <2> QED BY <2>1, <2>2
<1>23. SeriesTold(u.series, v.listed, v.bal, v.held)
  BY <1>22, SeriesAre
<1>24. u.position = places /\ u.history = t.history \cup {id} /\ u.processed = t.processed
  BY <1>10, <1>13, <1>22 DEF With, Alike, TableFields
<1>25. Tells(u, v)
  <2>1. Alike(u, t, TableFields \ {"series", "position", "history"})
    BY <1>10, <1>13, <1>22 DEF With, Alike, TableFields
  <2>2. Alike(v, w, WorldFields \ {"bal"})
    BY DEF WorldWith
  <2> QED BY <1>1, <1>8, <1>23, <1>24, <2>1, <2>2 DEF Alike, TableFields, WorldFields, Tells
<1>26. Handle(u, e, id) = u
  <2>1. Row(u.position, <<a, s>>, 0) = x /\ Put(u.position, <<a, s>>, x) = u.position
    BY <1>8, <1>24
  <2>2. PICK z : z = [u EXCEPT !.position = Put(u.position, <<a, s>>, x)]
    OBVIOUS
  <2>3. z = u
    BY <1>22, <2>1, <2>2, TablesSame
  <2>4. History(u, id) = u
    BY <1>22, <1>24, HistoryWith
  <2>5. OnBalanceUpdated(u, e, id) = History(z, id)
    BY <1>0, <2>1, <2>2 DEF OnBalanceUpdated
  <2> QED BY <1>20, <2>3, <2>4, <2>5
<1> QED
  BY <1>20, <1>21, <1>22, <1>24, <1>25, <1>26 DEF Applied

\* The tables of the wrappers while a transfer of s is handled: `held' is what
\* they say of the holders, k of the supply.
Handled(t, w, held, s, k) ==
  /\ IsTables(t) /\ WrappersTold(t.wrapped, held)
  /\ t.series = [r \in w.listed |-> SeriesRow(LongOf(w.bal, r), ShortOf(w.bal, r), IF r = s THEN k ELSE SupplyOf(w.held, r))]

SupplySet(y, t, s, k) == y = [t EXCEPT !.series[s].supply = k]
WrappedSet(y, t, h, s, x) == y = [t EXCEPT !.wrapped = Put(t.wrapped, <<h, s>>, x)]
OneSet(new, held, h, s, x) ==
  new[h][s] = x /\ \A g \in Holders, r \in Series : g # h \/ r # s => new[g][r] = held[g][r]

LEMMA SupplyHandled ==
  ASSUME NEW t, NEW w, NEW held, NEW s \in w.listed, NEW k, Handled(t, w, held, s, k), NEW k1, NEW y, SupplySet(y, t, s, k1)
  PROVE  Handled(y, w, held, s, k1) /\ Alike(y, t, TableFields \ {"series"})
<1>1. /\ IsTables(t) /\ WrappersTold(t.wrapped, held)
      /\ t.series = [r \in w.listed |-> SeriesRow(LongOf(w.bal, r), ShortOf(w.bal, r), IF r = s THEN k ELSE SupplyOf(w.held, r))]
  BY DEF Handled
<1>2. PICK row : row = [t.series[s] EXCEPT !.supply = k1]
  OBVIOUS
<1>3. row = SeriesRow(LongOf(w.bal, s), ShortOf(w.bal, s), k1)
  BY <1>1, <1>2 DEF SeriesRow
<1>4. PICK rows : rows = [t.series EXCEPT ![s] = row]
  OBVIOUS
<1>5. y = [t EXCEPT !.series = rows]
  BY <1>2, <1>4 DEF SupplySet
<1>6. With(y, t, "series", rows)
  BY <1>1, <1>5, TablesWith
<1>7. rows = [r \in w.listed |-> SeriesRow(LongOf(w.bal, r), ShortOf(w.bal, r), IF r = s THEN k1 ELSE SupplyOf(w.held, r))]
  BY <1>1, <1>3, <1>4
<1> QED
  BY <1>1, <1>6, <1>7 DEF Handled, With, Alike, TableFields

LEMMA WrappedHandled ==
  ASSUME NEW t, NEW w, NEW held, NEW s \in Series, NEW k, Handled(t, w, held, s, k),
         NEW h \in Holders, NEW x, NEW y, WrappedSet(y, t, h, s, x), NEW new, OneSet(new, held, h, s, x)
  PROVE  Handled(y, w, new, s, k) /\ Alike(y, t, TableFields \ {"wrapped"})
<1>1. IsTables(t) /\ WrappersTold(t.wrapped, held)
  BY DEF Handled
<1>2. PICK rows : rows = Put(t.wrapped, <<h, s>>, x)
  OBVIOUS
<1>3. With(y, t, "wrapped", rows)
  BY <1>1, <1>2, TablesWith DEF WrappedSet
<1>4. WrappersTold(rows, new)
  <2> SUFFICES ASSUME NEW g \in Holders, NEW r \in Series PROVE Row(rows, <<g, r>>, 0) = new[g][r]
    BY DEF WrappersTold
  <2>1. Row(t.wrapped, <<g, r>>, 0) = held[g][r]
    BY <1>1 DEF WrappersTold
  <2>2. CASE g = h /\ r = s
    BY <1>2, <2>2 DEF OneSet, Row, Put
  <2>3. CASE g # h \/ r # s
    <3>1. new[g][r] = held[g][r] /\ <<g, r>> # <<h, s>>
      BY <2>3 DEF OneSet
    <3> QED BY <1>2, <2>1, <3>1 DEF Row, Put
  <2> QED BY <2>2, <2>3
<1> QED
  BY <1>3, <1>4 DEF Handled, With, Alike, TableFields

\* One wrapper of s goes from one holder to another.
MovedOne(new, old, s, from, to) == \A h \in Holders, r \in Series :
  new[h][r] = old[h][r] + (IF r = s /\ h = to THEN 1 ELSE 0) - (IF r = s /\ h = from THEN 1 ELSE 0)

LEMMA SupplyShift ==
  ASSUME NEW held \in Holdings, NEW new \in Holdings, NEW h \in Holders, NEW s \in Series, NEW r \in Series, NEW x,
         OneSet(new, held, h, s, x)
  PROVE  /\ SupplyOf(held, r) \in Int /\ SupplyOf(new, r) \in Int
         /\ SupplyOf(new, r) = SupplyOf(held, r) + new[h][r] - held[h][r]
<1>1. OnlyAt(new, held, h, r, Holders)
  BY DEF OneSet, OnlyAt
<1>2. SupplyBy(new, held, h, r)
  BY <1>1, SupplyMoved
<1> QED
  BY <1>2 DEF SupplyBy

LEMMA TransferStep ==
  ASSUME NEW w \in Worlds, NEW s \in w.listed, NEW from \in Holders \cup {Zero}, NEW to \in Holders \cup {Zero}, from # to,
         NEW v, NEW held \in Holdings, WorldWith(v, w, "held", held), MovedOne(held, w.held, s, from, to)
  PROVE  Steps(w, [ev |-> "Transfer", series |-> s, from |-> from, to |-> to], v)
<1> DEFINE e == [ev |-> "Transfer", series |-> s, from |-> from, to |-> to]
<1>0. e.ev = "Transfer" /\ e.series = s /\ e.from = from /\ e.to = to
  OBVIOUS
<1> HIDE DEF e
<1>b. Marks(w, e, v)
  BY <1>0, QuietLog DEF Marking, WorldWith, Alike, WorldFields
<1>a. Follows(w, e, v)
  BY <1>0, <1>b DEF Follows, Lists, Record, WorldWith, Alike, WorldFields, Worlds
<1> SUFFICES ASSUME NEW t, NEW id, Before(t, w, id) PROVE Applied(t, e, id, v)
  BY <1>a DEF Steps, e
<1>1. IsTables(t) /\ Tells(t, w) /\ id \notin t.processed
  BY DEF Before
<1>2. /\ s \in Series /\ w.listed \in SUBSET Series /\ v.listed = w.listed /\ v.bal = w.bal /\ v.held = held
      /\ w.held \in Holdings
  BY DEF WorldWith, Worlds, Alike, WorldFields
<1>3. PICK mid : mid = [h \in Holders |-> [r \in Series |-> w.held[h][r] - (IF r = s /\ h = from THEN 1 ELSE 0)]]
  OBVIOUS
<1>4. mid \in Holdings
  BY <1>2, <1>3 DEF Holdings
<1>5. \A h \in Holders, r \in Series : mid[h][r] = w.held[h][r] - (IF r = s /\ h = from THEN 1 ELSE 0)
  BY <1>3
<1>6. \A h \in Holders, r \in Series : held[h][r] = mid[h][r] + (IF r = s /\ h = to THEN 1 ELSE 0)
  <2> SUFFICES ASSUME NEW h \in Holders, NEW r \in Series
               PROVE  held[h][r] = mid[h][r] + (IF r = s /\ h = to THEN 1 ELSE 0)
    OBVIOUS
  <2>1. w.held[h][r] \in Int
    BY <1>2 DEF Holdings
  <2>2. held[h][r] = w.held[h][r] + (IF r = s /\ h = to THEN 1 ELSE 0) - (IF r = s /\ h = from THEN 1 ELSE 0)
    BY DEF MovedOne
  <2> QED BY <1>5, <2>1, <2>2
<1>7. from # Zero => from \in Holders /\ OneSet(mid, w.held, from, s, w.held[from][s] - 1)
  <2>1. ASSUME from # Zero PROVE from \in Holders /\ OneSet(mid, w.held, from, s, w.held[from][s] - 1)
    <3>1. from \in Holders
      BY <2>1
    <3>2. \A g \in Holders, r \in Series : w.held[g][r] \in Int
      BY <1>2 DEF Holdings
    <3> QED BY <1>2, <1>5, <3>1, <3>2 DEF OneSet
  <2> QED BY <2>1
<1>8. to # Zero => to \in Holders /\ OneSet(held, mid, to, s, mid[to][s] + 1)
  <2>1. ASSUME to # Zero PROVE to \in Holders /\ OneSet(held, mid, to, s, mid[to][s] + 1)
    <3>1. to \in Holders
      BY <2>1
    <3>2. \A g \in Holders, r \in Series : mid[g][r] \in Int
      BY <1>4 DEF Holdings
    <3> QED BY <1>2, <1>6, <3>1, <3>2 DEF OneSet
  <2> QED BY <2>1
<1>9. from = Zero => mid = w.held
  <2> SUFFICES ASSUME from = Zero PROVE mid = w.held
    OBVIOUS
  <2>1. \A h \in Holders : h # from
    BY ChainAssumption
  <2>2. \A h \in Holders, r \in Series : mid[h][r] = w.held[h][r]
    BY <1>2, <1>5, <2>1 DEF Holdings
  <2>3. w.held = [h \in Holders |-> [r \in Series |-> w.held[h][r]]] /\ mid = [h \in Holders |-> [r \in Series |-> mid[h][r]]]
    BY <1>2, <1>4 DEF Holdings
  <2> QED BY <2>2, <2>3
<1>10. to = Zero => held = mid
  <2> SUFFICES ASSUME to = Zero PROVE held = mid
    OBVIOUS
  <2>1. \A h \in Holders : h # to
    BY ChainAssumption
  <2>2. \A h \in Holders, r \in Series : held[h][r] = mid[h][r]
    BY <1>4, <1>6, <2>1 DEF Holdings
  <2>3. held = [h \in Holders |-> [r \in Series |-> held[h][r]]] /\ mid = [h \in Holders |-> [r \in Series |-> mid[h][r]]]
    BY <1>4 DEF Holdings
  <2> QED BY <2>2, <2>3
<1>11. PICK k : k = SupplyOf(w.held, s)
  OBVIOUS
<1>12. Handled(t, w, w.held, s, k)
  <2>1. SeriesTold(t.series, w.listed, w.bal, w.held) /\ WrappersTold(t.wrapped, w.held)
    BY <1>1 DEF Tells
  <2>2. t.series = [r \in w.listed |-> SeriesRow(LongOf(w.bal, r), ShortOf(w.bal, r), SupplyOf(w.held, r))]
    BY <2>1, SeriesAre
  <2> QED BY <1>1, <1>11, <2>1, <2>2 DEF Handled
<1>13. s \in DOMAIN t.series /\ t.series[s].supply = k
  BY <1>12 DEF Handled, SeriesRow
<1>14. PICK k1 : k1 = IF from = Zero THEN k + 1 ELSE k
  OBVIOUS
<1>15. PICK t1 : t1 = IF from = Zero THEN [t EXCEPT !.series[s].supply = @ + 1]
                      ELSE [t EXCEPT !.wrapped = Put(@, <<from, s>>, Held(t, e, from) - 1)]
  OBVIOUS
<1>16. Handled(t1, w, mid, s, k1) /\ Alike(t1, t, TableFields \ {"series", "wrapped"})
  <2>1. CASE from = Zero
    <3>1. SupplySet(t1, t, s, k1)
      BY <1>13, <1>14, <1>15, <2>1 DEF SupplySet
    <3>2. Handled(t1, w, w.held, s, k1) /\ Alike(t1, t, TableFields \ {"series"})
      BY <1>12, <3>1, SupplyHandled
    <3> QED BY <1>9, <2>1, <3>2 DEF Alike
  <2>2. CASE from # Zero
    <3>1. PICK x : x = w.held[from][s] - 1
      OBVIOUS
    <3>2. Held(t, e, from) = w.held[from][s]
      BY <1>0, <1>2, <1>7, <1>12, <2>2 DEF Handled, WrappersTold, Held
    <3>3. WrappedSet(t1, t, from, s, x)
      BY <1>15, <2>2, <3>1, <3>2 DEF WrappedSet
    <3>4. from \in Holders /\ OneSet(mid, w.held, from, s, x) /\ k1 = k
      BY <1>7, <1>14, <2>2, <3>1
    <3>5. Handled(t1, w, mid, s, k1) /\ Alike(t1, t, TableFields \ {"wrapped"})
      BY <1>2, <1>12, <3>3, <3>4, WrappedHandled
    <3> QED BY <3>5 DEF Alike
  <2> QED BY <2>1, <2>2
<1>17. t1.series[s].supply = k1
  BY <1>16 DEF Handled, SeriesRow
<1>18. PICK k2 : k2 = IF to = Zero THEN k1 - 1 ELSE k1
  OBVIOUS
<1>19. PICK t2 : t2 = IF to = Zero THEN [t1 EXCEPT !.series[s].supply = @ - 1]
                      ELSE [t1 EXCEPT !.wrapped = Put(@, <<to, s>>, Held(t1, e, to) + 1)]
  OBVIOUS
<1>20. Handled(t2, w, held, s, k2) /\ Alike(t2, t1, TableFields \ {"series", "wrapped"})
  <2>1. CASE to = Zero
    <3>1. SupplySet(t2, t1, s, k2)
      BY <1>17, <1>18, <1>19, <2>1 DEF SupplySet
    <3>2. Handled(t2, w, mid, s, k2) /\ Alike(t2, t1, TableFields \ {"series"})
      BY <1>16, <3>1, SupplyHandled
    <3> QED BY <1>10, <2>1, <3>2 DEF Alike
  <2>2. CASE to # Zero
    <3>1. PICK x : x = mid[to][s] + 1
      OBVIOUS
    <3>2. Held(t1, e, to) = mid[to][s]
      BY <1>0, <1>2, <1>8, <1>16, <2>2 DEF Handled, WrappersTold, Held
    <3>3. WrappedSet(t2, t1, to, s, x)
      BY <1>19, <2>2, <3>1, <3>2 DEF WrappedSet
    <3>4. to \in Holders /\ OneSet(held, mid, to, s, x) /\ k2 = k1
      BY <1>8, <1>18, <2>2, <3>1
    <3>5. Handled(t2, w, held, s, k2) /\ Alike(t2, t1, TableFields \ {"wrapped"})
      BY <1>2, <1>16, <3>3, <3>4, WrappedHandled
    <3> QED BY <3>5 DEF Alike
  <2> QED BY <2>1, <2>2
<1>21. \A r \in w.listed : SupplyOf(held, r) = IF r = s THEN k2 ELSE SupplyOf(w.held, r)
  <2> SUFFICES ASSUME NEW r \in w.listed PROVE SupplyOf(held, r) = IF r = s THEN k2 ELSE SupplyOf(w.held, r)
    OBVIOUS
  <2>1. r \in Series
    BY <1>2
  <2>2. from # Zero => SupplyOf(w.held, r) \in Int /\ SupplyOf(mid, r) = SupplyOf(w.held, r) - (IF r = s THEN 1 ELSE 0)
    <3> SUFFICES ASSUME from # Zero
                 PROVE  SupplyOf(w.held, r) \in Int /\ SupplyOf(mid, r) = SupplyOf(w.held, r) - (IF r = s THEN 1 ELSE 0)
      OBVIOUS
    <3>1. /\ SupplyOf(w.held, r) \in Int /\ SupplyOf(mid, r) \in Int
          /\ SupplyOf(mid, r) = SupplyOf(w.held, r) + mid[from][r] - w.held[from][r]
      BY <1>2, <1>4, <1>7, <2>1, SupplyShift
    <3>2. w.held[from][r] \in Int /\ mid[from][r] = w.held[from][r] - (IF r = s THEN 1 ELSE 0)
      BY <1>2, <1>5, <1>7, <2>1 DEF Holdings
    <3> QED BY <3>1, <3>2
  <2>3. to # Zero => SupplyOf(mid, r) \in Int /\ SupplyOf(held, r) = SupplyOf(mid, r) + (IF r = s THEN 1 ELSE 0)
    <3> SUFFICES ASSUME to # Zero
                 PROVE  SupplyOf(mid, r) \in Int /\ SupplyOf(held, r) = SupplyOf(mid, r) + (IF r = s THEN 1 ELSE 0)
      OBVIOUS
    <3>1. /\ SupplyOf(mid, r) \in Int /\ SupplyOf(held, r) \in Int
          /\ SupplyOf(held, r) = SupplyOf(mid, r) + held[to][r] - mid[to][r]
      BY <1>2, <1>4, <1>8, <2>1, SupplyShift
    <3>2. mid[to][r] \in Int /\ held[to][r] = mid[to][r] + (IF r = s THEN 1 ELSE 0)
      BY <1>4, <1>6, <1>8, <2>1 DEF Holdings
    <3> QED BY <3>1, <3>2
  <2>4. CASE from = Zero
    <3>1. to # Zero /\ SupplyOf(mid, r) = SupplyOf(w.held, r)
      BY <1>9, <2>4
    <3> QED BY <1>11, <1>14, <1>18, <2>3, <2>4, <3>1
  <2>5. CASE to = Zero
    <3>1. from # Zero /\ SupplyOf(held, r) = SupplyOf(mid, r)
      BY <1>10, <2>5
    <3> QED BY <1>11, <1>14, <1>18, <2>2, <2>5, <3>1
  <2>6. CASE from # Zero /\ to # Zero
    BY <1>11, <1>14, <1>18, <2>2, <2>3, <2>6
  <2> QED BY <2>4, <2>5, <2>6
<1>22. SeriesTold(t2.series, v.listed, v.bal, v.held) /\ WrappersTold(t2.wrapped, v.held) /\ IsTables(t2)
  <2>1. t2.series = [r \in w.listed |-> SeriesRow(LongOf(w.bal, r), ShortOf(w.bal, r), SupplyOf(held, r))]
    BY <1>20, <1>21 DEF Handled
  <2>2. SeriesTold(t2.series, w.listed, w.bal, held)
    BY <2>1, SeriesAre
  <2> QED BY <1>2, <1>20, <2>2 DEF Handled
<1>23. PICK u : u = Once(t, id, t2)
  OBVIOUS
<1>24. Alike(t2, t, TableFields \ {"series", "wrapped"})
  BY <1>16, <1>20 DEF Alike
<1>25. With(u, t2, "processed", t2.processed \cup {id}) /\ \A z : Once(u, id, z) = u
  <2>1. t2.processed = t.processed
    BY <1>24 DEF Alike, TableFields
  <2> QED BY <1>1, <1>22, <1>23, <2>1, AppliedOnce
<1>26. Tells(u, v) /\ u.history = t.history /\ u.processed = t.processed \cup {id} /\ IsTables(u)
  <2>1. Alike(v, w, WorldFields \ {"held"})
    BY DEF WorldWith
  <2> QED BY <1>1, <1>22, <1>24, <1>25, <2>1 DEF With, Alike, TableFields, WorldFields, Tells
<1>27. Handle(t, e, id) = OnTransfer(t, e, id) /\ (\A z : Handle(z, e, id) = OnTransfer(z, e, id)) /\ Kept(e) = FALSE
  BY <1>0, Dispatched
<1>28. Handle(t, e, id) = u
  BY <1>0, <1>13, <1>15, <1>19, <1>23, <1>27 DEF OnTransfer
<1>29. Handle(u, e, id) = u
  <2>1. s \in DOMAIN u.series
    BY <1>20, <1>25 DEF Handled, With, Alike, TableFields
  <2> QED BY <1>0, <1>25, <1>27, <2>1 DEF OnTransfer
<1> QED
  BY <1>26, <1>27, <1>28, <1>29 DEF Applied

-----------------------------------------------------------------------------
(* What is long, and in wallets, is what is short                          *)

NetOf(w, s) == LongOf(w.bal, s) - ShortOf(w.bal, s) + SupplyOf(w.held, s)

\* Nothing is out that nobody owes, until the group is settled.
Even(w) == (w.group.ratio => w.group.final) /\ (w.group.final \/ \A s \in Series : NetOf(w, s) = 0)

SameStage(v, u) == v.group.final = u.group.final /\ v.group.ratio = u.group.ratio

DeltaOf(v, u, a, s, x) ==
  /\ v.bal[a][s] = u.bal[a][s] + x
  /\ \A b \in Accounts, r \in Series : b # a \/ r # s => v.bal[b][r] = u.bal[b][r]

\* From u to v the series s gains x, the others nothing.
NetBy(v, u, s, x) ==
  /\ SameStage(v, u)
  /\ \A r \in Series : NetOf(u, r) \in Int /\ NetOf(v, r) = NetOf(u, r) + IF r = s THEN x ELSE 0

LEMMA NetIs ==
  ASSUME NEW w \in Worlds, NEW s \in Series
  PROVE  LongOf(w.bal, s) \in Int /\ ShortOf(w.bal, s) \in Int /\ SupplyOf(w.held, s) \in Int /\ NetOf(w, s) \in Int
<1>1. PICK bal \in Balances : bal = w.bal
  BY DEF Worlds
<1>2. PICK held \in Holdings : held = w.held
  BY DEF Worlds
<1>3. Accounts \in SUBSET Accounts /\ Holders \in SUBSET Holders
  OBVIOUS
<1>4. PICK l \in [SUBSET Accounts -> Int] : Adds(l, [a \in Accounts |-> Max0(bal[a][s])], Accounts)
                                            /\ LongOf(bal, s) = l[Accounts]
  BY LongAdds
<1>5. PICK h \in [SUBSET Accounts -> Int] : Adds(h, [a \in Accounts |-> Max0(-bal[a][s])], Accounts)
                                            /\ ShortOf(bal, s) = h[Accounts]
  BY ShortAdds
<1>6. PICK p \in [SUBSET Holders -> Int] : Adds(p, [a \in Holders |-> held[a][s]], Holders)
                                           /\ SupplyOf(held, s) = p[Holders]
  BY SupplyAdds
<1>7. l[Accounts] \in Int /\ h[Accounts] \in Int /\ p[Holders] \in Int
  BY <1>3
<1> QED
  BY <1>1, <1>2, <1>4, <1>5, <1>6, <1>7 DEF NetOf

LEMMA NetDelta ==
  ASSUME NEW u \in Worlds, NEW v \in Worlds, Alike(v, u, WorldFields \ {"bal", "group"}),
         SameStage(v, u), NEW a \in Accounts, NEW s \in Series, NEW x \in Int, DeltaOf(v, u, a, s, x)
  PROVE  NetBy(v, u, s, x)
<1>1. u.bal \in Balances /\ v.bal \in Balances /\ v.held = u.held
  BY DEF Worlds, Alike, WorldFields
<1>2. ASSUME NEW r \in Series PROVE NetOf(v, r) = NetOf(u, r) + IF r = s THEN x ELSE 0
  <2>1. OnlyAt(v.bal, u.bal, a, r, Accounts)
    BY DEF DeltaOf, OnlyAt
  <2>2. LongBy(v.bal, u.bal, a, r)
    BY <1>1, <2>1, LongMoved
  <2>3. ShortBy(v.bal, u.bal, a, r)
    BY <1>1, <2>1, ShortMoved
  <2>4. PICK o \in Int : o = u.bal[a][r]
    BY <1>1 DEF Balances
  <2>5. PICK n \in Int : n = v.bal[a][r]
    BY <1>1 DEF Balances
  <2>6. PICK k \in Int : k = IF r = s THEN x ELSE 0
    OBVIOUS
  <2>6a. n = o + k
    BY <2>4, <2>5, <2>6 DEF DeltaOf
  <2>7. Max0(n) - Max0(o) - Max0(-n) + Max0(-o) = k
    <3>1. \A i \in Int : Max0(i) \in Int /\ Max0(-i) \in Int /\ Max0(i) - Max0(-i) = i
      BY DEF Max0
    <3> HIDE DEF Max0
    <3>2. Max0(n) - Max0(-n) = n /\ Max0(o) - Max0(-o) = o
      BY <3>1
    <3>3. Max0(n) \in Int /\ Max0(o) \in Int /\ Max0(-n) \in Int /\ Max0(-o) \in Int
      BY <3>1
    <3> QED BY <2>6a, <3>2, <3>3
  <2>8. Max0(n) \in Int /\ Max0(o) \in Int /\ Max0(-n) \in Int /\ Max0(-o) \in Int
    BY <2>4, <2>5 DEF Max0
  <2>9. /\ LongOf(v.bal, r) = LongOf(u.bal, r) + Max0(n) - Max0(o)
        /\ ShortOf(v.bal, r) = ShortOf(u.bal, r) + Max0(-n) - Max0(-o)
    BY <2>2, <2>3, <2>4, <2>5 DEF LongBy, ShortBy
  <2>10. LongOf(u.bal, r) \in Int /\ ShortOf(u.bal, r) \in Int /\ SupplyOf(u.held, r) \in Int
    BY NetIs
  <2> QED BY <1>1, <2>6, <2>7, <2>8, <2>9, <2>10 DEF NetOf
<1> QED
  BY <1>2, NetIs DEF NetBy

\* A wrapper that moves from a holder to another leaves the supply, a mint raises
\* and a burn lowers it.
LEMMA SupplyNet ==
  ASSUME NEW old \in Holdings, NEW new \in Holdings, NEW s \in Series,
         NEW from \in Holders \cup {Zero}, NEW to \in Holders \cup {Zero}, from # to, MovedOne(new, old, s, from, to),
         NEW r \in Series
  PROVE  SupplyOf(new, r) = SupplyOf(old, r) + (IF r = s /\ from = Zero THEN 1 ELSE 0) - (IF r = s /\ to = Zero THEN 1 ELSE 0)
<1>1. PICK mid : mid = [h \in Holders |-> [q \in Series |-> old[h][q] - (IF q = s /\ h = from THEN 1 ELSE 0)]]
  OBVIOUS
<1>2. mid \in Holdings
  BY <1>1 DEF Holdings
<1>3. \A h \in Holders : old[h][r] \in Int /\ new[h][r] \in Int /\ mid[h][r] \in Int
  BY <1>2 DEF Holdings
<1>4. \A h \in Holders : mid[h][r] = old[h][r] - (IF r = s /\ h = from THEN 1 ELSE 0)
  BY <1>1
<1>5. \A h \in Holders : new[h][r] = mid[h][r] + (IF r = s /\ h = to THEN 1 ELSE 0)
  <2> SUFFICES ASSUME NEW h \in Holders PROVE new[h][r] = mid[h][r] + (IF r = s /\ h = to THEN 1 ELSE 0)
    OBVIOUS
  <2>1. new[h][r] = old[h][r] + (IF r = s /\ h = to THEN 1 ELSE 0) - (IF r = s /\ h = from THEN 1 ELSE 0)
    BY DEF MovedOne
  <2> QED BY <1>3, <1>4, <2>1
<1>6. Holders # {}
  OBVIOUS
<1>7. SupplyOf(old, r) \in Int /\ SupplyOf(mid, r) = SupplyOf(old, r) - (IF r = s /\ from # Zero THEN 1 ELSE 0)
  <2>1. PICK h \in Holders : from # Zero => h = from
    BY <1>6
  <2>2. OnlyAt(mid, old, h, r, Holders)
    <3>1. ASSUME NEW g \in Holders, g # h PROVE mid[g][r] = old[g][r]
      <4>1. g # from
        BY <2>1, <3>1, ChainAssumption
      <4> QED BY <1>3, <1>4, <4>1
    <3> QED BY <3>1 DEF OnlyAt
  <2>3. SupplyBy(mid, old, h, r)
    BY <1>2, <2>2, SupplyMoved
  <2>4. h = from <=> from # Zero
    BY <2>1, ChainAssumption
  <2> QED BY <1>3, <1>4, <2>3, <2>4 DEF SupplyBy
<1>8. SupplyOf(new, r) = SupplyOf(mid, r) + (IF r = s /\ to # Zero THEN 1 ELSE 0) /\ SupplyOf(mid, r) \in Int
  <2>1. PICK h \in Holders : to # Zero => h = to
    BY <1>6
  <2>2. OnlyAt(new, mid, h, r, Holders)
    <3>1. ASSUME NEW g \in Holders, g # h PROVE new[g][r] = mid[g][r]
      <4>1. g # to
        BY <2>1, <3>1, ChainAssumption
      <4> QED BY <1>3, <1>5, <4>1
    <3> QED BY <3>1 DEF OnlyAt
  <2>3. SupplyBy(new, mid, h, r)
    BY <1>2, <2>2, SupplyMoved
  <2>4. h = to <=> to # Zero
    BY <2>1, ChainAssumption
  <2> QED BY <1>3, <1>5, <2>3, <2>4 DEF SupplyBy
<1> QED
  BY <1>7, <1>8

\* What a transfer adds to the supply.
Minted(from, to) == (IF from = Zero THEN 1 ELSE 0) - (IF to = Zero THEN 1 ELSE 0)

LEMMA NetMove ==
  ASSUME NEW u \in Worlds, NEW v \in Worlds, Alike(v, u, WorldFields \ {"held"}), NEW s \in Series,
         NEW from \in Holders \cup {Zero}, NEW to \in Holders \cup {Zero}, from # to,
         MovedOne(v.held, u.held, s, from, to), NEW x, x = Minted(from, to)
  PROVE  NetBy(v, u, s, x)
<1>1. u.held \in Holdings /\ v.held \in Holdings /\ v.bal = u.bal /\ v.group = u.group
  BY DEF Worlds, Alike, WorldFields
<1>2. ASSUME NEW r \in Series PROVE NetOf(v, r) = NetOf(u, r) + IF r = s THEN x ELSE 0
  <2>1. PICK old : old = u.held
    OBVIOUS
  <2>2. PICK new : new = v.held
    OBVIOUS
  <2>2a. new \in Holdings /\ old \in Holdings /\ MovedOne(new, old, s, from, to)
    BY <1>1, <2>1, <2>2
  <2>3. SupplyOf(new, r) = SupplyOf(old, r) + (IF r = s /\ from = Zero THEN 1 ELSE 0) - (IF r = s /\ to = Zero THEN 1 ELSE 0)
    BY <2>2a, SupplyNet
  <2>4. LongOf(u.bal, r) \in Int /\ ShortOf(u.bal, r) \in Int /\ SupplyOf(u.held, r) \in Int
    BY NetIs
  <2> QED BY <1>1, <2>1, <2>2, <2>3, <2>4 DEF NetOf, Minted
<1> QED
  BY <1>1, <1>2, NetIs DEF NetBy, SameStage

\* Another field was written.
Untouched(v, u) == v.bal = u.bal /\ v.held = u.held /\ SameStage(v, u)

LEMMA OtherFields ==
  ASSUME NEW u, NEW v, NEW fields, Alike(v, u, WorldFields \ fields), "bal" \notin fields, "held" \notin fields,
         "group" \notin fields
  PROVE  Untouched(v, u)
BY DEF Alike, WorldFields, Untouched, SameStage

LEMMA EvenUntouched ==
  ASSUME NEW u, NEW v, Untouched(v, u)
  PROVE  (Even(u) => Even(v)) /\ \A z, s, x : NetBy(z, v, s, x) => NetBy(z, u, s, x)
BY DEF Untouched, Even, NetBy, NetOf, SameStage

LEMMA UntouchedNet ==
  ASSUME NEW u, NEW v, NEW z, Untouched(z, v), NEW s, NEW x, NetBy(v, u, s, x)
  PROVE  NetBy(z, u, s, x)
BY DEF Untouched, NetBy, NetOf, SameStage

LEMMA NetJoins ==
  ASSUME NEW u, NEW v, NEW z, NEW s, NEW x \in Int, NEW y \in Int, NetBy(v, u, s, x), NetBy(z, v, s, y)
  PROVE  NetBy(z, u, s, x + y)
<1>1. ASSUME NEW r \in Series PROVE NetOf(z, r) = NetOf(u, r) + IF r = s THEN x + y ELSE 0
  <2>1. NetOf(u, r) \in Int /\ NetOf(v, r) = NetOf(u, r) + (IF r = s THEN x ELSE 0)
        /\ NetOf(z, r) = NetOf(v, r) + (IF r = s THEN y ELSE 0)
    BY DEF NetBy
  <2> QED BY <2>1
<1> QED
  BY <1>1 DEF NetBy, SameStage

LEMMA NetNothing ==
  ASSUME NEW u, NEW v, NEW s, NetBy(v, u, s, 0), Even(u)
  PROVE  Even(v)
BY DEF NetBy, Even, SameStage

LEMMA EvenWith ==
  ASSUME NEW u, NEW v, NEW f, NEW x, WorldWith(v, u, f, x), f \notin {"bal", "held", "group"}
  PROVE  Even(u) => Even(v)
BY OtherFields, EvenUntouched DEF WorldWith

-----------------------------------------------------------------------------
(* Runs: the tables after every log of a block, after every block          *)

LEMMA LargestIs ==
  ASSUME NEW m \in Nat, NEW s \in SUBSET (1..m), m \in s
  PROVE  Max(s) = m
<1>1. \A y \in s : y \in Nat /\ m >= y
  OBVIOUS
<1>2. \A x \in s : (\A y \in s : x >= y) => x = m
  BY <1>1
<1> QED
  BY <1>1, <1>2 DEF Max

LEMMA MaxIn ==
  ASSUME NEW n \in Nat, NEW s \in SUBSET (1..n), s # {}
  PROVE  Max(s) \in s
<1> DEFINE T == {m \in Nat : \A x \in s : x <= m}
<1>1. n \in T /\ T \in SUBSET Nat
  OBVIOUS
<1>2. PICK m \in T : \A q \in T : m <= q
  BY <1>1, LeastNatural
<1>3. m \in s
  <2> SUFFICES ASSUME m \notin s PROVE FALSE
    OBVIOUS
  <2>1. \A x \in s : x <= m - 1 /\ x >= 1
    BY <1>2
  <2>2. PICK x \in s : TRUE
    OBVIOUS
  <2>3. m - 1 \in Nat
    BY <2>1, <2>2
  <2>4. m - 1 \in T /\ m - 1 < m
    BY <2>1, <2>3
  <2> QED
    BY <1>2, <2>4
<1>4. \A y \in s : m >= y
  BY <1>2
<1> HIDE DEF T
<1> QED
  BY <1>3, <1>4 DEF Max

\* Step i of a run: the logs of block i handled, or log i of block n, or the logs
\* of a chunk's block i joined to the ones before, or log i of some recorded or
\* met by the scan for a kind, or chunk i of the orders read.
Step(n, u, i) ==
  CASE n[1] = "blocks" -> HandleBlock(u, i)
    [] n[1] = "logs" -> Handle(u, blocks[n[2]].logs[i], <<n[2], i>>)
    [] n[1] = "chunk" -> u \o blocks[n[2] + i - 1].logs
    [] n[1] = "balances" -> Record(u, n[2][i])
    [] n[1] = "orders" -> Apply(n[2], u, n[3][i])
    [] n[1] = "chunks" -> ReadChunk(u, i)

IsRun(h, n, base, m) ==
  \A s \in SUBSET (1..m) : h[s] = IF s = {} THEN base ELSE Step(n, h[s \ {Max(s)}], Max(s))

LEMMA RunExists ==
  ASSUME NEW n, NEW base, NEW k \in Nat
  PROVE  \E h : h = [s \in SUBSET (1..k) |-> h[s]] /\ IsRun(h, n, base, k)
<1> DEFINE C == {m \in Nat : \E h : IsRun(h, n, base, m)}
<1>1. 0 \in C
  <2> DEFINE h == [s \in SUBSET (1..0) |-> base]
  <2>1. \A s \in SUBSET (1..0) : s = {} /\ h[s] = base
    OBVIOUS
  <2>2. IsRun(h, n, base, 0)
    BY <2>1 DEF IsRun
  <2> QED BY <2>2
<1>2. ASSUME NEW j \in Nat, j \in C PROVE j + 1 \in C
  <2>1. PICK g : IsRun(g, n, base, j)
    BY <1>2
  <2>2. PICK m \in Nat : m = j + 1
    OBVIOUS
  <2> DEFINE h == [s \in SUBSET (1..m) |-> IF m \in s THEN Step(n, g[s \ {m}], m) ELSE g[s]]
  <2>3. \A s \in SUBSET (1..m) : s \ {m} \in SUBSET (1..j) /\ (m \notin s => s \in SUBSET (1..j))
    BY <2>2
  <2>4. ASSUME NEW s \in SUBSET (1..m)
        PROVE  h[s] = IF s = {} THEN base ELSE Step(n, h[s \ {Max(s)}], Max(s))
    <3>1. CASE m \in s
      <4>1. Max(s) = m /\ s # {}
        BY <3>1, LargestIs
      <4>2. s \ {m} \in SUBSET (1..m) /\ m \notin s \ {m}
        OBVIOUS
      <4>3. h[s \ {m}] = g[s \ {m}]
        BY <4>2
      <4>4. h[s] = Step(n, g[s \ {m}], m)
        BY <3>1
      <4> HIDE DEF h
      <4> QED BY <4>1, <4>3, <4>4
    <3>2. CASE m \notin s
      <4>1. s \in SUBSET (1..j)
        BY <2>3, <3>2
      <4>2. h[s] = g[s]
        BY <3>2
      <4>3. g[s] = IF s = {} THEN base ELSE Step(n, g[s \ {Max(s)}], Max(s))
        BY <2>1, <4>1 DEF IsRun
      <4>4. s \ {Max(s)} \in SUBSET (1..m) /\ m \notin s \ {Max(s)}
        BY <3>2
      <4>5. h[s \ {Max(s)}] = g[s \ {Max(s)}]
        BY <4>4
      <4> HIDE DEF h
      <4> QED BY <4>2, <4>3, <4>5
    <3> QED BY <3>1, <3>2
  <2>5. IsRun(h, n, base, m)
    <3> HIDE DEF h
    <3> QED BY <2>4 DEF IsRun
  <2> HIDE DEF h
  <2> QED BY <2>2, <2>5
<1>3. \A m \in Nat : m \in C
  <2> HIDE DEF C
  <2> QED BY <1>1, <1>2, CountInduction
<1>4. PICK g : IsRun(g, n, base, k)
  BY <1>3
<1> DEFINE h == [s \in SUBSET (1..k) |-> g[s]]
<1>5. \A s \in SUBSET (1..k) : h[s] = g[s] /\ h[s \ {Max(s)}] = g[s \ {Max(s)}]
  OBVIOUS
<1>6. h = [s \in SUBSET (1..k) |-> h[s]]
  OBVIOUS
<1> HIDE DEF h
<1>7. IsRun(h, n, base, k)
  BY <1>4, <1>5 DEF IsRun
<1> QED
  BY <1>6, <1>7

\* The run of a prefix adds the last number of it.
LEMMA PrefixRun ==
  ASSUME NEW n \in Nat, NEW k \in 1..n
  PROVE  /\ 1..k \in SUBSET (1..n) /\ 1..k # {} /\ Max(1..k) = k
         /\ (1..k) \ {k} = 1..(k - 1)
<1>1. k \in Nat /\ k \in 1..k /\ 1..k \in SUBSET (1..k)
  OBVIOUS
<1>2. Max(1..k) = k
  BY <1>1, LargestIs
<1> QED
  BY <1>2

\* r is the run over the first k steps.
Runs(r, n, base, k) == r[0] = base /\ \A i \in 1..k : r[i] = Step(n, r[i - 1], i)

LEMMA RunOf ==
  ASSUME NEW n, NEW base, NEW k \in Nat, NEW H, IsRun(H, n, base, k)
  PROVE  \E r : Runs(r, n, base, k) /\ r[k] = H[1..k]
<1> DEFINE r == [i \in 0..k |-> H[1..i]]
<1>1. 1..0 = {} /\ {} \in SUBSET (1..k)
  OBVIOUS
<1>2. r[0] = base
  BY <1>1 DEF IsRun
<1>3. ASSUME NEW i \in 1..k PROVE r[i] = Step(n, r[i - 1], i)
  <2>1. H[1..i] = Step(n, H[1..(i - 1)], i)
    BY PrefixRun DEF IsRun
  <2>2. r[i] = H[1..i] /\ r[i - 1] = H[1..(i - 1)]
    OBVIOUS
  <2> QED BY <2>1, <2>2
<1>4. r[k] = H[1..k]
  OBVIOUS
<1> HIDE DEF r
<1> QED
  BY <1>2, <1>3, <1>4 DEF Runs

LEMMA OnlyOne ==
  ASSUME NEW x
  PROVE  (CHOOSE v \in {x} : TRUE) = x
OBVIOUS

LEMMA BlockRuns ==
  ASSUME NEW n, NEW t, NEW k \in Nat, Len(blocks[n].logs) = k
  PROVE  \E r : Runs(r, <<"logs", n>>, t, k) /\ r[k] = HandleBlock(t, n)
<1> DEFINE seq == [i \in 1..k |-> i]
           Choice(h, s) == CHOOSE v \in {Handle(w, blocks[n].logs[seq[Max(s)]], <<n, seq[Max(s)]>>) : w \in {h[s \ {Max(s)}]}} : TRUE
           Is(h) == h = [s \in SUBSET (DOMAIN seq) |-> IF s = {} THEN t ELSE Choice(h, s)]
           H == CHOOSE h : Is(h)
<1>1. HandleBlock(t, n) = H[DOMAIN seq]
  BY DEF HandleBlock, FoldLeft, MapThenFoldSet
<1>2. PICK g : g = [s \in SUBSET (1..k) |-> g[s]] /\ IsRun(g, <<"logs", n>>, t, k)
  BY RunExists
<1>3. ASSUME NEW h, NEW s \in SUBSET (1..k), s # {} PROVE Choice(h, s) = Step(<<"logs", n>>, h[s \ {Max(s)}], Max(s))
  <2>0. seq[Max(s)] = Max(s)
    BY <1>3, MaxIn
  <2>1. PICK x : x = Handle(h[s \ {Max(s)}], blocks[n].logs[seq[Max(s)]], <<n, seq[Max(s)]>>)
    OBVIOUS
  <2>2. {Handle(w, blocks[n].logs[seq[Max(s)]], <<n, seq[Max(s)]>>) : w \in {h[s \ {Max(s)}]}} = {x}
    BY <2>1
  <2>3. Choice(h, s) = x
    BY <2>2, OnlyOne
  <2> HIDE DEF Choice, seq
  <2> QED BY <2>0, <2>1, <2>3 DEF Step
<1>5. DOMAIN seq = 1..k
  OBVIOUS
<1>4. Is(g)
  <2> SUFFICES g = [s \in SUBSET (1..k) |-> IF s = {} THEN t ELSE Choice(g, s)]
    BY <1>5
  <2> HIDE DEF Choice
  <2>1. \A s \in SUBSET (1..k) : g[s] = IF s = {} THEN t ELSE Choice(g, s)
    BY <1>2, <1>3 DEF IsRun
  <2> QED BY <1>2, <2>1
<1>6. Is(H)
  <2> HIDE DEF Is
  <2> QED BY <1>4
<1>7. H = [s \in SUBSET (1..k) |-> IF s = {} THEN t ELSE Choice(H, s)]
  <2> HIDE DEF H, Choice, seq
  <2> QED BY <1>5, <1>6
<1> HIDE DEF H, Choice, seq
<1>8. \A s \in SUBSET (1..k) : H[s] = IF s = {} THEN t ELSE Choice(H, s)
  BY <1>7
<1>9. IsRun(H, <<"logs", n>>, t, k)
  BY <1>3, <1>8 DEF IsRun
<1> QED
  BY <1>1, <1>5, <1>9, RunOf

LEMMA ChainRuns ==
  ASSUME NEW k \in Nat
  PROVE  \E r : Runs(r, <<"blocks">>, EmptyTables, k) /\ r[k] = TablesAt(k)
<1> DEFINE seq == [i \in 1..k |-> i]
           Choice(h, s) == HandleBlock(h[s \ {Max(s)}], seq[Max(s)])
           Is(h) == h = [s \in SUBSET (DOMAIN seq) |-> IF s = {} THEN EmptyTables ELSE Choice(h, s)]
           H == CHOOSE h : Is(h)
<1>1. TablesAt(k) = H[DOMAIN seq]
  BY DEF TablesAt, FoldLeft, MapThenFoldSet
<1>2. PICK g : g = [s \in SUBSET (1..k) |-> g[s]] /\ IsRun(g, <<"blocks">>, EmptyTables, k)
  BY RunExists
<1>3. ASSUME NEW h, NEW s \in SUBSET (1..k), s # {} PROVE Choice(h, s) = Step(<<"blocks">>, h[s \ {Max(s)}], Max(s))
  <2>0. seq[Max(s)] = Max(s)
    BY <1>3, MaxIn
  <2>1. Choice(h, s) = HandleBlock(h[s \ {Max(s)}], Max(s))
    BY <2>0
  <2> HIDE DEF Choice, seq
  <2> QED BY <2>1 DEF Step
<1>5. DOMAIN seq = 1..k
  OBVIOUS
<1>4. Is(g)
  <2> SUFFICES g = [s \in SUBSET (1..k) |-> IF s = {} THEN EmptyTables ELSE Choice(g, s)]
    BY <1>5
  <2> HIDE DEF Choice
  <2>1. \A s \in SUBSET (1..k) : g[s] = IF s = {} THEN EmptyTables ELSE Choice(g, s)
    BY <1>2, <1>3 DEF IsRun
  <2> QED BY <1>2, <2>1
<1>6. Is(H)
  <2> HIDE DEF Is
  <2> QED BY <1>4
<1>7. H = [s \in SUBSET (1..k) |-> IF s = {} THEN EmptyTables ELSE Choice(H, s)]
  <2> HIDE DEF H, Choice, seq
  <2> QED BY <1>5, <1>6
<1> HIDE DEF H, Choice, seq
<1>8. \A s \in SUBSET (1..k) : H[s] = IF s = {} THEN EmptyTables ELSE Choice(H, s)
  BY <1>7
<1>9. IsRun(H, <<"blocks">>, EmptyTables, k)
  BY <1>3, <1>8 DEF IsRun
<1> QED
  BY <1>1, <1>5, <1>9, RunOf

-----------------------------------------------------------------------------
(* 3. The logs of a transaction                                            *)

IsSeq(s) == \E S : s \in Seq(S)

LogsRun(r, t, logs, n) == r[0] = t /\ \A i \in 1..Len(logs) : r[i] = Handle(r[i - 1], logs[i], <<n, i>>)

Unseen(t, n) == \A i \in Nat : <<n, i>> \notin t.processed

\* The tables u after the logs of block n.
Done(u, t, logs, n, v) ==
  /\ IsTables(u) /\ Tells(u, v)
  /\ u.history = t.history \cup {<<n, i>> : i \in {i \in DOMAIN logs : Kept(logs[i])}}
  /\ u.processed \subseteq t.processed \cup {<<n, i>> : i \in 1..Len(logs)}
  /\ logs # <<>> => Handle(u, Last(logs), <<n, Len(logs)>>) = u

\* Whoever knew the state w and handles the logs knows the state v.
Passes(logs, w, v) == \A n, t, r :
  IsTables(t) /\ Tells(t, w) /\ Unseen(t, n) /\ LogsRun(r, t, logs, n) => Done(r[Len(logs)], t, logs, n, v)

LEMMA NoneSent ==
  ASSUME NEW w
  PROVE  IsSeq(<<>>) /\ Passes(<<>>, w, w)
<1>1. <<>> \in Seq({})
  OBVIOUS
<1>2. ASSUME NEW n, NEW t, NEW r, IsTables(t), Tells(t, w), LogsRun(r, t, <<>>, n)
      PROVE  Done(r[Len(<<>>)], t, <<>>, n, w)
  <2>1. r[0] = t /\ Len(<<>>) = 0 /\ DOMAIN <<>> = {}
    BY <1>2 DEF LogsRun
  <2>2. {<<n, i>> : i \in {i \in DOMAIN <<>> : Kept(<<>>[i])}} = {}
    BY <2>1
  <2> QED BY <1>2, <2>1, <2>2 DEF Done
<1> QED
  BY <1>1, <1>2 DEF IsSeq, Passes

\* more is logs and then e.
Longer(more, logs, e) ==
  /\ IsSeq(more) /\ more # <<>> /\ Len(logs) \in Nat /\ DOMAIN logs = 1..Len(logs)
  /\ Len(more) = Len(logs) + 1 /\ DOMAIN more = 1..Len(more)
  /\ Last(more) = e /\ more[Len(logs) + 1] = e
  /\ \A i \in 1..Len(logs) : more[i] = logs[i]

LEMMA Appended ==
  ASSUME NEW logs, IsSeq(logs), NEW e
  PROVE  Longer(Append(logs, e), logs, e)
<1>1. PICK S : logs \in Seq(S)
  BY DEF IsSeq
<1>2. PICK T : T = S \cup {e}
  OBVIOUS
<1>3. logs \in Seq(T) /\ e \in T
  BY <1>1, <1>2
<1>4. PICK more : more = Append(logs, e)
  OBVIOUS
<1>5. more \in Seq(T) /\ Len(more) = Len(logs) + 1 /\ more[Len(logs) + 1] = e /\ \A i \in 1..Len(logs) : more[i] = logs[i]
  BY <1>3, <1>4
<1>6. Len(logs) \in Nat /\ DOMAIN logs = 1..Len(logs) /\ DOMAIN more = 1..Len(more) /\ more # <<>>
  BY <1>1, <1>5
<1>7. Last(more) = e
  BY <1>5, <1>6 DEF Last
<1> QED
  BY <1>4, <1>5, <1>6, <1>7 DEF Longer, IsSeq

\* The log e after tables u that are Done with logs.
LEMMA DoneMore ==
  ASSUME NEW n, NEW t, NEW u, NEW logs, NEW x \in Worlds, Unseen(t, n), Done(u, t, logs, n, x),
         NEW e, NEW more, Longer(more, logs, e), NEW id, id = <<n, Len(more)>>,
         NEW v, Before(u, x, id) => Applied(u, e, id, v)
  PROVE  Before(u, x, id) /\ Done(Handle(u, e, id), t, more, n, v)
<1>1. Len(logs) \in Nat /\ Len(more) = Len(logs) + 1
  BY DEF Longer
<1>2. id \notin u.processed
  <2>1. id \notin t.processed
    BY <1>1 DEF Unseen
  <2>2. \A i \in 1..Len(logs) : id # <<n, i>>
    BY <1>1
  <2> QED BY <2>1, <2>2 DEF Done
<1>3. Before(u, x, id)
  BY <1>2 DEF Before, Done
<1>4. PICK y : y = Handle(u, e, id)
  OBVIOUS
<1>5. /\ IsTables(y) /\ Tells(y, v)
      /\ y.history = IF Kept(e) THEN u.history \cup {id} ELSE u.history
      /\ y.processed \in {u.processed, u.processed \cup {id}}
      /\ Handle(y, e, id) = y
  BY <1>3, <1>4 DEF Applied
<1>6. y.history = t.history \cup {<<n, i>> : i \in {i \in DOMAIN more : Kept(more[i])}}
  <2>1. \A i \in DOMAIN more : (i \in DOMAIN logs /\ more[i] = logs[i]) \/ (i = Len(more) /\ more[i] = e)
    BY <1>1 DEF Longer
  <2>2. \A i \in DOMAIN logs : i \in DOMAIN more /\ more[i] = logs[i]
    BY <1>1 DEF Longer
  <2>3. Len(more) \in DOMAIN more /\ more[Len(more)] = e
    BY <1>1 DEF Longer
  <2>4. u.history = t.history \cup {<<n, i>> : i \in {i \in DOMAIN logs : Kept(logs[i])}}
    BY DEF Done
  <2>5. CASE Kept(e)
    <3>1. y.history = t.history \cup {<<n, i>> : i \in {i \in DOMAIN logs : Kept(logs[i])}} \cup {id}
      BY <1>5, <2>4, <2>5
    <3>2. {<<n, i>> : i \in {i \in DOMAIN more : Kept(more[i])}} = {<<n, i>> : i \in {i \in DOMAIN logs : Kept(logs[i])}} \cup {id}
      BY <2>1, <2>2, <2>3, <2>5
    <3> QED BY <3>1, <3>2
  <2>6. CASE ~Kept(e)
    <3>1. y.history = t.history \cup {<<n, i>> : i \in {i \in DOMAIN logs : Kept(logs[i])}}
      BY <1>5, <2>4, <2>6
    <3>2. {<<n, i>> : i \in {i \in DOMAIN more : Kept(more[i])}} = {<<n, i>> : i \in {i \in DOMAIN logs : Kept(logs[i])}}
      BY <2>1, <2>2, <2>6
    <3> QED BY <3>1, <3>2
  <2> QED BY <2>5, <2>6
<1>7. y.processed \subseteq t.processed \cup {<<n, i>> : i \in 1..Len(more)}
  <2>1. u.processed \subseteq t.processed \cup {<<n, i>> : i \in 1..Len(logs)}
    BY DEF Done
  <2>2. \A i \in 1..Len(logs) : i \in 1..Len(more)
    BY <1>1
  <2>3. Len(more) \in 1..Len(more)
    BY <1>1
  <2> QED BY <1>5, <2>1, <2>2, <2>3
<1>8. Last(more) = e
  BY DEF Longer
<1> QED
  BY <1>3, <1>4, <1>5, <1>6, <1>7, <1>8 DEF Done

\* A run over more is one over logs, with one step more.
LEMMA RunMore ==
  ASSUME NEW n, NEW t, NEW r, NEW logs, NEW e, NEW more, Longer(more, logs, e), LogsRun(r, t, more, n)
  PROVE  LogsRun(r, t, logs, n) /\ r[Len(more)] = Handle(r[Len(logs)], e, <<n, Len(more)>>)
<1>1. /\ Len(logs) \in Nat /\ Len(more) = Len(logs) + 1 /\ more[Len(logs) + 1] = e
      /\ \A i \in 1..Len(logs) : more[i] = logs[i]
  BY DEF Longer
<1>2. r[0] = t /\ \A i \in 1..Len(more) : r[i] = Handle(r[i - 1], more[i], <<n, i>>)
  BY DEF LogsRun
<1>3. \A i \in 1..Len(logs) : i \in 1..Len(more)
  BY <1>1
<1>4. LogsRun(r, t, logs, n)
  BY <1>1, <1>2, <1>3 DEF LogsRun
<1>5. Len(more) \in 1..Len(more) /\ Len(more) - 1 = Len(logs) /\ more[Len(more)] = e
  BY <1>1
<1> QED
  BY <1>2, <1>4, <1>5

LEMMA OneMore ==
  ASSUME NEW logs, NEW w, NEW x \in Worlds, Passes(logs, w, x), NEW e, NEW v, Steps(x, e, v),
         NEW more, Longer(more, logs, e)
  PROVE  Passes(more, w, v)
<1> SUFFICES ASSUME NEW n, NEW t, NEW r, IsTables(t), Tells(t, w), Unseen(t, n), LogsRun(r, t, more, n)
             PROVE  Done(r[Len(more)], t, more, n, v)
  BY DEF Passes
<1>1. LogsRun(r, t, logs, n) /\ r[Len(more)] = Handle(r[Len(logs)], e, <<n, Len(more)>>)
  BY RunMore
<1>2. PICK u : u = r[Len(logs)]
  OBVIOUS
<1>3. Done(u, t, logs, n, x)
  BY <1>1, <1>2 DEF Passes
<1>4. PICK id : id = <<n, Len(more)>>
  OBVIOUS
<1>5. Before(u, x, id) => Applied(u, e, id, v)
  BY DEF Steps
<1>6. Done(Handle(u, e, id), t, more, n, v)
  BY <1>3, <1>4, <1>5, DoneMore
<1> QED
  BY <1>1, <1>2, <1>4, <1>6

-----------------------------------------------------------------------------
(* What the scans take from the logs of a transaction                      *)

NewlyListed(logs) == UNION {Lists(logs[i]) : i \in 1..Len(logs)}

\* m are the balances after every log.
BalancesRun(m, bal, logs) == m[0] = bal /\ \A i \in 1..Len(logs) : m[i] = Record(m[i - 1], logs[i])

\* The readers of the logs see no difference.
Same(x, w) ==
  /\ x.opened = w.opened /\ x.listed = w.listed /\ x.bal = w.bal /\ x.auction = w.auction
  /\ x.orders = w.orders /\ x.size = w.size /\ x.left = w.left

\* p are the states after every log.
Path(p, logs, w, v) ==
  Same(p[0], w) /\ Same(p[Len(logs)], v) /\ \A i \in 1..Len(logs) : Follows(p[i - 1], logs[i], p[i])

Tracked(logs, w, v) ==
  /\ v.listed \subseteq w.listed \cup NewlyListed(logs)
  /\ \A m : BalancesRun(m, w.bal, logs) => m[Len(logs)] = v.bal
  /\ \E p : Path(p, logs, w, v)

LEMMA NoneTracked ==
  ASSUME NEW w
  PROVE  Tracked(<<>>, w, w)
<1>1. Len(<<>>) = 0
  OBVIOUS
<1>2. PICK p : p = [i \in {0} |-> w]
  OBVIOUS
<1>3. p[0] = w
  BY <1>2
<1>4. Path(p, <<>>, w, w)
  BY <1>1, <1>3 DEF Path, Same
<1> QED
  BY <1>1, <1>4 DEF Tracked, BalancesRun

LEMMA TrackedMore ==
  ASSUME NEW logs, NEW w, NEW x, Tracked(logs, w, x), NEW e, NEW v, Follows(x, e, v),
         NEW more, Longer(more, logs, e)
  PROVE  Tracked(more, w, v)
<1>1. /\ Len(logs) \in Nat /\ Len(more) = Len(logs) + 1 /\ more[Len(more)] = e
      /\ \A i \in 1..Len(logs) : i \in 1..Len(more) /\ more[i] = logs[i]
  BY DEF Longer
<1>2. Len(more) \in 1..Len(more) /\ Len(more) - 1 = Len(logs)
  BY <1>1
<1>3. v.listed \subseteq w.listed \cup NewlyListed(more)
  <2>1. v.listed \subseteq w.listed \cup NewlyListed(logs) \cup Lists(e)
    BY DEF Tracked, Follows
  <2>2. Lists(e) \subseteq NewlyListed(more)
    BY <1>1, <1>2 DEF NewlyListed
  <2>3. NewlyListed(logs) \subseteq NewlyListed(more)
    BY <1>1 DEF NewlyListed
  <2> QED BY <2>1, <2>2, <2>3
<1>4. ASSUME NEW m, BalancesRun(m, w.bal, more) PROVE m[Len(more)] = v.bal
  <2>1. BalancesRun(m, w.bal, logs)
    BY <1>1, <1>4 DEF BalancesRun
  <2>2. m[Len(logs)] = x.bal
    BY <2>1 DEF Tracked
  <2>3. m[Len(more)] = Record(x.bal, e)
    BY <1>1, <1>2, <1>4, <2>2 DEF BalancesRun
  <2> QED BY <2>3 DEF Follows
<1>5. \E q : Path(q, more, w, v)
  <2>1. PICK p : Path(p, logs, w, x)
    BY DEF Tracked
  <2>2. PICK q : q = [i \in 0..Len(more) |-> IF i = Len(more) THEN v ELSE p[i]]
    OBVIOUS
  <2>3. q[Len(more)] = v /\ \A i \in 0..Len(logs) : q[i] = p[i]
    BY <1>1, <1>2, <2>2
  <2>4. Same(q[0], w) /\ Same(q[Len(logs)], x)
    BY <1>1, <2>1, <2>3 DEF Path
  <2>6. Same(v, v)
    BY DEF Same
  <2>7. Follows(q[Len(logs)], e, v)
    BY <2>4 DEF Same, Follows, Marks, AuctionsMove, OrderOf
  <2>5. ASSUME NEW i \in 1..Len(more) PROVE Follows(q[i - 1], more[i], q[i])
    <3>1. CASE i = Len(more)
      BY <1>1, <1>2, <2>3, <2>7, <3>1
    <3>2. CASE i # Len(more)
      <4>1. i \in 1..Len(logs) /\ i - 1 \in 0..Len(logs) /\ i \in 0..Len(logs)
        BY <1>1, <3>2
      <4>2. q[i - 1] = p[i - 1] /\ q[i] = p[i] /\ more[i] = logs[i]
        BY <1>1, <2>3, <4>1
      <4> QED BY <2>1, <4>1, <4>2 DEF Path
    <3> QED BY <3>1, <3>2
  <2> QED BY <2>3, <2>4, <2>5, <2>6 DEF Path
<1> QED
  BY <1>3, <1>4, <1>5 DEF Tracked

-----------------------------------------------------------------------------
(* Transactions                                                            *)

IsDraft(d) == d = [world |-> d.world, logs |-> d.logs]

\* Until it is opened an account has nothing, and a series nobody.
OpenedFirst(w) == \A a \in Accounts \ w.opened : w.cash[a] = 0 /\ \A s \in Series : w.bal[a][s] = 0
ListedFirst(w) == \A s \in Series \ w.listed :
  (\A a \in Accounts : w.bal[a][s] = 0) /\ (\A h \in Holders : w.held[h][s] = 0)
GroupedFirst(w) == w.listed = {} => w.group = FreshGroup
InIt(w) == {a \in Accounts : InGroup(w, a)}
Counted(w) == w.group.parts = Cardinality(InIt(w))
LeftOver(w) == \A o \in Orders : 0 <= w.left[o] /\ w.left[o] <= w.size[o]

Sound(w) == w \in Worlds /\ OpenedFirst(w) /\ ListedFirst(w) /\ GroupedFirst(w) /\ Counted(w) /\ LeftOver(w)

\* The logs so far tell of all that the transaction has changed since w.
Sent(d, w) == IsDraft(d) /\ IsSeq(d.logs) /\ Passes(d.logs, w, d.world) /\ Tracked(d.logs, w, d.world)
Good(d, w) == Sent(d, w) /\ Sound(d.world)

Emits(y, d, v, e) == IsDraft(y) /\ y.world = v /\ y.logs = Append(d.logs, e)

LEMMA SentEmit ==
  ASSUME NEW w, NEW d, Sent(d, w), d.world \in Worlds, NEW v, NEW e, Steps(d.world, e, v), NEW y, Emits(y, d, v, e)
  PROVE  Sent(y, w)
<1>1. IsSeq(d.logs) /\ Passes(d.logs, w, d.world) /\ Tracked(d.logs, w, d.world) /\ IsDraft(d)
  BY DEF Sent
<1>2. IsDraft(y) /\ y.world = v /\ y.logs = Append(d.logs, e)
  BY DEF Emits
<1>3. PICK more : more = Append(d.logs, e)
  OBVIOUS
<1>4. Longer(more, d.logs, e)
  BY <1>1, <1>3, Appended
<1>5. Passes(more, w, v)
  BY <1>1, <1>4, OneMore
<1>6. IsSeq(more)
  BY <1>4 DEF Longer
<1>7. Tracked(more, w, v)
  <2>1. Follows(d.world, e, v)
    BY DEF Steps
  <2> QED BY <1>1, <1>4, <2>1, TrackedMore
<1> QED
  BY <1>2, <1>3, <1>5, <1>6, <1>7 DEF Sent

LEMMA GoodEmit ==
  ASSUME NEW w, NEW d, Sent(d, w), d.world \in Worlds, NEW v, Sound(v), NEW e, Steps(d.world, e, v),
         NEW y, Emits(y, d, v, e)
  PROVE  Good(y, w)
<1>1. Sent(y, w)
  BY SentEmit
<1> QED
  BY <1>1 DEF Good, Emits

LEMMA Emitted ==
  ASSUME NEW d, NEW x, IsDraft(x), x.logs = d.logs, NEW v, x.world = v, NEW e
  PROVE  Emits(Emit(x, e), d, v, e)
BY DEF Emit, IsDraft, Emits

\* A field of the state replaced in a draft.
Written(x, d, v) == IsDraft(x) /\ x.logs = d.logs /\ x.world = v

LEMMA WrittenEmits ==
  ASSUME NEW d, NEW x, NEW v, Written(x, d, v), NEW e
  PROVE  Emits(Emit(x, e), d, v, e)
BY Emitted DEF Written

LEMMA GoodHistory ==
  ASSUME NEW w, NEW d, Good(d, w), NEW e, e.ev \in HistoryOnly
  PROVE  Good(Emit(d, e), w) /\ Emit(d, e).world = d.world
<1>1. Sent(d, w) /\ Sound(d.world) /\ d.world \in Worlds /\ IsDraft(d)
  BY DEF Good, Sound, Sent
<1>2. Steps(d.world, e, d.world)
  BY <1>1, HistoryStep
<1>3. PICK y : y = Emit(d, e)
  OBVIOUS
<1>4. Emits(y, d, d.world, e)
  BY <1>1, <1>3, Emitted
<1>5. Good(y, w)
  BY <1>1, <1>2, <1>4, GoodEmit
<1> QED
  BY <1>3, <1>4, <1>5 DEF Emits

\* What a change of another field leaves sound.
LEMMA SoundWith ==
  ASSUME NEW w, Sound(w), NEW v, NEW f, NEW x, WorldWith(v, w, f, x),
         f \notin {"opened", "listed", "bal", "held", "cash", "group", "left", "size"}
  PROVE  Sound(v)
<1>1. v.opened = w.opened /\ v.listed = w.listed /\ v.bal = w.bal /\ v.held = w.held /\ v.cash = w.cash
      /\ v.group = w.group /\ v.left = w.left /\ v.size = w.size /\ v \in Worlds
  BY DEF WorldWith, Alike, WorldFields
<1>2. InIt(v) = InIt(w)
  BY <1>1 DEF InIt, InGroup
<1> QED
  BY <1>1, <1>2 DEF Sound, OpenedFirst, ListedFirst, GroupedFirst, Counted, LeftOver

LEMMA GoodCash ==
  ASSUME NEW w, NEW d, Good(d, w), NEW a \in d.world.opened, NEW x \in Int
  PROVE  Good(AddCash(d, a, x), w) /\ Alike(AddCash(d, a, x).world, d.world, WorldFields \ {"cash"})
<1>1. Sent(d, w) /\ Sound(d.world) /\ d.world \in Worlds /\ IsDraft(d)
  BY DEF Good, Sound, Sent
<1>2. PICK u : u = d.world
  OBVIOUS
<1>3. u \in Worlds /\ a \in Accounts /\ u.cash \in [Accounts -> Int] /\ Sound(u)
  BY <1>1, <1>2 DEF Worlds
<1>4. PICK c \in Int : c = u.cash[a] + x
  BY <1>3
<1>5. PICK cash : cash = [u.cash EXCEPT ![a] = c]
  OBVIOUS
<1>6. cash \in [Accounts -> Int] /\ \A b \in Accounts : b # a => cash[b] = u.cash[b]
  BY <1>3, <1>4, <1>5
<1>7. PICK v : v = [u EXCEPT !.cash[a] = c]
  OBVIOUS
<1>8. v = [u EXCEPT !.cash = cash]
  BY <1>5, <1>7
<1>9. WorldWith(v, u, "cash", cash)
  BY <1>3, <1>6, <1>8, WorldsWith
<1>10. PICK e : e = [ev |-> "CashUpdated", acct |-> a, cash |-> c]
  OBVIOUS
<1>11. Steps(u, e, v)
  BY <1>2, <1>3, <1>7, <1>10, CashStep
<1>12. Sound(v)
  <2>1. v.opened = u.opened /\ v.listed = u.listed /\ v.bal = u.bal /\ v.held = u.held
        /\ v.group = u.group /\ v.left = u.left /\ v.size = u.size /\ v \in Worlds /\ v.cash = cash
    BY <1>9 DEF WorldWith, Alike, WorldFields
  <2>2. InIt(v) = InIt(u)
    BY <2>1 DEF InIt, InGroup
  <2>3. OpenedFirst(v)
    BY <1>2, <1>3, <1>6, <2>1 DEF Sound, OpenedFirst
  <2> QED
    BY <1>3, <2>1, <2>2, <2>3 DEF Sound, ListedFirst, GroupedFirst, Counted, LeftOver
<1>13. PICK z : z = [d EXCEPT !.world.cash[a] = c]
  OBVIOUS
<1>14. Written(z, d, v)
  BY <1>1, <1>2, <1>7, <1>13 DEF Written, IsDraft
<1>15. AddCash(d, a, x) = Emit(z, e)
  BY <1>2, <1>4, <1>10, <1>13 DEF AddCash
<1>16. Emits(AddCash(d, a, x), d, v, e)
  BY <1>14, <1>15, WrittenEmits
<1>17. Good(AddCash(d, a, x), w)
  BY <1>1, <1>2, <1>11, <1>12, <1>16, GoodEmit
<1>18. AddCash(d, a, x).world = v
  BY <1>16 DEF Emits
<1> QED
  BY <1>2, <1>9, <1>17, <1>18 DEF WorldWith

-----------------------------------------------------------------------------
\* A part of the fund raised.
LEMMA GoodFund ==
  ASSUME NEW w, NEW d, Good(d, w), NEW z, NEW f \in Funds, NEW v, WorldWith(v, d.world, "fund", f),
         Written(z, d, v), NEW e, Steps(d.world, e, v)
  PROVE  Good(Emit(z, e), w) /\ Alike(Emit(z, e).world, d.world, WorldFields \ {"fund"})
<1>1. Sent(d, w) /\ Sound(d.world) /\ d.world \in Worlds
  BY DEF Good, Sound
<1>2. Sound(v)
  BY <1>1, SoundWith
<1>3. PICK y : y = Emit(z, e)
  OBVIOUS
<1>4. Emits(y, d, v, e)
  BY <1>3, WrittenEmits
<1>5. Good(y, w)
  BY <1>1, <1>2, <1>4, GoodEmit
<1>6. y.world = v
  BY <1>4 DEF Emits
<1> QED
  BY <1>3, <1>5, <1>6 DEF WorldWith

LEMMA GoodDeposit ==
  ASSUME NEW w, NEW d, Good(d, w), NEW x \in Int
  PROVE  /\ Good(DepositInsurance(d, x), w)
         /\ Alike(DepositInsurance(d, x).world, d.world, WorldFields \ {"fund"})
<1>1. d.world \in Worlds /\ IsDraft(d)
  BY DEF Good, Sound, Sent
<1>2. PICK u : u = d.world
  OBVIOUS
<1>3. PICK f : f = [u.fund EXCEPT !.deposited = u.fund.deposited + x]
  OBVIOUS
<1>4. f \in Funds
  BY <1>1, <1>2, <1>3 DEF Worlds, Funds
<1>5. PICK v : v = [u EXCEPT !.fund = f]
  OBVIOUS
<1>6. WorldWith(v, u, "fund", f)
  BY <1>1, <1>2, <1>4, <1>5, WorldsWith
<1>7. PICK e : e = [ev |-> "InsuranceDeposited", amount |-> x]
  OBVIOUS
<1>8. Steps(u, e, v)
  BY <1>1, <1>2, <1>3, <1>5, <1>7, DepositedStep
<1>9. PICK z : z = [d EXCEPT !.world.fund.deposited = @ + x]
  OBVIOUS
<1>10. Written(z, d, v)
  BY <1>1, <1>2, <1>3, <1>5, <1>9 DEF Written, IsDraft
<1>11. DepositInsurance(d, x) = Emit(z, e)
  BY <1>7, <1>9 DEF DepositInsurance
<1> QED
  BY <1>2, <1>4, <1>6, <1>8, <1>10, <1>11, GoodFund

LEMMA GoodCover ==
  ASSUME NEW w, NEW d, Good(d, w), NEW x \in Int
  PROVE  /\ Good(Cover(d, x), w)
         /\ Alike(Cover(d, x).world, d.world, WorldFields \ {"fund"})
<1>1. d.world \in Worlds /\ IsDraft(d)
  BY DEF Good, Sound, Sent
<1>2. PICK u : u = d.world
  OBVIOUS
<1>3. PICK f : f = [u.fund EXCEPT !.paid = u.fund.paid + x]
  OBVIOUS
<1>4. f \in Funds
  BY <1>1, <1>2, <1>3 DEF Worlds, Funds
<1>5. PICK v : v = [u EXCEPT !.fund = f]
  OBVIOUS
<1>6. WorldWith(v, u, "fund", f)
  BY <1>1, <1>2, <1>4, <1>5, WorldsWith
<1>7. PICK e : e = [ev |-> "InsurancePaid", amount |-> x]
  OBVIOUS
<1>8. Steps(u, e, v)
  BY <1>1, <1>2, <1>3, <1>5, <1>7, PaidStep
<1>9. PICK z : z = [d EXCEPT !.world.fund.paid = @ + x]
  OBVIOUS
<1>10. Written(z, d, v)
  BY <1>1, <1>2, <1>3, <1>5, <1>9 DEF Written, IsDraft
<1>11. Cover(d, x) = Emit(z, e)
  BY <1>7, <1>9 DEF Cover
<1> QED
  BY <1>2, <1>4, <1>6, <1>8, <1>10, <1>11, GoodFund

LEMMA GoodFee ==
  ASSUME NEW w, NEW d, Good(d, w), NEW a \in d.world.opened
  PROVE  Good(SellerFee(d, a), w) /\ Alike(SellerFee(d, a).world, d.world, WorldFields \ {"fund", "cash"})
<1>1. PICK c : c = AddCash(d, a, -1)
  OBVIOUS
<1>2. Good(c, w) /\ Alike(c.world, d.world, WorldFields \ {"cash"})
  BY <1>1, GoodCash
<1>3. PICK e1 : e1 = [ev |-> "SellerFeeCharged", acct |-> a]
  OBVIOUS
<1>4. e1.ev \in HistoryOnly
  BY <1>3 DEF HistoryOnly
<1>5. PICK d1 : d1 = Emit(c, e1)
  OBVIOUS
<1>6. Good(d1, w) /\ d1.world = c.world
  BY <1>2, <1>4, <1>5, GoodHistory
<1>7. PICK d2 : d2 = DepositInsurance(d1, 1)
  OBVIOUS
<1>8. Good(d2, w) /\ Alike(d2.world, d1.world, WorldFields \ {"fund"})
  <2>1. Good(d1, w) /\ 1 \in Int
    BY <1>6
  <2> QED BY <1>7, <2>1, GoodDeposit
<1>9. d2.world \in Worlds /\ IsDraft(d2)
  BY <1>8 DEF Good, Sound, Sent
<1>10. PICK u : u = d2.world
  OBVIOUS
<1>11. PICK f : f = [u.fund EXCEPT !.fees = u.fund.fees + 1]
  OBVIOUS
<1>12. f \in Funds
  BY <1>9, <1>10, <1>11 DEF Worlds, Funds
<1>13. PICK v : v = [u EXCEPT !.fund = f]
  OBVIOUS
<1>14. WorldWith(v, u, "fund", f)
  BY <1>9, <1>10, <1>12, <1>13, WorldsWith
<1>15. PICK e : e = [ev |-> "FeeSplit", toInsurance |-> 1]
  OBVIOUS
<1>16. Steps(u, e, v)
  BY <1>9, <1>10, <1>11, <1>13, <1>15, FeeSplitStep
<1>17. PICK z : z = [d2 EXCEPT !.world.fund.fees = @ + 1]
  OBVIOUS
<1>18. Written(z, d2, v)
  BY <1>9, <1>10, <1>11, <1>13, <1>17 DEF Written, IsDraft
<1>19. SellerFee(d, a) = Emit(z, e)
  BY <1>1, <1>3, <1>5, <1>7, <1>15, <1>17 DEF SellerFee
<1>20. Good(Emit(z, e), w) /\ Alike(Emit(z, e).world, d2.world, WorldFields \ {"fund"})
  BY <1>8, <1>10, <1>12, <1>14, <1>16, <1>18, GoodFund
<1> QED
  BY <1>2, <1>6, <1>8, <1>19, <1>20 DEF Alike

LEMMA Participants ==
  ASSUME NEW w
  PROVE  Cardinality(InIt(w)) \in Nat
<1>1. IsFiniteSet(InIt(w))
  BY ChainAssumption, FS_Subset DEF InIt
<1> QED
  BY <1>1, FS_CardinalityType

LEMMA GoodDelta ==
  ASSUME NEW w, NEW d, Good(d, w), NEW a \in d.world.opened, NEW s \in d.world.listed, NEW x \in Int
  PROVE  /\ Good(ApplyDelta(d, a, s, x), w)
         /\ Alike(ApplyDelta(d, a, s, x).world, d.world, WorldFields \ {"bal", "group"})
         /\ NetBy(ApplyDelta(d, a, s, x).world, d.world, s, x)
<1>1. Sent(d, w) /\ Sound(d.world) /\ d.world \in Worlds /\ IsDraft(d)
  BY DEF Good, Sound, Sent
<1>2. PICK u : u = d.world
  OBVIOUS
<1>3. u \in Worlds /\ a \in Accounts /\ s \in Series /\ u.bal \in [Accounts -> [Series -> Int]] /\ Sound(u)
      /\ u.listed # {} /\ u.group \in Groups /\ a \in u.opened /\ s \in u.listed
  BY <1>1, <1>2 DEF Worlds, Balances
<1>4. PICK k \in Int : k = u.bal[a][s] + x
  BY <1>3
<1>5. PICK bal : bal = [u.bal EXCEPT ![a] = [u.bal[a] EXCEPT ![s] = k]]
  OBVIOUS
<1>6. bal \in Balances /\ bal[a][s] = k /\ \A b \in Accounts, r \in Series : b # a \/ r # s => bal[b][r] = u.bal[b][r]
  BY <1>3, <1>4, <1>5 DEF Balances
<1>7. PICK new : new = [u EXCEPT !.bal[a][s] = @ + x]
  OBVIOUS
<1>8. new = [u EXCEPT !.bal = bal]
  BY <1>4, <1>5, <1>7
<1>9. WorldWith(new, u, "bal", bal)
  BY <1>3, <1>6, <1>8, WorldsWith
<1>10. new \in Worlds /\ new.bal = bal /\ new.group = u.group
  BY <1>9 DEF WorldWith, Alike, WorldFields
<1>11. PICK n \in Nat : n = Cardinality({b \in Accounts : InGroup(new, b)})
  BY Participants DEF InIt
<1>12. PICK g : g = [u.group EXCEPT !.parts = n]
  OBVIOUS
<1>13. g \in Groups /\ g.parts = n
  BY <1>3, <1>11, <1>12 DEF Groups
<1>14. PICK v : v = [new EXCEPT !.group.parts = n]
  OBVIOUS
<1>15. v = [new EXCEPT !.group = g]
  BY <1>10, <1>12, <1>14
<1>16. WorldWith(v, new, "group", g)
  BY <1>10, <1>13, <1>15, WorldsWith
<1>17. PICK m : m = [u EXCEPT !.group = g]
  OBVIOUS
<1>18. WorldWith(m, u, "group", g)
  BY <1>3, <1>13, <1>17, WorldsWith
<1>19. WorldWith(v, m, "bal", bal)
  BY <1>9, <1>16, <1>18 DEF WorldWith, Alike, WorldFields
<1>20. m \in Worlds /\ m.listed = u.listed /\ m.bal = u.bal /\ v \in Worlds /\ v.bal = bal
  BY <1>18, <1>19 DEF WorldWith, Alike, WorldFields
<1>21. PICK e1 : e1 = [ev |-> "ParticipantsUpdated", parts |-> n]
  OBVIOUS
<1>22. Steps(u, e1, m)
  BY <1>3, <1>12, <1>17, <1>21, PartsStep
<1>23. PICK e2 : e2 = [ev |-> "BalanceUpdated", acct |-> a, series |-> s, balance |-> k]
  OBVIOUS
<1>24. Steps(m, e2, v)
  <2>1. WorldWith(v, m, "bal", [m.bal EXCEPT ![a] = [m.bal[a] EXCEPT ![s] = k]])
    BY <1>5, <1>19, <1>20
  <2>2. s \in m.listed
    BY <1>3, <1>20
  <2> QED BY <1>3, <1>4, <1>20, <1>23, <2>1, <2>2, BalanceStep
<1>25. Sound(v)
  <2>1. v.opened = u.opened /\ v.listed = u.listed /\ v.held = u.held /\ v.cash = u.cash
        /\ v.left = u.left /\ v.size = u.size /\ v.group = g
    BY <1>9, <1>16 DEF WorldWith, Alike, WorldFields
  <2>2. InIt(v) = {b \in Accounts : InGroup(new, b)}
    BY <1>10, <1>20 DEF InIt, InGroup
  <2>3. Counted(v)
    BY <1>11, <1>13, <2>1, <2>2 DEF Counted
  <2>4. OpenedFirst(v)
    BY <1>3, <1>6, <1>20, <2>1 DEF Sound, OpenedFirst
  <2>5. ListedFirst(v)
    BY <1>3, <1>6, <1>20, <2>1 DEF Sound, ListedFirst
  <2>6. GroupedFirst(v) /\ LeftOver(v)
    BY <1>3, <2>1 DEF Sound, GroupedFirst, LeftOver
  <2> QED BY <1>20, <2>3, <2>4, <2>5, <2>6 DEF Sound
<1>26. Alike(v, u, WorldFields \ {"bal", "group"})
  BY <1>9, <1>16 DEF WorldWith, Alike
<1>27. PICK d1 : d1 = [d EXCEPT !.world = v]
  OBVIOUS
<1>28. IsDraft(d1) /\ d1.world = v /\ d1.logs = d.logs
  BY <1>1, <1>27 DEF IsDraft
<1>29. new.bal[a][s] = k
  BY <1>6, <1>10
<1>30. PICK y : y = ApplyDelta(d, a, s, x)
  OBVIOUS
<1>31. PICK d2 : d2 = IF InGroup(new, a) # InGroup(u, a) THEN Emit(d1, e1) ELSE d1
  OBVIOUS
<1>32. y = Emit(d2, e2)
  <2> DEFINE New == [d.world EXCEPT !.bal[a][s] = @ + x]
             N == Cardinality({b \in Accounts : InGroup(New, b)})
             D1 == [d EXCEPT !.world = [New EXCEPT !.group.parts = N]]
  <2>1. y = Emit(IF InGroup(New, a) # InGroup(d.world, a)
                 THEN Emit(D1, [ev |-> "ParticipantsUpdated", parts |-> N]) ELSE D1,
                 [ev |-> "BalanceUpdated", acct |-> a, series |-> s, balance |-> New.bal[a][s]])
    BY <1>30, Zenon DEF ApplyDelta
  <2>2. New = new
    BY <1>2, <1>7
  <2> HIDE DEF New
  <2>3. {b \in Accounts : InGroup(New, b)} = {b \in Accounts : InGroup(new, b)}
    BY <2>2
  <2>4. N = n
    BY <1>11, <2>3
  <2> HIDE DEF N
  <2>5. D1 = d1
    BY <1>14, <1>27, <2>2, <2>4
  <2> HIDE DEF D1
  <2> QED BY <1>2, <1>21, <1>23, <1>29, <1>31, <2>1, <2>2, <2>4, <2>5
<1>33. Good(y, w) /\ y.world = v
  <2>1. CASE InGroup(new, a) # InGroup(u, a)
    <3>1. PICK p : p = [world |-> m, logs |-> Append(d.logs, e1)]
      OBVIOUS
    <3>2. Emits(p, d, m, e1) /\ p.world = m
      BY <3>1 DEF Emits, IsDraft
    <3>3. Sent(p, w)
      BY <1>1, <1>2, <1>22, <3>2, SentEmit
    <3>4. d2 = Emit(d1, e1)
      BY <1>31, <2>1
    <3>5. Emits(d2, d, v, e1)
      BY <1>28, <3>4, Emitted
    <3>6. IsDraft(d2) /\ d2.world = v /\ d2.logs = p.logs
      BY <3>1, <3>5 DEF Emits
    <3>7. Emits(y, p, v, e2)
      BY <1>32, <3>6, Emitted
    <3>8. Good(y, w)
      BY <1>20, <1>24, <1>25, <3>2, <3>3, <3>7, GoodEmit
    <3> QED BY <3>7, <3>8 DEF Emits
  <2>2. CASE ~(InGroup(new, a) # InGroup(u, a))
    <3>1. d2 = d1
      BY <1>31, <2>2
    <3>2. Emits(y, d, v, e2)
      BY <1>28, <1>32, <3>1, Emitted
    <3>3. \A b \in Accounts : InGroup(new, b) <=> InGroup(u, b)
      <4> SUFFICES ASSUME NEW b \in Accounts PROVE InGroup(new, b) <=> InGroup(u, b)
        OBVIOUS
      <4>1. CASE b = a
        <5>1. InGroup(new, a) \in BOOLEAN /\ InGroup(u, a) \in BOOLEAN
          BY DEF InGroup
        <5> QED BY <2>2, <4>1, <5>1
      <4>2. CASE b # a
        BY <1>6, <1>10, <4>2 DEF InGroup
      <4> QED BY <4>1, <4>2
    <3>4. InIt(u) = {b \in Accounts : InGroup(new, b)}
      BY <3>3 DEF InIt
    <3>5. n = u.group.parts
      BY <1>3, <1>11, <3>4 DEF Sound, Counted
    <3>6. g = u.group
      BY <1>3, <1>12, <3>5 DEF Groups
    <3>7. m = u
      BY <1>3, <1>17, <3>6 DEF Worlds
    <3>8. Good(y, w)
      BY <1>1, <1>2, <1>24, <1>25, <3>2, <3>7, GoodEmit
    <3> QED BY <3>2, <3>8 DEF Emits
  <2> QED BY <2>1, <2>2
<1>34. NetBy(v, u, s, x)
  <2>1. DeltaOf(v, u, a, s, x)
    BY <1>4, <1>6, <1>20 DEF DeltaOf
  <2>2. SameStage(v, u)
    BY <1>3, <1>12, <1>16 DEF WorldWith, Groups, SameStage
  <2> QED BY <1>3, <1>20, <1>26, <2>1, <2>2, NetDelta
<1> QED
  BY <1>2, <1>26, <1>30, <1>33, <1>34

LEMMA GoodMove ==
  ASSUME NEW w, NEW d, Good(d, w), NEW s \in d.world.listed,
         NEW from \in Holders \cup {Zero}, NEW to \in Holders \cup {Zero}, from # to
  PROVE  /\ Good(MoveWrapper(d, s, from, to), w)
         /\ Alike(MoveWrapper(d, s, from, to).world, d.world, WorldFields \ {"held"})
         /\ NetBy(MoveWrapper(d, s, from, to).world, d.world, s, Minted(from, to))
<1>1. Sent(d, w) /\ Sound(d.world) /\ d.world \in Worlds /\ IsDraft(d)
  BY DEF Good, Sound, Sent
<1>2. PICK u : u = d.world
  OBVIOUS
<1>3. u \in Worlds /\ s \in Series /\ u.held \in [Holders -> [Series -> Int]] /\ Sound(u) /\ s \in u.listed
  BY <1>1, <1>2 DEF Worlds, Holdings
<1>4. PICK moved : moved = [h \in Holders |-> u.held[h][s] + (IF h = to THEN 1 ELSE 0) - (IF h = from THEN 1 ELSE 0)]
  OBVIOUS
<1>5. moved \in [Holders -> Int]
  BY <1>3, <1>4
<1>6. PICK held : held = [h \in Holders |-> [u.held[h] EXCEPT ![s] = moved[h]]]
  OBVIOUS
<1>7. held \in Holdings
  BY <1>3, <1>5, <1>6 DEF Holdings
<1>8. MovedOne(held, u.held, s, from, to)
  BY <1>3, <1>4, <1>5, <1>6 DEF MovedOne
<1>9. PICK v : v = [u EXCEPT !.held = held]
  OBVIOUS
<1>10. WorldWith(v, u, "held", held)
  BY <1>3, <1>7, <1>9, WorldsWith
<1>11. PICK e : e = [ev |-> "Transfer", series |-> s, from |-> from, to |-> to]
  OBVIOUS
<1>12. Steps(u, e, v)
  BY <1>3, <1>7, <1>8, <1>10, <1>11, TransferStep
<1>13. Sound(v)
  <2>1. v.opened = u.opened /\ v.listed = u.listed /\ v.held = held /\ v.cash = u.cash /\ v.bal = u.bal
        /\ v.left = u.left /\ v.size = u.size /\ v.group = u.group /\ v \in Worlds
    BY <1>10 DEF WorldWith, Alike, WorldFields
  <2>2. InIt(v) = InIt(u)
    BY <2>1 DEF InIt, InGroup
  <2>3. \A r \in Series, h \in Holders : r # s => held[h][r] = u.held[h][r]
    BY <1>3, <1>6
  <2>4. ListedFirst(v)
    BY <1>3, <2>1, <2>3 DEF Sound, ListedFirst
  <2> QED BY <1>3, <2>1, <2>2, <2>4 DEF Sound, OpenedFirst, GroupedFirst, LeftOver, Counted
<1>14. PICK z : z = [d EXCEPT !.world.held = held]
  OBVIOUS
<1>15. Written(z, d, v)
  BY <1>1, <1>2, <1>9, <1>14 DEF Written, IsDraft
<1>16. PICK y : y = MoveWrapper(d, s, from, to)
  OBVIOUS
<1>17. held = [h \in Holders |-> [d.world.held[h] EXCEPT ![s] =
                 d.world.held[h][s] + (IF h = to THEN 1 ELSE 0) - (IF h = from THEN 1 ELSE 0)]]
  BY <1>2, <1>4, <1>6
<1>18. y = Emit(z, e)
  BY <1>11, <1>14, <1>16, <1>17 DEF MoveWrapper
<1>19. Emits(y, d, v, e)
  BY <1>15, <1>18, WrittenEmits
<1>20. Good(y, w)
  BY <1>1, <1>2, <1>12, <1>13, <1>19, GoodEmit
<1>21. y.world = v
  BY <1>19 DEF Emits
<1>22. NetBy(v, u, s, Minted(from, to))
  <2>1. PICK x : x = Minted(from, to)
    OBVIOUS
  <2>2. v \in Worlds /\ Alike(v, u, WorldFields \ {"held"}) /\ v.held = held
    BY <1>10 DEF WorldWith
  <2>3. MovedOne(v.held, u.held, s, from, to)
    BY <1>8, <2>2
  <2>4. NetBy(v, u, s, x)
    BY <1>3, <2>1, <2>2, <2>3, NetMove
  <2> QED BY <2>1, <2>4
<1> QED
  BY <1>2, <1>10, <1>16, <1>20, <1>21, <1>22 DEF WorldWith

-----------------------------------------------------------------------------
(* The balances of an account set to zero, one series after the other      *)

OneZeroed(e, a, s) == IF e.world.bal[a][s] = 0 THEN e ELSE ApplyDelta(e, a, s, -e.world.bal[a][s])

Changed(y, d, w, fields) ==
  Good(y, w) /\ Alike(y.world, d.world, WorldFields \ fields) /\ SameStage(y.world, d.world)

LEMMA GoodOne ==
  ASSUME NEW w, NEW d, Good(d, w), NEW a \in d.world.opened, NEW s \in Series
  PROVE  Changed(OneZeroed(d, a, s), d, w, {"bal", "group"})
<1>1. PICK y : y = OneZeroed(d, a, s)
  OBVIOUS
<1>2. PICK k : k = -d.world.bal[a][s]
  OBVIOUS
<1>3. d.world.bal[a][s] \in Int /\ k \in Int /\ a \in Accounts
  BY <1>2 DEF Good, Sound, Worlds, Balances
<1>4. CASE d.world.bal[a][s] = 0
  <2>1. y = d
    BY <1>1, <1>4 DEF OneZeroed
  <2> QED BY <1>1, <2>1 DEF Changed, Alike, SameStage
<1>5. CASE d.world.bal[a][s] # 0
  <2>1. s \in d.world.listed
    BY <1>3, <1>5 DEF Good, Sound, ListedFirst
  <2>2. y = ApplyDelta(d, a, s, k)
    BY <1>1, <1>2, <1>5 DEF OneZeroed
  <2>3. Good(y, w) /\ Alike(y.world, d.world, WorldFields \ {"bal", "group"}) /\ NetBy(y.world, d.world, s, k)
    BY <1>3, <2>1, <2>2, GoodDelta
  <2> QED BY <1>1, <2>3 DEF Changed, NetBy
<1> QED
  BY <1>4, <1>5

Zeroes(h, d, a, m) ==
  \A s \in SUBSET Series : Cardinality(s) <= m =>
    h[s] = IF s = {} THEN d ELSE OneZeroed(h[s \ {First(s)}], a, First(s))

ZeroesAll(h, d, a) ==
  h = [s \in SUBSET Series |-> IF s = {} THEN d ELSE OneZeroed(h[s \ {First(s)}], a, First(s))]

LEMMA ZeroesExist ==
  ASSUME NEW d, NEW a
  PROVE  \E h : ZeroesAll(h, d, a)
<1> DEFINE C == {m \in Nat : \E h : Zeroes(h, d, a, m)}
<1>1. 0 \in C
  <2> DEFINE h == [s \in SUBSET Series |-> d]
  <2>1. \A s \in SUBSET Series : Cardinality(s) <= 0 => s = {}
    <3> SUFFICES ASSUME NEW s \in SUBSET Series, Cardinality(s) <= 0 PROVE s = {}
      OBVIOUS
    <3>1. IsFiniteSet(s) /\ Cardinality(s) \in Nat
      BY FS_Subset, FS_CardinalityType, ChainAssumption
    <3> QED BY <3>1, FS_EmptySet
  <2>2. Zeroes(h, d, a, 0)
    BY <2>1 DEF Zeroes
  <2> QED BY <2>2
<1>2. ASSUME NEW k \in Nat, k \in C PROVE k + 1 \in C
  <2>1. PICK h : Zeroes(h, d, a, k)
    BY <1>2
  <2> DEFINE j == [s \in SUBSET Series |-> IF s = {} THEN d ELSE OneZeroed(h[s \ {First(s)}], a, First(s))]
  <2>4. ASSUME NEW s \in SUBSET Series, Cardinality(s) <= k + 1
        PROVE  j[s] = IF s = {} THEN d ELSE OneZeroed(j[s \ {First(s)}], a, First(s))
    <3>1. CASE s = {}
      BY <3>1
    <3>2. CASE s # {}
      <4>1. s \ {First(s)} \in SUBSET Series /\ Cardinality(s) = Cardinality(s \ {First(s)}) + 1
            /\ Cardinality(s \ {First(s)}) \in Nat
        BY <3>2, SmallerSet, ChainAssumption
      <4>2. Cardinality(s \ {First(s)}) <= k
        BY <2>4, <4>1
      <4>3. h[s \ {First(s)}] = j[s \ {First(s)}]
        BY <2>1, <4>1, <4>2 DEF Zeroes
      <4>4. j[s] = OneZeroed(h[s \ {First(s)}], a, First(s))
        BY <3>2
      <4> HIDE DEF j
      <4> QED
        BY <3>2, <4>3, <4>4
    <3> QED
      BY <3>1, <3>2
  <2>5. Zeroes(j, d, a, k + 1)
    <3> HIDE DEF j
    <3> QED BY <2>4 DEF Zeroes
  <2> HIDE DEF j
  <2> QED
    BY <2>5
<1>3. \A m \in Nat : m \in C
  <2> HIDE DEF C
  <2> QED BY <1>1, <1>2, CountInduction
<1>4. PICK g : Zeroes(g, d, a, Cardinality(Series))
  BY <1>3, FS_CardinalityType, ChainAssumption
<1>5. \A s \in SUBSET Series : Cardinality(s) <= Cardinality(Series)
  BY FS_Subset, ChainAssumption
<1> DEFINE h == [s \in SUBSET Series |-> g[s]]
<1>6. \A s \in SUBSET Series : h[s] = g[s] /\ h[s \ {First(s)}] = g[s \ {First(s)}]
  OBVIOUS
<1>7. h = [s \in SUBSET Series |-> h[s]]
  OBVIOUS
<1> HIDE DEF h
<1>8. \A s \in SUBSET Series : h[s] = IF s = {} THEN d ELSE OneZeroed(h[s \ {First(s)}], a, First(s))
  BY <1>4, <1>5, <1>6 DEF Zeroes
<1>9. h = [s \in SUBSET Series |-> IF s = {} THEN d ELSE OneZeroed(h[s \ {First(s)}], a, First(s))]
  BY <1>7, <1>8
<1> QED
  BY <1>9 DEF ZeroesAll

LEMMA GoodZero ==
  ASSUME NEW w, NEW d, Good(d, w), NEW a \in d.world.opened
  PROVE  Changed(Zeroed(d, a), d, w, {"bal", "group"})
<1> DEFINE Is(h) == h = [s \in SUBSET Series |-> IF s = {} THEN d ELSE LET x == First(s) IN OneZeroed(h[s \ {x}], a, x)]
           H == CHOOSE h : Is(h)
<1>1. Zeroed(d, a) = H[Series]
  BY DEF Zeroed, FoldSet, MapThenFoldSet, First, OneZeroed
<1>2. PICK g : ZeroesAll(g, d, a)
  BY ZeroesExist
<1>9. Is(g)
  <2>1. \A s \in SUBSET Series : g[s] = IF s = {} THEN d ELSE OneZeroed(g[s \ {First(s)}], a, First(s))
    BY <1>2 DEF ZeroesAll
  <2> QED BY <1>2, <2>1 DEF ZeroesAll
<1>3. Is(H)
  <2> HIDE DEF Is
  <2> QED BY <1>9
<1> HIDE DEF H
<1>4. \A s \in SUBSET Series : H[s] = IF s = {} THEN d ELSE OneZeroed(H[s \ {First(s)}], a, First(s))
  BY <1>3
<1> DEFINE G == {s \in SUBSET Series : Changed(H[s], d, w, {"bal", "group"})}
<1>5. {} \in G
  BY <1>4 DEF Changed, Alike, SameStage
<1>6. ASSUME NEW s \in SUBSET Series, s # {}, s \ {First(s)} \in G PROVE s \in G
  <2>1. First(s) \in Series
    BY <1>6, FirstIn
  <2>2. PICK x : x = H[s \ {First(s)}]
    OBVIOUS
  <2>3. Good(x, w) /\ Alike(x.world, d.world, WorldFields \ {"bal", "group"}) /\ SameStage(x.world, d.world)
    BY <1>6, <2>2 DEF Changed
  <2>4. a \in x.world.opened
    BY <2>3 DEF Alike, WorldFields
  <2>5. H[s] = OneZeroed(x, a, First(s))
    BY <1>4, <1>6, <2>2
  <2>6. PICK y : y = OneZeroed(x, a, First(s))
    OBVIOUS
  <2>7. Changed(y, x, w, {"bal", "group"})
    BY <2>1, <2>3, <2>4, <2>6, GoodOne
  <2>8. Changed(y, d, w, {"bal", "group"})
    BY <2>3, <2>7 DEF Changed, Alike, SameStage
  <2> QED BY <2>5, <2>6, <2>8
<1>7. \A s \in SUBSET Series : s \in G
  <2> HIDE DEF G
  <2> QED BY <1>5, <1>6, SubsetInduction, ChainAssumption
<1>8. Series \in G
  BY <1>7
<1> QED
  BY <1>1, <1>8

-----------------------------------------------------------------------------
(* The transactions of the ledger                                          *)

\* A transaction is mined whose logs tell of all that it does, and what is out
\* stays owed.
Mined == \E d : Mine(d) /\ Good(d, Now) /\ (Even(Now) => Even(d.world))

LEMMA GoodStart ==
  ASSUME Sound(Now)
  PROVE  Good(Start, Now) /\ Start.world = Now /\ IsDraft(Start)
<1>1. Start.world = Now /\ Start.logs = <<>> /\ IsDraft(Start)
  BY DEF Start, IsDraft
<1>2. IsSeq(<<>>) /\ Passes(<<>>, Now, Now) /\ Tracked(<<>>, Now, Now)
  BY NoneSent, NoneTracked
<1> QED
  BY <1>1, <1>2 DEF Good, Sent

LEMMA GoodWrite ==
  ASSUME NEW w, NEW d, Good(d, w), NEW z, NEW v, Written(z, d, v), Sound(v), NEW e, Steps(d.world, e, v)
  PROVE  Good(Emit(z, e), w) /\ Emit(z, e).world = v
<1>1. Sent(d, w) /\ Sound(d.world) /\ d.world \in Worlds
  BY DEF Good, Sound
<1>2. PICK y : y = Emit(z, e)
  OBVIOUS
<1>3. Emits(y, d, v, e)
  BY <1>2, WrittenEmits
<1>4. Good(y, w)
  BY <1>1, <1>3, GoodEmit
<1> QED
  BY <1>2, <1>3, <1>4 DEF Emits

LEMMA CreateAccountMined ==
  ASSUME Sound(Now), CreateAccount
  PROVE  Mined
<1>1. Good(Start, Now) /\ Start.world = Now /\ IsDraft(Start)
  BY GoodStart
<1>2. PICK u : u = Now
  OBVIOUS
<1>3. u \in Worlds /\ Sound(u)
  BY <1>2 DEF Sound
<1>4. PICK a \in Accounts \ u.opened :
        Mine(Emit([Start EXCEPT !.world.opened = @ \cup {a}], [ev |-> "SubAccountCreated", acct |-> a]))
  BY <1>2 DEF CreateAccount
<1>5. u.cash[a] = 0
  BY <1>3, <1>4 DEF Sound, OpenedFirst
<1>6. PICK opened : opened = u.opened \cup {a}
  OBVIOUS
<1>7. opened \in SUBSET Accounts
  BY <1>3, <1>4, <1>6 DEF Worlds
<1>8. PICK v : v = [u EXCEPT !.opened = opened]
  OBVIOUS
<1>9. WorldWith(v, u, "opened", opened)
  BY <1>3, <1>7, <1>8, WorldsWith
<1>10. PICK e : e = [ev |-> "SubAccountCreated", acct |-> a]
  OBVIOUS
<1>11. Steps(u, e, v)
  BY <1>3, <1>4, <1>5, <1>6, <1>8, <1>10, AccountStep
<1>12. Sound(v)
  <2>1. v.opened = opened /\ v.listed = u.listed /\ v.bal = u.bal /\ v.held = u.held /\ v.cash = u.cash
        /\ v.group = u.group /\ v.left = u.left /\ v.size = u.size /\ v \in Worlds
    BY <1>9 DEF WorldWith, Alike, WorldFields
  <2>2. InIt(v) = InIt(u)
    BY <2>1 DEF InIt, InGroup
  <2> QED
    BY <1>3, <1>6, <2>1, <2>2 DEF Sound, OpenedFirst, ListedFirst, GroupedFirst, Counted, LeftOver
<1>13. PICK z : z = [Start EXCEPT !.world.opened = @ \cup {a}]
  OBVIOUS
<1>14. Written(z, Start, v)
  BY <1>1, <1>2, <1>6, <1>8, <1>13 DEF Written, IsDraft
<1>15. Good(Emit(z, e), Now) /\ Emit(z, e).world = v
  BY <1>1, <1>2, <1>11, <1>12, <1>14, GoodWrite
<1>16. Even(u) => Even(v)
  BY <1>9, EvenWith
<1> QED
  BY <1>2, <1>4, <1>10, <1>13, <1>15, <1>16 DEF Mined

LEMMA DepositMined ==
  ASSUME Sound(Now), Deposit
  PROVE  Mined
<1>1. Good(Start, Now) /\ Start.world = Now
  BY GoodStart
<1>2. PICK a \in Start.world.opened : Mine(AddCash(Start, a, 1))
  BY <1>1 DEF Deposit
<1>3. 1 \in Int
  OBVIOUS
<1>4. Good(AddCash(Start, a, 1), Now) /\ Alike(AddCash(Start, a, 1).world, Start.world, WorldFields \ {"cash"})
  BY <1>1, <1>3, GoodCash
<1>5. Even(Now) => Even(AddCash(Start, a, 1).world)
  BY <1>1, <1>4, OtherFields, EvenUntouched
<1> QED
  BY <1>2, <1>4, <1>5 DEF Mined

LEMMA TransferMined ==
  ASSUME Sound(Now), TransferWrapper
  PROVE  Mined
<1>1. Good(Start, Now) /\ Start.world = Now
  BY GoodStart
<1>2. PICK s \in Series, h \in Holders, g \in Holders : h # g /\ Now.held[h][s] > 0 /\ Mine(MoveWrapper(Start, s, h, g))
  BY DEF TransferWrapper
<1>3. s \in Start.world.listed
  BY <1>1, <1>2 DEF Sound, ListedFirst
<1>4. PICK d : d = MoveWrapper(Start, s, h, g)
  OBVIOUS
<1>5. Good(d, Now) /\ Alike(d.world, Start.world, WorldFields \ {"held"}) /\ NetBy(d.world, Start.world, s, Minted(h, g))
  BY <1>1, <1>2, <1>3, <1>4, GoodMove
<1>6. Minted(h, g) = 0
  BY ChainAssumption DEF Minted
<1>7. Even(Now) => Even(d.world)
  BY <1>1, <1>5, <1>6, NetNothing
<1> QED
  BY <1>2, <1>4, <1>5, <1>7 DEF Mined

LEMMA UnwrapMined ==
  ASSUME Sound(Now), UnwrapLong
  PROVE  Mined
<1>1. Good(Start, Now) /\ Start.world = Now
  BY GoodStart
<1>2. PICK a \in Now.opened, s \in Series, h \in Holders :
        Now.held[h][s] > 0 /\ Mine(ApplyDelta(MoveWrapper(Start, s, h, Zero), a, s, 1))
  BY DEF UnwrapLong
<1>3. s \in Start.world.listed /\ h # Zero
  BY <1>1, <1>2, ChainAssumption DEF Sound, ListedFirst
<1>4. PICK d : d = MoveWrapper(Start, s, h, Zero)
  OBVIOUS
<1>5. Good(d, Now) /\ Alike(d.world, Start.world, WorldFields \ {"held"}) /\ NetBy(d.world, Start.world, s, Minted(h, Zero))
  BY <1>1, <1>3, <1>4, GoodMove
<1>6. a \in d.world.opened /\ s \in d.world.listed /\ 1 \in Int
  BY <1>1, <1>2, <1>3, <1>5 DEF Alike, WorldFields
<1>7. PICK y : y = ApplyDelta(d, a, s, 1)
  OBVIOUS
<1>8. Good(y, Now) /\ Alike(y.world, d.world, WorldFields \ {"bal", "group"}) /\ NetBy(y.world, d.world, s, 1)
  BY <1>5, <1>6, <1>7, GoodDelta
<1>9. Even(Now) => Even(y.world)
  <2>1. Minted(h, Zero) = -1
    BY <1>3 DEF Minted
  <2> QED BY <1>1, <1>5, <1>8, <2>1 DEF NetBy, Even, SameStage
<1> QED
  BY <1>2, <1>4, <1>7, <1>8, <1>9 DEF Mined

LEMMA WrapMined ==
  ASSUME Sound(Now), WrapLong
  PROVE  Mined
<1>1. Good(Start, Now) /\ Start.world = Now
  BY GoodStart
<1>2. PICK a \in Now.opened, s \in Series, h \in Holders :
        Now.bal[a][s] > 0 /\ Mine(MoveWrapper(ApplyDelta(Start, a, s, -1), s, Zero, h))
  BY DEF WrapLong
<1>3. s \in Start.world.listed /\ h # Zero /\ a \in Start.world.opened
  BY <1>1, <1>2, ChainAssumption DEF Sound, ListedFirst, Worlds
<1>4. PICK d : d = ApplyDelta(Start, a, s, -1)
  OBVIOUS
<1>5. -1 \in Int
  OBVIOUS
<1>6. Good(d, Now) /\ Alike(d.world, Start.world, WorldFields \ {"bal", "group"}) /\ NetBy(d.world, Start.world, s, -1)
  BY <1>1, <1>3, <1>4, <1>5, GoodDelta
<1>7. s \in d.world.listed
  BY <1>1, <1>3, <1>6 DEF Alike, WorldFields
<1>8. PICK y : y = MoveWrapper(d, s, Zero, h)
  OBVIOUS
<1>9. Good(y, Now) /\ Alike(y.world, d.world, WorldFields \ {"held"}) /\ NetBy(y.world, d.world, s, Minted(Zero, h))
  BY <1>3, <1>6, <1>7, <1>8, GoodMove
<1>10. Even(Now) => Even(y.world)
  <2>1. Minted(Zero, h) = 1
    BY <1>3 DEF Minted
  <2> QED BY <1>1, <1>6, <1>9, <2>1 DEF NetBy, Even, SameStage
<1> QED
  BY <1>2, <1>4, <1>8, <1>9, <1>10 DEF Mined

LEMMA CloseMined ==
  ASSUME Sound(Now), CloseShortWithInternalLong
  PROVE  Mined
<1>1. Good(Start, Now) /\ Start.world = Now
  BY GoodStart
<1>2. PICK a \in Now.opened, b \in Now.opened, s \in Series :
        Now.bal[a][s] > 0 /\ Mine(ApplyDelta(ApplyDelta(Start, a, s, -1), b, s, 1))
  BY DEF CloseShortWithInternalLong
<1>3. s \in Start.world.listed /\ a \in Start.world.opened
  BY <1>1, <1>2 DEF Sound, ListedFirst, Worlds
<1>4. PICK d : d = ApplyDelta(Start, a, s, -1)
  OBVIOUS
<1>5. -1 \in Int /\ 1 \in Int
  OBVIOUS
<1>6. Good(d, Now) /\ Alike(d.world, Start.world, WorldFields \ {"bal", "group"}) /\ NetBy(d.world, Start.world, s, -1)
  BY <1>1, <1>3, <1>4, <1>5, GoodDelta
<1>7. s \in d.world.listed /\ b \in d.world.opened
  BY <1>1, <1>2, <1>3, <1>6 DEF Alike, WorldFields
<1>8. PICK y : y = ApplyDelta(d, b, s, 1)
  OBVIOUS
<1>9. Good(y, Now) /\ Alike(y.world, d.world, WorldFields \ {"bal", "group"}) /\ NetBy(y.world, d.world, s, 1)
  BY <1>5, <1>6, <1>7, <1>8, GoodDelta
<1>10. Even(Now) => Even(y.world)
  BY <1>1, <1>6, <1>9 DEF NetBy, Even, SameStage
<1> QED
  BY <1>2, <1>4, <1>8, <1>9, <1>10 DEF Mined

LEMMA MintMined ==
  ASSUME Sound(Now), Mint
  PROVE  Mined
<1>1. Good(Start, Now) /\ Start.world = Now
  BY GoodStart
<1>2. PICK a \in Now.opened, s \in Now.listed, h \in Holders :
        Mine(Emit(MoveWrapper(SellerFee(ApplyDelta(Start, a, s, -1), a), s, Zero, h),
                  [ev |-> "ExternalLongMinted", acct |-> a, series |-> s]))
  BY DEF Mint
<1>3. s \in Start.world.listed /\ h # Zero /\ a \in Start.world.opened
  BY <1>1, <1>2, ChainAssumption
<1>4. PICK d : d = ApplyDelta(Start, a, s, -1)
  OBVIOUS
<1>5. -1 \in Int
  OBVIOUS
<1>6. Good(d, Now) /\ Alike(d.world, Start.world, WorldFields \ {"bal", "group"}) /\ NetBy(d.world, Start.world, s, -1)
  BY <1>1, <1>3, <1>4, <1>5, GoodDelta
<1>7. s \in d.world.listed /\ a \in d.world.opened
  BY <1>1, <1>3, <1>6 DEF Alike, WorldFields
<1>8. PICK c : c = SellerFee(d, a)
  OBVIOUS
<1>9. Good(c, Now) /\ Alike(c.world, d.world, WorldFields \ {"fund", "cash"})
  BY <1>6, <1>7, <1>8, GoodFee
<1>10. s \in c.world.listed
  BY <1>7, <1>9 DEF Alike, WorldFields
<1>11. PICK m : m = MoveWrapper(c, s, Zero, h)
  OBVIOUS
<1>12. Good(m, Now) /\ Alike(m.world, c.world, WorldFields \ {"held"}) /\ NetBy(m.world, c.world, s, Minted(Zero, h))
  BY <1>3, <1>9, <1>10, <1>11, GoodMove
<1>13. PICK e : e = [ev |-> "ExternalLongMinted", acct |-> a, series |-> s]
  OBVIOUS
<1>14. e.ev \in HistoryOnly
  BY <1>13 DEF HistoryOnly
<1>15. Good(Emit(m, e), Now) /\ Emit(m, e).world = m.world
  BY <1>12, <1>14, GoodHistory
<1>16. Even(Now) => Even(m.world)
  <2>1. Minted(Zero, h) = 1
    BY <1>3 DEF Minted
  <2>2. Untouched(c.world, d.world)
    BY <1>9, OtherFields
  <2>3. NetBy(c.world, Now, s, -1)
    BY <1>1, <1>6, <2>2, UntouchedNet
  <2> QED BY <1>12, <2>1, <2>3 DEF NetBy, Even, SameStage
<1> QED
  BY <1>2, <1>4, <1>8, <1>11, <1>13, <1>15, <1>16 DEF Mined

-----------------------------------------------------------------------------
(* The transactions of the settlement                                      *)

LEMMA GroupIsListed ==
  ASSUME NEW u, Sound(u), u.group.final \/ u.group.ratio
  PROVE  u.listed # {}
BY DEF Sound, GroupedFirst, FreshGroup

\* A field of the group written, its count of participants kept.
LEMMA GoodGroup ==
  ASSUME NEW w, NEW d, Good(d, w), d.world.listed # {}, NEW g \in Groups, g.parts = d.world.group.parts,
         NEW v, WorldWith(v, d.world, "group", g), NEW z, Written(z, d, v), NEW e, Steps(d.world, e, v)
  PROVE  Good(Emit(z, e), w) /\ Emit(z, e).world = v
<1>1. PICK u : u = d.world
  OBVIOUS
<1>2. Sound(u)
  BY <1>1 DEF Good
<1>3. v.opened = u.opened /\ v.listed = u.listed /\ v.bal = u.bal /\ v.held = u.held /\ v.cash = u.cash
      /\ v.group = g /\ v.left = u.left /\ v.size = u.size /\ v \in Worlds
  BY <1>1 DEF WorldWith, Alike, WorldFields
<1>4. InIt(v) = InIt(u)
  BY <1>3 DEF InIt, InGroup
<1>5. Sound(v)
  BY <1>1, <1>2, <1>3, <1>4 DEF Sound, OpenedFirst, ListedFirst, GroupedFirst, Counted, LeftOver
<1> QED
  BY <1>5, GoodWrite

LEMMA FinalizeMined ==
  ASSUME Sound(Now), FinalizeGroup
  PROVE  Mined
<1>1. Good(Start, Now) /\ Start.world = Now /\ IsDraft(Start)
  BY GoodStart
<1>2. PICK u : u = Now
  OBVIOUS
<1>3. u \in Worlds /\ Sound(u) /\ u.group \in Groups /\ u.listed # {} /\ u.group.parts \in Nat
  BY <1>2 DEF Sound, Worlds, Groups, FinalizeGroup
<1>4. PICK n \in Nat : n = u.group.parts
  BY <1>3
<1>5. PICK g : g = [u.group EXCEPT !.final = TRUE, !.atFinal = n]
  OBVIOUS
<1>6. g \in Groups /\ g.parts = u.group.parts
  BY <1>3, <1>4, <1>5 DEF Groups
<1>7. PICK v : v = [u EXCEPT !.group = g]
  OBVIOUS
<1>8. WorldWith(v, u, "group", g)
  BY <1>3, <1>6, <1>7, WorldsWith
<1>9. PICK e : e = [ev |-> "GroupFinalized", parts |-> n]
  OBVIOUS
<1>10. Steps(u, e, v)
  BY <1>3, <1>4, <1>5, <1>7, <1>9, FinalStep
<1>11. PICK z : z = [Start EXCEPT !.world.group.final = TRUE, !.world.group.atFinal = Now.group.parts]
  OBVIOUS
<1>12. Written(z, Start, v)
  <2>1. PICK h : h = [u.group EXCEPT !.final = TRUE]
    OBVIOUS
  <2>2. PICK x : x = [u EXCEPT !.group = h]
    OBVIOUS
  <2>3. PICK y : y = [Start EXCEPT !.world.group.final = TRUE]
    OBVIOUS
  <2>4. IsDraft(y) /\ y.world = x /\ y.logs = Start.logs
    BY <1>1, <1>2, <2>1, <2>2, <2>3 DEF IsDraft
  <2>5. z = [y EXCEPT !.world.group.atFinal = n]
    BY <1>2, <1>4, <1>11, <2>3
  <2>6. g = [h EXCEPT !.atFinal = n] /\ x.group = h /\ v = [x EXCEPT !.group = g]
    BY <1>3, <1>5, <1>7, <2>1, <2>2 DEF Worlds, Groups
  <2>7. v = [x EXCEPT !.group.atFinal = n]
    BY <2>6
  <2> QED BY <2>4, <2>5, <2>7 DEF Written, IsDraft
<1>13. Good(Emit(z, e), Now) /\ Emit(z, e).world = v
  BY <1>1, <1>2, <1>3, <1>6, <1>8, <1>10, <1>12, GoodGroup
<1>14. Mine(Emit(z, e))
  BY <1>2, <1>4, <1>9, <1>11 DEF FinalizeGroup
<1>15. Even(v)
  BY <1>3, <1>5, <1>8 DEF WorldWith, Even, Groups
<1> QED
  BY <1>13, <1>14, <1>15 DEF Mined

LEMMA SettleMined ==
  ASSUME Sound(Now), SettleAccount
  PROVE  Mined
<1>1. Good(Start, Now) /\ Start.world = Now
  BY GoodStart
<1>2. PICK a \in Accounts : InGroup(Now, a) /\
        LET owes == \E s \in Series : Now.bal[a][s] < 0
            d == Zeroed(Start, a)
        IN Mine(Emit(IF owes /\ Now.cash[a] > 0 THEN AddCash(d, a, -1) ELSE d, [ev |-> "AccountSettled", acct |-> a]))
  BY DEF SettleAccount
<1>3. a \in Start.world.opened
  BY <1>1, <1>2 DEF Sound, OpenedFirst, InGroup
<1>4. PICK d : d = Zeroed(Start, a)
  OBVIOUS
<1>5. Good(d, Now) /\ Alike(d.world, Start.world, WorldFields \ {"bal", "group"}) /\ SameStage(d.world, Start.world)
  BY <1>1, <1>3, <1>4, GoodZero DEF Changed
<1>6. a \in d.world.opened
  BY <1>1, <1>3, <1>5 DEF Alike, WorldFields
<1>7. -1 \in Int
  OBVIOUS
<1>8. Good(AddCash(d, a, -1), Now) /\ Alike(AddCash(d, a, -1).world, d.world, WorldFields \ {"cash"})
  BY <1>5, <1>6, <1>7, GoodCash
<1>9. PICK e : e = [ev |-> "AccountSettled", acct |-> a]
  OBVIOUS
<1>10. e.ev \in HistoryOnly
  BY <1>9 DEF HistoryOnly
<1>11. /\ Good(Emit(d, e), Now) /\ Emit(d, e).world = d.world
       /\ Good(Emit(AddCash(d, a, -1), e), Now) /\ Emit(AddCash(d, a, -1), e).world = AddCash(d, a, -1).world
  BY <1>5, <1>8, <1>10, GoodHistory
<1>12. Mine(Emit(d, e)) \/ Mine(Emit(AddCash(d, a, -1), e))
  BY <1>2, <1>4, <1>9
<1>13. d.world.group.final /\ AddCash(d, a, -1).world.group.final
  <2>1. Now.group.final
    BY DEF SettleAccount, Live
  <2> QED BY <1>1, <1>5, <1>8, <2>1 DEF SameStage, Alike, WorldFields
<1> QED
  BY <1>11, <1>12, <1>13 DEF Mined, Even

LEMMA RatioMined ==
  ASSUME Sound(Now), ComputeRecoveryRatio
  PROVE  Mined
<1>1. Good(Start, Now) /\ Start.world = Now
  BY GoodStart
<1>2. PICK d \in {Start, Cover(Start, 1)} :
        Mine(Emit([d EXCEPT !.world.group.ratio = TRUE], [ev |-> "RecoveryRatioSet"]))
  BY DEF ComputeRecoveryRatio
<1>3. Now.group.final
  BY DEF ComputeRecoveryRatio, Live
<1>4. Good(d, Now) /\ Alike(d.world, Start.world, WorldFields \ {"fund"})
  <2>1. CASE d = Start
    BY <1>1, <2>1 DEF Alike
  <2>2. CASE d = Cover(Start, 1)
    <3>1. 1 \in Int
      OBVIOUS
    <3> QED BY <1>1, <2>2, <3>1, GoodCover
  <2> QED BY <1>2, <2>1, <2>2
<1>5. PICK u : u = d.world
  OBVIOUS
<1>6. u.group = Now.group /\ Sound(u) /\ u \in Worlds /\ u.group \in Groups /\ IsDraft(d)
  BY <1>1, <1>4, <1>5 DEF Alike, WorldFields, Good, Sound, Worlds, Sent
<1>7. u.listed # {}
  BY <1>3, <1>6, GroupIsListed
<1>8. PICK g : g = [u.group EXCEPT !.ratio = TRUE]
  OBVIOUS
<1>9. g \in Groups /\ g.parts = u.group.parts
  BY <1>6, <1>8 DEF Groups
<1>10. PICK v : v = [u EXCEPT !.group = g]
  OBVIOUS
<1>11. WorldWith(v, u, "group", g)
  BY <1>6, <1>9, <1>10, WorldsWith
<1>12. PICK e : e = [ev |-> "RecoveryRatioSet"]
  OBVIOUS
<1>13. Steps(u, e, v)
  BY <1>6, <1>7, <1>8, <1>10, <1>12, RatioStep
<1>14. PICK z : z = [d EXCEPT !.world.group.ratio = TRUE]
  OBVIOUS
<1>15. Written(z, d, v)
  BY <1>5, <1>6, <1>8, <1>10, <1>14 DEF Written, IsDraft
<1>16. Good(Emit(z, e), Now) /\ Emit(z, e).world = v
  BY <1>4, <1>5, <1>7, <1>9, <1>11, <1>13, <1>15, GoodGroup
<1>17. Even(v)
  BY <1>3, <1>6, <1>8, <1>11 DEF WorldWith, Even, Groups
<1> QED
  BY <1>2, <1>12, <1>14, <1>16, <1>17 DEF Mined

LEMMA SweepMined ==
  ASSUME Sound(Now), SweepDust
  PROVE  Mined
<1>1. Good(Start, Now) /\ Start.world = Now
  BY GoodStart
<1>2. PICK d : d = DepositInsurance(Start, 1)
  OBVIOUS
<1>3. Mine(Emit([d EXCEPT !.world.group.swept = TRUE], [ev |-> "DustSwept"])) /\ Now.group.ratio
  BY <1>2 DEF SweepDust
<1>4. Good(d, Now) /\ Alike(d.world, Start.world, WorldFields \ {"fund"})
  <2>1. 1 \in Int
    OBVIOUS
  <2> QED BY <1>1, <1>2, <2>1, GoodDeposit
<1>5. PICK u : u = d.world
  OBVIOUS
<1>6. u.group = Now.group /\ Sound(u) /\ u \in Worlds /\ u.group \in Groups /\ IsDraft(d)
  BY <1>1, <1>4, <1>5 DEF Alike, WorldFields, Good, Sound, Worlds, Sent
<1>7. u.listed # {}
  BY <1>3, <1>6, GroupIsListed
<1>8. PICK g : g = [u.group EXCEPT !.swept = TRUE]
  OBVIOUS
<1>9. g \in Groups /\ g.parts = u.group.parts
  BY <1>6, <1>8 DEF Groups
<1>10. PICK v : v = [u EXCEPT !.group = g]
  OBVIOUS
<1>11. WorldWith(v, u, "group", g)
  BY <1>6, <1>9, <1>10, WorldsWith
<1>12. PICK e : e = [ev |-> "DustSwept"]
  OBVIOUS
<1>13. Steps(u, e, v)
  BY <1>6, <1>7, <1>8, <1>10, <1>12, SweptStep
<1>14. PICK z : z = [d EXCEPT !.world.group.swept = TRUE]
  OBVIOUS
<1>15. Written(z, d, v)
  BY <1>5, <1>6, <1>8, <1>10, <1>14 DEF Written, IsDraft
<1>16. Good(Emit(z, e), Now) /\ Emit(z, e).world = v
  BY <1>4, <1>5, <1>7, <1>9, <1>11, <1>13, <1>15, GoodGroup
<1>17. Even(Now) => Even(v)
  <2>1. Untouched(v, u)
    BY <1>6, <1>8, <1>11 DEF WorldWith, Alike, WorldFields, Untouched, Groups, SameStage
  <2>2. Untouched(u, Now)
    BY <1>1, <1>4, <1>5, OtherFields
  <2> QED BY <2>1, <2>2, EvenUntouched
<1> QED
  BY <1>3, <1>12, <1>14, <1>16, <1>17 DEF Mined

LEMMA RedeemMined ==
  ASSUME Sound(Now), RedeemWrapper
  PROVE  Mined
<1>1. Good(Start, Now) /\ Start.world = Now
  BY GoodStart
<1>2. PICK s \in Series, h \in Holders : Now.held[h][s] > 0
        /\ Mine(Emit(MoveWrapper(Start, s, h, Zero), [ev |-> "WrapperRedeemed", series |-> s]))
  BY DEF RedeemWrapper
<1>3. s \in Start.world.listed /\ h # Zero
  BY <1>1, <1>2, ChainAssumption DEF Sound, ListedFirst
<1>4. PICK d : d = MoveWrapper(Start, s, h, Zero)
  OBVIOUS
<1>5. Good(d, Now) /\ Alike(d.world, Start.world, WorldFields \ {"held"}) /\ NetBy(d.world, Start.world, s, Minted(h, Zero))
  BY <1>1, <1>3, <1>4, GoodMove
<1>6. PICK e : e = [ev |-> "WrapperRedeemed", series |-> s]
  OBVIOUS
<1>7. e.ev \in HistoryOnly
  BY <1>6 DEF HistoryOnly
<1>8. Good(Emit(d, e), Now) /\ Emit(d, e).world = d.world
  BY <1>5, <1>7, GoodHistory
<1>9. Even(Now) => Even(d.world)
  BY <1>1, <1>5 DEF RedeemWrapper, NetBy, SameStage, Even
<1> QED
  BY <1>2, <1>4, <1>6, <1>8, <1>9 DEF Mined

-----------------------------------------------------------------------------
(* The transactions of the liquidation                                     *)

AuctionSet(v, u, a, f) == v = [u EXCEPT !.auction = [u.auction EXCEPT ![a] = f]]

LEMMA AuctionWith ==
  ASSUME NEW u \in Worlds, NEW a \in Accounts, NEW f \in Auctions, NEW v, AuctionSet(v, u, a, f)
  PROVE  \E x \in [Accounts -> Auctions] : WorldWith(v, u, "auction", x) /\ x[a] = f
<1>1. PICK x : x = [u.auction EXCEPT ![a] = f]
  OBVIOUS
<1>2. x \in [Accounts -> Auctions] /\ x[a] = f
  BY <1>1 DEF Worlds
<1>3. v = [u EXCEPT !.auction = x]
  BY <1>1 DEF AuctionSet
<1>4. WorldWith(v, u, "auction", x)
  BY <1>2, <1>3, WorldsWith
<1> QED
  BY <1>2, <1>4

LEMMA GoodAuction ==
  ASSUME NEW w, NEW d, Good(d, w), NEW a \in Accounts, NEW f \in Auctions, NEW v, AuctionSet(v, d.world, a, f),
         NEW z, Written(z, d, v), NEW e, Steps(d.world, e, v)
  PROVE  /\ Good(Emit(z, e), w) /\ Emit(z, e).world.auction[a] = f
         /\ Alike(Emit(z, e).world, d.world, WorldFields \ {"auction"})
<1>1. Sound(d.world) /\ d.world \in Worlds
  BY DEF Good, Sound
<1>2. PICK x \in [Accounts -> Auctions] : WorldWith(v, d.world, "auction", x) /\ x[a] = f
  BY <1>1, AuctionWith
<1>3. Sound(v)
  BY <1>1, <1>2, SoundWith
<1>4. Good(Emit(z, e), w) /\ Emit(z, e).world = v
  BY <1>3, GoodWrite
<1> QED
  BY <1>2, <1>4 DEF WorldWith

LEMMA StartAuctionMined ==
  ASSUME Sound(Now), StartAuction
  PROVE  Mined
<1>1. Good(Start, Now) /\ Start.world = Now /\ IsDraft(Start)
  BY GoodStart
<1>2. PICK a \in Accounts : Mine(Emit(Auctioned(Start, a, [FreshAuction EXCEPT !.active = TRUE]),
                                      [ev |-> "AuctionStarted", acct |-> a]))
  BY DEF StartAuction
<1>3. PICK u : u = Now
  OBVIOUS
<1>4. u \in Worlds
  BY <1>3 DEF Sound
<1>5. PICK f : f = [FreshAuction EXCEPT !.active = TRUE]
  OBVIOUS
<1>6. f \in Auctions
  BY <1>5 DEF FreshAuction, Auctions
<1>7. PICK v : v = [u EXCEPT !.auction = [u.auction EXCEPT ![a] = f]]
  OBVIOUS
<1>8. PICK e : e = [ev |-> "AuctionStarted", acct |-> a]
  OBVIOUS
<1>9. Steps(u, e, v)
  BY <1>4, <1>5, <1>7, <1>8, AuctionStartStep
<1>10. PICK z : z = Auctioned(Start, a, f)
  OBVIOUS
<1>11. Written(z, Start, v)
  BY <1>1, <1>3, <1>7, <1>10 DEF Written, IsDraft, Auctioned
<1>12. AuctionSet(v, u, a, f)
  BY <1>7 DEF AuctionSet
<1>13. Good(Emit(z, e), Now) /\ Alike(Emit(z, e).world, Start.world, WorldFields \ {"auction"})
  BY <1>1, <1>3, <1>6, <1>9, <1>11, <1>12, GoodAuction
<1>14. Even(Now) => Even(Emit(z, e).world)
  BY <1>1, <1>13, OtherFields, EvenUntouched
<1> QED
  BY <1>2, <1>5, <1>8, <1>10, <1>13, <1>14 DEF Mined

\* The end of an auction, from any draft.
LEMMA GoodEnd ==
  ASSUME NEW w, NEW d, Good(d, w), NEW a \in Accounts, d.world.auction[a].active
  PROVE  LET y == Emit([d EXCEPT !.world.auction[a].active = FALSE], [ev |-> "AuctionEnded", acct |-> a])
         IN Good(y, w) /\ Alike(y.world, d.world, WorldFields \ {"auction"})
<1>1. PICK u : u = d.world
  OBVIOUS
<1>2. u \in Worlds /\ IsDraft(d) /\ u.auction \in [Accounts -> Auctions]
  BY <1>1 DEF Good, Sound, Sent, Worlds
<1>3. PICK f : f = [u.auction[a] EXCEPT !.active = FALSE]
  OBVIOUS
<1>4. f \in Auctions
  BY <1>2, <1>3 DEF Auctions
<1>5. PICK v : v = [u EXCEPT !.auction = [u.auction EXCEPT ![a] = f]]
  OBVIOUS
<1>6. PICK e : e = [ev |-> "AuctionEnded", acct |-> a]
  OBVIOUS
<1>7. Steps(u, e, v)
  BY <1>1, <1>2, <1>3, <1>5, <1>6, AuctionEndStep
<1>8. PICK z : z = [d EXCEPT !.world.auction[a].active = FALSE]
  OBVIOUS
<1>9. Written(z, d, v)
  BY <1>1, <1>2, <1>3, <1>5, <1>8 DEF Written, IsDraft
<1>10. AuctionSet(v, u, a, f)
  BY <1>5 DEF AuctionSet
<1>11. Good(Emit(z, e), w) /\ Alike(Emit(z, e).world, d.world, WorldFields \ {"auction"})
  BY <1>1, <1>4, <1>7, <1>9, <1>10, GoodAuction
<1> QED
  BY <1>6, <1>8, <1>11

LEMMA EndAuctionMined ==
  ASSUME Sound(Now), EndAuction
  PROVE  Mined
<1>1. Good(Start, Now) /\ Start.world = Now
  BY GoodStart
<1>2. PICK a \in Accounts : Now.auction[a].active
        /\ Mine(Emit([Start EXCEPT !.world.auction[a].active = FALSE], [ev |-> "AuctionEnded", acct |-> a]))
  BY DEF EndAuction
<1>3. PICK y : y = Emit([Start EXCEPT !.world.auction[a].active = FALSE], [ev |-> "AuctionEnded", acct |-> a])
  OBVIOUS
<1>4. Good(y, Now) /\ Alike(y.world, Start.world, WorldFields \ {"auction"})
  BY <1>1, <1>2, <1>3, GoodEnd
<1>5. Even(Now) => Even(y.world)
  BY <1>1, <1>4, OtherFields, EvenUntouched
<1> QED
  BY <1>2, <1>3, <1>4, <1>5 DEF Mined

Sliced(a, b, s, badDebt) ==
  LET d1 == ApplyDelta(ApplyDelta(Start, a, s, 1), b, s, -1)
      d2 == IF badDebt THEN Emit(AddCash(Cover(d1, 1), b, 1), [ev |-> "BadDebtCovered", acct |-> a])
            ELSE d1
      d3 == Emit([d2 EXCEPT !.world.auction[a].slices = @ + 1], [ev |-> "SliceLiquidated", acct |-> a])
  IN Mine(IF InGroup(d3.world, a) THEN d3
          ELSE Emit([d3 EXCEPT !.world.auction[a].active = FALSE], [ev |-> "AuctionEnded", acct |-> a]))

LEMMA SliceMined ==
  ASSUME Sound(Now), LiquidateSlice
  PROVE  Mined
<1>1. Good(Start, Now) /\ Start.world = Now
  BY GoodStart
<1>2. PICK a \in Now.opened, b \in Now.opened, s \in Series : \E badDebt \in BOOLEAN :
        /\ Live /\ a # b /\ Now.auction[a].active /\ Now.bal[a][s] < 0
        /\ badDebt => Now.fund.deposited > Now.fund.paid
        /\ Sliced(a, b, s, badDebt)
  BY DEF LiquidateSlice, Sliced
<1>2a. PICK badDebt \in BOOLEAN : Sliced(a, b, s, badDebt)
  BY <1>2
<1>3a. Now.bal[a][s] # 0 /\ a \in Accounts
  BY <1>2 DEF Sound, Worlds, Balances
<1>3. s \in Start.world.listed /\ a \in Start.world.opened /\ b \in Start.world.opened /\ a \in Accounts
  BY <1>1, <1>3a DEF Sound, ListedFirst
<1>4. -1 \in Int /\ 1 \in Int
  OBVIOUS
<1>5. PICK d0 : d0 = ApplyDelta(Start, a, s, 1)
  OBVIOUS
<1>6. Good(d0, Now) /\ Alike(d0.world, Start.world, WorldFields \ {"bal", "group"}) /\ NetBy(d0.world, Start.world, s, 1)
  BY <1>1, <1>3, <1>4, <1>5, GoodDelta
<1>7. s \in d0.world.listed /\ b \in d0.world.opened
  BY <1>3, <1>6 DEF Alike, WorldFields
<1>8. PICK d1 : d1 = ApplyDelta(d0, b, s, -1)
  OBVIOUS
<1>9. Good(d1, Now) /\ Alike(d1.world, d0.world, WorldFields \ {"bal", "group"}) /\ NetBy(d1.world, d0.world, s, -1)
  BY <1>4, <1>6, <1>7, <1>8, GoodDelta
<1>10. b \in d1.world.opened /\ d1.world.auction = Now.auction
  BY <1>1, <1>3, <1>6, <1>9 DEF Alike, WorldFields
<1>11. PICK d2 : d2 = IF badDebt THEN Emit(AddCash(Cover(d1, 1), b, 1), [ev |-> "BadDebtCovered", acct |-> a]) ELSE d1
  OBVIOUS
<1>a. Even(Now) => Even(d1.world)
  BY <1>1, <1>6, <1>9 DEF NetBy, Even, SameStage
<1>12. Good(d2, Now) /\ d2.world.auction = Now.auction /\ Untouched(d2.world, d1.world)
  <2>1. CASE ~badDebt
    BY <1>9, <1>10, <1>11, <2>1 DEF Untouched, SameStage
  <2>2. CASE badDebt
    <3>1. PICK c : c = Cover(d1, 1)
      OBVIOUS
    <3>2. Good(c, Now) /\ Alike(c.world, d1.world, WorldFields \ {"fund"})
      BY <1>4, <1>9, <3>1, GoodCover
    <3>3. b \in c.world.opened
      BY <1>10, <3>2 DEF Alike, WorldFields
    <3>4. PICK m : m = AddCash(c, b, 1)
      OBVIOUS
    <3>5. Good(m, Now) /\ Alike(m.world, c.world, WorldFields \ {"cash"})
      BY <1>4, <3>2, <3>3, <3>4, GoodCash
    <3>6. PICK h : h = [ev |-> "BadDebtCovered", acct |-> a]
      OBVIOUS
    <3>7. h.ev \in HistoryOnly
      BY <3>6 DEF HistoryOnly
    <3>8. d2 = Emit(m, h)
      BY <1>11, <2>2, <3>1, <3>4, <3>6
    <3>9. Good(d2, Now) /\ d2.world = m.world
      BY <3>5, <3>7, <3>8, GoodHistory
    <3> QED BY <1>10, <3>2, <3>5, <3>9 DEF Alike, WorldFields, Untouched, SameStage
  <2> QED BY <2>1, <2>2
<1>13. PICK u : u = d2.world
  OBVIOUS
<1>14. u \in Worlds /\ IsDraft(d2) /\ u.auction \in [Accounts -> Auctions] /\ u.auction[a].active
  BY <1>2, <1>12, <1>13 DEF Good, Sound, Sent, Worlds
<1>15. PICK f : f = [u.auction[a] EXCEPT !.slices = u.auction[a].slices + 1]
  OBVIOUS
<1>16. f \in Auctions /\ f.active
  BY <1>3, <1>14, <1>15 DEF Auctions
<1>17. PICK v : v = [u EXCEPT !.auction = [u.auction EXCEPT ![a] = f]]
  OBVIOUS
<1>18. PICK e : e = [ev |-> "SliceLiquidated", acct |-> a]
  OBVIOUS
<1>19. Steps(u, e, v)
  BY <1>3, <1>14, <1>15, <1>17, <1>18, SliceStep
<1>20. PICK z : z = [d2 EXCEPT !.world.auction[a].slices = @ + 1]
  OBVIOUS
<1>21. Written(z, d2, v)
  BY <1>13, <1>14, <1>15, <1>17, <1>20 DEF Written, IsDraft
<1>22. AuctionSet(v, u, a, f)
  BY <1>17 DEF AuctionSet
<1>23. PICK d3 : d3 = Emit(z, e)
  OBVIOUS
<1>24. Good(d3, Now) /\ d3.world.auction[a] = f /\ Alike(d3.world, u, WorldFields \ {"auction"})
  BY <1>3, <1>12, <1>13, <1>16, <1>19, <1>21, <1>22, <1>23, GoodAuction
<1>25. PICK d4 : d4 = Emit([d3 EXCEPT !.world.auction[a].active = FALSE], [ev |-> "AuctionEnded", acct |-> a])
  OBVIOUS
<1>26. Good(d4, Now) /\ Alike(d4.world, d3.world, WorldFields \ {"auction"})
  BY <1>3, <1>16, <1>24, <1>25, GoodEnd
<1>27. Mine(d3) \/ Mine(d4)
  BY <1>2a, <1>5, <1>8, <1>11, <1>18, <1>20, <1>23, <1>25 DEF Sliced
<1>28. Even(Now) => Even(d3.world) /\ Even(d4.world)
  <2>1. Untouched(d3.world, u) /\ Untouched(d4.world, d3.world)
    BY <1>24, <1>26, OtherFields
  <2> QED BY <1>a, <1>12, <1>13, <2>1, EvenUntouched
<1> QED
  BY <1>24, <1>26, <1>27, <1>28 DEF Mined

LEMMA WithWrapperMined ==
  ASSUME Sound(Now), LiquidateWithWrapper
  PROVE  Mined
<1>1. Good(Start, Now) /\ Start.world = Now
  BY GoodStart
<1>2. PICK a \in Now.opened, s \in Series, h \in Holders :
        /\ Now.held[h][s] > 0
        /\ LET d == ApplyDelta(MoveWrapper(Start, s, h, Zero), a, s, 1)
           IN Mine(Emit([d EXCEPT !.world.auction[a].wraps = IF Now.auction[a].active THEN @ + 1 ELSE @],
                        [ev |-> "WrapperLiquidated", acct |-> a, series |-> s]))
  BY DEF LiquidateWithWrapper
<1>3. s \in Start.world.listed /\ a \in Start.world.opened /\ a \in Accounts /\ h # Zero
  BY <1>1, <1>2, ChainAssumption DEF Sound, ListedFirst, Worlds
<1>4. PICK c : c = MoveWrapper(Start, s, h, Zero)
  OBVIOUS
<1>5. Good(c, Now) /\ Alike(c.world, Start.world, WorldFields \ {"held"}) /\ NetBy(c.world, Start.world, s, Minted(h, Zero))
  BY <1>1, <1>3, <1>4, GoodMove
<1>6. a \in c.world.opened /\ s \in c.world.listed /\ 1 \in Int
  BY <1>1, <1>2, <1>3, <1>5 DEF Alike, WorldFields
<1>7. PICK d : d = ApplyDelta(c, a, s, 1)
  OBVIOUS
<1>8. Good(d, Now) /\ Alike(d.world, c.world, WorldFields \ {"bal", "group"}) /\ NetBy(d.world, c.world, s, 1)
  BY <1>5, <1>6, <1>7, GoodDelta
<1>9. PICK u : u = d.world
  OBVIOUS
<1>10. u \in Worlds /\ IsDraft(d) /\ u.auction \in [Accounts -> Auctions] /\ u.auction = Now.auction
  BY <1>1, <1>5, <1>8, <1>9 DEF Good, Sound, Sent, Worlds, Alike, WorldFields
<1>11. PICK n \in Nat : n = IF u.auction[a].active THEN u.auction[a].wraps + 1 ELSE u.auction[a].wraps
  BY <1>3, <1>10 DEF Auctions
<1>12. PICK f : f = [u.auction[a] EXCEPT !.wraps = n]
  OBVIOUS
<1>13. f \in Auctions
  BY <1>3, <1>10, <1>12 DEF Auctions
<1>14. PICK v : v = [u EXCEPT !.auction = [u.auction EXCEPT ![a] = f]]
  OBVIOUS
<1>15. PICK e : e = [ev |-> "WrapperLiquidated", acct |-> a, series |-> s]
  OBVIOUS
<1>16. Steps(u, e, v)
  BY <1>3, <1>10, <1>11, <1>12, <1>14, <1>15, WrapStep
<1>17. PICK z : z = [d EXCEPT !.world.auction[a].wraps = IF Now.auction[a].active THEN @ + 1 ELSE @]
  OBVIOUS
<1>18. Written(z, d, v)
  BY <1>9, <1>10, <1>11, <1>12, <1>14, <1>17 DEF Written, IsDraft
<1>19. AuctionSet(v, u, a, f)
  BY <1>14 DEF AuctionSet
<1>20. Good(Emit(z, e), Now) /\ Alike(Emit(z, e).world, u, WorldFields \ {"auction"})
  BY <1>3, <1>8, <1>9, <1>13, <1>16, <1>18, <1>19, GoodAuction
<1>21. Even(Now) => Even(Emit(z, e).world)
  <2>1. Minted(h, Zero) = -1
    BY <1>3 DEF Minted
  <2>2. Even(Now) => Even(u)
    BY <1>1, <1>5, <1>8, <1>9, <2>1 DEF NetBy, Even, SameStage
  <2>3. Untouched(Emit(z, e).world, u)
    BY <1>20, OtherFields
  <2> QED BY <2>2, <2>3, EvenUntouched
<1> QED
  BY <1>2, <1>4, <1>7, <1>15, <1>17, <1>20, <1>21 DEF Mined

-----------------------------------------------------------------------------
(* The listing of a series: the first creates the group.                   *)

LEMMA SoundListed ==
  ASSUME NEW u, Sound(u), NEW v, NEW listed, u.listed \subseteq listed, listed # {}, WorldWith(v, u, "listed", listed)
  PROVE  Sound(v)
<1>1. v.opened = u.opened /\ v.listed = listed /\ v.bal = u.bal /\ v.held = u.held /\ v.cash = u.cash
      /\ v.group = u.group /\ v.left = u.left /\ v.size = u.size /\ v \in Worlds
  BY DEF WorldWith, Alike, WorldFields
<1>2. InIt(v) = InIt(u)
  BY <1>1 DEF InIt, InGroup
<1> QED
  BY <1>1, <1>2 DEF Sound, OpenedFirst, ListedFirst, GroupedFirst, Counted, LeftOver

LEMMA CreateSeriesMined ==
  ASSUME Sound(Now), CreateSeries
  PROVE  Mined
<1>1. Good(Start, Now) /\ Start.world = Now /\ IsDraft(Start)
  BY GoodStart
<1>2. PICK u : u = Now
  OBVIOUS
<1>3. u \in Worlds /\ Sound(u)
  BY <1>2 DEF Sound
<1>4. PICK s \in Series \ u.listed :
        LET d == IF Now.listed = {} THEN Emit(Start, [ev |-> "GroupCreated"]) ELSE Start
        IN Mine(Emit([d EXCEPT !.world.listed = @ \cup {s}], [ev |-> "SeriesCreated", series |-> s]))
  BY <1>2 DEF CreateSeries
<1>5. (\A a \in Accounts : u.bal[a][s] = 0) /\ (\A h \in Holders : u.held[h][s] = 0)
  BY <1>3 DEF Sound, ListedFirst
<1>6. PICK listed : listed = u.listed \cup {s}
  OBVIOUS
<1>7. listed \in SUBSET Series /\ u.listed \subseteq listed /\ listed # {}
  BY <1>3, <1>6 DEF Worlds
<1>8. PICK v : v = [u EXCEPT !.listed = listed]
  OBVIOUS
<1>9. WorldWith(v, u, "listed", listed)
  BY <1>3, <1>7, <1>8, WorldsWith
<1>10. Sound(v)
  BY <1>3, <1>7, <1>9, SoundListed
<1>11. PICK e : e = [ev |-> "SeriesCreated", series |-> s]
  OBVIOUS
<1>12. ASSUME NEW t, NEW id, Before(t, u, id), t.group # NoRows
       PROVE  Applied(t, e, id, v)
  BY <1>3, <1>5, <1>6, <1>8, <1>11, <1>12, SeriesStep
<1>a. Follows(u, e, v)
  <2>1. v.listed = u.listed \cup Lists(e)
    BY <1>6, <1>9, <1>11 DEF WorldWith, Lists
  <2>2. v.bal = Record(u.bal, e)
    BY <1>9, <1>11 DEF WorldWith, Alike, WorldFields, Record
  <2>3. Marks(u, e, v)
    BY <1>9, <1>11, QuietLog DEF Marking, WorldWith, Alike, WorldFields
  <2> QED BY <2>1, <2>2, <2>3 DEF Follows
<1>b. Even(u) => Even(v)
  BY <1>9, EvenWith
<1>13. CASE u.listed # {}
  <2>1. ASSUME NEW t, NEW id, Before(t, u, id) PROVE Applied(t, e, id, v)
    <3>1. GroupTold(t.group, u.listed, u.group)
      BY <2>1 DEF Before, Tells
    <3>2. t.group = [x \in {"group"} |-> u.group]
      BY <1>13, <3>1 DEF GroupTold
    <3>3. "group" \in DOMAIN t.group
      BY <3>2
    <3>4. t.group # NoRows
      BY <3>3 DEF NoRows
    <3> QED BY <1>12, <2>1, <3>4
  <2>2. Steps(u, e, v)
    BY <1>a, <2>1 DEF Steps
  <2>3. PICK z : z = [Start EXCEPT !.world.listed = @ \cup {s}]
    OBVIOUS
  <2>4. Written(z, Start, v)
    BY <1>1, <1>2, <1>6, <1>8, <2>3 DEF Written, IsDraft
  <2>5. Good(Emit(z, e), Now) /\ Emit(z, e).world = v
    BY <1>1, <1>2, <1>10, <2>2, <2>4, GoodWrite
  <2>6. Mine(Emit(z, e))
    BY <1>2, <1>4, <1>11, <1>13, <2>3
  <2> QED BY <1>2, <1>b, <2>5, <2>6 DEF Mined
<1>14. CASE u.listed = {}
  <2>1. u.group = FreshGroup
    BY <1>3, <1>14 DEF Sound, GroupedFirst
  <2>2. PICK g : g = [ev |-> "GroupCreated"]
    OBVIOUS
  <2>3. ASSUME NEW t, NEW id, Before(t, u, id)
        PROVE  Applied(t, g, id, u) /\ Handle(t, g, id).group # NoRows
    BY <1>3, <1>14, <2>1, <2>2, <2>3, GroupStep
  <2>4. Steps(u, g, u)
    <3>1. Marks(u, g, u)
      BY <2>2, QuietLog DEF Marking
    <3>2. Follows(u, g, u)
      BY <2>2, <3>1 DEF Follows, Lists, Record
    <3> QED BY <2>3, <3>2 DEF Steps
  <2>5. PICK d : d = Emit(Start, g)
    OBVIOUS
  <2>6. Emits(d, Start, u, g)
    BY <1>1, <1>2, <2>5, Emitted
  <2>7. Good(d, Now)
    <3>1. Sent(Start, Now) /\ Start.world = u
      BY <1>1, <1>2 DEF Good
    <3> QED BY <1>3, <2>4, <2>6, <3>1, GoodEmit
  <2>8. IsDraft(d) /\ d.world = u /\ d.logs = Append(Start.logs, g)
    BY <2>6 DEF Emits
  <2>9. Start.logs = <<>>
    BY DEF Start
  <2>10. PICK logs : logs = d.logs
    OBVIOUS
  <2>11. PICK none : none = <<>>
    OBVIOUS
  <2>12. IsSeq(none) /\ Len(none) = 0
    BY <2>11, NoneSent
  <2>13. logs = Append(none, g)
    BY <2>8, <2>9, <2>10, <2>11
  <2>14. Longer(logs, none, g)
    BY <2>12, <2>13, Appended
  <2>15. IsSeq(logs) /\ Passes(logs, u, u) /\ Tracked(logs, u, u)
    BY <1>2, <2>7, <2>8, <2>10 DEF Good, Sent
  <2>16. PICK more : more = Append(logs, e)
    OBVIOUS
  <2>17. Longer(more, logs, e)
    BY <2>15, <2>16, Appended
  <2>18. ASSUME NEW n, NEW t, NEW r, IsTables(t), Tells(t, u), Unseen(t, n), LogsRun(r, t, more, n)
         PROVE  Done(r[Len(more)], t, more, n, v)
    <3>1. LogsRun(r, t, logs, n) /\ r[Len(more)] = Handle(r[Len(logs)], e, <<n, Len(more)>>)
      BY <2>17, <2>18, RunMore
    <3>2. LogsRun(r, t, none, n) /\ r[Len(logs)] = Handle(r[Len(none)], g, <<n, Len(logs)>>)
      <4>1. LogsRun(r, t, logs, n)
        BY <3>1
      <4> QED BY <2>14, <4>1, RunMore
    <3>3. r[0] = t /\ Len(logs) = 1
      BY <2>12, <2>14, <3>1 DEF LogsRun, Longer
    <3>4. <<n, 1>> \notin t.processed
      BY <2>18 DEF Unseen
    <3>5. Before(t, u, <<n, 1>>)
      BY <1>3, <2>18, <3>4 DEF Before
    <3>6. PICK x : x = r[Len(logs)]
      OBVIOUS
    <3>7. x = Handle(t, g, <<n, 1>>)
      BY <2>12, <3>2, <3>3, <3>6
    <3>8. x.group # NoRows
      BY <2>3, <3>5, <3>7
    <3>9. Done(x, t, logs, n, u)
      BY <2>15, <2>18, <3>1, <3>6 DEF Passes
    <3>10. PICK id : id = <<n, Len(more)>>
      OBVIOUS
    <3>11. Before(x, u, id) => Applied(x, e, id, v)
      BY <1>12, <3>8
    <3>12. Done(Handle(x, e, id), t, more, n, v)
      BY <1>3, <2>17, <2>18, <3>9, <3>10, <3>11, DoneMore
    <3> QED BY <3>1, <3>6, <3>10, <3>12
  <2>19. Passes(more, u, v)
    BY <2>18 DEF Passes
  <2>20. PICK z : z = [d EXCEPT !.world.listed = @ \cup {s}]
    OBVIOUS
  <2>21. Written(z, d, v)
    BY <1>6, <1>8, <2>8, <2>20 DEF Written, IsDraft
  <2>22. PICK y : y = Emit(z, e)
    OBVIOUS
  <2>23. Emits(y, d, v, e)
    BY <2>21, <2>22, WrittenEmits
  <2>24. IsDraft(y) /\ y.world = v /\ y.logs = more
    BY <2>10, <2>16, <2>23 DEF Emits
  <2>25. IsSeq(more) /\ Tracked(more, u, v)
    BY <1>a, <2>15, <2>17, TrackedMore DEF Longer
  <2>26. Good(y, Now)
    BY <1>2, <1>10, <2>19, <2>24, <2>25 DEF Good, Sent
  <2>27. Mine(y)
    BY <1>2, <1>4, <1>11, <1>14, <2>2, <2>5, <2>20, <2>22
  <2> QED BY <1>2, <1>b, <2>24, <2>26, <2>27 DEF Mined
<1> QED
  BY <1>13, <1>14

-----------------------------------------------------------------------------
(* The transactions of governance and of the order book                    *)

\* A field that nothing of Sound is about.
Plain(f) == f \notin {"opened", "listed", "bal", "held", "cash", "group", "left", "size"}

LEMMA ApproveMined ==
  ASSUME Sound(Now), ApproveProduct
  PROVE  Mined
<1>1. Good(Start, Now) /\ Start.world = Now /\ IsDraft(Start)
  BY GoodStart
<1>2. PICK u : u = Now
  OBVIOUS
<1>3. u \in Worlds /\ Sound(u)
  BY <1>2 DEF Sound
<1>4. PICK x : x = [u EXCEPT !.approved = TRUE]
  OBVIOUS
<1>5. WorldWith(x, u, "approved", TRUE)
  BY <1>3, <1>4, WorldsWith
<1>6. x \in Worlds /\ Sound(x)
  BY <1>3, <1>5, SoundWith DEF WorldWith
<1>7. PICK v : v = [x EXCEPT !.enabled = TRUE]
  OBVIOUS
<1>8. WorldWith(v, x, "enabled", TRUE)
  BY <1>6, <1>7, WorldsWith
<1>9. Sound(v)
  BY <1>6, <1>8, SoundWith
<1>10. Alike(v, u, WorldFields \ {"approved", "enabled"}) /\ v.approved = TRUE /\ v.enabled = TRUE
  BY <1>5, <1>8 DEF WorldWith, Alike, WorldFields
<1>11. PICK e1 : e1 = [ev |-> "ProductApproved"]
  OBVIOUS
<1>12. Steps(u, e1, v)
  BY <1>10, <1>11, ApproveStep
<1>13. PICK e2 : e2 = [ev |-> "ProductEnabled", enabled |-> TRUE]
  OBVIOUS
<1>14. Steps(v, e2, v)
  <2>1. Alike(v, v, WorldFields \ {"enabled"})
    BY DEF Alike
  <2> QED BY <1>10, <1>13, <2>1, EnabledStep
<1>15. PICK y : y = [Start EXCEPT !.world.approved = TRUE]
  OBVIOUS
<1>16. IsDraft(y) /\ y.world = x /\ y.logs = Start.logs
  BY <1>1, <1>2, <1>4, <1>15 DEF IsDraft
<1>17. PICK z : z = [Start EXCEPT !.world.approved = TRUE, !.world.enabled = TRUE]
  OBVIOUS
<1>18. z = [y EXCEPT !.world.enabled = TRUE]
  BY <1>15, <1>17
<1>19. Written(z, Start, v)
  BY <1>7, <1>16, <1>18 DEF Written, IsDraft
<1>20. PICK d : d = Emit(z, e1)
  OBVIOUS
<1>21. Good(d, Now) /\ d.world = v
  BY <1>1, <1>2, <1>9, <1>12, <1>19, <1>20, GoodWrite
<1>22. Written(d, d, v)
  BY <1>21 DEF Written, Good, Sent
<1>23. Good(Emit(d, e2), Now) /\ Emit(d, e2).world = v
  BY <1>9, <1>14, <1>21, <1>22, GoodWrite
<1>24. Even(u) => Even(v)
  BY <1>5, <1>8, EvenWith
<1> QED
  BY <1>2, <1>11, <1>13, <1>17, <1>20, <1>23, <1>24 DEF Mined, ApproveProduct

LEMMA EnabledMined ==
  ASSUME Sound(Now), SetProductEnabled
  PROVE  Mined
<1>1. Good(Start, Now) /\ Start.world = Now /\ IsDraft(Start)
  BY GoodStart
<1>2. PICK u : u = Now
  OBVIOUS
<1>3. u \in Worlds /\ Sound(u)
  BY <1>2 DEF Sound
<1>4. PICK b \in BOOLEAN : u.approved
        /\ Mine(Emit([Start EXCEPT !.world.enabled = b], [ev |-> "ProductEnabled", enabled |-> b]))
  BY <1>2 DEF SetProductEnabled
<1>5. PICK v : v = [u EXCEPT !.enabled = b]
  OBVIOUS
<1>6. WorldWith(v, u, "enabled", b)
  BY <1>3, <1>5, WorldsWith
<1>7. Sound(v)
  BY <1>3, <1>6, SoundWith
<1>8. PICK e : e = [ev |-> "ProductEnabled", enabled |-> b]
  OBVIOUS
<1>9. Alike(v, u, WorldFields \ {"enabled"}) /\ v.enabled = b
  BY <1>6 DEF WorldWith
<1>10. Steps(u, e, v)
  BY <1>4, <1>8, <1>9, EnabledStep
<1>11. PICK z : z = [Start EXCEPT !.world.enabled = b]
  OBVIOUS
<1>12. Written(z, Start, v)
  BY <1>1, <1>2, <1>5, <1>11 DEF Written, IsDraft
<1>13. Good(Emit(z, e), Now) /\ Emit(z, e).world = v
  BY <1>1, <1>2, <1>7, <1>10, <1>12, GoodWrite
<1>14. Even(u) => Even(v)
  BY <1>6, EvenWith
<1> QED
  BY <1>2, <1>4, <1>8, <1>11, <1>13, <1>14 DEF Mined

LEMMA CloseOnlyMined ==
  ASSUME Sound(Now), SetProductCloseOnly
  PROVE  Mined
<1>1. Good(Start, Now) /\ Start.world = Now /\ IsDraft(Start)
  BY GoodStart
<1>2. PICK u : u = Now
  OBVIOUS
<1>3. u \in Worlds /\ Sound(u)
  BY <1>2 DEF Sound
<1>4. PICK b \in BOOLEAN : u.approved
        /\ Mine(Emit([Start EXCEPT !.world.closeOnly = b], [ev |-> "ProductCloseOnlySet", closeOnly |-> b]))
  BY <1>2 DEF SetProductCloseOnly
<1>5. PICK v : v = [u EXCEPT !.closeOnly = b]
  OBVIOUS
<1>6. WorldWith(v, u, "closeOnly", b)
  BY <1>3, <1>5, WorldsWith
<1>7. Sound(v)
  BY <1>3, <1>6, SoundWith
<1>8. PICK e : e = [ev |-> "ProductCloseOnlySet", closeOnly |-> b]
  OBVIOUS
<1>9. Alike(v, u, WorldFields \ {"closeOnly"}) /\ v.closeOnly = b
  BY <1>6 DEF WorldWith
<1>10. Steps(u, e, v)
  BY <1>4, <1>8, <1>9, CloseOnlyStep
<1>11. PICK z : z = [Start EXCEPT !.world.closeOnly = b]
  OBVIOUS
<1>12. Written(z, Start, v)
  BY <1>1, <1>2, <1>5, <1>11 DEF Written, IsDraft
<1>13. Good(Emit(z, e), Now) /\ Emit(z, e).world = v
  BY <1>1, <1>2, <1>7, <1>10, <1>12, GoodWrite
<1>14. Even(u) => Even(v)
  BY <1>6, EvenWith
<1> QED
  BY <1>2, <1>4, <1>8, <1>11, <1>13, <1>14 DEF Mined

LEMMA ReportMined ==
  ASSUME Sound(Now), SubmitReport
  PROVE  Mined
<1>1. Good(Start, Now) /\ Start.world = Now /\ IsDraft(Start)
  BY GoodStart
<1>2. PICK u : u = Now
  OBVIOUS
<1>3. u \in Worlds /\ Sound(u) /\ u.seq \in Nat /\ u.approved
  BY <1>2 DEF Sound, Worlds, SubmitReport
<1>4. PICK q \in Nat : q = u.seq + 1
  BY <1>3
<1>5. PICK x : x = [u EXCEPT !.seq = q]
  OBVIOUS
<1>6. WorldWith(x, u, "seq", q)
  BY <1>3, <1>4, <1>5, WorldsWith
<1>7. x \in Worlds /\ Sound(x)
  BY <1>3, <1>6, SoundWith DEF WorldWith
<1>8. PICK v : v = [x EXCEPT !.nodes = 0]
  OBVIOUS
<1>9. WorldWith(v, x, "nodes", 0)
  <2>1. 0 \in Nat
    OBVIOUS
  <2> QED BY <1>7, <1>8, <2>1, WorldsWith
<1>10. Sound(v)
  BY <1>7, <1>9, SoundWith
<1>11. Alike(v, u, WorldFields \ {"seq", "nodes"}) /\ v.seq = q /\ v.nodes = 0
  BY <1>6, <1>9 DEF WorldWith, Alike, WorldFields
<1>12. PICK e : e = [ev |-> "SurfaceAccepted", seq |-> q]
  OBVIOUS
<1>13. Steps(u, e, v)
  BY <1>3, <1>4, <1>11, <1>12, AcceptedStep
<1>14. PICK y : y = [Start EXCEPT !.world.seq = @ + 1]
  OBVIOUS
<1>15. IsDraft(y) /\ y.world = x /\ y.logs = Start.logs
  BY <1>1, <1>2, <1>4, <1>5, <1>14 DEF IsDraft
<1>16. PICK z : z = [Start EXCEPT !.world.seq = @ + 1, !.world.nodes = 0]
  OBVIOUS
<1>17. z = [y EXCEPT !.world.nodes = 0]
  BY <1>14, <1>16
<1>18. Written(z, Start, v)
  BY <1>8, <1>15, <1>17 DEF Written, IsDraft
<1>19. Good(Emit(z, e), Now) /\ Emit(z, e).world = v
  BY <1>1, <1>2, <1>10, <1>13, <1>18, GoodWrite
<1>20. Even(u) => Even(v)
  BY <1>6, <1>9, EvenWith
<1> QED
  BY <1>2, <1>4, <1>12, <1>16, <1>19, <1>20 DEF Mined, SubmitReport

LEMMA NodeMined ==
  ASSUME Sound(Now), ProveNode
  PROVE  Mined
<1>1. Good(Start, Now) /\ Start.world = Now /\ IsDraft(Start)
  BY GoodStart
<1>2. PICK u : u = Now
  OBVIOUS
<1>3. u \in Worlds /\ Sound(u) /\ u.seq \in Nat /\ u.seq > 0 /\ u.nodes \in Nat
  BY <1>2 DEF Sound, Worlds, ProveNode
<1>4. PICK q \in Nat : q = u.nodes + 1
  BY <1>3
<1>5. PICK v : v = [u EXCEPT !.nodes = q]
  OBVIOUS
<1>6. WorldWith(v, u, "nodes", q)
  BY <1>3, <1>4, <1>5, WorldsWith
<1>7. Sound(v)
  BY <1>3, <1>6, SoundWith
<1>8. PICK e : e = [ev |-> "NodeProven", seq |-> u.seq]
  OBVIOUS
<1>9. Alike(v, u, WorldFields \ {"nodes"}) /\ v.nodes = u.nodes + 1
  BY <1>4, <1>6 DEF WorldWith
<1>10. Steps(u, e, v)
  BY <1>3, <1>8, <1>9, NodeStep
<1>11. PICK z : z = [Start EXCEPT !.world.nodes = @ + 1]
  OBVIOUS
<1>12. Written(z, Start, v)
  BY <1>1, <1>2, <1>4, <1>5, <1>11 DEF Written, IsDraft
<1>13. Good(Emit(z, e), Now) /\ Emit(z, e).world = v
  BY <1>1, <1>2, <1>7, <1>10, <1>12, GoodWrite
<1>14. Even(u) => Even(v)
  BY <1>6, EvenWith
<1> QED
  BY <1>2, <1>8, <1>11, <1>13, <1>14 DEF Mined, ProveNode

LEMMA RegisterMined ==
  ASSUME Sound(Now), RegisterMarket
  PROVE  Mined
<1>1. Good(Start, Now) /\ Start.world = Now /\ IsDraft(Start)
  BY GoodStart
<1>2. PICK u : u = Now
  OBVIOUS
<1>3. u \in Worlds /\ Sound(u)
  BY <1>2 DEF Sound
<1>4. PICK v : v = [u EXCEPT !.market = "active"]
  OBVIOUS
<1>5. WorldWith(v, u, "market", "active")
  <2>1. "active" \in Markets
    BY DEF Markets
  <2> QED BY <1>3, <1>4, <2>1, WorldsWith
<1>6. Sound(v)
  BY <1>3, <1>5, SoundWith
<1>7. PICK e : e = [ev |-> "MarketRegistered"]
  OBVIOUS
<1>8. Steps(u, e, v)
  BY <1>3, <1>4, <1>7, MarketStep
<1>9. PICK z : z = [Start EXCEPT !.world.market = "active"]
  OBVIOUS
<1>10. Written(z, Start, v)
  BY <1>1, <1>2, <1>4, <1>9 DEF Written, IsDraft
<1>11. Good(Emit(z, e), Now) /\ Emit(z, e).world = v
  BY <1>1, <1>2, <1>6, <1>8, <1>10, GoodWrite
<1>12. Even(u) => Even(v)
  BY <1>5, EvenWith
<1> QED
  BY <1>2, <1>7, <1>9, <1>11, <1>12 DEF Mined, RegisterMarket

LEMMA StatusMined ==
  ASSUME Sound(Now), SetMarketStatus
  PROVE  Mined
<1>1. Good(Start, Now) /\ Start.world = Now /\ IsDraft(Start)
  BY GoodStart
<1>2. PICK u : u = Now
  OBVIOUS
<1>3. u \in Worlds /\ Sound(u)
  BY <1>2 DEF Sound
<1>4. PICK m \in {"active", "paused"} : u.market # "none"
        /\ Mine(Emit([Start EXCEPT !.world.market = m], [ev |-> "MarketStatusSet", status |-> m]))
  BY <1>2 DEF SetMarketStatus
<1>5. PICK v : v = [u EXCEPT !.market = m]
  OBVIOUS
<1>6. WorldWith(v, u, "market", m)
  <2>1. m \in Markets
    BY DEF Markets
  <2> QED BY <1>3, <1>5, <2>1, WorldsWith
<1>7. Sound(v)
  BY <1>3, <1>6, SoundWith
<1>8. PICK e : e = [ev |-> "MarketStatusSet", status |-> m]
  OBVIOUS
<1>9. Steps(u, e, v)
  BY <1>3, <1>4, <1>5, <1>8, MarketStep
<1>10. PICK z : z = [Start EXCEPT !.world.market = m]
  OBVIOUS
<1>11. Written(z, Start, v)
  BY <1>1, <1>2, <1>5, <1>10 DEF Written, IsDraft
<1>12. Good(Emit(z, e), Now) /\ Emit(z, e).world = v
  BY <1>1, <1>2, <1>7, <1>9, <1>11, GoodWrite
<1>13. Even(u) => Even(v)
  BY <1>6, EvenWith
<1> QED
  BY <1>2, <1>4, <1>8, <1>10, <1>12, <1>13 DEF Mined

LEMMA SoundOrders ==
  ASSUME NEW u, Sound(u), NEW v, v \in Worlds, Alike(v, u, WorldFields \ {"orders", "size", "left"}), LeftOver(v)
  PROVE  Sound(v)
<1>1. v.opened = u.opened /\ v.listed = u.listed /\ v.bal = u.bal /\ v.held = u.held /\ v.cash = u.cash
      /\ v.group = u.group
  BY DEF Alike, WorldFields
<1>2. InIt(v) = InIt(u)
  BY <1>1 DEF InIt, InGroup
<1> QED
  BY <1>1, <1>2 DEF Sound, OpenedFirst, ListedFirst, GroupedFirst, Counted

LEMMA PlaceMined ==
  ASSUME Sound(Now), PlaceOrder
  PROVE  Mined
<1>1. Good(Start, Now) /\ Start.world = Now /\ IsDraft(Start)
  BY GoodStart
<1>2. PICK u : u = Now
  OBVIOUS
<1>3. u \in Worlds /\ Sound(u) /\ u.orders \in [Orders -> Statuses] /\ u.size \in [Orders -> Int] /\ u.left \in [Orders -> Int]
  BY <1>2 DEF Sound, Worlds
<1>4. PICK o \in Orders : u.market # "none" /\ u.orders[o] = "none"
        /\ Mine(Emit([Start EXCEPT !.world.orders[o] = "OPEN", !.world.size[o] = 2, !.world.left[o] = 2],
                     [ev |-> "OrderCreated", order |-> o, size |-> 2]))
  BY <1>2 DEF PlaceOrder
<1>5. PICK orders : orders = [u.orders EXCEPT ![o] = "OPEN"]
  OBVIOUS
<1>6. PICK size : size = [u.size EXCEPT ![o] = 2]
  OBVIOUS
<1>7. PICK left : left = [u.left EXCEPT ![o] = 2]
  OBVIOUS
<1>8. /\ orders \in [Orders -> Statuses] /\ size \in [Orders -> Int] /\ left \in [Orders -> Int]
      /\ \A p \in Orders : orders[p] = (IF p = o THEN "OPEN" ELSE u.orders[p])
                           /\ size[p] = (IF p = o THEN 2 ELSE u.size[p]) /\ left[p] = IF p = o THEN 2 ELSE u.left[p]
  BY <1>3, <1>5, <1>6, <1>7 DEF Statuses
<1>9. PICK x : x = [u EXCEPT !.orders = orders]
  OBVIOUS
<1>10. WorldWith(x, u, "orders", orders)
  BY <1>3, <1>8, <1>9, WorldsWith
<1>11. PICK y : y = [x EXCEPT !.size = size]
  OBVIOUS
<1>12a. x \in Worlds
  BY <1>8, <1>10, <1>11 DEF WorldWith
<1>12. WorldWith(y, x, "size", size)
  BY <1>8, <1>10, <1>11, <1>12a, WorldsWith
<1>13. PICK v : v = [y EXCEPT !.left = left]
  OBVIOUS
<1>14a. y \in Worlds
  BY <1>8, <1>12, <1>13 DEF WorldWith
<1>14. WorldWith(v, y, "left", left)
  BY <1>8, <1>12, <1>13, <1>14a, WorldsWith
<1>15. /\ Alike(v, u, WorldFields \ {"orders", "size", "left"}) /\ v \in Worlds
       /\ v.orders = orders /\ v.size = size /\ v.left = left
  BY <1>10, <1>12, <1>14 DEF WorldWith, Alike, WorldFields
<1>16. LeftOver(v)
  BY <1>3, <1>8, <1>15 DEF Sound, LeftOver
<1>17. Sound(v)
  BY <1>3, <1>15, <1>16, SoundOrders
<1>18. PICK e : e = [ev |-> "OrderCreated", order |-> o, size |-> 2]
  OBVIOUS
<1>19. \A p \in Orders : OrderOf(v, p) = IF p = o THEN StoredRow(2, 2, "OPEN") ELSE OrderOf(u, p)
  BY <1>8, <1>15 DEF OrderOf
<1>20. Steps(u, e, v)
  <2>1. PICK k : k = 2
    OBVIOUS
  <2>2. \A p \in Orders : OrderOf(v, p) = IF p = o THEN StoredRow(k, k, "OPEN") ELSE OrderOf(u, p)
    BY <1>19, <2>1
  <2>3. e = [ev |-> "OrderCreated", order |-> o, size |-> k]
    BY <1>18, <2>1
  <2> QED BY <1>4, <1>15, <2>2, <2>3, OrderStep
<1>21. PICK z : z = [Start EXCEPT !.world.orders[o] = "OPEN", !.world.size[o] = 2, !.world.left[o] = 2]
  OBVIOUS
<1>22. Written(z, Start, v)
  <2>1. PICK z1 : z1 = [Start EXCEPT !.world.orders[o] = "OPEN"]
    OBVIOUS
  <2>2. IsDraft(z1) /\ z1.world = x /\ z1.logs = Start.logs
    BY <1>1, <1>2, <1>5, <1>9, <2>1 DEF IsDraft
  <2>3. PICK z2 : z2 = [z1 EXCEPT !.world.size[o] = 2]
    OBVIOUS
  <2>4. x.size = u.size
    BY <1>10 DEF WorldWith, Alike, WorldFields
  <2>5. IsDraft(z2) /\ z2.world = y /\ z2.logs = Start.logs
    BY <1>6, <1>11, <2>2, <2>3, <2>4 DEF IsDraft
  <2>6. y.left = u.left
    BY <1>10, <1>12 DEF WorldWith, Alike, WorldFields
  <2>7. PICK z3 : z3 = [z2 EXCEPT !.world.left[o] = 2]
    OBVIOUS
  <2>8. IsDraft(z3) /\ z3.world = v /\ z3.logs = Start.logs
    BY <1>7, <1>13, <2>5, <2>6, <2>7 DEF IsDraft
  <2>9. z = z3
    BY <1>21, <2>1, <2>3, <2>7
  <2> QED BY <2>8, <2>9 DEF Written
<1>23. Good(Emit(z, e), Now) /\ Emit(z, e).world = v
  BY <1>1, <1>2, <1>17, <1>20, <1>22, GoodWrite
<1>24. Even(u) => Even(v)
  BY <1>15, OtherFields, EvenUntouched
<1> QED
  BY <1>2, <1>4, <1>18, <1>21, <1>23, <1>24 DEF Mined

LEMMA FillMined ==
  ASSUME Sound(Now), FillOrder
  PROVE  Mined
<1>1. Good(Start, Now) /\ Start.world = Now /\ IsDraft(Start)
  BY GoodStart
<1>2. PICK u : u = Now
  OBVIOUS
<1>3. u \in Worlds /\ Sound(u) /\ u.orders \in [Orders -> Statuses] /\ u.size \in [Orders -> Int] /\ u.left \in [Orders -> Int]
  BY <1>2 DEF Sound, Worlds
<1>4. PICK o \in Orders : \E n \in 1..u.left[o] :
        /\ u.orders[o] \in {"OPEN", "PARTIAL"}
        /\ Mine(Emit([Start EXCEPT !.world.orders[o] = IF n = Now.left[o] THEN "FILLED" ELSE "PARTIAL",
                                   !.world.left[o] = @ - n],
                     [ev |-> "Trade", order |-> o, left |-> Now.left[o] - n]))
  BY <1>2 DEF FillOrder
<1>5. PICK n \in 1..u.left[o] :
        /\ u.orders[o] \in {"OPEN", "PARTIAL"}
        /\ Mine(Emit([Start EXCEPT !.world.orders[o] = IF n = Now.left[o] THEN "FILLED" ELSE "PARTIAL",
                                   !.world.left[o] = @ - n],
                     [ev |-> "Trade", order |-> o, left |-> Now.left[o] - n]))
  BY <1>4
<1>6. n \in Int /\ n >= 1 /\ n <= u.left[o] /\ u.left[o] \in Int /\ u.size[o] \in Int /\ u.left[o] <= u.size[o]
  BY <1>3, <1>5 DEF Sound, LeftOver
<1>7. PICK k \in Nat : k = u.left[o] - n
  BY <1>6
<1>8. k < u.size[o] /\ (k = 0 <=> n = u.left[o]) /\ k <= u.size[o]
  BY <1>6, <1>7
<1>9. PICK st \in Statuses : st = IF k = 0 THEN "FILLED" ELSE "PARTIAL"
  BY DEF Statuses
<1>10. PICK orders : orders = [u.orders EXCEPT ![o] = st]
  OBVIOUS
<1>11. PICK left : left = [u.left EXCEPT ![o] = k]
  OBVIOUS
<1>12. /\ orders \in [Orders -> Statuses] /\ left \in [Orders -> Int]
       /\ \A p \in Orders : orders[p] = (IF p = o THEN st ELSE u.orders[p]) /\ left[p] = IF p = o THEN k ELSE u.left[p]
  BY <1>3, <1>10, <1>11
<1>13. PICK x : x = [u EXCEPT !.orders = orders]
  OBVIOUS
<1>14. WorldWith(x, u, "orders", orders)
  BY <1>3, <1>12, <1>13, WorldsWith
<1>15. PICK v : v = [x EXCEPT !.left = left]
  OBVIOUS
<1>16a. x \in Worlds
  BY <1>12, <1>14, <1>15 DEF WorldWith
<1>16. WorldWith(v, x, "left", left)
  BY <1>12, <1>14, <1>15, <1>16a, WorldsWith
<1>17. /\ Alike(v, u, WorldFields \ {"orders", "size", "left"}) /\ v \in Worlds
       /\ v.orders = orders /\ v.size = u.size /\ v.left = left
  BY <1>14, <1>16 DEF WorldWith, Alike, WorldFields
<1>18. LeftOver(v)
  BY <1>3, <1>8, <1>12, <1>17 DEF Sound, LeftOver
<1>19. Sound(v)
  BY <1>3, <1>17, <1>18, SoundOrders
<1>20. PICK e : e = [ev |-> "Trade", order |-> o, left |-> k]
  OBVIOUS
<1>21. \A p \in Orders : OrderOf(v, p) = IF p = o THEN StoredRow(u.size[o], k, IF k = 0 THEN "FILLED" ELSE "PARTIAL")
                                         ELSE OrderOf(u, p)
  BY <1>9, <1>12, <1>17 DEF OrderOf
<1>22. Steps(u, e, v)
  BY <1>5, <1>6, <1>8, <1>17, <1>20, <1>21, TradeStep
<1>23. PICK z : z = [Start EXCEPT !.world.orders[o] = IF n = Now.left[o] THEN "FILLED" ELSE "PARTIAL",
                                  !.world.left[o] = @ - n]
  OBVIOUS
<1>24. Written(z, Start, v)
  <2>1. PICK z1 : z1 = [Start EXCEPT !.world.orders[o] = IF n = Now.left[o] THEN "FILLED" ELSE "PARTIAL"]
    OBVIOUS
  <2>2. st = IF n = Now.left[o] THEN "FILLED" ELSE "PARTIAL"
    BY <1>2, <1>8, <1>9
  <2>3. IsDraft(z1) /\ z1.world = x /\ z1.logs = Start.logs
    BY <1>1, <1>2, <1>10, <1>13, <2>1, <2>2 DEF IsDraft
  <2>4. x.left = u.left
    BY <1>14 DEF WorldWith, Alike, WorldFields
  <2>5. PICK z2 : z2 = [z1 EXCEPT !.world.left[o] = z1.world.left[o] - n]
    OBVIOUS
  <2>6. IsDraft(z2) /\ z2.world = v /\ z2.logs = Start.logs
    BY <1>7, <1>11, <1>15, <2>3, <2>4, <2>5 DEF IsDraft
  <2>7. z = z2
    BY <1>23, <2>1, <2>5
  <2> QED BY <2>6, <2>7 DEF Written
<1>25. Good(Emit(z, e), Now) /\ Emit(z, e).world = v
  BY <1>1, <1>2, <1>19, <1>22, <1>24, GoodWrite
<1>26. Mine(Emit(z, e))
  BY <1>2, <1>5, <1>7, <1>20, <1>23
<1>27. Even(u) => Even(v)
  BY <1>17, OtherFields, EvenUntouched
<1> QED
  BY <1>2, <1>25, <1>26, <1>27 DEF Mined

LEMMA CancelMined ==
  ASSUME Sound(Now), CancelOrders
  PROVE  Mined
<1>1. Good(Start, Now) /\ Start.world = Now /\ IsDraft(Start)
  BY GoodStart
<1>2. PICK u : u = Now
  OBVIOUS
<1>3. u \in Worlds /\ Sound(u) /\ u.orders \in [Orders -> Statuses] /\ u.size \in [Orders -> Int] /\ u.left \in [Orders -> Int]
  BY <1>2 DEF Sound, Worlds
<1>4. PICK os \in SUBSET {o \in Orders : u.orders[o] \in {"OPEN", "PARTIAL"}} :
        Mine(Emit([Start EXCEPT !.world.orders = [o \in Orders |-> IF o \in os THEN "CANCELLED" ELSE @[o]],
                                !.world.left = [o \in Orders |-> IF o \in os THEN 0 ELSE @[o]]],
                  [ev |-> "OrdersCanceled", orders |-> os]))
  BY <1>2 DEF CancelOrders
<1>5. PICK orders : orders = [o \in Orders |-> IF o \in os THEN "CANCELLED" ELSE u.orders[o]]
  OBVIOUS
<1>6. PICK left : left = [o \in Orders |-> IF o \in os THEN 0 ELSE u.left[o]]
  OBVIOUS
<1>7. orders \in [Orders -> Statuses] /\ left \in [Orders -> Int]
  BY <1>3, <1>5, <1>6 DEF Statuses
<1>8. PICK x : x = [u EXCEPT !.orders = orders]
  OBVIOUS
<1>9. WorldWith(x, u, "orders", orders)
  BY <1>3, <1>7, <1>8, WorldsWith
<1>10. PICK v : v = [x EXCEPT !.left = left]
  OBVIOUS
<1>11a. x \in Worlds
  BY <1>7, <1>9, <1>10 DEF WorldWith
<1>11. WorldWith(v, x, "left", left)
  BY <1>7, <1>9, <1>10, <1>11a, WorldsWith
<1>12. /\ Alike(v, u, WorldFields \ {"orders", "size", "left"}) /\ v \in Worlds
       /\ v.orders = orders /\ v.size = u.size /\ v.left = left
  BY <1>9, <1>11 DEF WorldWith, Alike, WorldFields
<1>13. \A o \in Orders : orders[o] = (IF o \in os THEN "CANCELLED" ELSE u.orders[o]) /\ left[o] = IF o \in os THEN 0 ELSE u.left[o]
  BY <1>5, <1>6
<1>14. LeftOver(v)
  BY <1>3, <1>12, <1>13 DEF Sound, LeftOver
<1>15. Sound(v)
  BY <1>3, <1>12, <1>14, SoundOrders
<1>16. PICK e : e = [ev |-> "OrdersCanceled", orders |-> os]
  OBVIOUS
<1>17. \A p \in Orders : OrderOf(v, p) = IF p \in os THEN StoredRow(u.size[p], 0, "CANCELLED") ELSE OrderOf(u, p)
  BY <1>12, <1>13 DEF OrderOf
<1>18. os \in SUBSET Orders /\ \A o \in os : u.orders[o] \in {"OPEN", "PARTIAL"}
  BY <1>4
<1>19. Steps(u, e, v)
  BY <1>12, <1>16, <1>17, <1>18, CancelStep
<1>20. PICK z : z = [Start EXCEPT !.world.orders = [o \in Orders |-> IF o \in os THEN "CANCELLED" ELSE @[o]],
                                 !.world.left = [o \in Orders |-> IF o \in os THEN 0 ELSE @[o]]]
  OBVIOUS
<1>21. Written(z, Start, v)
  <2>1. PICK z1 : z1 = [Start EXCEPT !.world.orders = [o \in Orders |-> IF o \in os THEN "CANCELLED" ELSE @[o]]]
    OBVIOUS
  <2>2. z1 = [Start EXCEPT !.world.orders = orders]
    BY <1>1, <1>2, <1>5, <2>1 DEF IsDraft
  <2>3. IsDraft(z1) /\ z1.world = x /\ z1.logs = Start.logs
    BY <1>1, <1>2, <1>8, <2>2 DEF IsDraft
  <2>4. x.left = u.left
    BY <1>9 DEF WorldWith, Alike, WorldFields
  <2>5. PICK z2 : z2 = [z1 EXCEPT !.world.left = left]
    OBVIOUS
  <2>6. IsDraft(z2) /\ z2.world = v /\ z2.logs = Start.logs
    BY <1>10, <2>3, <2>5 DEF IsDraft
  <2>7. z = [z1 EXCEPT !.world.left = [o \in Orders |-> IF o \in os THEN 0 ELSE z1.world.left[o]]]
    BY <1>20, <2>1
  <2>8. left = [o \in Orders |-> IF o \in os THEN 0 ELSE z1.world.left[o]]
    BY <1>6, <2>3, <2>4
  <2>9. z = z2
    BY <2>5, <2>7, <2>8
  <2> QED BY <2>6, <2>9 DEF Written
<1>22. Good(Emit(z, e), Now) /\ Emit(z, e).world = v
  BY <1>1, <1>2, <1>15, <1>19, <1>21, GoodWrite
<1>23. Even(u) => Even(v)
  BY <1>12, OtherFields, EvenUntouched
<1> QED
  BY <1>2, <1>4, <1>16, <1>20, <1>22, <1>23 DEF Mined

-----------------------------------------------------------------------------
(* 4. The chain: every block is a transaction whose logs tell what it did  *)

WorldIn(bs, n) == IF n = 0 THEN Genesis ELSE bs[n].world

BlockSound(bs, ids, n) ==
  /\ bs[n].id \in Nat /\ bs[n].id < ids
  /\ IsSeq(bs[n].logs) /\ Sound(bs[n].world) /\ Passes(bs[n].logs, WorldIn(bs, n - 1), bs[n].world)
  /\ Tracked(bs[n].logs, WorldIn(bs, n - 1), bs[n].world) /\ Even(bs[n].world)

ChainSound(bs, ids) == IsSeq(bs) /\ ids \in Nat /\ \A n \in 1..Len(bs) : BlockSound(bs, ids, n)

LEMMA GenesisSound == Sound(Genesis)
<1>1. Genesis.bal \in Balances /\ Genesis.held \in Holdings /\ Genesis.group \in Groups
      /\ Genesis.auction \in [Accounts -> Auctions] /\ Genesis.fund \in Funds
  BY DEF Genesis, Balances, Holdings, Groups, Auctions, Funds, FreshGroup, FreshAuction, FreshFund
<1>2. Genesis.market \in Markets /\ Genesis.orders \in [Orders -> Statuses]
      /\ Genesis.cash \in [Accounts -> Int] /\ Genesis.size \in [Orders -> Int] /\ Genesis.left \in [Orders -> Int]
  BY DEF Genesis, Markets, Statuses
<1>3. Genesis \in Worlds
  BY <1>1, <1>2 DEF Genesis, Worlds
<1>4. InIt(Genesis) = {}
  BY DEF Genesis, InIt, InGroup
<1>5. Counted(Genesis)
  BY <1>4, FS_EmptySet DEF Counted, Genesis, FreshGroup
<1> QED
  BY <1>3, <1>5 DEF Sound, OpenedFirst, ListedFirst, GroupedFirst, LeftOver, Genesis

LEMMA LengthIs ==
  ASSUME NEW s, IsSeq(s)
  PROVE  Len(s) \in Nat /\ DOMAIN s = 1..Len(s)
BY DEF IsSeq

LEMMA EvenGenesis == Even(Genesis)
<1>1. Genesis \in Worlds
  BY GenesisSound DEF Sound
<1>2. ~Genesis.group.ratio
  BY DEF Genesis, FreshGroup
<1>3. ASSUME NEW s \in Series PROVE NetOf(Genesis, s) = 0
  <2>1. \A a \in Accounts : Genesis.bal[a][s] = 0
    BY DEF Genesis
  <2>2. \A a \in Holders : Genesis.held[a][s] = 0
    BY DEF Genesis
  <2>3. LongOf(Genesis.bal, s) = 0 /\ ShortOf(Genesis.bal, s) = 0 /\ SupplyOf(Genesis.held, s) = 0
    BY <1>1, <2>1, <2>2, NobodyHolds DEF Worlds
  <2> QED BY <2>3 DEF NetOf
<1> QED
  BY <1>2, <1>3 DEF Even

LEMMA TipSound ==
  ASSUME ChainSound(blocks, mined)
  PROVE  Sound(Now) /\ Even(Now) /\ Tip \in Nat /\ Now = WorldIn(blocks, Tip)
<1>1. Tip \in Nat
  BY LengthIs DEF ChainSound, Tip
<1>2. CASE Tip = 0
  BY <1>1, <1>2, GenesisSound, EvenGenesis DEF Now, WorldAt, WorldIn
<1>3. CASE Tip # 0
  <2>1. Tip \in 1..Len(blocks)
    BY <1>1, <1>3 DEF Tip
  <2>2. Sound(blocks[Tip].world) /\ Even(blocks[Tip].world)
    BY <2>1 DEF ChainSound, BlockSound
  <2> QED BY <1>1, <1>3, <2>2 DEF Now, WorldAt, WorldIn
<1> QED
  BY <1>2, <1>3

\* cs begins as bs does.
Begins(cs, bs, k) == \A n \in 1..k : cs[n] = bs[n]

LEMMA MineSound ==
  ASSUME ChainSound(blocks, mined), Mined
  PROVE  ChainSound(blocks', mined') /\ Len(blocks') = Tip + 1 /\ Begins(blocks', blocks, Tip)
         /\ blocks'[Tip + 1].id = mined
<1>1. PICK d : Mine(d) /\ Good(d, Now) /\ (Even(Now) => Even(d.world))
  BY DEF Mined
<1>2. PICK b : b = [id |-> mined, logs |-> d.logs, world |-> d.world]
  OBVIOUS
<1>3. blocks' = Append(blocks, b) /\ mined' = mined + 1
  BY <1>1, <1>2 DEF Mine
<1>4. IsSeq(blocks) /\ mined \in Nat /\ Tip \in Nat /\ Now = WorldIn(blocks, Tip) /\ Tip = Len(blocks)
  BY TipSound DEF ChainSound, Tip
<1>5. Longer(blocks', blocks, b)
  BY <1>3, <1>4, Appended
<1>6. /\ Len(blocks') = Tip + 1 /\ blocks'[Tip + 1] = b /\ \A n \in 1..Tip : blocks'[n] = blocks[n]
      /\ IsSeq(blocks')
  BY <1>4, <1>5 DEF Longer
<1>7. ASSUME NEW n \in 1..(Tip + 1) PROVE BlockSound(blocks', mined', n)
  <2>1. WorldIn(blocks', n - 1) = WorldIn(blocks, n - 1)
    BY <1>4, <1>6 DEF WorldIn
  <2>2. CASE n = Tip + 1
    <3>1. n - 1 = Tip /\ blocks'[n] = b
      BY <1>4, <1>6, <2>2
    <3>2. IsSeq(d.logs) /\ Sound(d.world) /\ Even(d.world) /\ Passes(d.logs, Now, d.world) /\ Tracked(d.logs, Now, d.world)
      BY <1>1, TipSound DEF Good, Sent
    <3>3. b.id = mined /\ b.logs = d.logs /\ b.world = d.world
      BY <1>2
    <3>4. WorldIn(blocks', n - 1) = Now
      BY <1>4, <2>1, <3>1
    <3> QED BY <1>3, <1>4, <3>1, <3>2, <3>3, <3>4 DEF BlockSound
  <2>3. CASE n # Tip + 1
    <3>1. n \in 1..Tip
      BY <1>4, <2>3
    <3>2. BlockSound(blocks, mined, n) /\ blocks'[n] = blocks[n]
      BY <1>4, <1>6, <3>1 DEF ChainSound
    <3> QED BY <1>3, <1>4, <2>1, <3>2 DEF BlockSound
  <2> QED BY <2>2, <2>3
<1>8. ChainSound(blocks', mined')
  <2>1. mined' \in Nat
    BY <1>3, <1>4
  <2> QED BY <1>6, <1>7, <2>1 DEF ChainSound
<1> QED
  BY <1>2, <1>6, <1>8 DEF Begins

LEMMA ForkSound ==
  ASSUME ChainSound(blocks, mined), Fork
  PROVE  ChainSound(blocks', mined') /\ Len(blocks') = Tip - 1 /\ Begins(blocks', blocks, Tip - 1)
<1>1. blocks' = SubSeq(blocks, 1, Tip - 1) /\ mined' = mined /\ Tip > 1
  BY DEF Fork
<1>2. IsSeq(blocks) /\ mined \in Nat /\ Tip \in Nat /\ Tip = Len(blocks)
  BY TipSound DEF ChainSound, Tip
<1>3. PICK S : blocks \in Seq(S)
  BY <1>2 DEF IsSeq
<1>4. PICK k \in Nat : k = Tip - 1
  <2>1. Tip \in Nat /\ Tip > 1
    BY ONLY <1>1, <1>2
  <2>2. Tip - 1 \in Nat
    BY ONLY <2>1
  <2> QED BY ONLY <2>2
<1>5. blocks' \in Seq(S) /\ Len(blocks') = k /\ \A n \in 1..k : blocks'[n] = blocks[n]
  <2>1. k <= Len(blocks) /\ blocks' = SubSeq(blocks, 1, k)
    BY <1>1, <1>2, <1>4
  <2>2. \A i \in 1..k : blocks[i] \in S
    BY <1>3, <2>1
  <2> QED BY <1>3, <2>1, <2>2
<1>6. ASSUME NEW n \in 1..k PROVE BlockSound(blocks', mined', n)
  <2>1. n \in 1..Tip /\ BlockSound(blocks, mined, n) /\ blocks'[n] = blocks[n]
    BY <1>2, <1>4, <1>5 DEF ChainSound
  <2>2. WorldIn(blocks', n - 1) = WorldIn(blocks, n - 1)
    BY <1>5 DEF WorldIn
  <2> QED BY <1>1, <2>1, <2>2 DEF BlockSound
<1>7. ChainSound(blocks', mined')
  BY <1>1, <1>2, <1>5, <1>6 DEF ChainSound, IsSeq
<1> QED
  BY <1>4, <1>5, <1>7 DEF Begins

LEMMA EachMined ==
  ASSUME Sound(Now), AnyTransaction
  PROVE  Mined
<1>1. CreateAccount \/ Deposit \/ CreateSeries \/ Mint \/ TransferWrapper \/ UnwrapLong \/ WrapLong
      \/ CloseShortWithInternalLong => Mined
  BY CreateAccountMined, DepositMined, CreateSeriesMined, MintMined, TransferMined, UnwrapMined, WrapMined, CloseMined
<1>2. FinalizeGroup \/ SettleAccount \/ ComputeRecoveryRatio \/ RedeemWrapper \/ SweepDust => Mined
  BY FinalizeMined, SettleMined, RatioMined, RedeemMined, SweepMined
<1>3. StartAuction \/ LiquidateSlice \/ LiquidateWithWrapper \/ EndAuction => Mined
  BY StartAuctionMined, SliceMined, WithWrapperMined, EndAuctionMined
<1>4. ApproveProduct \/ SetProductEnabled \/ SetProductCloseOnly \/ SubmitReport \/ ProveNode => Mined
  BY ApproveMined, EnabledMined, CloseOnlyMined, ReportMined, NodeMined
<1>5. RegisterMarket \/ SetMarketStatus \/ PlaceOrder \/ FillOrder \/ CancelOrders => Mined
  BY RegisterMined, StatusMined, PlaceMined, FillMined, CancelMined
<1> QED
  BY <1>1, <1>2, <1>3, <1>4, <1>5 DEF AnyTransaction

-----------------------------------------------------------------------------
(* The index over the chain                                                *)

KeptOf(bs, n) == {<<n, i>> : i \in {i \in DOMAIN bs[n].logs : Kept(bs[n].logs[i])}}

\* The tables t are those of the first k blocks.
TablesOf(t, bs, k) ==
  /\ IsTables(t) /\ Tells(t, WorldIn(bs, k))
  /\ \A x : x \in t.history <=> \E n \in 1..k : x \in KeptOf(bs, n)
  /\ \A x \in t.processed : \E n \in 1..k, i \in Nat : x = <<n, i>>
  /\ k > 0 /\ bs[k].logs # <<>> => Handle(t, Last(bs[k].logs), <<k, Len(bs[k].logs)>>) = t

LEMMA NothingTold ==
  ASSUME NEW bs
  PROVE  TablesOf(EmptyTables, bs, 0)
<1>1. IsTables(EmptyTables)
  BY DEF EmptyTables, IsTables
<1>2. DOMAIN NoRows = {}
  BY DEF NoRows
<1>3. NoRows = [a \in {} |-> Genesis.cash[a]]
  BY <1>2 DEF NoRows
<1>4. AccountsTold(NoRows, {}, Genesis.cash)
  BY <1>3 DEF AccountsTold
<1>5. SeriesTold(NoRows, {}, Genesis.bal, Genesis.held)
  <2>1. NoRows = [s \in {} |-> [long |-> LongOf(Genesis.bal, s), short |-> ShortOf(Genesis.bal, s), supply |-> SupplyOf(Genesis.held, s)]]
    BY <1>2 DEF NoRows
  <2> QED BY <2>1 DEF SeriesTold
<1>6. \A id, x : Row(NoRows, id, x) = x
  BY <1>2 DEF Row
<1>7. FreshAuction \in Auctions
  BY DEF FreshAuction, Auctions
<1>8. Tells(EmptyTables, Genesis)
  BY <1>2, <1>4, <1>5, <1>6, <1>7 DEF Tells, EmptyTables, Genesis, PositionsTold, WrappersTold, GroupTold, AuctionsTold,
     FundTold, MarketTold, OrdersTold, Placed, ProductTold, SurfaceTold
<1>9. EmptyTables.history = {} /\ EmptyTables.processed = {}
  BY DEF EmptyTables
<1> QED
  BY <1>1, <1>8, <1>9 DEF TablesOf, WorldIn

LEMMA SamePrefix ==
  ASSUME NEW bs, NEW cs, NEW k \in Nat, Begins(cs, bs, k), NEW t, TablesOf(t, bs, k)
  PROVE  TablesOf(t, cs, k)
<1>1. \A n \in 1..k : cs[n] = bs[n]
  BY DEF Begins
<1>2. WorldIn(cs, k) = WorldIn(bs, k)
  BY <1>1 DEF WorldIn
<1>3. \A n \in 1..k : KeptOf(cs, n) = KeptOf(bs, n)
  BY <1>1 DEF KeptOf
<1>4. k > 0 => cs[k] = bs[k]
  BY <1>1
<1> QED
  BY <1>2, <1>3, <1>4 DEF TablesOf

LEMMA BlockTold ==
  ASSUME ChainSound(blocks, mined), NEW k \in Nat, k + 1 <= Tip, NEW t, TablesOf(t, blocks, k)
  PROVE  TablesOf(HandleBlock(t, k + 1), blocks, k + 1)
<1>1. PICK n \in Nat : n = k + 1
  OBVIOUS
<1>2. n \in 1..Tip /\ n # 0 /\ Tip = Len(blocks) /\ Tip \in Nat /\ n - 1 = k
  BY <1>1, TipSound DEF Tip
<1>3. PICK logs : logs = blocks[n].logs
  OBVIOUS
<1>4. PICK v : v = blocks[n].world
  OBVIOUS
<1>5. BlockSound(blocks, mined, n)
  BY <1>2 DEF ChainSound
<1>6. IsSeq(logs) /\ Passes(logs, WorldIn(blocks, k), v)
  BY <1>2, <1>3, <1>4, <1>5 DEF BlockSound
<1>7. PICK m \in Nat : m = Len(logs) /\ DOMAIN logs = 1..m
  BY <1>6, LengthIs
<1>8. PICK r : Runs(r, <<"logs", n>>, t, m) /\ r[m] = HandleBlock(t, n)
  <2>1. Len(blocks[n].logs) = m
    BY <1>3, <1>7
  <2> QED BY <1>2, <2>1, BlockRuns
<1>9. LogsRun(r, t, logs, n)
  <2>1. \A i, u : Step(<<"logs", n>>, u, i) = Handle(u, logs[i], <<n, i>>)
    BY <1>3 DEF Step
  <2>2. r[0] = t /\ \A i \in 1..m : r[i] = Step(<<"logs", n>>, r[i - 1], i)
    BY <1>8 DEF Runs
  <2> QED BY <1>7, <2>1, <2>2 DEF LogsRun
<1>10. IsTables(t) /\ Tells(t, WorldIn(blocks, k))
  BY DEF TablesOf
<1>11. Unseen(t, n)
  <2>1. \A x \in t.processed : \E p \in 1..k, i \in Nat : x = <<p, i>>
    BY DEF TablesOf
  <2>2. \A p \in 1..k, i \in Nat, j \in Nat : <<n, j>> # <<p, i>>
    BY <1>1
  <2> QED BY <2>1, <2>2 DEF Unseen
<1>12. PICK u : u = r[m]
  OBVIOUS
<1>13. Done(u, t, logs, n, v)
  BY <1>6, <1>7, <1>9, <1>10, <1>11, <1>12 DEF Passes
<1>14. IsTables(u) /\ Tells(u, WorldIn(blocks, n))
  BY <1>2, <1>4, <1>13 DEF Done, WorldIn
<1>15. \A x : x \in u.history <=> \E p \in 1..n : x \in KeptOf(blocks, p)
  <2>1. u.history = t.history \cup KeptOf(blocks, n)
    BY <1>3, <1>13 DEF Done, KeptOf
  <2>2. \A x : x \in t.history <=> \E p \in 1..k : x \in KeptOf(blocks, p)
    BY DEF TablesOf
  <2>3. \A p : p \in 1..n <=> (p \in 1..k \/ p = n)
    BY <1>1
  <2> QED BY <2>1, <2>2, <2>3
<1>16. \A x \in u.processed : \E p \in 1..n, i \in Nat : x = <<p, i>>
  <2>1. u.processed \subseteq t.processed \cup {<<n, i>> : i \in 1..m}
    BY <1>7, <1>13 DEF Done
  <2>2. \A x \in t.processed : \E p \in 1..k, i \in Nat : x = <<p, i>>
    BY DEF TablesOf
  <2>3. \A p : p \in 1..k => p \in 1..n
    BY <1>1
  <2>4. n \in 1..n /\ \A i \in 1..m : i \in Nat
    BY <1>1
  <2> QED BY <2>1, <2>2, <2>3, <2>4
<1>17. n > 0 /\ blocks[n].logs # <<>> => Handle(u, Last(blocks[n].logs), <<n, Len(blocks[n].logs)>>) = u
  BY <1>3, <1>13 DEF Done
<1>18. TablesOf(u, blocks, n)
  BY <1>14, <1>15, <1>16, <1>17 DEF TablesOf
<1> QED
  BY <1>1, <1>8, <1>12, <1>18

LEMMA ChainTold ==
  ASSUME ChainSound(blocks, mined), NEW k \in Nat, k <= Tip
  PROVE  TablesOf(TablesAt(k), blocks, k)
<1>1. PICK r : Runs(r, <<"blocks">>, EmptyTables, k) /\ r[k] = TablesAt(k)
  BY ChainRuns
<1>2. r[0] = EmptyTables /\ \A i \in 1..k : r[i] = HandleBlock(r[i - 1], i)
  BY <1>1 DEF Runs, Step
<1> DEFINE G == {j \in Nat : j <= k => TablesOf(r[j], blocks, j)}
<1>3. 0 \in G
  BY <1>2, NothingTold
<1>4. ASSUME NEW j \in Nat, j \in G PROVE j + 1 \in G
  <2> SUFFICES ASSUME j + 1 <= k PROVE TablesOf(r[j + 1], blocks, j + 1)
    OBVIOUS
  <2>1. j <= k /\ j + 1 \in 1..k /\ j + 1 - 1 = j /\ Tip \in Nat
    BY TipSound
  <2>2. TablesOf(r[j], blocks, j)
    BY <1>4, <2>1
  <2>3. j + 1 <= Tip
    BY <2>1
  <2>4. TablesOf(HandleBlock(r[j], j + 1), blocks, j + 1)
    BY <2>2, <2>3, BlockTold
  <2>5. r[j + 1] = HandleBlock(r[j], j + 1)
    BY <1>2, <2>1
  <2> QED BY <2>4, <2>5
<1>5. \A j \in Nat : j \in G
  <2> HIDE DEF G
  <2> QED BY <1>3, <1>4, CountInduction
<1> QED
  BY <1>1, <1>5

SeenSound(ss, ids) == IsSeq(ss) /\ \A n \in 1..Len(ss) : ss[n] \in Nat /\ ss[n] < ids

IndexSound ==
  /\ ChainSound(blocks, mined) /\ SeenSound(seen, mined)
  /\ OnChain => TablesOf(tables, blocks, Progress)

LEMMA IndexInitSound ==
  ASSUME IndexInit
  PROVE  IndexSound
<1>1. blocks = <<>> /\ mined = 0 /\ tables = EmptyTables /\ seen = <<>>
  BY DEF IndexInit
<1>2. IsSeq(<<>>) /\ Len(<<>>) = 0
  BY NoneSent
<1>3. Progress = 0
  BY <1>1, <1>2 DEF Progress
<1>4. ChainSound(blocks, mined) /\ SeenSound(seen, mined)
  BY <1>1, <1>2 DEF ChainSound, SeenSound
<1>5. TablesOf(tables, blocks, Progress)
  BY <1>1, <1>3, NothingTold
<1> QED
  BY <1>4, <1>5 DEF IndexSound

\* A block mined or dropped: what is still on the chain was before.
LEMMA BlockKeeps ==
  ASSUME IndexSound, Mined \/ Fork, UNCHANGED indexVars
  PROVE  IndexSound'
<1>1. ChainSound(blocks, mined) /\ SeenSound(seen, mined) /\ (OnChain => TablesOf(tables, blocks, Progress))
  BY DEF IndexSound
<1>2. tables' = tables /\ seen' = seen
  BY DEF indexVars
<1>3. Tip \in Nat /\ Sound(Now) /\ mined \in Nat /\ Tip = Len(blocks)
  BY <1>1, TipSound DEF ChainSound, Tip
<1>4. PICK k \in Nat : k = Len(seen)
  BY <1>1, LengthIs DEF SeenSound
<1>5. \A n \in 1..k : seen[n] \in Nat /\ seen[n] < mined
  BY <1>1, <1>4 DEF SeenSound
<1>6. /\ OnChain <=> (k <= Tip /\ \A n \in 1..k : blocks[n].id = seen[n])
      /\ OnChain' <=> (k <= Len(blocks') /\ \A n \in 1..k : blocks'[n].id = seen[n])
  BY <1>2, <1>4 DEF OnChain, Progress, Tip
<1>7. ChainSound(blocks', mined') /\ mined' \in Nat /\ mined <= mined'
      /\ (OnChain' => k <= Tip /\ Begins(blocks', blocks, k))
  <2>1. CASE Fork
    <3>1. ChainSound(blocks', mined') /\ Len(blocks') = Tip - 1 /\ Begins(blocks', blocks, Tip - 1)
      BY <1>1, <2>1, ForkSound
    <3>2. mined' = mined
      BY <2>1 DEF Fork
    <3>3. ASSUME k <= Tip - 1 PROVE Begins(blocks', blocks, k)
      BY <1>3, <3>1, <3>3 DEF Begins
    <3> QED BY <1>3, <1>6, <3>1, <3>2, <3>3
  <2>2. CASE Mined
    <3>1. Mined
      BY <2>2
    <3>2. ChainSound(blocks', mined') /\ Len(blocks') = Tip + 1 /\ Begins(blocks', blocks, Tip)
          /\ blocks'[Tip + 1].id = mined
      BY <1>1, <3>1, MineSound
    <3>3. mined' = mined + 1
      BY <3>1 DEF Mined, Mine
    <3>4. ASSUME OnChain' PROVE k <= Tip /\ Begins(blocks', blocks, k)
      <4>1. k <= Tip + 1 /\ \A n \in 1..k : blocks'[n].id = seen[n]
        BY <1>6, <3>2, <3>4
      <4>2. k # Tip + 1
        <5> SUFFICES ASSUME k = Tip + 1 PROVE FALSE
          OBVIOUS
        <5>1. Tip + 1 \in 1..k
          BY <1>3
        <5>2. seen[Tip + 1] = mined
          BY <3>2, <4>1, <5>1
        <5> QED BY <1>3, <1>5, <5>1, <5>2
      <4>3. k <= Tip
        BY <1>3, <4>1, <4>2
      <4> QED BY <1>3, <3>2, <4>3 DEF Begins
    <3> QED BY <1>3, <3>2, <3>3, <3>4
  <2> QED BY <2>1, <2>2
<1>8. SeenSound(seen', mined')
  <2>1. \A n \in 1..k : seen[n] < mined'
    BY <1>3, <1>5, <1>7
  <2> QED BY <1>1, <1>2, <1>4, <1>5, <2>1 DEF SeenSound
<1>9. ASSUME OnChain' PROVE TablesOf(tables', blocks', Progress')
  <2>1. k <= Tip /\ Begins(blocks', blocks, k)
    BY <1>7, <1>9
  <2>2. \A n \in 1..k : blocks[n].id = seen[n]
    <3>1. \A n \in 1..k : blocks'[n].id = seen[n]
      BY <1>6, <1>9
    <3> QED BY <2>1, <3>1 DEF Begins
  <2>3. OnChain
    BY <1>6, <2>1, <2>2
  <2>4. TablesOf(tables, blocks, k)
    BY <1>1, <1>4, <2>3 DEF Progress
  <2>5. TablesOf(tables, blocks', k)
    BY <2>1, <2>4, SamePrefix
  <2>6. Progress' = k
    BY <1>2, <1>4 DEF Progress
  <2> QED BY <1>2, <2>5, <2>6
<1> QED
  BY <1>7, <1>8, <1>9 DEF IndexSound

LEMMA ChainKeeps ==
  ASSUME IndexSound, ChainNext, UNCHANGED indexVars
  PROVE  IndexSound'
<1>1. Sound(Now)
  BY TipSound DEF IndexSound
<1>2. Mined \/ Fork
  BY <1>1, EachMined DEF ChainNext
<1> QED
  BY <1>2, BlockKeeps

LEMMA CommitKeeps ==
  ASSUME IndexSound, Commit
  PROVE  IndexSound'
<1>1. OnChain /\ Progress < Tip /\ tables' = HandleBlock(tables, Progress + 1)
      /\ seen' = Append(seen, blocks[Progress + 1].id) /\ blocks' = blocks /\ mined' = mined
  BY DEF Commit, chainVars
<1>2. ChainSound(blocks, mined) /\ SeenSound(seen, mined) /\ TablesOf(tables, blocks, Progress)
  BY <1>1 DEF IndexSound
<1>3. IsSeq(seen) /\ Tip \in Nat /\ Tip = Len(blocks)
  BY <1>2, TipSound DEF SeenSound, Tip
<1>4. PICK k \in Nat : k = Len(seen) /\ k = Progress
  BY <1>3, LengthIs DEF Progress
<1>5. PICK e : e = blocks[k + 1].id
  OBVIOUS
<1>6. k + 1 \in 1..Len(blocks) /\ k + 1 <= Tip
  BY <1>1, <1>3, <1>4
<1>7. BlockSound(blocks, mined, k + 1)
  BY <1>2, <1>6 DEF ChainSound
<1>8. e \in Nat /\ e < mined
  BY <1>5, <1>7 DEF BlockSound
<1>9. seen' = Append(seen, e)
  BY <1>1, <1>4, <1>5
<1>10. Longer(seen', seen, e)
  BY <1>3, <1>9, Appended
<1>11. IsSeq(seen') /\ Len(seen') = k + 1 /\ seen'[k + 1] = e /\ \A n \in 1..k : seen'[n] = seen[n]
  BY <1>4, <1>10 DEF Longer
<1>12. SeenSound(seen', mined')
  <2>1. \A n \in 1..k : seen[n] \in Nat /\ seen[n] < mined
    BY <1>2, <1>4 DEF SeenSound
  <2>2. \A n \in 1..(k + 1) : n = k + 1 \/ n \in 1..k
    OBVIOUS
  <2>3. \A n \in 1..(k + 1) : seen'[n] \in Nat /\ seen'[n] < mined
    BY <1>8, <1>11, <2>1, <2>2
  <2> QED BY <1>1, <1>11, <2>3 DEF SeenSound
<1>13. TablesOf(tables', blocks', Progress')
  <2>1. TablesOf(tables, blocks, k)
    BY <1>2, <1>4
  <2>2. TablesOf(HandleBlock(tables, k + 1), blocks, k + 1)
    BY <1>2, <1>6, <2>1, BlockTold
  <2>3. Progress' = k + 1
    BY <1>11 DEF Progress
  <2> QED BY <1>1, <1>4, <2>2, <2>3
<1> QED
  BY <1>1, <1>2, <1>12, <1>13 DEF IndexSound

\* The last log again changes nothing.
LEMMA RedeliverKeeps ==
  ASSUME IndexSound, Redeliver
  PROVE  IndexSound'
<1>1. /\ OnChain /\ Progress > 0 /\ blocks[Progress].logs # <<>>
      /\ tables' = Handle(tables, Last(blocks[Progress].logs), <<Progress, Len(blocks[Progress].logs)>>)
      /\ seen' = seen /\ blocks' = blocks /\ mined' = mined
  BY DEF Redeliver, chainVars
<1>2. ChainSound(blocks, mined) /\ SeenSound(seen, mined) /\ TablesOf(tables, blocks, Progress)
  BY <1>1 DEF IndexSound
<1>3. tables' = tables
  BY <1>1, <1>2 DEF TablesOf
<1>4. Progress' = Progress
  BY <1>1 DEF Progress
<1> QED
  BY <1>1, <1>2, <1>3, <1>4 DEF IndexSound

Common(n) ==
  /\ n <= Tip /\ \A i \in 1..n : blocks[i].id = seen[i]
  /\ n < Progress => n = Tip \/ blocks[n + 1].id # seen[n + 1]

LEMMA CommonExists ==
  ASSUME Tip \in Nat, Progress \in Nat, ~OnChain
  PROVE  \E n \in 0..Progress : Common(n)
<1> DEFINE Bad == {i \in 1..Progress : i > Tip \/ blocks[i].id # seen[i]}
<1>1. Bad \in SUBSET Nat
  OBVIOUS
<1>2. Bad # {}
  <2>1. CASE Progress > Tip
    <3>1. Progress \in Bad
      BY <2>1
    <3> QED BY <3>1
  <2>2. CASE ~(Progress > Tip)
    <3>1. PICK n \in 1..Progress : blocks[n].id # seen[n]
      BY <2>2 DEF OnChain
    <3>2. n \in Bad
      BY <3>1
    <3> QED BY <3>2
  <2> QED BY <2>1, <2>2
<1>3. PICK m \in Bad : \A q \in Bad : m <= q
  <2> HIDE DEF Bad
  <2> QED BY <1>1, <1>2, LeastNatural
<1>4. PICK n \in Nat : n = m - 1
  BY <1>3
<1>5. \A i \in 1..n : i <= Tip /\ blocks[i].id = seen[i]
  <2> SUFFICES ASSUME NEW i \in 1..n PROVE i <= Tip /\ blocks[i].id = seen[i]
    OBVIOUS
  <2>1. i \notin Bad /\ i \in 1..Progress
    BY <1>3, <1>4
  <2> QED BY <2>1
<1>6. n <= Tip
  <2>1. CASE n = 0
    BY <2>1
  <2>2. CASE n # 0
    <3>1. n \in 1..n
      BY <2>2
    <3> QED BY <1>5, <3>1
  <2> QED BY <2>1, <2>2
<1>7. n = Tip \/ blocks[n + 1].id # seen[n + 1]
  BY <1>3, <1>4, <1>6
<1>8. n \in 0..Progress
  BY <1>3, <1>4
<1> QED
  BY <1>5, <1>6, <1>7, <1>8 DEF Common

LEMMA RollbackKeeps ==
  ASSUME IndexSound, Rollback
  PROVE  IndexSound'
<1>1. ~OnChain /\ blocks' = blocks /\ mined' = mined
  BY DEF Rollback, chainVars
<1>2. ChainSound(blocks, mined) /\ SeenSound(seen, mined)
  BY DEF IndexSound
<1>3. IsSeq(seen) /\ Tip \in Nat /\ mined \in Nat
  BY <1>2, TipSound DEF SeenSound, ChainSound
<1>4. PICK p \in Nat : p = Len(seen) /\ p = Progress
  BY <1>3, LengthIs DEF Progress
<1>5. PICK n : n = CHOOSE k \in 0..Progress : Common(k)
  OBVIOUS
<1>6. n \in 0..Progress /\ Common(n)
  BY <1>1, <1>3, <1>4, <1>5, CommonExists
<1>7. tables' = TablesAt(n) /\ seen' = SubSeq(seen, 1, n)
  BY <1>5 DEF Rollback, Common
<1>8. n \in Nat /\ n <= p /\ n <= Tip
  BY <1>4, <1>6 DEF Common
<1>9. PICK S : seen \in Seq(S)
  BY <1>3 DEF IsSeq
<1>10. seen' \in Seq(S) /\ Len(seen') = n /\ \A i \in 1..n : seen'[i] = seen[i]
  <2>0. \A i \in 1..n : i \in 1..Len(seen)
    BY <1>4, <1>8
  <2>1. \A i \in 1..n : seen[i] \in S
    BY <1>9, <2>0
  <2> QED BY <1>4, <1>7, <1>8, <1>9, <2>1
<1>11. SeenSound(seen', mined')
  <2>1. \A i \in 1..n : seen[i] \in Nat /\ seen[i] < mined
    BY <1>2, <1>4, <1>8 DEF SeenSound
  <2> QED BY <1>1, <1>10, <2>1 DEF SeenSound, IsSeq
<1>12. TablesOf(tables', blocks', Progress')
  <2>1. TablesOf(TablesAt(n), blocks, n)
    BY <1>2, <1>8, ChainTold
  <2>2. Progress' = n
    BY <1>10 DEF Progress
  <2> QED BY <1>1, <1>7, <2>1, <2>2
<1> QED
  BY <1>1, <1>2, <1>11, <1>12 DEF IndexSound

-----------------------------------------------------------------------------
LEMMA SoundIsExact ==
  ASSUME IndexSound
  PROVE  IndexExact
<1> SUFFICES ASSUME OnChain
             PROVE  LET w == WorldAt(Progress) IN
  /\ ~tables.stuck /\ tables.history = Recorded
  /\ tables.account = [a \in w.opened |-> w.cash[a]]
  /\ \A a \in Accounts, s \in Series : Row(tables.position, <<a, s>>, 0) = w.bal[a][s]
  /\ \A h \in Holders, s \in Series : Row(tables.wrapped, <<h, s>>, 0) = w.held[h][s]
  /\ tables.series = [s \in w.listed |->
       [long |-> SumOver(Accounts, LAMBDA a : Max0(w.bal[a][s])),
        short |-> SumOver(Accounts, LAMBDA a : Max0(-w.bal[a][s])),
        supply |-> SumOver(Holders, LAMBDA h : w.held[h][s])]]
  /\ Row(tables.group, "group", FreshGroup) = w.group
  /\ \A a \in Accounts : LET row == Row(tables.auction, a, FreshAuction) IN
       row.active = w.auction[a].active /\ (row.active => row = w.auction[a])
  /\ Row(tables.fund, "fund", FreshFund) = w.fund
  /\ Row(tables.market, "market", "none") = w.market
  /\ \A o \in Orders : Row(tables.order, o, [size |-> 0, left |-> 0, status |-> "none"])
                         = [size |-> w.size[o], left |-> w.left[o], status |-> w.orders[o]]
  /\ Row(tables.product, "product", [enabled |-> FALSE, closeOnly |-> FALSE, seq |-> 0])
       = [enabled |-> w.enabled, closeOnly |-> w.closeOnly, seq |-> w.seq]
  /\ w.seq > 0 => tables.surface[w.seq] = w.nodes
  BY DEF IndexExact
<1>1. TablesOf(tables, blocks, Progress)
  BY DEF IndexSound
<1>2. PICK w : w = WorldAt(Progress)
  OBVIOUS
<1>3. Tells(tables, w)
  BY <1>1, <1>2 DEF TablesOf, WorldIn, WorldAt
<1>4. ~tables.stuck
  BY <1>3 DEF Tells
<1>5. tables.history = Recorded
  <2>1. \A x : x \in tables.history <=> \E n \in 1..Progress : x \in KeptOf(blocks, n)
    BY <1>1 DEF TablesOf
  <2>2. Recorded = UNION {KeptOf(blocks, n) : n \in 1..Progress}
    BY DEF Recorded, KeptOf
  <2>3. \A x : x \in Recorded <=> \E n \in 1..Progress : x \in KeptOf(blocks, n)
    BY <2>2
  <2> QED BY <2>1, <2>3
<1>6. tables.account = [a \in w.opened |-> w.cash[a]]
  BY <1>3 DEF Tells, AccountsTold
<1>7. \A a \in Accounts, s \in Series : Row(tables.position, <<a, s>>, 0) = w.bal[a][s]
  BY <1>3 DEF Tells, PositionsTold
<1>8. \A h \in Holders, s \in Series : Row(tables.wrapped, <<h, s>>, 0) = w.held[h][s]
  BY <1>3 DEF Tells, WrappersTold
<1>9. tables.series = [s \in w.listed |-> [long |-> LongOf(w.bal, s), short |-> ShortOf(w.bal, s), supply |-> SupplyOf(w.held, s)]]
  BY <1>3 DEF Tells, SeriesTold
<1>10. Row(tables.group, "group", FreshGroup) = w.group
  <2>1. GroupTold(tables.group, w.listed, w.group)
    BY <1>3 DEF Tells
  <2> QED BY <2>1 DEF GroupTold, Row, NoRows
<1>11. \A a \in Accounts : LET row == Row(tables.auction, a, FreshAuction) IN
         row.active = w.auction[a].active /\ (row.active => row = w.auction[a])
  BY <1>3 DEF Tells, AuctionsTold
<1>12. Row(tables.fund, "fund", FreshFund) = w.fund
  BY <1>3 DEF Tells, FundTold
<1>13. Row(tables.market, "market", "none") = w.market
  BY <1>3 DEF Tells, MarketTold
<1>14. \A o \in Orders : Row(tables.order, o, [size |-> 0, left |-> 0, status |-> "none"])
                         = [size |-> w.size[o], left |-> w.left[o], status |-> w.orders[o]]
  BY <1>3 DEF Tells, OrdersTold
<1>15. Row(tables.product, "product", [enabled |-> FALSE, closeOnly |-> FALSE, seq |-> 0])
       = [enabled |-> w.enabled, closeOnly |-> w.closeOnly, seq |-> w.seq]
  <2>1. ProductTold(tables.product, w.approved, w.enabled, w.closeOnly, w.seq)
    BY <1>3 DEF Tells
  <2> QED BY <2>1 DEF ProductTold, Row, NoRows
<1>16. w.seq > 0 => tables.surface[w.seq] = w.nodes
  BY <1>3 DEF Tells, SurfaceTold
<1> QED
  BY <1>2, <1>4, <1>5, <1>6, <1>7, <1>8, <1>9, <1>10, <1>11, <1>12, <1>13, <1>14, <1>15, <1>16
     DEF LongOf, ShortOf, SupplyOf

LEMMA IndexNextKeeps ==
  ASSUME IndexSound, [IndexNext]_<<chainVars, indexVars>>
  PROVE  IndexSound'
<1>1. CASE ChainNext /\ UNCHANGED indexVars
  BY <1>1, ChainKeeps
<1>2. CASE Indexing
  BY <1>2, CommitKeeps, RedeliverKeeps, RollbackKeeps DEF Indexing
<1>3. CASE UNCHANGED <<chainVars, indexVars>>
  <2>1. blocks' = blocks /\ mined' = mined /\ tables' = tables /\ seen' = seen
    BY <1>3 DEF chainVars, indexVars
  <2>2. Progress' = Progress /\ (OnChain' <=> OnChain)
    BY <2>1 DEF Progress, OnChain, Tip
  <2> QED BY <2>1, <2>2 DEF IndexSound
<1> QED
  BY <1>1, <1>2, <1>3 DEF IndexNext

\* THEOREM.  Whatever the transactions, the dropped blocks and the repeated logs, the
\* tables are the contracts' state after the last block processed.
THEOREM IndexStaysExact == IndexSpec => []IndexExact
<1>1. IndexSpec => []IndexSound
  BY IndexInitSound, IndexNextKeeps, PTL DEF IndexSpec
<1> QED
  BY <1>1, SoundIsExact, PTL

=============================================================================
