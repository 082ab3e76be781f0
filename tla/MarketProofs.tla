---------------------------- MODULE MarketProofs ----------------------------
(***************************************************************************)
(* Prices and surfaces come from honest majorities, for any exchanges,     *)
(* signers, publishers and products.                                       *)
(*                                                                         *)
(* 1. Medians: the i-th smallest of finitely many naturals exists, and a   *)
(*    median lies between any bounds of more than half of what it is taken *)
(*    of.                                                                  *)
(* 2. The price node signs near the market (SignedNearMarket), however its *)
(*    requests overlap.                                                    *)
(* 3. The spot prices on chain are quotients of legs between honest prices *)
(*    (SpotFromHonestLegs), whatever answers a package is put together     *)
(*    from.                                                                *)
(* 4. The surfaces on chain are clean, and what services serve applies     *)
(*    (SurfacesClean).                                                     *)
(***************************************************************************)
EXTENDS SpotPrices, SurfaceReports, FiniteSetTheorems, WellFoundedInduction, TLAPS

-----------------------------------------------------------------------------
(* 1. Medians                                                              *)

LEMMA LeastNatural ==
  ASSUME NEW S \in SUBSET Nat, S # {}
  PROVE  \E m \in S : \A q \in S : m <= q
<1>1. PICK m \in S : \A q \in S : ~(<<q, m>> \in OpToRel(<, Nat))
  BY NatLessThanWellFounded, WFMin
<1>2. OpToRel(<, Nat) = {ss \in Nat \X Nat : ss[1] < ss[2]}
  BY DEF OpToRel
<1>3. \A x, y \in Nat : x < y => <<x, y>> \in OpToRel(<, Nat)
  BY <1>2
<1>4. \A q \in S : ~(q < m)
  BY <1>1, <1>3
<1> QED
  BY <1>4

\* What answered at most / less than a price.
UpTo(quotes, p) == {e \in DOMAIN quotes : quotes[e] <= p}
Under(quotes, p) == {e \in DOMAIN quotes : quotes[e] < p}

\* Finitely many answers have a greatest one: the one at most as many exceed.
LEMMA Greatest ==
  ASSUME NEW D, IsFiniteSet(D), NEW q \in [D -> Nat], NEW T \in SUBSET D, T # {}
  PROVE  \E t \in T : \A d \in T : q[d] <= q[t]
<1> DEFINE Above(t) == {d \in T : q[d] > q[t]}
           N == {Cardinality(Above(t)) : t \in T}
<1>1. \A t \in T : IsFiniteSet(Above(t)) /\ Cardinality(Above(t)) \in Nat
  <2> SUFFICES ASSUME NEW t \in T PROVE IsFiniteSet(Above(t)) /\ Cardinality(Above(t)) \in Nat
    OBVIOUS
  <2>1. Above(t) \in SUBSET D
    OBVIOUS
  <2>2. IsFiniteSet(Above(t))
    BY <2>1, FS_Subset
  <2> QED
    BY <2>2, FS_CardinalityType
<1>2. N \in SUBSET Nat /\ N # {}
  BY <1>1
<1>3. PICK n \in N : \A m \in N : n <= m
  BY <1>2, LeastNatural
<1>4. PICK t \in T : n = Cardinality(Above(t))
  BY <1>3
<1>5. ASSUME NEW d \in T, q[d] > q[t] PROVE FALSE
  <2>1. Above(d) \in SUBSET Above(t)
    BY <1>5
  <2>2. d \in Above(t) /\ d \notin Above(d)
    BY <1>5
  <2>3. Cardinality(Above(d)) <= n /\ (Cardinality(Above(t)) = Cardinality(Above(d)) => Above(t) = Above(d))
    BY <1>1, <1>4, <2>1, FS_Subset
  <2>4. n <= Cardinality(Above(d))
    BY <1>3
  <2>5. n \in Nat /\ Cardinality(Above(d)) \in Nat
    BY <1>1, <1>4
  <2>6. Cardinality(Above(d)) = n
    BY <2>3, <2>4, <2>5
  <2> QED
    BY <1>4, <2>2, <2>3, <2>6
<1>6. \A d \in T : q[d] \in Nat /\ q[t] \in Nat
  OBVIOUS
<1> QED
  BY <1>5, <1>6

\* The i-th smallest answer, as Nth chooses it.
LEMMA NthExists ==
  ASSUME NEW D, IsFiniteSet(D), NEW q \in [D -> Nat], NEW i \in 1..Cardinality(D)
  PROVE  \E p \in {q[e] : e \in D} :
           Cardinality(Under(q, p)) < i /\ Cardinality(UpTo(q, p)) >= i
<1> DEFINE A == {e \in D : Cardinality(UpTo(q, q[e])) >= i}
           Prices == {q[e] : e \in A}
<1>1. Cardinality(D) \in Nat /\ D # {}
  BY FS_CardinalityType, FS_EmptySet
<1>2. \A p : /\ UpTo(q, p) \in SUBSET D /\ IsFiniteSet(UpTo(q, p)) /\ Cardinality(UpTo(q, p)) \in Nat
             /\ Under(q, p) \in SUBSET D /\ IsFiniteSet(Under(q, p)) /\ Cardinality(Under(q, p)) \in Nat
  <2> SUFFICES ASSUME NEW p
               PROVE /\ UpTo(q, p) \in SUBSET D /\ IsFiniteSet(UpTo(q, p)) /\ Cardinality(UpTo(q, p)) \in Nat
                     /\ Under(q, p) \in SUBSET D /\ IsFiniteSet(Under(q, p)) /\ Cardinality(Under(q, p)) \in Nat
    OBVIOUS
  <2>1. UpTo(q, p) \in SUBSET D /\ Under(q, p) \in SUBSET D
    BY DEF UpTo, Under
  <2>2. IsFiniteSet(UpTo(q, p)) /\ IsFiniteSet(Under(q, p))
    BY <2>1, FS_Subset
  <2> QED
    BY <2>1, <2>2, FS_CardinalityType
<1>3. A # {}
  <2>1. PICK t \in D : \A d \in D : q[d] <= q[t]
    BY <1>1, Greatest
  <2>2. UpTo(q, q[t]) = D
    BY <2>1 DEF UpTo
  <2> QED
    BY <1>1, <2>2
<1>4. Prices \in SUBSET Nat /\ Prices # {}
  BY <1>3
<1>5. PICK p \in Prices : \A r \in Prices : p <= r
  BY <1>4, LeastNatural
<1>6. Cardinality(UpTo(q, p)) >= i /\ p \in {q[e] : e \in D}
  BY <1>5
<1>7. ASSUME Cardinality(Under(q, p)) >= i PROVE FALSE
  <2>1. Under(q, p) # {}
    BY <1>2, <1>7, FS_EmptySet
  <2>2. PICK b \in Under(q, p) : \A d \in Under(q, p) : q[d] <= q[b]
    BY <1>2, <2>1, Greatest
  <2>3. b \in D /\ q[b] < p
    BY <2>2 DEF Under
  <2>4. Under(q, p) \in SUBSET UpTo(q, q[b])
    BY <2>2 DEF Under, UpTo
  <2>5. Cardinality(Under(q, p)) <= Cardinality(UpTo(q, q[b]))
    BY <1>2, <2>4, FS_Subset
  <2>6. b \in A
    BY <1>2, <1>7, <2>3, <2>5
  <2>7. q[b] \in Prices /\ q[b] \in Nat /\ p \in Nat
    BY <1>4, <1>5, <2>3, <2>6
  <2> QED
    BY <1>5, <2>3, <2>7
<1>8. Cardinality(Under(q, p)) < i
  BY <1>2, <1>7
<1> QED
  BY <1>6, <1>8

LEMMA NthIs ==
  ASSUME NEW D, IsFiniteSet(D), NEW q \in [D -> Nat], NEW i \in 1..Cardinality(D)
  PROVE  /\ Nth(q, i) \in {q[e] : e \in D}
         /\ Cardinality(Under(q, Nth(q, i))) < i
         /\ Cardinality(UpTo(q, Nth(q, i))) >= i
<1>1. DOMAIN q = D
  OBVIOUS
<1>2. Nth(q, i) = CHOOSE p \in {q[e] : e \in D} :
                    Cardinality(Under(q, p)) < i /\ Cardinality(UpTo(q, p)) >= i
  BY <1>1 DEF Nth, Under, UpTo
<1> QED
  BY <1>2, NthExists

\* The ranks a median is taken of.
LEMMA MedianRanks ==
  ASSUME NEW D, IsFiniteSet(D), D # {}, NEW q \in [D -> Nat]
  PROVE  LET n == Cardinality(D) IN
         \/ /\ (n % 2) = 1 /\ Median(q) = Nth(q, (n + 1) \div 2)
            /\ (n + 1) \div 2 \in 1..n
         \/ /\ (n % 2) = 0 /\ Median(q) = (Nth(q, n \div 2) + Nth(q, n \div 2 + 1)) \div 2
            /\ n \div 2 \in 1..n /\ n \div 2 + 1 \in 1..n
<1> DEFINE n == Cardinality(D)
<1>1. n \in Nat /\ n # 0
  BY FS_CardinalityType, FS_EmptySet
<1>2. Median(q) = IF (n % 2) = 1 THEN Nth(q, (n + 1) \div 2)
                  ELSE (Nth(q, n \div 2) + Nth(q, n \div 2 + 1)) \div 2
  BY DEF Median
<1> HIDE DEF n
<1>3. CASE (n % 2) = 1
  <2>1. (n + 1) \div 2 \in 1..n
    BY <1>1
  <2> QED
    BY <1>2, <1>3, <2>1 DEF n
<1>4. CASE (n % 2) # 1
  <2>1. (n % 2) = 0
    BY <1>1, <1>4
  <2>2. n \div 2 \in 1..n /\ n \div 2 + 1 \in 1..n
    BY <1>1, <2>1
  <2> QED
    BY <1>2, <1>4, <2>1, <2>2 DEF n
<1> QED
  BY <1>3, <1>4

\* A median lies within any bounds of the answers.
LEMMA MedianWithin ==
  ASSUME NEW D, IsFiniteSet(D), D # {}, NEW q \in [D -> Nat], NEW lo \in Nat, NEW hi \in Nat,
         \A e \in D : lo <= q[e] /\ q[e] <= hi
  PROVE  Median(q) \in Nat /\ lo <= Median(q) /\ Median(q) <= hi
<1> DEFINE n == Cardinality(D)
<1>1. \A i \in 1..n : Nth(q, i) \in Nat /\ lo <= Nth(q, i) /\ Nth(q, i) <= hi
  <2> SUFFICES ASSUME NEW i \in 1..n
               PROVE  Nth(q, i) \in Nat /\ lo <= Nth(q, i) /\ Nth(q, i) <= hi
    OBVIOUS
  <2>1. PICK e \in D : Nth(q, i) = q[e]
    BY NthIs
  <2> QED
    BY <2>1
<1>2. \A x, y \in Nat : lo <= x /\ x <= hi /\ lo <= y /\ y <= hi =>
        (x + y) \div 2 \in Nat /\ lo <= (x + y) \div 2 /\ (x + y) \div 2 <= hi
  OBVIOUS
<1>3. \/ \E i \in 1..n : Median(q) = Nth(q, i)
      \/ \E i, j \in 1..n : Median(q) = (Nth(q, i) + Nth(q, j)) \div 2
  <2> HIDE DEF n
  <2> QED
    BY MedianRanks DEF n
<1> QED
  BY <1>1, <1>2, <1>3

\* Where more than half of the answers lie, the median lies.
LEMMA MajorityBounds ==
  ASSUME NEW D, IsFiniteSet(D), NEW q \in [D -> Nat], NEW lo \in Nat, NEW hi \in Nat, NEW R \in SUBSET D,
         \A e \in D \ R : lo <= q[e] /\ q[e] <= hi,
         2 * Cardinality(R) < Cardinality(D)
  PROVE  Median(q) \in Nat /\ lo <= Median(q) /\ Median(q) <= hi
<1> DEFINE n == Cardinality(D)
           r == Cardinality(R)
           m == Cardinality(D \ R)
<1>1. n \in Nat /\ r \in Nat /\ m \in Nat /\ n = r + m
  <2>1. IsFiniteSet(R) /\ IsFiniteSet(D \ R)
    BY FS_Subset
  <2>2. R \cup (D \ R) = D /\ R \cap (D \ R) = {}
    OBVIOUS
  <2>3. n = r + m - Cardinality({})
    BY <2>1, <2>2, FS_Union
  <2> QED
    BY <2>1, <2>3, FS_CardinalityType, FS_EmptySet
<1>2. D # {}
  BY <1>1, FS_EmptySet
<1>3. ASSUME NEW i \in 1..n, r < i, i <= m
      PROVE  Nth(q, i) \in Nat /\ lo <= Nth(q, i) /\ Nth(q, i) <= hi
  <2> DEFINE p == Nth(q, i)
  <2>1. p \in Nat /\ Cardinality(Under(q, p)) < i /\ Cardinality(UpTo(q, p)) >= i
    BY NthIs
  <2>2. IsFiniteSet(Under(q, p)) /\ IsFiniteSet(UpTo(q, p)) /\ IsFiniteSet(R)
    <3>1. Under(q, p) \in SUBSET D /\ UpTo(q, p) \in SUBSET D
      BY DEF Under, UpTo
    <3> QED
      BY <3>1, FS_Subset
  <2>3. Cardinality(Under(q, p)) \in Nat /\ Cardinality(UpTo(q, p)) \in Nat
    BY <2>2, FS_CardinalityType
  <2> HIDE DEF p
  <2>4. ASSUME p < lo PROVE FALSE
    <3>1. UpTo(q, p) \in SUBSET R
      BY <2>1, <2>4 DEF UpTo
    <3>2. Cardinality(UpTo(q, p)) <= r
      BY <2>2, <3>1, FS_Subset
    <3> QED
      BY <1>1, <1>3, <2>1, <2>3, <3>2
  <2>5. ASSUME hi < p PROVE FALSE
    <3>1. D \ R \in SUBSET Under(q, p)
      BY <2>1, <2>5 DEF Under
    <3>2. m <= Cardinality(Under(q, p))
      BY <2>2, <3>1, FS_Subset
    <3> QED
      BY <1>1, <1>3, <2>1, <2>3, <3>2
  <2> QED
    BY <2>1, <2>4, <2>5 DEF p
<1>4. \/ (n % 2) = 1 /\ Median(q) = Nth(q, (n + 1) \div 2) /\ (n + 1) \div 2 \in 1..n
      \/ /\ (n % 2) = 0 /\ Median(q) = (Nth(q, n \div 2) + Nth(q, n \div 2 + 1)) \div 2
         /\ n \div 2 \in 1..n /\ n \div 2 + 1 \in 1..n
  BY <1>2, MedianRanks
<1>5. 2 * r < n
  OBVIOUS
<1> HIDE DEF n, r, m
<1>6. CASE (n % 2) = 1 /\ Median(q) = Nth(q, (n + 1) \div 2) /\ (n + 1) \div 2 \in 1..n
  <2>1. r < (n + 1) \div 2 /\ (n + 1) \div 2 <= m
    BY <1>1, <1>5, <1>6
  <2> QED
    BY <1>3, <1>6, <2>1
<1>7. CASE /\ (n % 2) = 0 /\ Median(q) = (Nth(q, n \div 2) + Nth(q, n \div 2 + 1)) \div 2
           /\ n \div 2 \in 1..n /\ n \div 2 + 1 \in 1..n
  <2>1. r < n \div 2 /\ n \div 2 + 1 <= m /\ n \div 2 <= m /\ r < n \div 2 + 1
    BY <1>1, <1>5, <1>7
  <2>2. /\ Nth(q, n \div 2) \in Nat /\ lo <= Nth(q, n \div 2) /\ Nth(q, n \div 2) <= hi
        /\ Nth(q, n \div 2 + 1) \in Nat /\ lo <= Nth(q, n \div 2 + 1) /\ Nth(q, n \div 2 + 1) <= hi
    BY <1>3, <1>7, <2>1
  <2>3. \A x, y \in Nat : lo <= x /\ x <= hi /\ lo <= y /\ y <= hi =>
          (x + y) \div 2 \in Nat /\ lo <= (x + y) \div 2 /\ (x + y) \div 2 <= hi
    OBVIOUS
  <2> QED
    BY <1>7, <2>2, <2>3
<1> QED
  BY <1>4, <1>6, <1>7

-----------------------------------------------------------------------------
(* 2. The price node                                                       *)

LEMMA MedianNatural ==
  ASSUME NEW D, IsFiniteSet(D), D # {}, NEW q \in [D -> Nat]
  PROVE  Median(q) \in Nat
<1>1. PICK t \in D : \A d \in D : q[d] <= q[t]
  BY Greatest
<1>2. q[t] \in Nat /\ \A d \in D : 0 <= q[d] /\ q[d] <= q[t]
  BY <1>1
<1> QED
  BY <1>2, MedianWithin

LEMMA AgreeingFinite ==
  ASSUME NEW D, IsFiniteSet(D), NEW q \in [D -> Nat]
  PROVE  Agreeing(q) \in SUBSET D /\ IsFiniteSet(Agreeing(q)) /\ Cardinality(Agreeing(q)) \in Nat
<1>1. Agreeing(q) \in SUBSET D
  BY DEF Agreeing
<1> QED
  BY <1>1, FS_Subset, FS_CardinalityType

LEMMA AggregateNatural ==
  ASSUME NEW D, IsFiniteSet(D), NEW q \in [D -> Nat], NEW n \in Nat \ {0}
  PROVE  Aggregate(q, n) \in Nat
<1>1. CASE ~(DOMAIN q # {} /\ Agree(q, n))
  BY <1>1 DEF Aggregate
<1>2. CASE DOMAIN q # {} /\ Agree(q, n)
  <2>1. Agreeing(q) # {}
    BY <1>2, AgreeingFinite, FS_EmptySet DEF Agree
  <2>2. [e \in Agreeing(q) |-> q[e]] \in [Agreeing(q) -> Nat]
    BY AgreeingFinite
  <2>3. Median([e \in Agreeing(q) |-> q[e]]) \in Nat
    BY <2>1, <2>2, AgreeingFinite, MedianNatural
  <2> QED
    BY <1>2, <2>3 DEF Aggregate
<1> QED
  BY <1>1, <1>2

Venues == Direct \cup Tether

\* What the exchanges of an asset answer.
Answers(level, up, bad, rate) ==
  [e \in up |-> IF e \in DOMAIN bad THEN bad[e]
                ELSE IF e \in Tether THEN (level[e] * rate) \div Par ELSE level[e]]

Wrong == UNION {[B -> WrongAnswers] : B \in {B \in SUBSET Venues : Cardinality(B) <= FaultyLimit}}
Rates == {r \in StableRates \cup {Par} : OnPeg(r)}

\* The prices of an asset that was seen at some levels.
SeenAt(seen) ==
  {[seen |-> seen, price |-> Aggregate(Answers(level, up, bad, rate), MinSources)] :
     up \in SUBSET Venues, bad \in Wrong, level \in [Venues -> seen], rate \in Rates}

LEMMA AssetPriceIs ==
  ASSUME NEW a \in AssetPrices
  PROVE  /\ a.seen \in SUBSET Levels
         /\ \E up \in SUBSET Venues, bad \in Wrong, rate \in Rates, level \in [Venues -> a.seen] :
              a.price = Aggregate(Answers(level, up, bad, rate), MinSources)
<1>1. AssetPrices = UNION {SeenAt(seen) : seen \in (SUBSET Levels) \ {{}}}
  BY DEF AssetPrices, SeenAt, Answers, Wrong, Rates, Venues
<1>2. PICK seen \in (SUBSET Levels) \ {{}} : a \in SeenAt(seen)
  BY <1>1
<1>3. PICK up \in SUBSET Venues, bad \in Wrong, level \in [Venues -> seen], rate \in Rates :
        a = [seen |-> seen, price |-> Aggregate(Answers(level, up, bad, rate), MinSources)]
  BY <1>2 DEF SeenAt
<1> QED
  BY <1>3

LEMMA AnswersType ==
  ASSUME NEW level \in [Venues -> Levels], NEW up \in SUBSET Venues, NEW bad \in Wrong,
         NEW rate \in Rates
  PROVE  IsFiniteSet(up) /\ Answers(level, up, bad, rate) \in [up -> Nat]
<1>1. IsFiniteSet(up)
  BY PriceNodeAssumption, FS_Subset DEF Venues
<1>2. \A e \in DOMAIN bad : bad[e] \in Nat
  <2>1. PICK B \in SUBSET Venues : bad \in [B -> WrongAnswers]
    BY DEF Wrong
  <2>2. WrongAnswers \subseteq Nat
    BY PriceNodeAssumption
  <2> QED
    BY <2>1, <2>2
<1>3. rate \in Nat /\ \A e \in up : level[e] \in Nat
  <2>1. Levels \subseteq Nat /\ StableRates \subseteq Nat
    BY PriceNodeAssumption
  <2>2. rate \in Nat
    BY <2>1 DEF Rates, Par
  <2>3. \A e \in up : e \in Venues
    OBVIOUS
  <2>4. \A e \in up : level[e] \in Levels
    BY <2>3
  <2> QED
    BY <2>1, <2>2, <2>4
<1>4. \A e \in up : (level[e] * rate) \div Par \in Nat
  <2>1. \A x, y \in Nat : (x * y) \div 100 \in Nat
    <3>1. \A x, y \in Nat : x * y \in Nat
      OBVIOUS
    <3>2. \A z \in Nat : z \div 100 \in Nat
      OBVIOUS
    <3> QED
      BY <3>1, <3>2
  <2> QED
    BY <1>3, <2>1 DEF Par
<1> QED
  BY <1>1, <1>2, <1>3, <1>4 DEF Answers

LEMMA PricesNatural ==
  ASSUME NEW f \in Feeds, NEW from, NEW to
  PROVE  PricesOf(f, from, to) \subseteq Nat
<1>1. CASE f = Usdc
  <2> SUFFICES ASSUME NEW p \in UsdcPrices PROVE p \in Nat
    BY <1>1 DEF PricesOf
  <2>0. PICK up \in SUBSET Direct : \E quotes \in [up -> StableRates] : p = Aggregate(quotes, 1)
    BY DEF UsdcPrices
  <2>1. PICK quotes \in [up -> StableRates] : p = Aggregate(quotes, 1)
    BY <2>0
  <2>2. quotes \in [up -> Nat]
    BY PriceNodeAssumption
  <2>3. IsFiniteSet(up)
    <3>1. up \in SUBSET (Direct \cup Tether)
      OBVIOUS
    <3> QED
      BY <3>1, PriceNodeAssumption, FS_Subset
  <2> QED
    BY <2>1, <2>2, <2>3, AggregateNatural
<1>2. CASE f # Usdc
  <2> SUFFICES ASSUME NEW a \in AssetPrices PROVE a.price \in Nat
    BY <1>2 DEF PricesOf
  <2>1. PICK up \in SUBSET Venues, bad \in Wrong, rate \in Rates, level \in [Venues -> a.seen] :
          a.price = Aggregate(Answers(level, up, bad, rate), MinSources)
    BY AssetPriceIs
  <2>2. level \in [Venues -> Levels]
    BY AssetPriceIs
  <2>3. MinSources \in Nat \ {0}
    BY PriceNodeAssumption
  <2> QED
    BY <2>1, <2>2, <2>3, AnswersType, AggregateNatural
<1> QED
  BY <1>1, <1>2

\* Two prices within a share of the same one: m (1 - d) <= h and p <= m (1 + d)
\* give p (1 - d) <= h (1 + d).
LEMMA Cross ==
  ASSUME NEW p \in Nat, NEW h \in Nat, NEW m \in Nat, NEW u \in Nat, NEW w \in Nat,
         p * 10000 <= m * w, m * u <= h * 10000
  PROVE  p * u <= h * w
<1>1. \A x, y, z \in Nat : x <= y => x * z <= y * z
  OBVIOUS
<1>2. p * 10000 \in Nat /\ m * w \in Nat /\ m * u \in Nat /\ h * 10000 \in Nat
  OBVIOUS
<1>3. (p * 10000) * u <= (m * w) * u
  BY <1>1, <1>2
<1>4. (m * u) * w <= (h * 10000) * w
  BY <1>1, <1>2
<1>5. (m * w) * u = (m * u) * w
  OBVIOUS
<1>6. (p * 10000) * u = 10000 * (p * u) /\ (h * 10000) * w = 10000 * (h * w)
  OBVIOUS
<1>7. p * u \in Nat /\ h * w \in Nat /\ (m * u) * w \in Nat
  OBVIOUS
<1>8. 10000 * (p * u) <= 10000 * (h * w)
  BY <1>3, <1>4, <1>5, <1>6, <1>7
<1> QED
  BY <1>7, <1>8

\* Its products by name: pu stands for p (1 - d), hw for h (1 + d), and so on.
LEMMA NotFarAbove ==
  ASSUME NEW L \in Nat, NEW Ld \in Nat, NEW Lu \in Nat, NEW Lw \in Nat, NEW pu \in Nat, NEW hw \in Nat,
         Lu = 10000 * L - Ld, Lw = 10000 * L + Ld, pu <= hw, 100 * hw <= 102 * Lw
  PROVE  100 * pu - 100 * Lu <= 206 * Ld + 30000 * L
OBVIOUS

LEMMA NotFarBelow ==
  ASSUME NEW L \in Nat, NEW Ld \in Nat, NEW Lu \in Nat, NEW pu \in Nat, NEW pd \in Nat, NEW hu \in Nat,
         NEW u \in Nat, L >= 100, u <= 10000, Lu = 10000 * L - Ld, pd <= Ld,
         hu <= pu + 2 * pd, 98 * Lu <= 100 * hu + 99 * u
  PROVE  100 * Lu - 100 * pu <= 206 * Ld + 30000 * L
OBVIOUS

LEMMA Scaled ==
  ASSUME NEW x \in Nat, NEW y \in Nat, NEW z \in Nat, x <= y
  PROVE  x * z <= y * z
OBVIOUS

\* The arithmetic of SignedNearMarket: p was signed, h is what an honest exchange
\* answered, L the market, u and w stand for 1 - d and 1 + d.
LEMMA NearMarket ==
  ASSUME NEW p \in Nat, NEW h \in Nat, NEW L \in Nat, NEW d \in Nat, NEW u \in Nat, NEW w \in Nat,
         u = 10000 - d, w = 10000 + d, L >= 100,
         p * u <= h * w, h * u <= p * w,
         100 * h <= 102 * L, 98 * L <= 100 * h + 99
  PROVE  100 * Apart(p, L) * u <= (206 * d + 30000) * L
<1>1. p * u \in Nat /\ h * w \in Nat /\ h * u \in Nat /\ p * w \in Nat /\ L * u \in Nat /\ L * w \in Nat
      /\ L * d \in Nat /\ p * d \in Nat
  OBVIOUS
<1>2. L * u = 10000 * L - L * d /\ L * w = 10000 * L + L * d /\ p * w = p * u + 2 * (p * d)
  OBVIOUS
<1>3. (206 * d + 30000) * L = 206 * (L * d) + 30000 * L
  OBVIOUS
<1>4. CASE p > L
  <2>1. Apart(p, L) = p - L
    BY <1>4 DEF Apart
  <2>2. 100 * (p - L) * u = 100 * (p * u) - 100 * (L * u)
    OBVIOUS
  <2>3. 100 * h \in Nat /\ 102 * L \in Nat
    OBVIOUS
  <2>4. (100 * h) * w <= (102 * L) * w
    BY <2>3, Scaled
  <2>5. (100 * h) * w = 100 * (h * w) /\ (102 * L) * w = 102 * (L * w)
    OBVIOUS
  <2>6. 100 * (h * w) <= 102 * (L * w)
    BY <2>4, <2>5
  <2>7. 100 * (p * u) - 100 * (L * u) <= 206 * (L * d) + 30000 * L
    BY <1>1, <1>2, <2>6, NotFarAbove
  <2> QED
    BY <1>3, <2>1, <2>2, <2>7
<1>5. CASE ~(p > L)
  <2>1. Apart(p, L) = L - p
    BY <1>5 DEF Apart
  <2>2. 100 * (L - p) * u = 100 * (L * u) - 100 * (p * u)
    OBVIOUS
  <2>3. 98 * L \in Nat /\ 100 * h + 99 \in Nat
    OBVIOUS
  <2>4. (98 * L) * u <= (100 * h + 99) * u
    BY <2>3, Scaled
  <2>5. (98 * L) * u = 98 * (L * u) /\ (100 * h + 99) * u = 100 * (h * u) + 99 * u
    OBVIOUS
  <2>6. 98 * (L * u) <= 100 * (h * u) + 99 * u
    BY <2>4, <2>5
  <2>7. p * d <= L * d
    BY <1>5, Scaled
  <2>8. h * u <= p * u + 2 * (p * d)
    BY <1>2
  <2>9. u <= 10000
    OBVIOUS
  <2>10. 100 * (L * u) - 100 * (p * u) <= 206 * (L * d) + 30000 * L
    BY <1>1, <1>2, <2>6, <2>7, <2>8, <2>9, NotFarBelow
  <2> QED
    BY <1>3, <2>1, <2>2, <2>10
<1> QED
  BY <1>4, <1>5

\* An honest exchange among those that agree, and the answers it agrees with.
LEMMA HonestAgrees ==
  ASSUME NEW level \in [Venues -> Levels], NEW up \in SUBSET Venues, NEW bad \in Wrong,
         NEW rate \in Rates,
         Agree(Answers(level, up, bad, rate), MinSources)
  PROVE  \E e \in Agreeing(Answers(level, up, bad, rate)) :
           LET h == Answers(level, up, bad, rate)[e] IN
           /\ e \in Venues /\ h \in Nat
           /\ 100 * h <= 102 * level[e] /\ 98 * level[e] <= 100 * h + 99
<1> DEFINE q == Answers(level, up, bad, rate)
<1>1. q \in [up -> Nat] /\ IsFiniteSet(up)
  BY AnswersType
<1>2. PICK B \in SUBSET Venues : Cardinality(B) <= FaultyLimit /\ bad \in [B -> WrongAnswers]
  BY DEF Wrong
<1>3. IsFiniteSet(B) /\ Cardinality(B) \in Nat
  BY PriceNodeAssumption, FS_Subset, FS_CardinalityType DEF Venues
<1>4. Agreeing(q) \in SUBSET up /\ Cardinality(Agreeing(q)) \in Nat /\ Cardinality(Agreeing(q)) >= MinSources
  BY <1>1, AgreeingFinite DEF Agree
<1>5. PICK e \in Agreeing(q) : e \notin B
  <2>1. SUFFICES ASSUME Agreeing(q) \in SUBSET B PROVE FALSE
    OBVIOUS
  <2>2. Cardinality(Agreeing(q)) <= Cardinality(B)
    BY <1>3, <2>1, FS_Subset
  <2> QED
    BY <1>2, <1>3, <1>4, <2>2, PriceNodeAssumption
<1>6. e \in up /\ e \notin DOMAIN bad /\ e \in Venues
  BY <1>2, <1>4, <1>5
<1>7. q[e] = IF e \in Tether THEN (level[e] * rate) \div Par ELSE level[e]
  BY <1>6 DEF Answers
<1>8. PICK lv \in Nat : lv = level[e]
  BY <1>6, PriceNodeAssumption
<1>9. rate \in Nat /\ 98 <= rate /\ rate <= 102
  BY PriceNodeAssumption DEF OnPeg, Rates, Par
<1>10. \A z \in Nat : 100 * (z \div 100) <= z /\ z <= 100 * (z \div 100) + 99 /\ z \div 100 \in Nat
  OBVIOUS
<1>11. lv * rate \in Nat /\ 98 * lv <= lv * rate /\ lv * rate <= 102 * lv
  <2>1. 98 * lv <= rate * lv /\ rate * lv <= 102 * lv
    BY <1>9, Scaled
  <2>2. rate * lv = lv * rate
    BY <1>9
  <2> QED
    BY <1>9, <2>1, <2>2
<1>12. q[e] \in Nat
  BY <1>1, <1>6
<1> HIDE DEF q
<1>13. CASE e \in Tether
  <2> DEFINE z == lv * rate
  <2>1. q[e] = z \div 100
    BY <1>7, <1>8, <1>13 DEF Par
  <2>2. z \in Nat /\ 98 * lv <= z /\ z <= 102 * lv
    BY <1>11
  <2> HIDE DEF z
  <2>3. 100 * q[e] <= z /\ z <= 100 * q[e] + 99
    BY <1>10, <2>1, <2>2
  <2>4. 100 * q[e] <= 102 * lv /\ 98 * lv <= 100 * q[e] + 99
    BY <1>12, <2>2, <2>3
  <2> QED
    BY <1>5, <1>6, <1>8, <1>12, <2>4 DEF q
<1>14. CASE e \notin Tether
  <2>1. q[e] = lv
    BY <1>7, <1>8, <1>14
  <2>2. 100 * q[e] <= 102 * lv /\ 98 * lv <= 100 * q[e] + 99
    BY <2>1
  <2> QED
    BY <1>5, <1>6, <1>8, <1>12, <2>2 DEF q
<1> QED
  BY <1>13, <1>14

\* Those that agree are within the deviation of the median of all, and so is the
\* median of them.
LEMMA AggregateNearMedian ==
  ASSUME NEW D, IsFiniteSet(D), NEW q \in [D -> Nat], NEW n \in Nat \ {0},
         Aggregate(q, n) # 0,
         NEW u \in Nat, NEW w \in Nat, u = Bps - MaxDeviationBps, w = Bps + MaxDeviationBps
  PROVE  LET P == Aggregate(q, n)
             m == Median(q)
         IN /\ m \in Nat /\ P \in Nat
            /\ P * 10000 <= m * w /\ m * u <= P * 10000
            /\ \A e \in Agreeing(q) : q[e] * 10000 <= m * w /\ m * u <= q[e] * 10000
<1> DEFINE P == Aggregate(q, n)
           m == Median(q)
           A == Agreeing(q)
           r == [e \in A |-> q[e]]
<1>1. P \in Nat
  BY AggregateNatural
<1>2. D # {} /\ Agree(q, n) /\ P = Median(r)
  BY DEF Aggregate
<1>3. m \in Nat
  BY <1>2, MedianNatural
<1>4. A \in SUBSET D /\ IsFiniteSet(A) /\ A # {}
  BY <1>2, AgreeingFinite, FS_EmptySet DEF Agree
<1>5. MaxDeviationBps \in Nat /\ u = 10000 - MaxDeviationBps /\ w = 10000 + MaxDeviationBps
  BY PriceNodeAssumption DEF Bps
<1>6. ASSUME NEW e \in A PROVE q[e] \in Nat /\ q[e] * 10000 <= m * w /\ m * u <= q[e] * 10000
  <2>1. q[e] \in Nat
    BY <1>4
  <2>2. Apart(q[e], m) * 10000 <= MaxDeviationBps * m
    BY DEF Agreeing, Bps
  <2> DEFINE x == q[e]
             dm == MaxDeviationBps * m
  <2>3. dm \in Nat /\ m * w = m * 10000 + dm /\ m * u = m * 10000 - dm
    BY <1>3, <1>5
  <2>4. (IF x > m THEN x - m ELSE m - x) * 10000 <= dm
    BY <2>2 DEF Apart
  <2> HIDE DEF x, dm, m
  <2>5. x \in Nat
    BY <2>1 DEF x
  <2>6. x * 10000 <= m * 10000 + dm /\ m * 10000 - dm <= x * 10000
    BY <1>3, <2>3, <2>4, <2>5
  <2> QED
    BY <2>3, <2>5, <2>6 DEF x
<1>7. PICK t \in A : \A d \in A : q[d] <= q[t]
  BY <1>4, Greatest
<1>8. PICK lo \in {q[e] : e \in A} : \A y \in {q[e] : e \in A} : lo <= y
  <2>1. {q[e] : e \in A} \in SUBSET Nat /\ {q[e] : e \in A} # {}
    BY <1>4
  <2> QED
    BY <2>1, LeastNatural
<1>9. PICK b \in A : lo = q[b]
  BY <1>8
<1>10. lo \in Nat /\ q[t] \in Nat /\ \A e \in A : lo <= r[e] /\ r[e] <= q[t]
  BY <1>4, <1>7, <1>8, <1>9
<1>11. r \in [A -> Nat]
  BY <1>4
<1> HIDE DEF r, A, m
<1>12. lo <= P /\ P <= q[t]
  BY <1>2, <1>4, <1>10, <1>11, MedianWithin
<1>13. P * 10000 <= m * w
  <2>1. m * w \in Int
    BY <1>3
  <2> QED
    BY <1>1, <1>6, <1>10, <1>12, <2>1
<1>14. m * u <= P * 10000
  <2>1. m * u \in Int
    BY <1>3
  <2>2. m * u <= lo * 10000
    BY <1>6, <1>9
  <2> QED
    BY <1>1, <1>10, <1>12, <2>1, <2>2
<1> QED
  BY <1>1, <1>3, <1>6, <1>13, <1>14 DEF m, A

LEMMA AssetPriceNear ==
  ASSUME NEW a \in AssetPrices, a.price # 0
  PROVE  \E level \in a.seen : Near(a.price, level)
<1>1. PICK up \in SUBSET Venues, bad \in Wrong, rate \in Rates, levels \in [Venues -> a.seen] :
        a.price = Aggregate(Answers(levels, up, bad, rate), MinSources)
  BY AssetPriceIs
<1>2. levels \in [Venues -> Levels]
  BY AssetPriceIs
<1> DEFINE q == Answers(levels, up, bad, rate)
           u == Bps - MaxDeviationBps
           w == Bps + MaxDeviationBps
           P == a.price
<1>3. /\ u \in Nat /\ w \in Nat /\ MaxDeviationBps \in Nat
      /\ u = 10000 - MaxDeviationBps /\ w = 10000 + MaxDeviationBps
      /\ MinSources \in Nat \ {0}
  BY PriceNodeAssumption DEF Bps
<1>4. q \in [up -> Nat] /\ IsFiniteSet(up)
  BY <1>2, AnswersType
<1>5. Agree(q, MinSources)
  BY <1>1 DEF Aggregate
<1>6. PICK e \in Agreeing(q) : /\ e \in Venues /\ q[e] \in Nat
                               /\ 100 * q[e] <= 102 * levels[e] /\ 98 * levels[e] <= 100 * q[e] + 99
  BY <1>2, <1>5, HonestAgrees
<1> DEFINE m == Median(q)
           h == q[e]
<1>7. /\ m \in Nat /\ P \in Nat
      /\ P * 10000 <= m * w /\ m * u <= P * 10000
      /\ h * 10000 <= m * w /\ m * u <= h * 10000
  <2> HIDE DEF q, u, w
  <2>1. u = Bps - MaxDeviationBps /\ w = Bps + MaxDeviationBps
    BY DEF u, w
  <2>2. P = Aggregate(q, MinSources)
    BY <1>1 DEF q
  <2> QED
    BY <1>3, <1>4, <2>1, <2>2, AggregateNearMedian
<1>8. PICK level \in a.seen : level = levels[e]
  BY <1>6
<1>9. level \in Nat /\ level >= 100
  BY AssetPriceIs, PriceNodeAssumption
<1>10. h \in Nat /\ 100 * h <= 102 * level /\ 98 * level <= 100 * h + 99
  BY <1>6, <1>8
<1> HIDE DEF q, u, w, m, h, P
<1>11. P * u <= h * w
  <2>1. P \in Nat /\ h \in Nat /\ m \in Nat /\ u \in Nat /\ w \in Nat
    BY <1>3, <1>7, <1>10
  <2>2. P * 10000 <= m * w /\ m * u <= h * 10000
    BY <1>7
  <2> QED
    BY <2>1, <2>2, Cross
<1>12. h * u <= P * w
  BY <1>3, <1>7, <1>10, Cross
<1>13. 100 * Apart(P, level) * u <= (206 * MaxDeviationBps + 30000) * level
  BY <1>3, <1>7, <1>9, <1>10, <1>11, <1>12, NearMarket
<1> QED
  BY <1>13 DEF u, P, Near

-----------------------------------------------------------------------------
\* What the node signed: prices near what the market was when they were asked for,
\* which is not long before the second they carry.
SignedNear(f, t, price) ==
  \E s \in Times : s <= t /\ t - s <= AnswerTime /\ Near(price, market[f][s])

NodeInv ==
  /\ now \in Times
  /\ market \in [Assets -> [Times -> Levels]]
  /\ signed \in [Feeds -> [Times -> SUBSET (Nat \ {0})]]
  /\ \A f \in Assets, t \in Times : \A price \in signed[f][t] : SignedNear(f, t, price)

\* How the node and the clock move: what is signed stays signed.
NodeMoves ==
  /\ market' = market /\ now' \in Times /\ now <= now'
  /\ \A f \in Feeds, t \in Times : signed[f][t] \subseteq signed'[f][t]

LEMMA NodeStays ==
  ASSUME NodeInv, UNCHANGED <<now, market, signed>>
  PROVE  NodeInv' /\ NodeMoves
<1>1. now \in Nat
  BY PriceNodeAssumption DEF NodeInv, Times
<1>2. NodeMoves
  BY <1>1 DEF NodeInv, NodeMoves
<1>3. NodeInv'
  BY DEF NodeInv, SignedNear
<1> QED
  BY <1>2, <1>3

LEMMA TickKeeps ==
  ASSUME NodeInv, Tick, UNCHANGED nodeVars
  PROVE  NodeInv' /\ NodeMoves
<1>1. now \in Nat /\ now' = now + 1 /\ now' \in Times /\ now' > now
  BY PriceNodeAssumption DEF NodeInv, Tick, Times
<1>2. market' = market /\ signed' = signed
  BY DEF nodeVars
<1> QED
  BY <1>1, <1>2 DEF NodeInv, NodeMoves, SignedNear

\* Each exchange answers while the request waits, and that is not long.
LEMMA PriceSigned ==
  ASSUME NodeInv, NEW f \in Assets, NEW t \in Times, now - t <= AnswerTime,
         NEW price \in PricesOf(f, t, now), price # 0
  PROVE  SignedNear(f, now, price)
<1>1. f # Usdc
  BY PriceNodeAssumption
<1>2. PICK a \in AssetPrices : a.seen = {market[f][s] : s \in t..now} /\ a.price = price
  BY <1>1 DEF PricesOf
<1>3. PICK level \in a.seen : Near(price, level)
  BY <1>2, AssetPriceNear
<1>4. PICK s \in t..now : level = market[f][s]
  BY <1>2, <1>3
<1>5. s \in Times /\ s <= now /\ now - s <= AnswerTime
  BY <1>4, PriceNodeAssumption DEF NodeInv, Times
<1> QED
  BY <1>3, <1>4, <1>5 DEF SignedNear

LEMMA SignKeeps ==
  ASSUME NodeInv, NEW i, NEW t \in Times, Sign(i, t)
  PROVE  NodeInv' /\ NodeMoves
<1>1. PICK priced \in {S \cup {Usdc} : S \in (SUBSET Assets) \ {{}}} :
        \E price \in [priced -> UNION {PricesOf(f, t, now) : f \in priced}] :
          /\ \A f \in priced : price[f] # 0 /\ price[f] \in PricesOf(f, t, now)
          /\ signed' = [f \in Feeds |->
               IF f \in priced THEN [signed[f] EXCEPT ![now] = @ \cup {price[f]}] ELSE signed[f]]
  BY DEF Sign
<1>2. PICK price :
          /\ \A f \in priced : price[f] # 0 /\ price[f] \in PricesOf(f, t, now)
          /\ signed' = [f \in Feeds |->
               IF f \in priced THEN [signed[f] EXCEPT ![now] = @ \cup {price[f]}] ELSE signed[f]]
  BY <1>1
<1>3. now' = now /\ market' = market /\ now \in Times /\ now \in Nat /\ now - t <= AnswerTime
  BY PriceNodeAssumption DEF Sign, NodeInv, Times
<1>4. priced \subseteq Feeds
  BY DEF Feeds
<1>5. \A f \in priced : price[f] \in Nat \ {0}
  BY <1>2, <1>4, PricesNatural
<1>6. \A f \in Feeds, x \in Times :
        signed'[f][x] = IF f \in priced /\ x = now THEN signed[f][x] \cup {price[f]} ELSE signed[f][x]
  BY <1>2, <1>3 DEF NodeInv
<1>7. signed' \in [Feeds -> [Times -> SUBSET (Nat \ {0})]]
  <2>1. \A f \in Feeds : (IF f \in priced THEN [signed[f] EXCEPT ![now] = @ \cup {price[f]}] ELSE signed[f])
                           \in [Times -> SUBSET (Nat \ {0})]
    BY <1>3, <1>5 DEF NodeInv
  <2> QED
    BY <1>2, <2>1
<1>8. ASSUME NEW f \in Assets, NEW x \in Times, NEW p \in signed'[f][x]
      PROVE  SignedNear(f, x, p)'
  <2>1. f \in Feeds
    BY DEF Feeds
  <2>2. SignedNear(f, x, p)
    <3>1. CASE p \in signed[f][x]
      BY <3>1 DEF NodeInv
    <3>2. CASE p \notin signed[f][x]
      <4>1. f \in priced /\ x = now /\ p = price[f]
        BY <1>6, <1>8, <2>1, <3>2
      <4>2. p # 0 /\ p \in PricesOf(f, t, now)
        BY <1>2, <4>1
      <4> QED
        BY <1>3, <4>1, <4>2, PriceSigned
    <3> QED
      BY <3>1, <3>2
  <2> QED
    BY <1>3, <2>2 DEF SignedNear
<1>9. NodeInv'
  BY <1>3, <1>7, <1>8 DEF NodeInv
<1>10. NodeMoves
  <2>1. \A f \in Feeds, x \in Times : signed[f][x] \subseteq signed'[f][x]
    BY <1>6
  <2>2. now' \in Times /\ now <= now'
    BY <1>3
  <2> QED
    BY <1>3, <2>1, <2>2 DEF NodeMoves
<1> QED
  BY <1>9, <1>10

LEMMA NodeKeeps ==
  ASSUME NodeInv, NodeStep
  PROVE  NodeInv' /\ NodeMoves
<1>1. PICK i \in Isolates : Ask(i) \/ \E t \in Times : Sign(i, t) \/ Refuse(i, t)
  BY DEF NodeStep
<1>2. CASE \E t \in Times : Sign(i, t)
  BY <1>2, SignKeeps
<1>3. CASE Ask(i) \/ \E t \in Times : Refuse(i, t)
  BY <1>3, NodeStays DEF Ask, Refuse
<1> QED
  BY <1>1, <1>2, <1>3

-----------------------------------------------------------------------------
(* 3. Spot prices on chain                                                 *)

\* Between two prices that a feed was worth at t.
Between(f, t, x) == \E lo, hi \in Worth(f, t) : lo <= x /\ x <= hi

\* A stored price of a feed lies between what the feed was worth at its time.
FeedHonest(f, entry) ==
  entry.price # 0 => /\ entry.time \in 1..now /\ entry.price \in Nat
                     /\ Between(f, entry.time, entry.price)

\* A stored price of a product is a quotient of such prices, as SpotFromHonestLegs
\* says, of times that have been.
Spans(p, s, t, lo, hi) ==
  /\ \A f \in Legs(p) : t[f] >= s.time /\ lo[f] \in Worth(f, t[f]) /\ hi[f] \in Worth(f, t[f])
  /\ \E f \in Legs(p) : t[f] = s.time
  /\ Composed(p, Crossed(p, lo, hi)) <= s.price
  /\ s.price <= Composed(p, Crossed(p, hi, lo))

FromLegs(p, s) ==
  \E t \in [Legs(p) -> 1..now], lo, hi \in [Legs(p) -> Nat] : Spans(p, s, t, lo, hi)

StoresHonest ==
  /\ authorized \in SignerSets
  /\ \A f \in Feeds : FeedHonest(f, redstone[f]) /\ FeedHonest(f, pyth[f])

SpotsHonest == \A p \in Products : spot[p].price # 0 => FromLegs(p, spot[p])

PInv == NodeInv /\ StoresHonest /\ SpotsHonest

LEMMA LegsAreFeeds ==
  ASSUME NEW p \in Products
  PROVE  /\ Legs(p) \subseteq Feeds /\ Base[p] \in Legs(p)
         /\ QuoteFeed[p] # NoFeed => QuoteFeed[p] \in Legs(p)
         /\ Legs(p) = {Base[p]} \/ Legs(p) = {Base[p], QuoteFeed[p]}
BY SignerAssumption DEF Legs

LEMMA WorthNatural ==
  ASSUME NodeInv, NEW f \in Feeds, NEW t \in Times
  PROVE  Worth(f, t) \subseteq Nat \ {0}
<1>1. f # Usdc => f \in Assets
  BY DEF Feeds
<1>2. f # Usdc => market[f][t] \in Nat \ {0}
  <2>1. f # Usdc => market[f][t] \in Levels
    BY <1>1 DEF NodeInv
  <2>2. \A level \in Levels : level \in Nat \ {0}
    BY PriceNodeAssumption
  <2> QED
    BY <2>1, <2>2
<1>3. signed[f][t] \subseteq Nat \ {0}
  BY DEF NodeInv
<1> QED
  BY <1>2, <1>3 DEF Worth, Par

\* What a feed was worth stays so.
LEMMA WorthStays ==
  ASSUME NodeInv, NodeMoves, NEW f \in Feeds, NEW t \in 1..now
  PROVE  /\ Worth(f, t) \subseteq Worth(f, t)' /\ t \in Times
         /\ 1..now \subseteq 1..now'
<1>1. t \in Times /\ 1..now \subseteq 1..now'
  BY PriceNodeAssumption DEF NodeInv, NodeMoves, Times
<1>2. signed[f][t] \subseteq signed'[f][t] /\ market' = market
  BY <1>1 DEF NodeMoves
<1> QED
  BY <1>1, <1>2 DEF Worth

LEMMA EntryStays ==
  ASSUME NodeInv, NodeMoves, NEW f \in Feeds, NEW e, FeedHonest(f, e)
  PROVE  e.price # 0 => /\ e.time \in 1..now' /\ e.price \in Nat
                        /\ \E lo, hi \in Worth(f, e.time)' : lo <= e.price /\ e.price <= hi
<1> SUFFICES ASSUME e.price # 0
             PROVE  /\ e.time \in 1..now' /\ e.price \in Nat
                    /\ \E lo, hi \in Worth(f, e.time)' : lo <= e.price /\ e.price <= hi
  OBVIOUS
<1>1. e.time \in 1..now /\ e.price \in Nat /\ Between(f, e.time, e.price)
  BY DEF FeedHonest
<1>2. PICK t \in 1..now : t = e.time
  BY <1>1
<1>3. PICK lo, hi \in Worth(f, t) : lo <= e.price /\ e.price <= hi
  BY <1>1, <1>2 DEF Between
<1>4. Worth(f, t) \subseteq Worth(f, t)' /\ 1..now \subseteq 1..now'
  BY WorthStays
<1>5. lo \in Worth(f, t)' /\ hi \in Worth(f, t)' /\ t \in 1..now'
  BY <1>3, <1>4
<1> QED
  BY <1>1, <1>2, <1>3, <1>5

LEMMA LegsStay ==
  ASSUME NodeInv, NodeMoves, NEW p \in Products, NEW s, FromLegs(p, s)
  PROVE  FromLegs(p, s)'
<1>1. PICK t \in [Legs(p) -> 1..now], lo, hi \in [Legs(p) -> Nat] : Spans(p, s, t, lo, hi)
  BY DEF FromLegs
<1>2. ASSUME NEW f \in Legs(p)
      PROVE  t[f] \in 1..now' /\ lo[f] \in Worth(f, t[f])' /\ hi[f] \in Worth(f, t[f])'
  <2>1. f \in Feeds
    BY LegsAreFeeds
  <2>2. PICK x \in 1..now : x = t[f]
    OBVIOUS
  <2>3. Worth(f, x) \subseteq Worth(f, x)' /\ 1..now \subseteq 1..now'
    BY <2>1, WorthStays
  <2>4. lo[f] \in Worth(f, x) /\ hi[f] \in Worth(f, x)
    BY <1>1, <2>2 DEF Spans
  <2>5. lo[f] \in Worth(f, x)' /\ hi[f] \in Worth(f, x)' /\ x \in 1..now'
    BY <2>3, <2>4
  <2> QED
    BY <2>2, <2>5
<1>3. t \in [Legs(p) -> 1..now']
  BY <1>1, <1>2
<1>4. Spans(p, s, t, lo, hi)'
  BY <1>1, <1>2 DEF Spans
<1> QED
  BY <1>1, <1>3, <1>4 DEF FromLegs

\* The stores and prices stay honest when they do not change.
LEMMA ChainStays ==
  ASSUME PInv, NodeMoves, NodeInv', UNCHANGED <<redstone, pyth, spot>>, authorized' \in SignerSets
  PROVE  PInv'
<1>1. StoresHonest'
  <2>1. \A f \in Feeds : FeedHonest(f, redstone[f]) /\ FeedHonest(f, pyth[f])
    BY DEF PInv, StoresHonest
  <2>2. \A f \in Feeds : FeedHonest(f, redstone[f])' /\ FeedHonest(f, pyth[f])'
    BY <2>1, EntryStays DEF PInv, FeedHonest, Between
  <2> QED
    BY <2>2 DEF StoresHonest
<1>2. SpotsHonest'
  <2> SUFFICES ASSUME NEW p \in Products, spot[p].price # 0 PROVE FromLegs(p, spot[p])'
    BY DEF SpotsHonest
  <2>1. PICK s : s = spot[p]
    OBVIOUS
  <2>2. FromLegs(p, s)
    BY <2>1 DEF PInv, SpotsHonest
  <2>3. FromLegs(p, s)'
    BY <2>2, LegsStay DEF PInv
  <2>4. spot'[p] = s
    BY <2>1
  <2> QED
    BY <2>3, <2>4 DEF FromLegs, Spans
<1> QED
  BY <1>1, <1>2 DEF PInv

\* A quotient grows with what is divided and falls with what divides.
LEMMA QuotientGrows ==
  ASSUME NEW a \in Nat, NEW b \in Nat \ {0}, NEW c \in Nat, NEW d \in Nat \ {0}, a <= c, d <= b
  PROVE  (a * Unit) \div b <= (c * Unit) \div d
<1>1. Unit \in Nat
  BY SignerAssumption
<1> DEFINE x == a * Unit
           y == c * Unit
<1>2. x \in Nat /\ y \in Nat /\ x <= y
  BY <1>1, Scaled
<1> HIDE DEF x, y
<1> DEFINE k == x \div b
           l == y \div d
<1>3. k \in Nat /\ k * b <= x /\ l \in Nat /\ y < (l + 1) * d
  BY <1>2
<1> HIDE DEF k, l
<1>4. ASSUME k > l PROVE FALSE
  <2>1. d * k <= b * k
    BY <1>3, Scaled
  <2>2. (l + 1) * d <= k * d
    BY <1>3, <1>4, Scaled
  <2>3. d * k = k * d /\ b * k = k * b /\ d * k \in Nat /\ b * k \in Nat /\ (l + 1) * d \in Nat
    BY <1>3
  <2> QED
    BY <1>2, <1>3, <2>1, <2>2, <2>3
<1> QED
  BY <1>3, <1>4 DEF k, l, x, y

LEMMA SameQuotient ==
  ASSUME NEW a \in Nat \ {0}
  PROVE  (a * Unit) \div a = Unit
<1>1. Unit \in Nat
  BY SignerAssumption
<1>2. \A u \in Nat : (a * u) \div a = u
  OBVIOUS
<1> QED
  BY <1>1, <1>2

\* What is composed of prices lies between what is composed of their bounds.
LEMMA ComposedBetween ==
  ASSUME NEW p \in Products, NEW lo \in [Legs(p) -> Nat \ {0}], NEW v \in [Legs(p) -> Nat \ {0}],
         NEW hi \in [Legs(p) -> Nat \ {0}], \A f \in Legs(p) : lo[f] <= v[f] /\ v[f] <= hi[f]
  PROVE  /\ Composed(p, Crossed(p, lo, hi)) <= Composed(p, v)
         /\ Composed(p, v) <= Composed(p, Crossed(p, hi, lo))
<1> DEFINE b == Base[p]
           q == QuoteFeed[p]
<1>1. b \in Legs(p) /\ (q # NoFeed => q \in Legs(p))
  BY LegsAreFeeds
<1>2. /\ Crossed(p, lo, hi)[b] = lo[b] /\ Crossed(p, hi, lo)[b] = hi[b]
      /\ q # NoFeed /\ q # b => Crossed(p, lo, hi)[q] = hi[q] /\ Crossed(p, hi, lo)[q] = lo[q]
  BY <1>1 DEF Crossed
<1>3. lo[b] \in Nat \ {0} /\ v[b] \in Nat \ {0} /\ hi[b] \in Nat \ {0} /\ lo[b] <= v[b] /\ v[b] <= hi[b]
  BY <1>1
<1>4. CASE q = NoFeed
  BY <1>2, <1>3, <1>4 DEF Composed
<1>5. CASE q # NoFeed /\ q = b
  <2>1. /\ Composed(p, Crossed(p, lo, hi)) = (lo[b] * Unit) \div lo[b]
        /\ Composed(p, v) = (v[b] * Unit) \div v[b]
        /\ Composed(p, Crossed(p, hi, lo)) = (hi[b] * Unit) \div hi[b]
    BY <1>2, <1>5 DEF Composed
  <2>2. /\ Composed(p, Crossed(p, lo, hi)) = Unit
        /\ Composed(p, v) = Unit
        /\ Composed(p, Crossed(p, hi, lo)) = Unit
    BY <1>3, <2>1, SameQuotient
  <2> QED
    BY <2>2, SignerAssumption
<1>6. CASE q # NoFeed /\ q # b
  <2>1. /\ Composed(p, Crossed(p, lo, hi)) = (lo[b] * Unit) \div hi[q]
        /\ Composed(p, v) = (v[b] * Unit) \div v[q]
        /\ Composed(p, Crossed(p, hi, lo)) = (hi[b] * Unit) \div lo[q]
    BY <1>2, <1>6 DEF Composed
  <2>2. lo[q] \in Nat \ {0} /\ v[q] \in Nat \ {0} /\ hi[q] \in Nat \ {0} /\ lo[q] <= v[q] /\ v[q] <= hi[q]
    BY <1>1, <1>6
  <2> HIDE DEF b, q
  <2>3. (lo[b] * Unit) \div hi[q] <= (v[b] * Unit) \div v[q]
    BY <1>3, <2>2, QuotientGrows
  <2>4. (v[b] * Unit) \div v[q] <= (hi[b] * Unit) \div lo[q]
    BY <1>3, <2>2, QuotientGrows
  <2> QED
    BY <2>1, <2>3, <2>4
<1> QED
  BY <1>4, <1>5, <1>6

\* Refreshing a product from honest stores.
LEMMA RefreshedHonest ==
  ASSUME NodeInv, NEW p \in Products, NEW store, \A f \in Feeds : FeedHonest(f, store[f]),
         LegsValid(p, store)
  PROVE  FromLegs(p, [price |-> Quotient(p, store), time |-> PublishTime(p, store)])
<1> DEFINE t == [f \in Legs(p) |-> store[f].time]
           v == [f \in Legs(p) |-> store[f].price]
           lo == [f \in Legs(p) |-> CHOOSE x \in Worth(f, t[f]) : x <= v[f]]
           hi == [f \in Legs(p) |-> CHOOSE x \in Worth(f, t[f]) : v[f] <= x]
           times == {store[f].time : f \in Legs(p)}
           s == [price |-> Quotient(p, store), time |-> PublishTime(p, store)]
<1>1. \A f \in Legs(p) : /\ f \in Feeds /\ store[f].time \in 1..now
                         /\ store[f].price \in Nat \ {0}
                         /\ Between(f, store[f].time, store[f].price)
  BY LegsAreFeeds DEF FeedHonest, LegsValid
<1>2. now \in Nat /\ 1..now \subseteq Times
  BY PriceNodeAssumption DEF NodeInv, Times
<1>3. \A f \in Legs(p) : /\ lo[f] \in Worth(f, t[f]) /\ hi[f] \in Worth(f, t[f])
                         /\ lo[f] <= v[f] /\ v[f] <= hi[f]
  <2> SUFFICES ASSUME NEW f \in Legs(p)
               PROVE  /\ lo[f] \in Worth(f, t[f]) /\ hi[f] \in Worth(f, t[f])
                      /\ lo[f] <= v[f] /\ v[f] <= hi[f]
    OBVIOUS
  <2>1. t[f] = store[f].time /\ v[f] = store[f].price
    OBVIOUS
  <2>2. PICK x, y \in Worth(f, t[f]) : x <= v[f] /\ v[f] <= y
    BY <1>1, <2>1 DEF Between
  <2>3. /\ lo[f] = CHOOSE z \in Worth(f, t[f]) : z <= v[f]
        /\ hi[f] = CHOOSE z \in Worth(f, t[f]) : v[f] <= z
    OBVIOUS
  <2> HIDE DEF lo, hi, t, v
  <2> QED
    BY <2>2, <2>3
<1>4. times \in SUBSET Nat /\ times # {}
  BY <1>1, <1>2, LegsAreFeeds
<1>5. PublishTime(p, store) \in times /\ \A x \in times : PublishTime(p, store) <= x
  <2>1. \E m \in times : \A x \in times : m <= x
    BY <1>4, LeastNatural
  <2>2. PublishTime(p, store) = CHOOSE m \in times : \A x \in times : m <= x
    BY DEF PublishTime, Min
  <2> QED
    BY <2>1, <2>2
<1>6. t \in [Legs(p) -> 1..now] /\ v \in [Legs(p) -> Nat \ {0}]
  BY <1>1
<1>7. \A f \in Legs(p) : Worth(f, t[f]) \subseteq Nat \ {0}
  BY <1>1, <1>2, WorthNatural
<1>8. lo \in [Legs(p) -> Nat \ {0}] /\ hi \in [Legs(p) -> Nat \ {0}]
  <2>1. \A f \in Legs(p) : lo[f] \in Nat \ {0} /\ hi[f] \in Nat \ {0}
    BY <1>3, <1>7
  <2>2. lo = [f \in Legs(p) |-> lo[f]] /\ hi = [f \in Legs(p) |-> hi[f]]
    OBVIOUS
  <2> HIDE DEF lo, hi
  <2> QED
    BY <2>1, <2>2
<1>9. s.time = PublishTime(p, store) /\ s.price = Quotient(p, store)
  OBVIOUS
<1>10. \A f \in Legs(p) : t[f] >= s.time
  BY <1>4, <1>5, <1>9
<1>11. \E f \in Legs(p) : t[f] = s.time
  BY <1>5, <1>9
<1>12. s.price = Composed(p, v)
  BY <1>9, LegsAreFeeds DEF Quotient, Composed
<1> HIDE DEF t, v, s, lo, hi
<1>13. /\ Composed(p, Crossed(p, lo, hi)) <= Composed(p, v)
       /\ Composed(p, v) <= Composed(p, Crossed(p, hi, lo))
  BY <1>3, <1>6, <1>8, ComposedBetween
<1>14. Spans(p, s, t, lo, hi)
  BY <1>3, <1>10, <1>11, <1>12, <1>13 DEF Spans
<1>15. lo \in [Legs(p) -> Nat] /\ hi \in [Legs(p) -> Nat]
  BY <1>8
<1>16. FromLegs(p, s)
  BY <1>6, <1>14, <1>15 DEF FromLegs
<1> QED
  BY <1>16 DEF s

\* An update with honest stores behind it.
LEMMA UpdateKeeps ==
  ASSUME PInv, NEW payload, NEW blobs, NEW ps \in SUBSET Products, Update(payload, blobs, ps),
         UNCHANGED <<now, nodeVars>>,
         \A f \in Feeds : FeedHonest(f, Ingested(payload)[f]) /\ FeedHonest(f, Stored(blobs)[f])
  PROVE  PInv'
<1> DEFINE rs == Ingested(payload)
           py == Stored(blobs)
<1>1. /\ redstone' = rs /\ pyth' = py /\ authorized' = authorized
      /\ CanRefresh(ps, rs, py)
      /\ spot' = [p \in Products |-> IF p \in ps THEN Refreshed(p, StoreOf(p, rs, py)) ELSE spot[p]]
  BY DEF Update
<1>2. NodeInv' /\ NodeMoves
  BY NodeStays DEF PInv, nodeVars
<1>3. now' = now /\ \A f, t : Worth(f, t)' = Worth(f, t)
  BY DEF nodeVars, Worth
<1>4. \A f, e : FeedHonest(f, e)' <=> FeedHonest(f, e)
  BY <1>3 DEF FeedHonest, Between
<1>5. StoresHonest'
  <2>1. \A f \in Feeds : FeedHonest(f, redstone'[f]) /\ FeedHonest(f, pyth'[f])
    BY <1>1
  <2> QED
    BY <1>1, <1>3, <2>1 DEF StoresHonest, PInv, FeedHonest, Between
<1>6. \A p \in Products : \A s : FromLegs(p, s) => FromLegs(p, s)'
  BY <1>3 DEF FromLegs, Spans
<1>7. \A p \in Products : spot'[p].price # 0 => FromLegs(p, spot'[p])
  <2> SUFFICES ASSUME NEW p \in Products, spot'[p].price # 0 PROVE FromLegs(p, spot'[p])
    OBVIOUS
  <2> DEFINE store == StoreOf(p, rs, py)
  <2>1. CASE p \in ps /\ ~(PublishTime(p, store) <= spot[p].time)
    <3>1. spot'[p] = [price |-> Quotient(p, store), time |-> PublishTime(p, store)]
      BY <1>1, <2>1 DEF Refreshed
    <3>2. LegsValid(p, store)
      BY <1>1, <2>1 DEF CanRefresh
    <3>3. \A f \in Feeds : FeedHonest(f, store[f])
      BY DEF StoreOf
    <3> HIDE DEF store
    <3> QED
      BY <3>1, <3>2, <3>3, RefreshedHonest DEF PInv
  <2>2. CASE ~(p \in ps /\ ~(PublishTime(p, store) <= spot[p].time))
    <3>1. spot'[p] = spot[p]
      BY <1>1, <2>2 DEF Refreshed
    <3> QED
      BY <3>1 DEF PInv, SpotsHonest
  <2> QED
    BY <2>1, <2>2
<1>8. SpotsHonest'
  BY <1>3, <1>7 DEF SpotsHonest, FromLegs, Spans
<1> QED
  BY <1>2, <1>5, <1>8 DEF PInv

\* The median of a valid point lies between what the node signed: of the signers that
\* count, those that signed something else are fewer than half.
LEMMA PointIsHonest ==
  ASSUME NodeInv, authorized \in SignerSets, NEW f \in Feeds, NEW t \in Times,
         NEW by, NEW R \in SUBSET Rogues,
         NEW own \in [by -> signed[f][t]], NEW rogue \in [R -> RogueValues],
         Enough(by \cup R)
  PROVE  /\ Median(Values(Point(t, own, rogue))) \in Nat
         /\ \E lo, hi \in signed[f][t] : /\ lo <= Median(Values(Point(t, own, rogue)))
                                         /\ Median(Values(Point(t, own, rogue))) <= hi
<1> DEFINE point == Point(t, own, rogue)
           D == Collect(point)
           q == Values(point)
           c == authorized
           T == D \cap by
<1>1. /\ IsFiniteSet(c.signers) /\ c.threshold \in Nat
      /\ 2 * Cardinality(c.signers \cap Rogues) < c.threshold
  BY SignerAssumption
<1>2. point.value = [s \in by \cup R |-> IF s \in by THEN own[s] ELSE rogue[s]]
  BY DEF Point
<1>3. D = (by \cup R) \cap c.signers /\ D = Counted(by \cup R)
  BY <1>2 DEF Collect, Counted
<1>4. q = [s \in D |-> IF s \in by THEN own[s] ELSE rogue[s]]
  BY <1>2, <1>3 DEF Values
<1>5. signed[f][t] \subseteq Nat
  BY DEF NodeInv
<1>6. q \in [D -> Nat]
  BY <1>3, <1>4, <1>5, SignerAssumption
<1>7. IsFiniteSet(D) /\ Cardinality(D) \in Nat
  BY <1>1, <1>3, FS_Intersection, FS_CardinalityType
<1>8. D \ by \in SUBSET (c.signers \cap Rogues)
  BY <1>3
<1>9. IsFiniteSet(c.signers \cap Rogues)
  BY <1>1, FS_Intersection
<1>10. /\ Cardinality(D \ by) <= Cardinality(c.signers \cap Rogues) /\ IsFiniteSet(D \ by)
       /\ Cardinality(D \ by) \in Nat /\ Cardinality(c.signers \cap Rogues) \in Nat
  BY <1>8, <1>9, FS_Subset, FS_CardinalityType
<1>11. Cardinality(D) >= c.threshold
  BY <1>3 DEF Enough
<1>12. 2 * Cardinality(D \ by) < Cardinality(D)
  <2> HIDE DEF D, c
  <2> QED
    BY <1>1, <1>7, <1>10, <1>11
<1>13. D \ by \in SUBSET D /\ D \ (D \ by) = T /\ T \in SUBSET D
  OBVIOUS
<1>14. T # {}
  <2> SUFFICES ASSUME T = {} PROVE FALSE
    OBVIOUS
  <2>1. D \ by = D
    OBVIOUS
  <2> HIDE DEF D
  <2> QED
    BY <1>7, <1>12, <2>1
<1>15. \A s \in T : q[s] \in signed[f][t] /\ q[s] \in Nat
  BY <1>4, <1>5
<1> HIDE DEF D, q, T
<1>16. PICK h \in T : \A s \in T : q[s] <= q[h]
  BY <1>6, <1>7, <1>13, <1>14, Greatest
<1>17. PICK lo \in {q[s] : s \in T} : \A y \in {q[s] : s \in T} : lo <= y
  <2>1. {q[s] : s \in T} \in SUBSET Nat /\ {q[s] : s \in T} # {}
    BY <1>14, <1>15
  <2> QED
    BY <2>1, LeastNatural
<1>18. PICK hi \in Nat : hi = q[h] /\ hi \in signed[f][t]
  BY <1>15, <1>16
<1>19. lo \in Nat /\ lo \in signed[f][t]
  BY <1>15, <1>17
<1>20. \A e \in D \ (D \ by) : lo <= q[e] /\ q[e] <= hi
  BY <1>13, <1>16, <1>17, <1>18
<1>21. Median(q) \in Nat /\ lo <= Median(q) /\ Median(q) <= hi
  BY <1>6, <1>7, <1>12, <1>13, <1>18, <1>19, <1>20, MajorityBounds
<1> QED
  BY <1>18, <1>19, <1>21 DEF q

\* What the node's signers sign in a package, and the package.
Owns(by, fs, t, own) == \A f \in fs : own[f] \in [by -> signed[f][t[f]]]
Package(fs, t, own, rogue) == [f \in fs |-> Point(t[f], own[f], rogue)]

\* Signed packages of enough signers are ingested as honest prices.
LEMMA PackagesHonest ==
  ASSUME PInv, NEW by, NEW R \in SUBSET Rogues, NEW rogue \in [R -> RogueValues], Enough(by \cup R),
         NEW fs \in SUBSET Feeds, NEW t \in [fs -> 1..now], NEW own,
         Owns(by, fs, t, own), NEW f \in Feeds
  PROVE  FeedHonest(f, Ingested(Package(fs, t, own, rogue))[f])
<1> DEFINE payload == Package(fs, t, own, rogue)
<1>1. CASE f \in fs /\ payload[f].time > redstone[f].time
  <2>1. PICK x \in 1..now : x = t[f]
    BY <1>1
  <2>2. payload[f] = Point(x, own[f], rogue) /\ payload[f].time = x
    BY <1>1, <2>1 DEF Point, Package
  <2>3. Ingested(payload)[f] = [price |-> Median(Values(payload[f])), time |-> payload[f].time,
                                spread |-> Spread(payload[f])]
    BY <1>1 DEF Ingested, Package
  <2>4. PICK o : o = own[f] /\ o \in [by -> signed[f][x]]
    BY <1>1, <2>1 DEF Owns
  <2>5. x \in Times /\ NodeInv /\ authorized \in SignerSets
    <3>1. NodeInv /\ authorized \in SignerSets
      BY DEF PInv, StoresHonest
    <3>2. now \in Times
      BY <3>1 DEF NodeInv
    <3> HIDE DEF payload
    <3> QED
      BY <3>1, <3>2, PriceNodeAssumption DEF Times
  <2> DEFINE m == Median(Values(Point(x, o, rogue)))
  <2>6. m \in Nat /\ \E lo, hi \in signed[f][x] : lo <= m /\ m <= hi
    BY <2>4, <2>5, PointIsHonest
  <2>7. Ingested(payload)[f].price = m /\ Ingested(payload)[f].time = x
    BY <2>2, <2>3, <2>4
  <2>8. Between(f, x, m)
    BY <2>6 DEF Between, Worth
  <2> HIDE DEF m, payload
  <2>9. FeedHonest(f, Ingested(payload)[f])
    BY <2>6, <2>7, <2>8 DEF FeedHonest
  <2> QED
    BY <2>9 DEF payload
<1>2. CASE ~(f \in fs /\ payload[f].time > redstone[f].time)
  <2>1. Ingested(payload)[f] = redstone[f]
    BY <1>2 DEF Ingested, Package
  <2>2. FeedHonest(f, redstone[f])
    BY DEF PInv, StoresHonest
  <2> HIDE DEF payload
  <2> QED
    BY <2>1, <2>2 DEF payload
<1> QED
  BY <1>1, <1>2

LEMMA SubmitPackagesKeeps ==
  ASSUME PInv, NEW ps \in SUBSET Products, SubmitPackages(ps)
  PROVE  PInv'
<1>1. PICK by \in SUBSET NodeSigners, R \in SUBSET Rogues :
        /\ Enough(by \cup R)
        /\ \E fs \in (SUBSET Feeds) \ {{}} :
           \E t \in [fs -> 1..now], rogue \in [R -> RogueValues] :
           \E own \in [fs -> UNION {[by -> signed[f][t[f]]] : f \in fs}] :
             /\ \A f \in fs : own[f] \in [by -> signed[f][t[f]]]
             /\ Update([f \in fs |-> Point(t[f], own[f], rogue)], <<>>, ps)
  BY DEF SubmitPackages
<1>2. PICK fs \in SUBSET Feeds :
        \E t \in [fs -> 1..now], rogue \in [R -> RogueValues] :
        \E own \in [fs -> UNION {[by -> signed[f][t[f]]] : f \in fs}] :
          /\ \A f \in fs : own[f] \in [by -> signed[f][t[f]]]
          /\ Update([f \in fs |-> Point(t[f], own[f], rogue)], <<>>, ps)
  BY <1>1
<1>3. PICK t \in [fs -> 1..now], rogue \in [R -> RogueValues] :
        \E own \in [fs -> UNION {[by -> signed[f][t[f]]] : f \in fs}] :
          /\ \A f \in fs : own[f] \in [by -> signed[f][t[f]]]
          /\ Update([f \in fs |-> Point(t[f], own[f], rogue)], <<>>, ps)
  BY <1>2
<1>4. PICK own : Owns(by, fs, t, own) /\ Update(Package(fs, t, own, rogue), <<>>, ps)
  BY <1>3 DEF Owns, Package
<1> DEFINE payload == Package(fs, t, own, rogue)
<1>5. UNCHANGED <<now, nodeVars>>
  BY DEF SubmitPackages
<1>6. \A f \in Feeds : FeedHonest(f, Ingested(payload)[f])
  BY <1>1, <1>4, PackagesHonest
<1>7. \A f \in Feeds : FeedHonest(f, Stored(<<>>)[f])
  <2>1. DOMAIN <<>> = {}
    OBVIOUS
  <2>2. \A f \in Feeds : Stored(<<>>)[f] = pyth[f]
    BY <2>1 DEF Stored
  <2> QED
    BY <2>2 DEF PInv, StoresHonest
<1>8. Update(payload, <<>>, ps)
  BY <1>4
<1> HIDE DEF payload
<1> QED
  BY <1>5, <1>6, <1>7, <1>8, UpdateKeeps

LEMMA SubmitPythKeeps ==
  ASSUME PInv, NEW ps \in SUBSET Products, SubmitPyth(ps)
  PROVE  PInv'
<1>1. PICK fs \in SUBSET Feeds, t \in 1..now, spread \in {0, MaxConfidenceBps + 1} :
        Update(<<>>, [f \in fs |-> [price |-> IF f = Usdc THEN Par ELSE market[f][t],
                                    time |-> t, spread |-> spread]], ps)
  BY DEF SubmitPyth
<1> DEFINE blobs == [f \in fs |-> [price |-> IF f = Usdc THEN Par ELSE market[f][t],
                                   time |-> t, spread |-> spread]]
<1>2. UNCHANGED <<now, nodeVars>>
  BY DEF SubmitPyth
<1>3. \A f \in Feeds : FeedHonest(f, Ingested(<<>>)[f])
  <2>1. DOMAIN <<>> = {}
    OBVIOUS
  <2>2. \A f \in Feeds : Ingested(<<>>)[f] = redstone[f]
    BY <2>1 DEF Ingested
  <2> QED
    BY <2>2 DEF PInv, StoresHonest
<1>4. \A f \in Feeds : FeedHonest(f, Stored(blobs)[f])
  <2> SUFFICES ASSUME NEW f \in Feeds PROVE FeedHonest(f, Stored(blobs)[f])
    OBVIOUS
  <2>1. CASE f \in fs /\ blobs[f].time > pyth[f].time
    <3>1. Stored(blobs)[f] = [price |-> IF f = Usdc THEN Par ELSE market[f][t],
                              time |-> t, spread |-> spread]
      BY <2>1 DEF Stored
    <3>2. t \in Times
      BY PriceNodeAssumption DEF PInv, NodeInv, Times
    <3>3. PICK x \in Nat \ {0} : x = IF f = Usdc THEN Par ELSE market[f][t]
      <4>1. (IF f = Usdc THEN Par ELSE market[f][t]) \in Worth(f, t)
        BY DEF Worth
      <4> QED
        BY <3>2, <4>1, WorthNatural DEF PInv
    <3>4. Between(f, t, x)
      BY <3>3 DEF Between, Worth
    <3> QED
      BY <3>1, <3>3, <3>4 DEF FeedHonest
  <2>2. CASE ~(f \in fs /\ blobs[f].time > pyth[f].time)
    <3>1. Stored(blobs)[f] = pyth[f]
      BY <2>2 DEF Stored
    <3> QED
      BY <3>1 DEF PInv, StoresHonest
  <2> QED
    BY <2>1, <2>2
<1>5. Update(<<>>, blobs, ps)
  BY <1>1
<1> HIDE DEF blobs
<1> QED
  BY <1>2, <1>3, <1>4, <1>5, UpdateKeeps

LEMMA PriceInvariant == SpotSpec => []PInv
<1>1. SpotInit => PInv
  <2> SUFFICES ASSUME SpotInit PROVE PInv
    OBVIOUS
  <2>1. NodeInv
    BY PriceNodeAssumption DEF SpotInit, NodeInit, NodeInv, Times, Feeds
  <2>2. StoresHonest
    BY DEF SpotInit, StoresHonest, FeedHonest, Nothing
  <2>3. SpotsHonest
    BY DEF SpotInit, SpotsHonest
  <2> QED
    BY <2>1, <2>2, <2>3 DEF PInv
<1>2. PInv /\ [SpotNext(Products)]_spotVars => PInv'
  <2> SUFFICES ASSUME PInv, [SpotNext(Products)]_spotVars PROVE PInv'
    OBVIOUS
  <2>0. NodeInv /\ authorized \in SignerSets
    BY DEF PInv, StoresHonest
  <2>1. CASE NodeStep /\ UNCHANGED oracleVars
    BY <2>0, <2>1, NodeKeeps, ChainStays DEF oracleVars
  <2>2. CASE Tick /\ UNCHANGED <<nodeVars, oracleVars>>
    BY <2>0, <2>2, TickKeeps, ChainStays DEF oracleVars, nodeVars
  <2>3. ASSUME NEW ps \in SUBSET Products, SubmitPackages(ps) \/ SubmitPyth(ps)
        PROVE  PInv'
    BY <2>3, SubmitPackagesKeeps, SubmitPythKeeps
  <2>4. ASSUME \/ UNCHANGED spotVars
               \/ \E p \in Products, k \in {"REDSTONE", "PYTH"} : SetSource(p, k)
               \/ \E c \in SignerSets : SetRedstoneSigners(c)
        PROVE  PInv'
    <3>1. UNCHANGED <<now, nodeVars, redstone, pyth, spot>> /\ authorized' \in SignerSets
      BY <2>0, <2>4 DEF spotVars, oracleVars, SetSource, SetRedstoneSigners
    <3> QED
      BY <2>0, <3>1, NodeStays, ChainStays DEF nodeVars
  <2> QED
    BY <2>1, <2>2, <2>3, <2>4 DEF SpotNext
<1> QED
  BY <1>1, <1>2, PTL DEF SpotSpec

\* For any exchanges, assets and market, while fewer exchanges than a quorum of
\* sources are wrong, and however requests overlap: every signed price is near the
\* market of little before (pricenode/src/index.ts: aggregate, prices, fetch).
THEOREM SignedStaysNear == SpotSpec => []SignedNearMarket
<1>1. PInv => SignedNearMarket
  BY DEF PInv, NodeInv, SignedNear, SignedNearMarket, Feeds
<1> QED
  BY <1>1, PriceInvariant, PTL

\* For any products, signers and sequence of submissions, while rogues are fewer than
\* half a threshold, and whatever answers of the node a package is put together from:
\* every stored price is a quotient of honest prices no older than its time
\* (LiveSpotOracle.sol: update, _refresh).
THEOREM SpotStaysHonest == SpotSpec => []SpotFromHonestLegs
<1>1. PInv => SpotFromHonestLegs
  <2> SUFFICES ASSUME PInv, NEW p \in Products, spot[p].price # 0
               PROVE  \E t \in [Legs(p) -> spot[p].time .. Horizon] :
                        /\ \A f \in Legs(p) : t[f] <= now + MaxFutureSkew
                        /\ \E f \in Legs(p) : t[f] = spot[p].time
                        /\ \E lo, hi \in [Legs(p) -> UNION {Worth(f, t[f]) : f \in Legs(p)}] :
                             /\ \A f \in Legs(p) : {lo[f], hi[f]} \subseteq Worth(f, t[f])
                             /\ Composed(p, Crossed(p, lo, hi)) <= spot[p].price
                             /\ spot[p].price <= Composed(p, Crossed(p, hi, lo))
    BY DEF SpotFromHonestLegs
  <2>1. PICK t \in [Legs(p) -> 1..now], lo, hi \in [Legs(p) -> Nat] : Spans(p, spot[p], t, lo, hi)
    BY DEF PInv, SpotsHonest, FromLegs
  <2>2. now \in Nat /\ now <= Horizon /\ Horizon \in Nat /\ MaxFutureSkew \in Nat
    BY PriceNodeAssumption, SignerAssumption DEF PInv, NodeInv, Times
  <2>3. spot[p].time \in Nat
    BY <2>1, <2>2 DEF Spans
  <2>4. \A f \in Legs(p) : t[f] \in spot[p].time .. Horizon /\ t[f] <= now + MaxFutureSkew
    BY <2>1, <2>2, <2>3 DEF Spans
  <2>5. t \in [Legs(p) -> spot[p].time .. Horizon]
    BY <2>4
  <2>6. \A f \in Legs(p) : {lo[f], hi[f]} \subseteq Worth(f, t[f])
    BY <2>1 DEF Spans
  <2>7. /\ lo \in [Legs(p) -> UNION {Worth(f, t[f]) : f \in Legs(p)}]
        /\ hi \in [Legs(p) -> UNION {Worth(f, t[f]) : f \in Legs(p)}]
    BY <2>6
  <2>8. /\ \E f \in Legs(p) : t[f] = spot[p].time
        /\ Composed(p, Crossed(p, lo, hi)) <= spot[p].price
        /\ spot[p].price <= Composed(p, Crossed(p, hi, lo))
    BY <2>1 DEF Spans
  <2> QED
    BY <2>4, <2>5, <2>6, <2>7, <2>8
<1> QED
  BY <1>1, PriceInvariant, PTL

-----------------------------------------------------------------------------
(* 4. Surfaces                                                             *)

Reports == [product: Products, seq: 1..MaxSeq, validAfter: Nat, expiresAt: Nat,
            iv: Ivs, grid: Grids, maker: Publishers]
Headers == Reports \cup {NoReport}
Bases == [header: Headers, waived: BOOLEAN]
Drafts == [report: Reports, signers: SUBSET Publishers, ask: SUBSET Publishers, base: Bases]
KeptReports == [report: Reports, signers: SUBSET Publishers, base: Bases]

CleanReport(r) == r \in Reports /\ r.grid = "clean"

\* What a service checked of a report against the header it was built on.
Built(r, base) ==
  /\ CleanReport(r)
  /\ r.validAfter <= now /\ r.expiresAt = r.validAfter + MaxReportLifetime
  /\ r.seq > base.header.seq
  /\ base.header.seq # 0 => r.validAfter >= base.header.validAfter
  /\ base.header.seq # 0 /\ ~base.waived =>
       Apart(r.iv, base.header.iv) * Bps <= MaxIvMoveBps * base.header.iv

ChainClean ==
  /\ now \in Nat
  /\ header \in [Products -> Headers]
  /\ \A p \in Products : header[p].seq # 0 => CleanReport(header[p])
  /\ \A s \in signatures : CleanReport(s.report)

DraftsBuilt ==
  /\ DOMAIN drafts = Publishers
  /\ \A a \in Publishers : drafts[a] # NoDraft =>
       drafts[a] \in Drafts /\ Built(drafts[a].report, drafts[a].base)

GridsBuilt ==
  /\ grids \in [Publishers -> SUBSET KeptReports]
  /\ \A a \in Publishers : \A s \in grids[a] :
       /\ Built(s.report, s.base)
       /\ Cardinality(s.signers) >= Quorum /\ s.signers \cap Independent # {}

\* A service remembers one report of a product and sequence number.
OnePerNumber ==
  \A a \in Publishers : \A s, o \in grids[a] :
    s.report.product = o.report.product /\ s.report.seq = o.report.seq => s = o

SInv == ChainClean /\ DraftsBuilt /\ GridsBuilt /\ OnePerNumber

\* Faulty publishers alone have no quorum: Submit need only be asked of reports
\* that an honest publisher signed.
LEMMA FaultyHaveNoQuorum ==
  ASSUME NEW signers \in SUBSET FaultyPublishers
  PROVE  ~SignaturesValid(signers)
<1>1. IsFiniteSet(FaultyPublishers)
  BY PublisherAssumption, FS_Subset
<1>2. /\ Cardinality(signers) <= Cardinality(FaultyPublishers)
      /\ Cardinality(signers) \in Nat /\ Cardinality(FaultyPublishers) \in Nat
  BY <1>1, FS_Subset, FS_CardinalityType
<1> QED
  BY <1>2, PublisherAssumption DEF SignaturesValid

LEMMA MaxIsMember ==
  ASSUME NEW n \in Nat, NEW S \in SUBSET (0..n), S # {}
  PROVE  Max(S) \in S
<1> DEFINE q == [x \in S |-> x]
<1>1. IsFiniteSet(S)
  <2>1. IsFiniteSet(0..n)
    BY FS_Interval
  <2> QED
    BY <2>1, FS_Subset
<1>2. q \in [S -> Nat]
  OBVIOUS
<1>3. \E t \in S : \A d \in S : q[d] <= q[t]
  BY <1>1, <1>2, Greatest
<1>4. \E t \in S : \A d \in S : t >= d
  BY <1>3
<1> QED
  BY <1>4 DEF Max

LEMMA NextSeqType ==
  ASSUME SInv, NEW a \in Publishers, NEW p \in Products
  PROVE  NextSeq(a, p) \in Nat \ {0}
<1> DEFINE S == {header[p].seq} \cup {s.report.seq : s \in Of(a, p)}
<1>1. header[p].seq \in 0..MaxSeq
  BY PublisherAssumption DEF SInv, ChainClean, Headers, Reports, NoReport
<1>2. \A s \in Of(a, p) : s.report.seq \in 0..MaxSeq
  BY DEF SInv, GridsBuilt, Of, KeptReports, Reports
<1>3. S \in SUBSET (0..MaxSeq) /\ S # {}
  BY <1>1, <1>2
<1>4. Max(S) \in 0..MaxSeq
  BY <1>3, MaxIsMember, PublisherAssumption
<1> QED
  BY <1>4, PublisherAssumption DEF NextSeq

\* The header after an update is the old one or a report of the update.
LEMMA AfterIs ==
  ASSUME NEW u, NEW p
  PROVE  After(u, p) = header[p] \/ \E s \in u.reports : After(u, p) = s.report
<1> DEFINE new == {s.report : s \in {s \in u.reports : s.report.seq > header[p].seq}}
<1>1. new # {} => (CHOOSE r \in new : TRUE) \in new
  OBVIOUS
<1>2. After(u, p) = IF new = {} THEN header[p] ELSE CHOOSE r \in new : TRUE
  BY DEF After
<1> QED
  BY <1>1, <1>2

LEMMA ApplyKeeps ==
  ASSUME SInv, NEW u, NEW p \in Products, Apply(Only(u, p)),
         \A s \in u.reports : CleanReport(s.report)
  PROVE  SInv'
<1>1. UNCHANGED <<now, grids, drafts>>
  BY DEF Apply
<1>2. header' = [q \in Products |-> After(Only(u, p)[q], q)]
  BY DEF Apply
<1>3. \A q \in Products : header'[q] = header[q] \/ CleanReport(header'[q])
  <2> SUFFICES ASSUME NEW q \in Products
               PROVE  header'[q] = header[q] \/ CleanReport(header'[q])
    OBVIOUS
  <2>1. header'[q] = After(IF q = p THEN u ELSE None, q)
    BY <1>2 DEF Only
  <2>2. CASE q = p
    <3>1. header'[q] = After(u, q)
      BY <2>1, <2>2
    <3> QED
      BY <3>1, AfterIs
  <2>3. CASE q # p
    <3>1. header'[q] = After(None, q)
      BY <2>1, <2>3
    <3>2. None.reports = {}
      BY DEF None
    <3> QED
      BY <3>1, <3>2, AfterIs
  <2> QED
    BY <2>2, <2>3
<1>4. \A s \in signatures' : s \in signatures
  BY DEF Apply
<1>5. ChainClean'
  BY <1>1, <1>2, <1>3, <1>4 DEF SInv, ChainClean, Headers, CleanReport, Reports
<1> QED
  BY <1>1, <1>5 DEF SInv, DraftsBuilt, GridsBuilt, OnePerNumber, Built, CleanReport, Reports, Headers, Drafts, KeptReports, Bases

\* A report without violations is clean and built on the header in front of it.
LEMMA ViolationFree ==
  ASSUME SInv, NEW p \in Products, NEW seq \in 1..MaxSeq, NEW iv \in Ivs, NEW grid \in Grids,
         NEW maker \in Publishers, ~Violations(Report(p, seq, iv, grid, maker))
  PROVE  LET r == Report(p, seq, iv, grid, maker) IN
         CleanReport(r) /\ Built(r, [header |-> header[p], waived |-> p \in emergency])
<1> DEFINE r == Report(p, seq, iv, grid, maker)
           base == [header |-> header[p], waived |-> p \in emergency]
<1>1. r \in Reports
  BY PublisherAssumption DEF SInv, ChainClean, Report, Reports
<1>2. /\ r.product = p /\ r.grid = grid /\ r.validAfter = now
      /\ r.expiresAt = now + MaxReportLifetime
  BY DEF Report
<1>3. base.header = header[p] /\ base.waived = (p \in emergency)
  OBVIOUS
<1> HIDE DEF r, base
<1>4. InSequence(r) /\ MoveAllowed(r) /\ r.grid = "clean"
  BY DEF Violations, Acceptable, r
<1>5. CleanReport(r)
  BY <1>1, <1>4 DEF CleanReport
<1>6. now \in Nat
  BY DEF SInv, ChainClean
<1>7. r.seq > header[p].seq /\ (header[p].seq # 0 => r.validAfter >= header[p].validAfter)
  BY <1>2, <1>4 DEF InSequence
<1>8. header[p].seq # 0 /\ p \notin emergency =>
        Apart(r.iv, header[p].iv) * Bps <= MaxIvMoveBps * header[p].iv
  BY <1>2, <1>4 DEF MoveAllowed
<1>9. r.validAfter <= now
  BY <1>2, <1>6
<1>10. Built(r, base)
  BY <1>2, <1>3, <1>5, <1>7, <1>8, <1>9 DEF Built
<1> QED
  BY <1>5, <1>10 DEF r, base

LEMMA BuildKeeps ==
  ASSUME SInv, NEW a \in Honest, NEW p \in Products, Build(a, p)
  PROVE  SInv'
<1>1. a \in Publishers
  BY DEF Honest
<1>2. PICK iv \in Ivs, grid \in Grids :
        LET r == Report(p, NextSeq(a, p), iv, grid, a) IN
        /\ ~Violations(r)
        /\ signatures' = signatures \cup Signature(r, a)
        /\ drafts' = [drafts EXCEPT ![a] = [report |-> r, signers |-> {a}, ask |-> Cosigners[a],
                        base |-> [header |-> header[p], waived |-> p \in emergency]]]
  BY DEF Build
<1> DEFINE seq == NextSeq(a, p)
           r == Report(p, seq, iv, grid, a)
           base == [header |-> header[p], waived |-> p \in emergency]
           d == [report |-> r, signers |-> {a}, ask |-> Cosigners[a], base |-> base]
<1>3. seq \in 1..MaxSeq
  <2>1. seq \in Nat \ {0}
    BY <1>1, NextSeqType
  <2> QED
    BY <2>1, PublisherAssumption DEF Build
<1>4. UNCHANGED <<now, onChainVars, grids>>
  BY DEF Build
<1>5. signatures' = signatures \cup Signature(r, a) /\ drafts' = [drafts EXCEPT ![a] = d]
  BY <1>2
<1>6. CleanReport(r) /\ Built(r, base)
  BY <1>1, <1>2, <1>3, ViolationFree
<1>7. base \in Bases
  BY DEF SInv, ChainClean, Bases
<1>8. r \in Reports
  BY <1>6 DEF CleanReport
<1>9. d \in Drafts /\ d.report = r /\ d.base = base
  BY <1>1, <1>7, <1>8, PublisherAssumption DEF Drafts
<1> HIDE DEF r, base, d, seq
<1>10. ChainClean'
  BY <1>4, <1>5, <1>6 DEF SInv, ChainClean, onChainVars, Signature, CleanReport
<1>11. DraftsBuilt'
  BY <1>1, <1>4, <1>5, <1>6, <1>9 DEF SInv, DraftsBuilt, Built, CleanReport
<1> QED
  BY <1>4, <1>10, <1>11 DEF SInv, GridsBuilt, OnePerNumber, Built, CleanReport

LEMMA CosignGrantedKeeps ==
  ASSUME SInv, NEW a \in Honest, NEW b \in Publishers, CosignGranted(a, b)
  PROVE  SInv'
<1>1. a \in Publishers
  BY DEF Honest
<1> DEFINE d == [Asked(a, b) EXCEPT !.signers = @ \cup {b}]
<1>2. drafts[a] \in Drafts /\ Built(drafts[a].report, drafts[a].base)
  BY <1>1 DEF SInv, DraftsBuilt, CosignGranted
<1>3. d \in Drafts /\ d.report = drafts[a].report /\ d.base = drafts[a].base
  BY <1>2 DEF Drafts, Asked
<1>4. /\ drafts' = [drafts EXCEPT ![a] = d]
      /\ signatures' = signatures \cup Signature(drafts[a].report, b)
      /\ UNCHANGED <<now, onChainVars, grids>>
  BY DEF CosignGranted
<1> HIDE DEF d
<1>5. ChainClean'
  BY <1>2, <1>4 DEF SInv, ChainClean, onChainVars, Signature, CleanReport, Built
<1>6. DraftsBuilt'
  BY <1>1, <1>2, <1>3, <1>4 DEF SInv, DraftsBuilt, Built, CleanReport
<1> QED
  BY <1>4, <1>5, <1>6 DEF SInv, GridsBuilt, OnePerNumber, Built, CleanReport

LEMMA CosignRefusedKeeps ==
  ASSUME SInv, NEW a \in Honest, NEW b \in Publishers, CosignRefused(a, b)
  PROVE  SInv'
<1>1. a \in Publishers
  BY DEF Honest
<1> DEFINE d == Asked(a, b)
<1>2. drafts[a] \in Drafts /\ Built(drafts[a].report, drafts[a].base)
  BY <1>1 DEF SInv, DraftsBuilt, CosignRefused
<1>3. d \in Drafts /\ d.report = drafts[a].report /\ d.base = drafts[a].base
  BY <1>2 DEF Drafts, Asked
<1>4. drafts' = [drafts EXCEPT ![a] = d] /\ UNCHANGED <<now, onChainVars, signatures, grids>>
  BY DEF CosignRefused
<1> HIDE DEF d
<1>5. ChainClean'
  BY <1>4 DEF SInv, ChainClean, onChainVars, CleanReport
<1>6. DraftsBuilt'
  BY <1>1, <1>2, <1>3, <1>4 DEF SInv, DraftsBuilt, Built, CleanReport
<1> QED
  BY <1>4, <1>5, <1>6 DEF SInv, GridsBuilt, OnePerNumber, Built, CleanReport

LEMMA FinishKeeps ==
  ASSUME SInv, NEW a \in Honest, Finish(a)
  PROVE  SInv'
<1>1. a \in Publishers
  BY DEF Honest
<1> DEFINE d == drafts[a]
           s == [report |-> d.report, signers |-> d.signers, base |-> d.base]
<1>2. d \in Drafts /\ Built(d.report, d.base)
  BY <1>1 DEF SInv, DraftsBuilt, Finish
<1>3. /\ grids' = IF CheckQuorum(d.signers) THEN [grids EXCEPT ![a] = Remember(a, s)] ELSE grids
      /\ drafts' = [drafts EXCEPT ![a] = NoDraft] /\ UNCHANGED <<now, onChainVars, signatures>>
  BY DEF Finish
<1>4. s \in KeptReports /\ s.report = d.report /\ s.signers = d.signers /\ s.base = d.base
  BY <1>2 DEF Drafts, KeptReports
<1>5. ChainClean'
  BY <1>3 DEF SInv, ChainClean, onChainVars, CleanReport
<1>6. DraftsBuilt'
  BY <1>1, <1>3 DEF SInv, DraftsBuilt, Built, CleanReport
<1>7. CASE ~CheckQuorum(d.signers)
  BY <1>3, <1>5, <1>6, <1>7 DEF SInv, GridsBuilt, OnePerNumber, Built, CleanReport
<1>8. CASE CheckQuorum(d.signers)
  <2>1. Cardinality(d.signers) >= Quorum /\ d.signers \cap Independent # {}
    <3>1. d.signers \in SUBSET Publishers
      BY <1>2 DEF Drafts
    <3>2. IsFiniteSet(d.signers)
      BY <3>1, PublisherAssumption, FS_Subset
    <3>3. d.signers \cap active \in SUBSET d.signers
      OBVIOUS
    <3>4. /\ Cardinality(d.signers \cap active) <= Cardinality(d.signers)
          /\ Cardinality(d.signers \cap active) \in Nat /\ Cardinality(d.signers) \in Nat
      BY <3>2, <3>3, FS_Subset, FS_CardinalityType
    <3> QED
      BY <1>8, <3>4, PublisherAssumption DEF CheckQuorum
  <2>2. \A o \in Remember(a, s) :
          o = s \/ (o \in grids[a] /\ ~(o.report.product = s.report.product /\ o.report.seq = s.report.seq))
    BY DEF Remember, Of
  <2> HIDE DEF d, s
  <2>3. grids' = [grids EXCEPT ![a] = Remember(a, s)]
    BY <1>3, <1>8
  <2>4. \A o \in Remember(a, s) :
          /\ o \in KeptReports /\ Built(o.report, o.base)
          /\ Cardinality(o.signers) >= Quorum /\ o.signers \cap Independent # {}
    BY <1>1, <1>2, <1>4, <2>1, <2>2 DEF SInv, GridsBuilt
  <2>5. grids' \in [Publishers -> SUBSET KeptReports]
    BY <1>1, <2>3, <2>4 DEF SInv, GridsBuilt
  <2>6. \A c \in Publishers : grids'[c] = IF c = a THEN Remember(a, s) ELSE grids[c]
    BY <1>1, <2>3 DEF SInv, GridsBuilt
  <2>7. GridsBuilt'
    BY <1>3, <2>4, <2>5, <2>6 DEF SInv, GridsBuilt, Built, CleanReport
  <2>8. \A o, n \in Remember(a, s) :
          o.report.product = n.report.product /\ o.report.seq = n.report.seq => o = n
    BY <1>1, <2>2 DEF SInv, OnePerNumber
  <2>9. OnePerNumber'
    BY <2>6, <2>8 DEF SInv, OnePerNumber
  <2> QED
    BY <1>5, <1>6, <2>7, <2>9 DEF SInv
<1> QED
  BY <1>7, <1>8

LEMMA UserUpdateKeeps ==
  ASSUME SInv, NEW a \in Honest, NEW p \in Products, UserUpdate(a, p)
  PROVE  SInv'
<1>1. a \in Publishers
  BY DEF Honest
<1>2. \A s \in Served(a, p).reports : s \in grids[a]
  BY DEF Served, Latest, Of
<1>3. \A s \in Served(a, p).reports : CleanReport(s.report)
  BY <1>1, <1>2 DEF SInv, GridsBuilt, Built
<1>4. Apply(Only(Served(a, p), p))
  BY DEF UserUpdate
<1> QED
  BY <1>3, <1>4, ApplyKeeps

LEMMA SubmitKeeps ==
  ASSUME SInv, NEW s \in signatures, Submit(s.report)
  PROVE  SInv'
<1> DEFINE r == s.report
<1>1. CleanReport(r) /\ r.product \in Products
  BY DEF SInv, ChainClean, CleanReport, Reports
<1>2. PICK signers :
        Apply(Only([reports |-> {[report |-> r, signers |-> signers]}, nodes |-> {}], r.product))
  BY DEF Submit
<1> QED
  BY <1>1, <1>2, ApplyKeeps

LEMMA AskCosignKeeps ==
  ASSUME SInv, NEW f \in FaultyPublishers, NEW b \in Publishers, NEW p \in Products,
         AskCosign(f, b, p)
  PROVE  SInv'
<1>1. PICK iv \in Ivs, grid \in Grids, shown \in Grids :
        LET r == Report(p, header[p].seq + 1, iv, grid, f) IN
        /\ r.seq <= MaxSeq
        /\ Cosigns(b, r, shown)
        /\ signatures' = signatures \cup Signature(r, b)
  BY DEF AskCosign
<1> DEFINE seq == header[p].seq + 1
           r == Report(p, seq, iv, grid, f)
<1>2. f \in Publishers
  BY PublisherAssumption
<1>3. seq \in 1..MaxSeq
  <2>1. header[p].seq \in Nat
    BY DEF SInv, ChainClean, Headers, Reports, NoReport
  <2> QED
    BY <1>1, <2>1, PublisherAssumption DEF Report
<1>4. r = [r EXCEPT !.grid = grid] /\ r.grid = grid
  BY DEF Report
<1>5. ~Violations(r)
  BY <1>1, <1>4 DEF Cosigns, RootMatches
<1>6. CleanReport(r)
  BY <1>2, <1>3, <1>5, ViolationFree
<1>7. signatures' = signatures \cup Signature(r, b) /\ UNCHANGED <<now, onChainVars, grids, drafts>>
  BY <1>1 DEF AskCosign
<1> HIDE DEF r
<1>8. ChainClean'
  BY <1>6, <1>7 DEF SInv, ChainClean, onChainVars, Signature, CleanReport
<1> QED
  BY <1>7, <1>8 DEF SInv, DraftsBuilt, GridsBuilt, OnePerNumber, Built, CleanReport

\* Time passes, publishers come and go, modes change, services restart.
LEMMA OtherStepsKeep ==
  ASSUME SInv, \/ SurfaceTick \/ UNCHANGED surfaceVars
               \/ \E a \in Honest : Restart(a)
               \/ \E a \in Publishers : AddPublisher(a) \/ RemovePublisher(a)
               \/ \E p \in Products, on \in BOOLEAN : SetEmergencyMode(p, on)
  PROVE  SInv'
<1>1. CASE UNCHANGED <<now, header, signatures, grids, drafts>>
  BY <1>1 DEF SInv, ChainClean, DraftsBuilt, GridsBuilt, OnePerNumber, Built, CleanReport
<1>2. CASE SurfaceTick
  <2>1. now \in Nat /\ now' = now + 1 /\ UNCHANGED <<header, signatures, grids, drafts>>
    BY <1>2 DEF SurfaceTick, Tick, SInv, ChainClean, serviceVars
  <2>2. \A r, base : Built(r, base) => Built(r, base)'
    BY <2>1 DEF Built, CleanReport, Reports
  <2> QED
    BY <2>1, <2>2 DEF SInv, ChainClean, DraftsBuilt, GridsBuilt, OnePerNumber, CleanReport
<1>3. ASSUME NEW a \in Honest, Restart(a) PROVE SInv'
  <2>1. a \in Publishers
    BY DEF Honest
  <2>2. /\ grids' = [grids EXCEPT ![a] = {}] /\ drafts' = [drafts EXCEPT ![a] = NoDraft]
        /\ UNCHANGED <<now, header, signatures>>
    BY <1>3 DEF Restart, onChainVars
  <2>3. ChainClean' /\ DraftsBuilt'
    BY <2>1, <2>2 DEF SInv, ChainClean, DraftsBuilt, Built, CleanReport
  <2>4. GridsBuilt' /\ OnePerNumber'
    BY <2>1, <2>2 DEF SInv, GridsBuilt, OnePerNumber, Built, CleanReport
  <2> QED
    BY <2>3, <2>4 DEF SInv
<1> QED
  BY <1>1, <1>2, <1>3 DEF surfaceVars, onChainVars, serviceVars, AddPublisher, RemovePublisher, SetEmergencyMode

LEMMA SurfaceInvariant == SurfaceSpec => []SInv
<1>1. SurfaceInit => SInv
  BY DEF SurfaceInit, SInv, ChainClean, DraftsBuilt, GridsBuilt, OnePerNumber, Headers, NoReport
<1>2. SInv /\ [\E p \in Products : SurfaceNext(p)]_surfaceVars => SInv'
  <2> SUFFICES ASSUME SInv, [\E p \in Products : SurfaceNext(p)]_surfaceVars PROVE SInv'
    OBVIOUS
  <2>1. CASE UNCHANGED surfaceVars
    BY <2>1, OtherStepsKeep
  <2>2. ASSUME NEW p \in Products, ServiceNext(p) PROVE SInv'
    BY <2>2, BuildKeeps, FinishKeeps, UserUpdateKeeps, CosignGrantedKeeps, CosignRefusedKeeps DEF ServiceNext
  <2>3. ASSUME NEW p \in Products, SurfaceNext(p), ~ServiceNext(p) PROVE SInv'
    BY <2>3, OtherStepsKeep, SubmitKeeps, AskCosignKeeps DEF SurfaceNext
  <2> QED
    BY <2>1, <2>2, <2>3
<1> QED
  BY <1>1, <1>2, PTL DEF SurfaceSpec

\* What a service serves applies, as far as the header, the signers and the mode
\* are those it was made for.
LEMMA ServedIsAccepted ==
  ASSUME SInv, NEW a \in Honest, NEW p \in Products,
         \A s \in Served(a, p).nodes : /\ s.signers \subseteq active
                                       /\ header[p] \in {s.base.header, s.report}
                                       /\ s.base.waived => p \in emergency
  PROVE  Applies(Served(a, p), p)
<1> DEFINE u == Served(a, p)
           newer == {s \in Latest(a, p) : s.report.seq > header[p].seq /\ s.report.expiresAt > now}
<1>1. a \in Publishers
  BY DEF Honest
<1>2. u = IF newer # {} THEN [reports |-> newer, nodes |-> newer]
          ELSE [reports |-> {}, nodes |-> SignedAt(a, p, header[p].seq)]
  BY DEF Served
<1>3. \A s \in grids[a] : /\ s.report \in Reports /\ s.report.grid = "clean" /\ Built(s.report, s.base)
                          /\ Cardinality(s.signers) >= Quorum /\ s.signers \cap Independent # {}
  BY <1>1 DEF SInv, GridsBuilt, Built, CleanReport
<1>4. now \in Nat
  BY DEF SInv, ChainClean
<1>5. CASE newer = {}
  <2>1. u.reports = {} /\ u.nodes = SignedAt(a, p, header[p].seq)
    BY <1>2, <1>5
  <2> HIDE DEF newer
  <2>2. After(u, p) = header[p]
    BY <2>1, AfterIs
  <2>3. ASSUME NEW s \in u.nodes PROVE Provable(s.report, header[p])
    <3>1. s \in grids[a] /\ s.report.seq = header[p].seq
      BY <2>1, <2>3 DEF SignedAt, Of
    <3>2. s.report.seq \in Nat /\ s.report.seq > s.base.header.seq
      BY <1>3, <3>1 DEF Built, Reports
    <3>3. header[p] # s.base.header
      BY <3>1, <3>2
    <3>4. header[p] = s.report
      BY <2>3, <3>3
    <3> QED
      BY <1>3, <3>1, <3>4 DEF Provable
  <2> QED
    BY <2>1, <2>2, <2>3 DEF Applies
<1>6. CASE newer # {}
  <2>1. u.reports = newer /\ u.nodes = newer
    BY <1>2, <1>6
  <2>2. \A s \in newer : /\ s \in grids[a] /\ s.report.product = p /\ s \in Of(a, p)
                         /\ \A o \in Of(a, p) : o.report.seq <= s.report.seq
                         /\ s.report.seq > header[p].seq /\ s.report.expiresAt > now
    BY DEF Latest, Of
  <2>3. \A s, o \in newer : s = o
    <3> SUFFICES ASSUME NEW s \in newer, NEW o \in newer PROVE s = o
      OBVIOUS
    <3>1. s.report.seq <= o.report.seq /\ o.report.seq <= s.report.seq
      BY <2>2
    <3>2. s.report.seq \in Nat /\ o.report.seq \in Nat
      BY <1>3, <2>2 DEF Reports
    <3> QED
      BY <1>1, <2>2, <3>1, <3>2 DEF SInv, OnePerNumber
  <2>4. PICK s \in newer : newer = {s}
    BY <1>6, <2>3
  <2>5. s \in grids[a] /\ s.report.product = p /\ s.report.seq > header[p].seq /\ now < s.report.expiresAt
    BY <1>3, <1>4, <2>2 DEF Reports
  <2>6. s.signers \subseteq active /\ header[p] \in {s.base.header, s.report} /\ (s.base.waived => p \in emergency)
    BY <2>1
  <2> HIDE DEF newer
  <2>7. header[p] = s.base.header
    <3>1. s.report.seq \in Nat
      BY <1>3, <2>5 DEF Reports
    <3> QED
      BY <2>5, <2>6, <3>1
  <2> DEFINE r == s.report
  <2>8. r \in Reports /\ r.grid = "clean" /\ Built(r, s.base)
    BY <1>3, <2>5
  <2>9. InSequence(r)
    BY <2>5, <2>7, <2>8 DEF InSequence, Built
  <2>10. InTime(r)
    <3>1. r.validAfter \in Nat /\ r.validAfter <= now /\ r.expiresAt = r.validAfter + MaxReportLifetime
      BY <2>8 DEF Built, Reports
    <3> QED
      BY <2>5, <3>1, PublisherAssumption DEF InTime
  <2>11. MoveAllowed(r)
    BY <2>5, <2>6, <2>7, <2>8 DEF MoveAllowed, Built
  <2>12. Acceptable(r)
    BY <2>8, <2>9, <2>10, <2>11 DEF Acceptable
  <2>13. SignaturesValid(s.signers)
    BY <1>3, <2>5, <2>6 DEF SignaturesValid
  <2>14. After(u, p) = r
    <3>1. {o \in u.reports : o.report.seq > header[p].seq} = {s}
      BY <2>1, <2>4, <2>5
    <3> HIDE DEF u
    <3>2. {o.report : o \in {o \in u.reports : o.report.seq > header[p].seq}} = {r}
      BY <3>1
    <3> QED
      BY <3>2 DEF After
  <2>15. Provable(r, After(u, p))
    BY <2>8, <2>14 DEF Provable
  <2> QED
    BY <2>1, <2>4, <2>12, <2>13, <2>15 DEF Applies
<1> QED
  BY <1>5, <1>6

\* For any publishers of which fewer than a quorum are faulty, any products and
\* any interleaving of their services with the chain: an accepted surface is clean,
\* and what a service serves is accepted (publisher.ts, VolSurfaceOracle.sol:
\* submitReport, proveNodes).
THEOREM SurfacesStayClean == SurfaceSpec => []SurfacesClean
<1>1. SInv => SurfacesClean
  <2> SUFFICES ASSUME SInv PROVE SurfacesClean
    OBVIOUS
  <2>1. AcceptedIsClean
    BY DEF SInv, ChainClean, CleanReport, AcceptedIsClean
  <2>2. ServedApplies
    BY ServedIsAccepted DEF ServedApplies
  <2> QED
    BY <2>1, <2>2 DEF SurfacesClean
<1> QED
  BY <1>1, SurfaceInvariant, PTL

=============================================================================
