---------------------------- MODULE OptaraProofs ----------------------------
(***************************************************************************)
(* The core protocol is type-correct, for every set of accounts and series, *)
(* every pricer, and every value of the risk, fee and settlement parameters *)
(* that satisfies the assumptions of the modules; and what the ledger and  *)
(* the custody owe each other.  Until its group is finalized, every wrapper *)
(* and every internal long of a series is matched by a short; and the      *)
(* tokens in custody are exactly the account cash and the group pools.     *)
(*                                                                         *)
(* What settlement fixes and pays.  Each group is followed on its own: a   *)
(* step is one of its settlement actions or leaves it calm.  When a group  *)
(* is finalized, backing makes the net payoffs of its accounts add up to   *)
(* minus the wrappers' claim; settling the accounts one by one turns that  *)
(* sum into debts and credits, the ratio shares the pool among the claims, *)
(* and every payout takes no more than its share.                          *)
(*                                                                         *)
(* What the risk engine's values do under a transaction.  Equity and the   *)
(* value of a bucket in each scenario are linear in the balances, so what  *)
(* leaves one account arrives at the other, more of a series hurts nobody, *)
(* and every transaction lowers an account's health only within the rules. *)
(***************************************************************************)
EXTENDS Optara, SumsProofs

-----------------------------------------------------------------------------
(* The numbers the risk engine returns: equities are integers, margins are *)
(* naturals, whatever the scenario sets and the pricer.                    *)

BalanceTable == [Accounts -> [Series -> Int]]

\* What a valuation reads, beyond the tables it is given.
Readable ==
  /\ spot \in [Underlyings -> Prices]
  /\ \A g \in Groups : groups[g].price \in Nat

-----------------------------------------------------------------------------
(* Finite sets *)

\* A finite set of integers has a greatest element, and Max chooses it: among
\* the sets of larger elements, one is minimal for strict inclusion.
LEMMA FiniteMax ==
  ASSUME NEW S \in SUBSET Int, IsFiniteSet(S), S # {}
  PROVE  Max(S) \in S /\ \A y \in S : Max(S) >= y
<1> DEFINE Above(x) == {y \in S : y > x}
           T == {Above(x) : x \in S}
<1>1. IsWellFoundedOn(StrictSubsetOrdering(S), FiniteSubsetsOf(S))
  BY FS_StrictSubsetOrderingWellFounded
<1>2. \A x \in S : Above(x) \in SUBSET S /\ IsFiniteSet(Above(x))
  BY FS_Subset
<1>3. ASSUME NEW x \in S, NEW y \in S, y > x
      PROVE  <<Above(y), Above(x)>> \in StrictSubsetOrdering(S)
  <2> HIDE DEF T
  <2>1. \A z \in S : z \in Int
    OBVIOUS
  <2>2. ASSUME NEW z \in S, z > y PROVE z > x
    BY <2>1, <2>2, <1>3
  <2>3. Above(y) \subseteq Above(x)
    BY <2>2
  <2>4. y \in Above(x) /\ y \notin Above(y)
    BY <2>1, <1>3
  <2> QED
    BY <2>3, <2>4, <1>2 DEF StrictSubsetOrdering
<1> HIDE DEF Above
<1>4. T \subseteq FiniteSubsetsOf(S) /\ T # {}
  BY <1>2 DEF FiniteSubsetsOf
<1>5. PICK m \in T : \A U \in T : ~(<<U, m>> \in StrictSubsetOrdering(S))
  <2> HIDE DEF T
  <2> QED BY <1>1, <1>4, WFMin
<1>6. PICK x \in S : m = Above(x)
  OBVIOUS
<1>7. \A y \in S : ~(y > x)
  BY <1>3, <1>5, <1>6
<1>8. \A y \in S : x >= y
  BY <1>7
<1> QED
  BY <1>8 DEF Max

\* The underlyings and the groups of finitely many series are finite.
LEMMA IndexesFinite ==
  /\ IsFiniteSet(Accounts) /\ IsFiniteSet(Series)
  /\ IsFiniteSet(Underlyings) /\ IsFiniteSet(Groups)
<1>1. [s \in Series |-> Info[s].underlying] \in Surjection(Series, Underlyings)
  BY DEF Surjection, Underlyings
<1>2. [s \in Series |-> Info[s].group] \in Surjection(Series, Groups)
  BY DEF Surjection, Groups
<1> QED
  BY <1>1, <1>2, FS_Surjection, BookAssumption

\* A signed sum of integers is an integer.
LEMMA SignedTotalType ==
  ASSUME NEW S, IsFiniteSet(S), NEW f, \A x \in S : f[x] \in Int
  PROVE  SignedTotal(S, f) \in Int
<1> DEFINE p == [x \in S |-> Pos(f[x])]
           n == [x \in S |-> Neg(f[x])]
<1>1. \A x \in S : p[x] \in Nat /\ n[x] \in Nat
  BY DEF Pos, Neg
<1>2. Total(S, p) \in Nat /\ Total(S, n) \in Nat
  <2> HIDE DEF p, n
  <2> QED BY <1>1, TotalType
<1> QED
  BY <1>2 DEF SignedTotal
-----------------------------------------------------------------------------
(* Prices and values *)

LEMMA IntrinsicType ==
  ASSUME NEW s \in Series, NEW p \in Int
  PROVE  Intrinsic(s, p) \in Nat
BY ProtocolAssumption DEF Intrinsic, Pos

\* A shocked spot is priced by the engine's pricer, or by the payoff.
LEMMA LivePriceType ==
  ASSUME Readable, NEW s \in Series, NEW u \in Underlyings,
         NEW sh \in {0} \cup MaintenanceSet \cup InitialSet
  PROVE  LivePrice(s, Shock(spot[u], sh)) \in Nat
<1>1. spot[u] \in Prices /\ spot[u] \in Nat
  BY ProtocolAssumption DEF Readable
<1>2. Shock(spot[u], sh) \in SpotDomain
  BY <1>1 DEF SpotDomain
<1>3. Shock(spot[u], sh) \in Int
  <2>1. sh \in Int
    BY ProtocolAssumption
  <2>2. spot[u] * (Bps + sh) \in Int
    BY <1>1, <2>1, ProtocolAssumption
  <2> QED
    BY <2>2, ProtocolAssumption DEF Shock
<1>4. Black76(s, Shock(spot[u], sh)) \in Nat
  BY <1>2, ProtocolAssumption
<1> QED
  BY <1>3, <1>4, IntrinsicType DEF LivePrice

\* The legs of a bucket are finitely many.
LEMMA LegsFinite ==
  ASSUME NEW b, NEW a, NEW u
  PROVE  /\ IsFiniteSet(InBucket(b, a, u))
         /\ LiveLegs(b, a, u) \subseteq Series /\ IsFiniteSet(LiveLegs(b, a, u))
         /\ FinalLegs(b, a, u) \subseteq Series /\ IsFiniteSet(FinalLegs(b, a, u))
<1>1. /\ InBucket(b, a, u) \subseteq Series
      /\ LiveLegs(b, a, u) \subseteq Series
      /\ FinalLegs(b, a, u) \subseteq Series
  BY DEF Held, InBucket, LiveLegs, FinalLegs
<1> QED
  BY <1>1, IndexesFinite, FS_Subset

LEMMA LegValueType ==
  ASSUME NEW b \in BalanceTable, NEW a \in Accounts, NEW s \in Series, NEW p \in Int
  PROVE  LegValue(b, a, s, p) \in Int
BY BookAssumption DEF LegValue, BalanceTable

LEMMA ScenarioValueType ==
  ASSUME Readable, NEW b \in BalanceTable, NEW a \in Accounts,
         NEW u \in Underlyings,
         NEW sh \in {0} \cup MaintenanceSet \cup InitialSet
  PROVE  ScenarioValue(b, a, u, sh) \in Int
<1> DEFINE L == LiveLegs(b, a, u)
           f == [s \in L |-> LegValue(b, a, s, LivePrice(s, Shock(spot[u], sh)))]
<1>1. L \subseteq Series /\ IsFiniteSet(L)
  BY LegsFinite
<1>2. \A s \in L : f[s] \in Int
  BY <1>1, LivePriceType, LegValueType
<1>3. SignedTotal(L, f) \in Int
  <2> HIDE DEF L, f
  <2> QED BY <1>1, <1>2, SignedTotalType
<1> QED
  BY <1>3 DEF ScenarioValue

LEMMA FinalValueType ==
  ASSUME Readable, NEW b \in BalanceTable, NEW a \in Accounts,
         NEW u \in Underlyings
  PROVE  FinalValue(b, a, u) \in Int
<1> DEFINE L == FinalLegs(b, a, u)
           f == [s \in L |->
                   LegValue(b, a, s, Intrinsic(s, groups[Info[s].group].price))]
<1>1. L \subseteq Series /\ IsFiniteSet(L)
  BY LegsFinite
<1>2. ASSUME NEW s \in Series
      PROVE  Intrinsic(s, groups[Info[s].group].price) \in Nat
  BY IntrinsicType DEF Readable, Groups
<1>3. \A s \in L : f[s] \in Int
  BY <1>1, <1>2, LegValueType
<1>4. SignedTotal(L, f) \in Int
  <2> HIDE DEF L, f
  <2> QED BY <1>1, <1>3, SignedTotalType
<1> QED
  BY <1>4 DEF FinalValue

-----------------------------------------------------------------------------
(* Equity and margin *)

LEMMA EquityType ==
  ASSUME Readable, NEW c \in [Accounts -> Int], NEW b \in BalanceTable,
         NEW a \in Accounts
  PROVE  Equity(c, b, a) \in Int
<1> DEFINE f == [u \in Underlyings |-> BaseValue(b, a, u) + FinalValue(b, a, u)]
<1>1. \A u \in Underlyings : f[u] \in Int
  BY ScenarioValueType, FinalValueType DEF BaseValue
<1>2. SignedTotal(Underlyings, f) \in Int
  <2> HIDE DEF f
  <2> QED BY <1>1, IndexesFinite, SignedTotalType
<1>3. c[a] * Denom \in Int
  BY ProtocolAssumption
<1> QED
  BY <1>2, <1>3 DEF Equity

\* The worst of finitely many losses and zero is a natural.
LEMMA WorstLossType ==
  ASSUME Readable, NEW b \in BalanceTable, NEW a \in Accounts,
         NEW u \in Underlyings,
         NEW set \in SUBSET (MaintenanceSet \cup InitialSet)
  PROVE  WorstLoss(b, a, u, set) \in Nat
<1> DEFINE loss == [sh \in set |-> BaseValue(b, a, u) - ScenarioValue(b, a, u, sh)]
           L == {loss[sh] : sh \in set}
           S == {0} \cup L
<1>1. \A sh \in set : loss[sh] \in Int
  <2>1. BaseValue(b, a, u) \in Int
    BY ScenarioValueType DEF BaseValue
  <2>2. \A sh \in set : ScenarioValue(b, a, u, sh) \in Int
    BY ScenarioValueType
  <2> QED BY <2>1, <2>2
<1>2. IsFiniteSet(set)
  BY FS_Subset, ProtocolAssumption
<1>3. IsFiniteSet(L)
  <2>1. loss \in Surjection(set, L)
    BY DEF Surjection
  <2> QED BY <2>1, <1>2, FS_Surjection
<1>4. S \in SUBSET Int /\ IsFiniteSet(S) /\ 0 \in S
  <2>1. IsFiniteSet(L \cup {0})
    BY <1>3, FS_AddElement
  <2>2. S = L \cup {0}
    OBVIOUS
  <2> QED BY <1>1, <2>1, <2>2
<1>5. Max(S) \in S /\ Max(S) >= 0
  <2> HIDE DEF S
  <2> QED BY <1>4, FiniteMax
<1>6. Max(S) \in Nat
  <2> HIDE DEF S
  <2>1. Max(S) \in Int
    BY <1>4, <1>5
  <2> QED BY <2>1, <1>5
<1>7. S = {0} \cup {BaseValue(b, a, u) - ScenarioValue(b, a, u, sh) : sh \in set}
  OBVIOUS
<1> HIDE DEF S
<1> QED
  BY <1>6, <1>7 DEF WorstLoss

LEMMA MaintenanceMarginType ==
  ASSUME Readable, NEW b \in BalanceTable, NEW a \in Accounts
  PROVE  MaintenanceMargin(b, a) \in Nat
<1> DEFINE f == [u \in Underlyings |-> WorstLoss(b, a, u, MaintenanceSet)]
<1>1. \A u \in Underlyings : f[u] \in Nat
  BY WorstLossType
<1>2. Total(Underlyings, f) \in Nat
  <2> HIDE DEF f
  <2> QED BY <1>1, IndexesFinite, TotalType
<1> QED
  BY <1>2 DEF MaintenanceMargin

-----------------------------------------------------------------------------
(* Types of the helpers *)

LEMMA DivUpType ==
  ASSUME NEW b \in Nat \ {0}
  PROVE  /\ \A a \in Int : DivUp(a, b) \in Int
         /\ \A a \in Nat : DivUp(a, b) \in Nat
BY DEF DivUp

LEMMA MovedType ==
  ASSUME NEW b \in BalanceTable, NEW a \in Accounts, NEW s \in Series,
         NEW delta \in Int
  PROVE  Moved(b, a, s, delta) \in BalanceTable
BY DEF Moved, BalanceTable

\* A type-correct state can be valued.
LEMMA ReadableType ==
  ASSUME TypeOK
  PROVE  Readable /\ balances \in BalanceTable
BY DEF TypeOK, Readable, BalanceTable, AccountingType

LEMMA PayoffType ==
  ASSUME NEW s \in Series, NEW p \in Nat
  PROVE  UnitPayoff(s, p) \in Nat
BY IntrinsicType, BookAssumption DEF UnitPayoff

LEMMA SeriesInFinite ==
  ASSUME NEW g
  PROVE  SeriesIn(g) \subseteq Series /\ IsFiniteSet(SeriesIn(g))
BY IndexesFinite, FS_Subset DEF SeriesIn

\* A bonus is never negative once the auction has started.
LEMMA BonusType ==
  ASSUME now \in Nat, NEW start \in Nat, start <= now
  PROVE  Bonus(start) \in Nat
<1> DEFINE growth == (MaxBonusBps - StartBonusBps) * (now - start)
<1>1. growth \in Nat
  BY LiquidationAssumption
<1>2. growth \div AuctionDuration \in Nat
  <2> HIDE DEF growth
  <2> QED BY <1>1, LiquidationAssumption
<1>3. CASE start = 0
  BY <1>3, LiquidationAssumption DEF Bonus
<1>4. CASE start # 0
  BY <1>2, <1>4, LiquidationAssumption DEF Bonus
<1> QED
  BY <1>3, <1>4

LEMMA AtMostType ==
  ASSUME NEW a \in Int, NEW b \in Int
  PROVE  /\ AtMost(a, b) \in Int /\ AtMost(a, b) <= a /\ AtMost(a, b) <= b
         /\ (a >= 0 /\ b >= 0) => AtMost(a, b) >= 0
BY DEF AtMost

\* The cash flows of a liquidation: nobody pays more than he has.
LEMMA FlowsType ==
  ASSUME NEW mark \in Int, NEW sliceMM \in Nat, NEW bonus \in Nat,
         NEW available \in Nat, insurance \in Nat
  PROVE  LET f == Flows(mark, sliceMM, bonus, available)
         IN /\ f.fromAccount \in Nat /\ f.fromAccount <= available
            /\ f.topUp \in Nat /\ f.topUp <= insurance
            /\ f.fromLiquidator \in Nat
            /\ f.penalty \in Nat
            /\ f.penalty <= available - f.fromAccount + f.fromLiquidator
<1> DEFINE discount == DivUp(sliceMM * bonus, Bps)
           owed     == IF mark < 0 THEN DivUp(discount - mark, Denom) ELSE 0
           fromLiq  == IF mark < 0 THEN 0 ELSE Pos(mark - discount) \div Denom
           penalty  == DivUp(DivUp(sliceMM * LiquidationPenaltyBps, Bps), Denom)
           paid     == AtMost(owed, available)
           cap      == AtMost(MaxInsurance, insurance)
<1>1. discount \in Nat
  <2>1. sliceMM * bonus \in Nat
    OBVIOUS
  <2> QED BY <2>1, DivUpType, ProtocolAssumption
<1>2. owed \in Nat
  <2> HIDE DEF discount
  <2>1. CASE mark < 0
    <3>1. discount - mark \in Nat
      BY <1>1, <2>1
    <3> QED BY <2>1, <3>1, DivUpType, ProtocolAssumption
  <2> QED BY <2>1
<1>3. fromLiq \in Nat
  <2> HIDE DEF discount
  <2>1. Pos(mark - discount) \in Nat
    BY <1>1 DEF Pos
  <2> QED BY <2>1, ProtocolAssumption
<1>4. penalty \in Nat
  <2>1. sliceMM * LiquidationPenaltyBps \in Nat
    BY LiquidationAssumption
  <2>2. DivUp(sliceMM * LiquidationPenaltyBps, Bps) \in Nat
    BY <2>1, DivUpType, ProtocolAssumption
  <2> QED BY <2>2, DivUpType, ProtocolAssumption
<1>5. Flows(mark, sliceMM, bonus, available) =
        [fromAccount |-> paid, topUp |-> AtMost(owed - paid, cap),
         fromLiquidator |-> fromLiq,
         penalty |-> AtMost(penalty, available - paid + fromLiq)]
  BY DEF Flows
<1> HIDE DEF discount, owed, fromLiq, penalty
<1>6. paid \in Nat /\ paid <= available /\ paid <= owed
  BY <1>2 DEF AtMost
<1>7. cap \in Nat /\ cap <= insurance
  BY LiquidationAssumption DEF AtMost
<1> HIDE DEF paid, cap
<1>8. AtMost(owed - paid, cap) \in Nat /\ AtMost(owed - paid, cap) <= insurance
  BY <1>2, <1>6, <1>7 DEF AtMost
<1>9. /\ AtMost(penalty, available - paid + fromLiq) \in Nat
      /\ AtMost(penalty, available - paid + fromLiq) <= available - paid + fromLiq
  BY <1>3, <1>4, <1>6 DEF AtMost
<1> QED
  BY <1>3, <1>5, <1>6, <1>8, <1>9

-----------------------------------------------------------------------------
(* Type correctness.  Bonuses are natural because no auction lies in the   *)
(* future, so the two are proved together.                                  *)

AuctionsPast ==
  \A a \in Accounts, u \in Underlyings : auctions[a][u] <= now

IType == TypeOK /\ AuctionsPast

LEMMA InitType == Init => IType
<1> SUFFICES ASSUME Init PROVE IType
  OBVIOUS
<1>1. custody \in Int
  BY TotalType, IndexesFinite, OptaraAssumption DEF Init
<1>2. groups \in [Groups -> AccountingType]
  <2>1. NoAccounting \in AccountingType
    BY DEF NoAccounting, AccountingType
  <2> QED BY <2>1 DEF Init
<1>3. TypeOK
  BY <1>1, <1>2, OptaraAssumption DEF Init, TypeOK, SurfaceStatuses
<1>4. AuctionsPast
  BY DEF Init, AuctionsPast
<1> QED
  BY <1>3, <1>4 DEF IType

\* The price of the mint is read where the pricer is defined.
LEMMA SellerFeeType ==
  ASSUME Readable, NEW s \in Series, NEW qty \in Nat
  PROVE  SellerFee(s, qty) \in Nat
<1> DEFINE p == spot[Info[s].underlying]
           mark == qty * Info[s].size * Black76(s, p) * SellerFeeBps
<1>1. p \in Prices /\ p \in Nat
  BY ProtocolAssumption DEF Readable, Underlyings
<1>2. p \in SpotDomain
  <2>1. Shock(p, 0) = p
    <3> HIDE DEF p
    <3>1. (p * Bps) \div Bps = p
      BY <1>1, ProtocolAssumption
    <3> QED BY <3>1, <1>1, ProtocolAssumption DEF Shock
  <2> QED BY <1>1, <2>1 DEF SpotDomain
<1>3. mark \in Nat
  <2>1. Black76(s, p) \in Nat
    BY <1>2, ProtocolAssumption
  <2>2. Info[s].size \in Nat /\ SellerFeeBps \in Nat
    BY BookAssumption, ClearingAssumption
  <2> HIDE DEF p
  <2>3. qty * Info[s].size \in Nat
    BY <2>2
  <2>4. qty * Info[s].size * Black76(s, p) \in Nat
    BY <2>1, <2>3
  <2> QED BY <2>2, <2>4
<1> HIDE DEF mark
<1>4. DivUp(mark, Bps * Denom) \in Nat
  <2>1. Bps * Denom \in Nat \ {0}
    BY ProtocolAssumption
  <2> QED BY <1>3, <2>1, DivUpType
<1>5. SellerFee(s, qty) = AtLeast(MinSellerFee, DivUp(mark, Bps * Denom))
  BY DEF SellerFee, mark
<1> QED
  BY <1>4, <1>5, ClearingAssumption DEF AtLeast

\* The three shares of a fee are natural and add up to the fee.
LEMMA FeeSplit ==
  ASSUME NEW fee \in Nat
  PROVE  LET toInsurance == (fee * InsuranceSplitBps) \div Bps
             toKeeper    == (fee * KeeperSplitBps) \div Bps
         IN /\ toInsurance \in Nat /\ toKeeper \in Nat
            /\ fee - toInsurance - toKeeper \in Nat
<1> DEFINE i == fee * InsuranceSplitBps
           k == fee * KeeperSplitBps
<1>1. i \in Nat /\ k \in Nat
  BY ClearingAssumption
<1>2. i + k <= fee * Bps
  <2>1. i + k = fee * (InsuranceSplitBps + KeeperSplitBps)
    BY ClearingAssumption
  <2> QED BY <2>1, ClearingAssumption, ProtocolAssumption
<1> HIDE DEF i, k
<1>3. i \div Bps \in Nat /\ k \div Bps \in Nat
  BY <1>1, ProtocolAssumption
<1>4. (i \div Bps) * Bps <= i /\ (k \div Bps) * Bps <= k
  BY <1>1, ProtocolAssumption
<1>5. ((i \div Bps) + (k \div Bps)) * Bps <= fee * Bps
  BY <1>1, <1>2, <1>3, <1>4, ProtocolAssumption
<1>6. (i \div Bps) + (k \div Bps) <= fee
  BY <1>3, <1>5, ProtocolAssumption
<1> QED
  BY <1>3, <1>6 DEF i, k

LEMMA ClearingType ==
  ASSUME TypeOK, ClearingStep
  PROVE  TypeOK'
<1>1. balances \in BalanceTable /\ Readable
  BY ReadableType
<1>2. Amounts \subseteq Nat /\ 1..MaxQty \subseteq Nat
  BY ClearingAssumption
<1>4. ASSUME NEW a \in Accounts, NEW amount \in Amounts,
             DepositCollateral(a, amount)
      PROVE  TypeOK'
  BY <1>2, <1>4 DEF TypeOK, DepositCollateral, Credit, marketVars, surfaceVars, controlVars,
     feeVars, settlementVars
<1>5. ASSUME NEW a \in Accounts, NEW amount \in Amounts,
             WithdrawCollateral(a, amount)
      PROVE  TypeOK'
  BY <1>2, <1>5 DEF TypeOK, WithdrawCollateral, Debit, marketVars, surfaceVars, controlVars,
     feeVars, settlementVars
<1>6. ASSUME NEW a \in Accounts, NEW s \in Series, NEW qty \in 1..MaxQty,
             MintExternalLong(a, s, qty)
      PROVE  TypeOK'
  <2> DEFINE fee == SellerFee(s, qty)
             toInsurance == (fee * InsuranceSplitBps) \div Bps
             toKeeper    == (fee * KeeperSplitBps) \div Bps
  <2>1. fee \in Nat
    BY <1>1, <1>2, SellerFeeType
  <2>2. /\ toInsurance \in Nat /\ toKeeper \in Nat
        /\ fee - toInsurance - toKeeper \in Nat
    BY <2>1, FeeSplit
  <2>3. /\ fee <= cash[a]
        /\ cash' = Debit(cash, a, fee) /\ custody' = custody - fee
        /\ insurance' = insurance + toInsurance
        /\ keeperReserve' = keeperReserve + toKeeper
        /\ treasury' = treasury + (fee - toInsurance - toKeeper)
    BY <1>6 DEF MintExternalLong, ChargeFee, CollectFee
  <2>4. balances' \in BalanceTable
    BY <1>1, <1>2, <1>6, MovedType DEF MintExternalLong
  <2>5. supply' \in [Series -> Nat]
    BY <1>2, <1>6 DEF MintExternalLong, MintWrapper, TypeOK
  <2>6. UNCHANGED <<marketVars, controlVars, settlementVars, auctions>>
    BY <1>6 DEF MintExternalLong
  <2> HIDE DEF fee, toInsurance, toKeeper
  <2>7. cash' \in [Accounts -> Nat]
    BY <2>1, <2>3 DEF TypeOK, Debit
  <2>8. /\ custody' \in Int /\ insurance' \in Nat
        /\ keeperReserve' \in Nat /\ treasury' \in Nat
    BY <2>1, <2>2, <2>3 DEF TypeOK
  <2> QED
    BY <2>4, <2>5, <2>6, <2>7, <2>8
       DEF TypeOK, BalanceTable, marketVars, surfaceVars, controlVars, settlementVars
<1>7. ASSUME NEW a \in Accounts, NEW s \in Series, NEW qty \in 1..MaxQty,
             \/ WrapLong(a, s, qty)
             \/ UnwrapLong(a, s, qty)
             \/ CloseShortWithWrapper(a, s, qty)
      PROVE  TypeOK'
  <2>1. balances' \in BalanceTable
    BY <1>1, <1>2, <1>7, MovedType
       DEF WrapLong, UnwrapLong, CloseShortWithWrapper
  <2>2. supply' \in [Series -> Nat]
    BY <1>2, <1>7 DEF WrapLong, UnwrapLong, CloseShortWithWrapper, MintWrapper,
       BurnWrapper, TypeOK
  <2>3. UNCHANGED <<marketVars, controlVars, cash, custody, insurance, feeVars,
                    settlementVars, auctions>>
    BY <1>7 DEF WrapLong, UnwrapLong, CloseShortWithWrapper
  <2> QED
    BY <2>1, <2>2, <2>3
       DEF TypeOK, BalanceTable, marketVars, surfaceVars, controlVars, feeVars, settlementVars
<1>8. ASSUME NEW from \in Accounts, NEW to \in Accounts, NEW s \in Series,
             NEW qty \in 1..MaxQty,
             CloseShortWithInternalLong(from, to, s, qty)
      PROVE  TypeOK'
  <2>1. balances' \in BalanceTable
    <3>1. Moved(balances, from, s, -qty) \in BalanceTable
      BY <1>1, <1>2, MovedType
    <3> QED BY <1>2, <1>8, <3>1, MovedType DEF CloseShortWithInternalLong
  <2>2. UNCHANGED <<marketVars, controlVars, cash, supply, custody, insurance,
                    feeVars, settlementVars, auctions>>
    BY <1>8 DEF CloseShortWithInternalLong
  <2> QED
    BY <2>1, <2>2
       DEF TypeOK, BalanceTable, marketVars, surfaceVars, controlVars, feeVars, settlementVars
<1> QED
  BY <1>4, <1>5, <1>6, <1>7, <1>8 DEF ClearingStep

-----------------------------------------------------------------------------
(* Type correctness: settlement *)

\* The cap takes the least of some naturals.
LEMMA CappedPriceType ==
  ASSUME NEW g, NEW price \in Nat
  PROVE  CappedPrice(g, price) \in Nat
<1> DEFINE A == {price} \cup {MaxUnitPayoff \div Info[s].size : s \in SeriesIn(g)}
<1>1. A \subseteq Nat /\ A # {}
  <2>1. \A s \in SeriesIn(g) : MaxUnitPayoff \div Info[s].size \in Nat
    BY BookAssumption, SettlementAssumption DEF SeriesIn
  <2> QED BY <2>1
<1> HIDE DEF A
<1>2. PICK m \in A : \A q \in A : ~(<<q, m>> \in OpToRel(<, Nat))
  BY <1>1, NatLessThanWellFounded, WFMin
<1>3. \A q \in A : m <= q
  <2>1. OpToRel(<, Nat) = {ss \in Nat \X Nat : ss[1] < ss[2]}
    BY DEF OpToRel
  <2>2. \A x, y \in Nat : x < y => <<x, y>> \in OpToRel(<, Nat)
    BY <2>1
  <2>3. \A q \in A : ~(q < m)
    BY <1>1, <1>2, <2>2
  <2> QED BY <1>1, <2>3
<1>4. (CHOOSE p \in A : \A q \in A : p <= q) \in A
  BY <1>3
<1>5. CappedPrice(g, price) = CHOOSE p \in A : \A q \in A : p <= q
  BY DEF CappedPrice, A
<1> QED
  BY <1>1, <1>4, <1>5

LEMMA WrapperClaimType ==
  ASSUME supply \in [Series -> Nat], NEW g, NEW price \in Nat
  PROVE  WrapperClaim(g, price) \in Nat
<1> DEFINE f == [s \in Series |-> supply[s] * UnitPayoff(s, price)]
<1>1. \A s \in SeriesIn(g) : f[s] \in Nat
  BY PayoffType, SeriesInFinite
<1>2. Total(SeriesIn(g), f) \in Nat
  <2> HIDE DEF f
  <2> QED BY <1>1, SeriesInFinite, TotalType
<1> QED
  BY <1>2 DEF WrapperClaim

LEMMA NetType ==
  ASSUME TypeOK, NEW a \in Accounts, NEW g \in Groups
  PROVE  Net(a, g) \in Int /\ DebtOf(Net(a, g)) \in Nat
<1> DEFINE f == [s \in Series |-> balances[a][s] * UnitPayoff(s, groups[g].price)]
<1>1. groups[g].price \in Nat
  BY DEF TypeOK, AccountingType
<1>2. \A s \in SeriesIn(g) : f[s] \in Int
  BY <1>1, PayoffType, SeriesInFinite DEF TypeOK
<1>3. SignedTotal(SeriesIn(g), f) \in Int
  <2> HIDE DEF f
  <2> QED BY <1>2, SeriesInFinite, SignedTotalType
<1>4. Net(a, g) \in Int
  BY <1>3 DEF Net
<1>5. Neg(Net(a, g)) \in Nat
  BY <1>4 DEF Neg
<1> QED
  BY <1>4, <1>5, DivUpType, ProtocolAssumption DEF DebtOf

\* Whatever the reward, the keeper reserve is not overdrawn.
LEMMA PayRewardType ==
  ASSUME keeperReserve \in Nat, NEW reward \in Int, PayReward(reward)
  PROVE  keeperReserve' \in Nat
BY DEF PayReward, AtMost

LEMMA SettleRewardType ==
  ASSUME now \in Nat, NEW t \in Nat
  PROVE  SettleRewardAt(t) \in Int
<1>1. (now - t) \div Hour \in Int
  BY SettlementAssumption
<1>2. EscalationBps * ((now - t) \div Hour) \in Int
  BY <1>1, SettlementAssumption
<1>3. AtMost(Bps + EscalationBps * ((now - t) \div Hour), MaxMultipleBps) \in Int
  BY <1>2, SettlementAssumption, ProtocolAssumption DEF AtMost
<1>4. SettleReward
        * AtMost(Bps + EscalationBps * ((now - t) \div Hour), MaxMultipleBps) \in Int
  BY <1>3, SettlementAssumption
<1> QED
  BY <1>4, ProtocolAssumption DEF SettleRewardAt

LEMMA CoverType ==
  ASSUME TypeOK, NEW g \in Groups
  PROVE  /\ GrossClaimN(g) \in Nat
         /\ CoverOf(g) \in Nat /\ CoverOf(g) <= insurance
<1>1. /\ groups[g].wrapperClaimN \in Nat /\ groups[g].netCreditN \in Nat
      /\ groups[g].collected \in Nat /\ insurance \in Nat
  BY DEF TypeOK, AccountingType
<1>2. GrossClaimN(g) \in Nat
  BY <1>1 DEF GrossClaimN
<1>3. DivUp(GrossClaimN(g), Denom) \in Nat
  BY <1>2, DivUpType, ProtocolAssumption
<1>4. Pos(DivUp(GrossClaimN(g), Denom) - groups[g].collected) \in Nat
  BY <1>1, <1>3 DEF Pos
<1> QED
  BY <1>1, <1>2, <1>4 DEF CoverOf, Covered, AtMost

LEMMA RatioType ==
  ASSUME TypeOK, NEW g \in Groups, NEW recovered \in Nat
  PROVE  RatioOf(g, recovered) \in Nat
<1>1. GrossClaimN(g) \in Nat /\ Wad \in Nat /\ Denom \in Nat
  BY CoverType, ProtocolAssumption
<1>2. recovered * Denom * Wad \in Nat
  BY <1>1
<1>3. GrossClaimN(g) # 0 => (recovered * Denom * Wad) \div GrossClaimN(g) \in Nat
  BY <1>1, <1>2
<1> QED
  BY <1>1, <1>3 DEF RatioOf, AtMost

LEMMA PayoutType ==
  ASSUME TypeOK, NEW g \in Groups, NEW claimN \in Nat
  PROVE  Payout(g, claimN) \in Nat
<1>1. groups[g].ratio \in Nat
  BY DEF TypeOK, AccountingType
<1>2. claimN * groups[g].ratio \in Nat /\ Denom * Wad \in Nat \ {0}
  BY <1>1, ProtocolAssumption
<1> QED
  BY <1>2 DEF Payout

LEMMA RedeemPayoutType ==
  ASSUME TypeOK, NEW s \in Series, NEW qty \in Nat
  PROVE  Info[s].group \in Groups /\ RedeemPayout(s, qty) \in Nat
<1>1. Info[s].group \in Groups
  BY DEF Groups
<1>2. groups[Info[s].group].price \in Nat
  BY <1>1 DEF TypeOK, AccountingType
<1>3. qty * UnitPayoff(s, groups[Info[s].group].price) \in Nat
  BY <1>2, PayoffType
<1> QED
  BY <1>1, <1>3, PayoutType DEF RedeemPayout

LEMMA SettlementType ==
  ASSUME TypeOK, SettlementStep
  PROVE  TypeOK'
<1>1. groups \in [Groups -> AccountingType]
  BY DEF TypeOK
<1>2. \A g \in Groups : /\ groups[g].finalizedAt \in Nat
                        /\ groups[g].pool \in Nat
                        /\ groups[g].collected \in Nat
  BY <1>1 DEF AccountingType
<1>3. ASSUME NEW g \in Groups, NEW observed \in Prices \ {0},
             FinalizeGroup(g, observed)
      PROVE  TypeOK'
  <2> DEFINE price == CappedPrice(g, observed)
  <2>1. price \in Nat
    BY CappedPriceType, ProtocolAssumption
  <2>2. WrapperClaim(g, price) \in Nat
    BY <2>1, WrapperClaimType DEF TypeOK
  <2>3. /\ groups' = [groups EXCEPT ![g].finalized = TRUE,
                                    ![g].price = price,
                                    ![g].finalizedAt = now,
                                    ![g].wrapperClaimN = WrapperClaim(g, price)]
        /\ now \in Nat
    BY <1>3 DEF FinalizeGroup, TypeOK
  <2> HIDE DEF price
  <2>6. groups' \in [Groups -> AccountingType]
    <3> DEFINE r == [groups[g] EXCEPT !.finalized = TRUE,
                               !.price = price,
                               !.finalizedAt = now,
                               !.wrapperClaimN = WrapperClaim(g, price)]
    <3>1. r \in AccountingType
      BY <1>1, <2>1, <2>2, <2>3 DEF AccountingType
    <3>2. groups' = [groups EXCEPT ![g] = r]
      BY <1>1, <2>3 DEF AccountingType
    <3> HIDE DEF r
    <3> QED BY <1>1, <3>1, <3>2
  <2>4. keeperReserve' \in Nat
    BY <1>3, PayRewardType, SettlementAssumption DEF FinalizeGroup, TypeOK
  <2>5. UNCHANGED <<marketVars, controlVars, cash, balances, supply, custody,
                    insurance, treasury, creditN, auctions>>
    BY <1>3 DEF FinalizeGroup
  <2> QED
    BY <2>4, <2>5, <2>6 DEF TypeOK, marketVars, surfaceVars, controlVars
<1>4. ASSUME NEW g \in Groups, FlagOracleStalled(g)
      PROVE  TypeOK'
  <2>1. groups' = [groups EXCEPT ![g].stalledFlagged = TRUE]
    BY <1>4 DEF FlagOracleStalled
  <2>2. groups' \in [Groups -> AccountingType]
    BY <1>1, <2>1 DEF AccountingType
  <2> QED
    BY <1>4, <2>2 DEF TypeOK, FlagOracleStalled, marketVars, surfaceVars, controlVars, feeVars
<1>5. ASSUME NEW a \in Accounts, NEW g \in Groups, SettleAccountGroup(a, g)
      PROVE  TypeOK'
  <2> DEFINE net       == Net(a, g)
             debt      == DebtOf(net)
             collected == AtMost(debt, cash[a])
  <2>1. net \in Int /\ debt \in Nat
    BY NetType
  <2> HIDE DEF debt
  <2>2. collected \in Nat /\ collected <= cash[a] /\ debt - collected \in Nat
    BY <2>1 DEF AtMost, TypeOK
  <2>3. Pos(net) \in Nat
    BY <2>1 DEF Pos
  <2> HIDE DEF net, collected
  <2>4. /\ balances' = [balances EXCEPT
            ![a] = [s \in Series |-> IF s \in SeriesIn(g) THEN 0 ELSE @[s]]]
        /\ cash' = Debit(cash, a, collected)
        /\ creditN' = [creditN EXCEPT ![a][g] = IF net > 0 THEN net ELSE @]
        /\ groups' = [groups EXCEPT
             ![g].collected = @ + collected,
             ![g].pool = @ + collected,
             ![g].unpaid = @ + (debt - collected),
             ![g].netCreditN = @ + Pos(net),
             ![g].unclaimedCredits = IF net > 0 THEN @ + 1 ELSE @]
        /\ PayReward(SettleRewardAt(groups[g].finalizedAt))
        /\ UNCHANGED <<marketVars, controlVars, supply, custody, insurance,
                       treasury, auctions>>
    BY <1>5 DEF SettleAccountGroup, net, debt, collected
  <2>5. groups' \in [Groups -> AccountingType]
    <3> DEFINE r == [groups[g] EXCEPT !.collected = @ + collected,
                               !.pool = @ + collected,
                               !.unpaid = @ + (debt - collected),
                               !.netCreditN = @ + Pos(net),
                               !.unclaimedCredits = IF net > 0 THEN @ + 1 ELSE @]
    <3>0. /\ groups[g] \in AccountingType
          /\ groups[g].collected + collected \in Nat
          /\ groups[g].pool + collected \in Nat
          /\ groups[g].unpaid + (debt - collected) \in Nat
          /\ groups[g].netCreditN + Pos(net) \in Nat
          /\ groups[g].unclaimedCredits + 1 \in Int
      BY <1>1, <2>2, <2>3 DEF AccountingType
    <3>1. r \in AccountingType
      BY <3>0 DEF AccountingType
    <3>2. groups' = [groups EXCEPT ![g] = r]
      BY <1>1, <2>4 DEF AccountingType
    <3> HIDE DEF r
    <3> QED BY <1>1, <3>1, <3>2
  <2>6. cash' \in [Accounts -> Nat] /\ creditN' \in [Accounts -> [Groups -> Nat]]
    BY <2>1, <2>2, <2>4 DEF TypeOK, Debit
  <2>7. balances' \in [Accounts -> [Series -> Int]]
    BY <2>4 DEF TypeOK
  <2>8. keeperReserve' \in Nat
    <3>1. SettleRewardAt(groups[g].finalizedAt) \in Int
      BY <1>2, SettleRewardType DEF TypeOK
    <3> QED BY <2>4, <3>1, PayRewardType DEF TypeOK
  <2> QED
    BY <2>4, <2>5, <2>6, <2>7, <2>8 DEF TypeOK, marketVars, surfaceVars, controlVars
<1>6. ASSUME NEW a \in Accounts, NEW g \in Groups, ClaimSettlement(a, g)
      PROVE  TypeOK'
  <2> DEFINE amount == Payout(g, creditN[a][g])
  <2>1. amount \in Nat
    BY PayoutType DEF TypeOK
  <2> HIDE DEF amount
  <2>2. /\ amount <= groups[g].pool
        /\ creditN' = [creditN EXCEPT ![a][g] = 0]
        /\ groups' = [groups EXCEPT ![g].unclaimedCredits = @ - 1,
                                    ![g].pool = @ - amount]
        /\ cash' = Credit(cash, a, amount)
        /\ UNCHANGED <<marketVars, controlVars, balances, supply, custody,
                       insurance, feeVars, auctions>>
    BY <1>6 DEF ClaimSettlement, amount
  <2>3. groups' \in [Groups -> AccountingType]
    <3> DEFINE r == [groups[g] EXCEPT !.unclaimedCredits = @ - 1,
                               !.pool = @ - amount]
    <3>0. /\ groups[g] \in AccountingType
          /\ groups[g].unclaimedCredits - 1 \in Int
          /\ groups[g].pool - amount \in Nat
      BY <1>1, <2>1, <2>2 DEF AccountingType
    <3>1. r \in AccountingType
      BY <3>0 DEF AccountingType
    <3>2. groups' = [groups EXCEPT ![g] = r]
      BY <1>1, <2>2 DEF AccountingType
    <3> HIDE DEF r
    <3> QED BY <1>1, <3>1, <3>2
  <2>4. cash' \in [Accounts -> Nat] /\ creditN' \in [Accounts -> [Groups -> Nat]]
    BY <2>1, <2>2 DEF TypeOK, Credit
  <2> QED
    BY <2>2, <2>3, <2>4 DEF TypeOK, marketVars, surfaceVars, controlVars, feeVars
<1>7. ASSUME NEW g \in Groups, ComputeRecoveryRatio(g)
      PROVE  TypeOK'
  <2> DEFINE cover == CoverOf(g)
             ratio == RatioOf(g, groups[g].collected + cover)
  <2>1. cover \in Nat /\ cover <= insurance
    BY CoverType
  <2> HIDE DEF cover
  <2>2. ratio \in Nat
    BY <1>2, <2>1, RatioType
  <2> HIDE DEF ratio
  <2>3. /\ insurance' = insurance - cover
        /\ custody' = custody + cover
        /\ groups' = [groups EXCEPT ![g].insurance = cover,
                                    ![g].pool = @ + cover,
                                    ![g].ratioSet = TRUE,
                                    ![g].ratio = ratio]
        /\ UNCHANGED <<marketVars, controlVars, cash, balances, supply, feeVars,
                       creditN, auctions>>
    BY <1>7 DEF ComputeRecoveryRatio, cover, ratio
  <2>4. groups' \in [Groups -> AccountingType]
    <3> DEFINE r == [groups[g] EXCEPT !.insurance = cover,
                               !.pool = @ + cover,
                               !.ratioSet = TRUE,
                               !.ratio = ratio]
    <3>0. /\ groups[g] \in AccountingType
          /\ cover \in Nat /\ ratio \in Nat /\ groups[g].pool + cover \in Nat
      BY <1>1, <2>1, <2>2 DEF AccountingType
    <3>1. r \in AccountingType
      BY <3>0 DEF AccountingType
    <3>2. groups' = [groups EXCEPT ![g] = r]
      BY <1>1, <2>3 DEF AccountingType
    <3> HIDE DEF r
    <3> QED BY <1>1, <3>1, <3>2
  <2>5. insurance' \in Nat /\ custody' \in Int
    BY <2>1, <2>3 DEF TypeOK
  <2> QED
    BY <2>3, <2>4, <2>5 DEF TypeOK, marketVars, surfaceVars, controlVars, feeVars
<1>8. ASSUME NEW s \in Series, NEW qty \in 1..supply[s], RedeemWrapper(s, qty)
      PROVE  TypeOK'
  <2> DEFINE g == Info[s].group
             payout == RedeemPayout(s, qty)
  <2>1. qty \in Nat /\ g \in Groups /\ payout \in Nat
    BY RedeemPayoutType DEF TypeOK
  <2> HIDE DEF g, payout
  <2>2. /\ qty <= supply[s]
        /\ payout <= groups[g].pool
        /\ supply' = [supply EXCEPT ![s] = @ - qty]
        /\ groups' = [groups EXCEPT ![g].pool = @ - payout]
        /\ custody' = custody - payout
        /\ UNCHANGED <<marketVars, controlVars, cash, balances, insurance, feeVars,
                       creditN, auctions>>
    BY <1>8 DEF RedeemWrapper, BurnWrapper, g, payout
  <2>3. groups' \in [Groups -> AccountingType]
    BY <1>1, <2>1, <2>2 DEF AccountingType
  <2>4. supply' \in [Series -> Nat] /\ custody' \in Int
    BY <2>1, <2>2 DEF TypeOK
  <2> QED
    BY <2>2, <2>3, <2>4 DEF TypeOK, marketVars, surfaceVars, controlVars, feeVars
<1>9. ASSUME NEW g \in Groups, SweepDust(g)
      PROVE  TypeOK'
  <2>1. groups' \in [Groups -> AccountingType]
    BY <1>1, <1>9 DEF SweepDust, AccountingType
  <2>2. insurance' \in Nat /\ custody' \in Int
    BY <1>2, <1>9 DEF SweepDust, TypeOK
  <2> QED
    BY <1>9, <2>1, <2>2 DEF SweepDust, TypeOK, marketVars, surfaceVars, controlVars, feeVars
<1> QED
  BY <1>3, <1>4, <1>5, <1>6, <1>7, <1>8, <1>9 DEF SettlementStep, SeriesIn

-----------------------------------------------------------------------------
(* Type correctness: liquidation *)

LEMMA SliceMoveType ==
  ASSUME TypeOK, NEW a \in Accounts, NEW s \in Series, NEW bps \in Nat
  PROVE  SliceMove(a, s, bps) \in Int
<1> DEFINE size  == Pos(balances[a][s]) + Neg(balances[a][s])
           share == size * bps
           whole == (share \div Bps) \div MinQty
<1>1. size \in Nat
  BY DEF TypeOK, Pos, Neg
<1> HIDE DEF size
<1>2. share \in Nat
  BY <1>1
<1> HIDE DEF share
<1>3. whole \in Nat
  BY <1>2, ProtocolAssumption
<1> HIDE DEF whole
<1>4. whole * MinQty \in Nat
  BY <1>3, ProtocolAssumption
<1> QED
  BY <1>4 DEF SliceMove, size, share, whole

LEMMA SlicedType ==
  ASSUME TypeOK, NEW a \in Accounts, NEW u \in Underlyings, NEW l \in Accounts,
         NEW bps \in Nat
  PROVE  Sliced(a, u, l, bps) \in BalanceTable
BY SliceMoveType DEF Sliced, TypeOK, BalanceTable

\* The flows of a liquidation that drops the margin, from a readable state.
LEMMA FlowsToType ==
  ASSUME TypeOK, AuctionsPast, NEW a \in Accounts, NEW u \in Underlyings,
         NEW b \in BalanceTable,
         MaintenanceMargin(b, a) < MaintenanceMargin(balances, a)
  PROVE  LET f == FlowsTo(a, b, Bonus(auctions[a][u]))
         IN /\ f.fromAccount \in Nat /\ f.fromAccount <= cash[a]
            /\ f.topUp \in Nat /\ f.topUp <= insurance
            /\ f.fromLiquidator \in Nat
            /\ f.penalty \in Nat
            /\ f.penalty <= cash[a] - f.fromAccount + f.fromLiquidator
<1>1. Readable /\ balances \in BalanceTable
  BY ReadableType
<1>2. cash \in [Accounts -> Int] /\ cash[a] \in Nat /\ insurance \in Nat
  BY DEF TypeOK
<1>3. Equity(cash, balances, a) - Equity(cash, b, a) \in Int
  BY <1>1, <1>2, EquityType
<1>4. MaintenanceMargin(balances, a) - MaintenanceMargin(b, a) \in Nat
  BY <1>1, MaintenanceMarginType
<1>5. Bonus(auctions[a][u]) \in Nat
  BY BonusType DEF TypeOK, AuctionsPast
<1> QED
  BY <1>2, <1>3, <1>4, <1>5, FlowsType DEF FlowsTo

\* What a slice and a wrapper liquidation do to cash, custody and insurance.
LEMMA LiquidateType ==
  ASSUME TypeOK, AuctionsPast, NEW a \in Accounts, NEW l \in Accounts,
         NEW u \in Underlyings, NEW b \in BalanceTable,
         Liquidate(a, l, b, FlowsTo(a, b, Bonus(auctions[a][u])))
  PROVE  /\ cash' \in [Accounts -> Nat]
         /\ insurance' \in Nat /\ custody' \in Int
<1> DEFINE f == FlowsTo(a, b, Bonus(auctions[a][u]))
<1>1. /\ f.fromAccount \in Nat /\ f.fromAccount <= cash[a]
      /\ f.topUp \in Nat /\ f.topUp <= insurance
      /\ f.fromLiquidator \in Nat
      /\ f.penalty \in Nat
      /\ f.penalty <= cash[a] - f.fromAccount + f.fromLiquidator
  BY FlowsToType DEF Liquidate
<1>2. /\ a # l /\ f.fromLiquidator <= cash[l]
      /\ cash' = CashAfter(a, l, f)
      /\ insurance' = insurance - f.topUp + f.penalty
      /\ custody' = custody + f.topUp - f.penalty
  BY DEF Liquidate
<1> HIDE DEF f
<1>3. /\ cash \in [Accounts -> Nat] /\ cash[a] \in Nat /\ cash[l] \in Nat
      /\ insurance \in Nat /\ custody \in Int
  BY DEF TypeOK
<1>4. /\ cash[a] - f.fromAccount + f.fromLiquidator - f.penalty \in Nat
      /\ cash[l] + f.fromAccount - f.fromLiquidator + f.topUp \in Nat
  BY <1>1, <1>2, <1>3
<1>5. cash' \in [Accounts -> Nat]
  BY <1>2, <1>3, <1>4 DEF CashAfter
<1> QED
  BY <1>1, <1>2, <1>3, <1>5

LEMMA LiquidationType ==
  ASSUME TypeOK, AuctionsPast, LiquidationStep
  PROVE  TypeOK'
<1>1. balances \in BalanceTable
  BY ReadableType
<1>2. ASSUME NEW a \in Accounts, NEW u \in Underlyings,
             StartAuction(a, u) \/ EndAuction(a, u)
      PROVE  TypeOK'
  <2>1. auctions' \in [Accounts -> [Underlyings -> Nat]]
    <3>1. \E t \in {0, now} : auctions' = [auctions EXCEPT ![a][u] = t]
      BY <1>2 DEF StartAuction, EndAuction
    <3> QED BY <3>1 DEF TypeOK
  <2>2. UNCHANGED <<marketVars, controlVars, cash, balances, supply, custody,
                    insurance, feeVars, settlementVars>>
    BY <1>2 DEF StartAuction, EndAuction
  <2> QED
    BY <2>1, <2>2 DEF TypeOK, marketVars, surfaceVars, controlVars, feeVars, settlementVars
<1>3. ASSUME NEW a \in Accounts, NEW l \in Accounts, NEW u \in Underlyings,
             NEW bps \in SliceSizes, LiquidateSlice(a, u, l, bps)
      PROVE  TypeOK'
  <2> DEFINE b == Sliced(a, u, l, bps)
  <2>1. b \in BalanceTable
    BY SlicedType, LiquidationAssumption
  <2> HIDE DEF b
  <2>2. Liquidate(a, l, b, FlowsTo(a, b, Bonus(auctions[a][u])))
    BY <1>3 DEF LiquidateSlice, b
  <2>3. auctions' \in [Accounts -> [Underlyings -> Nat]] /\ UNCHANGED supply
    BY <1>3 DEF LiquidateSlice, TypeOK
  <2>4. /\ balances' = b
        /\ UNCHANGED <<marketVars, controlVars, feeVars, settlementVars>>
    BY <2>2 DEF Liquidate
  <2>5. /\ cash' \in [Accounts -> Nat]
        /\ insurance' \in Nat /\ custody' \in Int
    BY <2>1, <2>2, LiquidateType
  <2> QED
    BY <2>1, <2>3, <2>4, <2>5 DEF TypeOK, BalanceTable, marketVars, surfaceVars, controlVars,
       feeVars, settlementVars
<1>4. ASSUME NEW a \in Accounts, NEW l \in Accounts, NEW s \in Series,
             NEW qty \in 1..supply[s], LiquidateWithWrapper(a, s, qty, l)
      PROVE  TypeOK'
  <2> DEFINE b == Moved(balances, a, s, qty)
             u == Info[s].underlying
  <2>1. qty \in Nat /\ supply[s] \in Nat /\ u \in Underlyings
    BY DEF TypeOK, Underlyings
  <2>2. b \in BalanceTable
    BY <1>1, <2>1, MovedType
  <2> HIDE DEF b, u
  <2>3. Liquidate(a, l, b, FlowsTo(a, b, Bonus(auctions[a][u])))
    BY <1>4 DEF LiquidateWithWrapper, b, u
  <2>4. supply' \in [Series -> Nat] /\ UNCHANGED auctions
    BY <1>4, <2>1 DEF LiquidateWithWrapper, BurnWrapper, TypeOK
  <2>5. /\ balances' = b
        /\ UNCHANGED <<marketVars, controlVars, feeVars, settlementVars>>
    BY <2>3 DEF Liquidate
  <2>6. /\ cash' \in [Accounts -> Nat]
        /\ insurance' \in Nat /\ custody' \in Int
    BY <2>1, <2>2, <2>3, LiquidateType
  <2> QED
    BY <2>2, <2>4, <2>5, <2>6 DEF TypeOK, BalanceTable, marketVars, surfaceVars, controlVars,
       feeVars, settlementVars
<1> QED
  BY <1>2, <1>3, <1>4 DEF LiquidationStep

-----------------------------------------------------------------------------
(* Type correctness: the surroundings, and the theorem *)

LEMMA SurroundingsType ==
  ASSUME TypeOK, SurroundingsStep
  PROVE  TypeOK'
<1>1. CASE Tick
  BY <1>1 DEF Tick, TypeOK, surfaceVars, controlVars, feeVars, settlementVars
<1>2. ASSUME NEW u \in Underlyings, NEW price \in Prices, SetSpot(u, price)
      PROVE  TypeOK'
  BY <1>2 DEF SetSpot, TypeOK, surfaceVars, controlVars, feeVars, settlementVars
<1>3. ASSUME NEW u \in Underlyings, NEW status \in SurfaceStates, NEW low \in BOOLEAN,
             SetSurface(u, status, low)
      PROVE  TypeOK'
  BY <1>3, ProtocolAssumption
     DEF SetSurface, SurfaceStatuses, TypeOK, controlVars, feeVars, settlementVars
<1>4. ASSUME NEW on \in BOOLEAN, NEW bit \in PausableBits, SetPaused(bit, on)
      PROVE  TypeOK'
  BY <1>4 DEF SetPaused, TypeOK, marketVars, surfaceVars, feeVars, settlementVars
<1>5. ASSUME NEW on \in BOOLEAN, NEW u \in CloseOnlyProducts,
             SetProductCloseOnly(u, on)
      PROVE  TypeOK'
  BY <1>5, OptaraAssumption
     DEF SetProductCloseOnly, TypeOK, marketVars, surfaceVars, feeVars, settlementVars
<1>7. ASSUME NEW on \in BOOLEAN, NEW u \in EmergencyProducts, SetEmergencyMode(u, on)
      PROVE  TypeOK'
  BY <1>7, OptaraAssumption
     DEF SetEmergencyMode, TypeOK, controlVars, feeVars, settlementVars
<1>6. ASSUME NEW amount \in Amounts,
             \/ DepositInsurance(amount)
             \/ FundKeeperReserve(amount)
             \/ WithdrawTreasury(amount)
      PROVE  TypeOK'
  BY <1>6, ClearingAssumption
     DEF DepositInsurance, FundKeeperReserve, WithdrawTreasury, TypeOK, marketVars, surfaceVars,
         controlVars, feeVars, settlementVars
<1> QED
  BY <1>1, <1>2, <1>3, <1>4, <1>5, <1>6, <1>7 DEF SurroundingsStep

\* No step starts an auction in the future, and the clock never goes back.
LEMMA AuctionsPastStep ==
  ASSUME TypeOK, AuctionsPast, [Next]_vars
  PROVE  AuctionsPast'
<1>1. /\ now \in Nat /\ auctions \in [Accounts -> [Underlyings -> Nat]]
      /\ \A a \in Accounts, u \in Underlyings : auctions[a][u] <= now
  BY DEF TypeOK, AuctionsPast
<1>2. CASE UNCHANGED <<now, auctions>>
  BY <1>1, <1>2 DEF AuctionsPast
<1>3. CASE Tick
  BY <1>1, <1>3 DEF Tick, AuctionsPast
<1>4. ASSUME NEW a \in Accounts, NEW u \in Underlyings,
             StartAuction(a, u) \/ EndAuction(a, u)
      PROVE  AuctionsPast'
  BY <1>1, <1>4 DEF StartAuction, EndAuction, marketVars, AuctionsPast
<1>5. ASSUME NEW a \in Accounts, NEW u \in Underlyings, NEW l \in Accounts,
             NEW bps \in SliceSizes, LiquidateSlice(a, u, l, bps)
      PROVE  AuctionsPast'
  <2>1. /\ now' = now
        /\ \E t \in {0, auctions[a][u]} : auctions' = [auctions EXCEPT ![a][u] = t]
    BY <1>1, <1>5 DEF LiquidateSlice, Liquidate, marketVars
  <2> QED BY <1>1, <2>1 DEF AuctionsPast
<1>6. CASE ClearingStep
  <2>1. UNCHANGED <<now, auctions>>
    BY <1>6 DEF ClearingStep, DepositCollateral, WithdrawCollateral,
       MintExternalLong, WrapLong, UnwrapLong, CloseShortWithWrapper,
       CloseShortWithInternalLong, marketVars
  <2> QED BY <1>2, <2>1
<1>7. CASE SettlementStep
  <2>1. ASSUME NEW g \in Groups, NEW price, FinalizeGroup(g, price)
        PROVE  UNCHANGED <<now, auctions>>
    BY <2>1 DEF FinalizeGroup, marketVars
  <2>2. ASSUME NEW g \in Groups, NEW a, SettleAccountGroup(a, g)
        PROVE  UNCHANGED <<now, auctions>>
    BY <2>2 DEF SettleAccountGroup, marketVars
  <2>3. ASSUME NEW g \in Groups, NEW a, ClaimSettlement(a, g)
        PROVE  UNCHANGED <<now, auctions>>
    BY <2>3 DEF ClaimSettlement, marketVars
  <2>4. ASSUME NEW s, NEW qty, RedeemWrapper(s, qty)
        PROVE  UNCHANGED <<now, auctions>>
    BY <2>4 DEF RedeemWrapper, marketVars
  <2>5. ASSUME NEW g \in Groups,
               FlagOracleStalled(g) \/ ComputeRecoveryRatio(g) \/ SweepDust(g)
        PROVE  UNCHANGED <<now, auctions>>
    BY <2>5 DEF FlagOracleStalled, ComputeRecoveryRatio, SweepDust, marketVars
  <2> QED BY <1>2, <1>7, <2>1, <2>2, <2>3, <2>4, <2>5 DEF SettlementStep
<1>8. CASE LiquidationStep
  BY <1>2, <1>4, <1>5, <1>8 DEF LiquidationStep, LiquidateWithWrapper, Liquidate,
     marketVars
<1>9. CASE SurroundingsStep
  BY <1>2, <1>3, <1>9 DEF SurroundingsStep, SetSpot, SetSurface, SetEmergencyMode, SetPaused,
     SetProductCloseOnly, DepositInsurance, FundKeeperReserve, WithdrawTreasury,
     marketVars
<1>10. CASE UNCHANGED vars
  BY <1>2, <1>10 DEF vars, marketVars
<1> QED
  BY <1>6, <1>7, <1>8, <1>9, <1>10 DEF Next

LEMMA NextType == IType /\ [Next]_vars => IType'
<1> SUFFICES ASSUME TypeOK, AuctionsPast, [Next]_vars PROVE TypeOK' /\ AuctionsPast'
  BY DEF IType
<1>1. AuctionsPast'
  BY AuctionsPastStep
<1>2. UNCHANGED vars => TypeOK'
  BY DEF TypeOK, vars, marketVars, surfaceVars, controlVars, feeVars, settlementVars
<1>3. Next => TypeOK'
  BY ClearingType, LiquidationType, SettlementType, SurroundingsType DEF Next
<1> QED
  BY <1>1, <1>2, <1>3

LEMMA ITypeCorrect == Spec => []IType
<1> QED
  BY InitType, NextType, PTL DEF Spec

\* The state is always type-correct: cash, supplies, pools and funds are never
\* overdrawn by a withdrawal, fee, liquidation, payout or sweep.
THEOREM TypeCorrect == Spec => []TypeOK
<1>1. IType => TypeOK
  BY DEF IType
<1> QED
  BY ITypeCorrect, <1>1, PTL

-----------------------------------------------------------------------------
(* Wrappers, internal longs and shorts *)

\* A ratio is only set for a finalized group, so redemptions burn no wrapper
\* that WrapperBacking still counts.
RatioAfterPrice ==
  \A g \in Groups : groups[g].ratioSet => groups[g].finalized

IBacking == RatioAfterPrice /\ WrapperBacking

-----------------------------------------------------------------------------
(* How the two sides of a series follow a change of balances *)

LEMMA SidesShift ==
  ASSUME NEW L \in Int, NEW S \in Int, NEW L2 \in Int, NEW S2 \in Int,
         NEW n \in Int, NEW d \in Int,
         L + n = S, L2 - S2 = L - S + d
  PROVE  L2 + (n - d) = S2
OBVIOUS

LEMMA SidesType ==
  ASSUME NEW b \in BalanceTable, NEW s \in Series
  PROVE  LongsOf(b, s) \in Nat /\ ShortsOf(b, s) \in Nat
<1> DEFINE p == [a \in Accounts |-> Pos(b[a][s])]
           n == [a \in Accounts |-> Neg(b[a][s])]
<1>1. \A a \in Accounts : p[a] \in Nat /\ n[a] \in Nat
  BY DEF BalanceTable, Pos, Neg
<1>2. Total(Accounts, p) \in Nat /\ Total(Accounts, n) \in Nat
  <2> HIDE DEF p, n
  <2> QED BY <1>1, IndexesFinite, TotalType
<1> QED
  BY <1>2 DEF LongsOf, ShortsOf

\* One balance changes: longs minus shorts change by the same amount.
LEMMA OneBalance ==
  ASSUME NEW b \in BalanceTable, NEW c \in BalanceTable, NEW s \in Series,
         NEW a \in Accounts, \A x \in Accounts \ {a} : c[x][s] = b[x][s]
  PROVE  LongsOf(c, s) - ShortsOf(c, s)
           = LongsOf(b, s) - ShortsOf(b, s) + c[a][s] - b[a][s]
<1> DEFINE pb == [x \in Accounts |-> Pos(b[x][s])]
           pc == [x \in Accounts |-> Pos(c[x][s])]
           nb == [x \in Accounts |-> Neg(b[x][s])]
           nc == [x \in Accounts |-> Neg(c[x][s])]
<1>1. \A x \in Accounts :
        /\ b[x][s] \in Int /\ pb[x] \in Nat /\ nb[x] \in Nat
        /\ pb[x] - nb[x] = b[x][s]
        /\ c[x][s] \in Int /\ pc[x] \in Nat /\ nc[x] \in Nat
        /\ pc[x] - nc[x] = c[x][s]
  BY DEF BalanceTable, Pos, Neg
<1>2. \A x \in Accounts \ {a} : pb[x] = pc[x] /\ nb[x] = nc[x]
  OBVIOUS
<1>3. /\ LongsOf(b, s) = Total(Accounts, pb) /\ LongsOf(c, s) = Total(Accounts, pc)
      /\ ShortsOf(b, s) = Total(Accounts, nb) /\ ShortsOf(c, s) = Total(Accounts, nc)
  BY DEF LongsOf, ShortsOf
<1> HIDE DEF pb, pc, nb, nc
<1>4. Total(Accounts, pc) = Total(Accounts, pb) - pb[a] + pc[a]
  BY <1>1, <1>2, IndexesFinite, TotalUpdate
<1>5. Total(Accounts, nc) = Total(Accounts, nb) - nb[a] + nc[a]
  BY <1>1, <1>2, IndexesFinite, TotalUpdate
<1>6. Total(Accounts, pb) \in Nat /\ Total(Accounts, nb) \in Nat
  BY <1>1, IndexesFinite, TotalType
<1> QED
  BY <1>1, <1>3, <1>4, <1>5, <1>6

\* A balance moves between two accounts: longs minus shorts do not change.
LEMMA TwoBalances ==
  ASSUME NEW b \in BalanceTable, NEW c \in BalanceTable, NEW s \in Series,
         NEW a \in Accounts, NEW l \in Accounts, a # l,
         \A x \in Accounts \ {a, l} : c[x][s] = b[x][s],
         c[a][s] + c[l][s] = b[a][s] + b[l][s]
  PROVE  LongsOf(c, s) - ShortsOf(c, s) = LongsOf(b, s) - ShortsOf(b, s)
<1> DEFINE m == [b EXCEPT ![a] = c[a]]
<1>1. m \in BalanceTable /\ m[a][s] = c[a][s] /\ m[l][s] = b[l][s]
  BY DEF BalanceTable
<1>2. /\ \A x \in Accounts \ {a} : m[x][s] = b[x][s]
      /\ \A x \in Accounts \ {l} : c[x][s] = m[x][s]
  BY DEF BalanceTable
<1> HIDE DEF m
<1>3. LongsOf(m, s) - ShortsOf(m, s)
        = LongsOf(b, s) - ShortsOf(b, s) + m[a][s] - b[a][s]
  BY <1>1, <1>2, OneBalance
<1>4. LongsOf(c, s) - ShortsOf(c, s)
        = LongsOf(m, s) - ShortsOf(m, s) + c[l][s] - m[l][s]
  BY <1>1, <1>2, OneBalance
<1>5. /\ LongsOf(b, s) \in Nat /\ ShortsOf(b, s) \in Nat
      /\ LongsOf(m, s) \in Nat /\ ShortsOf(m, s) \in Nat
      /\ LongsOf(c, s) \in Nat /\ ShortsOf(c, s) \in Nat
  BY <1>1, SidesType
<1>6. /\ b[a][s] \in Int /\ b[l][s] \in Int /\ c[a][s] \in Int /\ c[l][s] \in Int
  BY DEF BalanceTable
<1> QED
  BY <1>1, <1>3, <1>4, <1>5, <1>6

\* Balances that agree on a series agree on its sides.
LEMMA SameBalances ==
  ASSUME NEW b \in BalanceTable, NEW c \in BalanceTable, NEW s \in Series,
         \A x \in Accounts : c[x][s] = b[x][s]
  PROVE  LongsOf(c, s) = LongsOf(b, s) /\ ShortsOf(c, s) = ShortsOf(b, s)
BY DEF LongsOf, ShortsOf

-----------------------------------------------------------------------------
(* Steps that trade positions for wrappers, or move them *)

\* Wrappers are minted for the balance that goes short, or burned for the one
\* that comes back.
LEMMA TradedForWrappers ==
  ASSUME TypeOK, WrapperBacking, NEW a \in Accounts, NEW s \in Series,
         NEW d \in Int, UNCHANGED groups,
         balances' = Moved(balances, a, s, d),
         supply' = [supply EXCEPT ![s] = @ - d]
  PROVE  WrapperBacking'
<1>1. balances \in BalanceTable /\ balances' \in BalanceTable
  BY ReadableType, MovedType
<1>2. /\ \A t \in Series : supply[t] \in Nat
      /\ supply'[s] = supply[s] - d
      /\ \A t \in Series \ {s} : supply'[t] = supply[t]
  BY DEF TypeOK
<1>3. /\ balances'[a][s] = balances[a][s] + d
      /\ \A x \in Accounts, t \in Series :
           x # a \/ t # s => balances'[x][t] = balances[x][t]
  BY <1>1 DEF Moved, BalanceTable
<1>4. balances[a][s] \in Int
  BY <1>1 DEF BalanceTable
<1> SUFFICES ASSUME NEW t \in Series, ~Finalized(t)
             PROVE  LongsOf(balances', t) + supply'[t] = ShortsOf(balances', t)
  BY DEF WrapperBacking, Finalized
<1>5. LongsOf(balances, t) + supply[t] = ShortsOf(balances, t)
  BY DEF WrapperBacking
<1>6. /\ LongsOf(balances, t) \in Nat /\ ShortsOf(balances, t) \in Nat
      /\ LongsOf(balances', t) \in Nat /\ ShortsOf(balances', t) \in Nat
  BY <1>1, SidesType
<1>7. CASE t = s
  <2>1. LongsOf(balances', s) - ShortsOf(balances', s)
          = LongsOf(balances, s) - ShortsOf(balances, s)
              + balances'[a][s] - balances[a][s]
    BY <1>1, <1>3, OneBalance
  <2>2. LongsOf(balances, s) + supply[s] = ShortsOf(balances, s)
    BY <1>5, <1>7
  <2>3. /\ LongsOf(balances, s) \in Nat /\ ShortsOf(balances, s) \in Nat
        /\ LongsOf(balances', s) \in Nat /\ ShortsOf(balances', s) \in Nat
    BY <1>6, <1>7
  <2>4. LongsOf(balances', s) + supply'[s] = ShortsOf(balances', s)
    <3>1. LongsOf(balances', s) - ShortsOf(balances', s)
            = LongsOf(balances, s) - ShortsOf(balances, s) + d
      BY <1>3, <1>4, <2>1, <2>3
    <3>2. LongsOf(balances', s) + (supply[s] - d) = ShortsOf(balances', s)
      BY <1>2, <2>2, <2>3, <3>1, SidesShift
    <3> QED BY <1>2, <3>2
  <2> QED BY <1>7, <2>4
<1>8. CASE t # s
  <2>1. LongsOf(balances', t) = LongsOf(balances, t)
        /\ ShortsOf(balances', t) = ShortsOf(balances, t)
    BY <1>1, <1>3, <1>8, SameBalances
  <2> QED BY <1>2, <1>5, <1>8, <2>1
<1> QED
  BY <1>7, <1>8

\* Where no live series changes, backing is kept.
LEMMA LiveUntouched ==
  ASSUME TypeOK, TypeOK', WrapperBacking,
         \A s \in Series : ~Finalized(s)' =>
           /\ ~Finalized(s)
           /\ supply'[s] = supply[s]
           /\ \A x \in Accounts : balances'[x][s] = balances[x][s]
  PROVE  WrapperBacking'
<1>1. balances \in BalanceTable /\ balances' \in BalanceTable
  BY DEF TypeOK, BalanceTable
<1> SUFFICES ASSUME NEW s \in Series, ~Finalized(s)'
             PROVE  LongsOf(balances', s) + supply'[s] = ShortsOf(balances', s)
  BY DEF WrapperBacking
<1>2. LongsOf(balances, s) + supply[s] = ShortsOf(balances, s)
  BY DEF WrapperBacking
<1>3. /\ LongsOf(balances', s) = LongsOf(balances, s)
      /\ ShortsOf(balances', s) = ShortsOf(balances, s)
  BY <1>1, SameBalances
<1> QED
  BY <1>2, <1>3

\* Balances move between two accounts, series by series.
LEMMA MovedBetween ==
  ASSUME TypeOK, WrapperBacking, UNCHANGED <<groups, supply>>,
         balances' \in BalanceTable,
         NEW a \in Accounts, NEW l \in Accounts, a # l,
         \A x \in Accounts \ {a, l} : balances'[x] = balances[x],
         \A s \in Series :
           balances'[a][s] + balances'[l][s] = balances[a][s] + balances[l][s]
  PROVE  WrapperBacking'
<1>1. balances \in BalanceTable
  BY ReadableType
<1> SUFFICES ASSUME NEW s \in Series, ~Finalized(s)
             PROVE  LongsOf(balances', s) + supply[s] = ShortsOf(balances', s)
  BY DEF WrapperBacking, Finalized
<1>2. LongsOf(balances, s) + supply[s] = ShortsOf(balances, s)
  BY DEF WrapperBacking
<1>3. LongsOf(balances', s) - ShortsOf(balances', s)
        = LongsOf(balances, s) - ShortsOf(balances, s)
  BY <1>1, TwoBalances
<1>4. /\ LongsOf(balances, s) \in Nat /\ ShortsOf(balances, s) \in Nat
      /\ LongsOf(balances', s) \in Nat /\ ShortsOf(balances', s) \in Nat
      /\ supply[s] \in Nat
  BY <1>1, SidesType DEF TypeOK
<1>5. LongsOf(balances', s) + (supply[s] - 0) = ShortsOf(balances', s)
  BY <1>2, <1>3, <1>4, SidesShift
<1> QED
  BY <1>4, <1>5

\* A slice moves the same quantity out of one account and into the other.
LEMMA SlicedMoves ==
  ASSUME TypeOK, NEW a \in Accounts, NEW l \in Accounts, a # l,
         NEW u \in Underlyings, NEW bps \in Nat
  PROVE  LET b == Sliced(a, u, l, bps)
         IN /\ \A x \in Accounts \ {a, l} : b[x] = balances[x]
            /\ \A s \in Series : b[a][s] + b[l][s] = balances[a][s] + balances[l][s]
<1> DEFINE b == Sliced(a, u, l, bps)
           move(s) == IF s \in UnexpiredLegs(a, u) THEN SliceMove(a, s, bps) ELSE 0
<1>1. \A s \in Series : move(s) \in Int
  BY SliceMoveType
<1>2. balances \in [Accounts -> [Series -> Int]]
  BY DEF TypeOK
<1>3. ASSUME NEW s \in Series
      PROVE  /\ b[a][s] = balances[a][s] - move(s)
             /\ b[l][s] = balances[l][s] + move(s)
             /\ \A x \in Accounts \ {a, l} : b[x][s] = balances[x][s]
  BY DEF Sliced
<1>4. \A x \in Accounts : b[x] = [s \in Series |-> b[x][s]]
  BY DEF Sliced
<1> HIDE DEF b, move
<1>5. \A s \in Series : b[a][s] + b[l][s] = balances[a][s] + balances[l][s]
  BY <1>1, <1>2, <1>3
<1>6. \A x \in Accounts \ {a, l} : b[x] = balances[x]
  <2> TAKE x \in Accounts \ {a, l}
  <2>1. \A s \in Series : b[x][s] = balances[x][s]
    BY <1>3
  <2>2. [s \in Series |-> b[x][s]] = [s \in Series |-> balances[x][s]]
    BY <2>1
  <2>3. balances[x] = [s \in Series |-> balances[x][s]]
    BY <1>2
  <2>4. b[x] = [s \in Series |-> b[x][s]]
    BY <1>4
  <2> QED BY <2>2, <2>3, <2>4
<1> QED
  BY <1>5, <1>6 DEF b

-----------------------------------------------------------------------------
(* The steps *)

LEMMA ClearingBacking ==
  ASSUME TypeOK, TypeOK', WrapperBacking, ClearingStep
  PROVE  WrapperBacking' /\ UNCHANGED groups
<1>1. 1..MaxQty \subseteq Nat \ {0}
  BY ClearingAssumption
<1>2. ASSUME NEW a \in Accounts, NEW amount \in Amounts,
             DepositCollateral(a, amount) \/ WithdrawCollateral(a, amount)
      PROVE  WrapperBacking' /\ UNCHANGED groups
  <2>1. UNCHANGED <<balances, supply, groups>>
    BY <1>2 DEF DepositCollateral, WithdrawCollateral, settlementVars
  <2> QED BY <2>1 DEF WrapperBacking, Finalized
<1>3. ASSUME NEW a \in Accounts, NEW s \in Series, NEW qty \in 1..MaxQty,
             MintExternalLong(a, s, qty) \/ WrapLong(a, s, qty)
      PROVE  WrapperBacking' /\ UNCHANGED groups
  <2>1. /\ balances' = Moved(balances, a, s, -qty)
        /\ supply' = [supply EXCEPT ![s] = @ + qty]
        /\ UNCHANGED groups
    BY <1>3 DEF MintExternalLong, WrapLong, MintWrapper, settlementVars
  <2>2. -qty \in Int /\ supply' = [supply EXCEPT ![s] = @ - (-qty)]
    <3>1. qty \in Nat /\ supply[s] \in Nat
      BY <1>1 DEF TypeOK
    <3>2. -qty \in Int /\ supply[s] + qty = supply[s] - (-qty)
      BY <3>1
    <3> QED BY <2>1, <3>2
  <2> QED BY <2>1, <2>2, TradedForWrappers
<1>4. ASSUME NEW a \in Accounts, NEW s \in Series, NEW qty \in 1..MaxQty,
             UnwrapLong(a, s, qty) \/ CloseShortWithWrapper(a, s, qty)
      PROVE  WrapperBacking' /\ UNCHANGED groups
  <2>1. /\ balances' = Moved(balances, a, s, qty)
        /\ supply' = [supply EXCEPT ![s] = @ - qty]
        /\ UNCHANGED groups
    BY <1>4 DEF UnwrapLong, CloseShortWithWrapper, BurnWrapper, settlementVars
  <2>2. qty \in Int
    BY <1>1
  <2> QED BY <2>1, <2>2, TradedForWrappers
<1>5. ASSUME NEW from \in Accounts, NEW to \in Accounts, NEW s \in Series,
             NEW qty \in 1..MaxQty, CloseShortWithInternalLong(from, to, s, qty)
      PROVE  WrapperBacking' /\ UNCHANGED groups
  <2>1. /\ balances' = Moved(Moved(balances, from, s, -qty), to, s, qty)
        /\ balances[from][s] >= qty /\ balances[to][s] <= -qty
        /\ UNCHANGED <<groups, supply>>
    BY <1>5 DEF CloseShortWithInternalLong, settlementVars
  <2>2. balances \in [Accounts -> [Series -> Int]]
    BY DEF TypeOK
  <2>3. qty \in Nat \ {0} /\ from # to
    BY <1>1, <2>1, <2>2
  <2>4. balances' \in BalanceTable
    BY DEF TypeOK, BalanceTable
  <2>5. \A x \in Accounts \ {from, to} : balances'[x] = balances[x]
    BY <2>1, <2>2 DEF Moved
  <2>6. \A t \in Series : balances'[from][t] + balances'[to][t]
                             = balances[from][t] + balances[to][t]
    BY <2>1, <2>2, <2>3 DEF Moved
  <2> QED BY <2>1, <2>3, <2>4, <2>5, <2>6, MovedBetween
<1> QED
  BY <1>2, <1>3, <1>4, <1>5 DEF ClearingStep

LEMMA LiquidationBacking ==
  ASSUME TypeOK, TypeOK', WrapperBacking, LiquidationStep
  PROVE  WrapperBacking' /\ UNCHANGED groups
<1>1. ASSUME NEW a \in Accounts, NEW u \in Underlyings,
             StartAuction(a, u) \/ EndAuction(a, u)
      PROVE  WrapperBacking' /\ UNCHANGED groups
  <2>1. UNCHANGED <<balances, supply, groups>>
    BY <1>1 DEF StartAuction, EndAuction, settlementVars
  <2> QED BY <2>1 DEF WrapperBacking, Finalized
<1>2. ASSUME NEW a \in Accounts, NEW l \in Accounts, NEW u \in Underlyings,
             NEW bps \in SliceSizes, LiquidateSlice(a, u, l, bps)
      PROVE  WrapperBacking' /\ UNCHANGED groups
  <2>1. /\ balances' = Sliced(a, u, l, bps) /\ a # l
        /\ UNCHANGED <<groups, supply>>
    BY <1>2 DEF LiquidateSlice, Liquidate, settlementVars
  <2>2. balances' \in BalanceTable /\ bps \in Nat
    BY LiquidationAssumption DEF TypeOK, BalanceTable
  <2> QED BY <2>1, <2>2, SlicedMoves, MovedBetween
<1>3. ASSUME NEW a \in Accounts, NEW l \in Accounts, NEW s \in Series,
             NEW qty \in 1..supply[s], LiquidateWithWrapper(a, s, qty, l)
      PROVE  WrapperBacking' /\ UNCHANGED groups
  <2>1. /\ balances' = Moved(balances, a, s, qty)
        /\ supply' = [supply EXCEPT ![s] = @ - qty]
        /\ UNCHANGED groups
    BY <1>3 DEF LiquidateWithWrapper, Liquidate, BurnWrapper, settlementVars
  <2>2. qty \in Int
    BY DEF TypeOK
  <2> QED BY <2>1, <2>2, TradedForWrappers
<1> QED
  BY <1>1, <1>2, <1>3 DEF LiquidationStep

\* Finalizing turns series final, settling and redeeming only touch final ones.
LEMMA SettlementBacking ==
  ASSUME TypeOK, TypeOK', IBacking, SettlementStep
  PROVE  IBacking'
<1>1. groups \in [Groups -> AccountingType] /\ \A s \in Series : Info[s].group \in Groups
  BY DEF TypeOK, Groups
<1>2. ASSUME NEW g \in Groups, NEW observed, FinalizeGroup(g, observed)
      PROVE  IBacking'
  <2>1. UNCHANGED <<balances, supply>>
    BY <1>2 DEF FinalizeGroup
  <2>2. /\ \A h \in Groups : /\ groups'[h].ratioSet = groups[h].ratioSet
                             /\ groups[h].finalized => groups'[h].finalized
    BY <1>1, <1>2 DEF FinalizeGroup, AccountingType
  <2>3. RatioAfterPrice'
    BY <2>2 DEF IBacking, RatioAfterPrice
  <2>4. WrapperBacking'
    BY <1>1, <2>1, <2>2, LiveUntouched DEF IBacking, Finalized
  <2> QED BY <2>3, <2>4 DEF IBacking
<1>3. ASSUME NEW g \in Groups, NEW a \in Accounts, SettleAccountGroup(a, g)
      PROVE  IBacking'
  <2>1. \A h \in Groups : /\ groups'[h].ratioSet = groups[h].ratioSet
                          /\ groups'[h].finalized = groups[h].finalized
    BY <1>1, <1>3 DEF SettleAccountGroup, AccountingType
  <2>2. RatioAfterPrice'
    BY <2>1 DEF IBacking, RatioAfterPrice
  <2>3. /\ groups[g].finalized
        /\ UNCHANGED supply
        /\ balances' = [balances EXCEPT
             ![a] = [s \in Series |-> IF s \in SeriesIn(g) THEN 0 ELSE @[s]]]
    BY <1>3 DEF SettleAccountGroup
  <2>4. ASSUME NEW s \in Series, ~Finalized(s)'
        PROVE  ~Finalized(s) /\ \A x \in Accounts : balances'[x][s] = balances[x][s]
    <3>1. ~Finalized(s) /\ s \notin SeriesIn(g)
      BY <1>1, <2>1, <2>3, <2>4 DEF Finalized, SeriesIn
    <3> QED BY <2>3, <3>1 DEF TypeOK
  <2>5. WrapperBacking'
    BY <2>3, <2>4, LiveUntouched DEF IBacking
  <2> QED BY <2>2, <2>5 DEF IBacking
<1>4. ASSUME NEW s \in Series, NEW qty, RedeemWrapper(s, qty)
      PROVE  IBacking'
  <2>1. \A h \in Groups : /\ groups'[h].ratioSet = groups[h].ratioSet
                          /\ groups'[h].finalized = groups[h].finalized
    BY <1>1, <1>4 DEF RedeemWrapper, AccountingType
  <2>2. RatioAfterPrice'
    BY <2>1 DEF IBacking, RatioAfterPrice
  <2>3. Finalized(s)
    BY <1>1, <1>4 DEF RedeemWrapper, Redeemable, IBacking, RatioAfterPrice, Finalized
  <2>4. /\ UNCHANGED balances
        /\ supply' = [supply EXCEPT ![s] = @ - qty]
    BY <1>4 DEF RedeemWrapper, BurnWrapper
  <2>5. ASSUME NEW t \in Series, ~Finalized(t)'
        PROVE  ~Finalized(t) /\ supply'[t] = supply[t]
    <3>1. ~Finalized(t)
      BY <1>1, <2>1, <2>5 DEF Finalized
    <3> QED BY <2>3, <2>4, <3>1 DEF TypeOK
  <2>6. WrapperBacking'
    BY <2>4, <2>5, LiveUntouched DEF IBacking
  <2> QED BY <2>2, <2>6 DEF IBacking
<1>5. ASSUME NEW g \in Groups, NEW a,
             \/ FlagOracleStalled(g)
             \/ ClaimSettlement(a, g)
             \/ ComputeRecoveryRatio(g)
             \/ SweepDust(g)
      PROVE  IBacking'
  <2>1. UNCHANGED <<balances, supply>>
    BY <1>5 DEF FlagOracleStalled, ClaimSettlement, ComputeRecoveryRatio, SweepDust
  <2>2. \A h \in Groups : groups'[h].finalized = groups[h].finalized
    BY <1>1, <1>5 DEF FlagOracleStalled, ClaimSettlement, ComputeRecoveryRatio,
       SweepDust, AccountingType
  <2>3. \A h \in Groups : groups'[h].ratioSet => groups[h].finalized
    BY <1>1, <1>5 DEF FlagOracleStalled, ClaimSettlement, ComputeRecoveryRatio,
       SweepDust, AccountingType, IBacking, RatioAfterPrice
  <2>4. RatioAfterPrice'
    BY <2>2, <2>3 DEF RatioAfterPrice
  <2>5. WrapperBacking'
    BY <1>1, <2>1, <2>2, LiveUntouched DEF IBacking, Finalized
  <2> QED BY <2>4, <2>5 DEF IBacking
<1> QED
  BY <1>2, <1>3, <1>4, <1>5 DEF SettlementStep, SeriesIn

LEMMA SurroundingsUnchanged ==
  ASSUME SurroundingsStep
  PROVE  UNCHANGED <<cash, balances, supply, custody, groups>>
BY DEF SurroundingsStep, Tick, SetSpot, SetSurface, SetEmergencyMode, SetPaused, SetProductCloseOnly,
   DepositInsurance, FundKeeperReserve, WithdrawTreasury, settlementVars

-----------------------------------------------------------------------------

\* No supply and no balance to begin with.
LEMMA InitBacking == Init => IBacking
<1> SUFFICES ASSUME Init PROVE IBacking
  OBVIOUS
<1>1. \A g \in Groups : groups[g].ratioSet = FALSE
  BY DEF Init, NoAccounting
<1>2. ASSUME NEW s \in Series
      PROVE  LongsOf(balances, s) = 0 /\ ShortsOf(balances, s) = 0 /\ supply[s] = 0
  <2>1. \A a \in Accounts : balances[a][s] = 0
    BY DEF Init
  <2>2. /\ \A a \in Accounts : [x \in Accounts |-> Pos(balances[x][s])][a] = 0
        /\ \A a \in Accounts : [x \in Accounts |-> Neg(balances[x][s])][a] = 0
    BY <2>1 DEF Pos, Neg
  <2>3. LongsOf(balances, s) = 0 /\ ShortsOf(balances, s) = 0
    BY <2>2, TotalZero DEF LongsOf, ShortsOf
  <2> QED BY <2>3 DEF Init
<1> QED
  BY <1>1, <1>2 DEF IBacking, RatioAfterPrice, WrapperBacking

LEMMA NextBacking == TypeOK /\ TypeOK' /\ IBacking /\ [Next]_vars => IBacking'
<1> SUFFICES ASSUME TypeOK, TypeOK', IBacking, [Next]_vars PROVE IBacking'
  OBVIOUS
<1>1. UNCHANGED groups => RatioAfterPrice'
  BY DEF IBacking, RatioAfterPrice
<1>2. UNCHANGED <<groups, balances, supply>> => IBacking'
  BY DEF IBacking, RatioAfterPrice, WrapperBacking, Finalized
<1>3. ClearingStep => IBacking'
  BY <1>1, ClearingBacking DEF IBacking
<1>4. LiquidationStep => IBacking'
  BY <1>1, LiquidationBacking DEF IBacking
<1>5. SettlementStep => IBacking'
  BY SettlementBacking
<1>6. SurroundingsStep => IBacking'
  BY <1>2, SurroundingsUnchanged
<1>7. UNCHANGED vars => IBacking'
  BY <1>2 DEF vars, settlementVars
<1> QED
  BY <1>3, <1>4, <1>5, <1>6, <1>7 DEF Next

\* Before finalization every wrapper and every internal long is matched by a
\* short: mints, wraps, unwraps, closes, slices, wrapper liquidations and the
\* settlement of other groups keep the sides of every live series equal
\* (OptionClearing.sol, LiquidationModule.sol, SettlementWindow.sol).
THEOREM BackingInvariant == Spec => []WrapperBacking
<1>1. IBacking => WrapperBacking
  BY DEF IBacking
<1>2. Spec => []IBacking
  BY TypeCorrect, InitBacking, NextBacking, PTL DEF Spec
<1> QED
  BY <1>1, <1>2, PTL

-----------------------------------------------------------------------------
(* Custody *)

Pools == [g \in Groups |-> groups[g].pool]

-----------------------------------------------------------------------------
(* How the two sums follow a step *)

LEMMA SumsType ==
  ASSUME TypeOK
  PROVE  /\ \A a \in Accounts : cash[a] \in Nat
         /\ \A g \in Groups : Pools[g] \in Nat
         /\ Total(Accounts, cash) \in Nat /\ Total(Groups, Pools) \in Nat
<1>1. \A a \in Accounts : cash[a] \in Nat
  BY DEF TypeOK
<1>2. \A g \in Groups : Pools[g] \in Nat
  BY DEF TypeOK, AccountingType, Pools
<1> QED
  BY <1>1, <1>2, IndexesFinite, TotalType

\* The cash of one account changes.
LEMMA CashChange ==
  ASSUME TypeOK, TypeOK', NEW a \in Accounts, NEW d \in Int,
         cash'[a] = cash[a] + d, \A x \in Accounts \ {a} : cash'[x] = cash[x]
  PROVE  Total(Accounts, cash') = Total(Accounts, cash) + d
<1>1. /\ \A x \in Accounts : cash[x] \in Nat
      /\ \A x \in Accounts : cash'[x] \in Nat
  BY DEF TypeOK
<1>2. \A x \in Accounts \ {a} : cash[x] = cash'[x]
  OBVIOUS
<1>3. Total(Accounts, cash') = Total(Accounts, cash) - cash[a] + cash'[a]
  BY <1>1, <1>2, IndexesFinite, TotalUpdate
<1> QED
  BY <1>1, <1>3, SumsType

\* The cash of two accounts changes.
LEMMA CashChange2 ==
  ASSUME TypeOK, TypeOK', NEW a \in Accounts, NEW l \in Accounts, a # l,
         NEW d \in Int, NEW e \in Int,
         cash'[a] = cash[a] + d, cash'[l] = cash[l] + e,
         \A x \in Accounts \ {a, l} : cash'[x] = cash[x]
  PROVE  Total(Accounts, cash') = Total(Accounts, cash) + d + e
<1> DEFINE m == [cash EXCEPT ![a] = cash'[a]]
<1>1. /\ \A x \in Accounts : cash[x] \in Nat
      /\ \A x \in Accounts : cash'[x] \in Nat
      /\ cash \in [Accounts -> Nat]
  BY DEF TypeOK
<1>2. /\ \A x \in Accounts : m[x] \in Nat
      /\ \A x \in Accounts \ {a} : cash[x] = m[x]
      /\ \A x \in Accounts \ {l} : m[x] = cash'[x]
      /\ m[a] = cash[a] + d /\ m[l] = cash[l]
  BY <1>1
<1> HIDE DEF m
<1>3. IsFiniteSet(Accounts)
  BY IndexesFinite
<1>4. Total(Accounts, m) = Total(Accounts, cash) - cash[a] + m[a]
  BY <1>1, <1>2, <1>3, TotalUpdate
<1>5. Total(Accounts, cash') = Total(Accounts, m) - m[l] + cash'[l]
  BY <1>1, <1>2, <1>3, TotalUpdate
<1> QED
  BY <1>1, <1>2, <1>4, <1>5, SumsType

\* The pool of one group changes.
LEMMA PoolChange ==
  ASSUME TypeOK, TypeOK', NEW g \in Groups, NEW d \in Int,
         groups'[g].pool = groups[g].pool + d,
         \A h \in Groups \ {g} : groups'[h].pool = groups[h].pool
  PROVE  Total(Groups, Pools') = Total(Groups, Pools) + d
<1>1. /\ \A h \in Groups : Pools[h] \in Nat
      /\ \A h \in Groups : Pools'[h] \in Nat
  BY DEF TypeOK, AccountingType, Pools
<1>2. \A h \in Groups \ {g} : Pools[h] = Pools'[h]
  BY DEF Pools
<1>3. Pools'[g] = Pools[g] + d
  BY DEF Pools
<1>4. IsFiniteSet(Groups)
  BY IndexesFinite
<1>5. Total(Groups, Pools') = Total(Groups, Pools) - Pools[g] + Pools'[g]
  BY <1>1, <1>2, <1>4, TotalUpdate
<1> QED
  BY <1>1, <1>3, <1>5, SumsType

LEMMA PoolsSame ==
  ASSUME \A g \in Groups : groups'[g].pool = groups[g].pool
  PROVE  Total(Groups, Pools') = Total(Groups, Pools)
BY DEF Pools

\* Custody moves by what the two sums gain together.
LEMMA CustodyFollows ==
  ASSUME TypeOK, CustodySolvent,
         custody' - custody
           = (Total(Accounts, cash') - Total(Accounts, cash))
               + (Total(Groups, Pools') - Total(Groups, Pools)),
         custody' \in Int,
         Total(Accounts, cash') \in Int, Total(Groups, Pools') \in Int
  PROVE  CustodySolvent'
<1>1. custody = Total(Accounts, cash) + Total(Groups, Pools)
  BY DEF CustodySolvent, Pools
<1>2. Total(Accounts, cash) \in Nat /\ Total(Groups, Pools) \in Nat
  BY SumsType
<1>3. custody' = Total(Accounts, cash') + Total(Groups, Pools')
  BY <1>1, <1>2
<1> QED
  BY <1>3 DEF CustodySolvent, Pools

\* Only the cash of one account moves, and custody with it.
LEMMA CashOnly ==
  ASSUME TypeOK, TypeOK', CustodySolvent, UNCHANGED groups,
         NEW a \in Accounts, NEW d \in Int,
         cash' = [cash EXCEPT ![a] = @ + d], custody' = custody + d
  PROVE  CustodySolvent'
<1>1. Total(Accounts, cash') = Total(Accounts, cash) + d
  <2>1. cash'[a] = cash[a] + d /\ \A x \in Accounts \ {a} : cash'[x] = cash[x]
    BY DEF TypeOK
  <2> QED BY <2>1, CashChange
<1>2. Total(Groups, Pools') = Total(Groups, Pools)
  BY PoolsSame
<1>3. /\ custody \in Int /\ custody' \in Int
      /\ Total(Accounts, cash) \in Int /\ Total(Groups, Pools) \in Int
  BY SumsType DEF TypeOK
<1> QED
  BY <1>1, <1>2, <1>3, CustodyFollows

\* The cash of two accounts moves, and custody with it.
LEMMA CashMoves ==
  ASSUME TypeOK, TypeOK', CustodySolvent, UNCHANGED groups,
         NEW a \in Accounts, NEW l \in Accounts, a # l,
         NEW d \in Int, NEW e \in Int,
         cash'[a] = cash[a] + d, cash'[l] = cash[l] + e,
         \A x \in Accounts \ {a, l} : cash'[x] = cash[x],
         custody' = custody + d + e
  PROVE  CustodySolvent'
<1>1. Total(Accounts, cash') = Total(Accounts, cash) + d + e
  BY CashChange2
<1>2. Total(Groups, Pools') = Total(Groups, Pools)
  BY PoolsSame
<1>3. /\ custody \in Int /\ custody' \in Int
      /\ Total(Accounts, cash) \in Int /\ Total(Groups, Pools) \in Int
  BY SumsType DEF TypeOK
<1> QED
  BY <1>1, <1>2, <1>3, CustodyFollows

\* Only the pool of one group moves, and custody with it.
LEMMA PoolMoves ==
  ASSUME TypeOK, TypeOK', CustodySolvent, UNCHANGED cash,
         NEW g \in Groups, NEW d \in Int,
         groups'[g].pool = groups[g].pool + d,
         \A h \in Groups \ {g} : groups'[h].pool = groups[h].pool,
         custody' = custody + d
  PROVE  CustodySolvent'
<1>1. Total(Groups, Pools') = Total(Groups, Pools) + d
  BY PoolChange
<1>2. Total(Accounts, cash') = Total(Accounts, cash)
  OBVIOUS
<1>3. /\ custody \in Int /\ custody' \in Int
      /\ Total(Accounts, cash) \in Int /\ Total(Groups, Pools) \in Int
  BY SumsType DEF TypeOK
<1> QED
  BY <1>1, <1>2, <1>3, CustodyFollows

\* What an account pays goes into the pool of one group, or the reverse.
LEMMA CashToPool ==
  ASSUME TypeOK, TypeOK', CustodySolvent, UNCHANGED custody,
         NEW a \in Accounts, NEW g \in Groups, NEW d \in Int,
         cash' = [cash EXCEPT ![a] = @ + d],
         groups'[g].pool = groups[g].pool - d,
         \A h \in Groups \ {g} : groups'[h].pool = groups[h].pool
  PROVE  CustodySolvent'
<1>1. Total(Accounts, cash') = Total(Accounts, cash) + d
  <2>1. cash'[a] = cash[a] + d /\ \A x \in Accounts \ {a} : cash'[x] = cash[x]
    BY DEF TypeOK
  <2> QED BY <2>1, CashChange
<1>2. Total(Groups, Pools') = Total(Groups, Pools) - d
  <2>1. groups[g].pool \in Int /\ -d \in Int
    BY DEF TypeOK, AccountingType
  <2>2. groups'[g].pool = groups[g].pool + (-d)
    BY <2>1
  <2>3. Total(Groups, Pools') = Total(Groups, Pools) + (-d)
    BY <2>1, <2>2, PoolChange
  <2> QED BY <2>3, SumsType
<1>3. /\ custody \in Int /\ custody' \in Int
      /\ Total(Accounts, cash) \in Int /\ Total(Groups, Pools) \in Int
  BY SumsType DEF TypeOK
<1> QED
  BY <1>1, <1>2, <1>3, CustodyFollows

-----------------------------------------------------------------------------
(* The steps *)

LEMMA ClearingSolvent ==
  ASSUME TypeOK, TypeOK', CustodySolvent, ClearingStep
  PROVE  CustodySolvent'
<1>1. Amounts \subseteq Nat /\ 1..MaxQty \subseteq Nat
  BY ClearingAssumption
<1>2. ASSUME NEW a \in Accounts, NEW amount \in Amounts,
             DepositCollateral(a, amount)
      PROVE  CustodySolvent'
  <2>1. /\ cash' = [cash EXCEPT ![a] = @ + amount]
        /\ custody' = custody + amount /\ UNCHANGED groups /\ amount \in Int
    BY <1>1, <1>2 DEF DepositCollateral, Credit, settlementVars
  <2> QED BY <2>1, CashOnly
<1>3. ASSUME NEW a \in Accounts, NEW amount \in Int,
             cash' = Debit(cash, a, amount), custody' = custody - amount,
             UNCHANGED groups
      PROVE  CustodySolvent'
  <2>1. cash[a] \in Int /\ custody \in Int
    BY DEF TypeOK
  <2>2. /\ -amount \in Int
        /\ cash[a] - amount = cash[a] + (-amount)
        /\ custody - amount = custody + (-amount)
    BY <2>1
  <2>3. /\ cash' = [cash EXCEPT ![a] = @ + (-amount)]
        /\ custody' = custody + (-amount)
    BY <1>3, <2>2 DEF Debit
  <2> QED BY <1>3, <2>2, <2>3, CashOnly
<1>4. ASSUME NEW a \in Accounts, NEW amount \in Amounts,
             WithdrawCollateral(a, amount)
      PROVE  CustodySolvent'
  BY <1>1, <1>3, <1>4 DEF WithdrawCollateral, settlementVars
<1>5. ASSUME NEW a \in Accounts, NEW s \in Series, NEW qty \in 1..MaxQty,
             MintExternalLong(a, s, qty)
      PROVE  CustodySolvent'
  <2>1. SellerFee(s, qty) \in Int
    BY <1>1, ReadableType, SellerFeeType
  <2>2. /\ cash' = Debit(cash, a, SellerFee(s, qty))
        /\ custody' = custody - SellerFee(s, qty) /\ UNCHANGED groups
    BY <1>5 DEF MintExternalLong, ChargeFee, settlementVars
  <2> QED BY <1>3, <2>1, <2>2
<1>6. ASSUME NEW a \in Accounts, NEW b \in Accounts, NEW s \in Series,
             NEW qty \in 1..MaxQty,
             \/ WrapLong(a, s, qty)
             \/ UnwrapLong(a, s, qty)
             \/ CloseShortWithWrapper(a, s, qty)
             \/ CloseShortWithInternalLong(a, b, s, qty)
      PROVE  CustodySolvent'
  <2>1. UNCHANGED <<cash, custody, groups>>
    BY <1>6 DEF WrapLong, UnwrapLong, CloseShortWithWrapper,
       CloseShortWithInternalLong, settlementVars
  <2> QED BY <2>1 DEF CustodySolvent
<1> QED
  BY <1>2, <1>4, <1>5, <1>6 DEF ClearingStep

\* The liquidator gains what the account and insurance pay him; the penalty
\* leaves custody for insurance.
LEMMA LiquidateSolvent ==
  ASSUME TypeOK, TypeOK', AuctionsPast, CustodySolvent,
         NEW a \in Accounts, NEW l \in Accounts, NEW u \in Underlyings,
         NEW b \in BalanceTable,
         Liquidate(a, l, b, FlowsTo(a, b, Bonus(auctions[a][u])))
  PROVE  CustodySolvent'
<1> DEFINE f == FlowsTo(a, b, Bonus(auctions[a][u]))
<1>1. /\ f.fromAccount \in Nat /\ f.topUp \in Nat /\ f.fromLiquidator \in Nat
      /\ f.penalty \in Nat
  BY FlowsToType DEF Liquidate
<1>2. /\ a # l /\ cash' = CashAfter(a, l, f)
      /\ custody' = custody + f.topUp - f.penalty
      /\ UNCHANGED groups
  BY DEF Liquidate, settlementVars
<1> HIDE DEF f
<1>3. /\ cash'[a] = cash[a] - f.fromAccount + f.fromLiquidator - f.penalty
      /\ cash'[l] = cash[l] + f.fromAccount - f.fromLiquidator + f.topUp
      /\ \A x \in Accounts \ {a, l} : cash'[x] = cash[x]
  BY <1>2 DEF CashAfter, TypeOK
<1>4. cash[a] \in Int /\ cash[l] \in Int /\ custody \in Int
  BY DEF TypeOK
<1>5. PICK d \in Int, e \in Int :
        /\ d = f.fromLiquidator - f.fromAccount - f.penalty
        /\ e = f.fromAccount - f.fromLiquidator + f.topUp
  BY <1>1
<1>6. /\ cash'[a] = cash[a] + d /\ cash'[l] = cash[l] + e
      /\ d + e = f.topUp - f.penalty
  BY <1>1, <1>3, <1>4, <1>5
<1>7. custody' = custody + d + e
  BY <1>1, <1>2, <1>4, <1>6
<1> QED
  BY <1>2, <1>3, <1>6, <1>7, CashMoves

LEMMA LiquidationSolvent ==
  ASSUME TypeOK, TypeOK', AuctionsPast, CustodySolvent, LiquidationStep
  PROVE  CustodySolvent'
<1>1. ASSUME NEW a \in Accounts, NEW u \in Underlyings,
             StartAuction(a, u) \/ EndAuction(a, u)
      PROVE  CustodySolvent'
  <2>1. UNCHANGED <<cash, custody, groups>>
    BY <1>1 DEF StartAuction, EndAuction, settlementVars
  <2> QED BY <2>1 DEF CustodySolvent
<1>2. ASSUME NEW a \in Accounts, NEW l \in Accounts, NEW u \in Underlyings,
             NEW bps \in SliceSizes, LiquidateSlice(a, u, l, bps)
      PROVE  CustodySolvent'
  <2>1. Sliced(a, u, l, bps) \in BalanceTable
    BY SlicedType, LiquidationAssumption
  <2> QED BY <1>2, <2>1, LiquidateSolvent DEF LiquidateSlice
<1>3. ASSUME NEW a \in Accounts, NEW l \in Accounts, NEW s \in Series,
             NEW qty \in 1..supply[s], LiquidateWithWrapper(a, s, qty, l)
      PROVE  CustodySolvent'
  <2>1. Info[s].underlying \in Underlyings /\ qty \in Int
    BY DEF Underlyings, TypeOK
  <2>2. Moved(balances, a, s, qty) \in BalanceTable
    BY <2>1, ReadableType, MovedType
  <2> QED BY <1>3, <2>1, <2>2, LiquidateSolvent DEF LiquidateWithWrapper
<1> QED
  BY <1>1, <1>2, <1>3 DEF LiquidationStep

\* Debts move into the pools; claims, redemptions and sweeps move out.
LEMMA SettlementSolvent ==
  ASSUME TypeOK, TypeOK', CustodySolvent, SettlementStep
  PROVE  CustodySolvent'
<1>1. groups \in [Groups -> AccountingType] /\ \A s \in Series : Info[s].group \in Groups
  BY DEF TypeOK, Groups
<1>2. ASSUME NEW g \in Groups, NEW observed,
             FinalizeGroup(g, observed) \/ FlagOracleStalled(g)
      PROVE  CustodySolvent'
  <2>1. \A h \in Groups : groups'[h].pool = groups[h].pool
    BY <1>1, <1>2 DEF FinalizeGroup, FlagOracleStalled, AccountingType
  <2>2. UNCHANGED <<cash, custody>>
    BY <1>2 DEF FinalizeGroup, FlagOracleStalled
  <2>3. Total(Groups, Pools') = Total(Groups, Pools)
    BY <2>1, PoolsSame
  <2> QED BY <2>2, <2>3 DEF CustodySolvent, Pools
<1>3. ASSUME NEW a \in Accounts, NEW g \in Groups, SettleAccountGroup(a, g)
      PROVE  CustodySolvent'
  <2> DEFINE debt      == DebtOf(Net(a, g))
             collected == AtMost(debt, cash[a])
  <2>1. debt \in Nat
    BY NetType
  <2> HIDE DEF debt
  <2>2. collected \in Nat /\ cash[a] \in Nat
    BY <2>1 DEF AtMost, TypeOK
  <2> HIDE DEF collected
  <2>3. /\ cash' = Debit(cash, a, collected)
        /\ groups' = [groups EXCEPT
             ![g].collected = @ + collected,
             ![g].pool = @ + collected,
             ![g].unpaid = @ + (debt - collected),
             ![g].netCreditN = @ + Pos(Net(a, g)),
             ![g].unclaimedCredits = IF Net(a, g) > 0 THEN @ + 1 ELSE @]
        /\ UNCHANGED custody
    BY <1>3 DEF SettleAccountGroup, debt, collected
  <2>4. /\ groups'[g].pool = groups[g].pool + collected
        /\ \A h \in Groups \ {g} : groups'[h].pool = groups[h].pool
    BY <1>1, <2>3 DEF AccountingType
  <2>5. -collected \in Int /\ groups[g].pool \in Nat
    BY <1>1, <2>2 DEF AccountingType
  <2>6. cash' = [cash EXCEPT ![a] = @ + (-collected)]
    <3>1. cash[a] - collected = cash[a] + (-collected)
      BY <2>2
    <3> QED BY <2>3, <3>1 DEF Debit
  <2>7. groups'[g].pool = groups[g].pool - (-collected)
    BY <2>2, <2>4, <2>5
  <2> QED BY <2>3, <2>4, <2>5, <2>6, <2>7, CashToPool
<1>4. ASSUME NEW a \in Accounts, NEW g \in Groups, ClaimSettlement(a, g)
      PROVE  CustodySolvent'
  <2> DEFINE amount == Payout(g, creditN[a][g])
  <2>1. amount \in Nat
    BY PayoutType DEF TypeOK
  <2> HIDE DEF amount
  <2>2. /\ groups' = [groups EXCEPT ![g].unclaimedCredits = @ - 1,
                                    ![g].pool = @ - amount]
        /\ cash' = [cash EXCEPT ![a] = @ + amount]
        /\ UNCHANGED custody
    BY <1>4 DEF ClaimSettlement, Credit, amount
  <2>3. /\ groups'[g].pool = groups[g].pool - amount
        /\ \A h \in Groups \ {g} : groups'[h].pool = groups[h].pool
    BY <1>1, <2>2 DEF AccountingType
  <2>4. amount \in Int
    BY <2>1
  <2> QED BY <2>2, <2>3, <2>4, CashToPool
<1>5. ASSUME NEW g \in Groups, ComputeRecoveryRatio(g)
      PROVE  CustodySolvent'
  <2> DEFINE cover == CoverOf(g)
  <2>1. cover \in Int
    BY CoverType
  <2> HIDE DEF cover
  <2>2. /\ custody' = custody + cover
        /\ groups' = [groups EXCEPT ![g].insurance = cover,
                                    ![g].pool = @ + cover,
                                    ![g].ratioSet = TRUE,
                                    ![g].ratio = RatioOf(g, groups[g].collected + cover)]
        /\ UNCHANGED cash
    BY <1>5 DEF ComputeRecoveryRatio, cover
  <2>3. /\ groups'[g].pool = groups[g].pool + cover
        /\ \A h \in Groups \ {g} : groups'[h].pool = groups[h].pool
    BY <1>1, <2>2 DEF AccountingType
  <2> QED BY <2>1, <2>2, <2>3, PoolMoves
<1>6. ASSUME NEW g \in Groups, NEW out \in Nat,
             groups' = [groups EXCEPT ![g].pool = @ - out],
             custody' = custody - out, UNCHANGED cash
      PROVE  CustodySolvent'
  <2>1. /\ -out \in Int /\ custody \in Int /\ groups[g].pool \in Int
    BY <1>1 DEF TypeOK, AccountingType
  <2>2. /\ groups'[g].pool = groups[g].pool + (-out)
        /\ \A h \in Groups \ {g} : groups'[h].pool = groups[h].pool
    BY <1>1, <1>6, <2>1 DEF AccountingType
  <2>3. custody' = custody + (-out)
    BY <1>6, <2>1
  <2> QED BY <1>6, <2>1, <2>2, <2>3, PoolMoves
<1>7. ASSUME NEW s \in Series, NEW qty \in 1..supply[s], RedeemWrapper(s, qty)
      PROVE  CustodySolvent'
  <2>1. RedeemPayout(s, qty) \in Nat
    BY RedeemPayoutType DEF TypeOK
  <2> QED BY <1>1, <1>6, <1>7, <2>1 DEF RedeemWrapper
<1>8. ASSUME NEW g \in Groups, SweepDust(g)
      PROVE  CustodySolvent'
  <2>1. groups[g].pool \in Nat /\ groups[g].pool - groups[g].pool = 0
    BY <1>1 DEF AccountingType
  <2>2. groups' = [groups EXCEPT ![g].pool = @ - groups[g].pool]
    BY <1>1, <1>8, <2>1 DEF SweepDust, AccountingType
  <2> QED BY <1>6, <1>8, <2>1, <2>2 DEF SweepDust
<1> QED
  BY <1>2, <1>3, <1>4, <1>5, <1>7, <1>8 DEF SettlementStep, SeriesIn

\* Clock, oracles, guardian and fund deposits stay outside custody.
LEMMA SurroundingsSolvent ==
  ASSUME CustodySolvent, SurroundingsStep
  PROVE  CustodySolvent'
<1>1. UNCHANGED <<cash, custody, groups>>
  BY DEF SurroundingsStep, Tick, SetSpot, SetSurface, SetEmergencyMode, SetPaused, SetProductCloseOnly,
     DepositInsurance, FundKeeperReserve, WithdrawTreasury, settlementVars
<1> QED
  BY <1>1 DEF CustodySolvent

-----------------------------------------------------------------------------

\* The first tokens in custody are the deposits, and the pools are empty.
LEMMA InitSolvent == Init => CustodySolvent
<1> SUFFICES ASSUME Init PROVE CustodySolvent
  OBVIOUS
<1>1. \A g \in Groups : Pools[g] = 0
  BY DEF Init, NoAccounting, Pools
<1>2. Total(Groups, Pools) = 0
  BY <1>1, TotalZero
<1>3. Total(Accounts, InitCash) \in Nat
  BY IndexesFinite, TotalType, OptaraAssumption
<1> QED
  BY <1>2, <1>3 DEF Init, CustodySolvent, Pools

LEMMA NextSolvent ==
  TypeOK /\ TypeOK' /\ AuctionsPast /\ CustodySolvent /\ [Next]_vars => CustodySolvent'
<1> SUFFICES ASSUME TypeOK, TypeOK', AuctionsPast, CustodySolvent, [Next]_vars
             PROVE  CustodySolvent'
  OBVIOUS
<1>1. UNCHANGED vars => CustodySolvent'
  BY DEF vars, settlementVars, CustodySolvent
<1> QED
  BY <1>1, ClearingSolvent, LiquidationSolvent, SettlementSolvent,
     SurroundingsSolvent DEF Next

\* OptionClearing holds exactly the account cash and the group pools it owes:
\* fees, penalties, top-ups, cover, payouts and sweeps move tokens and books
\* alike (OptionClearing.payInsurance, payOut; SettlementWindow; INV-7).
THEOREM SolvencyInvariant == Spec => []CustodySolvent
<1>1. IType => TypeOK /\ AuctionsPast
  BY DEF IType
<1> QED
  BY <1>1, ITypeCorrect, InitSolvent, NextSolvent, PTL DEF Spec

\* Positions and tokens both balance, in every state the core reaches
\* (OptionClearing.sol; INV-1, INV-7).
THEOREM BooksAlwaysBalance == Spec => []BooksBalance
<1>1. WrapperBacking /\ CustodySolvent => BooksBalance
  BY DEF BooksBalance
<1> QED
  BY <1>1, BackingInvariant, SolvencyInvariant, PTL

-----------------------------------------------------------------------------
(* Sums with signs *)

\* A sum of differences is the difference of the sums.
LEMMA SignedDifference ==
  ASSUME NEW S, IsFiniteSet(S), NEW f, NEW p, NEW n,
         \A x \in S : p[x] \in Nat /\ n[x] \in Nat /\ f[x] = p[x] - n[x]
  PROVE  SignedTotal(S, f) = Total(S, p) - Total(S, n)
<1> DEFINE P == [x \in S |-> Pos(f[x])]
           N == [x \in S |-> Neg(f[x])]
           pn == [x \in S |-> P[x] + n[x]]
           np == [x \in S |-> N[x] + p[x]]
<1>1. \A x \in S : P[x] \in Nat /\ N[x] \in Nat /\ pn[x] = np[x]
  BY DEF Pos, Neg
<1>2. SignedTotal(S, f) = Total(S, P) - Total(S, N)
  BY DEF SignedTotal
<1>3. Total(S, pn) = Total(S, np)
  <2> HIDE DEF pn, np
  <2> QED BY <1>1, TotalCong
<1> HIDE DEF P, N
<1>4. /\ Total(S, P) \in Nat /\ Total(S, N) \in Nat
      /\ Total(S, p) \in Nat /\ Total(S, n) \in Nat
  BY <1>1, TotalType
<1>5. Total(S, P) + Total(S, n) = Total(S, N) + Total(S, p)
  BY <1>1, <1>3, TotalAdd
<1> QED
  BY <1>2, <1>4, <1>5

\* Changing one term changes a signed sum by the difference.
LEMMA SignedUpdate ==
  ASSUME NEW S, IsFiniteSet(S), NEW f, NEW h, NEW a \in S,
         \A x \in S : f[x] \in Int, \A x \in S : h[x] \in Int,
         \A x \in S \ {a} : h[x] = f[x]
  PROVE  SignedTotal(S, h) = SignedTotal(S, f) - f[a] + h[a]
<1> DEFINE pf == [x \in S |-> Pos(f[x])]
           nf == [x \in S |-> Neg(f[x])]
           ph == [x \in S |-> Pos(h[x])]
           nh == [x \in S |-> Neg(h[x])]
<1>1. \A x \in S : /\ pf[x] \in Nat /\ nf[x] \in Nat /\ f[x] = pf[x] - nf[x]
                   /\ ph[x] \in Nat /\ nh[x] \in Nat /\ h[x] = ph[x] - nh[x]
  BY DEF Pos, Neg
<1>2. \A x \in S \ {a} : pf[x] = ph[x] /\ nf[x] = nh[x]
  OBVIOUS
<1>3. /\ SignedTotal(S, f) = Total(S, pf) - Total(S, nf)
      /\ SignedTotal(S, h) = Total(S, ph) - Total(S, nh)
  BY DEF SignedTotal
<1> HIDE DEF pf, nf, ph, nh
<1>4. /\ Total(S, ph) = Total(S, pf) - pf[a] + ph[a]
      /\ Total(S, nh) = Total(S, nf) - nf[a] + nh[a]
  BY <1>1, <1>2, TotalUpdate
<1>5. Total(S, pf) \in Nat /\ Total(S, nf) \in Nat
  BY <1>1, TotalType
<1>6. /\ pf[a] \in Nat /\ nf[a] \in Nat /\ f[a] = pf[a] - nf[a]
      /\ ph[a] \in Nat /\ nh[a] \in Nat /\ h[a] = ph[a] - nh[a]
  BY <1>1
<1> QED
  BY <1>3, <1>4, <1>5, <1>6

LEMMA SignedZero ==
  ASSUME NEW S, IsFiniteSet(S), NEW f, \A x \in S : f[x] = 0
  PROVE  SignedTotal(S, f) = 0
<1>1. \A x \in S : Pos(f[x]) = 0 /\ Neg(f[x]) = 0
  BY DEF Pos, Neg
<1>2. /\ Total(S, [x \in S |-> Pos(f[x])]) = 0
      /\ Total(S, [x \in S |-> Neg(f[x])]) = 0
  BY <1>1, TotalZero
<1> QED
  BY <1>2 DEF SignedTotal

LEMMA SignedCong ==
  ASSUME NEW S, IsFiniteSet(S), NEW f, NEW h, \A x \in S : f[x] = h[x]
  PROVE  SignedTotal(S, f) = SignedTotal(S, h)
<1>1. /\ [x \in S |-> Pos(f[x])] = [x \in S |-> Pos(h[x])]
      /\ [x \in S |-> Neg(f[x])] = [x \in S |-> Neg(h[x])]
  OBVIOUS
<1> QED
  BY <1>1 DEF SignedTotal

-----------------------------------------------------------------------------
(* The net payoffs of a group's accounts, for a table of balances b and a  *)
(* price p                                                                 *)

Claims(sup, g, p) == Total(SeriesIn(g), [s \in Series |-> sup[s] * UnitPayoff(s, p)])

NetAt(b, a, g, p) ==
  SignedTotal(SeriesIn(g), [s \in Series |-> b[a][s] * UnitPayoff(s, p)])

NetOf(b, g, p) == SignedTotal(Accounts, [a \in Accounts |-> NetAt(b, a, g, p)])

LEMMA NetAtType ==
  ASSUME NEW b \in BalanceTable, NEW a \in Accounts, NEW g, NEW p \in Nat
  PROVE  NetAt(b, a, g, p) \in Int
<1> DEFINE f == [s \in Series |-> b[a][s] * UnitPayoff(s, p)]
<1>1. \A s \in Series : b[a][s] \in Int /\ UnitPayoff(s, p) \in Nat
  BY PayoffType DEF BalanceTable
<1>2. \A s \in SeriesIn(g) : f[s] \in Int
  BY <1>1, SeriesInFinite
<1> HIDE DEF f
<1>3. SignedTotal(SeriesIn(g), f) \in Int
  BY <1>2, SeriesInFinite, SignedTotalType
<1> QED
  BY <1>3 DEF NetAt, f

\* One side of the accounts, summed by account or by series.
LEMMA SideSum ==
  ASSUME NEW Q, \A a \in Accounts, s \in Series : Q[a][s] \in Nat,
         NEW g, NEW p \in Nat
  PROVE  Total(Accounts,
           [a \in Accounts |-> Total(SeriesIn(g), [s \in Series |-> Q[a][s] * UnitPayoff(s, p)])])
         = Total(SeriesIn(g),
             [s \in Series |-> Total(Accounts, [a \in Accounts |-> Q[a][s]]) * UnitPayoff(s, p)])
<1> DEFINE S == SeriesIn(g)
           h == [a \in Accounts |-> [s \in Series |-> Q[a][s] * UnitPayoff(s, p)]]
           F == [a \in Accounts |-> Total(S, [s \in Series |-> Q[a][s] * UnitPayoff(s, p)])]
           G == [s \in Series |-> Total(Accounts, [a \in Accounts |-> Q[a][s]]) * UnitPayoff(s, p)]
<1>1. IsFiniteSet(Accounts) /\ IsFiniteSet(S) /\ S \subseteq Series
  BY IndexesFinite, SeriesInFinite
<1>2. \A s \in Series : UnitPayoff(s, p) \in Nat
  BY PayoffType
<1>3. \A a \in Accounts, s \in S : h[a][s] \in Nat
  BY <1>1, <1>2
<1>4. \A a \in Accounts : RowSums(Accounts, S, h)[a] = F[a]
  BY DEF RowSums
<1>5. \A s \in S : ColumnSums(Accounts, S, h)[s] = G[s]
  <2> TAKE s \in S
  <2> DEFINE q == [a \in Accounts |-> Q[a][s]]
             k == UnitPayoff(s, p)
  <2>1. k \in Nat /\ \A a \in Accounts : q[a] \in Nat
    BY <1>1, <1>2
  <2>2. ColumnSums(Accounts, S, h)[s] = Total(Accounts, [a \in Accounts |-> q[a] * k])
    BY <1>1 DEF ColumnSums
  <2>3. G[s] = Total(Accounts, q) * k
    BY <1>1
  <2> HIDE DEF q, k, G
  <2>4. Total(Accounts, [a \in Accounts |-> q[a] * k]) = Total(Accounts, q) * k
    BY <1>1, <2>1, TotalScale
  <2> QED BY <2>2, <2>3, <2>4
<1> HIDE DEF h, F, G, S
<1>6. Total(Accounts, RowSums(Accounts, S, h)) = Total(S, ColumnSums(Accounts, S, h))
  BY <1>1, <1>3, TotalSwap
<1>7. /\ Total(Accounts, RowSums(Accounts, S, h)) = Total(Accounts, F)
      /\ Total(S, ColumnSums(Accounts, S, h)) = Total(S, G)
  BY <1>4, <1>5, TotalCong
<1> QED
  BY <1>6, <1>7 DEF F, G, S

\* Where every long and wrapper is matched by a short, the net payoffs of all
\* accounts are minus what the wrappers claim.
LEMMA NetMatched ==
  ASSUME NEW b \in BalanceTable, NEW sup \in [Series -> Nat], NEW g, NEW p \in Nat,
         \A s \in SeriesIn(g) : LongsOf(b, s) + sup[s] = ShortsOf(b, s)
  PROVE  NetOf(b, g, p) = -Claims(sup, g, p)
<1> DEFINE S == SeriesIn(g)
           pos == [a \in Accounts |-> [s \in Series |-> Pos(b[a][s])]]
           neg == [a \in Accounts |-> [s \in Series |-> Neg(b[a][s])]]
           L == [a \in Accounts |-> Total(S, [s \in Series |-> pos[a][s] * UnitPayoff(s, p)])]
           M == [a \in Accounts |-> Total(S, [s \in Series |-> neg[a][s] * UnitPayoff(s, p)])]
           GL == [s \in Series |-> LongsOf(b, s) * UnitPayoff(s, p)]
           GM == [s \in Series |-> ShortsOf(b, s) * UnitPayoff(s, p)]
           C == [s \in Series |-> sup[s] * UnitPayoff(s, p)]
<1>1. IsFiniteSet(Accounts) /\ IsFiniteSet(S) /\ S \subseteq Series
  BY IndexesFinite, SeriesInFinite
<1>2. \A s \in Series : UnitPayoff(s, p) \in Nat
  BY PayoffType
<1>3. \A a \in Accounts, s \in Series :
        pos[a][s] \in Nat /\ neg[a][s] \in Nat /\ b[a][s] = pos[a][s] - neg[a][s]
  BY DEF BalanceTable, Pos, Neg
<1>4. \A a \in Accounts :
        L[a] \in Nat /\ M[a] \in Nat /\ NetAt(b, a, g, p) = L[a] - M[a]
  <2> TAKE a \in Accounts
  <2> DEFINE f == [s \in Series |-> b[a][s] * UnitPayoff(s, p)]
             l == [s \in Series |-> pos[a][s] * UnitPayoff(s, p)]
             m == [s \in Series |-> neg[a][s] * UnitPayoff(s, p)]
  <2>1. \A s \in Series : l[s] \in Nat /\ m[s] \in Nat /\ f[s] = l[s] - m[s]
    <3> TAKE s \in Series
    <3> DEFINE k == UnitPayoff(s, p)
    <3>1. k \in Nat
      BY <1>2
    <3>2. f[s] = b[a][s] * k /\ l[s] = pos[a][s] * k /\ m[s] = neg[a][s] * k
      OBVIOUS
    <3> HIDE DEF k, f, l, m
    <3>3. \A x, y \in Nat : x * k \in Nat /\ (x - y) * k = x * k - y * k
      BY <3>1
    <3> QED BY <1>3, <3>1, <3>2, <3>3
  <2>2. NetAt(b, a, g, p) = SignedTotal(S, f) /\ L[a] = Total(S, l) /\ M[a] = Total(S, m)
    BY DEF NetAt
  <2> HIDE DEF f, l, m, L, M, S
  <2>3. SignedTotal(S, f) = Total(S, l) - Total(S, m)
    BY <1>1, <2>1, SignedDifference
  <2>4. Total(S, l) \in Nat /\ Total(S, m) \in Nat
    BY <1>1, <2>1, TotalType
  <2> QED BY <2>2, <2>3, <2>4
<1>5. NetOf(b, g, p) = Total(Accounts, L) - Total(Accounts, M)
  <2> DEFINE N == [a \in Accounts |-> NetAt(b, a, g, p)]
  <2>1. NetOf(b, g, p) = SignedTotal(Accounts, N)
    BY DEF NetOf
  <2>2. \A a \in Accounts : L[a] \in Nat /\ M[a] \in Nat /\ N[a] = L[a] - M[a]
    BY <1>4
  <2> HIDE DEF N, L, M
  <2> QED BY <1>1, <2>1, <2>2, SignedDifference
<1>6. Total(Accounts, L) = Total(S, GL) /\ Total(Accounts, M) = Total(S, GM)
  <2>1. \A s \in S : /\ Total(Accounts, [a \in Accounts |-> pos[a][s]]) = LongsOf(b, s)
                     /\ Total(Accounts, [a \in Accounts |-> neg[a][s]]) = ShortsOf(b, s)
    <3> TAKE s \in S
    <3>1. /\ [a \in Accounts |-> pos[a][s]] = [a \in Accounts |-> Pos(b[a][s])]
          /\ [a \in Accounts |-> neg[a][s]] = [a \in Accounts |-> Neg(b[a][s])]
      BY <1>1
    <3> QED BY <3>1 DEF LongsOf, ShortsOf
  <2> HIDE DEF pos, neg
  <2>2. Total(Accounts, L)
          = Total(S, [s \in Series |->
              Total(Accounts, [a \in Accounts |-> pos[a][s]]) * UnitPayoff(s, p)])
    BY <1>3, SideSum
  <2>3. Total(Accounts, M)
          = Total(S, [s \in Series |->
              Total(Accounts, [a \in Accounts |-> neg[a][s]]) * UnitPayoff(s, p)])
    BY <1>3, SideSum
  <2>4. \A s \in S :
          /\ [t \in Series |-> Total(Accounts, [a \in Accounts |-> pos[a][t]])
                                 * UnitPayoff(t, p)][s] = GL[s]
          /\ [t \in Series |-> Total(Accounts, [a \in Accounts |-> neg[a][t]])
                                 * UnitPayoff(t, p)][s] = GM[s]
    BY <1>1, <2>1
  <2> HIDE DEF S, GL, GM, L, M
  <2> QED BY <2>2, <2>3, <2>4, TotalCong
<1>7. Total(S, GM) = Total(S, GL) + Total(S, C)
  <2>1. \A s \in S : GL[s] \in Nat /\ C[s] \in Nat /\ GM[s] = [t \in S |-> GL[t] + C[t]][s]
    <3> TAKE s \in S
    <3> DEFINE k == UnitPayoff(s, p)
               lo == LongsOf(b, s)
               sh == ShortsOf(b, s)
               u == sup[s]
    <3>1. /\ k \in Nat /\ lo \in Nat /\ sh \in Nat /\ u \in Nat /\ lo + u = sh
          /\ GL[s] = lo * k /\ GM[s] = sh * k /\ C[s] = u * k
      BY <1>1, <1>2, SidesType
    <3> HIDE DEF k, lo, sh, u, GL, GM, C
    <3>2. (lo + u) * k = lo * k + u * k
      BY <3>1
    <3> QED BY <3>1, <3>2
  <2> HIDE DEF S, GL, GM, C
  <2>2. Total(S, GM) = Total(S, [t \in S |-> GL[t] + C[t]])
    BY <2>1, TotalCong
  <2> QED BY <1>1, <2>1, <2>2, TotalAdd
<1>8. Total(S, GL) \in Nat /\ Total(S, C) \in Nat
  <2>1. \A s \in S : GL[s] \in Nat /\ C[s] \in Nat
    BY <1>1, <1>2, SidesType
  <2> HIDE DEF S, GL, C
  <2> QED BY <1>1, <2>1, TotalType
<1>9. Claims(sup, g, p) = Total(S, C)
  BY DEF Claims
<1> HIDE DEF L, M, GL, GM, C, S
<1> QED
  BY <1>5, <1>6, <1>7, <1>8, <1>9

\* An account that leaves the group takes its net payoff out of the sum.
LEMMA NetLeaves ==
  ASSUME NEW b \in BalanceTable, NEW c \in BalanceTable, NEW a \in Accounts,
         NEW g, NEW p \in Nat,
         \A s \in SeriesIn(g) : c[a][s] = 0,
         \A x \in Accounts \ {a} : c[x] = b[x]
  PROVE  NetOf(c, g, p) = NetOf(b, g, p) - NetAt(b, a, g, p)
<1> DEFINE n == [x \in Accounts |-> NetAt(b, x, g, p)]
           m == [x \in Accounts |-> NetAt(c, x, g, p)]
<1>1. \A x \in Accounts : n[x] \in Int /\ m[x] \in Int
  BY NetAtType
<1>2. \A x \in Accounts \ {a} : m[x] = n[x]
  BY DEF NetAt
<1>3. m[a] = 0
  <2> DEFINE f == [s \in Series |-> c[a][s] * UnitPayoff(s, p)]
  <2>1. \A s \in SeriesIn(g) : f[s] = 0
    BY PayoffType, SeriesInFinite
  <2>2. m[a] = SignedTotal(SeriesIn(g), f)
    BY DEF NetAt
  <2> HIDE DEF f, m
  <2> QED BY <2>1, <2>2, SeriesInFinite, SignedZero
<1>4. n[a] = NetAt(b, a, g, p)
  OBVIOUS
<1>5. NetOf(b, g, p) = SignedTotal(Accounts, n) /\ NetOf(c, g, p) = SignedTotal(Accounts, m)
  BY DEF NetOf
<1> HIDE DEF n, m
<1>6. SignedTotal(Accounts, m) = SignedTotal(Accounts, n) - n[a] + m[a]
  BY <1>1, <1>2, IndexesFinite, SignedUpdate
<1>7. SignedTotal(Accounts, n) \in Int
  BY <1>1, IndexesFinite, SignedTotalType
<1> QED
  BY <1>1, <1>3, <1>4, <1>5, <1>6, <1>7

\* When nobody is left in the group, nothing is left to net.
LEMMA NetOfNobody ==
  ASSUME NEW b \in BalanceTable, NEW g, NEW p \in Nat, Participants(b, g) = {}
  PROVE  NetOf(b, g, p) = 0
<1>1. \A a \in Accounts, s \in SeriesIn(g) : b[a][s] = 0
  BY SeriesInFinite DEF Participants, Held
<1>2. \A a \in Accounts : NetAt(b, a, g, p) = 0
  <2> TAKE a \in Accounts
  <2> DEFINE f == [s \in Series |-> b[a][s] * UnitPayoff(s, p)]
  <2>1. \A s \in SeriesIn(g) : f[s] = 0
    BY <1>1, PayoffType, SeriesInFinite
  <2> HIDE DEF f
  <2>2. SignedTotal(SeriesIn(g), f) = 0
    BY <2>1, SeriesInFinite, SignedZero
  <2> QED BY <2>2 DEF NetAt, f
<1> QED
  BY <1>2, IndexesFinite, SignedZero DEF NetOf

\* Tables that agree on the group agree on its net payoffs.
LEMMA NetSame ==
  ASSUME NEW b, NEW c, NEW g, NEW p,
         \A a \in Accounts, s \in SeriesIn(g) : c[a][s] = b[a][s]
  PROVE  NetOf(c, g, p) = NetOf(b, g, p) /\ Participants(c, g) = Participants(b, g)
<1>1. \A a \in Accounts : NetAt(c, a, g, p) = NetAt(b, a, g, p)
  <2> TAKE a \in Accounts
  <2> DEFINE f == [s \in Series |-> b[a][s] * UnitPayoff(s, p)]
             h == [s \in Series |-> c[a][s] * UnitPayoff(s, p)]
  <2>1. \A s \in SeriesIn(g) : h[s] = f[s]
    BY SeriesInFinite
  <2> HIDE DEF f, h
  <2>2. SignedTotal(SeriesIn(g), h) = SignedTotal(SeriesIn(g), f)
    BY <2>1, SeriesInFinite, SignedCong
  <2> QED BY <2>2 DEF NetAt, f, h
<1>2. \A a \in Accounts : Held(c, a) \cap SeriesIn(g) = Held(b, a) \cap SeriesIn(g)
  BY DEF Held
<1> QED
  BY <1>1, <1>2 DEF NetOf, Participants

-----------------------------------------------------------------------------
(* Rounded divisions *)

LEMMA FloorBounds ==
  ASSUME NEW x \in Nat, NEW d \in Nat \ {0}
  PROVE  /\ x \div d \in Nat /\ (x \div d) * d <= x
         /\ \A k \in Nat : k * d <= x => k <= x \div d
<1>1. x \div d \in Nat /\ x % d \in 0..(d - 1) /\ x = d * (x \div d) + (x % d)
  OBVIOUS
<1> DEFINE q == x \div d
<1>2. PICK r \in 0..(d - 1) : x = d * q + r
  BY <1>1
<1>3. q \in Nat
  BY <1>1
<1> HIDE DEF q
<1>4. ASSUME NEW k \in Nat, k * d <= x
      PROVE  k <= q
  <2> SUFFICES ASSUME k >= q + 1 PROVE FALSE
    BY <1>3
  <2>1. k * d >= (q + 1) * d
    BY <1>3
  <2>2. (q + 1) * d = d * q + d
    BY <1>3
  <2> QED BY <1>2, <1>3, <1>4, <2>1, <2>2
<1>5. q * d <= x
  BY <1>2, <1>3
<1> QED
  BY <1>3, <1>4, <1>5 DEF q

\* A debt rounded up is at least the debt.
LEMMA DebtCovers ==
  ASSUME NEW net \in Int
  PROVE  DebtOf(net) \in Nat /\ DebtOf(net) * Denom >= Neg(net)
<1> DEFINE n == Neg(net)
           x == n + Denom - 1
<1>1. Denom \in Nat \ {0} /\ n \in Nat /\ x \in Nat
  BY ProtocolAssumption DEF Neg
<1>2. DebtOf(net) = x \div Denom
  BY DEF DebtOf, DivUp
<1> HIDE DEF n
<1>3. x \div Denom \in Nat /\ x % Denom \in 0..(Denom - 1)
      /\ x = Denom * (x \div Denom) + (x % Denom)
  BY <1>1
<1>4. (x \div Denom) * Denom >= n
  BY <1>1, <1>3
<1> QED
  BY <1>2, <1>3, <1>4 DEF n

-----------------------------------------------------------------------------
(* What a step may do to a group                                           *)

\* A finalized group has expired.
FinalAfterExpiry == \A g \in Groups : groups[g].finalized => now >= GroupExpiry(g)

\* Nothing of the group is settled, and its positions only move while they may.
Calm(g) ==
  /\ \E flag \in BOOLEAN : groups'[g] = [groups[g] EXCEPT !.stalledFlagged = flag]
  /\ \A a \in Accounts : creditN'[a][g] = creditN[a][g]
  /\ now' >= now
  /\ now >= GroupExpiry(g) =>
       Participants(balances', g) \subseteq Participants(balances, g)
  /\ groups[g].finalized =>
       \A s \in SeriesIn(g) : /\ supply'[s] = supply[s]
                              /\ \A a \in Accounts : balances'[a][s] = balances[a][s]

\* Trades open positions before expiry only, and leave finalized series alone.
OnlyOpenMoves ==
  \A s \in Series :
    /\ supply'[s] # supply[s] => ~Finalized(s)
    /\ \A a \in Accounts : balances'[a][s] # balances[a][s] =>
                             ~Finalized(s) /\ (Unexpired(s) \/ balances[a][s] # 0)

Trading == OnlyOpenMoves /\ UNCHANGED <<groups, creditN, now>>

LEMMA SeriesGroup ==
  ASSUME NEW s \in Series
  PROVE  /\ Info[s].group \in Groups /\ s \in SeriesIn(Info[s].group)
         /\ Expiry(s) = GroupExpiry(Info[s].group)
         /\ \A g : s \in SeriesIn(g) => g = Info[s].group
BY ProtocolAssumption DEF Groups, SeriesIn

LEMMA ExpiryType ==
  ASSUME NEW g \in Groups
  PROVE  GroupExpiry(g) \in Nat \ {0}
<1>1. PICK s \in Series : g = Info[s].group
  BY DEF Groups
<1> QED
  BY <1>1, SeriesGroup, ProtocolAssumption

LEMMA LiveIsOpen ==
  ASSUME TypeOK, FinalAfterExpiry, NEW s \in Series, Unexpired(s)
  PROVE  ~Finalized(s)
<1>1. Info[s].group \in Groups /\ Expiry(s) = GroupExpiry(Info[s].group) /\ now \in Nat
      /\ Expiry(s) \in Nat
  BY SeriesGroup, ProtocolAssumption DEF TypeOK
<1> QED
  BY <1>1 DEF Unexpired, FinalAfterExpiry, Finalized

\* One balance and the supply of its series move.
LEMMA OneMove ==
  ASSUME TypeOK, NEW a \in Accounts, NEW s \in Series, NEW d \in Int,
         balances' = Moved(balances, a, s, d),
         \E e \in Int : supply' = [supply EXCEPT ![s] = @ + e],
         UNCHANGED <<groups, creditN, now>>,
         ~Finalized(s), Unexpired(s) \/ balances[a][s] # 0
  PROVE  Trading
<1>1. balances \in [Accounts -> [Series -> Int]] /\ supply \in [Series -> Nat]
  BY DEF TypeOK
<1>2. \A x \in Accounts, t \in Series :
        balances'[x][t] # balances[x][t] => x = a /\ t = s
  BY <1>1 DEF Moved
<1>3. \A t \in Series : supply'[t] # supply[t] => t = s
  BY <1>1
<1> QED
  BY <1>2, <1>3 DEF Trading, OnlyOpenMoves

LEMMA ClearingTrades ==
  ASSUME TypeOK, FinalAfterExpiry, ClearingStep
  PROVE  Trading
<1>1. /\ Amounts \subseteq Nat /\ 1..MaxQty \subseteq Nat \ {0}
      /\ balances \in [Accounts -> [Series -> Int]] /\ supply \in [Series -> Nat]
  BY ClearingAssumption DEF TypeOK
<1>2. ASSUME NEW a \in Accounts, NEW amount \in Amounts,
             DepositCollateral(a, amount) \/ WithdrawCollateral(a, amount)
      PROVE  Trading
  <2>1. UNCHANGED <<balances, supply, groups, creditN, now>>
    BY <1>2 DEF DepositCollateral, WithdrawCollateral, settlementVars, marketVars
  <2> QED BY <2>1 DEF Trading, OnlyOpenMoves
<1>3. ASSUME NEW a \in Accounts, NEW s \in Series, NEW qty \in 1..MaxQty,
             MintExternalLong(a, s, qty) \/ WrapLong(a, s, qty)
      PROVE  Trading
  <2>1. /\ balances' = Moved(balances, a, s, -qty) /\ Unexpired(s)
        /\ supply' = [supply EXCEPT ![s] = @ + qty]
        /\ UNCHANGED <<groups, creditN, now>>
    BY <1>3 DEF MintExternalLong, WrapLong, MintWrapper, CheckOpenRisk,
       settlementVars, marketVars
  <2>2. qty \in Int /\ -qty \in Int
    BY <1>1
  <2> QED BY <2>1, <2>2, LiveIsOpen, OneMove
<1>4. ASSUME NEW a \in Accounts, NEW s \in Series, NEW qty \in 1..MaxQty,
             UnwrapLong(a, s, qty) \/ CloseShortWithWrapper(a, s, qty)
      PROVE  Trading
  <2>1. /\ balances' = Moved(balances, a, s, qty)
        /\ Unexpired(s) \/ (~Finalized(s) /\ balances[a][s] <= -qty)
        /\ supply' = [supply EXCEPT ![s] = @ - qty]
        /\ UNCHANGED <<groups, creditN, now>>
    BY <1>4 DEF UnwrapLong, CloseShortWithWrapper, BurnWrapper, settlementVars, marketVars
  <2>2. qty \in Int /\ -qty \in Int /\ supply[s] - qty = supply[s] + (-qty)
    BY <1>1
  <2>3. ~Finalized(s) /\ (Unexpired(s) \/ balances[a][s] # 0)
    BY <1>1, <2>1, LiveIsOpen
  <2> QED BY <2>1, <2>2, <2>3, OneMove
<1>5. ASSUME NEW from \in Accounts, NEW to \in Accounts, NEW s \in Series,
             NEW qty \in 1..MaxQty, CloseShortWithInternalLong(from, to, s, qty)
      PROVE  Trading
  <2>1. /\ balances' = Moved(Moved(balances, from, s, -qty), to, s, qty)
        /\ balances[from][s] >= qty /\ balances[to][s] <= -qty /\ ~Finalized(s)
        /\ UNCHANGED <<supply, groups, creditN, now>>
    BY <1>5 DEF CloseShortWithInternalLong, settlementVars, marketVars
  <2>2. balances[from][s] # 0 /\ balances[to][s] # 0
    BY <1>1, <2>1
  <2>3. \A x \in Accounts, t \in Series :
          balances'[x][t] # balances[x][t] => x \in {from, to} /\ t = s
    BY <1>1, <2>1 DEF Moved
  <2> QED BY <2>1, <2>2, <2>3 DEF Trading, OnlyOpenMoves
<1> QED
  BY <1>2, <1>3, <1>4, <1>5 DEF ClearingStep

LEMMA LiquidationTrades ==
  ASSUME TypeOK, FinalAfterExpiry, LiquidationStep
  PROVE  Trading
<1>1. balances \in [Accounts -> [Series -> Int]] /\ supply \in [Series -> Nat]
  BY DEF TypeOK
<1>2. ASSUME NEW a \in Accounts, NEW u \in Underlyings,
             StartAuction(a, u) \/ EndAuction(a, u)
      PROVE  Trading
  <2>1. UNCHANGED <<balances, supply, groups, creditN, now>>
    BY <1>2 DEF StartAuction, EndAuction, settlementVars, marketVars
  <2> QED BY <2>1 DEF Trading, OnlyOpenMoves
<1>3. ASSUME NEW a \in Accounts, NEW l \in Accounts, NEW u \in Underlyings,
             NEW bps \in SliceSizes, LiquidateSlice(a, u, l, bps)
      PROVE  Trading
  <2>1. /\ balances' = Sliced(a, u, l, bps)
        /\ UNCHANGED <<supply, groups, creditN, now>>
    BY <1>3 DEF LiquidateSlice, Liquidate, settlementVars, marketVars
  <2>2. \A x \in Accounts, s \in Series :
          s \notin UnexpiredLegs(a, u) => balances'[x][s] = balances[x][s]
    BY <1>1, <2>1 DEF Sliced
  <2>3. \A s \in UnexpiredLegs(a, u) : Unexpired(s) /\ ~Finalized(s)
    BY LiveIsOpen DEF UnexpiredLegs, InBucket, Held
  <2> QED BY <2>1, <2>2, <2>3 DEF Trading, OnlyOpenMoves
<1>4. ASSUME NEW a \in Accounts, NEW l \in Accounts, NEW s \in Series,
             NEW qty \in 1..supply[s], LiquidateWithWrapper(a, s, qty, l)
      PROVE  Trading
  <2>1. /\ balances' = Moved(balances, a, s, qty) /\ Unexpired(s)
        /\ supply' = [supply EXCEPT ![s] = @ - qty]
        /\ UNCHANGED <<groups, creditN, now>>
    BY <1>4 DEF LiquidateWithWrapper, Liquidate, BurnWrapper, settlementVars, marketVars
  <2>2. qty \in Int /\ -qty \in Int /\ supply[s] - qty = supply[s] + (-qty)
    BY <1>1
  <2> QED BY <2>1, <2>2, LiveIsOpen, OneMove
<1> QED
  BY <1>2, <1>3, <1>4 DEF LiquidationStep

LEMMA TradingCalm ==
  ASSUME TypeOK, FinalAfterExpiry, Trading, NEW g \in Groups
  PROVE  Calm(g)
<1>1. \A s \in SeriesIn(g) :
        s \in Series /\ Info[s].group = g /\ Expiry(s) = GroupExpiry(g)
  BY SeriesGroup DEF SeriesIn
<1>2. groups'[g] = [groups[g] EXCEPT !.stalledFlagged = groups[g].stalledFlagged]
      /\ groups[g].stalledFlagged \in BOOLEAN
  BY DEF Trading, TypeOK, AccountingType
<1>3. now \in Nat /\ GroupExpiry(g) \in Nat
  BY ExpiryType DEF TypeOK
<1>4. ASSUME now >= GroupExpiry(g), NEW a \in Participants(balances', g)
      PROVE  a \in Participants(balances, g)
  <2>1. PICK s \in SeriesIn(g) : a \in Accounts /\ balances'[a][s] # 0
    BY DEF Participants, Held
  <2>2. ~Unexpired(s)
    BY <1>1, <1>3, <1>4 DEF Unexpired
  <2>3. balances[a][s] # 0
    BY <1>1, <2>1, <2>2 DEF Trading, OnlyOpenMoves
  <2> QED BY <1>1, <2>1, <2>3 DEF Participants, Held
<1>5. groups[g].finalized =>
        \A s \in SeriesIn(g) : /\ supply'[s] = supply[s]
                               /\ \A a \in Accounts : balances'[a][s] = balances[a][s]
  BY <1>1 DEF Trading, OnlyOpenMoves, Finalized
<1>6. /\ \A a \in Accounts : creditN'[a][g] = creditN[a][g]
      /\ now' >= now
  BY <1>3 DEF Trading
<1>7. \E flag \in BOOLEAN : groups'[g] = [groups[g] EXCEPT !.stalledFlagged = flag]
  BY <1>2
<1>8. now >= GroupExpiry(g) =>
        Participants(balances', g) \subseteq Participants(balances, g)
  BY <1>4
<1> QED
  BY <1>5, <1>6, <1>7, <1>8 DEF Calm

\* The settlement actions of one group.
SettlesGroup(g) ==
  \/ \E price \in Prices \ {0} : FinalizeGroup(g, price)
  \/ \E a \in Accounts : SettleAccountGroup(a, g) \/ ClaimSettlement(a, g)
  \/ ComputeRecoveryRatio(g)
  \/ \E s \in SeriesIn(g) : \E qty \in 1..supply[s] : RedeemWrapper(s, qty)
  \/ SweepDust(g)

\* A settlement action touches its own group only.
LEMMA SettlementElsewhere ==
  ASSUME TypeOK, NEW g \in Groups, NEW h \in Groups \ {g}, SettlesGroup(h) \/ FlagOracleStalled(h)
  PROVE  /\ groups'[g] = groups[g] /\ now' = now
         /\ \A a \in Accounts : creditN'[a][g] = creditN[a][g]
         /\ \A s \in SeriesIn(g) : /\ supply'[s] = supply[s]
                                   /\ \A a \in Accounts : balances'[a][s] = balances[a][s]
<1>1. /\ groups \in [Groups -> AccountingType] /\ creditN \in [Accounts -> [Groups -> Nat]]
      /\ balances \in [Accounts -> [Series -> Int]] /\ supply \in [Series -> Nat]
  BY DEF TypeOK
<1>2. \A s \in SeriesIn(g) : s \in Series /\ Info[s].group = g /\ s \notin SeriesIn(h)
  BY DEF SeriesIn
<1>3. CASE (\E price \in Prices \ {0} : FinalizeGroup(h, price)) \/ FlagOracleStalled(h)
  BY <1>1, <1>3 DEF FinalizeGroup, FlagOracleStalled, marketVars
<1>4. ASSUME NEW a \in Accounts, SettleAccountGroup(a, h)
      PROVE  /\ groups'[g] = groups[g] /\ now' = now
             /\ \A x \in Accounts : creditN'[x][g] = creditN[x][g]
             /\ \A s \in SeriesIn(g) :
                  /\ supply'[s] = supply[s]
                  /\ \A x \in Accounts : balances'[x][s] = balances[x][s]
  <2>1. /\ balances' = [balances EXCEPT
             ![a] = [s \in Series |-> IF s \in SeriesIn(h) THEN 0 ELSE @[s]]]
        /\ creditN' = [creditN EXCEPT ![a][h] = IF Net(a, h) > 0 THEN Net(a, h) ELSE @]
        /\ UNCHANGED <<now, supply>>
    BY <1>4 DEF SettleAccountGroup, marketVars
  <2>2. groups'[g] = groups[g]
    BY <1>1, <1>4 DEF SettleAccountGroup
  <2>3. \A s \in SeriesIn(g), x \in Accounts : balances'[x][s] = balances[x][s]
    BY <1>1, <1>2, <2>1
  <2>4. \A x \in Accounts : creditN'[x][g] = creditN[x][g]
    BY <1>1, <2>1
  <2> QED BY <2>1, <2>2, <2>3, <2>4
<1>5. ASSUME NEW a \in Accounts, ClaimSettlement(a, h)
      PROVE  /\ groups'[g] = groups[g] /\ UNCHANGED <<balances, supply, now>>
             /\ \A x \in Accounts : creditN'[x][g] = creditN[x][g]
  <2>1. /\ creditN' = [creditN EXCEPT ![a][h] = 0]
        /\ UNCHANGED <<balances, supply, now>>
    BY <1>5 DEF ClaimSettlement, marketVars
  <2>2. groups'[g] = groups[g]
    BY <1>1, <1>5 DEF ClaimSettlement
  <2> QED BY <1>1, <2>1, <2>2
<1>6. CASE ComputeRecoveryRatio(h) \/ SweepDust(h)
  BY <1>1, <1>6 DEF ComputeRecoveryRatio, SweepDust, marketVars
<1>7. ASSUME NEW t \in SeriesIn(h), NEW qty \in 1..supply[t], RedeemWrapper(t, qty)
      PROVE  /\ groups'[g] = groups[g] /\ UNCHANGED <<balances, creditN, now>>
             /\ \A s \in SeriesIn(g) : supply'[s] = supply[s]
  <2>1. /\ supply' = [supply EXCEPT ![t] = @ - qty]
        /\ groups' = [groups EXCEPT ![h].pool = @ - RedeemPayout(t, qty)]
        /\ UNCHANGED <<balances, creditN, now>>
    <3>1. Info[t].group = h
      BY DEF SeriesIn
    <3> QED BY <1>7, <3>1 DEF RedeemWrapper, BurnWrapper, marketVars
  <2> QED BY <1>1, <1>2, <2>1
<1> QED
  BY <1>3, <1>4, <1>5, <1>6, <1>7 DEF SettlesGroup

\* Every step settles something of the group, or is calm for it.
LEMMA GroupStep ==
  ASSUME TypeOK, FinalAfterExpiry, [Next]_vars, NEW g \in Groups
  PROVE  SettlesGroup(g) \/ Calm(g)
<1>1. CASE ClearingStep \/ LiquidationStep
  BY <1>1, ClearingTrades, LiquidationTrades, TradingCalm
<1>2. ASSUME groups'[g] = groups[g], now' >= now,
             \A a \in Accounts : creditN'[a][g] = creditN[a][g],
             \A s \in SeriesIn(g) : /\ supply'[s] = supply[s]
                                    /\ \A a \in Accounts : balances'[a][s] = balances[a][s]
      PROVE  Calm(g)
  <2>1. groups'[g] = [groups[g] EXCEPT !.stalledFlagged = groups[g].stalledFlagged]
        /\ groups[g].stalledFlagged \in BOOLEAN
    BY <1>2 DEF TypeOK, AccountingType
  <2>2. Participants(balances', g) = Participants(balances, g)
    BY <1>2, NetSame
  <2> QED BY <1>2, <2>1, <2>2 DEF Calm
<1>3. CASE SettlementStep
  <2>1. PICK h \in Groups : SettlesGroup(h) \/ FlagOracleStalled(h)
    BY <1>3 DEF SettlementStep, SettlesGroup
  <2>2. CASE h # g
    <3>1. now' >= now
      BY <2>1, <2>2, SettlementElsewhere DEF TypeOK
    <3> QED BY <1>2, <2>1, <2>2, <3>1, SettlementElsewhere
  <2>3. CASE FlagOracleStalled(g)
    <3>1. UNCHANGED <<balances, supply, creditN, now>>
      BY <2>3 DEF FlagOracleStalled, marketVars
    <3>2. groups'[g] = [groups[g] EXCEPT !.stalledFlagged = TRUE]
      BY <2>3 DEF FlagOracleStalled, TypeOK, AccountingType
    <3>3. now' >= now
      BY <3>1 DEF TypeOK
    <3> QED BY <3>1, <3>2, <3>3 DEF Calm
  <2> QED BY <2>1, <2>2, <2>3
<1>4. CASE SurroundingsStep \/ UNCHANGED vars
  <2>1. UNCHANGED <<groups, creditN, balances, supply>>
    BY <1>4 DEF SurroundingsStep, Tick, SetSpot, SetSurface, SetEmergencyMode, SetPaused, SetProductCloseOnly,
       DepositInsurance, FundKeeperReserve, WithdrawTreasury, settlementVars, vars
  <2>2. now' = now \/ now' = now + 1
    BY <1>4 DEF SurroundingsStep, Tick, SetSpot, SetSurface, SetEmergencyMode, SetPaused, SetProductCloseOnly,
       DepositInsurance, FundKeeperReserve, WithdrawTreasury, marketVars, vars
  <2>3. now' >= now
    BY <2>2 DEF TypeOK
  <2> QED BY <1>2, <2>1, <2>3
<1> QED
  BY <1>1, <1>3, <1>4 DEF Next

-----------------------------------------------------------------------------
(* What holds of a group at each stage                                     *)

CreditTotal(g) == Total(Accounts, [a \in Accounts |-> creditN[a][g]])

\* Before the price nothing is owed and nobody has a credit.
WhileOpen(g) ==
  ~groups[g].finalized =>
    /\ ~groups[g].ratioSet
    /\ groups[g].price = 0 /\ groups[g].pool = 0
    /\ groups[g].collected = 0 /\ groups[g].unpaid = 0 /\ groups[g].netCreditN = 0
    /\ \A a \in Accounts : creditN[a][g] = 0

\* Until the ratio is set, the claims are those outstanding, the pool is what
\* was collected, credits belong to accounts that have left, and debts cover the
\* claims with what the accounts still in would add to them.
WhileSettling(g) ==
  groups[g].finalized /\ ~groups[g].ratioSet =>
    /\ groups[g].pool = groups[g].collected
    /\ groups[g].wrapperClaimN = Claims(supply, g, groups[g].price)
    /\ groups[g].netCreditN = CreditTotal(g)
    /\ \A a \in Participants(balances, g) : creditN[a][g] = 0
    /\ (groups[g].collected + groups[g].unpaid) * Denom
         >= GrossClaimN(g) + NetOf(balances, g, groups[g].price)

\* Once it is, everyone has left and what is outstanding gets its share.
WhilePaying(g) ==
  groups[g].ratioSet =>
    /\ groups[g].finalized /\ Participants(balances, g) = {}
    /\ (groups[g].collected + groups[g].unpaid) * Denom >= GrossClaimN(g)
    /\ groups[g].unpaid = 0 => groups[g].ratio = Wad
    /\ groups[g].pool * Denom * Wad >= groups[g].ratio * OutstandingN(g)

\* The unclaimed credits are counted.
CreditsCounted(g) ==
  groups[g].unclaimedCredits = Cardinality({a \in Accounts : creditN[a][g] > 0})

GroupSound(g) ==
  WhileOpen(g) /\ WhileSettling(g) /\ WhilePaying(g) /\ CreditsCounted(g)

IGroups == FinalAfterExpiry /\ \A g \in Groups : GroupSound(g)

\* Types of one group's books.
LEMMA GroupType ==
  ASSUME TypeOK, NEW g \in Groups
  PROVE  /\ groups[g] \in AccountingType
         /\ groups[g].pool \in Nat /\ groups[g].collected \in Nat
         /\ groups[g].unpaid \in Nat /\ groups[g].netCreditN \in Nat
         /\ groups[g].wrapperClaimN \in Nat /\ groups[g].price \in Nat
         /\ groups[g].ratio \in Nat /\ groups[g].unclaimedCredits \in Int
         /\ groups[g].finalized \in BOOLEAN /\ groups[g].ratioSet \in BOOLEAN
         /\ \A a \in Accounts : creditN[a][g] \in Nat
         /\ CreditTotal(g) \in Nat
         /\ Claims(supply, g, groups[g].price) \in Nat
         /\ GrossClaimN(g) \in Nat /\ OutstandingN(g) \in Nat
         /\ OutstandingN(g) = CreditTotal(g) + Claims(supply, g, groups[g].price)
<1> DEFINE c == [a \in Accounts |-> creditN[a][g]]
<1>1. groups[g] \in AccountingType /\ supply \in [Series -> Nat]
      /\ \A a \in Accounts : creditN[a][g] \in Nat
  BY DEF TypeOK
<1>2. \A a \in Accounts : c[a] \in Nat
  BY <1>1
<1>3. CreditTotal(g) = Total(Accounts, c)
  BY DEF CreditTotal
<1> HIDE DEF c
<1>4. CreditTotal(g) \in Nat
  BY <1>2, <1>3, IndexesFinite, TotalType
<1>5. groups[g].price \in Nat
  BY <1>1 DEF AccountingType
<1>6. Claims(supply, g, groups[g].price) = WrapperClaim(g, groups[g].price)
  BY DEF Claims, WrapperClaim
<1>7. WrapperClaim(g, groups[g].price) \in Nat
  BY <1>1, <1>5, WrapperClaimType
<1>8. OutstandingN(g) = CreditTotal(g) + Claims(supply, g, groups[g].price)
  BY <1>6 DEF OutstandingN, CreditTotal
<1>9. GrossClaimN(g) \in Nat
  BY CoverType
<1>10. /\ groups[g].pool \in Nat /\ groups[g].collected \in Nat
       /\ groups[g].unpaid \in Nat /\ groups[g].netCreditN \in Nat
       /\ groups[g].wrapperClaimN \in Nat
       /\ groups[g].ratio \in Nat /\ groups[g].unclaimedCredits \in Int
       /\ groups[g].finalized \in BOOLEAN /\ groups[g].ratioSet \in BOOLEAN
  BY <1>1 DEF AccountingType
<1> QED
  BY <1>1, <1>4, <1>5, <1>6, <1>7, <1>8, <1>9, <1>10

\* Books that agree on a group make the same claims of it.
LEMMA ClaimsSame ==
  ASSUME NEW u, NEW v, NEW g, NEW p, \A s \in SeriesIn(g) : v[s] = u[s]
  PROVE  Claims(v, g, p) = Claims(u, g, p)
<1> DEFINE f == [s \in Series |-> u[s] * UnitPayoff(s, p)]
           h == [s \in Series |-> v[s] * UnitPayoff(s, p)]
<1>1. \A s \in SeriesIn(g) : h[s] = f[s]
  BY SeriesInFinite
<1>2. Claims(v, g, p) = Total(SeriesIn(g), h) /\ Claims(u, g, p) = Total(SeriesIn(g), f)
  BY DEF Claims
<1> HIDE DEF f, h
<1> QED BY <1>1, <1>2, TotalCong

\* Credits that agree on a group add up to the same.
LEMMA CreditsSame ==
  ASSUME NEW g, \A a \in Accounts : creditN'[a][g] = creditN[a][g]
  PROVE  /\ CreditTotal(g)' = CreditTotal(g)
         /\ {a \in Accounts : creditN'[a][g] > 0} = {a \in Accounts : creditN[a][g] > 0}
<1>1. [a \in Accounts |-> creditN'[a][g]] = [a \in Accounts |-> creditN[a][g]]
  OBVIOUS
<1> QED
  BY <1>1 DEF CreditTotal

LEMMA CalmSound ==
  ASSUME TypeOK, TypeOK', NEW g \in Groups, GroupSound(g), Calm(g)
  PROVE  GroupSound(g)'
<1>1. PICK flag \in BOOLEAN : groups'[g] = [groups[g] EXCEPT !.stalledFlagged = flag]
  BY DEF Calm
<1>2. /\ groups'[g].finalized = groups[g].finalized
      /\ groups'[g].ratioSet = groups[g].ratioSet
      /\ groups'[g].price = groups[g].price /\ groups'[g].pool = groups[g].pool
      /\ groups'[g].collected = groups[g].collected
      /\ groups'[g].unpaid = groups[g].unpaid /\ groups'[g].ratio = groups[g].ratio
      /\ groups'[g].netCreditN = groups[g].netCreditN
      /\ groups'[g].wrapperClaimN = groups[g].wrapperClaimN
      /\ groups'[g].unclaimedCredits = groups[g].unclaimedCredits
  BY <1>1, GroupType DEF AccountingType
<1>3. /\ \A a \in Accounts : creditN'[a][g] = creditN[a][g]
      /\ CreditTotal(g)' = CreditTotal(g)
      /\ {a \in Accounts : creditN'[a][g] > 0} = {a \in Accounts : creditN[a][g] > 0}
  BY CreditsSame DEF Calm
<1>4. GrossClaimN(g)' = GrossClaimN(g)
  BY <1>2 DEF GrossClaimN
<1>5. WhileOpen(g)'
  BY <1>2, <1>3 DEF GroupSound, WhileOpen
<1>6. CreditsCounted(g)'
  BY <1>2, <1>3 DEF GroupSound, CreditsCounted
<1>7. ASSUME groups[g].finalized
      PROVE  /\ NetOf(balances', g, groups[g].price) = NetOf(balances, g, groups[g].price)
             /\ Participants(balances', g) = Participants(balances, g)
             /\ Claims(supply', g, groups[g].price) = Claims(supply, g, groups[g].price)
  <2>1. \A s \in SeriesIn(g) : /\ supply'[s] = supply[s]
                               /\ \A a \in Accounts : balances'[a][s] = balances[a][s]
    BY <1>7 DEF Calm
  <2>2. \A a \in Accounts, s \in SeriesIn(g) : balances'[a][s] = balances[a][s]
    BY <2>1
  <2> QED BY <2>1, <2>2, NetSame, ClaimsSame
<1>8. WhileSettling(g)'
  BY <1>2, <1>3, <1>4, <1>7 DEF GroupSound, WhileSettling, Participants
<1>9. WhilePaying(g)'
  <2>1. groups[g].ratioSet => OutstandingN(g)' = OutstandingN(g)
    BY <1>2, <1>3, <1>7, GroupType DEF GroupSound, WhilePaying, OutstandingN, Claims,
       WrapperClaim, CreditTotal
  <2> QED BY <1>2, <1>4, <1>7, <2>1 DEF GroupSound, WhilePaying
<1> QED
  BY <1>5, <1>6, <1>8, <1>9 DEF GroupSound

-----------------------------------------------------------------------------
(* The settlement actions keep a group sound                               *)

\* Finalization fixes the price of matched positions: nothing is owed yet, and
\* what the accounts net is minus what the wrappers claim.
LEMMA FinalizeSound ==
  ASSUME TypeOK, TypeOK', NEW g \in Groups, WrapperBacking, GroupSound(g),
         NEW observed \in Prices \ {0}, FinalizeGroup(g, observed)
  PROVE  GroupSound(g)'
<1> DEFINE p == CappedPrice(g, observed)
<1>1. /\ ~groups[g].finalized /\ ~groups[g].ratioSet
      /\ groups[g].pool = 0 /\ groups[g].collected = 0 /\ groups[g].unpaid = 0
      /\ groups[g].netCreditN = 0
      /\ \A a \in Accounts : creditN[a][g] = 0
  BY DEF FinalizeGroup, Finalizable, GroupSound, WhileOpen
<1>2. /\ groups'[g] = [groups[g] EXCEPT !.finalized = TRUE, !.price = p, !.finalizedAt = now,
                                        !.wrapperClaimN = WrapperClaim(g, p)]
      /\ UNCHANGED <<balances, supply, creditN>>
  BY DEF FinalizeGroup, TypeOK
<1>3. /\ groups'[g].finalized /\ ~groups'[g].ratioSet /\ groups'[g].price = p
      /\ groups'[g].pool = 0 /\ groups'[g].collected = 0 /\ groups'[g].unpaid = 0
      /\ groups'[g].netCreditN = 0 /\ groups'[g].wrapperClaimN = WrapperClaim(g, p)
      /\ groups'[g].unclaimedCredits = groups[g].unclaimedCredits
  BY <1>1, <1>2, GroupType DEF AccountingType
<1>4. p \in Nat /\ balances \in BalanceTable /\ supply \in [Series -> Nat]
  BY CappedPriceType, ReadableType, ProtocolAssumption DEF TypeOK
<1> HIDE DEF p
<1>5. Claims(supply, g, p) = WrapperClaim(g, p) /\ Claims(supply, g, p) \in Nat
  BY <1>4, WrapperClaimType DEF Claims, WrapperClaim
<1>6. NetOf(balances, g, p) = -Claims(supply, g, p)
  <2>1. \A s \in SeriesIn(g) :
          LongsOf(balances, s) + supply[s] = ShortsOf(balances, s)
    BY <1>1, SeriesInFinite DEF WrapperBacking, Finalized, SeriesIn
  <2> QED BY <1>4, <2>1, NetMatched
<1>7. CreditTotal(g)' = 0
  BY <1>1, <1>2, TotalZero DEF CreditTotal
<1>8. GrossClaimN(g)' = Claims(supply, g, p)
  BY <1>3, <1>5 DEF GrossClaimN
<1>9. WhileSettling(g)'
  BY <1>1, <1>2, <1>3, <1>5, <1>6, <1>7, <1>8, ProtocolAssumption
     DEF WhileSettling, Participants
<1>10. CreditsCounted(g)'
  BY <1>2, <1>3 DEF GroupSound, CreditsCounted
<1> QED
  BY <1>3, <1>9, <1>10 DEF GroupSound, WhileOpen, WhilePaying

\* One more account has a credit.
LEMMA CreditAdded ==
  ASSUME NEW S, IsFiniteSet(S), NEW a \in S, NEW f, NEW h,
         f[a] = 0, h[a] \in Nat \ {0}, \A x \in S \ {a} : h[x] = f[x]
  PROVE  Cardinality({x \in S : h[x] > 0}) = Cardinality({x \in S : f[x] > 0}) + 1
<1> DEFINE F == {x \in S : f[x] > 0}
<1>1. {x \in S : h[x] > 0} = F \cup {a} /\ a \notin F
  OBVIOUS
<1>2. IsFiniteSet(F)
  BY FS_Subset
<1> QED
  BY <1>1, <1>2, FS_AddElement

\* The account's net becomes a debt or a credit, and leaves the sum of nets.
LEMMA SettleSound ==
  ASSUME TypeOK, TypeOK', NEW g \in Groups, GroupSound(g),
         NEW a \in Accounts, SettleAccountGroup(a, g)
  PROVE  GroupSound(g)'
<1> DEFINE net == Net(a, g)
           debt == DebtOf(net)
           got == AtMost(debt, cash[a])
           p == groups[g].price
           gg == groups[g]
<1>1. net \in Int /\ debt \in Nat /\ got \in Nat /\ got <= debt
  <2>1. cash[a] \in Nat
    BY DEF TypeOK
  <2>2. net \in Int /\ debt \in Nat
    BY NetType
  <2> HIDE DEF net, debt
  <2>3. got \in Int /\ got <= debt /\ got >= 0
    BY <2>1, <2>2 DEF AtMost
  <2> QED BY <2>2, <2>3
<1>2. /\ gg.finalized /\ a \in Participants(balances, g)
      /\ balances' = [balances EXCEPT
           ![a] = [s \in Series |-> IF s \in SeriesIn(g) THEN 0 ELSE @[s]]]
      /\ creditN' = [creditN EXCEPT ![a][g] = IF net > 0 THEN net ELSE @]
      /\ supply' = supply
  BY DEF SettleAccountGroup, Participants
<1>3. /\ ~gg.ratioSet /\ gg.pool = gg.collected
      /\ gg.wrapperClaimN = Claims(supply, g, p) /\ gg.netCreditN = CreditTotal(g)
      /\ \A x \in Participants(balances, g) : creditN[x][g] = 0
      /\ (gg.collected + gg.unpaid) * Denom >= GrossClaimN(g) + NetOf(balances, g, p)
  BY <1>2 DEF GroupSound, WhileSettling, WhilePaying
<1>4. groups'[g] = [gg EXCEPT !.collected = @ + got, !.pool = @ + got,
                              !.unpaid = @ + (debt - got),
                              !.netCreditN = @ + Pos(net),
                              !.unclaimedCredits = IF net > 0 THEN @ + 1 ELSE @]
  BY DEF SettleAccountGroup, TypeOK
<1>5. /\ groups'[g].finalized /\ ~groups'[g].ratioSet /\ groups'[g].price = p
      /\ groups'[g].collected = gg.collected + got /\ groups'[g].pool = gg.pool + got
      /\ groups'[g].unpaid = gg.unpaid + (debt - got)
      /\ groups'[g].netCreditN = gg.netCreditN + Pos(net)
      /\ groups'[g].wrapperClaimN = gg.wrapperClaimN
      /\ groups'[g].unclaimedCredits
           = IF net > 0 THEN gg.unclaimedCredits + 1 ELSE gg.unclaimedCredits
  BY <1>2, <1>3, <1>4, GroupType DEF AccountingType
<1>6. /\ balances \in BalanceTable /\ balances' \in BalanceTable
      /\ \A s \in SeriesIn(g) : balances'[a][s] = 0
      /\ \A x \in Accounts \ {a} : balances'[x] = balances[x]
  BY <1>2, SeriesInFinite DEF TypeOK, BalanceTable
<1>7. /\ creditN[a][g] = 0 /\ creditN'[a][g] = Pos(net)
      /\ \A x \in Accounts \ {a} : creditN'[x][g] = creditN[x][g]
  BY <1>2, <1>3 DEF TypeOK, Pos
<1>8. NetOf(balances', g, p) = NetOf(balances, g, p) - net
  <2>1. net = NetAt(balances, a, g, p)
    BY DEF Net, NetAt
  <2>2. p \in Nat
    BY GroupType
  <2> HIDE DEF net, p
  <2> QED BY <1>6, <2>1, <2>2, NetLeaves
<1>9. CreditTotal(g)' = CreditTotal(g) + Pos(net)
  <2> DEFINE c == [x \in Accounts |-> creditN[x][g]]
             d == [x \in Accounts |-> creditN'[x][g]]
  <2>1. CreditTotal(g) = Total(Accounts, c) /\ CreditTotal(g)' = Total(Accounts, d)
    BY DEF CreditTotal
  <2>2. /\ \A x \in Accounts : c[x] \in Nat /\ d[x] \in Nat
        /\ \A x \in Accounts \ {a} : c[x] = d[x]
        /\ c[a] = 0 /\ d[a] = Pos(net)
    BY <1>7 DEF TypeOK
  <2> HIDE DEF c, d, net
  <2>3. Total(Accounts, d) = Total(Accounts, c) - c[a] + d[a]
    BY <2>2, IndexesFinite, TotalUpdate
  <2>4. Total(Accounts, c) \in Nat
    BY <2>2, IndexesFinite, TotalType
  <2> QED BY <2>1, <2>2, <2>3, <2>4
<1>10. debt * Denom >= Neg(net) /\ Pos(net) - Neg(net) = net /\ Pos(net) \in Nat /\ Neg(net) \in Nat
  <2>1. debt * Denom >= Neg(net)
    BY <1>1, DebtCovers
  <2> QED BY <1>1, <2>1 DEF Pos, Neg
<1>11. CreditsCounted(g)'
  <2>1. CASE net > 0
    <3> DEFINE c == [x \in Accounts |-> creditN[x][g]]
               d == [x \in Accounts |-> creditN'[x][g]]
    <3>1. c[a] = 0 /\ d[a] \in Nat \ {0} /\ \A x \in Accounts \ {a} : d[x] = c[x]
      BY <1>1, <1>7, <2>1 DEF Pos
    <3>2. /\ {x \in Accounts : d[x] > 0} = {x \in Accounts : creditN'[x][g] > 0}
          /\ {x \in Accounts : c[x] > 0} = {x \in Accounts : creditN[x][g] > 0}
      OBVIOUS
    <3> HIDE DEF c, d
    <3>3. Cardinality({x \in Accounts : d[x] > 0}) = Cardinality({x \in Accounts : c[x] > 0}) + 1
      BY <3>1, IndexesFinite, CreditAdded
    <3> QED BY <1>5, <2>1, <3>2, <3>3 DEF GroupSound, CreditsCounted
  <2>2. CASE ~(net > 0)
    <3>1. \A x \in Accounts : creditN'[x][g] = creditN[x][g]
      BY <1>1, <1>7, <2>2 DEF Pos
    <3>2. {x \in Accounts : creditN'[x][g] > 0} = {x \in Accounts : creditN[x][g] > 0}
      BY <3>1
    <3> QED BY <1>5, <2>2, <3>2 DEF GroupSound, CreditsCounted
  <2> QED BY <2>1, <2>2
<1>12. WhileSettling(g)'
  <2>1. GrossClaimN(g)' = GrossClaimN(g) + Pos(net)
    BY <1>5, <1>10, GroupType DEF GrossClaimN
  <2>2. \A x \in Participants(balances', g) : creditN'[x][g] = 0
    <3>1. Participants(balances', g) \subseteq Participants(balances, g) \ {a}
      BY <1>6, SeriesInFinite DEF Participants, Held
    <3> QED BY <1>3, <1>7, <3>1 DEF Participants
  <2>3. (groups'[g].collected + groups'[g].unpaid) * Denom
          = (gg.collected + gg.unpaid) * Denom + debt * Denom
    <3>1. groups'[g].collected + groups'[g].unpaid = gg.collected + gg.unpaid + debt
      BY <1>1, <1>5, GroupType
    <3>2. gg.collected + gg.unpaid \in Nat
      BY GroupType
    <3> HIDE DEF gg, debt
    <3> QED BY <1>1, <3>1, <3>2, ProtocolAssumption
  <2>4. (groups'[g].collected + groups'[g].unpaid) * Denom
          >= GrossClaimN(g)' + NetOf(balances', g, p)
    <3>1. (gg.collected + gg.unpaid) * Denom \in Nat /\ debt * Denom \in Nat
          /\ GrossClaimN(g) \in Nat
      BY <1>1, GroupType, ProtocolAssumption
    <3>2. NetOf(balances, g, p) \in Int
      <4> DEFINE n == [x \in Accounts |-> NetAt(balances, x, g, p)]
      <4>1. \A x \in Accounts : n[x] \in Int
        BY <1>6, NetAtType, GroupType
      <4>2. NetOf(balances, g, p) = SignedTotal(Accounts, n)
        BY DEF NetOf
      <4> HIDE DEF n
      <4> QED BY <4>1, <4>2, IndexesFinite, SignedTotalType
    <3> HIDE DEF gg, debt, net, p
    <3> QED BY <1>1, <1>3, <1>8, <1>10, <2>1, <2>3, <3>1, <3>2
  <2>5. groups'[g].pool = groups'[g].collected /\ groups'[g].netCreditN = CreditTotal(g)'
        /\ groups'[g].wrapperClaimN = Claims(supply', g, p)
    BY <1>2, <1>3, <1>5, <1>9
  <2> QED BY <1>5, <2>2, <2>4, <2>5 DEF WhileSettling
<1> QED
  BY <1>5, <1>11, <1>12 DEF GroupSound, WhileOpen, WhilePaying

\* The ratio is the pool's share of the claims, and all of them where no debt
\* is left unpaid.
LEMMA RatioSound ==
  ASSUME TypeOK, TypeOK', NEW g \in Groups, GroupSound(g), ComputeRecoveryRatio(g)
  PROVE  GroupSound(g)'
<1> DEFINE gg == groups[g]
           cover == CoverOf(g)
           rec == groups[g].collected + CoverOf(g)
           gross == GrossClaimN(g)
           ratio == RatioOf(g, groups[g].collected + CoverOf(g))
<1>1. /\ gg.finalized /\ ~gg.ratioSet /\ Participants(balances, g) = {}
      /\ UNCHANGED <<balances, supply, creditN>>
  BY DEF ComputeRecoveryRatio
<1>2. /\ gg.pool = gg.collected
      /\ gg.wrapperClaimN = Claims(supply, g, gg.price) /\ gg.netCreditN = CreditTotal(g)
      /\ (gg.collected + gg.unpaid) * Denom >= gross + NetOf(balances, g, gg.price)
  BY <1>1 DEF GroupSound, WhileSettling
<1>3. groups'[g] = [gg EXCEPT !.insurance = cover, !.pool = @ + cover,
                              !.ratioSet = TRUE, !.ratio = ratio]
  BY DEF ComputeRecoveryRatio, TypeOK
<1>4. /\ groups'[g].finalized /\ groups'[g].ratioSet /\ groups'[g].price = gg.price
      /\ groups'[g].collected = gg.collected /\ groups'[g].pool = gg.pool + cover
      /\ groups'[g].unpaid = gg.unpaid /\ groups'[g].ratio = ratio
      /\ groups'[g].netCreditN = gg.netCreditN
      /\ groups'[g].wrapperClaimN = gg.wrapperClaimN
      /\ groups'[g].unclaimedCredits = gg.unclaimedCredits
  BY <1>1, <1>3, GroupType DEF AccountingType
<1>5. /\ cover \in Nat /\ gg.collected \in Nat /\ gg.unpaid \in Nat /\ rec \in Nat
      /\ gross \in Nat /\ ratio \in Nat
  BY GroupType, CoverType, RatioType
<1>6. NetOf(balances, g, gg.price) = 0
  BY <1>1, GroupType, ReadableType, NetOfNobody
<1>7. (gg.collected + gg.unpaid) * Denom >= gross
  BY <1>2, <1>5, <1>6
<1>8. gross = OutstandingN(g) /\ OutstandingN(g)' = OutstandingN(g) /\ gross' = gross
  <2>1. gross = OutstandingN(g)
    BY <1>2, GroupType DEF GrossClaimN
  <2>2. OutstandingN(g)' = OutstandingN(g)
    BY <1>1, <1>4 DEF OutstandingN, WrapperClaim
  <2>3. gross' = gross
    BY <1>4 DEF GrossClaimN
  <2> QED BY <2>1, <2>2, <2>3
<1>9. ratio = IF gross = 0 THEN Wad ELSE AtMost(Wad, (rec * Denom * Wad) \div gross)
  BY DEF RatioOf
<1>10. rec * Denom * Wad \in Nat /\ Wad \in Nat /\ Denom \in Nat /\ rec * Denom \in Nat
  BY <1>5, ProtocolAssumption
<1>11. groups'[g].pool = rec
  BY <1>2, <1>4
<1>12. rec * Denom * Wad >= ratio * gross
  <2> HIDE DEF rec, gross, ratio
  <2>1. CASE gross = 0
    BY <1>5, <1>10, <2>1
  <2>2. CASE gross # 0
    <3> DEFINE q == (rec * Denom * Wad) \div gross
    <3>1. q \in Nat /\ q * gross <= rec * Denom * Wad
      BY <1>5, <1>10, <2>2, FloorBounds
    <3>2. ratio <= q
      BY <1>9, <1>10, <2>2, <3>1 DEF AtMost
    <3> HIDE DEF q
    <3>3. ratio * gross <= q * gross
      BY <1>5, <3>1, <3>2
    <3> QED BY <1>5, <1>10, <3>1, <3>3
  <2> QED BY <2>1, <2>2
<1>13. ASSUME gg.unpaid = 0 PROVE ratio = Wad
  <2> HIDE DEF rec, gross, ratio, cover
  <2>1. CASE gross = 0
    BY <1>9, <2>1
  <2>2. CASE gross # 0
    <3>1. rec * Denom >= gross
      <4>1. gg.collected * Denom >= gross
        BY <1>5, <1>7, <1>13
      <4>2. rec * Denom = gg.collected * Denom + cover * Denom
        BY <1>5, ProtocolAssumption DEF rec, cover
      <4>3. cover * Denom \in Nat /\ gg.collected * Denom \in Nat
        BY <1>5, ProtocolAssumption
      <4> HIDE DEF gg
      <4> QED BY <1>5, <1>10, <4>1, <4>2, <4>3
    <3>2. Wad * gross <= rec * Denom * Wad
      BY <1>5, <1>10, <3>1
    <3> DEFINE q == (rec * Denom * Wad) \div gross
    <3>3. q \in Nat /\ Wad <= q
      BY <1>5, <1>10, <2>2, <3>2, FloorBounds
    <3>4. ratio = AtMost(Wad, q)
      BY <1>9, <2>2
    <3> HIDE DEF q
    <3> QED BY <1>10, <3>3, <3>4 DEF AtMost
  <2> QED BY <2>1, <2>2
<1>14. WhilePaying(g)'
  BY <1>1, <1>4, <1>7, <1>8, <1>11, <1>12, <1>13 DEF WhilePaying, Participants
<1>15. CreditsCounted(g)'
  BY <1>1, <1>4 DEF GroupSound, CreditsCounted
<1> QED
  BY <1>4, <1>14, <1>15 DEF GroupSound, WhileOpen, WhileSettling

\* A payout takes no more than its share of the pool.
LEMMA PayoutFair ==
  ASSUME TypeOK, NEW g \in Groups, WhilePaying(g), groups[g].ratioSet,
         NEW claim \in Nat, claim <= OutstandingN(g)
  PROVE  (groups[g].pool - Payout(g, claim)) * Denom * Wad
           >= groups[g].ratio * (OutstandingN(g) - claim)
<1> DEFINE pool == groups[g].pool
           ratio == groups[g].ratio
           pay == Payout(g, claim)
           out == OutstandingN(g)
           unit == Denom * Wad
<1>1. pool \in Nat /\ ratio \in Nat /\ out \in Nat /\ pay \in Nat
  BY GroupType, PayoutType
<1>2. unit \in Nat \ {0} /\ Denom \in Nat \ {0} /\ Wad \in Nat \ {0}
  BY ProtocolAssumption
<1>3. pool * Denom * Wad >= ratio * out
  BY DEF WhilePaying
<1>4. claim * ratio \in Nat /\ pay = (claim * ratio) \div unit
  BY <1>1 DEF Payout
<1> HIDE DEF pool, ratio, pay, out
<1>5. pay * unit <= claim * ratio
  <2> HIDE DEF unit
  <2> QED BY <1>2, <1>4, FloorBounds
<1>6. pool * unit = pool * Denom * Wad /\ (pool - pay) * Denom * Wad = (pool - pay) * unit
  BY <1>1, <1>2
<1> HIDE DEF unit
<1>7. (pool - pay) * unit = pool * unit - pay * unit
  BY <1>1, <1>2
<1>8. ratio * (out - claim) = ratio * out - claim * ratio
  BY <1>1
<1>9. /\ pool * unit \in Nat /\ pay * unit \in Nat /\ ratio * out \in Nat
  BY <1>1, <1>2
<1>10. (pool - pay) * unit >= ratio * (out - claim)
  BY <1>3, <1>4, <1>5, <1>6, <1>7, <1>8, <1>9
<1> QED
  BY <1>6, <1>10 DEF pool, ratio, pay, out

\* A step of a paid group that only moves its pool, its credits or its wrappers.
LEMMA PayingStep ==
  ASSUME TypeOK, TypeOK', NEW g \in Groups, GroupSound(g), groups[g].ratioSet,
         NEW pool, NEW count,
         groups'[g] = [groups[g] EXCEPT !.pool = pool, !.unclaimedCredits = count],
         UNCHANGED balances, CreditsCounted(g)',
         pool * Denom * Wad >= groups[g].ratio * OutstandingN(g)'
  PROVE  GroupSound(g)'
<1>1. /\ groups'[g].finalized = groups[g].finalized /\ groups'[g].ratioSet
      /\ groups'[g].price = groups[g].price /\ groups'[g].pool = pool
      /\ groups'[g].collected = groups[g].collected
      /\ groups'[g].unpaid = groups[g].unpaid /\ groups'[g].ratio = groups[g].ratio
      /\ groups'[g].netCreditN = groups[g].netCreditN
      /\ groups'[g].wrapperClaimN = groups[g].wrapperClaimN
  BY GroupType DEF AccountingType
<1>2. GrossClaimN(g)' = GrossClaimN(g)
  BY <1>1 DEF GrossClaimN
<1>3. WhilePaying(g)'
  BY <1>1, <1>2 DEF GroupSound, WhilePaying, Participants
<1> QED
  BY <1>1, <1>3 DEF GroupSound, WhilePaying, WhileOpen, WhileSettling

LEMMA ClaimSound ==
  ASSUME TypeOK, TypeOK', NEW g \in Groups, GroupSound(g),
         NEW a \in Accounts, ClaimSettlement(a, g)
  PROVE  GroupSound(g)'
<1> DEFINE claim == creditN[a][g]
           pay == Payout(g, creditN[a][g])
<1>1. /\ groups[g].ratioSet /\ claim \in Nat \ {0}
      /\ creditN' = [creditN EXCEPT ![a][g] = 0]
      /\ UNCHANGED <<balances, supply>>
  BY DEF ClaimSettlement, Redeemable, TypeOK
<1>2. groups'[g] = [groups[g] EXCEPT !.unclaimedCredits = @ - 1, !.pool = @ - pay]
  BY DEF ClaimSettlement, TypeOK
<1>3. creditN'[a][g] = 0 /\ \A x \in Accounts \ {a} : creditN'[x][g] = creditN[x][g]
  BY <1>1 DEF TypeOK
<1>4. CreditTotal(g)' = CreditTotal(g) - claim /\ claim <= CreditTotal(g)
  <2> DEFINE c == [x \in Accounts |-> creditN[x][g]]
             d == [x \in Accounts |-> creditN'[x][g]]
  <2>1. CreditTotal(g) = Total(Accounts, c) /\ CreditTotal(g)' = Total(Accounts, d)
    BY DEF CreditTotal
  <2>2. /\ \A x \in Accounts : c[x] \in Nat /\ d[x] \in Nat
        /\ \A x \in Accounts \ {a} : c[x] = d[x]
        /\ c[a] = claim /\ d[a] = 0
    BY <1>3 DEF TypeOK
  <2> HIDE DEF c, d, claim
  <2>3. Total(Accounts, d) = Total(Accounts, c) - c[a] + d[a]
    BY <2>2, IndexesFinite, TotalUpdate
  <2>4. Total(Accounts, c) \in Nat /\ Total(Accounts, d) \in Nat /\ claim \in Nat
    BY <1>1, <2>2, IndexesFinite, TotalType
  <2> QED BY <2>1, <2>2, <2>3, <2>4
<1>5. /\ groups'[g].price = groups[g].price
      /\ groups'[g].unclaimedCredits = groups[g].unclaimedCredits - 1
  BY <1>2, GroupType DEF AccountingType
<1>6. OutstandingN(g)' = OutstandingN(g) - claim /\ claim <= OutstandingN(g)
  <2>1. OutstandingN(g) = CreditTotal(g) + Claims(supply, g, groups[g].price)
        /\ CreditTotal(g) \in Nat /\ Claims(supply, g, groups[g].price) \in Nat
    BY GroupType
  <2>2. OutstandingN(g)' = CreditTotal(g)' + Claims(supply, g, groups[g].price)
    BY <1>1, <1>5 DEF OutstandingN, CreditTotal, Claims, WrapperClaim
  <2> HIDE DEF claim
  <2> QED BY <1>1, <1>4, <2>1, <2>2
<1>7. (groups[g].pool - pay) * Denom * Wad >= groups[g].ratio * OutstandingN(g)'
  BY <1>1, <1>6, PayoutFair DEF GroupSound
<1>8. CreditsCounted(g)'
  <2> DEFINE c == [x \in Accounts |-> creditN[x][g]]
             d == [x \in Accounts |-> creditN'[x][g]]
  <2>1. d[a] = 0 /\ c[a] \in Nat \ {0} /\ \A x \in Accounts \ {a} : c[x] = d[x]
    BY <1>1, <1>3
  <2>2. /\ {x \in Accounts : d[x] > 0} = {x \in Accounts : creditN'[x][g] > 0}
        /\ {x \in Accounts : c[x] > 0} = {x \in Accounts : creditN[x][g] > 0}
    OBVIOUS
  <2> HIDE DEF c, d
  <2>3. Cardinality({x \in Accounts : c[x] > 0}) = Cardinality({x \in Accounts : d[x] > 0}) + 1
    BY <2>1, IndexesFinite, CreditAdded
  <2>4. Cardinality({x \in Accounts : d[x] > 0}) \in Nat
    <3>1. IsFiniteSet({x \in Accounts : d[x] > 0})
      BY IndexesFinite, FS_Subset
    <3> QED BY <3>1, FS_CardinalityType
  <2>5. groups[g].unclaimedCredits = Cardinality({x \in Accounts : creditN[x][g] > 0})
    BY DEF GroupSound, CreditsCounted
  <2>6. /\ Cardinality({x \in Accounts : d[x] > 0})
             = Cardinality({x \in Accounts : creditN'[x][g] > 0})
        /\ Cardinality({x \in Accounts : c[x] > 0})
             = Cardinality({x \in Accounts : creditN[x][g] > 0})
    BY <2>2
  <2>7. groups'[g].unclaimedCredits = Cardinality({x \in Accounts : d[x] > 0})
    BY <1>5, <2>3, <2>4, <2>5, <2>6
  <2> QED BY <2>6, <2>7 DEF CreditsCounted
<1> QED
  BY <1>1, <1>2, <1>7, <1>8, PayingStep

LEMMA RedeemSound ==
  ASSUME TypeOK, TypeOK', NEW g \in Groups, GroupSound(g),
         NEW s \in SeriesIn(g), NEW qty \in 1..supply[s], RedeemWrapper(s, qty)
  PROVE  GroupSound(g)'
<1> DEFINE p == groups[g].price
           claim == qty * UnitPayoff(s, p)
           pay == Payout(g, claim)
<1>1. s \in Series /\ Info[s].group = g /\ supply[s] \in Nat /\ qty \in Nat /\ qty <= supply[s]
  BY DEF SeriesIn, TypeOK
<1>2. /\ groups[g].ratioSet
      /\ groups' = [groups EXCEPT ![g].pool = @ - pay]
      /\ supply' = [supply EXCEPT ![s] = @ - qty]
      /\ UNCHANGED <<balances, creditN>>
  BY <1>1 DEF RedeemWrapper, Redeemable, BurnWrapper, RedeemPayout
<1>3. groups'[g] = [groups[g] EXCEPT !.pool = @ - pay,
                                     !.unclaimedCredits = groups[g].unclaimedCredits]
  BY <1>2, GroupType DEF TypeOK, AccountingType
<1>4. groups'[g].price = p /\ groups'[g].unclaimedCredits = groups[g].unclaimedCredits
  BY <1>3, GroupType DEF AccountingType
<1>5. p \in Nat /\ UnitPayoff(s, p) \in Nat /\ claim \in Nat
  <2>1. p \in Nat /\ UnitPayoff(s, p) \in Nat
    BY <1>1, GroupType, PayoffType
  <2> HIDE DEF p
  <2> QED BY <1>1, <2>1
<1>6. Claims(supply', g, p) = Claims(supply, g, p) - claim /\ claim <= Claims(supply, g, p)
  <2> DEFINE f == [t \in Series |-> supply[t] * UnitPayoff(t, p)]
             h == [t \in Series |-> supply'[t] * UnitPayoff(t, p)]
  <2>1. \A t \in SeriesIn(g) :
          t \in Series /\ supply[t] \in Nat /\ supply'[t] \in Nat /\ UnitPayoff(t, p) \in Nat
    BY <1>5, PayoffType, SeriesInFinite DEF TypeOK
  <2>2. \A t \in SeriesIn(g) : f[t] \in Nat /\ h[t] \in Nat
    BY <2>1
  <2>3. \A t \in SeriesIn(g) \ {s} : f[t] = h[t]
    BY <1>2, <2>1 DEF TypeOK
  <2>4. f[s] = h[s] + claim
    <3>1. f[s] = supply[s] * UnitPayoff(s, p) /\ h[s] = (supply[s] - qty) * UnitPayoff(s, p)
      BY <1>1, <1>2 DEF TypeOK
    <3> HIDE DEF f, h, p
    <3> QED BY <1>1, <1>5, <3>1
  <2>5. Claims(supply, g, p) = Total(SeriesIn(g), f) /\ Claims(supply', g, p) = Total(SeriesIn(g), h)
    BY DEF Claims
  <2> HIDE DEF f, h, claim, p
  <2>6. Total(SeriesIn(g), h) = Total(SeriesIn(g), f) - f[s] + h[s]
    BY <2>2, <2>3, SeriesInFinite, TotalUpdate
  <2>7. Total(SeriesIn(g), h) \in Nat /\ Total(SeriesIn(g), f) \in Nat
    BY <2>2, SeriesInFinite, TotalType
  <2> QED BY <1>5, <2>2, <2>4, <2>5, <2>6, <2>7
<1>7. OutstandingN(g)' = OutstandingN(g) - claim /\ claim <= OutstandingN(g)
  <2>1. OutstandingN(g) = CreditTotal(g) + Claims(supply, g, p)
        /\ CreditTotal(g) \in Nat /\ Claims(supply, g, p) \in Nat
    BY GroupType
  <2>2. OutstandingN(g)' = CreditTotal(g) + Claims(supply', g, p)
    BY <1>2, <1>4 DEF OutstandingN, CreditTotal, Claims, WrapperClaim
  <2> HIDE DEF claim, p
  <2> QED BY <1>5, <1>6, <2>1, <2>2
<1>8. (groups[g].pool - pay) * Denom * Wad >= groups[g].ratio * OutstandingN(g)'
  <2> HIDE DEF claim
  <2> QED BY <1>2, <1>5, <1>7, PayoutFair DEF GroupSound
<1>9. CreditsCounted(g)'
  BY <1>2, <1>4 DEF GroupSound, CreditsCounted
<1> QED
  BY <1>2, <1>3, <1>8, <1>9, PayingStep

\* With no credit and no wrapper left, nothing is outstanding.
LEMMA SweepSound ==
  ASSUME TypeOK, TypeOK', NEW g \in Groups, GroupSound(g), SweepDust(g)
  PROVE  GroupSound(g)'
<1>1. /\ groups[g].ratioSet /\ groups[g].unclaimedCredits = 0
      /\ \A s \in SeriesIn(g) : supply[s] = 0
      /\ groups' = [groups EXCEPT ![g].pool = 0]
      /\ UNCHANGED <<balances, supply, creditN>>
  BY DEF SweepDust, Redeemable
<1>2. groups'[g] = [groups[g] EXCEPT !.pool = 0,
                                     !.unclaimedCredits = groups[g].unclaimedCredits]
  BY <1>1, GroupType DEF TypeOK, AccountingType
<1>3. groups'[g].price = groups[g].price
      /\ groups'[g].unclaimedCredits = groups[g].unclaimedCredits
  BY <1>2, GroupType DEF AccountingType
<1>4. CreditTotal(g) = 0
  <2> DEFINE F == {a \in Accounts : creditN[a][g] > 0}
  <2>1. IsFiniteSet(F) /\ Cardinality(F) = 0
    BY <1>1, IndexesFinite, FS_Subset DEF GroupSound, CreditsCounted
  <2>2. F = {}
    BY <2>1, FS_EmptySet
  <2>3. \A a \in Accounts : creditN[a][g] = 0
    BY <2>2, GroupType
  <2> QED BY <2>3, TotalZero DEF CreditTotal
<1>5. Claims(supply, g, groups[g].price) = 0
  <2> DEFINE f == [s \in Series |-> supply[s] * UnitPayoff(s, groups[g].price)]
  <2>1. \A s \in SeriesIn(g) : f[s] = 0
    BY <1>1, GroupType, PayoffType, SeriesInFinite
  <2>2. Claims(supply, g, groups[g].price) = Total(SeriesIn(g), f)
    BY DEF Claims
  <2> HIDE DEF f
  <2> QED BY <2>1, <2>2, TotalZero
<1>6. OutstandingN(g)' = 0
  <2>1. OutstandingN(g) = 0
    BY <1>4, <1>5, GroupType
  <2> QED BY <1>1, <1>3, <2>1 DEF OutstandingN, WrapperClaim
<1>7. 0 * Denom * Wad >= groups[g].ratio * OutstandingN(g)'
  BY <1>6, GroupType, ProtocolAssumption
<1>8. CreditsCounted(g)'
  BY <1>1, <1>3 DEF GroupSound, CreditsCounted
<1> QED
  BY <1>1, <1>2, <1>7, <1>8, PayingStep

-----------------------------------------------------------------------------
(* The invariant, and what it promises                                     *)

\* What a settlement action writes, and when.
LEMMA SettlingWrites ==
  ASSUME TypeOK, NEW g \in Groups, GroupSound(g), SettlesGroup(g)
  PROVE  /\ now' = now
         /\ groups'[g].finalized /\ ~groups[g].finalized => now >= GroupExpiry(g)
         /\ groups[g].finalized =>
              /\ groups'[g].finalized /\ groups'[g].price = groups[g].price
              /\ groups'[g].wrapperClaimN = groups[g].wrapperClaimN
              /\ Participants(balances', g) \subseteq Participants(balances, g)
              /\ \A s \in SeriesIn(g) :
                   supply'[s] # supply[s] => supply'[s] < supply[s] /\ groups[g].ratioSet
         /\ groups[g].ratioSet =>
              /\ groups'[g].ratioSet /\ groups'[g].ratio = groups[g].ratio
              /\ groups'[g].netCreditN = groups[g].netCreditN
<1>1. /\ groups \in [Groups -> AccountingType] /\ groups[g] \in AccountingType
      /\ balances \in [Accounts -> [Series -> Int]] /\ supply \in [Series -> Nat]
      /\ now \in Nat
  BY DEF TypeOK
<1>2. groups[g].ratioSet => groups[g].finalized /\ Participants(balances, g) = {}
  BY DEF GroupSound, WhilePaying
<1>3. ASSUME NEW price \in Prices \ {0}, FinalizeGroup(g, price)
      PROVE  now' = now /\ ~groups[g].finalized /\ now >= GroupExpiry(g)
  <2>1. now >= GroupExpiry(g) + FinalizeDelay
    BY <1>3 DEF FinalizeGroup, Finalizable
  <2> QED
    BY <1>1, <1>3, <2>1, ExpiryType, SettlementAssumption DEF FinalizeGroup, Finalizable, marketVars
<1>4. ASSUME NEW a \in Accounts, SettleAccountGroup(a, g)
      PROVE  /\ now' = now /\ supply' = supply
             /\ ~groups[g].ratioSet /\ groups[g].finalized /\ groups'[g].finalized
             /\ groups'[g].price = groups[g].price
             /\ groups'[g].wrapperClaimN = groups[g].wrapperClaimN
             /\ Participants(balances', g) \subseteq Participants(balances, g)
  <2>1. ~groups[g].ratioSet
    BY <1>2, <1>4 DEF SettleAccountGroup, Participants
  <2>2. /\ groups'[g].finalized /\ groups'[g].price = groups[g].price
        /\ groups'[g].wrapperClaimN = groups[g].wrapperClaimN
    BY <1>1, <1>4 DEF SettleAccountGroup, AccountingType
  <2>3. balances' = [balances EXCEPT
          ![a] = [s \in Series |-> IF s \in SeriesIn(g) THEN 0 ELSE @[s]]]
    BY <1>4 DEF SettleAccountGroup
  <2>4. \A x \in Accounts, s \in SeriesIn(g) : balances'[x][s] # 0 => balances[x][s] # 0
    BY <1>1, <2>3, SeriesInFinite
  <2>5. Participants(balances', g) \subseteq Participants(balances, g)
    BY <2>4 DEF Participants, Held
  <2> QED BY <1>4, <2>1, <2>2, <2>5 DEF SettleAccountGroup, marketVars
<1>5. ASSUME ComputeRecoveryRatio(g)
      PROVE  /\ now' = now /\ supply' = supply /\ balances' = balances
             /\ ~groups[g].ratioSet /\ groups[g].finalized /\ groups'[g].finalized
             /\ groups'[g].price = groups[g].price
             /\ groups'[g].wrapperClaimN = groups[g].wrapperClaimN
  BY <1>1, <1>5 DEF ComputeRecoveryRatio, marketVars, AccountingType
<1>6. ASSUME (\E a \in Accounts : ClaimSettlement(a, g)) \/ SweepDust(g)
      PROVE  /\ now' = now /\ supply' = supply /\ balances' = balances
             /\ groups[g].ratioSet /\ groups'[g].ratioSet
             /\ groups'[g].finalized = groups[g].finalized
             /\ groups'[g].price = groups[g].price
             /\ groups'[g].wrapperClaimN = groups[g].wrapperClaimN
             /\ groups'[g].ratio = groups[g].ratio
             /\ groups'[g].netCreditN = groups[g].netCreditN
  BY <1>1, <1>6 DEF ClaimSettlement, SweepDust, Redeemable, marketVars, AccountingType
<1>7. ASSUME NEW s \in SeriesIn(g), NEW qty \in 1..supply[s], RedeemWrapper(s, qty)
      PROVE  /\ now' = now /\ balances' = balances
             /\ \A t \in SeriesIn(g) : supply'[t] # supply[t] => supply'[t] < supply[t]
             /\ groups[g].ratioSet /\ groups'[g].ratioSet
             /\ groups'[g].finalized = groups[g].finalized
             /\ groups'[g].price = groups[g].price
             /\ groups'[g].wrapperClaimN = groups[g].wrapperClaimN
             /\ groups'[g].ratio = groups[g].ratio
             /\ groups'[g].netCreditN = groups[g].netCreditN
  <2>1. Info[s].group = g /\ s \in Series /\ \A t \in SeriesIn(g) : t \in Series
    BY DEF SeriesIn
  <2>2. /\ now' = now /\ balances' = balances /\ supply' = [supply EXCEPT ![s] = @ - qty]
        /\ groups[g].ratioSet
        /\ groups' = [groups EXCEPT ![g].pool = @ - RedeemPayout(s, qty)]
    BY <1>7, <2>1 DEF RedeemWrapper, BurnWrapper, Redeemable, marketVars
  <2>3. \A t \in SeriesIn(g) : supply'[t] # supply[t] => supply'[t] < supply[t]
    BY <1>1, <2>1, <2>2
  <2> QED BY <1>1, <2>2, <2>3 DEF AccountingType
<1> QED
  <2>1. CASE \E price \in Prices \ {0} : FinalizeGroup(g, price)
    BY <1>2, <1>3, <2>1
  <2>2. CASE \E a \in Accounts : SettleAccountGroup(a, g)
    BY <1>4, <2>2
  <2>3. CASE ComputeRecoveryRatio(g)
    BY <1>5, <2>3
  <2>4. CASE (\E a \in Accounts : ClaimSettlement(a, g)) \/ SweepDust(g)
    BY <1>2, <1>6, <2>4
  <2>5. CASE \E s \in SeriesIn(g) : \E qty \in 1..supply[s] : RedeemWrapper(s, qty)
    BY <1>2, <1>7, <2>5
  <2> QED BY <2>1, <2>2, <2>3, <2>4, <2>5 DEF SettlesGroup

LEMMA CalmKeeps ==
  ASSUME TypeOK, NEW g \in Groups, Calm(g)
  PROVE  /\ now' >= now
         /\ groups'[g].finalized = groups[g].finalized
         /\ groups'[g].ratioSet = groups[g].ratioSet
         /\ groups'[g].price = groups[g].price
         /\ groups'[g].wrapperClaimN = groups[g].wrapperClaimN
         /\ groups'[g].ratio = groups[g].ratio
         /\ groups'[g].netCreditN = groups[g].netCreditN
         /\ groups[g].finalized =>
              /\ Participants(balances', g) = Participants(balances, g)
              /\ \A s \in SeriesIn(g) : supply'[s] = supply[s]
<1>1. PICK flag \in BOOLEAN : groups'[g] = [groups[g] EXCEPT !.stalledFlagged = flag]
  BY DEF Calm
<1>2. /\ groups'[g].finalized = groups[g].finalized
      /\ groups'[g].ratioSet = groups[g].ratioSet
      /\ groups'[g].price = groups[g].price /\ groups'[g].ratio = groups[g].ratio
      /\ groups'[g].netCreditN = groups[g].netCreditN
      /\ groups'[g].wrapperClaimN = groups[g].wrapperClaimN
  BY <1>1, GroupType DEF AccountingType
<1>3. ASSUME groups[g].finalized
      PROVE  /\ Participants(balances', g) = Participants(balances, g)
             /\ \A s \in SeriesIn(g) : supply'[s] = supply[s]
  <2>1. \A a \in Accounts, s \in SeriesIn(g) : balances'[a][s] = balances[a][s]
    BY <1>3 DEF Calm
  <2>2. \A s \in SeriesIn(g) : supply'[s] = supply[s]
    BY <1>3 DEF Calm
  <2> QED BY <2>1, <2>2, NetSame
<1>4. now' >= now
  BY DEF Calm
<1> QED
  BY <1>2, <1>3, <1>4

LEMMA InitGroups == Init => IGroups
<1> SUFFICES ASSUME Init PROVE IGroups
  OBVIOUS
<1>1. /\ \A g \in Groups : groups[g] = NoAccounting
      /\ \A a \in Accounts, g \in Groups : creditN[a][g] = 0
  BY DEF Init
<1>2. FinalAfterExpiry
  BY <1>1 DEF FinalAfterExpiry, NoAccounting
<1>3. ASSUME NEW g \in Groups PROVE GroupSound(g)
  <2>1. {a \in Accounts : creditN[a][g] > 0} = {}
    BY <1>1
  <2>2. CreditsCounted(g)
    <3>1. Cardinality({a \in Accounts : creditN[a][g] > 0}) = 0
      BY <2>1, FS_EmptySet
    <3> QED BY <1>1, <3>1 DEF CreditsCounted, NoAccounting
  <2>3. WhileOpen(g) /\ WhileSettling(g) /\ WhilePaying(g)
    BY <1>1 DEF WhileOpen, WhileSettling, WhilePaying, NoAccounting
  <2> QED BY <2>2, <2>3 DEF GroupSound
<1> QED
  BY <1>2, <1>3 DEF IGroups

LEMMA NextGroups ==
  TypeOK /\ TypeOK' /\ IBacking /\ IGroups /\ [Next]_vars => IGroups'
<1> SUFFICES ASSUME TypeOK, TypeOK', IBacking, IGroups, [Next]_vars PROVE IGroups'
  OBVIOUS
<1>1. \A g \in Groups : GroupSound(g) /\ (SettlesGroup(g) \/ Calm(g))
  BY GroupStep DEF IGroups
<1>2. ASSUME NEW g \in Groups PROVE groups'[g].finalized => now' >= GroupExpiry(g)
  <2>1. groups[g].finalized => now >= GroupExpiry(g)
    BY DEF IGroups, FinalAfterExpiry
  <2>2. now \in Nat /\ now' \in Nat /\ GroupExpiry(g) \in Nat
    BY ExpiryType DEF TypeOK
  <2>3. CASE SettlesGroup(g)
    BY <1>1, <2>1, <2>2, <2>3, SettlingWrites
  <2>4. CASE Calm(g)
    BY <2>1, <2>2, <2>4, CalmKeeps
  <2> QED BY <1>1, <2>3, <2>4
<1>3. ASSUME NEW g \in Groups PROVE GroupSound(g)'
  <2>1. GroupSound(g) /\ WrapperBacking
    BY <1>1 DEF IBacking
  <2>2. CASE Calm(g)
    BY <2>1, <2>2, CalmSound
  <2>3. CASE SettlesGroup(g)
    BY <2>1, <2>3, FinalizeSound, SettleSound, RatioSound, ClaimSound, RedeemSound, SweepSound
       DEF SettlesGroup
  <2> QED BY <1>1, <2>2, <2>3
<1> QED
  BY <1>2, <1>3 DEF IGroups, FinalAfterExpiry

IAll == IType /\ IBacking /\ IGroups

LEMMA IAllCorrect == Spec => []IAll
<1>1. Init => IAll
  BY InitType, InitBacking, InitGroups DEF IAll
<1>2. IAll /\ [Next]_vars => IAll'
  <2> SUFFICES ASSUME IType, IBacking, IGroups, [Next]_vars
               PROVE  IType' /\ IBacking' /\ IGroups'
    BY DEF IAll
  <2>1. IType'
    BY NextType
  <2>2. TypeOK /\ TypeOK'
    BY <2>1 DEF IType
  <2>3. IBacking'
    BY <2>2, NextBacking
  <2>4. IGroups'
    BY <2>2, NextGroups
  <2> QED BY <2>1, <2>3, <2>4
<1> QED
  BY <1>1, <1>2, PTL DEF Spec

\* The debts of a group cover what its wrappers and creditors claim; unclaimed
\* credits are counted, and a group whose debtors all paid recovers in full
\* (SettlementWindow.settleAccountGroup, computeRecoveryRatio; INV-30, 47, 49).
THEOREM ClaimsAreCovered == Spec => []ClaimsCovered
<1>1. IAll => ClaimsCovered
  <2> SUFFICES ASSUME TypeOK, IGroups PROVE ClaimsCovered
    BY DEF IAll, IType
  <2>1. \A g \in Groups : GroupSound(g)
    BY DEF IGroups
  <2>2. UnclaimedExact
    BY <2>1 DEF GroupSound, CreditsCounted, UnclaimedExact
  <2>3. ASSUME NEW g \in Groups, groups[g].finalized, Participants(balances, g) = {}
        PROVE  (groups[g].collected + groups[g].unpaid) * Denom >= GrossClaimN(g)
    <3>1. NetOf(balances, g, groups[g].price) = 0
      BY <2>3, GroupType, ReadableType, NetOfNobody
    <3>2. CASE groups[g].ratioSet
      BY <2>1, <3>2 DEF GroupSound, WhilePaying
    <3>3. CASE ~groups[g].ratioSet
      <4>1. (groups[g].collected + groups[g].unpaid) * Denom
              >= GrossClaimN(g) + NetOf(balances, g, groups[g].price)
        BY <2>1, <2>3, <3>3 DEF GroupSound, WhileSettling
      <4> QED BY <3>1, <4>1, GroupType
    <3> QED BY <3>2, <3>3
  <2>4. PaidInFull
    BY <2>1 DEF GroupSound, WhilePaying, PaidInFull
  <2> QED BY <2>2, <2>3, <2>4 DEF ClaimsCovered, DebtsCoverClaims
<1> QED
  BY <1>1, IAllCorrect, PTL

\* Whatever the order and the pieces of claims and redemptions, the pool holds
\* the share of everything not yet paid, and no payout reverts for lack of it
\* (SettlementWindow.claimSettlement, redeemWrapper, sweepDust; INV-31).
THEOREM PoolSuffices == Spec => []PoolCoversClaims
<1>1. IAll => PoolCoversClaims
  BY DEF IAll, IGroups, GroupSound, WhilePaying, PoolCoversClaims
<1> QED
  BY <1>1, IAllCorrect, PTL

\* Nothing a group has fixed moves again: no position returns to a finalized
\* group, its wrappers only leave by redemption, and its price, claims and ratio
\* are written once (SettlementWindow.sol; INV-26, 27, 28, 29, 33).
THEOREM SettledStays == Spec => SettledForGood
<1>1. IAll /\ [Next]_vars => [StaysSettled /\ SupplyOnlyRedeemed /\ WrittenOnce]_vars
  <2> SUFFICES ASSUME TypeOK, IGroups, [Next]_vars
               PROVE  StaysSettled /\ SupplyOnlyRedeemed /\ WrittenOnce
    BY DEF IAll, IType
  <2>1. ASSUME NEW g \in Groups
        PROVE  /\ groups[g].finalized =>
                    /\ groups'[g].finalized /\ groups'[g].price = groups[g].price
                    /\ groups'[g].wrapperClaimN = groups[g].wrapperClaimN
                    /\ Participants(balances', g) \subseteq Participants(balances, g)
                    /\ \A s \in SeriesIn(g) :
                         supply'[s] # supply[s] => supply'[s] < supply[s] /\ groups[g].ratioSet
               /\ groups[g].ratioSet =>
                    /\ groups'[g].ratioSet /\ groups'[g].ratio = groups[g].ratio
                    /\ groups'[g].netCreditN = groups[g].netCreditN
    <3>1. GroupSound(g) /\ (SettlesGroup(g) \/ Calm(g))
      BY GroupStep DEF IGroups
    <3>2. CASE SettlesGroup(g)
      BY <3>1, <3>2, SettlingWrites
    <3>3. CASE Calm(g)
      BY <3>3, CalmKeeps
    <3> QED BY <3>1, <3>2, <3>3
  <2>2. StaysSettled
    BY <2>1 DEF StaysSettled, Participants
  <2>3. SupplyOnlyRedeemed
    BY <2>1, SeriesGroup DEF SupplyOnlyRedeemed, Finalized
  <2>4. WrittenOnce
    BY <2>1 DEF WrittenOnce
  <2> QED BY <2>2, <2>3, <2>4
<1> QED
  BY <1>1, IAllCorrect, PTL DEF Spec, SettledForGood

-----------------------------------------------------------------------------
(* The lifecycle that keepers and the frontend rely on                     *)

Stages  == [g \in Groups |-> StageOf(g)]
Members == [g \in Groups |-> Participants(balances, g)]
PricesOf == [g \in Groups |-> groups[g].price]

\* What a step must keep for one group to look the same from outside.
SameGroup(g) ==
  /\ StageOf(g)' = StageOf(g)
  /\ Participants(balances', g) = Participants(balances, g)
  /\ groups'[g].price = groups[g].price

LEMMA SameAll ==
  ASSUME \A g \in Groups : SameGroup(g)
  PROVE  Stages' = Stages /\ Members' = Members /\ PricesOf' = PricesOf
BY DEF SameGroup, Stages, Members, PricesOf

\* A step of one group changes the picture of that group only.
LEMMA SameOthers ==
  ASSUME NEW h \in Groups, \A g \in Groups \ {h} : SameGroup(g)
  PROVE  /\ Stages' = [Stages EXCEPT ![h] = StageOf(h)']
         /\ Members' = [Members EXCEPT ![h] = Participants(balances', h)]
         /\ PricesOf' = [PricesOf EXCEPT ![h] = groups'[h].price]
BY DEF SameGroup, Stages, Members, PricesOf

LEMMA TradeStep ==
  ASSUME TypeOK, IGroups, Trading
  PROVE  Lifecycle!Trade
<1>1. ASSUME NEW g \in Groups
      PROVE  /\ Members'[g] \subseteq Accounts
             /\ now >= GroupExpiry(g) => Members'[g] \subseteq Members[g]
             /\ Stages[g] # "OPEN" => Members'[g] = Members[g]
  <2>1. Calm(g) /\ GroupSound(g)
    BY <1>1, TradingCalm DEF IGroups
  <2>2. Members'[g] = Participants(balances', g) /\ Members[g] = Participants(balances, g)
    BY DEF Members
  <2>3. Stages[g] # "OPEN" => groups[g].finalized
    BY <2>1 DEF Stages, StageOf, GroupSound, WhilePaying
  <2>4. groups[g].finalized => Members'[g] = Members[g]
    BY <1>1, <2>1, <2>2, CalmKeeps
  <2>5. now >= GroupExpiry(g) => Members'[g] \subseteq Members[g]
    BY <2>1, <2>2 DEF Calm
  <2> QED BY <2>2, <2>3, <2>4, <2>5 DEF Participants
<1>2. Members' = [g \in Groups |-> Members'[g]]
  BY DEF Members
<1>3. now' = now /\ Stages' = Stages /\ PricesOf' = PricesOf
  BY DEF Trading, Stages, StageOf, PricesOf
<1> QED
  BY <1>1, <1>2, <1>3 DEF Lifecycle!Trade, Stages, Members, PricesOf

LEMMA ElsewhereSame ==
  ASSUME TypeOK, NEW h \in Groups, NEW g \in Groups \ {h}, SettlesGroup(h)
  PROVE  SameGroup(g)
<1>1. /\ groups'[g] = groups[g]
      /\ \A a \in Accounts, s \in SeriesIn(g) : balances'[a][s] = balances[a][s]
  BY SettlementElsewhere
<1>2. Participants(balances', g) = Participants(balances, g)
  BY <1>1, NetSame
<1> QED
  BY <1>1, <1>2 DEF SameGroup, StageOf

LEMMA SettlementLifecycle ==
  ASSUME TypeOK, IGroups, NEW h \in Groups, SettlesGroup(h)
  PROVE  [Lifecycle!LifecycleNext]_(Lifecycle!lifecycleVars)
<1>1. GroupSound(h) /\ groups[h] \in AccountingType
  BY GroupType DEF IGroups
<1>2. /\ Stages' = [Stages EXCEPT ![h] = StageOf(h)']
      /\ Members' = [Members EXCEPT ![h] = Participants(balances', h)]
      /\ PricesOf' = [PricesOf EXCEPT ![h] = groups'[h].price]
  BY ElsewhereSame, SameOthers
<1>3. Stages[h] = StageOf(h) /\ Members[h] = Participants(balances, h)
      /\ PricesOf[h] = groups[h].price /\ now' = now
  BY <1>1, SettlingWrites DEF Stages, Members, PricesOf
<1>4. ASSUME NEW price \in Prices \ {0}, FinalizeGroup(h, price)
      PROVE  Lifecycle!Finalize(h, PricesOf'[h])
  <2>1. ~groups[h].finalized /\ balances' = balances
    BY <1>4 DEF FinalizeGroup, Finalizable
  <2>2. groups'[h].finalized /\ groups'[h].ratioSet = groups[h].ratioSet
    BY <1>1, <1>4 DEF FinalizeGroup, TypeOK, AccountingType
  <2>3. StageOf(h) = "OPEN" /\ StageOf(h)' = "FINALIZED"
    BY <1>1, <2>1, <2>2 DEF StageOf, GroupSound, WhileOpen
  <2>4. now >= GroupExpiry(h)
    BY <1>1, <2>1, <2>2, SettlingWrites
  <2>5. Members' = Members /\ PricesOf'[h] = groups'[h].price
    BY <2>1 DEF Members, PricesOf
  <2> QED
    BY <1>2, <1>3, <2>3, <2>4, <2>5 DEF Lifecycle!Finalize, Stages, Members, PricesOf
<1>5. ASSUME NEW a \in Accounts, SettleAccountGroup(a, h)
      PROVE  Lifecycle!Settle({a}, h)
  <2>1. /\ groups[h].finalized /\ a \in Participants(balances, h)
        /\ balances' = [balances EXCEPT
             ![a] = [s \in Series |-> IF s \in SeriesIn(h) THEN 0 ELSE @[s]]]
    BY <1>5 DEF SettleAccountGroup, Participants
  <2>2. ~groups[h].ratioSet
    BY <1>1, <2>1 DEF GroupSound, WhilePaying
  <2>3. groups'[h].finalized /\ groups'[h].ratioSet = groups[h].ratioSet
        /\ groups'[h].price = groups[h].price
    BY <1>1, <1>5 DEF SettleAccountGroup, TypeOK, AccountingType
  <2>4. StageOf(h) = "FINALIZED" /\ StageOf(h)' = "FINALIZED"
    BY <2>1, <2>2, <2>3 DEF StageOf
  <2>5. Participants(balances', h) = Participants(balances, h) \ {a}
    <3>1. /\ \A s \in SeriesIn(h) : s \in Series /\ balances'[a][s] = 0
          /\ \A x \in Accounts \ {a} : balances'[x] = balances[x]
      BY <2>1, SeriesInFinite DEF TypeOK
    <3> QED BY <3>1 DEF Participants, Held
  <2>6. Stages' = Stages /\ PricesOf' = PricesOf
    BY <1>2, <1>3, <2>3, <2>4 DEF Stages, PricesOf
  <2>7. Members' = [Members EXCEPT ![h] = @ \ {a}]
    BY <1>2, <1>3, <2>5
  <2> QED
    BY <1>3, <2>4, <2>6, <2>7 DEF Lifecycle!Settle, Stages, Members, PricesOf
<1>6. ASSUME ComputeRecoveryRatio(h)
      PROVE  Lifecycle!FixRatio(h)
  <2>1. /\ groups[h].finalized /\ ~groups[h].ratioSet /\ balances' = balances
        /\ Participants(balances, h) = {}
    BY <1>6 DEF ComputeRecoveryRatio
  <2>2. groups'[h].ratioSet /\ groups'[h].price = groups[h].price
    BY <1>1, <1>6 DEF ComputeRecoveryRatio, TypeOK, AccountingType
  <2>3. StageOf(h) = "FINALIZED" /\ StageOf(h)' = "REDEEMABLE"
    BY <2>1, <2>2 DEF StageOf
  <2>4. Members' = Members /\ PricesOf' = PricesOf
    BY <1>2, <1>3, <2>1, <2>2 DEF Members, PricesOf
  <2> QED
    BY <1>2, <1>3, <2>1, <2>3, <2>4 DEF Lifecycle!FixRatio, Stages, Members, PricesOf
<1>7. ASSUME \/ \E a \in Accounts : ClaimSettlement(a, h)
             \/ \E s \in SeriesIn(h) : \E qty \in 1..supply[s] : RedeemWrapper(s, qty)
             \/ SweepDust(h)
      PROVE  UNCHANGED Lifecycle!lifecycleVars
  <2>1. groups[h].ratioSet /\ balances' = balances
    BY <1>7 DEF ClaimSettlement, RedeemWrapper, SweepDust, Redeemable, SeriesIn
  <2>2. groups'[h].ratioSet /\ groups'[h].price = groups[h].price
    BY <1>1, <2>1, SettlingWrites DEF GroupSound, WhilePaying
  <2>3. StageOf(h)' = StageOf(h)
    BY <2>1, <2>2 DEF StageOf
  <2>4. Stages' = Stages /\ Members' = Members /\ PricesOf' = PricesOf
    BY <1>2, <1>3, <2>1, <2>2, <2>3 DEF Stages, Members, PricesOf
  <2> QED
    BY <1>3, <2>4 DEF Lifecycle!lifecycleVars, Stages, Members, PricesOf
<1> QED
  <2>1. CASE \E price \in Prices \ {0} : FinalizeGroup(h, price)
    <3>1. Lifecycle!Finalize(h, PricesOf'[h])
      BY <1>4, <2>1
    <3> QED BY <3>1 DEF Lifecycle!LifecycleNext, Lifecycle!Finalize, PricesOf
  <2>2. CASE \E a \in Accounts : SettleAccountGroup(a, h)
    BY <1>5, <2>2 DEF Lifecycle!LifecycleNext
  <2>3. CASE ComputeRecoveryRatio(h)
    BY <1>6, <2>3 DEF Lifecycle!LifecycleNext
  <2>4. CASE \/ \E a \in Accounts : ClaimSettlement(a, h)
             \/ \E s \in SeriesIn(h) : \E qty \in 1..supply[s] : RedeemWrapper(s, qty)
             \/ SweepDust(h)
    BY <1>7, <2>4
  <2> QED BY <2>1, <2>2, <2>3, <2>4 DEF SettlesGroup

LEMMA NextLifecycle ==
  TypeOK /\ IGroups /\ [Next]_vars
    => [Lifecycle!LifecycleNext]_(Lifecycle!lifecycleVars)
<1> SUFFICES ASSUME TypeOK, IGroups, [Next]_vars
             PROVE  [Lifecycle!LifecycleNext]_(Lifecycle!lifecycleVars)
  OBVIOUS
<1>1. CASE ClearingStep \/ LiquidationStep
  <2>1. Trading
    BY <1>1, ClearingTrades, LiquidationTrades DEF IGroups
  <2> QED BY <2>1, TradeStep DEF Lifecycle!LifecycleNext
<1>2. ASSUME \A g \in Groups : SameGroup(g)
      PROVE  Stages' = Stages /\ Members' = Members /\ PricesOf' = PricesOf
  BY <1>2, SameAll
<1>3. CASE SettlementStep
  <2>1. PICK h \in Groups : SettlesGroup(h) \/ FlagOracleStalled(h)
    BY <1>3 DEF SettlementStep, SettlesGroup
  <2>2. CASE SettlesGroup(h)
    BY <2>2, SettlementLifecycle
  <2>3. CASE FlagOracleStalled(h)
    <3>1. UNCHANGED <<balances, now>>
          /\ groups' = [groups EXCEPT ![h].stalledFlagged = TRUE]
      BY <2>3 DEF FlagOracleStalled, marketVars
    <3>2. \A g \in Groups : /\ groups'[g].price = groups[g].price
                            /\ groups'[g].finalized = groups[g].finalized
                            /\ groups'[g].ratioSet = groups[g].ratioSet
      BY <3>1 DEF TypeOK, AccountingType
    <3>3. \A g \in Groups : SameGroup(g)
      BY <3>1, <3>2 DEF SameGroup, StageOf, Participants
    <3> QED
      BY <1>2, <3>1, <3>3 DEF Lifecycle!lifecycleVars, Stages, Members, PricesOf
  <2> QED BY <2>1, <2>2, <2>3
<1>4. CASE SurroundingsStep \/ UNCHANGED vars
  <2>1. UNCHANGED <<groups, balances>>
    BY <1>4 DEF SurroundingsStep, Tick, SetSpot, SetSurface, SetEmergencyMode, SetPaused, SetProductCloseOnly,
       DepositInsurance, FundKeeperReserve, WithdrawTreasury, settlementVars, vars
  <2>2. now' = now \/ now' = now + 1
    BY <1>4 DEF SurroundingsStep, Tick, SetSpot, SetSurface, SetEmergencyMode, SetPaused, SetProductCloseOnly,
       DepositInsurance, FundKeeperReserve, WithdrawTreasury, marketVars, vars
  <2>3. Stages' = Stages /\ Members' = Members /\ PricesOf' = PricesOf
    BY <2>1 DEF Stages, StageOf, Members, PricesOf
  <2>4. CASE now' = now
    BY <2>3, <2>4 DEF Lifecycle!lifecycleVars, Stages, Members, PricesOf
  <2>5. CASE now' = now + 1
    BY <2>3, <2>5 DEF Lifecycle!LifecycleNext, Lifecycle!Advance, Stages, Members, PricesOf
  <2> QED BY <2>2, <2>4, <2>5
<1> QED
  BY <1>1, <1>3, <1>4 DEF Next

\* The contracts take every group through the lifecycle whoever settles from
\* outside relies on: open, finalized at a price that stays, redeemable once
\* everyone has left, and nobody enters after the expiry
\* (OptionClearing.sol, LiquidationModule.sol, SettlementWindow.sol).
THEOREM LifecycleImplemented == Spec => ImplementsLifecycle
<1>1. Init => Lifecycle!LifecycleInit
  <2> SUFFICES ASSUME Init PROVE Lifecycle!LifecycleInit
    OBVIOUS
  <2>1. \A g \in Groups : groups[g] = NoAccounting
    BY DEF Init
  <2>2. \A a \in Accounts, s \in Series : balances[a][s] = 0
    BY DEF Init
  <2>3. \A g \in Groups : /\ StageOf(g) = "OPEN" /\ groups[g].price = 0
                          /\ Participants(balances, g) = {}
    BY <2>1, <2>2 DEF StageOf, NoAccounting, Participants, Held
  <2> QED BY <2>3 DEF Init, Lifecycle!LifecycleInit
<1>2. IAll /\ [Next]_vars => [Lifecycle!LifecycleNext]_(Lifecycle!lifecycleVars)
  BY NextLifecycle DEF IAll, IType
<1> QED
  BY <1>1, <1>2, IAllCorrect, PTL DEF Spec, ImplementsLifecycle, Lifecycle!LifecycleSpec

-----------------------------------------------------------------------------
(* More on sums *)

\* Zeros outside a subset add nothing.
LEMMA TotalExtend ==
  ASSUME NEW T, NEW S \in SUBSET T, NEW f, NEW h,
         \A x \in S : h[x] = f[x], \A x \in T \ S : h[x] = 0
  PROVE  Total(T, h) = Total(S, f)
<1>1. \A x \in T \ S : Units(x, h[x]) = {}
  BY DEF Units
<1>2. UNION {Units(x, h[x]) : x \in T} = UNION {Units(x, f[x]) : x \in S}
  BY <1>1
<1> QED
  BY <1>2 DEF Total

LEMMA SignedExtend ==
  ASSUME NEW T, NEW S \in SUBSET T, NEW f, NEW h,
         \A x \in S : h[x] = f[x], \A x \in T \ S : h[x] = 0
  PROVE  SignedTotal(T, h) = SignedTotal(S, f)
<1> DEFINE ph == [x \in T |-> Pos(h[x])]
           nh == [x \in T |-> Neg(h[x])]
           pf == [x \in S |-> Pos(f[x])]
           nf == [x \in S |-> Neg(f[x])]
<1>1. /\ \A x \in S : ph[x] = pf[x] /\ nh[x] = nf[x]
      /\ \A x \in T \ S : ph[x] = 0 /\ nh[x] = 0
  BY DEF Pos, Neg
<1>2. /\ SignedTotal(T, h) = Total(T, ph) - Total(T, nh)
      /\ SignedTotal(S, f) = Total(S, pf) - Total(S, nf)
  BY DEF SignedTotal
<1> HIDE DEF ph, nh, pf, nf
<1>3. Total(T, ph) = Total(S, pf) /\ Total(T, nh) = Total(S, nf)
  BY <1>1, TotalExtend
<1> QED
  BY <1>2, <1>3

\* Signed sums add up term by term.
LEMMA SignedSum ==
  ASSUME NEW S, IsFiniteSet(S), NEW f, NEW g, NEW h,
         \A x \in S : f[x] \in Int /\ g[x] \in Int /\ h[x] = f[x] + g[x]
  PROVE  SignedTotal(S, h) = SignedTotal(S, f) + SignedTotal(S, g)
<1> DEFINE pf == [x \in S |-> Pos(f[x])]
           nf == [x \in S |-> Neg(f[x])]
           pg == [x \in S |-> Pos(g[x])]
           ng == [x \in S |-> Neg(g[x])]
           p == [x \in S |-> pf[x] + pg[x]]
           n == [x \in S |-> nf[x] + ng[x]]
<1>1. \A x \in S : /\ pf[x] \in Nat /\ nf[x] \in Nat /\ f[x] = pf[x] - nf[x]
                   /\ pg[x] \in Nat /\ ng[x] \in Nat /\ g[x] = pg[x] - ng[x]
  BY DEF Pos, Neg
<1>2. /\ SignedTotal(S, f) = Total(S, pf) - Total(S, nf)
      /\ SignedTotal(S, g) = Total(S, pg) - Total(S, ng)
  BY DEF SignedTotal
<1> HIDE DEF pf, nf, pg, ng
<1>3. \A x \in S : p[x] \in Nat /\ n[x] \in Nat /\ h[x] = p[x] - n[x]
  BY <1>1
<1>4. SignedTotal(S, h) = Total(S, p) - Total(S, n)
  <2> HIDE DEF p, n
  <2> QED BY <1>3, SignedDifference
<1>5. /\ Total(S, p) = Total(S, pf) + Total(S, pg)
      /\ Total(S, n) = Total(S, nf) + Total(S, ng)
  BY <1>1, TotalAdd
<1>6. /\ Total(S, pf) \in Nat /\ Total(S, nf) \in Nat
      /\ Total(S, pg) \in Nat /\ Total(S, ng) \in Nat
  BY <1>1, TotalType
<1> HIDE DEF p, n
<1> QED
  BY <1>2, <1>4, <1>5, <1>6

\* A sum of naturals is the same with or without signs.
LEMMA SignedNat ==
  ASSUME NEW S, IsFiniteSet(S), NEW f, \A x \in S : f[x] \in Nat
  PROVE  SignedTotal(S, f) = Total(S, f)
<1> DEFINE z == [x \in S |-> 0]
<1>1. \A x \in S : f[x] \in Nat /\ z[x] \in Nat /\ f[x] = f[x] - z[x]
  OBVIOUS
<1>2. Total(S, z) = 0
  BY TotalZero
<1>3. Total(S, f) \in Nat
  BY TotalType
<1> HIDE DEF z
<1>4. SignedTotal(S, f) = Total(S, f) - Total(S, z)
  BY <1>1, SignedDifference
<1> QED
  BY <1>2, <1>3, <1>4

\* Larger terms make a larger sum.
LEMMA SignedMonotone ==
  ASSUME NEW S, IsFiniteSet(S), NEW f, NEW h,
         \A x \in S : f[x] \in Int /\ h[x] \in Int /\ f[x] <= h[x]
  PROVE  SignedTotal(S, f) <= SignedTotal(S, h)
<1> DEFINE d == [x \in S |-> h[x] - f[x]]
<1>1. \A x \in S : f[x] \in Int /\ d[x] \in Nat /\ d[x] \in Int /\ h[x] = f[x] + d[x]
  OBVIOUS
<1> HIDE DEF d
<1>2. SignedTotal(S, h) = SignedTotal(S, f) + SignedTotal(S, d)
  BY <1>1, SignedSum
<1>3. SignedTotal(S, d) = Total(S, d) /\ Total(S, d) \in Nat
  BY <1>1, SignedNat, TotalType
<1>4. SignedTotal(S, f) \in Int
  BY <1>1, SignedTotalType
<1> QED
  BY <1>2, <1>3, <1>4

LEMMA TotalMonotone ==
  ASSUME NEW S, IsFiniteSet(S), NEW f, NEW h,
         \A x \in S : f[x] \in Nat /\ h[x] \in Nat /\ f[x] <= h[x]
  PROVE  Total(S, f) <= Total(S, h)
<1>1. \A x \in S : f[x] \in Int /\ h[x] \in Int /\ f[x] <= h[x]
  OBVIOUS
<1>2. SignedTotal(S, f) <= SignedTotal(S, h)
  BY <1>1, SignedMonotone
<1>3. SignedTotal(S, f) = Total(S, f) /\ SignedTotal(S, h) = Total(S, h)
  BY SignedNat
<1> QED
  BY <1>2, <1>3

\* A sum whose other terms are zero is its one term.
LEMMA TotalSingle ==
  ASSUME NEW S, IsFiniteSet(S), NEW f, \A x \in S : f[x] \in Nat,
         NEW a \in S, \A x \in S \ {a} : f[x] = 0
  PROVE  Total(S, f) = f[a]
<1>1. Total(S, f) = f[a] + Total(S \ {a}, f)
  BY TotalSplit
<1>2. Total(S \ {a}, f) = 0
  BY TotalZero
<1> QED
  BY <1>1, <1>2

-----------------------------------------------------------------------------
(* A row of balances, weighed                                              *)

Rows == [Series -> Int]
Weights == [Series -> Nat]

Weighed(row, w) == SignedTotal(Series, [s \in Series |-> row[s] * w[s]])

LEMMA WeighedTerms ==
  ASSUME NEW row \in Rows, NEW w \in Weights
  PROVE  \A s \in Series : row[s] * w[s] \in Int
BY DEF Rows, Weights

LEMMA WeighedType ==
  ASSUME NEW row \in Rows, NEW w \in Weights
  PROVE  Weighed(row, w) \in Int
<1> DEFINE f == [s \in Series |-> row[s] * w[s]]
<1>1. \A s \in Series : f[s] \in Int
  BY WeighedTerms
<1> HIDE DEF f
<1>2. SignedTotal(Series, f) \in Int
  BY <1>1, IndexesFinite, SignedTotalType
<1> QED
  BY <1>2 DEF Weighed, f

\* Weighing is linear in the balances.
LEMMA WeighedSum ==
  ASSUME NEW q \in Rows, NEW r \in Rows, NEW t \in Rows, NEW w \in Weights,
         \A s \in Series : t[s] = q[s] + r[s]
  PROVE  Weighed(t, w) = Weighed(q, w) + Weighed(r, w)
<1> DEFINE f == [s \in Series |-> q[s] * w[s]]
           g == [s \in Series |-> r[s] * w[s]]
           h == [s \in Series |-> t[s] * w[s]]
<1>1. \A x, y \in Int, k \in Nat : (x + y) * k = x * k + y * k
  OBVIOUS
<1>2. \A s \in Series : h[s] = f[s] + g[s]
  BY <1>1 DEF Rows, Weights
<1>3. \A s \in Series : f[s] \in Int /\ g[s] \in Int
  BY WeighedTerms
<1> HIDE DEF f, g, h
<1>4. SignedTotal(Series, h) = SignedTotal(Series, f) + SignedTotal(Series, g)
  BY <1>2, <1>3, IndexesFinite, SignedSum
<1> QED
  BY <1>4 DEF Weighed, f, g, h

\* More of every series weighs no less, by what the difference weighs.
LEMMA WeighedMonotone ==
  ASSUME NEW q \in Rows, NEW r \in Rows, NEW w \in Weights,
         \A s \in Series : q[s] <= r[s]
  PROVE  Weighed(q, w) <= Weighed(r, w)
<1> DEFINE f == [s \in Series |-> q[s] * w[s]]
           h == [s \in Series |-> r[s] * w[s]]
<1>1. \A x, y \in Int, k \in Nat : x <= y => x * k <= y * k
  OBVIOUS
<1>2. \A s \in Series : f[s] <= h[s]
  BY <1>1 DEF Rows, Weights
<1>3. \A s \in Series : f[s] \in Int /\ h[s] \in Int
  BY WeighedTerms
<1> HIDE DEF f, h
<1>4. SignedTotal(Series, f) <= SignedTotal(Series, h)
  BY <1>2, <1>3, IndexesFinite, SignedMonotone
<1> QED
  BY <1>4 DEF Weighed, f, h

LEMMA WeighedCong ==
  ASSUME NEW q, NEW r, NEW w, NEW v, \A s \in Series : q[s] * w[s] = r[s] * v[s]
  PROVE  Weighed(q, w) = Weighed(r, v)
<1>1. [s \in Series |-> q[s] * w[s]] = [s \in Series |-> r[s] * v[s]]
  OBVIOUS
<1> QED
  BY <1>1 DEF Weighed

\* Weighing is linear in the weights too.
LEMMA WeighedWeights ==
  ASSUME NEW q \in Rows, NEW v \in Weights, NEW w \in Weights, NEW z \in Weights,
         \A s \in Series : z[s] = v[s] + w[s]
  PROVE  Weighed(q, z) = Weighed(q, v) + Weighed(q, w)
<1> DEFINE f == [s \in Series |-> q[s] * v[s]]
           g == [s \in Series |-> q[s] * w[s]]
           h == [s \in Series |-> q[s] * z[s]]
<1>1. \A k \in Int, x, y \in Nat : k * (x + y) = k * x + k * y
  OBVIOUS
<1>2. \A s \in Series : h[s] = f[s] + g[s]
  BY <1>1 DEF Rows, Weights
<1>3. \A s \in Series : f[s] \in Int /\ g[s] \in Int
  BY WeighedTerms
<1> HIDE DEF f, g, h
<1>4. SignedTotal(Series, h) = SignedTotal(Series, f) + SignedTotal(Series, g)
  BY <1>2, <1>3, IndexesFinite, SignedSum
<1> QED
  BY <1>4 DEF Weighed, f, g, h

\* The weights of one underlying, and of all: weighing by underlying and adding
\* up is weighing once.
Only(u, w) == [s \in Series |-> IF Info[s].underlying = u THEN w[s] ELSE 0]

LEMMA WeighedByUnderlying ==
  ASSUME NEW q \in Rows, NEW w \in Weights
  PROVE  SignedTotal(Underlyings, [u \in Underlyings |-> Weighed(q, Only(u, w))])
           = Weighed(q, w)
<1> DEFINE P == [u \in Underlyings |-> [s \in Series |-> Pos(q[s] * Only(u, w)[s])]]
           N == [u \in Underlyings |-> [s \in Series |-> Neg(q[s] * Only(u, w)[s])]]
           p == RowSums(Underlyings, Series, P)
           n == RowSums(Underlyings, Series, N)
           pw == [s \in Series |-> Pos(q[s] * w[s])]
           nw == [s \in Series |-> Neg(q[s] * w[s])]
           f == [u \in Underlyings |-> Weighed(q, Only(u, w))]
<1>1. \A u \in Underlyings : Only(u, w) \in Weights
  BY DEF Only, Weights
<1>2. \A u \in Underlyings : \A s \in Series : q[s] * Only(u, w)[s] \in Int
  BY <1>1, WeighedTerms
<1>3. \A u \in Underlyings, s \in Series : P[u][s] \in Nat /\ N[u][s] \in Nat
  BY <1>2 DEF Pos, Neg
<1>4. \A u \in Underlyings : f[u] = p[u] - n[u]
  <2> TAKE u \in Underlyings
  <2>1. /\ P[u] = [s \in Series |-> Pos([x \in Series |-> q[x] * Only(u, w)[x]][s])]
        /\ N[u] = [s \in Series |-> Neg([x \in Series |-> q[x] * Only(u, w)[x]][s])]
    OBVIOUS
  <2> QED BY <2>1 DEF Weighed, SignedTotal, RowSums
<1>5. \A s \in Series : Info[s].underlying \in Underlyings
  BY DEF Underlyings
<1>6. \A s \in Series : q[s] * w[s] \in Int /\ q[s] * 0 = 0
  BY WeighedTerms DEF Rows
<1>7. \A s \in Series : ColumnSums(Underlyings, Series, P)[s] = pw[s]
  <2> TAKE s \in Series
  <2> DEFINE c == [u \in Underlyings |-> P[u][s]]
  <2>1. /\ \A u \in Underlyings : c[u] \in Nat
        /\ \A u \in Underlyings \ {Info[s].underlying} : c[u] = 0
        /\ c[Info[s].underlying] = pw[s]
    BY <1>3, <1>5, <1>6 DEF Only, Pos
  <2>2. ColumnSums(Underlyings, Series, P)[s] = Total(Underlyings, c)
    BY DEF ColumnSums
  <2> HIDE DEF c
  <2>3. Total(Underlyings, c) = c[Info[s].underlying]
    BY <1>5, <2>1, IndexesFinite, TotalSingle
  <2> QED BY <2>1, <2>2, <2>3
<1>8. \A s \in Series : ColumnSums(Underlyings, Series, N)[s] = nw[s]
  <2> TAKE s \in Series
  <2> DEFINE c == [u \in Underlyings |-> N[u][s]]
  <2>1. /\ \A u \in Underlyings : c[u] \in Nat
        /\ \A u \in Underlyings \ {Info[s].underlying} : c[u] = 0
        /\ c[Info[s].underlying] = nw[s]
    BY <1>3, <1>5, <1>6 DEF Only, Neg
  <2>2. ColumnSums(Underlyings, Series, N)[s] = Total(Underlyings, c)
    BY DEF ColumnSums
  <2> HIDE DEF c
  <2>3. Total(Underlyings, c) = c[Info[s].underlying]
    BY <1>5, <2>1, IndexesFinite, TotalSingle
  <2> QED BY <2>1, <2>2, <2>3
<1>9. Weighed(q, w) = Total(Series, pw) - Total(Series, nw)
  <2>1. /\ pw = [s \in Series |-> Pos([x \in Series |-> q[x] * w[x]][s])]
        /\ nw = [s \in Series |-> Neg([x \in Series |-> q[x] * w[x]][s])]
    OBVIOUS
  <2> QED BY <2>1 DEF Weighed, SignedTotal
<1> HIDE DEF P, N, pw, nw, f
<1>10. /\ Total(Underlyings, p) = Total(Series, ColumnSums(Underlyings, Series, P))
       /\ Total(Underlyings, n) = Total(Series, ColumnSums(Underlyings, Series, N))
  BY <1>3, IndexesFinite, TotalSwap
<1>11. /\ Total(Series, ColumnSums(Underlyings, Series, P)) = Total(Series, pw)
       /\ Total(Series, ColumnSums(Underlyings, Series, N)) = Total(Series, nw)
  BY <1>7, <1>8, TotalCong
<1>12. \A u \in Underlyings : p[u] \in Nat /\ n[u] \in Nat
  <2> TAKE u \in Underlyings
  <2>1. p[u] = Total(Series, P[u]) /\ n[u] = Total(Series, N[u])
    BY DEF RowSums
  <2>2. \A s \in Series : P[u][s] \in Nat /\ N[u][s] \in Nat
    BY <1>3
  <2> QED BY <2>1, <2>2, IndexesFinite, TotalType
<1> HIDE DEF p, n
<1>13. SignedTotal(Underlyings, f) = Total(Underlyings, p) - Total(Underlyings, n)
  BY <1>4, <1>12, IndexesFinite, SignedDifference
<1> QED
  BY <1>9, <1>10, <1>11, <1>13 DEF f, p, n

-----------------------------------------------------------------------------
(* The values of an account as weights on its balances                     *)

\* What one lot of a series is worth in a scenario, and at a final price.
LiveUnit(s, u, sh) == Info[s].size * LivePrice(s, Shock(spot[u], sh))
FinalUnit(s) == Info[s].size * Intrinsic(s, groups[Info[s].group].price)

LiveWeight(u, sh) ==
  [s \in Series |->
     IF Info[s].underlying = u /\ ~Finalized(s) THEN LiveUnit(s, u, sh) ELSE 0]

FinalWeight(u) ==
  [s \in Series |->
     IF Info[s].underlying = u /\ Finalized(s) THEN FinalUnit(s) ELSE 0]

\* What a lot counts in equity.
EquityWeight ==
  [s \in Series |-> IF Finalized(s) THEN FinalUnit(s)
                                    ELSE LiveUnit(s, Info[s].underlying, 0)]

LEMMA UnitTypes ==
  ASSUME Readable, NEW s \in Series
  PROVE  /\ FinalUnit(s) \in Nat
         /\ \A u \in Underlyings, sh \in {0} \cup MaintenanceSet \cup InitialSet :
              LiveUnit(s, u, sh) \in Nat
<1>1. Info[s].size \in Nat
  BY BookAssumption
<1>2. Intrinsic(s, groups[Info[s].group].price) \in Nat
  BY IntrinsicType DEF Readable, Groups
<1>3. \A u \in Underlyings, sh \in {0} \cup MaintenanceSet \cup InitialSet :
        LivePrice(s, Shock(spot[u], sh)) \in Nat
  BY LivePriceType
<1> QED
  BY <1>1, <1>2, <1>3 DEF FinalUnit, LiveUnit

LEMMA WeightTypes ==
  ASSUME Readable
  PROVE  /\ \A u \in Underlyings, sh \in {0} \cup MaintenanceSet \cup InitialSet :
              LiveWeight(u, sh) \in Weights
         /\ \A u \in Underlyings : FinalWeight(u) \in Weights
         /\ EquityWeight \in Weights
<1>1. \A s \in Series : Info[s].underlying \in Underlyings
  BY DEF Underlyings
<1> QED
  BY <1>1, UnitTypes DEF LiveWeight, FinalWeight, EquityWeight, Weights

LEMMA RowType ==
  ASSUME NEW b \in BalanceTable, NEW a \in Accounts
  PROVE  b[a] \in Rows /\ \A s \in Series : b[a][s] \in Int
BY DEF BalanceTable, Rows

\* A leg's value is its balance times what a lot is worth.
LEMMA LegIsWeighed ==
  ASSUME NEW b \in BalanceTable, NEW a \in Accounts, NEW s \in Series, NEW p \in Int
  PROVE  LegValue(b, a, s, p) = b[a][s] * (Info[s].size * p)
<1>1. b[a][s] \in Int /\ Info[s].size \in Int
  BY RowType, BookAssumption
<1>2. \A x, y, z \in Int : x * y * z = x * (y * z)
  OBVIOUS
<1> QED
  BY <1>1, <1>2 DEF LegValue

LEMMA ScenarioWeighed ==
  ASSUME Readable, NEW b \in BalanceTable, NEW a \in Accounts, NEW u \in Underlyings,
         NEW sh \in {0} \cup MaintenanceSet \cup InitialSet
  PROVE  ScenarioValue(b, a, u, sh) = Weighed(b[a], LiveWeight(u, sh))
<1> DEFINE L == LiveLegs(b, a, u)
           f == [s \in L |-> LegValue(b, a, s, LivePrice(s, Shock(spot[u], sh)))]
           h == [s \in Series |-> b[a][s] * LiveWeight(u, sh)[s]]
<1>1. L \subseteq Series
  BY LegsFinite
<1>2. \A s \in L : h[s] = f[s]
  <2> TAKE s \in L
  <2>1. s \in Series /\ Info[s].underlying = u /\ ~Finalized(s)
    BY DEF LiveLegs, InBucket, Held
  <2>2. LivePrice(s, Shock(spot[u], sh)) \in Int
    BY <2>1, LivePriceType
  <2>3. f[s] = b[a][s] * LiveUnit(s, u, sh)
    BY <2>1, <2>2, LegIsWeighed DEF LiveUnit
  <2> QED BY <2>1, <2>3 DEF LiveWeight
<1>3. \A s \in Series \ L : h[s] = 0
  <2> TAKE s \in Series \ L
  <2>1. b[a][s] = 0 \/ LiveWeight(u, sh)[s] = 0
    BY DEF LiveLegs, InBucket, Held, LiveWeight
  <2>2. b[a][s] \in Int /\ LiveWeight(u, sh)[s] \in Nat
    BY RowType, WeightTypes DEF Weights
  <2> QED BY <2>1, <2>2
<1> HIDE DEF L, f, h
<1>4. SignedTotal(Series, h) = SignedTotal(L, f)
  BY <1>1, <1>2, <1>3, SignedExtend
<1> QED
  BY <1>4 DEF ScenarioValue, Weighed, L, f, h

LEMMA FinalWeighed ==
  ASSUME Readable, NEW b \in BalanceTable, NEW a \in Accounts, NEW u \in Underlyings
  PROVE  FinalValue(b, a, u) = Weighed(b[a], FinalWeight(u))
<1> DEFINE L == FinalLegs(b, a, u)
           f == [s \in L |->
                   LegValue(b, a, s, Intrinsic(s, groups[Info[s].group].price))]
           h == [s \in Series |-> b[a][s] * FinalWeight(u)[s]]
<1>1. L \subseteq Series
  BY LegsFinite
<1>2. \A s \in L : h[s] = f[s]
  <2> TAKE s \in L
  <2>1. s \in Series /\ Info[s].underlying = u /\ Finalized(s)
    BY DEF FinalLegs, InBucket, Held
  <2>2. Intrinsic(s, groups[Info[s].group].price) \in Int
    BY <2>1, IntrinsicType DEF Readable, Groups
  <2>3. f[s] = b[a][s] * FinalUnit(s)
    BY <2>1, <2>2, LegIsWeighed DEF FinalUnit
  <2> QED BY <2>1, <2>3 DEF FinalWeight
<1>3. \A s \in Series \ L : h[s] = 0
  <2> TAKE s \in Series \ L
  <2>1. b[a][s] = 0 \/ FinalWeight(u)[s] = 0
    BY DEF FinalLegs, InBucket, Held, FinalWeight
  <2>2. b[a][s] \in Int /\ FinalWeight(u)[s] \in Nat
    BY RowType, WeightTypes DEF Weights
  <2> QED BY <2>1, <2>2
<1> HIDE DEF L, f, h
<1>4. SignedTotal(Series, h) = SignedTotal(L, f)
  BY <1>1, <1>2, <1>3, SignedExtend
<1> QED
  BY <1>4 DEF FinalValue, Weighed, L, f, h

\* Equity is the cash and the weighed balances of the account.
LEMMA EquityWeighed ==
  ASSUME Readable, NEW c \in [Accounts -> Int], NEW b \in BalanceTable, NEW a \in Accounts
  PROVE  Equity(c, b, a) = c[a] * Denom + Weighed(b[a], EquityWeight)
<1> DEFINE f == [u \in Underlyings |-> BaseValue(b, a, u) + FinalValue(b, a, u)]
           h == [u \in Underlyings |-> Weighed(b[a], Only(u, EquityWeight))]
<1>1. b[a] \in Rows /\ EquityWeight \in Weights
  BY RowType, WeightTypes
<1>2. \A u \in Underlyings : f[u] = h[u]
  <2> TAKE u \in Underlyings
  <2>1. /\ BaseValue(b, a, u) = Weighed(b[a], LiveWeight(u, 0))
        /\ FinalValue(b, a, u) = Weighed(b[a], FinalWeight(u))
    BY ScenarioWeighed, FinalWeighed DEF BaseValue
  <2>2. LiveWeight(u, 0) \in Weights /\ FinalWeight(u) \in Weights
        /\ Only(u, EquityWeight) \in Weights
    BY <1>1, WeightTypes DEF Only, Weights
  <2>3. \A s \in Series :
          Only(u, EquityWeight)[s] = LiveWeight(u, 0)[s] + FinalWeight(u)[s]
    <3>1. \A s \in Series : LiveUnit(s, u, 0) \in Nat /\ FinalUnit(s) \in Nat
      BY UnitTypes
    <3> QED BY <3>1 DEF Only, EquityWeight, LiveWeight, FinalWeight
  <2>4. Weighed(b[a], Only(u, EquityWeight))
          = Weighed(b[a], LiveWeight(u, 0)) + Weighed(b[a], FinalWeight(u))
    BY <1>1, <2>2, <2>3, WeighedWeights
  <2> QED BY <2>1, <2>4
<1>3. SignedTotal(Underlyings, h) = Weighed(b[a], EquityWeight)
  BY <1>1, WeighedByUnderlying
<1>4. Equity(c, b, a) = c[a] * Denom + SignedTotal(Underlyings, f)
  BY DEF Equity
<1> HIDE DEF f, h
<1>5. SignedTotal(Underlyings, f) = SignedTotal(Underlyings, h)
  BY <1>2, IndexesFinite, SignedCong
<1> QED
  BY <1>3, <1>4, <1>5

-----------------------------------------------------------------------------
(* Margins                                                                 *)

\* The worst loss is one of the losses or zero, and no loss is worse.
LEMMA WorstLossFacts ==
  ASSUME Readable, NEW b \in BalanceTable, NEW a \in Accounts, NEW u \in Underlyings,
         NEW set \in SUBSET (MaintenanceSet \cup InitialSet)
  PROVE  /\ WorstLoss(b, a, u, set) \in Nat
         /\ \A sh \in set :
              BaseValue(b, a, u) - ScenarioValue(b, a, u, sh) <= WorstLoss(b, a, u, set)
         /\ \/ WorstLoss(b, a, u, set) = 0
            \/ \E sh \in set : WorstLoss(b, a, u, set)
                                 = BaseValue(b, a, u) - ScenarioValue(b, a, u, sh)
<1> DEFINE loss == [sh \in set |-> BaseValue(b, a, u) - ScenarioValue(b, a, u, sh)]
           L == {loss[sh] : sh \in set}
           S == {0} \cup L
<1>1. \A sh \in set : loss[sh] \in Int
  <2>1. BaseValue(b, a, u) \in Int
    BY ScenarioValueType DEF BaseValue
  <2>2. \A sh \in set : ScenarioValue(b, a, u, sh) \in Int
    BY ScenarioValueType
  <2> QED BY <2>1, <2>2
<1>2. IsFiniteSet(set)
  BY FS_Subset, ProtocolAssumption
<1>3. IsFiniteSet(L)
  <2>1. loss \in Surjection(set, L)
    BY DEF Surjection
  <2> QED BY <2>1, <1>2, FS_Surjection
<1>4. S \in SUBSET Int /\ IsFiniteSet(S) /\ S # {}
  <2>1. IsFiniteSet(L \cup {0})
    BY <1>3, FS_AddElement
  <2>2. S = L \cup {0}
    OBVIOUS
  <2>3. L \subseteq Int
    BY <1>1
  <2> HIDE DEF L, S
  <2> QED BY <2>1, <2>2, <2>3
<1>5. Max(S) \in S /\ \A y \in S : y <= Max(S)
  <2> HIDE DEF S
  <2>1. Max(S) \in S /\ \A y \in S : Max(S) >= y
    BY <1>4, FiniteMax
  <2>2. \A y \in S : y \in Int
    BY <1>4
  <2> QED BY <2>1, <2>2
<1>6. S = {0} \cup {BaseValue(b, a, u) - ScenarioValue(b, a, u, sh) : sh \in set}
  OBVIOUS
<1>7. WorstLoss(b, a, u, set) = Max(S)
  <2> HIDE DEF S
  <2> QED BY <1>6 DEF WorstLoss
<1>8. WorstLoss(b, a, u, set) \in Nat
  BY WorstLossType
<1>9. WorstLoss(b, a, u, set) \in S /\ \A y \in S : y <= WorstLoss(b, a, u, set)
  <2> HIDE DEF S
  <2> QED BY <1>5, <1>7
<1> QED
  BY <1>8, <1>9

\* Where every loss grows by at most k, so does the worst.
LEMMA WorstLossBound ==
  ASSUME Readable, NEW b \in BalanceTable, NEW c \in BalanceTable, NEW a \in Accounts,
         NEW u \in Underlyings, NEW set \in SUBSET (MaintenanceSet \cup InitialSet),
         NEW k \in Nat,
         BaseValue(c, a, u) <= BaseValue(b, a, u) + k,
         \A sh \in set : ScenarioValue(b, a, u, sh) <= ScenarioValue(c, a, u, sh)
  PROVE  WorstLoss(c, a, u, set) <= WorstLoss(b, a, u, set) + k
<1>1. /\ BaseValue(b, a, u) \in Int /\ BaseValue(c, a, u) \in Int
      /\ \A sh \in set : /\ ScenarioValue(b, a, u, sh) \in Int
                         /\ ScenarioValue(c, a, u, sh) \in Int
  BY ScenarioValueType DEF BaseValue
<1>2. WorstLoss(b, a, u, set) \in Nat
      /\ \A sh \in set :
           BaseValue(b, a, u) - ScenarioValue(b, a, u, sh) <= WorstLoss(b, a, u, set)
  BY WorstLossFacts
<1>3. \/ WorstLoss(c, a, u, set) = 0
      \/ \E sh \in set : WorstLoss(c, a, u, set)
                           = BaseValue(c, a, u) - ScenarioValue(c, a, u, sh)
  BY WorstLossFacts
<1>4. ASSUME NEW sh \in set,
             WorstLoss(c, a, u, set) = BaseValue(c, a, u) - ScenarioValue(c, a, u, sh)
      PROVE  WorstLoss(c, a, u, set) <= WorstLoss(b, a, u, set) + k
  <2>1. /\ ScenarioValue(b, a, u, sh) \in Int /\ ScenarioValue(c, a, u, sh) \in Int
        /\ ScenarioValue(b, a, u, sh) <= ScenarioValue(c, a, u, sh)
        /\ BaseValue(b, a, u) - ScenarioValue(b, a, u, sh) <= WorstLoss(b, a, u, set)
    BY <1>1, <1>2
  <2> QED BY <1>1, <1>2, <1>4, <2>1
<1> QED
  BY <1>2, <1>3, <1>4

\* More scenarios, a worse worst loss.
LEMMA WorstLossMore ==
  ASSUME Readable, NEW b \in BalanceTable, NEW a \in Accounts, NEW u \in Underlyings
  PROVE  WorstLoss(b, a, u, MaintenanceSet)
           <= WorstLoss(b, a, u, MaintenanceSet \cup InitialSet)
<1>1. /\ WorstLoss(b, a, u, MaintenanceSet \cup InitialSet) \in Nat
      /\ \A sh \in MaintenanceSet \cup InitialSet :
           BaseValue(b, a, u) - ScenarioValue(b, a, u, sh)
             <= WorstLoss(b, a, u, MaintenanceSet \cup InitialSet)
  BY WorstLossFacts
<1>2. \/ WorstLoss(b, a, u, MaintenanceSet) = 0
      \/ \E sh \in MaintenanceSet :
           WorstLoss(b, a, u, MaintenanceSet)
             = BaseValue(b, a, u) - ScenarioValue(b, a, u, sh)
  BY WorstLossFacts
<1> QED
  BY <1>1, <1>2

\* An unshocked price.
LEMMA NoShock ==
  ASSUME NEW p \in Nat
  PROVE  Shock(p, 0) = p
<1>1. Bps \in Nat \ {0}
  BY ProtocolAssumption
<1>2. \A x \in Nat, d \in Nat \ {0} : (x * (d + 0)) \div d = x
  OBVIOUS
<1> QED
  BY <1>1, <1>2 DEF Shock

\* The short mark is the short side of the weighed balances.
ShortTerms(row, u) == [s \in Series |-> Neg(row[s] * Only(u, EquityWeight)[s])]

LEMMA ShortMarkWeighed ==
  ASSUME Readable, NEW b \in BalanceTable, NEW a \in Accounts, NEW u \in Underlyings
  PROVE  /\ ShortMark(b, a, u) = Total(Series, ShortTerms(b[a], u))
         /\ \A s \in Series : ShortTerms(b[a], u)[s] \in Nat
         /\ ShortMark(b, a, u) \in Nat
<1> DEFINE L == InBucket(b, a, u)
           f == [s \in L |->
                   Neg(LegValue(b, a, s,
                         IF Finalized(s) THEN Intrinsic(s, groups[Info[s].group].price)
                                         ELSE LivePrice(s, spot[u])))]
           h == ShortTerms(b[a], u)
<1>1. L \subseteq Series /\ \A s \in L : Info[s].underlying = u
  BY DEF InBucket, Held
<1>2. Only(u, EquityWeight) \in Weights /\ b[a] \in Rows
  BY WeightTypes, RowType DEF Only, Weights
<1>3. \A s \in Series : h[s] \in Nat
  BY <1>2, WeighedTerms DEF ShortTerms, Neg
<1>4. spot[u] \in Nat
  BY ProtocolAssumption DEF Readable
<1>5. \A s \in L : h[s] = f[s]
  <2> TAKE s \in L
  <2> DEFINE p == IF Finalized(s) THEN Intrinsic(s, groups[Info[s].group].price)
                                  ELSE LivePrice(s, spot[u])
  <2>1. s \in Series /\ Info[s].underlying = u
    BY <1>1
  <2>2. /\ Intrinsic(s, groups[Info[s].group].price) \in Int
        /\ LivePrice(s, Shock(spot[u], 0)) \in Int
        /\ Shock(spot[u], 0) = spot[u]
    BY <1>4, <2>1, NoShock, IntrinsicType, LivePriceType DEF Readable, Groups
  <2>3. p \in Int /\ Only(u, EquityWeight)[s] = Info[s].size * p
    BY <2>1, <2>2 DEF Only, EquityWeight, FinalUnit, LiveUnit
  <2>4. f[s] = Neg(LegValue(b, a, s, p))
    OBVIOUS
  <2> HIDE DEF p, f
  <2>5. LegValue(b, a, s, p) = b[a][s] * (Info[s].size * p)
    BY <2>1, <2>3, LegIsWeighed
  <2> QED BY <2>1, <2>3, <2>4, <2>5 DEF ShortTerms
<1>6. \A s \in Series \ L : h[s] = 0
  <2> TAKE s \in Series \ L
  <2>1. b[a][s] = 0 \/ Only(u, EquityWeight)[s] = 0
    BY DEF InBucket, Held, Only
  <2>2. b[a][s] \in Int /\ Only(u, EquityWeight)[s] \in Nat
    BY <1>2, RowType DEF Weights
  <2>3. b[a][s] * Only(u, EquityWeight)[s] = 0
    BY <2>1, <2>2
  <2> QED BY <2>3 DEF ShortTerms, Neg
<1>7. ShortMark(b, a, u) = Total(L, f)
  BY DEF ShortMark
<1> HIDE DEF L, f, h
<1>8. Total(Series, h) = Total(L, f)
  BY <1>1, <1>5, <1>6, TotalExtend
<1>9. Total(Series, h) \in Nat
  BY <1>3, IndexesFinite, TotalType
<1> QED
  BY <1>3, <1>7, <1>8, <1>9 DEF h

\* More of every series, less to buy back.
LEMMA ShortMarkFalls ==
  ASSUME Readable, NEW b \in BalanceTable, NEW c \in BalanceTable, NEW a \in Accounts,
         NEW u \in Underlyings, \A s \in Series : Neg(c[a][s]) <= Neg(b[a][s])
  PROVE  ShortMark(c, a, u) <= ShortMark(b, a, u)
<1> DEFINE w == Only(u, EquityWeight)
<1>1. /\ ShortMark(b, a, u) = Total(Series, ShortTerms(b[a], u))
      /\ ShortMark(c, a, u) = Total(Series, ShortTerms(c[a], u))
      /\ \A s \in Series : ShortTerms(b[a], u)[s] \in Nat /\ ShortTerms(c[a], u)[s] \in Nat
  BY ShortMarkWeighed
<1>2. w \in Weights
  BY WeightTypes DEF Only, Weights
<1>3. \A x \in Int, k \in Nat : Neg(x * k) = Neg(x) * k
  <2> TAKE x \in Int, k \in Nat
  <2>1. CASE x < 0
    <3>1. x * k <= 0 /\ -(x * k) = (-x) * k /\ x * k \in Int
      BY <2>1
    <3> QED BY <2>1, <3>1 DEF Neg
  <2>2. CASE x >= 0
    <3>1. x * k >= 0 /\ 0 * k = 0 /\ x * k \in Int
      BY <2>2
    <3> QED BY <2>2, <3>1 DEF Neg
  <2> QED BY <2>1, <2>2
<1>4. \A x, y, k \in Nat : x <= y => x * k <= y * k
  OBVIOUS
<1>5. \A s \in Series : ShortTerms(c[a], u)[s] <= ShortTerms(b[a], u)[s]
  <2> TAKE s \in Series
  <2>1. b[a][s] \in Int /\ c[a][s] \in Int /\ w[s] \in Nat
    BY <1>2, RowType DEF Weights
  <2>2. /\ ShortTerms(b[a], u)[s] = Neg(b[a][s] * w[s])
        /\ ShortTerms(c[a], u)[s] = Neg(c[a][s] * w[s])
    BY DEF ShortTerms
  <2> HIDE DEF w
  <2>3. Neg(b[a][s]) \in Nat /\ Neg(c[a][s]) \in Nat
    BY <2>1 DEF Neg
  <2>4. Neg(c[a][s]) * w[s] <= Neg(b[a][s]) * w[s]
    BY <1>4, <2>1, <2>3
  <2> QED BY <1>3, <2>1, <2>2, <2>4
<1> QED
  BY <1>1, <1>5, IndexesFinite, TotalMonotone

-----------------------------------------------------------------------------
(* Health                                                                  *)

\* A bigger dividend, a bigger rounded quotient; and how far rounding goes.
LEMMA DivUpFacts ==
  ASSUME NEW d \in Nat \ {0}
  PROVE  /\ \A x, y \in Nat : x <= y => DivUp(x, d) <= DivUp(y, d)
         /\ \A x \in Nat : /\ DivUp(x, d) \in Nat
                           /\ x <= DivUp(x, d) * d
                           /\ DivUp(x, d) * d <= x + d - 1
<1>1. ASSUME NEW x \in Nat, NEW y \in Nat, x <= y
      PROVE  DivUp(x, d) <= DivUp(y, d)
  <2>1. x + d - 1 \in Nat /\ y + d - 1 \in Nat /\ x + d - 1 <= y + d - 1
    BY <1>1
  <2>2. \A m, n \in Nat : m <= n => m \div d <= n \div d
    OBVIOUS
  <2> QED BY <2>1, <2>2 DEF DivUp
<1>2. ASSUME NEW x \in Nat
      PROVE  /\ DivUp(x, d) \in Nat
             /\ x <= DivUp(x, d) * d
             /\ DivUp(x, d) * d <= x + d - 1
  <2>1. x + d - 1 \in Nat
    OBVIOUS
  <2>2. \A n \in Nat : /\ n \div d \in Nat
                       /\ (n \div d) * d <= n /\ n - d + 1 <= (n \div d) * d
    OBVIOUS
  <2> QED BY <2>1, <2>2 DEF DivUp
<1> QED
  BY <1>1, <1>2

\* A bucket's initial margin.
BucketMargin(b, a, u) ==
  WorstLoss(b, a, u, MaintenanceSet \cup InitialSet)
    + DivUp(ShortMark(b, a, u) * ImBufferBps, Bps)

LEMMA BucketMarginType ==
  ASSUME Readable, NEW b \in BalanceTable, NEW a \in Accounts, NEW u \in Underlyings
  PROVE  /\ BucketMargin(b, a, u) \in Nat
         /\ DivUp(ShortMark(b, a, u) * ImBufferBps, Bps) \in Nat
<1>1. ShortMark(b, a, u) * ImBufferBps \in Nat
  BY ShortMarkWeighed, ProtocolAssumption
<1>2. DivUp(ShortMark(b, a, u) * ImBufferBps, Bps) \in Nat
  BY <1>1, DivUpType, ProtocolAssumption
<1> QED
  BY <1>2, WorstLossFacts DEF BucketMargin

LEMMA InitialMarginType ==
  ASSUME Readable, NEW b \in BalanceTable, NEW a \in Accounts
  PROVE  InitialMargin(b, a) \in Nat
<1> DEFINE f == [u \in Underlyings |-> BucketMargin(b, a, u)]
<1>1. \A u \in Underlyings : f[u] \in Nat
  BY BucketMarginType
<1>2. InitialMargin(b, a) = Total(Underlyings, f)
  BY DEF InitialMargin, BucketMargin
<1> HIDE DEF f
<1> QED
  BY <1>1, <1>2, IndexesFinite, TotalType

\* The initial margin is at least the maintenance margin.
LEMMA MarginOrder ==
  ASSUME Readable, NEW b \in BalanceTable, NEW a \in Accounts
  PROVE  MaintenanceMargin(b, a) <= InitialMargin(b, a)
<1> DEFINE f == [u \in Underlyings |-> WorstLoss(b, a, u, MaintenanceSet)]
           h == [u \in Underlyings |-> BucketMargin(b, a, u)]
<1>1. \A u \in Underlyings : f[u] \in Nat /\ h[u] \in Nat /\ f[u] <= h[u]
  <2> TAKE u \in Underlyings
  <2>1. /\ WorstLoss(b, a, u, MaintenanceSet) \in Nat
        /\ WorstLoss(b, a, u, MaintenanceSet \cup InitialSet) \in Nat
        /\ DivUp(ShortMark(b, a, u) * ImBufferBps, Bps) \in Nat
        /\ BucketMargin(b, a, u) \in Nat
    BY WorstLossFacts, BucketMarginType
  <2>2. WorstLoss(b, a, u, MaintenanceSet)
          <= WorstLoss(b, a, u, MaintenanceSet \cup InitialSet)
    BY WorstLossMore
  <2> QED BY <2>1, <2>2 DEF BucketMargin
<1>2. /\ MaintenanceMargin(b, a) = Total(Underlyings, f)
      /\ InitialMargin(b, a) = Total(Underlyings, h)
  BY DEF MaintenanceMargin, InitialMargin, BucketMargin
<1> HIDE DEF f, h
<1> QED
  BY <1>1, <1>2, IndexesFinite, TotalMonotone

\* Equity less a margin, bucket by bucket.
BucketNet(b, a, m) ==
  [u \in Underlyings |-> (BaseValue(b, a, u) + FinalValue(b, a, u)) - m[u]]

LEMMA HealthByBucket ==
  ASSUME Readable, NEW c \in [Accounts -> Int], NEW b \in BalanceTable, NEW a \in Accounts,
         NEW m, \A u \in Underlyings : m[u] \in Nat
  PROVE  Equity(c, b, a) - Total(Underlyings, m)
           = c[a] * Denom
             + SignedTotal(Underlyings, BucketNet(b, a, m))
<1> DEFINE f == [u \in Underlyings |-> BaseValue(b, a, u) + FinalValue(b, a, u)]
           h == BucketNet(b, a, m)
<1>1. \A u \in Underlyings : f[u] \in Int /\ h[u] \in Int /\ m[u] \in Int /\ f[u] = h[u] + m[u]
  <2> TAKE u \in Underlyings
  <2>1. BaseValue(b, a, u) \in Int /\ FinalValue(b, a, u) \in Int /\ m[u] \in Nat
    BY ScenarioValueType, FinalValueType DEF BaseValue
  <2> QED BY <2>1 DEF BucketNet
<1>2. Equity(c, b, a) = c[a] * Denom + SignedTotal(Underlyings, f)
  BY DEF Equity
<1>3. c[a] * Denom \in Int
  BY ProtocolAssumption
<1> HIDE DEF f, h
<1>4. SignedTotal(Underlyings, f) = SignedTotal(Underlyings, h) + SignedTotal(Underlyings, m)
  BY <1>1, IndexesFinite, SignedSum
<1>5. SignedTotal(Underlyings, m) = Total(Underlyings, m) /\ Total(Underlyings, m) \in Nat
  BY IndexesFinite, SignedNat, TotalType
<1>6. SignedTotal(Underlyings, h) \in Int
  BY <1>1, IndexesFinite, SignedTotalType
<1>7. Equity(c, b, a) - Total(Underlyings, m) = c[a] * Denom + SignedTotal(Underlyings, h)
  BY <1>2, <1>3, <1>4, <1>5, <1>6
<1> QED
  BY <1>7 DEF h

\* Where cash and no balance falls, neither does equity or health: a loss grows
\* by no more than the value it is measured from.
LEMMA HealthMonotone ==
  ASSUME Readable, NEW b \in BalanceTable, NEW b2 \in BalanceTable,
         NEW c \in [Accounts -> Int], NEW c2 \in [Accounts -> Int], NEW a \in Accounts,
         c[a] <= c2[a], \A s \in Series : b[a][s] <= b2[a][s]
  PROVE  /\ Equity(c, b, a) <= Equity(c2, b2, a)
         /\ InitialHealth(c, b, a) <= InitialHealth(c2, b2, a)
         /\ Health(c, b, a) <= Health(c2, b2, a)
<1> DEFINE value(x, u) == BaseValue(x, a, u) + FinalValue(x, a, u)
           im(x) == [u \in Underlyings |-> BucketMargin(x, a, u)]
           mm(x) == [u \in Underlyings |-> WorstLoss(x, a, u, MaintenanceSet)]
           zero == [u \in Underlyings |-> 0]
           net(x, k) == BucketNet(x, a, k)
<1>1. b[a] \in Rows /\ b2[a] \in Rows
  BY RowType
<1>2. c[a] * Denom <= c2[a] * Denom /\ c[a] * Denom \in Int /\ c2[a] * Denom \in Int
  <2>1. \A x, y \in Int, k \in Nat : x <= y => x * k <= y * k
    OBVIOUS
  <2>2. c[a] \in Int /\ c2[a] \in Int /\ Denom \in Nat
    BY ProtocolAssumption
  <2> QED BY <2>1, <2>2
<1>3. \A u \in Underlyings :
        /\ \A sh \in {0} \cup MaintenanceSet \cup InitialSet :
             /\ ScenarioValue(b, a, u, sh) \in Int /\ ScenarioValue(b2, a, u, sh) \in Int
             /\ ScenarioValue(b, a, u, sh) <= ScenarioValue(b2, a, u, sh)
        /\ FinalValue(b, a, u) \in Int /\ FinalValue(b2, a, u) \in Int
        /\ FinalValue(b, a, u) <= FinalValue(b2, a, u)
  <2> TAKE u \in Underlyings
  <2>1. ASSUME NEW sh \in {0} \cup MaintenanceSet \cup InitialSet
        PROVE  /\ ScenarioValue(b, a, u, sh) \in Int /\ ScenarioValue(b2, a, u, sh) \in Int
               /\ ScenarioValue(b, a, u, sh) <= ScenarioValue(b2, a, u, sh)
    <3>1. LiveWeight(u, sh) \in Weights
      BY WeightTypes
    <3>2. Weighed(b[a], LiveWeight(u, sh)) <= Weighed(b2[a], LiveWeight(u, sh))
      BY <1>1, <3>1, WeighedMonotone
    <3> QED BY <3>2, ScenarioWeighed, ScenarioValueType
  <2>2. FinalWeight(u) \in Weights
    BY WeightTypes
  <2>3. Weighed(b[a], FinalWeight(u)) <= Weighed(b2[a], FinalWeight(u))
    BY <1>1, <2>2, WeighedMonotone
  <2> QED BY <2>1, <2>3, FinalWeighed, FinalValueType
<1>4. \A u \in Underlyings, set \in SUBSET (MaintenanceSet \cup InitialSet) :
        /\ WorstLoss(b, a, u, set) \in Nat /\ WorstLoss(b2, a, u, set) \in Nat
        /\ WorstLoss(b2, a, u, set)
             <= WorstLoss(b, a, u, set) + (BaseValue(b2, a, u) - BaseValue(b, a, u))
  <2> TAKE u \in Underlyings, set \in SUBSET (MaintenanceSet \cup InitialSet)
  <2> DEFINE k == BaseValue(b2, a, u) - BaseValue(b, a, u)
  <2>1. /\ BaseValue(b, a, u) \in Int /\ BaseValue(b2, a, u) \in Int
        /\ BaseValue(b, a, u) <= BaseValue(b2, a, u)
    BY <1>3 DEF BaseValue
  <2>2. k \in Nat /\ BaseValue(b2, a, u) <= BaseValue(b, a, u) + k
    BY <2>1
  <2>3. \A sh \in set : ScenarioValue(b, a, u, sh) <= ScenarioValue(b2, a, u, sh)
    BY <1>3
  <2>4. WorstLoss(b, a, u, set) \in Nat /\ WorstLoss(b2, a, u, set) \in Nat
    BY WorstLossFacts
  <2> HIDE DEF k
  <2>5. WorstLoss(b2, a, u, set) <= WorstLoss(b, a, u, set) + k
    BY <2>2, <2>3, WorstLossBound
  <2> QED BY <2>4, <2>5 DEF k
<1>5. \A u \in Underlyings :
        /\ im(b)[u] \in Nat /\ im(b2)[u] \in Nat /\ mm(b)[u] \in Nat /\ mm(b2)[u] \in Nat
        /\ value(b, u) \in Int /\ value(b2, u) \in Int /\ value(b, u) <= value(b2, u)
        /\ value(b, u) - im(b)[u] <= value(b2, u) - im(b2)[u]
        /\ value(b, u) - mm(b)[u] <= value(b2, u) - mm(b2)[u]
  <2> TAKE u \in Underlyings
  <2> DEFINE wl(x) == WorstLoss(x, a, u, MaintenanceSet \cup InitialSet)
             buf(x) == DivUp(ShortMark(x, a, u) * ImBufferBps, Bps)
             base(x) == BaseValue(x, a, u)
             final(x) == FinalValue(x, a, u)
  <2>1. /\ base(b) \in Int /\ base(b2) \in Int /\ final(b) \in Int /\ final(b2) \in Int
        /\ base(b) <= base(b2) /\ final(b) <= final(b2)
    BY <1>3 DEF BaseValue
  <2>2. /\ wl(b) \in Nat /\ wl(b2) \in Nat /\ wl(b2) <= wl(b) + (base(b2) - base(b))
        /\ mm(b)[u] \in Nat /\ mm(b2)[u] \in Nat
        /\ mm(b2)[u] <= mm(b)[u] + (base(b2) - base(b))
    BY <1>4
  <2>3. buf(b) \in Nat /\ buf(b2) \in Nat /\ buf(b2) <= buf(b)
    <3>1. \A s \in Series : Neg(b2[a][s]) <= Neg(b[a][s])
      BY RowType DEF Neg
    <3>2. /\ ShortMark(b, a, u) \in Nat /\ ShortMark(b2, a, u) \in Nat
          /\ ShortMark(b2, a, u) <= ShortMark(b, a, u)
      BY <3>1, ShortMarkWeighed, ShortMarkFalls
    <3>3. \A x, y, k \in Nat : x <= y => x * k <= y * k /\ x * k \in Nat /\ y * k \in Nat
      OBVIOUS
    <3>4. ImBufferBps \in Nat /\ Bps \in Nat \ {0}
      BY ProtocolAssumption
    <3> QED BY <3>2, <3>3, <3>4, DivUpFacts
  <2>4. im(b)[u] = wl(b) + buf(b) /\ im(b2)[u] = wl(b2) + buf(b2)
    BY DEF BucketMargin
  <2>5. value(b, u) = base(b) + final(b) /\ value(b2, u) = base(b2) + final(b2)
    OBVIOUS
  <2> HIDE DEF wl, buf, base, final, im, mm, value
  <2> QED BY <2>1, <2>2, <2>3, <2>4, <2>5
<1>6. ASSUME NEW m, NEW m2,
             \A u \in Underlyings : m[u] \in Nat /\ m2[u] \in Nat,
             \A u \in Underlyings : value(b, u) - m[u] <= value(b2, u) - m2[u]
      PROVE  Equity(c, b, a) - Total(Underlyings, m)
               <= Equity(c2, b2, a) - Total(Underlyings, m2)
  <2>1. \A u \in Underlyings : /\ net(b, m)[u] \in Int /\ net(b2, m2)[u] \in Int
                               /\ net(b, m)[u] <= net(b2, m2)[u]
    <3>1. \A u \in Underlyings : value(b, u) \in Int /\ value(b2, u) \in Int
      BY <1>5
    <3>2. \A u \in Underlyings : /\ net(b, m)[u] = value(b, u) - m[u]
                                 /\ net(b2, m2)[u] = value(b2, u) - m2[u]
      BY DEF BucketNet
    <3> HIDE DEF net, value
    <3> QED BY <1>6, <3>1, <3>2
  <2>2. /\ Equity(c, b, a) - Total(Underlyings, m)
             = c[a] * Denom + SignedTotal(Underlyings, net(b, m))
        /\ Equity(c2, b2, a) - Total(Underlyings, m2)
             = c2[a] * Denom + SignedTotal(Underlyings, net(b2, m2))
    BY <1>6, HealthByBucket
  <2> HIDE DEF net
  <2>3. SignedTotal(Underlyings, net(b, m)) <= SignedTotal(Underlyings, net(b2, m2))
    BY <2>1, IndexesFinite, SignedMonotone
  <2>4. /\ SignedTotal(Underlyings, net(b, m)) \in Int
        /\ SignedTotal(Underlyings, net(b2, m2)) \in Int
    BY <2>1, IndexesFinite, SignedTotalType
  <2> QED BY <1>2, <2>2, <2>3, <2>4
<1>7. Equity(c, b, a) <= Equity(c2, b2, a)
  <2>1. \A u \in Underlyings : zero[u] \in Nat /\ value(b, u) - zero[u] <= value(b2, u) - zero[u]
    BY <1>5
  <2>2. Total(Underlyings, zero) = 0
    BY TotalZero
  <2>3. Equity(c, b, a) \in Int /\ Equity(c2, b2, a) \in Int
    BY EquityType
  <2> HIDE DEF zero, value
  <2>4. Equity(c, b, a) - Total(Underlyings, zero) <= Equity(c2, b2, a) - Total(Underlyings, zero)
    BY <1>6, <2>1
  <2> QED BY <2>2, <2>3, <2>4
<1>8. /\ InitialMargin(b, a) = Total(Underlyings, im(b))
      /\ InitialMargin(b2, a) = Total(Underlyings, im(b2))
      /\ MaintenanceMargin(b, a) = Total(Underlyings, mm(b))
      /\ MaintenanceMargin(b2, a) = Total(Underlyings, mm(b2))
  BY DEF InitialMargin, BucketMargin, MaintenanceMargin
<1> HIDE DEF im, mm, value, net
<1>9. /\ Equity(c, b, a) - Total(Underlyings, im(b)) <= Equity(c2, b2, a) - Total(Underlyings, im(b2))
      /\ Equity(c, b, a) - Total(Underlyings, mm(b)) <= Equity(c2, b2, a) - Total(Underlyings, mm(b2))
  BY <1>5, <1>6
<1> QED
  BY <1>7, <1>8, <1>9 DEF InitialHealth, Health

\* Unwrapping a long and closing a short need no health check: where balances
\* only grow and no cash moves, neither equity - IM nor equity - MM falls
\* (OptionClearing.unwrapLong, closeShortWithWrapper, closeShortWithInternalLong).
THEOREM UncheckedHurtsNobody == Spec => UncheckedNeverHurts
<1>1. TypeOK /\ TypeOK' /\ [Next]_vars =>
        [\A a \in Accounts :
           /\ balances'[a] # balances[a]
           /\ \A s \in Series : balances'[a][s] >= balances[a][s]
           /\ UNCHANGED <<cash, groups>>
           => /\ InitialHealth(cash', balances', a) >= InitialHealth(cash, balances, a)
              /\ Health(cash', balances', a) >= Health(cash, balances, a)]_vars
  <2> SUFFICES ASSUME TypeOK, TypeOK', NEW a \in Accounts,
                      \A s \in Series : balances'[a][s] >= balances[a][s],
                      UNCHANGED cash
               PROVE  /\ InitialHealth(cash', balances', a) >= InitialHealth(cash, balances, a)
                      /\ Health(cash', balances', a) >= Health(cash, balances, a)
    OBVIOUS
  <2>1. /\ Readable /\ balances \in BalanceTable /\ balances' \in BalanceTable
        /\ cash \in [Accounts -> Int] /\ cash' \in [Accounts -> Int] /\ cash[a] <= cash'[a]
    BY ReadableType DEF TypeOK, BalanceTable
  <2>2. \A s \in Series : balances[a][s] <= balances'[a][s]
    BY <2>1, RowType
  <2>3. /\ InitialHealth(cash, balances, a) <= InitialHealth(cash', balances', a)
        /\ Health(cash, balances, a) <= Health(cash', balances', a)
    BY <2>1, <2>2, HealthMonotone
  <2>4. /\ InitialHealth(cash, balances, a) \in Int /\ Health(cash, balances, a) \in Int
        /\ InitialHealth(cash', balances', a) \in Int /\ Health(cash', balances', a) \in Int
    BY <2>1, EquityType, InitialMarginType, MaintenanceMarginType DEF InitialHealth, Health
  <2> QED BY <2>3, <2>4
<1> QED
  BY <1>1, TypeCorrect, PTL DEF Spec, UncheckedNeverHurts

-----------------------------------------------------------------------------
(* Who moves                                                               *)

MovesOne == \E a \in Accounts : \A x \in Accounts \ {a} : balances'[x] = balances[x]

MovesTwo ==
  \/ \E from, to \in Accounts, s \in Series, qty \in 1..MaxQty :
       CloseShortWithInternalLong(from, to, s, qty)
  \/ \E a, l \in Accounts, u \in Underlyings, bps \in SliceSizes :
       LiquidateSlice(a, u, l, bps)

\* Only a close against another's long and a slice move two accounts' balances.
LEMMA BalanceMoves ==
  ASSUME TypeOK, [Next]_vars
  PROVE  UNCHANGED balances \/ MovesOne \/ MovesTwo
<1>1. balances \in [Accounts -> [Series -> Int]]
  BY DEF TypeOK
<1>2. ASSUME NEW a \in Accounts, NEW s \in Series, NEW d, balances' = Moved(balances, a, s, d)
      PROVE  MovesOne
  BY <1>1, <1>2 DEF Moved, MovesOne
<1>3. ASSUME NEW a \in Accounts, NEW amount \in Amounts,
             DepositCollateral(a, amount) \/ WithdrawCollateral(a, amount)
      PROVE  UNCHANGED balances
  BY <1>3 DEF DepositCollateral, WithdrawCollateral
<1>4. ASSUME NEW a \in Accounts, NEW s \in Series, NEW qty \in 1..MaxQty,
             \/ MintExternalLong(a, s, qty) \/ WrapLong(a, s, qty)
             \/ UnwrapLong(a, s, qty) \/ CloseShortWithWrapper(a, s, qty)
      PROVE  MovesOne
  <2>1. \E d : balances' = Moved(balances, a, s, d)
    BY <1>4 DEF MintExternalLong, WrapLong, UnwrapLong, CloseShortWithWrapper
  <2> QED BY <1>2, <2>1
<1>5. ASSUME NEW a \in Accounts, NEW u \in Underlyings, StartAuction(a, u) \/ EndAuction(a, u)
      PROVE  UNCHANGED balances
  BY <1>5 DEF StartAuction, EndAuction
<1>6. ASSUME NEW a \in Accounts, NEW l \in Accounts, NEW s \in Series,
             NEW qty \in 1..supply[s], LiquidateWithWrapper(a, s, qty, l)
      PROVE  MovesOne
  <2>1. balances' = Moved(balances, a, s, qty)
    BY <1>6 DEF LiquidateWithWrapper, Liquidate
  <2> QED BY <1>2, <2>1
<1>7. ASSUME NEW g \in Groups, NEW a \in Accounts, SettleAccountGroup(a, g)
      PROVE  MovesOne
  BY <1>1, <1>7 DEF SettleAccountGroup, MovesOne
<1>8. ASSUME SettlementStep, ~(\E g \in Groups, a \in Accounts : SettleAccountGroup(a, g))
      PROVE  UNCHANGED balances
  BY <1>8 DEF SettlementStep, FinalizeGroup, FlagOracleStalled, ClaimSettlement,
     ComputeRecoveryRatio, RedeemWrapper, SweepDust
<1>9. CASE ClearingStep
  <2> QED BY <1>9, <1>3, <1>4 DEF ClearingStep, MovesTwo
<1>10. CASE LiquidationStep
  <2> QED BY <1>10, <1>5, <1>6 DEF LiquidationStep, MovesTwo
<1>11. CASE SettlementStep
  <2> QED BY <1>11, <1>7, <1>8
<1>12. CASE SurroundingsStep
  BY <1>12, SurroundingsUnchanged
<1>13. CASE UNCHANGED vars
  BY <1>13 DEF vars
<1> QED
  BY <1>9, <1>10, <1>11, <1>12, <1>13 DEF Next

LEMMA Regroup ==
  ASSUME NEW x \in Int, NEW y \in Int, NEW z \in Int, NEW v \in Int, NEW w \in Int,
         NEW x2 \in Int, NEW y2 \in Int, NEW z2 \in Int, NEW v2 \in Int, NEW w2 \in Int,
         x + y + z = x2 + y2 + z2, v + w = v2 + w2
  PROVE  (x + v) + (y + w) + z = (x2 + v2) + (y2 + w2) + z2
OBVIOUS

\* What leaves one account arrives at the other or in insurance.
LEMMA Transfer ==
  ASSUME Readable, NEW b \in BalanceTable, NEW b2 \in BalanceTable,
         NEW c \in [Accounts -> Int], NEW c2 \in [Accounts -> Int],
         NEW i \in Int, NEW i2 \in Int, NEW a \in Accounts, NEW l \in Accounts,
         c2[a] + c2[l] + i2 = c[a] + c[l] + i,
         \A s \in Series : b2[a][s] + b2[l][s] = b[a][s] + b[l][s]
  PROVE  Equity(c2, b2, a) + Equity(c2, b2, l) + i2 * Denom
           = Equity(c, b, a) + Equity(c, b, l) + i * Denom
<1> DEFINE both == [s \in Series |-> b[a][s] + b[l][s]]
           W(q) == Weighed(q, EquityWeight)
<1>1. /\ b[a] \in Rows /\ b[l] \in Rows /\ b2[a] \in Rows /\ b2[l] \in Rows
      /\ EquityWeight \in Weights
  BY RowType, WeightTypes
<1>2. both \in Rows
  BY RowType DEF Rows
<1>3. /\ \A s \in Series : both[s] = b[a][s] + b[l][s]
      /\ \A s \in Series : both[s] = b2[a][s] + b2[l][s]
  OBVIOUS
<1> HIDE DEF both
<1>4. W(both) = W(b[a]) + W(b[l]) /\ W(both) = W(b2[a]) + W(b2[l])
  BY <1>1, <1>2, <1>3, WeighedSum
<1>5. W(b[a]) \in Int /\ W(b[l]) \in Int /\ W(b2[a]) \in Int /\ W(b2[l]) \in Int
  BY <1>1, WeighedType
<1>6. /\ Equity(c, b, a) = c[a] * Denom + W(b[a])
      /\ Equity(c, b, l) = c[l] * Denom + W(b[l])
      /\ Equity(c2, b2, a) = c2[a] * Denom + W(b2[a])
      /\ Equity(c2, b2, l) = c2[l] * Denom + W(b2[l])
  BY EquityWeighed
<1> HIDE DEF W
<1>7. \A x, y, z, k \in Int : x * k \in Int /\ (x + y + z) * k = x * k + y * k + z * k
  OBVIOUS
<1>8. c[a] \in Int /\ c[l] \in Int /\ c2[a] \in Int /\ c2[l] \in Int /\ Denom \in Int
  BY ProtocolAssumption
<1>9. c2[a] * Denom + c2[l] * Denom + i2 * Denom = c[a] * Denom + c[l] * Denom + i * Denom
  BY <1>7, <1>8
<1>10. /\ c[a] * Denom \in Int /\ c[l] * Denom \in Int /\ i * Denom \in Int
       /\ c2[a] * Denom \in Int /\ c2[l] * Denom \in Int /\ i2 * Denom \in Int
  BY <1>7, <1>8
<1>11. W(b2[a]) + W(b2[l]) = W(b[a]) + W(b[l])
  BY <1>4
<1> QED
  BY <1>5, <1>6, <1>9, <1>10, <1>11, Regroup

\* In a liquidation cash moves between the account, the liquidator and insurance.
LEMMA LiquidationCash ==
  ASSUME TypeOK, AuctionsPast, NEW a \in Accounts, NEW l \in Accounts,
         NEW u \in Underlyings, NEW b \in BalanceTable,
         Liquidate(a, l, b, FlowsTo(a, b, Bonus(auctions[a][u])))
  PROVE  LET f == FlowsTo(a, b, Bonus(auctions[a][u])) IN
         /\ f.fromAccount \in Nat /\ f.topUp \in Nat
         /\ f.fromLiquidator \in Nat /\ f.penalty \in Nat
         /\ a # l
         /\ cash'[a] = cash[a] - f.fromAccount + f.fromLiquidator - f.penalty
         /\ cash'[l] = cash[l] + f.fromAccount - f.fromLiquidator + f.topUp
         /\ \A x \in Accounts \ {a, l} : cash'[x] = cash[x]
         /\ insurance' = insurance - f.topUp + f.penalty
         /\ custody' = custody + f.topUp - f.penalty
<1> DEFINE f == FlowsTo(a, b, Bonus(auctions[a][u]))
<1>1. /\ f.fromAccount \in Nat /\ f.topUp \in Nat
      /\ f.fromLiquidator \in Nat /\ f.penalty \in Nat
  BY FlowsToType DEF Liquidate
<1>2. /\ a # l
      /\ cash' = CashAfter(a, l, f)
      /\ insurance' = insurance - f.topUp + f.penalty
      /\ custody' = custody + f.topUp - f.penalty
  BY DEF Liquidate
<1> HIDE DEF f
<1>3. cash \in [Accounts -> Nat]
  BY DEF TypeOK
<1>4. /\ cash'[a] = cash[a] - f.fromAccount + f.fromLiquidator - f.penalty
      /\ cash'[l] = cash[l] + f.fromAccount - f.fromLiquidator + f.topUp
      /\ \A x \in Accounts \ {a, l} : cash'[x] = cash[x]
  BY <1>2, <1>3 DEF CashAfter
<1> QED
  BY <1>1, <1>2, <1>4 DEF f

\* Moving positions between two accounts, in a slice or a close, is zero-sum
\* between them and insurance: no third account pays, and netting the moved legs
\* against the receiver's creates no value (INV-24).
THEOREM TransfersAreZeroSum == Spec => TransfersZeroSum
<1>1. IType /\ TypeOK' /\ [Next]_vars =>
        [\A a, l \in Accounts :
           a # l /\ balances'[a] # balances[a] /\ balances'[l] # balances[l] =>
             Equity(cash', balances', a) + Equity(cash', balances', l)
                 + insurance' * Denom
               = Equity(cash, balances, a) + Equity(cash, balances, l)
                   + insurance * Denom]_vars
  <2> SUFFICES ASSUME TypeOK, AuctionsPast, TypeOK', [Next]_vars,
                      NEW a \in Accounts, NEW l \in Accounts,
                      a # l, balances'[a] # balances[a], balances'[l] # balances[l]
               PROVE  Equity(cash', balances', a) + Equity(cash', balances', l)
                          + insurance' * Denom
                        = Equity(cash, balances, a) + Equity(cash, balances, l)
                            + insurance * Denom
    BY DEF IType
  <2>1. /\ Readable /\ balances \in BalanceTable /\ balances' \in BalanceTable
        /\ cash \in [Accounts -> Int] /\ cash' \in [Accounts -> Int]
        /\ insurance \in Int /\ insurance' \in Int
    BY ReadableType DEF TypeOK, BalanceTable
  <2>2. ASSUME cash'[a] + cash'[l] + insurance' = cash[a] + cash[l] + insurance,
               \A s \in Series :
                 balances'[a][s] + balances'[l][s] = balances[a][s] + balances[l][s]
        PROVE  Equity(cash', balances', a) + Equity(cash', balances', l)
                   + insurance' * Denom
                 = Equity(cash, balances, a) + Equity(cash, balances, l)
                     + insurance * Denom
    BY <2>1, <2>2, Transfer
  <2>3. /\ cash[a] \in Int /\ cash[l] \in Int /\ insurance \in Int
        /\ \A x \in Accounts, s \in Series : balances[x][s] \in Int
    BY <2>1, RowType
  <2>4. ASSUME NEW from \in Accounts, NEW to \in Accounts, NEW s \in Series,
               NEW qty \in 1..MaxQty, CloseShortWithInternalLong(from, to, s, qty)
        PROVE  /\ cash'[a] + cash'[l] + insurance' = cash[a] + cash[l] + insurance
               /\ \A t \in Series :
                    balances'[a][t] + balances'[l][t] = balances[a][t] + balances[l][t]
    <3>1. /\ balances' = Moved(Moved(balances, from, s, -qty), to, s, qty)
          /\ balances[from][s] >= qty /\ balances[to][s] <= -qty
          /\ UNCHANGED <<cash, insurance>>
      BY <2>4 DEF CloseShortWithInternalLong
    <3>2. qty \in Nat \ {0}
      BY ClearingAssumption
    <3>3. from # to
      BY <2>3, <3>1, <3>2
    <3>4. balances \in [Accounts -> [Series -> Int]]
      BY DEF TypeOK
    <3>9. \A x \in Accounts \ {from, to} : balances'[x] = balances[x]
      BY <3>1, <3>4 DEF Moved
    <3>10. \A t \in Series : balances'[from][t] + balances'[to][t]
                              = balances[from][t] + balances[to][t]
      BY <3>1, <3>2, <3>3, <3>4 DEF Moved
    <3>5. /\ \A x \in Accounts \ {from, to} : balances'[x] = balances[x]
          /\ \A t \in Series : balances'[from][t] + balances'[to][t]
                                 = balances[from][t] + balances[to][t]
          /\ \A t \in Series : balances'[from][t] \in Int /\ balances'[to][t] \in Int
      BY <2>1, <3>9, <3>10, RowType
    <3>6. (a = from /\ l = to) \/ (a = to /\ l = from)
      BY <3>5
    <3>7. CASE a = from /\ l = to
      BY <3>1, <3>5, <3>7
    <3>8. CASE a = to /\ l = from
      <4>1. \A x, y \in Int : x + y = y + x
        OBVIOUS
      <4> QED BY <2>3, <3>1, <3>5, <3>8, <4>1
    <3> QED BY <3>6, <3>7, <3>8
  <2>5. ASSUME NEW x \in Accounts, NEW y \in Accounts, NEW u \in Underlyings,
               NEW bps \in SliceSizes, LiquidateSlice(x, u, y, bps)
        PROVE  /\ cash'[a] + cash'[l] + insurance' = cash[a] + cash[l] + insurance
               /\ \A t \in Series :
                    balances'[a][t] + balances'[l][t] = balances[a][t] + balances[l][t]
    <3> DEFINE b == Sliced(x, u, y, bps)
               f == FlowsTo(x, b, Bonus(auctions[x][u]))
    <3>1. bps \in Nat /\ b \in BalanceTable
      BY SlicedType, LiquidationAssumption
    <3>2. Liquidate(x, y, b, f) /\ balances' = b
      BY <2>5 DEF LiquidateSlice, Liquidate
    <3>3. /\ f.fromAccount \in Nat /\ f.topUp \in Nat
          /\ f.fromLiquidator \in Nat /\ f.penalty \in Nat
          /\ x # y
          /\ cash'[x] = cash[x] - f.fromAccount + f.fromLiquidator - f.penalty
          /\ cash'[y] = cash[y] + f.fromAccount - f.fromLiquidator + f.topUp
          /\ insurance' = insurance - f.topUp + f.penalty
      <4> HIDE DEF b
      <4> QED BY <3>1, <3>2, LiquidationCash
    <3>4. /\ \A z \in Accounts \ {x, y} : balances'[z] = balances[z]
          /\ \A t \in Series : balances'[x][t] + balances'[y][t]
                                 = balances[x][t] + balances[y][t]
      BY <3>1, <3>2, <3>3, SlicedMoves
    <3> HIDE DEF b, f
    <3>5. cash'[x] + cash'[y] + insurance' = cash[x] + cash[y] + insurance
      <4>1. cash[x] \in Int /\ cash[y] \in Int
        BY <2>1
      <4> QED BY <2>3, <3>3, <4>1
    <3>6. (a = x /\ l = y) \/ (a = y /\ l = x)
      BY <3>4
    <3>7. CASE a = x /\ l = y
      BY <3>4, <3>5, <3>7
    <3>8. CASE a = y /\ l = x
      <4>1. \A i, j \in Int : i + j = j + i
        OBVIOUS
      <4>2. \A z \in Accounts : /\ cash[z] \in Int /\ cash'[z] \in Int
                                /\ \A t \in Series : balances[z][t] \in Int /\ balances'[z][t] \in Int
        BY <2>1, RowType
      <4>3. cash'[x] + cash'[y] = cash'[y] + cash'[x] /\ cash[x] + cash[y] = cash[y] + cash[x]
        BY <4>1, <4>2
      <4>4. \A t \in Series :
              /\ balances'[x][t] + balances'[y][t] = balances'[y][t] + balances'[x][t]
              /\ balances[x][t] + balances[y][t] = balances[y][t] + balances[x][t]
        BY <4>1, <4>2
      <4> QED BY <3>4, <3>5, <3>8, <4>3, <4>4
    <3> QED BY <3>6, <3>7, <3>8
  <2>6. CASE UNCHANGED balances
    BY <2>6
  <2>7. ASSUME NEW z \in Accounts, \A x \in Accounts \ {z} : balances'[x] = balances[x]
        PROVE  FALSE
    BY <2>7
  <2> QED BY <2>2, <2>4, <2>5, <2>6, <2>7, BalanceMoves DEF MovesOne, MovesTwo
<1>2. IType => TypeOK
  BY DEF IType
<1> QED
  BY <1>1, <1>2, ITypeCorrect, PTL DEF Spec, TransfersZeroSum

-----------------------------------------------------------------------------
(* What a liquidation leaves the account                                   *)

LEMMA BonusBound ==
  ASSUME now \in Nat, NEW start \in Nat, start <= now
  PROVE  Bonus(start) \in Nat /\ Bonus(start) <= MaxBonusBps
<1> DEFINE m == MaxBonusBps - StartBonusBps
           t == now - start
<1>1. /\ m \in Nat /\ t \in Nat /\ AuctionDuration \in Nat \ {0}
      /\ StartBonusBps \in Nat /\ MaxBonusBps \in Nat /\ StartBonusBps + m = MaxBonusBps
  BY LiquidationAssumption
<1>2. CASE start = 0 \/ WholeBucket(start)
  BY <1>1, <1>2, BonusType DEF Bonus
<1>3. CASE start # 0 /\ ~WholeBucket(start)
  <2>1. t < AuctionDuration
    BY <1>1, <1>3 DEF WholeBucket
  <2>2. Bonus(start) = StartBonusBps + (m * t) \div AuctionDuration
    BY <1>3 DEF Bonus
  <2> HIDE DEF m, t
  <2>3. \A x, y \in Nat, d \in Nat \ {0} : y < d => (x * y) \div d <= x /\ (x * y) \div d \in Nat
    <3> TAKE x, y \in Nat, d \in Nat \ {0}
    <3> HAVE y < d
    <3>1. x * y <= x * d /\ x * y \in Nat /\ x * d \in Nat
      OBVIOUS
    <3>2. (x * y) \div d <= (x * d) \div d /\ (x * y) \div d \in Nat
      BY <3>1
    <3>3. (x * d) \div d = x
      OBVIOUS
    <3> QED BY <3>2, <3>3
  <2>4. (m * t) \div AuctionDuration <= m /\ (m * t) \div AuctionDuration \in Nat
    BY <1>1, <2>1, <2>3
  <2> QED BY <1>1, <2>2, <2>4, BonusType
<1> QED
  BY <1>2, <1>3

\* What a liquidation pays for D of margin costs the account no more than the
\* bonus and the penalty on D, up to one native unit of rounding each.
LEMMA FlowsBound ==
  ASSUME NEW mark \in Int, NEW D \in Nat, NEW bonus \in Nat, NEW available \in Nat,
         insurance \in Nat, bonus <= MaxBonusBps
  PROVE  LET f == Flows(mark, D, bonus, available)
         IN Bps * (D - mark + (f.fromLiquidator - f.fromAccount - f.penalty) * Denom
                     + 2 * Denom)
              >= D * (Bps - MaxBonusBps - LiquidationPenaltyBps)
<1> DEFINE f == Flows(mark, D, bonus, available)
           discount == DivUp(D * bonus, Bps)
           pen0     == DivUp(D * LiquidationPenaltyBps, Bps)
<1>1. /\ Bps \in Nat \ {0} /\ Denom \in Nat \ {0}
      /\ LiquidationPenaltyBps \in Nat /\ MaxBonusBps \in Nat
  BY ProtocolAssumption, LiquidationAssumption
<1>2. /\ D * bonus \in Nat /\ D * LiquidationPenaltyBps \in Nat
      /\ D * bonus <= D * MaxBonusBps /\ D * MaxBonusBps \in Nat
  BY <1>1
<1>3. /\ discount \in Nat /\ pen0 \in Nat
      /\ discount * Bps <= D * bonus + Bps - 1
      /\ pen0 * Bps <= D * LiquidationPenaltyBps + Bps - 1
  BY <1>1, <1>2, DivUpFacts
<1>4. /\ f.fromAccount \in Nat /\ f.fromLiquidator \in Nat /\ f.penalty \in Nat
  BY FlowsType
<1>5. f.penalty <= DivUp(pen0, Denom)
  <2>1. f.penalty = AtMost(DivUp(pen0, Denom), available - f.fromAccount + f.fromLiquidator)
    BY DEF Flows
  <2>2. DivUp(pen0, Denom) \in Nat
    BY <1>1, <1>3, DivUpFacts
  <2> HIDE DEF f, pen0
  <2> QED BY <1>4, <2>1, <2>2 DEF AtMost
<1>6. ASSUME mark < 0
      PROVE  f.fromLiquidator * Denom - f.fromAccount * Denom >= mark - discount - Denom + 1
  <2> DEFINE owed == DivUp(discount - mark, Denom)
  <2>1. f.fromLiquidator = 0 /\ f.fromAccount = AtMost(owed, available)
    BY <1>6 DEF Flows
  <2> HIDE DEF f, discount
  <2>2. discount - mark \in Nat
    BY <1>3, <1>6
  <2>3. owed \in Nat /\ owed * Denom <= (discount - mark) + Denom - 1
    BY <1>1, <2>2, DivUpFacts
  <2> HIDE DEF owed
  <2>4. f.fromAccount <= owed
    BY <2>1, <2>3 DEF AtMost
  <2>5. f.fromAccount * Denom <= owed * Denom /\ owed * Denom \in Nat /\ f.fromAccount * Denom \in Nat
    BY <1>1, <1>4, <2>3, <2>4
  <2>6. f.fromLiquidator * Denom = 0
    BY <1>1, <2>1
  <2>7. f.fromLiquidator * Denom - f.fromAccount * Denom >= mark - discount - Denom + 1
    BY <1>1, <1>3, <2>3, <2>5, <2>6
  <2> QED BY <2>7
<1>7. ASSUME mark >= 0
      PROVE  f.fromLiquidator * Denom - f.fromAccount * Denom >= mark - discount - Denom + 1
  <2> DEFINE paid == Pos(mark - discount)
  <2>1. f.fromAccount = AtMost(0, available) /\ f.fromLiquidator = paid \div Denom
    BY <1>7 DEF Flows
  <2> HIDE DEF f, discount
  <2>2. paid \in Nat /\ paid >= mark - discount
    BY <1>3 DEF Pos
  <2> HIDE DEF paid
  <2>3. \A n \in Nat, d \in Nat \ {0} : (n \div d) * d >= n - d + 1
    OBVIOUS
  <2>4. f.fromLiquidator * Denom >= paid - Denom + 1 /\ f.fromLiquidator * Denom \in Nat
    BY <1>1, <1>4, <2>1, <2>2, <2>3
  <2>5. f.fromAccount = 0 /\ f.fromAccount * Denom = 0
    BY <1>1, <2>1 DEF AtMost
  <2> QED BY <1>1, <1>3, <2>2, <2>4, <2>5
<1>8. f.fromLiquidator * Denom - f.fromAccount * Denom >= mark - discount - Denom + 1
  BY <1>6, <1>7
<1>9. f.penalty * Denom <= pen0 + Denom - 1 /\ f.penalty * Denom \in Nat
  <2> HIDE DEF f, pen0
  <2>1. DivUp(pen0, Denom) \in Nat /\ DivUp(pen0, Denom) * Denom <= pen0 + Denom - 1
    BY <1>1, <1>3, DivUpFacts
  <2>2. \A x, y, k \in Nat : x <= y => x * k <= y * k /\ x * k \in Nat /\ y * k \in Nat
    OBVIOUS
  <2>3. f.penalty * Denom <= DivUp(pen0, Denom) * Denom
        /\ f.penalty * Denom \in Nat /\ DivUp(pen0, Denom) * Denom \in Nat
    BY <1>1, <1>4, <1>5, <2>1, <2>2
  <2> QED BY <1>1, <1>3, <2>1, <2>3
<1> HIDE DEF f, discount, pen0
<1> DEFINE X == D - mark + (f.fromLiquidator - f.fromAccount - f.penalty) * Denom + 2 * Denom
<1>10. /\ f.fromLiquidator * Denom \in Nat /\ f.fromAccount * Denom \in Nat
       /\ (f.fromLiquidator - f.fromAccount - f.penalty) * Denom
            = f.fromLiquidator * Denom - f.fromAccount * Denom - f.penalty * Denom
  <2>1. \A x, y, z, k \in Nat : /\ x * k \in Nat
                                /\ (x - y - z) * k = x * k - y * k - z * k
    OBVIOUS
  <2> QED BY <1>1, <1>4, <2>1
<1>11. X \in Int /\ X >= D - discount - pen0 + 2
  BY <1>1, <1>3, <1>8, <1>9, <1>10
<1> HIDE DEF X
<1>12. Bps * X >= Bps * (D - discount - pen0 + 2)
  <2>1. \A x, y \in Int, k \in Nat : x >= y => k * x >= k * y
    OBVIOUS
  <2>2. D - discount - pen0 + 2 \in Int
    BY <1>3
  <2> QED BY <1>1, <1>11, <2>1, <2>2
<1>13. Bps * (D - discount - pen0 + 2) = D * Bps - discount * Bps - pen0 * Bps + 2 * Bps
  <2>1. \A x, y, z, k \in Nat : k * (x - y - z + 2) = x * k - y * k - z * k + 2 * k
    OBVIOUS
  <2> QED BY <1>1, <1>3, <2>1
<1>14. D * (Bps - MaxBonusBps - LiquidationPenaltyBps)
         = D * Bps - D * MaxBonusBps - D * LiquidationPenaltyBps
  <2>1. \A x, y, z, k \in Nat : k * (x - y - z) = k * x - k * y - k * z
    OBVIOUS
  <2> QED BY <1>1, <2>1
<1>15. /\ D * Bps \in Nat /\ discount * Bps \in Nat /\ pen0 * Bps \in Nat
       /\ Bps * X \in Int
  BY <1>1, <1>3, <1>11
<1>16. Bps * X >= D * (Bps - MaxBonusBps - LiquidationPenaltyBps)
  BY <1>1, <1>2, <1>3, <1>12, <1>13, <1>14, <1>15
<1> QED
  BY <1>16 DEF X, f

\* A slice improves the account's maintenance health by what the sold margin is
\* worth after the largest bonus and the penalty, up to rounding (INV-22).
THEOREM SlicesHelp == Spec => SlicesImproveHealth
<1>1. IType /\ TypeOK' /\ [Next]_vars =>
        [\A a, l \in Accounts, u \in Underlyings, bps \in SliceSizes :
           LiquidateSlice(a, u, l, bps) =>
             Bps * (Health(cash', balances', a) - Health(cash, balances, a)
                      + 2 * Denom)
               >= (MaintenanceMargin(balances, a) - MaintenanceMargin(balances', a))
                    * (Bps - MaxBonusBps - LiquidationPenaltyBps)]_vars
  <2> SUFFICES ASSUME TypeOK, AuctionsPast, TypeOK',
                      NEW a \in Accounts, NEW l \in Accounts, NEW u \in Underlyings,
                      NEW bps \in SliceSizes, LiquidateSlice(a, u, l, bps)
               PROVE  Bps * (Health(cash', balances', a) - Health(cash, balances, a)
                               + 2 * Denom)
                        >= (MaintenanceMargin(balances, a) - MaintenanceMargin(balances', a))
                             * (Bps - MaxBonusBps - LiquidationPenaltyBps)
    BY DEF IType
  <2> DEFINE b == Sliced(a, u, l, bps)
             f == FlowsTo(a, b, Bonus(auctions[a][u]))
             mark == Equity(cash, balances, a) - Equity(cash, b, a)
             D == MaintenanceMargin(balances, a) - MaintenanceMargin(b, a)
             W == Weighed(b[a], EquityWeight)
  <2>1. /\ Readable /\ balances \in BalanceTable
        /\ cash \in [Accounts -> Int] /\ cash' \in [Accounts -> Int]
        /\ cash[a] \in Nat /\ insurance \in Nat
    BY ReadableType DEF TypeOK
  <2>2. bps \in Nat /\ b \in BalanceTable
    BY SlicedType, LiquidationAssumption
  <2>3. Liquidate(a, l, b, f) /\ balances' = b /\ MaintenanceMargin(b, a) < MaintenanceMargin(balances, a)
    BY DEF LiquidateSlice, Liquidate
  <2> HIDE DEF b
  <2>4. /\ f.fromAccount \in Nat /\ f.fromLiquidator \in Nat /\ f.penalty \in Nat
        /\ cash'[a] = cash[a] - f.fromAccount + f.fromLiquidator - f.penalty
    BY <2>2, <2>3, LiquidationCash
  <2>5. /\ Equity(cash, balances, a) \in Int /\ Equity(cash, b, a) \in Int
        /\ Equity(cash', b, a) \in Int
        /\ MaintenanceMargin(balances, a) \in Nat /\ MaintenanceMargin(b, a) \in Nat
    BY <2>1, <2>2, EquityType, MaintenanceMarginType
  <2>6. mark \in Int /\ D \in Nat
    BY <2>3, <2>5
  <2>7. /\ Bonus(auctions[a][u]) \in Nat /\ Bonus(auctions[a][u]) <= MaxBonusBps
    BY BonusBound DEF TypeOK, AuctionsPast
  <2>8. f = Flows(mark, D, Bonus(auctions[a][u]), cash[a])
    BY DEF FlowsTo
  <2> HIDE DEF f, mark, D
  <2>9. Bps * (D - mark + (f.fromLiquidator - f.fromAccount - f.penalty) * Denom + 2 * Denom)
          >= D * (Bps - MaxBonusBps - LiquidationPenaltyBps)
    BY <2>1, <2>6, <2>7, <2>8, FlowsBound
  <2>10. Equity(cash', b, a) - Equity(cash, b, a)
           = (f.fromLiquidator - f.fromAccount - f.penalty) * Denom
    <3>1. /\ Equity(cash', b, a) = cash'[a] * Denom + W
          /\ Equity(cash, b, a) = cash[a] * Denom + W
          /\ W \in Int
      BY <2>1, <2>2, EquityWeighed, WeighedType, RowType, WeightTypes
    <3> HIDE DEF W
    <3>2. \A w, x, y, z, k \in Int :
            (w - y + x - z) * k - w * k = (x - y - z) * k /\ w * k \in Int
      OBVIOUS
    <3>3. cash[a] \in Int /\ cash'[a] \in Int /\ Denom \in Int
      BY <2>1, ProtocolAssumption
    <3>4. cash'[a] * Denom - cash[a] * Denom = (f.fromLiquidator - f.fromAccount - f.penalty) * Denom
      BY <2>4, <3>2, <3>3
    <3>5. cash'[a] * Denom \in Int /\ cash[a] * Denom \in Int
      BY <3>3
    <3>6. \A x, y, w \in Int : (x + w) - (y + w) = x - y
      OBVIOUS
    <3> QED BY <3>1, <3>4, <3>5, <3>6
  <2> DEFINE gain == (f.fromLiquidator - f.fromAccount - f.penalty) * Denom
  <2>11. gain \in Int /\ gain = Equity(cash', b, a) - Equity(cash, b, a)
    BY <2>5, <2>10
  <2> HIDE DEF gain
  <2>12. Health(cash', b, a) - Health(cash, balances, a) = D - mark + gain
    BY <2>5, <2>11 DEF Health, D, mark
  <2>13. Health(cash', b, a) - Health(cash, balances, a) + 2 * Denom = D - mark + gain + 2 * Denom
    BY <2>12
  <2> QED BY <2>3, <2>9, <2>13 DEF gain, D
<1>2. IType => TypeOK
  BY DEF IType
<1> QED
  BY <1>1, <1>2, ITypeCorrect, PTL DEF Spec, SlicesImproveHealth

-----------------------------------------------------------------------------
(* Health falls only within the rules                                      *)

\* Account a's initial health does not fall, or a stays covered, or a was below
\* the liquidation target.
HealthKept(a) ==
  InitialHealth(cash', balances', a) < InitialHealth(cash, balances, a) =>
    \/ Covers(Equity(cash', balances', a), InitialMargin(balances', a))
    \/ ~Covers(Equity(cash, balances, a), Target(InitialMargin(balances, a)))

LEMMA InitialHealthType ==
  ASSUME Readable, NEW c \in [Accounts -> Int], NEW b \in BalanceTable, NEW a \in Accounts
  PROVE  /\ InitialHealth(c, b, a) \in Int /\ Equity(c, b, a) \in Int
         /\ InitialMargin(b, a) \in Nat /\ MaintenanceMargin(b, a) \in Nat
BY EquityType, InitialMarginType, MaintenanceMarginType DEF InitialHealth

LEMMA HealthKeptGrown ==
  ASSUME TypeOK, TypeOK', NEW a \in Accounts,
         cash[a] <= cash'[a], \A s \in Series : balances[a][s] <= balances'[a][s]
  PROVE  HealthKept(a)
<1>1. /\ Readable /\ balances \in BalanceTable /\ balances' \in BalanceTable
      /\ cash \in [Accounts -> Int] /\ cash' \in [Accounts -> Int]
  BY ReadableType DEF TypeOK, BalanceTable
<1>2. InitialHealth(cash, balances, a) <= InitialHealth(cash', balances', a)
  BY <1>1, HealthMonotone
<1>3. InitialHealth(cash, balances, a) \in Int /\ InitialHealth(cash', balances', a) \in Int
  BY <1>1, InitialHealthType
<1> QED
  BY <1>2, <1>3 DEF HealthKept

\* Whoever neither moves nor pays keeps his health.
LEMMA HealthKeptSame ==
  ASSUME TypeOK, TypeOK', NEW a \in Accounts,
         cash'[a] = cash[a], balances'[a] = balances[a]
  PROVE  HealthKept(a)
<1>1. cash[a] <= cash'[a] /\ \A s \in Series : balances[a][s] <= balances'[a][s]
  BY DEF TypeOK
<1> QED
  BY <1>1, HealthKeptGrown

\* The target is above the margin.
LEMMA TargetAbove ==
  ASSUME NEW m \in Nat
  PROVE  Target(m) \in Nat /\ m <= Target(m)
<1> DEFINE x == m * (Bps + TargetHealthBufferBps)
<1>1. Bps \in Nat \ {0} /\ TargetHealthBufferBps \in Nat
  BY ProtocolAssumption, LiquidationAssumption
<1>2. x \in Nat /\ m * Bps <= x /\ m * Bps \in Nat
  <2>1. \A y, d, k \in Nat : y * d <= y * (d + k) /\ y * (d + k) \in Nat /\ y * d \in Nat
    OBVIOUS
  <2> QED BY <1>1, <2>1
<1>3. Target(m) = DivUp(x, Bps)
  BY DEF Target
<1> HIDE DEF x
<1>4. Target(m) \in Nat /\ x <= Target(m) * Bps /\ Target(m) * Bps \in Nat
  <2>1. DivUp(x, Bps) \in Nat /\ x <= DivUp(x, Bps) * Bps
    BY <1>1, <1>2, DivUpFacts
  <2>2. \A y, d \in Nat : y * d \in Nat
    OBVIOUS
  <2> QED BY <1>1, <1>3, <2>1, <2>2
<1>5. m * Bps <= Target(m) * Bps
  BY <1>2, <1>4
<1>6. \A y, z \in Nat, d \in Nat \ {0} : y * d <= z * d => y <= z
  OBVIOUS
<1> QED
  BY <1>1, <1>4, <1>5, <1>6

\* The same scenarios and fewer shorts, no more margin.
LEMMA MarginFalls ==
  ASSUME Readable, NEW b \in BalanceTable, NEW c \in BalanceTable, NEW a \in Accounts,
         \A u \in Underlyings, sh \in {0} \cup MaintenanceSet \cup InitialSet :
           ScenarioValue(c, a, u, sh) = ScenarioValue(b, a, u, sh),
         \A s \in Series : Neg(c[a][s]) <= Neg(b[a][s])
  PROVE  InitialMargin(c, a) <= InitialMargin(b, a)
<1> DEFINE f == [u \in Underlyings |-> BucketMargin(c, a, u)]
           h == [u \in Underlyings |-> BucketMargin(b, a, u)]
           all == MaintenanceSet \cup InitialSet
<1>1. \A u \in Underlyings : f[u] \in Nat /\ h[u] \in Nat /\ f[u] <= h[u]
  <2> TAKE u \in Underlyings
  <2>1. /\ BaseValue(c, a, u) = BaseValue(b, a, u) /\ BaseValue(b, a, u) \in Int
        /\ \A sh \in all : /\ ScenarioValue(c, a, u, sh) = ScenarioValue(b, a, u, sh)
                           /\ ScenarioValue(b, a, u, sh) \in Int
    BY ScenarioValueType DEF BaseValue
  <2>2. /\ BaseValue(c, a, u) <= BaseValue(b, a, u) + 0
        /\ \A sh \in all : ScenarioValue(b, a, u, sh) <= ScenarioValue(c, a, u, sh)
    BY <2>1
  <2>3. WorstLoss(c, a, u, all) <= WorstLoss(b, a, u, all) + 0
    BY <2>2, WorstLossBound
  <2>4. WorstLoss(c, a, u, all) \in Nat /\ WorstLoss(b, a, u, all) \in Nat
    BY WorstLossFacts
  <2> DEFINE bb == ShortMark(b, a, u) * ImBufferBps
             bc == ShortMark(c, a, u) * ImBufferBps
  <2>5. bb \in Nat /\ bc \in Nat /\ bc <= bb
    <3>1. /\ ShortMark(b, a, u) \in Nat /\ ShortMark(c, a, u) \in Nat
          /\ ShortMark(c, a, u) <= ShortMark(b, a, u)
      BY ShortMarkWeighed, ShortMarkFalls
    <3>2. \A x, y, k \in Nat : x <= y => x * k <= y * k /\ x * k \in Nat /\ y * k \in Nat
      OBVIOUS
    <3> QED BY <3>1, <3>2, ProtocolAssumption
  <2>6. /\ f[u] = WorstLoss(c, a, u, all) + DivUp(bc, Bps)
        /\ h[u] = WorstLoss(b, a, u, all) + DivUp(bb, Bps)
    BY DEF BucketMargin
  <2> HIDE DEF bb, bc, f, h, all
  <2>7. DivUp(bc, Bps) <= DivUp(bb, Bps) /\ DivUp(bc, Bps) \in Nat /\ DivUp(bb, Bps) \in Nat
    BY <2>5, DivUpFacts, ProtocolAssumption
  <2> QED BY <2>3, <2>4, <2>6, <2>7
<1>2. InitialMargin(c, a) = Total(Underlyings, f) /\ InitialMargin(b, a) = Total(Underlyings, h)
  BY DEF InitialMargin, BucketMargin
<1> HIDE DEF f, h
<1> QED
  BY <1>1, <1>2, IndexesFinite, TotalMonotone

LEMMA ClearingHealth ==
  ASSUME TypeOK, TypeOK', ClearingStep, NEW a \in Accounts
  PROVE  HealthKept(a)
<1>1. /\ balances \in [Accounts -> [Series -> Int]] /\ cash \in [Accounts -> Nat]
      /\ Amounts \subseteq Nat /\ 1..MaxQty \subseteq Nat \ {0}
  BY ClearingAssumption DEF TypeOK
<1>2. ASSUME NEW x \in Accounts, NEW amount \in Amounts, DepositCollateral(x, amount)
      PROVE  HealthKept(a)
  <2>1. /\ cash' = Credit(cash, x, amount) /\ UNCHANGED balances /\ amount \in Nat
    BY <1>1, <1>2 DEF DepositCollateral
  <2>2. cash[a] <= cash'[a] /\ \A s \in Series : balances[a][s] <= balances'[a][s]
    BY <1>1, <2>1 DEF Credit
  <2> QED BY <2>2, HealthKeptGrown
<1>3. ASSUME NEW x \in Accounts, NEW amount \in Amounts, WithdrawCollateral(x, amount)
      PROVE  HealthKept(a)
  <2>1. /\ cash' = Debit(cash, x, amount) /\ UNCHANGED balances
        /\ RequireHealthy(Debit(cash, x, amount), balances, x)
    BY <1>3 DEF WithdrawCollateral
  <2>2. a = x => Covers(Equity(cash', balances', a), InitialMargin(balances', a))
    BY <2>1 DEF RequireHealthy
  <2>3. a # x => cash'[a] = cash[a] /\ balances'[a] = balances[a]
    BY <1>1, <2>1 DEF Debit
  <2> QED BY <2>2, <2>3, HealthKeptSame DEF HealthKept
<1>4. ASSUME NEW x \in Accounts, NEW s \in Series, NEW qty \in 1..MaxQty,
             MintExternalLong(x, s, qty)
      PROVE  HealthKept(a)
  <2>1. \E fee : /\ cash' = Debit(cash, x, fee)
                 /\ balances' = Moved(balances, x, s, -qty)
                 /\ RequireHealthy(cash', balances', x)
    BY <1>4 DEF MintExternalLong, ChargeFee
  <2>2. a = x => Covers(Equity(cash', balances', a), InitialMargin(balances', a))
    BY <2>1 DEF RequireHealthy
  <2>3. a # x => cash'[a] = cash[a] /\ balances'[a] = balances[a]
    BY <1>1, <2>1 DEF Debit, Moved
  <2> QED BY <2>2, <2>3, HealthKeptSame DEF HealthKept
<1>5. ASSUME NEW x \in Accounts, NEW s \in Series, NEW qty \in 1..MaxQty,
             WrapLong(x, s, qty)
      PROVE  HealthKept(a)
  <2>1. /\ UNCHANGED cash /\ balances' = Moved(balances, x, s, -qty)
        /\ RequireHealthy(cash, balances', x)
    BY <1>5 DEF WrapLong
  <2>2. a = x => Covers(Equity(cash', balances', a), InitialMargin(balances', a))
    BY <2>1 DEF RequireHealthy
  <2>3. a # x => cash'[a] = cash[a] /\ balances'[a] = balances[a]
    BY <1>1, <2>1 DEF Moved
  <2> QED BY <2>2, <2>3, HealthKeptSame DEF HealthKept
<1>6. ASSUME NEW x \in Accounts, NEW s \in Series, NEW qty \in 1..MaxQty,
             UnwrapLong(x, s, qty) \/ CloseShortWithWrapper(x, s, qty)
      PROVE  HealthKept(a)
  <2>1. UNCHANGED cash /\ balances' = Moved(balances, x, s, qty) /\ qty \in Nat
    BY <1>1, <1>6 DEF UnwrapLong, CloseShortWithWrapper
  <2>2. cash[a] <= cash'[a] /\ \A t \in Series : balances[a][t] <= balances'[a][t]
    BY <1>1, <2>1 DEF Moved
  <2> QED BY <2>2, HealthKeptGrown
<1>7. ASSUME NEW from \in Accounts, NEW to \in Accounts, NEW s \in Series,
             NEW qty \in 1..MaxQty, CloseShortWithInternalLong(from, to, s, qty)
      PROVE  HealthKept(a)
  <2>1. /\ UNCHANGED cash
        /\ balances' = Moved(Moved(balances, from, s, -qty), to, s, qty)
        /\ RequireHealthy(cash, balances', from)
    BY <1>7 DEF CloseShortWithInternalLong
  <2>2. a = from => Covers(Equity(cash', balances', a), InitialMargin(balances', a))
    BY <2>1 DEF RequireHealthy
  <2>3. qty \in Nat
    BY <1>1
  <2>4. a # from => cash[a] <= cash'[a] /\ \A t \in Series : balances[a][t] <= balances'[a][t]
    BY <1>1, <2>1, <2>3 DEF Moved
  <2> QED BY <2>2, <2>4, HealthKeptGrown DEF HealthKept
<1> QED
  BY <1>2, <1>3, <1>4, <1>5, <1>6, <1>7 DEF ClearingStep

LEMMA LiquidationHealth ==
  ASSUME TypeOK, TypeOK', AuctionsPast, LiquidationStep, NEW a \in Accounts
  PROVE  HealthKept(a)
<1>1. /\ Readable /\ balances \in BalanceTable
      /\ cash \in [Accounts -> Int] /\ cash \in [Accounts -> Nat]
  BY ReadableType DEF TypeOK
<1>2. ASSUME NEW x \in Accounts, NEW u \in Underlyings, StartAuction(x, u) \/ EndAuction(x, u)
      PROVE  HealthKept(a)
  <2>1. UNCHANGED <<cash, balances>>
    BY <1>2 DEF StartAuction, EndAuction
  <2> QED BY <2>1, HealthKeptSame
<1>3. ASSUME NEW x \in Accounts, NEW l \in Accounts, NEW u \in Underlyings,
             NEW bps \in SliceSizes, LiquidateSlice(x, u, l, bps)
      PROVE  HealthKept(a)
  <2> DEFINE b == Sliced(x, u, l, bps)
             f == FlowsTo(x, b, Bonus(auctions[x][u]))
  <2>1. bps \in Nat /\ b \in BalanceTable
    BY SlicedType, LiquidationAssumption
  <2>2. /\ Liquidate(x, l, b, f) /\ balances' = b /\ cash' = CashAfter(x, l, f)
        /\ ~Covers(Equity(cash, balances, x), Target(InitialMargin(balances, x)))
        /\ Covers(Equity(CashAfter(x, l, f), b, l), InitialMargin(b, l))
    BY <1>3 DEF LiquidateSlice, Liquidate
  <2>3. /\ x # l /\ \A y \in Accounts \ {x, l} : balances'[y] = balances[y]
    BY <2>1, <2>2, SlicedMoves DEF Liquidate
  <2> HIDE DEF b
  <2>4. \A y \in Accounts \ {x, l} : cash'[y] = cash[y]
    BY <2>1, <2>2, LiquidationCash
  <2> HIDE DEF f
  <2>5. CASE a = x
    BY <2>2, <2>5 DEF HealthKept
  <2>6. CASE a = l
    BY <2>2, <2>6 DEF HealthKept
  <2>7. CASE a \notin {x, l}
    BY <2>3, <2>4, <2>7, HealthKeptSame
  <2> QED BY <2>5, <2>6, <2>7
<1>4. ASSUME NEW x \in Accounts, NEW l \in Accounts, NEW s \in Series,
             NEW qty \in 1..supply[s], LiquidateWithWrapper(x, s, qty, l)
      PROVE  HealthKept(a)
  <2> DEFINE b == Moved(balances, x, s, qty)
             u == Info[s].underlying
             f == FlowsTo(x, b, Bonus(auctions[x][u]))
             mark == Equity(cash, balances, x) - Equity(cash, b, x)
             D == MaintenanceMargin(balances, x) - MaintenanceMargin(b, x)
  <2>1. qty \in Nat /\ u \in Underlyings /\ b \in BalanceTable
    <3>1. supply[s] \in Nat /\ qty \in Nat
      BY DEF TypeOK
    <3> QED BY <1>1, <3>1, MovedType DEF Underlyings
  <2>2. /\ Liquidate(x, l, b, f) /\ balances' = b
        /\ ~Covers(Equity(cash, balances, x), MaintenanceMargin(balances, x))
        /\ MaintenanceMargin(b, x) < MaintenanceMargin(balances, x)
    BY <1>4 DEF LiquidateWithWrapper, Liquidate
  <2>3. /\ b[x][s] = balances[x][s] + qty
        /\ \A y \in Accounts, t \in Series : y # x \/ t # s => b[y][t] = balances[y][t]
        /\ \A y \in Accounts \ {x} : b[y] = balances[y]
    BY <1>1 DEF Moved, BalanceTable
  <2>4. \A t \in Series : balances[x][t] <= b[x][t]
    BY <1>1, <2>1, <2>3, RowType
  <2> HIDE DEF b, u
  <2>5. /\ f.fromAccount \in Nat /\ f.topUp \in Nat /\ f.fromLiquidator \in Nat
        /\ x # l
        /\ cash'[l] = cash[l] + f.fromAccount - f.fromLiquidator + f.topUp
        /\ \A y \in Accounts \ {x, l} : cash'[y] = cash[y]
    BY <2>1, <2>2, LiquidationCash
  <2>6. /\ Equity(cash, balances, x) \in Int /\ Equity(cash, b, x) \in Int
        /\ Equity(cash, balances, x) <= Equity(cash, b, x)
        /\ InitialMargin(balances, x) \in Nat
        /\ MaintenanceMargin(balances, x) \in Nat /\ MaintenanceMargin(b, x) \in Nat
    <3>1. \A k \in Int : k <= k
      OBVIOUS
    <3>2. cash[x] <= cash[x]
      BY <1>1, <3>1
    <3> QED BY <1>1, <2>1, <2>4, <3>2, HealthMonotone, InitialHealthType
  <2>7. mark \in Int /\ mark <= 0 /\ D \in Nat
    BY <2>2, <2>6
  <2>8. f = Flows(mark, D, Bonus(auctions[x][u]), cash[x])
    BY DEF FlowsTo
  <2> HIDE DEF f, mark, D
  <2>9. f.fromLiquidator = 0
    <3> DEFINE bonus == Bonus(auctions[x][u])
               discount == DivUp(D * bonus, Bps)
    <3>1. bonus \in Nat
      BY <2>1, BonusBound DEF TypeOK, AuctionsPast
    <3>2. D * bonus \in Nat
      BY <2>7, <3>1
    <3>3. discount \in Nat
      BY <3>2, DivUpType, ProtocolAssumption
    <3>4. f.fromLiquidator = IF mark < 0 THEN 0 ELSE Pos(mark - discount) \div Denom
      BY <2>8 DEF Flows
    <3> HIDE DEF discount
    <3>5. Pos(mark - discount) = 0
      BY <2>7, <3>3 DEF Pos
    <3>6. 0 \div Denom = 0
      BY ProtocolAssumption
    <3> QED BY <3>4, <3>5, <3>6
  <2>10. CASE a = x
    <3>1. ~Covers(Equity(cash, balances, x), Target(InitialMargin(balances, x)))
      <4>1. /\ MaintenanceMargin(balances, x) <= InitialMargin(balances, x)
            /\ InitialMargin(balances, x) <= Target(InitialMargin(balances, x))
            /\ Target(InitialMargin(balances, x)) \in Nat
        BY <1>1, <2>6, MarginOrder, TargetAbove
      <4> QED BY <2>2, <2>6, <4>1 DEF Covers
    <3> QED BY <2>10, <3>1 DEF HealthKept
  <2>11. CASE a = l
    <3>1. cash[l] \in Nat
      BY <1>1
    <3>2. cash[l] <= cash'[l]
      BY <2>5, <2>9, <3>1
    <3>3. \A t \in Series : balances[l][t] <= balances'[l][t]
      BY <1>1, <2>2, <2>3, <2>5, RowType
    <3> QED BY <2>11, <3>2, <3>3, HealthKeptGrown
  <2>12. CASE a \notin {x, l}
    BY <2>2, <2>3, <2>5, <2>12, HealthKeptSame
  <2> QED BY <2>10, <2>11, <2>12
<1> QED
  BY <1>2, <1>3, <1>4 DEF LiquidationStep

\* An account whose settlement changed nothing in the group's books had a net
\* payoff of zero there: its equity is the same, and its margin no greater.
LEMMA SettledForNothing ==
  ASSUME TypeOK, TypeOK', NEW g \in Groups, NEW x \in Accounts,
         SettleAccountGroup(x, g), UNCHANGED groups, NEW a \in Accounts
  PROVE  HealthKept(a)
<1> DEFINE net == Net(x, g)
           debt == DebtOf(net)
           collected == AtMost(debt, cash[x])
           p == groups[g].price
           r == [s \in Series |-> IF s \in SeriesIn(g) THEN balances[x][s] ELSE 0]
           W(q) == Weighed(q, EquityWeight)
<1>1. /\ Readable /\ balances \in BalanceTable /\ balances' \in BalanceTable
      /\ cash \in [Accounts -> Int] /\ cash' \in [Accounts -> Int]
      /\ cash \in [Accounts -> Nat] /\ groups \in [Groups -> AccountingType]
  BY ReadableType DEF TypeOK, BalanceTable
<1>2. /\ balances' = [balances EXCEPT
           ![x] = [s \in Series |-> IF s \in SeriesIn(g) THEN 0 ELSE @[s]]]
      /\ cash' = Debit(cash, x, collected)
      /\ groups[g].finalized
  BY DEF SettleAccountGroup
<1>3. /\ groups'[g].collected = groups[g].collected + collected
      /\ groups'[g].unpaid = groups[g].unpaid + (debt - collected)
      /\ groups'[g].netCreditN = groups[g].netCreditN + Pos(net)
  <2> HIDE DEF net, debt, collected
  <2>1. groups'[g] = [groups[g] EXCEPT
          !.collected = @ + collected,
          !.pool = @ + collected,
          !.unpaid = @ + (debt - collected),
          !.netCreditN = @ + Pos(net),
          !.unclaimedCredits = IF net > 0 THEN @ + 1 ELSE @]
    <3> USE DEF net, debt, collected
    <3> QED BY DEF SettleAccountGroup, TypeOK
  <2> QED BY <2>1, GroupType DEF AccountingType
<1>4. net \in Int /\ net = NetAt(balances, x, g, p) /\ p \in Nat
  <2>1. p \in Nat
    BY <1>1 DEF AccountingType
  <2>2. net = NetAt(balances, x, g, p)
    BY DEF Net, NetAt
  <2> HIDE DEF net, p
  <2> QED BY <1>1, <2>1, <2>2, NetAtType
<1>5. debt \in Nat /\ Neg(net) <= debt * Denom /\ Neg(net) \in Nat /\ Pos(net) \in Nat
  <2> HIDE DEF net
  <2>1. Neg(net) \in Nat /\ Pos(net) \in Nat
    BY <1>4 DEF Neg, Pos
  <2>2. debt = DivUp(Neg(net), Denom)
    BY DEF DebtOf
  <2> HIDE DEF debt
  <2> QED BY <2>1, <2>2, DivUpFacts, ProtocolAssumption
<1>6. collected \in Nat
  <2> HIDE DEF debt
  <2> QED BY <1>1, <1>5 DEF AtMost
<1>7. collected = 0 /\ net = 0
  <2> HIDE DEF net, debt, collected
  <2>1. groups[g].collected \in Nat /\ groups[g].unpaid \in Nat /\ groups[g].netCreditN \in Nat
    BY <1>1 DEF AccountingType
  <2>2. collected = 0 /\ debt = 0 /\ Pos(net) = 0
    BY <1>3, <1>5, <1>6, <2>1
  <2>3. Neg(net) <= 0
    BY <1>5, <2>2, ProtocolAssumption
  <2> QED BY <1>4, <2>2, <2>3 DEF Pos, Neg
<1>8. cash' = cash
  <2> HIDE DEF collected
  <2> QED BY <1>1, <1>7, <1>2 DEF Debit
<1> HIDE DEF debt, collected
<1>9. CASE a # x
  <2> HIDE DEF net, p, r, W
  <2>1. balances'[a] = balances[a]
    BY <1>1, <1>2, <1>9 DEF BalanceTable
  <2> QED BY <1>1, <1>8, <2>1, HealthKeptSame
<1>10. CASE a = x
  <2>1. /\ balances[x] \in Rows /\ balances'[x] \in Rows /\ r \in Rows
        /\ EquityWeight \in Weights
    BY <1>1, RowType, WeightTypes DEF Rows
  <2>2. \A s \in Series : balances'[x][s] = IF s \in SeriesIn(g) THEN 0 ELSE balances[x][s]
    BY <1>1, <1>2 DEF BalanceTable
  <2>3. \A s \in Series : balances[x][s] = balances'[x][s] + r[s]
    <3>1. \A s \in Series : balances[x][s] \in Int
      BY <1>1, RowType
    <3> QED BY <2>2, <3>1
  <2>4. W(r) = 0
    <3> DEFINE f == [s \in Series |-> balances[x][s] * UnitPayoff(s, p)]
               h == [s \in Series |-> r[s] * EquityWeight[s]]
    <3>1. SeriesIn(g) \subseteq Series
      BY SeriesInFinite
    <3>2. \A s \in SeriesIn(g) : h[s] = f[s]
      <4> TAKE s \in SeriesIn(g)
      <4>1. s \in Series /\ Info[s].group = g /\ Finalized(s)
        BY <1>2 DEF SeriesIn, Finalized
      <4>2. Intrinsic(s, p) \in Nat /\ Info[s].size \in Nat
        BY <1>4, <4>1, IntrinsicType, BookAssumption
      <4>3. EquityWeight[s] = Info[s].size * Intrinsic(s, p)
        BY <4>1 DEF EquityWeight, FinalUnit
      <4>4. UnitPayoff(s, p) = Intrinsic(s, p) * Info[s].size
        BY DEF UnitPayoff
      <4>5. \A y, z \in Nat : y * z = z * y
        OBVIOUS
      <4>6. EquityWeight[s] = UnitPayoff(s, p)
        BY <4>2, <4>3, <4>4, <4>5
      <4> QED BY <4>1, <4>6
    <3>3. \A s \in Series \ SeriesIn(g) : h[s] = 0
      <4>1. \A s \in Series : EquityWeight[s] \in Nat
        BY <2>1 DEF Weights
      <4> QED BY <4>1
    <3> HIDE DEF f, h
    <3>4. SignedTotal(Series, h) = SignedTotal(SeriesIn(g), f)
      BY <3>1, <3>2, <3>3, SignedExtend
    <3>5. SignedTotal(SeriesIn(g), f) = net
      BY <1>4 DEF NetAt, f
    <3> QED BY <1>7, <3>4, <3>5 DEF Weighed, h
  <2> HIDE DEF r
  <2>5. W(balances[x]) = W(balances'[x])
    <3>1. W(balances[x]) = W(balances'[x]) + W(r)
      BY <2>1, <2>3, WeighedSum
    <3>2. W(balances'[x]) \in Int
      BY <2>1, WeighedType
    <3> QED BY <2>4, <3>1, <3>2
  <2>6. Equity(cash', balances', x) = Equity(cash, balances, x)
    BY <1>1, <1>8, <2>5, EquityWeighed
  <2>7. \A u \in Underlyings, sh \in {0} \cup MaintenanceSet \cup InitialSet :
          ScenarioValue(balances', x, u, sh) = ScenarioValue(balances, x, u, sh)
    <3> TAKE u \in Underlyings, sh \in {0} \cup MaintenanceSet \cup InitialSet
    <3> DEFINE w == LiveWeight(u, sh)
    <3>1. w \in Weights
      BY <1>1, WeightTypes
    <3>2. \A s \in Series : balances'[x][s] * w[s] = balances[x][s] * w[s]
      <4> TAKE s \in Series
      <4>1. CASE s \in SeriesIn(g)
        <5>1. w[s] = 0
          BY <1>2, <4>1 DEF LiveWeight, Finalized, SeriesIn
        <5>2. balances'[x][s] \in Int /\ balances[x][s] \in Int
          BY <1>1, RowType
        <5> QED BY <5>1, <5>2
      <4>2. CASE s \notin SeriesIn(g)
        BY <2>2, <4>2
      <4> QED BY <4>1, <4>2
    <3> HIDE DEF w
    <3>3. Weighed(balances'[x], w) = Weighed(balances[x], w)
      BY <3>2, WeighedCong
    <3> QED BY <1>1, <3>3, ScenarioWeighed DEF w
  <2>8. \A s \in Series : Neg(balances'[x][s]) <= Neg(balances[x][s])
    <3>1. \A s \in Series : balances[x][s] \in Int
      BY <1>1, RowType
    <3> QED BY <2>2, <3>1 DEF Neg
  <2>9. InitialMargin(balances', x) <= InitialMargin(balances, x)
    BY <1>1, <2>7, <2>8, MarginFalls
  <2>10. /\ InitialMargin(balances', x) \in Nat /\ InitialMargin(balances, x) \in Nat
         /\ Equity(cash, balances, x) \in Int
    BY <1>1, InitialHealthType
  <2> QED BY <1>10, <2>6, <2>9, <2>10 DEF HealthKept, InitialHealth
<1> QED
  BY <1>9, <1>10

LEMMA SettlementHealth ==
  ASSUME TypeOK, TypeOK', SettlementStep, UNCHANGED groups, NEW a \in Accounts
  PROVE  HealthKept(a)
<1>1. groups \in [Groups -> AccountingType] /\ \A g \in Groups : groups[g].unclaimedCredits \in Int
  BY DEF TypeOK, AccountingType
<1>2. ASSUME NEW g \in Groups, NEW price \in Prices \ {0}, FinalizeGroup(g, price)
      PROVE  HealthKept(a)
  <2>1. UNCHANGED <<cash, balances>>
    BY <1>2 DEF FinalizeGroup
  <2> QED BY <2>1, HealthKeptSame
<1>3. ASSUME NEW g \in Groups, FlagOracleStalled(g) \/ ComputeRecoveryRatio(g) \/ SweepDust(g)
      PROVE  HealthKept(a)
  <2>1. UNCHANGED <<cash, balances>>
    BY <1>3 DEF FlagOracleStalled, ComputeRecoveryRatio, SweepDust
  <2> QED BY <2>1, HealthKeptSame
<1>4. ASSUME NEW g \in Groups, NEW x \in Accounts, SettleAccountGroup(x, g)
      PROVE  HealthKept(a)
  BY <1>4, SettledForNothing
<1>5. ASSUME NEW g \in Groups, NEW x \in Accounts, ClaimSettlement(x, g)
      PROVE  HealthKept(a)
  <2>1. groups'[g].unclaimedCredits = groups[g].unclaimedCredits - 1
    BY <1>1, <1>5 DEF ClaimSettlement, AccountingType
  <2>2. groups[g].unclaimedCredits = groups[g].unclaimedCredits - 1
    BY <2>1
  <2> QED BY <1>1, <2>2
<1>6. ASSUME NEW s \in Series, NEW qty \in 1..supply[s], RedeemWrapper(s, qty)
      PROVE  HealthKept(a)
  <2>1. UNCHANGED <<cash, balances>>
    BY <1>6 DEF RedeemWrapper
  <2> QED BY <2>1, HealthKeptSame
<1> QED
  BY <1>2, <1>3, <1>4, <1>5, <1>6 DEF SettlementStep, SeriesIn

\* Whatever a transaction does, it lowers an account's initial health only if
\* the account stays covered, or was below the liquidation target (INV-11).
THEOREM HealthFallsByRule == Spec => HealthFallsOnlyToHealthy
<1>1. IType /\ TypeOK' /\ [Next]_vars =>
        [UNCHANGED <<marketVars, groups>> =>
           \A a \in Accounts :
             InitialHealth(cash', balances', a) < InitialHealth(cash, balances, a) =>
               \/ Covers(Equity(cash', balances', a), InitialMargin(balances', a))
               \/ ~Covers(Equity(cash, balances, a), Target(InitialMargin(balances, a)))]_vars
  <2> SUFFICES ASSUME TypeOK, AuctionsPast, TypeOK', Next, UNCHANGED groups, NEW a \in Accounts
               PROVE  HealthKept(a)
    BY DEF IType, HealthKept
  <2>1. CASE ClearingStep
    BY <2>1, ClearingHealth
  <2>2. CASE LiquidationStep
    BY <2>2, LiquidationHealth
  <2>3. CASE SettlementStep
    BY <2>3, SettlementHealth
  <2>4. CASE SurroundingsStep
    BY <2>4, SurroundingsUnchanged, HealthKeptSame
  <2> QED BY <2>1, <2>2, <2>3, <2>4 DEF Next
<1>2. IType => TypeOK
  BY DEF IType
<1> QED
  BY <1>1, <1>2, ITypeCorrect, PTL DEF Spec, HealthFallsOnlyToHealthy

-----------------------------------------------------------------------------
(* Where the protocol's tokens go                                          *)

\* When positions trade, or custody and insurance both move, tokens only change
\* hands inside the protocol: the fee split, penalties, cover and swept dust lose
\* nothing (FeeController.collectFee, InsuranceFund.cover, LiquidationModule._settle;
\* INV-9, INV-25).
THEOREM TokensStayInside == Spec => TokensConserved
<1>1. IType /\ TypeOK' /\ [Next]_vars =>
        [custody' # custody /\ (insurance' # insurance \/ balances' # balances)
           => TokensHeld' = TokensHeld]_vars
  <2> SUFFICES ASSUME TypeOK, AuctionsPast, TypeOK', [Next]_vars,
                      custody' # custody, insurance' # insurance \/ balances' # balances
               PROVE  TokensHeld' = TokensHeld
    BY DEF IType
  <2>1. /\ custody \in Int /\ custody' \in Int
        /\ insurance \in Int /\ insurance' \in Int
        /\ keeperReserve \in Int /\ keeperReserve' \in Int
        /\ treasury \in Int /\ treasury' \in Int
    BY DEF TypeOK
  <2>2. ASSUME custody' + insurance' = custody + insurance, UNCHANGED feeVars
        PROVE  TokensHeld' = TokensHeld
    <3>1. keeperReserve' = keeperReserve /\ treasury' = treasury
      BY <2>2 DEF feeVars
    <3> QED BY <2>2, <3>1 DEF TokensHeld
  <2>3. ASSUME NEW a \in Accounts, NEW s \in Series, NEW qty \in 1..MaxQty,
               MintExternalLong(a, s, qty)
        PROVE  TokensHeld' = TokensHeld
    <3> DEFINE fee == SellerFee(s, qty)
               toInsurance == (fee * InsuranceSplitBps) \div Bps
               toKeeper == (fee * KeeperSplitBps) \div Bps
    <3>1. /\ custody' = custody - fee
          /\ insurance' = insurance + toInsurance
          /\ keeperReserve' = keeperReserve + toKeeper
          /\ treasury' = treasury + (fee - toInsurance - toKeeper)
      BY <2>3 DEF MintExternalLong, ChargeFee, CollectFee
    <3>2. fee \in Int
      BY ReadableType, SellerFeeType, ClearingAssumption
    <3>3. toInsurance \in Int /\ toKeeper \in Int
      <4> HIDE DEF fee
      <4> QED BY <3>2, ClearingAssumption, ProtocolAssumption
    <3> HIDE DEF fee, toInsurance, toKeeper
    <3> QED BY <2>1, <3>1, <3>2, <3>3 DEF TokensHeld
  <2>4. ASSUME NEW x \in Accounts, NEW l \in Accounts, NEW u \in Underlyings,
               NEW b \in BalanceTable,
               Liquidate(x, l, b, FlowsTo(x, b, Bonus(auctions[x][u])))
        PROVE  TokensHeld' = TokensHeld
    <3> DEFINE f == FlowsTo(x, b, Bonus(auctions[x][u]))
    <3>1. /\ f.topUp \in Nat /\ f.penalty \in Nat
          /\ insurance' = insurance - f.topUp + f.penalty
          /\ custody' = custody + f.topUp - f.penalty
      BY <2>4, LiquidationCash
    <3>2. UNCHANGED feeVars
      BY <2>4 DEF Liquidate
    <3> HIDE DEF f
    <3>3. custody' + insurance' = custody + insurance
      BY <2>1, <3>1
    <3> QED BY <2>2, <3>2, <3>3
  <2>5. CASE ClearingStep
    BY <2>3, <2>5 DEF ClearingStep, DepositCollateral, WithdrawCollateral, WrapLong,
       UnwrapLong, CloseShortWithWrapper, CloseShortWithInternalLong
  <2>6. CASE LiquidationStep
    <3>1. ASSUME NEW x \in Accounts, NEW l \in Accounts, NEW u \in Underlyings,
                 NEW bps \in SliceSizes, LiquidateSlice(x, u, l, bps)
          PROVE  TokensHeld' = TokensHeld
      <4>1. Sliced(x, u, l, bps) \in BalanceTable
        BY SlicedType, LiquidationAssumption
      <4>2. Liquidate(x, l, Sliced(x, u, l, bps),
                      FlowsTo(x, Sliced(x, u, l, bps), Bonus(auctions[x][u])))
        BY <3>1 DEF LiquidateSlice
      <4> QED BY <2>4, <4>1, <4>2
    <3>2. ASSUME NEW x \in Accounts, NEW l \in Accounts, NEW s \in Series,
                 NEW qty \in 1..supply[s], LiquidateWithWrapper(x, s, qty, l)
          PROVE  TokensHeld' = TokensHeld
      <4>1. Moved(balances, x, s, qty) \in BalanceTable
        BY DEF TypeOK, Moved, BalanceTable
      <4>2. Liquidate(x, l, Moved(balances, x, s, qty),
                      FlowsTo(x, Moved(balances, x, s, qty),
                              Bonus(auctions[x][Info[s].underlying])))
        BY <3>2 DEF LiquidateWithWrapper
      <4>3. Info[s].underlying \in Underlyings
        BY DEF Underlyings
      <4> QED BY <2>4, <4>1, <4>2, <4>3
    <3> QED BY <2>6, <3>1, <3>2 DEF LiquidationStep, StartAuction, EndAuction
  <2>7. CASE SettlementStep
    <3>1. ASSUME NEW g \in Groups, ComputeRecoveryRatio(g)
          PROVE  TokensHeld' = TokensHeld
      <4>1. /\ insurance' = insurance - CoverOf(g) /\ custody' = custody + CoverOf(g)
            /\ UNCHANGED feeVars
        BY <3>1 DEF ComputeRecoveryRatio
      <4>2. CoverOf(g) \in Int
        BY CoverType
      <4>3. custody' + insurance' = custody + insurance
        BY <2>1, <4>1, <4>2
      <4> QED BY <2>2, <4>1, <4>3
    <3>2. ASSUME NEW g \in Groups, SweepDust(g)
          PROVE  TokensHeld' = TokensHeld
      <4>1. /\ custody' = custody - groups[g].pool
            /\ insurance' = insurance + groups[g].pool
            /\ UNCHANGED feeVars
        BY <3>2 DEF SweepDust
      <4>2. groups[g].pool \in Int
        BY GroupType DEF AccountingType
      <4>3. custody' + insurance' = custody + insurance
        BY <2>1, <4>1, <4>2
      <4> QED BY <2>2, <4>1, <4>3
    <3>3. ASSUME NEW g \in Groups,
                 \/ \E price \in Prices \ {0} : FinalizeGroup(g, price)
                 \/ FlagOracleStalled(g)
                 \/ \E a \in Accounts : SettleAccountGroup(a, g) \/ ClaimSettlement(a, g)
                 \/ \E s \in SeriesIn(g) : \E qty \in 1..supply[s] : RedeemWrapper(s, qty)
          PROVE  FALSE
      <4>1. custody' = custody \/ UNCHANGED <<insurance, balances>>
        BY <3>3 DEF FinalizeGroup, FlagOracleStalled, SettleAccountGroup,
           ClaimSettlement, RedeemWrapper
      <4> QED BY <4>1
    <3> QED BY <2>7, <3>1, <3>2, <3>3 DEF SettlementStep
  <2>8. CASE SurroundingsStep
    BY <2>8 DEF SurroundingsStep, Tick, SetSpot, SetSurface, SetEmergencyMode, SetPaused,
       SetProductCloseOnly, DepositInsurance, FundKeeperReserve, WithdrawTreasury
  <2>9. CASE UNCHANGED vars
    BY <2>9 DEF vars
  <2> QED BY <2>5, <2>6, <2>7, <2>8, <2>9 DEF Next
<1>2. IType => TypeOK
  BY DEF IType
<1> QED
  BY <1>1, <1>2, ITypeCorrect, PTL DEF Spec, TokensConserved

-----------------------------------------------------------------------------
(* Open interest                                                           *)

LEMMA ShortsFall ==
  ASSUME NEW b \in BalanceTable, NEW c \in BalanceTable, NEW s \in Series,
         \A x \in Accounts : Neg(c[x][s]) <= Neg(b[x][s])
  PROVE  ShortsOf(c, s) <= ShortsOf(b, s)
<1> DEFINE f == [x \in Accounts |-> Neg(c[x][s])]
           h == [x \in Accounts |-> Neg(b[x][s])]
<1>1. \A x \in Accounts : f[x] \in Nat /\ h[x] \in Nat /\ f[x] <= h[x]
  BY DEF BalanceTable, Neg
<1>2. ShortsOf(c, s) = Total(Accounts, f) /\ ShortsOf(b, s) = Total(Accounts, h)
  BY DEF ShortsOf
<1> HIDE DEF f, h
<1> QED
  BY <1>1, <1>2, TotalMonotone, BookAssumption

LEMMA LongsFall ==
  ASSUME NEW b \in BalanceTable, NEW c \in BalanceTable, NEW s \in Series,
         \A x \in Accounts : Pos(c[x][s]) <= Pos(b[x][s])
  PROVE  LongsOf(c, s) <= LongsOf(b, s)
<1> DEFINE f == [x \in Accounts |-> Pos(c[x][s])]
           h == [x \in Accounts |-> Pos(b[x][s])]
<1>1. \A x \in Accounts : f[x] \in Nat /\ h[x] \in Nat /\ f[x] <= h[x]
  BY DEF BalanceTable, Pos
<1>2. LongsOf(c, s) = Total(Accounts, f) /\ LongsOf(b, s) = Total(Accounts, h)
  BY DEF LongsOf
<1> HIDE DEF f, h
<1> QED
  BY <1>1, <1>2, TotalMonotone, BookAssumption

\* A slice moves a share of a position, never more than the position.
LEMMA SliceWithin ==
  ASSUME TypeOK, NEW a \in Accounts, NEW s \in Series, NEW bps \in SliceSizes
  PROVE  LET p == balances[a][s] m == SliceMove(a, s, bps)
         IN /\ p \in Int /\ m \in Int
            /\ p >= 0 => 0 <= m /\ m <= p
            /\ p < 0 => p <= m /\ m <= 0
<1> DEFINE p == balances[a][s]
           n == Pos(p) + Neg(p)
           k == (n * bps) \div Bps
           moved == (k \div MinQty) * MinQty
<1>1. /\ p \in Int /\ bps \in Nat /\ bps <= Bps /\ Bps \in Nat \ {0} /\ MinQty \in Nat \ {0}
  BY LiquidationAssumption, ProtocolAssumption DEF TypeOK
<1>2. SliceMove(a, s, bps) = IF p < 0 THEN -moved ELSE moved
  BY DEF SliceMove
<1>3. n \in Nat /\ n = (IF p < 0 THEN -p ELSE p)
  <2> HIDE DEF p
  <2> QED BY <1>1 DEF Pos, Neg
<1> HIDE DEF p, n
<1>4. k \in Nat /\ k <= n
  <2> DEFINE y == n * bps
  <2>1. y \in Nat /\ y <= n * Bps
    <3>1. \A i, j, v \in Nat : i * j \in Nat /\ (j <= v => i * j <= i * v)
      BY SMT
    <3> QED BY <1>1, <1>3, <3>1
  <2>2. y \div Bps \in Nat /\ (y \div Bps) * Bps <= y
    <3> HIDE DEF y
    <3>1. \A i \in Nat, j \in Nat \ {0} : i \div j \in Nat /\ (i \div j) * j <= i
      BY SMT
    <3> QED BY <1>1, <2>1, <3>1
  <2> DEFINE q == y \div Bps
  <2>3. k = q
    OBVIOUS
  <2> HIDE DEF y, k, q
  <2>4. q \in Nat /\ q * Bps <= n * Bps
    <3>1. q \in Nat /\ q * Bps <= y
      BY <2>2 DEF q
    <3>2. q * Bps \in Int /\ n * Bps \in Int
      BY <1>1, <1>3, <3>1
    <3> QED BY <2>1, <3>1, <3>2
  <2>5. \A i, j \in Nat, v \in Nat \ {0} : i * v <= j * v => i <= j
    BY SMT
  <2> QED BY <1>1, <1>3, <2>3, <2>4, <2>5
<1> HIDE DEF k
<1>5. moved \in Nat /\ moved <= k
  <2>1. \A i \in Nat, j \in Nat \ {0} : (i \div j) * j \in Nat /\ (i \div j) * j <= i
    BY SMT
  <2> QED BY <1>1, <1>4, <2>1
<1> HIDE DEF moved
<1>6. 0 <= moved /\ moved <= n
  BY <1>3, <1>4, <1>5
<1>7. SliceMove(a, s, bps) \in Int
  BY <1>2, <1>5
<1>8. p >= 0 => 0 <= SliceMove(a, s, bps) /\ SliceMove(a, s, bps) <= p
  BY <1>1, <1>2, <1>3, <1>5, <1>6
<1>9. p < 0 => p <= SliceMove(a, s, bps) /\ SliceMove(a, s, bps) <= 0
  BY <1>1, <1>2, <1>3, <1>5, <1>6
<1> QED
  BY <1>1, <1>7, <1>8, <1>9 DEF p

\* A slice moves positions between two accounts and opens no new ones.
LEMMA SliceAddsNothing ==
  ASSUME TypeOK, NEW a \in Accounts, NEW l \in Accounts, NEW u \in Underlyings,
         NEW bps \in SliceSizes, a # l, NEW s \in Series
  PROVE  ShortsOf(Sliced(a, u, l, bps), s) <= ShortsOf(balances, s)
<1> DEFINE b == Sliced(a, u, l, bps)
           m == IF s \in UnexpiredLegs(a, u) THEN SliceMove(a, s, bps) ELSE 0
           p == balances[a][s]
           q == balances[l][s]
<1>1. b \in BalanceTable /\ balances \in BalanceTable
  BY SlicedType, LiquidationAssumption, ReadableType DEF TypeOK
<1>2. /\ b[a][s] = p - m /\ b[l][s] = q + m
      /\ \A x \in Accounts \ {a, l} : b[x][s] = balances[x][s]
  BY DEF Sliced
<1>3. /\ p \in Int /\ q \in Int /\ m \in Int
      /\ p >= 0 => 0 <= m /\ m <= p
      /\ p < 0 => p <= m /\ m <= 0
  BY <1>1, SliceWithin, RowType
<1> HIDE DEF b, m
<1>4. \A x \in Accounts : Pos(balances[x][s]) \in Int /\ Neg(balances[x][s]) \in Int
  BY <1>1, RowType DEF Pos, Neg
<1>5. CASE p >= 0
  <2>1. Neg(b[a][s]) <= Neg(p) /\ Neg(b[l][s]) <= Neg(q)
    <3> HIDE DEF p, q
    <3> QED BY <1>2, <1>3, <1>5 DEF Neg
  <2>2. \A x \in Accounts : Neg(b[x][s]) <= Neg(balances[x][s])
    BY <1>2, <1>4, <2>1
  <2> QED BY <1>1, <2>2, ShortsFall DEF b
<1>6. CASE p < 0
  <2>1. Pos(b[a][s]) <= Pos(p) /\ Pos(b[l][s]) <= Pos(q)
    <3> HIDE DEF p, q
    <3> QED BY <1>2, <1>3, <1>6 DEF Pos
  <2>2. \A x \in Accounts : Pos(b[x][s]) <= Pos(balances[x][s])
    BY <1>2, <1>4, <2>1
  <2>3. LongsOf(b, s) <= LongsOf(balances, s)
    BY <1>1, <2>2, LongsFall
  <2>4. b[a][s] + b[l][s] = balances[a][s] + balances[l][s]
    BY <1>2, <1>3
  <2>5. LongsOf(b, s) - ShortsOf(b, s) = LongsOf(balances, s) - ShortsOf(balances, s)
    BY <1>1, <1>2, <2>4, TwoBalances
  <2>6. /\ LongsOf(b, s) \in Nat /\ ShortsOf(b, s) \in Nat
        /\ LongsOf(balances, s) \in Nat /\ ShortsOf(balances, s) \in Nat
    BY <1>1, SidesType
  <2> QED BY <2>3, <2>5, <2>6 DEF b
<1> QED
  BY <1>3, <1>5, <1>6

\* Open interest in a series grows only while its market is open: a fresh spot, a
\* fresh surface of enough confidence, no emergency, no close-only flag, and seeded
\* funds; no slice, close or unwrap ever adds to it (OptionClearing._checkOpenRisk,
\* PortfolioRiskManager.isProductCloseOnly; INV-12, INV-24).
THEOREM RiskNeedsOpenMarket == Spec => RiskGrowsOnlyWhenOpen
<1>1. TypeOK /\ FinalAfterExpiry /\ TypeOK' /\ [Next]_vars =>
        [\A s \in Series :
           ShortsOf(balances', s) > ShortsOf(balances, s) =>
             /\ Unexpired(s)
             /\ spot[Info[s].underlying] # 0
             /\ surface[Info[s].underlying] = "FRESH"
             /\ Info[s].underlying \notin doubtful \cup emergency \cup closeOnly
             /\ ReservesHealthy]_vars
  <2> DEFINE Open(s) == /\ Unexpired(s)
                        /\ spot[Info[s].underlying] # 0
                        /\ surface[Info[s].underlying] = "FRESH"
                        /\ Info[s].underlying \notin doubtful \cup emergency \cup closeOnly
                        /\ ReservesHealthy
  <2> SUFFICES ASSUME TypeOK, FinalAfterExpiry, TypeOK', [Next]_vars,
                      NEW s \in Series, ShortsOf(balances', s) > ShortsOf(balances, s)
               PROVE  Open(s)
    OBVIOUS
  <2> HIDE DEF Open
  <2>1. /\ balances \in BalanceTable /\ balances' \in BalanceTable
        /\ balances \in [Accounts -> [Series -> Int]]
        /\ \A x \in Accounts : balances[x][s] \in Int /\ balances'[x][s] \in Int
        /\ 1..MaxQty \subseteq Nat \ {0}
    BY ClearingAssumption DEF TypeOK, BalanceTable
  <2>2. ~(ShortsOf(balances', s) <= ShortsOf(balances, s))
    BY <2>1, SidesType
  <2>3. ~\A x \in Accounts : Neg(balances'[x][s]) <= Neg(balances[x][s])
    BY <2>1, <2>2, ShortsFall
  <2>4. PICK x \in Accounts : ~(Neg(balances'[x][s]) <= Neg(balances[x][s]))
    BY <2>3
  <2>5. balances'[x][s] < balances[x][s] /\ balances'[x][s] < 0
    BY <2>1, <2>4 DEF Neg
  <2>6. ASSUME NEW a \in Accounts, NEW t \in Series, NEW qty \in 1..MaxQty,
               MintExternalLong(a, t, qty)
        PROVE  Open(s)
    <3>1. /\ balances' = Moved(balances, a, t, -qty)
          /\ CheckOpenRisk(balances', t) /\ spot[Info[t].underlying] # 0
          /\ OraclesReadable(balances', a, Strict)
      BY <2>6 DEF MintExternalLong, RequireHealthy
    <3>2. x = a /\ s = t
      BY <2>1, <2>5, <3>1 DEF Moved
    <3>3. Unexpired(s) /\ ~IsProductCloseOnly(Info[s].underlying)
      BY <3>1, <3>2 DEF CheckOpenRisk
    <3>4. s \in LiveLegs(balances', a, Info[s].underlying)
      BY <2>5, <3>2, <3>3, LiveIsOpen DEF LiveLegs, InBucket, Held
    <3>5. surface[Info[s].underlying] \in Strict
      BY <3>1, <3>3, <3>4 DEF OraclesReadable, Underlyings
    <3>6. Info[s].underlying \notin doubtful \cup emergency \cup closeOnly /\ ReservesHealthy
      BY <3>3 DEF IsProductCloseOnly
    <3> QED BY <3>1, <3>2, <3>3, <3>5, <3>6 DEF Open, Strict
  <2>7. ASSUME NEW a \in Accounts, NEW t \in Series, NEW qty \in Nat,
               balances' = Moved(balances, a, t, qty)
        PROVE  FALSE
    BY <2>1, <2>5, <2>7 DEF Moved
  <2>8. CASE ClearingStep
    <3>1. ASSUME NEW a \in Accounts, NEW t \in Series, NEW qty \in 1..MaxQty,
                 WrapLong(a, t, qty)
          PROVE  FALSE
      <4>1. balances' = Moved(balances, a, t, -qty) /\ balances[a][t] >= qty
        BY <3>1 DEF WrapLong
      <4> QED BY <2>1, <2>5, <4>1 DEF Moved
    <3>2. ASSUME NEW a \in Accounts, NEW t \in Series, NEW qty \in 1..MaxQty,
                 UnwrapLong(a, t, qty) \/ CloseShortWithWrapper(a, t, qty)
          PROVE  FALSE
      BY <2>1, <2>7, <3>2 DEF UnwrapLong, CloseShortWithWrapper
    <3>3. ASSUME NEW from \in Accounts, NEW to \in Accounts, NEW t \in Series,
                 NEW qty \in 1..MaxQty, CloseShortWithInternalLong(from, to, t, qty)
          PROVE  FALSE
      <4>1. /\ balances' = Moved(Moved(balances, from, t, -qty), to, t, qty)
            /\ balances[from][t] >= qty /\ balances[to][t] <= -qty
        BY <3>3 DEF CloseShortWithInternalLong
      <4>2. /\ qty \in Nat \ {0} /\ from # to
        BY <2>1, <4>1
      <4>3. s = t /\ x \in {from, to}
        BY <2>1, <2>5, <4>1, <4>2 DEF Moved
      <4>4. balances'[from][t] = balances[from][t] - qty /\ balances'[to][t] = balances[to][t] + qty
        BY <2>1, <4>1, <4>2 DEF Moved
      <4> QED BY <2>1, <2>5, <4>1, <4>2, <4>3, <4>4
    <3>4. ASSUME NEW a \in Accounts, NEW amount \in Amounts,
                 DepositCollateral(a, amount) \/ WithdrawCollateral(a, amount)
          PROVE  FALSE
      BY <2>1, <2>5, <3>4 DEF DepositCollateral, WithdrawCollateral
    <3> QED BY <2>6, <2>8, <3>1, <3>2, <3>3, <3>4 DEF ClearingStep
  <2>9. CASE LiquidationStep
    <3>1. ASSUME NEW a \in Accounts, NEW l \in Accounts, NEW u \in Underlyings,
                 NEW bps \in SliceSizes, LiquidateSlice(a, u, l, bps)
          PROVE  FALSE
      <4>1. balances' = Sliced(a, u, l, bps) /\ a # l
        BY <3>1 DEF LiquidateSlice, Liquidate
      <4> QED BY <2>2, <4>1, SliceAddsNothing
    <3>2. ASSUME NEW a \in Accounts, NEW l \in Accounts, NEW t \in Series,
                 NEW qty \in 1..supply[t], LiquidateWithWrapper(a, t, qty, l)
          PROVE  FALSE
      <4>1. balances' = Moved(balances, a, t, qty)
        BY <3>2 DEF LiquidateWithWrapper, Liquidate
      <4>2. qty \in Nat
        BY DEF TypeOK
      <4> QED BY <2>7, <4>1, <4>2
    <3>3. ASSUME NEW a \in Accounts, NEW u \in Underlyings,
                 StartAuction(a, u) \/ EndAuction(a, u)
          PROVE  FALSE
      BY <2>1, <2>5, <3>3 DEF StartAuction, EndAuction
    <3> QED BY <2>9, <3>1, <3>2, <3>3 DEF LiquidationStep
  <2>10. CASE SettlementStep
    <3>1. ASSUME NEW a \in Accounts, NEW g \in Groups, SettleAccountGroup(a, g)
          PROVE  FALSE
      <4>1. balances' = [balances EXCEPT
              ![a] = [t \in Series |-> IF t \in SeriesIn(g) THEN 0 ELSE @[t]]]
        BY <3>1 DEF SettleAccountGroup
      <4> QED BY <2>1, <2>5, <4>1
    <3>2. balances' = balances \/ \E a \in Accounts, g \in Groups : SettleAccountGroup(a, g)
      BY <2>10 DEF SettlementStep, FinalizeGroup, FlagOracleStalled, ClaimSettlement,
         ComputeRecoveryRatio, RedeemWrapper, SweepDust
    <3> QED BY <2>1, <2>5, <3>1, <3>2
  <2>11. CASE SurroundingsStep
    BY <2>1, <2>5, <2>11 DEF SurroundingsStep, Tick, SetSpot, SetSurface, SetEmergencyMode, SetPaused,
       SetProductCloseOnly, DepositInsurance, FundKeeperReserve, WithdrawTreasury
  <2>12. CASE UNCHANGED vars
    BY <2>1, <2>5, <2>12 DEF vars
  <2> QED BY <2>8, <2>9, <2>10, <2>11, <2>12 DEF Next
<1>2. IAll => TypeOK /\ FinalAfterExpiry
  BY DEF IAll, IType, IGroups
<1> QED
  BY <1>1, <1>2, IAllCorrect, PTL DEF Spec, RiskGrowsOnlyWhenOpen

=============================================================================
