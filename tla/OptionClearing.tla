--------------------------- MODULE OptionClearing ---------------------------
(***************************************************************************)
(* OptionClearing.sol, the user-facing contract that keeps the tokens,     *)
(* with the seller fee of FeeController.sol it charges.  The caller of an  *)
(* action is always the account's owner or operator.                       *)
(***************************************************************************)
EXTENDS Protocol

CONSTANTS
  SellerFeeBps, MinSellerFee,      \* sellerOpenFeeBps, minSellerFeeNative
  InsuranceSplitBps, KeeperSplitBps,
  MinInsuranceSeed, MinKeeperReserve,
  MaxOpenInterest, MaxShortNotional,
  MaxTokens, MaxQty,               \* bounds of the instance: tokens, supply
  Amounts                          \* the amounts users move in the instance

ASSUME ClearingAssumption ==
  /\ SellerFeeBps \in Nat /\ MinSellerFee \in Nat
  /\ InsuranceSplitBps \in Nat /\ KeeperSplitBps \in Nat
  /\ InsuranceSplitBps + KeeperSplitBps <= Bps
  /\ MinInsuranceSeed \in Nat /\ MinKeeperReserve \in Nat
  /\ MaxTokens \in Nat /\ MaxQty \in Nat
  /\ Amounts \subseteq Nat \ {0}

-----------------------------------------------------------------------------
(* Collateral *)

\* All tokens in the protocol's contracts, and room for more in the instance.
TokensHeld == custody + insurance + keeperReserve + treasury
RoomFor(amount) == TokensHeld + amount <= MaxTokens

DepositCollateral(a, amount) ==
  /\ "DEPOSIT" \notin paused
  /\ RoomFor(amount)
  /\ cash' = Credit(cash, a, amount)
  /\ custody' = custody + amount
  /\ UNCHANGED <<marketVars, controlVars, balances, supply, insurance, feeVars,
                 settlementVars, auctions>>

WithdrawCollateral(a, amount) ==
  /\ "WITHDRAW" \notin paused
  /\ amount <= cash[a]
  /\ RequireHealthy(Debit(cash, a, amount), balances, a)
  /\ cash' = Debit(cash, a, amount)
  /\ custody' = custody - amount
  /\ UNCHANGED <<marketVars, controlVars, balances, supply, insurance, feeVars,
                 settlementVars, auctions>>

-----------------------------------------------------------------------------
(* Minting *)

ReservesHealthy ==
  insurance >= MinInsuranceSeed /\ keeperReserve >= MinKeeperReserve

\* Mutant: a surface in force is enough, whatever its confidence.
IsProductCloseOnly_AnyReport(u) ==
  \/ u \in closeOnly \/ surface[u] \in {"NONE", "EXPIRED_DATA"}
  \/ ~ReservesHealthy

\* A flag, a surface that is missing, too old, of low confidence or in emergency
\* mode, or funds below their minimum.
IsProductCloseOnly(u) ==
  \/ u \in closeOnly \/ surface[u] \in {"NONE", "EXPIRED_DATA"}
  \/ u \in doubtful \/ u \in emergency
  \/ ~ReservesHealthy

\* The mint, after the short is in table b.
CheckOpenRisk(b, s) ==
  /\ Unexpired(s)
  /\ ~IsProductCloseOnly(Info[s].underlying)
  /\ ShortsOf(b, s) <= MaxOpenInterest
  /\ ShortNotionalOf(b, ProductOf(s)) <= MaxShortNotional

\* The fee on the mark of the minted quantity, rounded up, with a minimum.
SellerFee(s, qty) ==
  AtLeast(MinSellerFee,
          DivUp(qty * Info[s].size * Black76(s, spot[Info[s].underlying])
                  * SellerFeeBps, Bps * Denom))

\* Mutant: the treasury gets its own rounded share, not the remainder.
CollectFee_TreasuryRounded(fee) ==
  /\ insurance' = insurance + (fee * InsuranceSplitBps) \div Bps
  /\ keeperReserve' = keeperReserve + (fee * KeeperSplitBps) \div Bps
  /\ treasury' =
       treasury + (fee * (Bps - InsuranceSplitBps - KeeperSplitBps)) \div Bps

\* A fee is split between insurance, keepers and the treasury's remainder.
CollectFee(fee) ==
  LET toInsurance == (fee * InsuranceSplitBps) \div Bps
      toKeeper    == (fee * KeeperSplitBps) \div Bps
  IN /\ insurance' = insurance + toInsurance
     /\ keeperReserve' = keeperReserve + toKeeper
     /\ treasury' = treasury + (fee - toInsurance - toKeeper)

ChargeFee(a, fee) ==
  cash' = Debit(cash, a, fee) /\ custody' = custody - fee /\ CollectFee(fee)

MintExternalLong(a, s, qty) ==
  LET b   == Moved(balances, a, s, -qty)
      fee == SellerFee(s, qty)
  IN /\ "MINT" \notin paused
     /\ ReservesHealthy
     /\ supply[s] + qty <= MaxQty
     /\ LedgerAccepts(balances, b, a)
     /\ CheckOpenRisk(b, s)
     /\ spot[Info[s].underlying] # 0
     /\ fee <= cash[a]
     /\ RequireHealthy(Debit(cash, a, fee), b, a)
     /\ ChargeFee(a, fee)
     /\ balances' = b
     /\ MintWrapper(s, qty)
     /\ UNCHANGED <<marketVars, controlVars, settlementVars, auctions>>

-----------------------------------------------------------------------------
(* Wrapping, unwrapping and closing: cash and custody do not move *)

WrapLong(a, s, qty) ==
  LET b == Moved(balances, a, s, -qty)
  IN /\ "WRAP" \notin paused
     /\ Unexpired(s)
     /\ balances[a][s] >= qty
     /\ LedgerAccepts(balances, b, a)
     /\ RequireHealthy(cash, b, a)
     /\ balances' = b
     /\ MintWrapper(s, qty)
     /\ UNCHANGED <<marketVars, controlVars, cash, custody, insurance, feeVars,
                    settlementVars, auctions>>

\* Mutant: expired wrappers can still be unwrapped.
UnwrapLong_Expired(a, s, qty) ==
  LET b == Moved(balances, a, s, qty)
  IN /\ "UNWRAP" \notin paused
     /\ qty <= supply[s]
     /\ LedgerAccepts(balances, b, a)
     /\ balances' = b
     /\ BurnWrapper(s, qty)
     /\ UNCHANGED <<marketVars, controlVars, cash, custody, insurance, feeVars,
                    settlementVars, auctions>>

UnwrapLong(a, s, qty) ==
  LET b == Moved(balances, a, s, qty)
  IN /\ "UNWRAP" \notin paused
     /\ Unexpired(s)
     /\ qty <= supply[s]
     /\ LedgerAccepts(balances, b, a)
     /\ balances' = b
     /\ BurnWrapper(s, qty)
     /\ UNCHANGED <<marketVars, controlVars, cash, custody, insurance, feeVars,
                    settlementVars, auctions>>

\* Closes are allowed after expiry, until the group is finalized.
CloseShortWithWrapper(a, s, qty) ==
  LET b == Moved(balances, a, s, qty)
  IN /\ "CLOSE" \notin paused
     /\ ~Finalized(s)
     /\ balances[a][s] <= -qty
     /\ qty <= supply[s]
     /\ LedgerAccepts(balances, b, a)
     /\ balances' = b
     /\ BurnWrapper(s, qty)
     /\ UNCHANGED <<marketVars, controlVars, cash, custody, insurance, feeVars,
                    settlementVars, auctions>>

CloseShortWithInternalLong(from, to, s, qty) ==
  LET b == Moved(Moved(balances, from, s, -qty), to, s, qty)
  IN /\ "CLOSE" \notin paused
     /\ ~Finalized(s)
     /\ balances[from][s] >= qty
     /\ balances[to][s] <= -qty
     /\ LedgerAccepts(balances, b, from)
     /\ LedgerAccepts(balances, b, to)
     /\ RequireHealthy(cash, b, from)
     /\ balances' = b
     /\ UNCHANGED <<marketVars, controlVars, cash, supply, custody, insurance,
                    feeVars, settlementVars, auctions>>

ClearingStep ==
  \/ \E a \in Accounts, amount \in Amounts :
       DepositCollateral(a, amount) \/ WithdrawCollateral(a, amount)
  \/ \E a \in Accounts, s \in Series, qty \in 1..MaxQty :
       \/ MintExternalLong(a, s, qty)
       \/ WrapLong(a, s, qty)
       \/ UnwrapLong(a, s, qty)
       \/ CloseShortWithWrapper(a, s, qty)
  \/ \E from, to \in Accounts, s \in Series, qty \in 1..MaxQty :
       CloseShortWithInternalLong(from, to, s, qty)

=============================================================================
