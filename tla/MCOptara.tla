------------------------------ MODULE MCOptara ------------------------------
(***************************************************************************)
(* Instances of the core protocol.  The pricer is intrinsic value plus one *)
(* unit of time value; margins shock the spot by half.                     *)
(***************************************************************************)
EXTENDS Optara, TLC

CONSTANTS alice, bob, btc, eth, usdc, near, far, call, put, late, high

MCBlack76(s, price) == Intrinsic(s, price) + 1

Option(u, g, isCall, strike, size, expiry) ==
  [underlying |-> u, asset |-> usdc, group |-> g, isCall |-> isCall,
   strike |-> strike, size |-> size, expiry |-> expiry]

\* A call and a put of one group: positions net at settlement.
MCOneGroup ==
  (call :> Option(btc, near, TRUE, 2, 1, 1)) @@ (put :> Option(btc, near, FALSE, 4, 1, 1))

\* Two groups that expire one after the other and share cash and insurance.
MCTwoGroups ==
  (call :> Option(btc, near, TRUE, 2, 1, 1)) @@ (late :> Option(btc, far, TRUE, 2, 1, 2))

\* Contracts large enough for bonus and penalty to be a few units.
MCLarge ==
  (call :> Option(btc, near, TRUE, 4, 5, 3)) @@ (high :> Option(btc, near, TRUE, 8, 5, 3))

\* One call, for the guardian, the fees and the oracle outages.
MCOneCall == call :> Option(btc, near, TRUE, 2, 1, 1)

\* Collateral deposited before the instance starts.
MCCash == (alice :> 3) @@ (bob :> 1)

MCWriterCash == (alice :> 5) @@ (bob :> 1)

MCShocks == {-5000, 5000}
MCNoShocks == {}

-----------------------------------------------------------------------------
(* Books to liquidate.  At spot 2 both satisfy the initial margin, so deposits *)
(* and mints lead to them; at 4 and 6 alice is below maintenance.             *)

\* alice has written two calls, and the wrappers are sold.
NakedShort ==
  /\ balances = (alice :> (call :> -2 @@ high :> 0)) @@ (bob :> (call :> 0 @@ high :> 0))
  /\ supply = (call :> 2 @@ high :> 0)
  /\ cash = (alice :> 16) @@ (bob :> 40)

\* alice has written one call and holds two higher ones that bob wrote.
BackSpread ==
  /\ balances = (alice :> (call :> -1 @@ high :> 2)) @@ (bob :> (call :> 0 @@ high :> -2))
  /\ supply = (call :> 1 @@ high :> 0)
  /\ cash = (alice :> 0) @@ (bob :> 40)

BookInit ==
  /\ NakedShort \/ BackSpread
  /\ now = 1
  /\ spot = [u \in Underlyings |-> 2]
  /\ publishTime = [u \in Underlyings |-> 0]
  /\ surface = [u \in Underlyings |-> "FRESH"] /\ doubtful = {} /\ emergency = {}
  /\ paused = {} /\ closeOnly = {}
  /\ custody = Total(Accounts, cash)
  /\ insurance = InitInsurance
  /\ keeperReserve = InitReserve /\ treasury = 0
  /\ groups = [g \in Groups |-> NoAccounting]
  /\ creditN = [a \in Accounts |-> [g \in Groups |-> 0]]
  /\ auctions = [a \in Accounts |-> [u \in Underlyings |-> 0]]

BookSpec == BookInit /\ [][Next]_vars

=============================================================================
