----------------------------- MODULE UpgradeAdmin -----------------------------
(***************************************************************************)
(* UpgradeAdmin.sol: proxies, and upgrades that wait.  A normal upgrade    *)
(* runs code that governance allows when it is scheduled and when it runs; *)
(* an emergency upgrade is scheduled by the council with a shorter delay   *)
(* and closes the affected products at once.  Code behind an address may   *)
(* change between the two (an account that is destroyed and created again). *)
(***************************************************************************)
EXTENDS ProtocolControl

CONSTANTS
  Proxies, Implementations, CodeHashes, NoCode, Nobody,
  Governance0, Council0, Deployer0,   \* the constructor's arguments
  UpgradeDelay, EmergencyDelay,
  MaxClock, MaxOperations             \* bounds of the instance

ASSUME UpgradeAssumption ==
  /\ UpgradeDelay \in Nat \ {0} /\ EmergencyDelay \in Nat \ {0}
  /\ {Governance0, Council0, Deployer0} \subseteq Addresses
  /\ Nobody \notin Addresses \cup Implementations
  /\ NoCode \notin CodeHashes
  /\ MaxClock \in Nat /\ MaxOperations \in Nat

VARIABLES
  elapsed,
  code,             \* the code hash at each implementation address
  implementationOf, \* of each proxy, Nobody before it is deployed
  implementationAllowed,
  governance, pendingGovernance, emergencyCouncil, deployer,
  controlWired,     \* protocolControl is set
  operations        \* by nonce; scheduledAt is the time of the event

seatVars == <<governance, pendingGovernance, emergencyCouncil, deployer, controlWired>>
proxyVars == <<implementationOf, implementationAllowed, operations>>
upgradeVars == <<elapsed, code, proxyVars, seatVars>>
adminVars == <<controlVars, upgradeVars>>

\* A call that does not reach ProtocolControl.
ControlUntouched == UNCHANGED <<controlVars, elapsed, code>>

OnlyGovernanceOrDeployer(x) == x = governance \/ x = deployer

AdminInit ==
  /\ ControlInit(Deployer0)
  /\ elapsed = 0
  /\ code \in [Implementations -> CodeHashes]
  /\ implementationOf = [p \in Proxies |-> Nobody]
  /\ implementationAllowed = {}
  /\ governance = Governance0 /\ pendingGovernance = Nobody
  /\ emergencyCouncil = Council0 /\ deployer = Deployer0
  /\ controlWired = FALSE
  /\ operations = <<>>

DeployProxy(x, proxy, impl) ==
  /\ ControlUntouched
  /\ OnlyGovernanceOrDeployer(x)
  /\ implementationOf[proxy] = Nobody
  /\ code[impl] # NoCode
  /\ implementationOf' = [implementationOf EXCEPT ![proxy] = impl]
  /\ UNCHANGED <<implementationAllowed, operations, seatVars>>

SetImplementationAllowed(x, hash, allowed) ==
  /\ ControlUntouched
  /\ x = governance
  /\ implementationAllowed' = IF allowed THEN implementationAllowed \cup {hash}
                              ELSE implementationAllowed \ {hash}
  /\ UNCHANGED <<implementationOf, operations, seatVars>>

-----------------------------------------------------------------------------
(* Scheduling *)

DelayOf(emergency) == IF emergency THEN EmergencyDelay ELSE UpgradeDelay

Schedule(proxy, impl, emergency) ==
  /\ implementationOf[proxy] # Nobody
  /\ code[impl] # NoCode
  /\ Len(operations) < MaxOperations
  /\ operations' = Append(operations,
       [proxy |-> proxy, implementation |-> impl, codeHash |-> code[impl],
        scheduledAt |-> elapsed, eta |-> elapsed + DelayOf(emergency),
        emergency |-> emergency, state |-> "PENDING"])
  /\ UNCHANGED <<implementationOf, implementationAllowed, seatVars>>

ScheduleUpgrade(x, proxy, impl) ==
  /\ ControlUntouched
  /\ x = governance
  /\ code[impl] \in implementationAllowed
  /\ Schedule(proxy, impl, FALSE)

\* UpgradeAdmin is itself the caller of setProductCloseOnly.
ScheduleEmergencyUpgrade(x, proxy, impl, affected) ==
  /\ x = emergencyCouncil
  /\ Schedule(proxy, impl, TRUE)
  /\ affected # {} => controlWired /\ MayClose(UpgradeAdminAddress)
  /\ closeOnly' = closeOnly \cup affected
  /\ UNCHANGED <<roles, paused, elapsed, code>>

-----------------------------------------------------------------------------
(* Execution and cancellation *)

SetState(id, state) == operations' = [operations EXCEPT ![id].state = state]

\* Mutant: an operation that was cancelled or executed runs again.
ExecuteUpgrade_AnyState(x, id) ==
  LET op == operations[id]
  IN /\ ControlUntouched
     /\ elapsed >= op.eta
     /\ code[op.implementation] = op.codeHash
     /\ op.emergency \/ op.codeHash \in implementationAllowed
     /\ SetState(id, "EXECUTED")
     /\ implementationOf' = [implementationOf EXCEPT ![op.proxy] = op.implementation]
     /\ UNCHANGED <<implementationAllowed, seatVars>>

\* Anyone may execute.
ExecuteUpgrade(x, id) ==
  LET op == operations[id]
  IN /\ ControlUntouched
     /\ op.state = "PENDING"
     /\ elapsed >= op.eta
     /\ code[op.implementation] = op.codeHash
     /\ op.emergency \/ op.codeHash \in implementationAllowed
     /\ SetState(id, "EXECUTED")
     /\ implementationOf' = [implementationOf EXCEPT ![op.proxy] = op.implementation]
     /\ UNCHANGED <<implementationAllowed, seatVars>>

CancelUpgrade(x, id) ==
  /\ ControlUntouched
  /\ x = governance \/ (operations[id].emergency /\ x = emergencyCouncil)
  /\ operations[id].state = "PENDING"
  /\ SetState(id, "CANCELLED")
  /\ UNCHANGED <<implementationOf, implementationAllowed, seatVars>>

-----------------------------------------------------------------------------
(* Seats *)

TransferGovernance(x, y) ==
  /\ ControlUntouched
  /\ x = governance
  /\ pendingGovernance' = y
  /\ UNCHANGED <<proxyVars, governance, emergencyCouncil, deployer, controlWired>>

AcceptGovernance(x) ==
  /\ ControlUntouched
  /\ x = pendingGovernance
  /\ governance' = x
  /\ pendingGovernance' = Nobody
  /\ UNCHANGED <<proxyVars, emergencyCouncil, deployer, controlWired>>

SetEmergencyCouncil(x, y) ==
  /\ ControlUntouched
  /\ x = governance
  /\ emergencyCouncil' = y
  /\ UNCHANGED <<proxyVars, governance, pendingGovernance, deployer, controlWired>>

SetProtocolControl(x) ==
  /\ ControlUntouched
  /\ OnlyGovernanceOrDeployer(x)
  /\ controlWired' = TRUE
  /\ UNCHANGED <<proxyVars, governance, pendingGovernance, emergencyCouncil, deployer>>

RenounceDeployer(x) ==
  /\ ControlUntouched
  /\ x = deployer
  /\ deployer' = Nobody
  /\ UNCHANGED <<proxyVars, governance, pendingGovernance, emergencyCouncil, controlWired>>

-----------------------------------------------------------------------------
(* Surroundings *)

ClockTick ==
  /\ elapsed < MaxClock
  /\ elapsed' = elapsed + 1
  /\ UNCHANGED <<controlVars, code, proxyVars, seatVars>>

ChangeCode(impl, hash) ==
  /\ code' = [code EXCEPT ![impl] = hash]
  /\ UNCHANGED <<controlVars, elapsed, proxyVars, seatVars>>

UpgradeNext ==
  \E x \in Addresses :
    \/ \E proxy \in Proxies, impl \in Implementations :
         \/ DeployProxy(x, proxy, impl)
         \/ ScheduleUpgrade(x, proxy, impl)
         \/ \E affected \in SUBSET ControlledProducts : ScheduleEmergencyUpgrade(x, proxy, impl, affected)
    \/ \E hash \in CodeHashes, allowed \in BOOLEAN : SetImplementationAllowed(x, hash, allowed)
    \/ \E id \in DOMAIN operations : ExecuteUpgrade(x, id) \/ CancelUpgrade(x, id)
    \/ \E y \in Addresses : TransferGovernance(x, y) \/ SetEmergencyCouncil(x, y)
    \/ AcceptGovernance(x)
    \/ SetProtocolControl(x)
    \/ RenounceDeployer(x)

AdminNext ==
  \/ UpgradeNext
  \/ ClockTick
  \/ \E impl \in Implementations, hash \in CodeHashes \cup {NoCode} : ChangeCode(impl, hash)
  \/ \E x \in Addresses, product \in ControlledProducts, on \in BOOLEAN :
       SetProductCloseOnly(x, product, on) /\ UNCHANGED upgradeVars

AdminSpec == AdminInit /\ [][AdminNext]_adminVars

-----------------------------------------------------------------------------
(* Properties *)

\* A proxy changes its implementation only by an operation that was announced
\* at least its delay ago and stands since then, and only to the code that was
\* announced, whatever happened to the address, the allowlist, the council and
\* governance in between (ACCESS_CONTROL.md:61).
Announced ==
  \A p \in Proxies :
    implementationOf[p] # Nobody /\ implementationOf'[p] # implementationOf[p] =>
      \E id \in DOMAIN operations :
        LET op == operations[id]
        IN /\ op.proxy = p /\ op.implementation = implementationOf'[p]
           /\ op.state = "PENDING" /\ operations'[id].state = "EXECUTED"
           /\ elapsed - op.scheduledAt >= (IF op.emergency THEN EmergencyDelay ELSE UpgradeDelay)
           /\ code[op.implementation] = op.codeHash
           /\ op.emergency \/ op.codeHash \in implementationAllowed

\* What was cancelled never runs and what has run never runs again, however
\* many operations follow: an operation is decided once.
DecidedOnce ==
  /\ Len(operations') >= Len(operations)
  /\ \A id \in DOMAIN operations :
       operations[id].state # "PENDING" => operations'[id] = operations[id]

\* Upgrades are announced, wait, and run at most once.
UpgradesAnnounced == [][Announced /\ DecidedOnce]_adminVars

=============================================================================
