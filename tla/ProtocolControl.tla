--------------------------- MODULE ProtocolControl ---------------------------
(***************************************************************************)
(* ProtocolControl.sol: roles, pause masks in three scopes, and close-only *)
(* products.  The first argument of an action is msg.sender.               *)
(***************************************************************************)
EXTENDS Integers, Sequences, FiniteSets

CONSTANTS
  Addresses,
  UpgradeAdminAddress,      \* the contract that may close products for an upgrade
  Bits,                     \* PauseBits
  ControlledAssets, ControlledProducts,  \* the ids of two scopes; the third is GLOBAL
  Roles,                    \* roles that are granted in the instance
  Global

ASSUME ControlAssumption ==
  /\ UpgradeAdminAddress \notin Addresses
  /\ "GOVERNANCE" \in Roles
  /\ Global \notin ControlledAssets \cup ControlledProducts /\ ControlledAssets \cap ControlledProducts = {}

Scopes == {Global} \cup ControlledAssets \cup ControlledProducts

VARIABLES
  roles,      \* the holders of each role
  paused,     \* the paused bits of each scope
  closeOnly   \* products that are close-only

controlVars == <<roles, paused, closeOnly>>

HasRole(role, x) == role \in Roles /\ x \in roles[role]

\* ProtocolControl.initialize, by the deployer.
ControlInit(admin) ==
  /\ roles = [role \in Roles |-> IF role = "GOVERNANCE" THEN {admin} ELSE {}]
  /\ paused = [scope \in Scopes |-> {}]
  /\ closeOnly = {}

\* AccessControl: GOVERNANCE is the admin of every role.
GrantRole(x, role, y) ==
  /\ HasRole("GOVERNANCE", x)
  /\ roles' = [roles EXCEPT ![role] = @ \cup {y}]
  /\ UNCHANGED <<paused, closeOnly>>

RevokeRole(x, role, y) ==
  /\ HasRole("GOVERNANCE", x)
  /\ roles' = [roles EXCEPT ![role] = @ \ {y}]
  /\ UNCHANGED <<paused, closeOnly>>

RenounceRole(x, role) ==
  /\ roles' = [roles EXCEPT ![role] = @ \ {x}]
  /\ UNCHANGED <<paused, closeOnly>>

Pause(x, scope, bits) ==
  /\ HasRole("GUARDIAN", x) \/ HasRole("GOVERNANCE", x)
  /\ paused' = [paused EXCEPT ![scope] = @ \cup bits]
  /\ UNCHANGED <<roles, closeOnly>>

\* Mutant: the guardian may unpause what it paused.
Unpause_ByGuardian(x, scope, bits) ==
  /\ HasRole("GUARDIAN", x) \/ HasRole("GOVERNANCE", x)
  /\ paused' = [paused EXCEPT ![scope] = @ \ bits]
  /\ UNCHANGED <<roles, closeOnly>>

Unpause(x, scope, bits) ==
  /\ HasRole("GOVERNANCE", x)
  /\ paused' = [paused EXCEPT ![scope] = @ \ bits]
  /\ UNCHANGED <<roles, closeOnly>>

\* An action of a product in an asset is paused by any of its three scopes.
IsPaused(bit, asset, product) ==
  bit \in paused[Global] \cup paused[asset] \cup paused[product]

MayClose(x) ==
  HasRole("GUARDIAN", x) \/ HasRole("GOVERNANCE", x) \/ x = UpgradeAdminAddress

SetProductCloseOnly(x, product, on) ==
  /\ IF on THEN MayClose(x) ELSE HasRole("GOVERNANCE", x)
  /\ closeOnly' = IF on THEN closeOnly \cup {product} ELSE closeOnly \ {product}
  /\ UNCHANGED <<roles, paused>>

ControlStep(x) ==
  \/ \E role \in Roles, y \in Addresses : GrantRole(x, role, y) \/ RevokeRole(x, role, y)
  \/ \E role \in Roles : RenounceRole(x, role)
  \/ \E scope \in Scopes, bits \in SUBSET Bits \ {{}} :
       Pause(x, scope, bits) \/ Unpause(x, scope, bits)
  \/ \E product \in ControlledProducts, on \in BOOLEAN : SetProductCloseOnly(x, product, on)

ControlNext == \E x \in Addresses : ControlStep(x)

ControlSpec == (\E admin \in Addresses : ControlInit(admin)) /\ [][ControlNext]_controlVars

-----------------------------------------------------------------------------
(* Properties *)

ReducesRisk ==
  /\ \A bit \in Bits, asset \in ControlledAssets, product \in ControlledProducts :
       IsPaused(bit, asset, product) => IsPaused(bit, asset, product)'
  /\ closeOnly \subseteq closeOnly'
  /\ \A role \in Roles : roles'[role] \subseteq roles[role]

\* Whoever does not hold GOVERNANCE only reduces risk: whatever roles were
\* granted and taken back before and whatever scopes its pauses come from, a
\* paused action of a product, a close-only product and a missing role stay so
\* in a step of such a sender (INV-53).
OnlyGovernanceAddsRisk ==
  [][ReducesRisk \/ \A x \in Addresses : ControlStep(x) => HasRole("GOVERNANCE", x)]_controlVars

=============================================================================
