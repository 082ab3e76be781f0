---------------------------- MODULE GroupLifecycle ----------------------------
(***************************************************************************)
(* What the contracts promise whoever settles from outside: a group of     *)
(* series is open, then finalized at a price that never changes, then      *)
(* redeemable once every account in it has settled; from its expiry on     *)
(* accounts only leave it.                                                 *)
(***************************************************************************)
EXTENDS Integers, FiniteSets

CONSTANTS Accounts, Groups, ExpiryOf

ASSUME LifecycleAssumption == ExpiryOf \in [Groups -> Nat]

VARIABLES
  now,
  stage,      \* OPEN, FINALIZED or REDEEMABLE
  members,    \* the accounts with a position in each group
  price       \* written with FINALIZED

lifecycleVars == <<now, stage, members, price>>

LifecycleInit ==
  /\ now = 0
  /\ stage = [g \in Groups |-> "OPEN"]
  /\ members = [g \in Groups |-> {}]
  /\ price = [g \in Groups |-> 0]

Advance ==
  /\ now' = now + 1
  /\ UNCHANGED <<stage, members, price>>

\* Mints and transfers move accounts in and out of a group until it expires;
\* after that they can close their positions until it is finalized.
Trade ==
  /\ \A g \in Groups :
       /\ members'[g] \subseteq Accounts
       /\ now >= ExpiryOf[g] => members'[g] \subseteq members[g]
       /\ stage[g] # "OPEN" => members'[g] = members[g]
  /\ members' = [g \in Groups |-> members'[g]]
  /\ UNCHANGED <<now, stage, price>>

Finalize(g, p) ==
  /\ stage[g] = "OPEN" /\ now >= ExpiryOf[g]
  /\ stage' = [stage EXCEPT ![g] = "FINALIZED"]
  /\ price' = [price EXCEPT ![g] = p]
  /\ UNCHANGED <<now, members>>

\* Accounts that have settled already, or were never in, are skipped.
Settle(accounts, g) ==
  /\ stage[g] = "FINALIZED"
  /\ members' = [members EXCEPT ![g] = @ \ accounts]
  /\ UNCHANGED <<now, stage, price>>

FixRatio(g) ==
  /\ stage[g] = "FINALIZED" /\ members[g] = {}
  /\ stage' = [stage EXCEPT ![g] = "REDEEMABLE"]
  /\ UNCHANGED <<now, members, price>>

LifecycleNext ==
  \/ Advance
  \/ Trade
  \/ \E g \in Groups :
       \/ Finalize(g, price'[g])
       \/ \E a \in Accounts : Settle({a}, g)
       \/ FixRatio(g)

LifecycleSpec == LifecycleInit /\ [][LifecycleNext]_lifecycleVars

=============================================================================
