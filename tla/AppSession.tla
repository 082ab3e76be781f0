----------------------------- MODULE AppSession -----------------------------
(***************************************************************************)
(* A session of the web app: the connected wallet, the subaccount selected *)
(* for it (state.tsx), and the buttons that run an action step by step     *)
(* (components/TxButton.tsx, lib/optara/tx.ts, lib/optara/actions.ts).     *)
(* The user may switch wallets at any time, also while a transaction is    *)
(* being mined; a run keeps the wallet, the callbacks and the arguments it *)
(* was started with.                                                       *)
(***************************************************************************)
EXTENDS Integers, Sequences, FiniteSets

CONSTANTS
  Wallets, AccountIds, None,
  Forms,                       \* buttons on the page
  StorageKinds,                \* may localStorage be used?
  MaxSwitches, MaxPresses      \* bounds; presses of each form

VARIABLES
  owner,      \* [AccountIds -> Wallets or None]: createSubAccount
  paid,       \* deposits: {<<payer, account, form>>}
  allowance,  \* [Wallets -> BOOLEAN]: approve(clearing)
  landed,     \* [step -> how often it was mined]
  address,    \* the connected wallet
  data,       \* [Wallets -> SUBSET AccountIds]: the cached query, or NotRead
  stored,     \* [Wallets -> AccountIds or None]: localStorage
  chosen, optimistic,
  storage,    \* localStorage can be written and read
  acked,      \* the disclosures are acknowledged in localStorage
  asking,     \* the form whose disclosures are shown, or None
  runs,       \* [Forms -> the run of the button, or NoRun]
  presses, failed, switches, strayed

chainVars == <<owner, paid, allowance, landed>>
accountVars == <<data, stored, chosen, optimistic>>
boundVars == <<presses, failed, switches, strayed>>
sessionVars == <<chainVars, address, accountVars, storage, acked, asking, runs, boundVars>>

NoRun == [i |-> 0]

Steps == [
  setup |-> <<"create", "approve", "deposit">>,
  deposit |-> <<"approve", "deposit">>,
  write |-> <<"mint", "approve", "sell">>,
  buy |-> <<"approve", "buy">> ]

ASSUME SessionAssumption ==
  /\ AccountIds \subseteq Nat
  /\ None \notin AccountIds /\ None \notin Wallets /\ None \notin Forms
  /\ {"setup", "write"} \subseteq Forms /\ Forms \subseteq DOMAIN Steps
  /\ StorageKinds \subseteq BOOLEAN

StepNames == {"create", "approve", "deposit", "mint", "sell", "buy"}

\* Forms that have disclosures to acknowledge.
Disclosed == {"write", "buy"}

SessionInit ==
  /\ owner = [id \in AccountIds |-> None] /\ paid = {}
  /\ allowance = [w \in Wallets |-> FALSE]
  /\ landed = [s \in StepNames |-> 0]
  /\ address \in Wallets
  /\ data = [w \in Wallets |-> {}] /\ stored = [w \in Wallets |-> None]
  /\ chosen = None /\ optimistic = {}
  /\ storage \in StorageKinds /\ acked = FALSE /\ asking = None
  /\ runs = [f \in Forms |-> NoRun]
  /\ presses = [f \in Forms |-> 0] /\ failed = [f \in Forms |-> 0] /\ switches = 0 /\ strayed = FALSE

Own(w) == {id \in AccountIds : owner[id] = w}

-----------------------------------------------------------------------------
(* AccountProvider                                                         *)

accounts == data[address] \cup optimistic

Least(ids) == CHOOSE id \in ids : \A j \in ids : id <= j

selected == IF chosen \in accounts THEN chosen
            ELSE IF accounts = {} THEN None ELSE Least(accounts)

Forget == {}

\* The effect on the wallet's key.
Connect(w) ==
  /\ w # address /\ switches < MaxSwitches /\ switches' = switches + 1
  /\ address' = w
  /\ optimistic' = Forget
  /\ chosen' = IF storage THEN stored[w] ELSE None
  /\ strayed' = FALSE
  /\ UNCHANGED <<chainVars, data, stored, storage, acked, asking, runs, presses, failed>>

\* The query is read again when it is stale and the window gets the focus.
Refetch ==
  /\ data[address] # Own(address)
  /\ data' = [data EXCEPT ![address] = Own(address)]
  /\ UNCHANGED <<chainVars, address, stored, chosen, optimistic, storage, acked, asking, runs, boundVars>>

\* select(id), as the page rendered for wallet w calls it.
Selecting(w, id) ==
  /\ optimistic' = optimistic \cup {id}
  /\ chosen' = id
  /\ stored' = IF storage THEN [stored EXCEPT ![w] = id] ELSE stored

Select(id) ==
  /\ id \in accounts /\ id # selected
  /\ Selecting(address, id)
  /\ UNCHANGED <<chainVars, address, data, storage, acked, asking, runs, boundVars>>

-----------------------------------------------------------------------------
(* TxButton: run()                                                         *)

\* Which forms the page shows: without an account only the setup and buying.
Shown(f) == CASE f = "setup" -> accounts = {}
              [] f \in {"deposit", "write"} -> selected # None
              [] OTHER -> TRUE

\* The steps are built with the selected account and the connected wallet.
Begin(f) == [i |-> 1, wallet |-> address, account |-> selected, created |-> None, sent |-> FALSE]

Idle(f) == runs[f] = NoRun

Pending(f) == f \in Disclosed /\ ~(storage /\ acked)

Press(f) ==
  /\ Shown(f) /\ Idle(f) /\ asking = None
  /\ presses[f] < MaxPresses[f] /\ presses' = [presses EXCEPT ![f] = @ + 1]
  /\ IF Pending(f) THEN asking' = f /\ UNCHANGED runs
     ELSE runs' = [runs EXCEPT ![f] = Begin(f)] /\ UNCHANGED asking
  /\ UNCHANGED <<chainVars, address, accountVars, storage, acked, failed, switches, strayed>>

\* Every disclosure ticked: acknowledge, close the modal, and run() again, which
\* asks again where nothing could be stored.
Accept(f) ==
  /\ asking = f
  /\ acked' = storage
  /\ IF acked'
     THEN asking' = None /\ runs' = [runs EXCEPT ![f] = Begin(f)]
     ELSE asking' = f /\ UNCHANGED runs
  /\ UNCHANGED <<chainVars, address, accountVars, storage, boundVars>>

Cancel ==
  /\ asking # None /\ asking' = None
  /\ UNCHANGED <<chainVars, address, accountVars, storage, acked, runs, boundVars>>

Step(f) == Steps[f][runs[f].i]

Running(f) == runs[f].i \in 1..Len(Steps[f])

Advance(f) == [runs EXCEPT ![f].i = @ + 1, ![f].sent = FALSE]

\* step.done(): an approval that is there already.
Skip(f) ==
  /\ Running(f) /\ ~runs[f].sent /\ Step(f) = "approve" /\ allowance[runs[f].wallet]
  /\ runs' = Advance(f)
  /\ UNCHANGED <<chainVars, address, accountVars, storage, acked, asking, boundVars>>

\* Mutant: the deposit of a setup goes to the selected account.
DepositTo_Selected(f) == selected

DepositTo(f) == IF f = "setup" THEN runs[f].created ELSE runs[f].account

\* send(): simulated, signed by the wallet and mined.
Land(f) == LET w == runs[f].wallet IN
  /\ Running(f) /\ ~runs[f].sent /\ ~(Step(f) = "approve" /\ allowance[w])
  /\ landed' = [landed EXCEPT ![Step(f)] = @ + 1]
  /\ CASE Step(f) = "create" ->
            \E id \in AccountIds : /\ owner[id] = None /\ \A j \in AccountIds : j < id => owner[j] # None
                                   /\ owner' = [owner EXCEPT ![id] = w]
                                   /\ runs' = [runs EXCEPT ![f].sent = TRUE, ![f].created = id]
                                   /\ UNCHANGED <<paid, allowance>>
       [] Step(f) = "approve" ->
            /\ allowance' = [allowance EXCEPT ![w] = TRUE]
            /\ runs' = [runs EXCEPT ![f].sent = TRUE] /\ UNCHANGED <<owner, paid>>
       [] Step(f) = "deposit" ->
            /\ paid' = paid \cup {<<w, DepositTo(f), f>>}
            /\ runs' = [runs EXCEPT ![f].sent = TRUE] /\ UNCHANGED <<owner, allowance>>
       [] OTHER -> /\ runs' = [runs EXCEPT ![f].sent = TRUE] /\ UNCHANGED <<owner, paid, allowance>>
  /\ UNCHANGED <<address, accountVars, storage, acked, asking, boundVars>>

\* The receipt.
Receipt(f) ==
  /\ Running(f) /\ runs[f].sent
  /\ runs' = Advance(f)
  /\ UNCHANGED <<chainVars, address, accountVars, storage, acked, asking, boundVars>>

\* The simulation or the chain refuses the call, the wallet's user does, or no
\* receipt can be read of a transaction that was mined: the run is over.
Fail(f) ==
  /\ Running(f)
  /\ runs' = [runs EXCEPT ![f] = NoRun]
  /\ failed' = [failed EXCEPT ![f] = @ + 1]
  /\ UNCHANGED <<chainVars, address, accountVars, storage, acked, asking, presses, switches, strayed>>

\* All steps done: the queries are read anew, and a setup selects its account.
Finish(f) ==
  /\ runs[f] # NoRun /\ runs[f].i > Len(Steps[f])
  /\ runs' = [runs EXCEPT ![f] = NoRun]
  /\ data' = [data EXCEPT ![address] = Own(address)]
  /\ IF f = "setup"
     THEN /\ Selecting(runs[f].wallet, runs[f].created)
          /\ strayed' = (strayed \/ runs[f].wallet # address)
     ELSE UNCHANGED <<stored, chosen, optimistic, strayed>>
  /\ UNCHANGED <<chainVars, address, storage, acked, asking, presses, failed, switches>>

SessionNext ==
  \/ \E w \in Wallets : Connect(w)
  \/ Refetch \/ Cancel
  \/ \E id \in AccountIds : Select(id)
  \/ \E f \in Forms : Press(f) \/ Accept(f) \/ Skip(f) \/ Land(f) \/ Receipt(f) \/ Fail(f) \/ Finish(f)

SessionSpec == SessionInit /\ [][SessionNext]_sessionVars

-----------------------------------------------------------------------------
\* INVARIANT.  "the selected subaccount per wallet" (state.tsx:1): what the page
\* shows and deposits to belongs to the connected wallet.
SelectedIsOwn == selected # None => owner[selected] = address

\* INVARIANT.  The same, but for the account of a setup that finished under
\* another wallet than it was started with: until the next switch that account
\* stands selected for a wallet that does not own it.
SelectedIsOwnOrStrayed == SelectedIsOwn \/ strayed

\* INVARIANT.  Whatever is switched, selected or read anew meanwhile, the deposit
\* of a setup is paid by the wallet that created the account, into that account.
SetupPaysItself == \A p \in paid : p[3] = "setup" => p[2] \in Own(p[1])

Active(f) == IF runs[f] = NoRun THEN 0 ELSE 1

\* INVARIANT.  Steps that cannot be told to be done are repeated when the button
\* is pressed again; an account without its first deposit, or options written
\* and not sold, come from a run that failed half way or still goes on.
LeftoversFromFailures ==
  /\ landed["create"] - Cardinality({p \in paid : p[3] = "setup"}) <= failed["setup"] + Active("setup")
  /\ landed["mint"] - landed["sell"] <= failed["write"] + Active("write")

\* A session acts for the wallet that pays, and loses nothing silently.
SessionSafe == SelectedIsOwnOrStrayed /\ SetupPaysItself /\ LeftoversFromFailures

=============================================================================
